------------------------------ MODULE GateReview ------------------------------
(***************************************************************************)
(* Review of a gate's artifacts: the need-input requests that runGate()    *)
(* puts on them, one for each artifact and reviewer, the verdicts given    *)
(* through gateVerdict() (orchestrator.ts) and through the resolve route   *)
(* of the content service (content/service.ts), and edits of the same      *)
(* nodes meanwhile.  What the session does before and after its gate is    *)
(* the module Orchestrator's, which has one request for each attempt.      *)
(*                                                                         *)
(* A request is put on a node, and resolved, in a transaction that locks   *)
(* the row, hence in one step.  An edit reads the row and writes all of it *)
(* back without the lock.  PGlite runs one transaction at a time           *)
(* (serialized), PostgreSQL lets them overlap.                             *)
(***************************************************************************)
EXTENDS Naturals, Sequences, FiniteSets

CONSTANTS
  Art, Target,   \* the gate's artifacts, and whom it asks
  Reviewer,      \* concurrent calls for a verdict
  Editor,        \* concurrent edits
  None,
  Ops,           \* bound: which other calls are made
  MaxTry, MaxCalls, MaxCrash   \* bounds: attempts of the gate, other calls, crashes

ASSUME ReviewAssumption ==
  /\ {MaxTry, MaxCalls, MaxCrash} \subseteq Nat
  /\ Reviewer \cap Editor = {} /\ None \notin Reviewer \cup Editor \cup {{}}

VARIABLES
  serialized, \* the database runs one transaction at a time: it is PGlite
  node,       \* the artifacts' nodes: open requests, resolved ones, tags
  st, try,    \* the session's state, its attempts of the gate
  asking,     \* the requests runGate() still has to make; None: it is not at work
  asked, got, \* state_detail: the requests, and those with a verdict
  events,     \* the gate-verdict events of the present attempt
  lock,       \* gateLocks: who is inside withGateLock()
  pc, loc,    \* where each call is, and what it has read
  calls, crashes

session == <<st, try, asking, asked, got, events>>
bounds == <<serialized, calls, crashes>>
vars == <<node, session, lock, pc, loc, bounds>>

\* A request of the gate; one that a user made has try 0.
Req == [try : 0 .. MaxTry, art : Art, who : Target]
Requests(n) == [try : {n}, art : Art, who : Target]
Node == [open : SUBSET Req, hist : SUBSET Req, tags : SUBSET Target]
Fresh == [open |-> {}, hist |-> {}, tags |-> {}]
Call == Reviewer \cup Editor

TypeOK ==
  /\ serialized \in BOOLEAN
  /\ node \in [Art -> Node]
  /\ st \in {"queued", "running", "gated", "cancelled"} /\ try \in 0 .. MaxTry
  /\ asking \in (SUBSET Req) \cup {None} /\ asked \subseteq Req /\ got \subseteq asked
  /\ events \in Seq(Req)
  /\ lock \in Reviewer \cup {None}
  /\ \A c \in Reviewer : pc[c] \in {"idle", "lock", "resolve", "record"}
  /\ \A e \in Editor : pc[e] \in {"idle", "patch", "write"}
  /\ (lock = None) = (\A c \in Reviewer : pc[c] \notin {"resolve", "record"})
  /\ calls \in 0 .. MaxCalls /\ crashes \in 0 .. MaxCrash

Init ==
  /\ serialized \in BOOLEAN
  /\ node = [a \in Art |-> Fresh]
  /\ st = "queued" /\ try = 0 /\ asking = None /\ asked = {} /\ got = {} /\ events = << >>
  /\ lock = None
  /\ pc = [c \in Call |-> "idle"] /\ loc = [c \in Call |-> None]
  /\ calls = 0 /\ crashes = 0

Goto(c, label, l) == pc' = [pc EXCEPT ![c] = label] /\ loc' = [loc EXCEPT ![c] = l]
Other(op) == op \in Ops /\ calls < MaxCalls /\ calls' = calls + 1 /\ UNCHANGED <<serialized, crashes>>

\* No transaction is under way, or they may overlap.
Free == serialized => \A e \in Editor : pc[e] # "write"

-------------------------------------------------------------------------------
\* tagNeedInput() and resolveNeedInput(): the tags are those of the open requests.
Tags(open) == {r.who : r \in open}
Put(a, open, hist) == node' = [node EXCEPT ![a] = [open |-> open, hist |-> hist, tags |-> Tags(open)]]

Tag(r) ==
  /\ Free
  /\ Put(r.art, node[r.art].open \cup {r}, node[r.art].hist)

IsOpen(r) == r \in node[r.art].open
Resolve(r) ==
  /\ Free /\ IsOpen(r)
  /\ Put(r.art, node[r.art].open \ {r}, node[r.art].hist \cup {r})

-------------------------------------------------------------------------------
(***************************************************************************)
(* The session at its gate.                                                *)
(***************************************************************************)
Reach ==
  /\ st = "queued" /\ asking = None /\ try < MaxTry
  /\ st' = "running" /\ try' = try + 1 /\ asking' = Requests(try + 1) /\ events' = << >>
  /\ UNCHANGED <<node, asked, got, lock, pc, loc, bounds>>

\* runGate() makes its requests one by one; they can be seen at once.
Ask(r) ==
  /\ asking # None /\ r \in asking
  /\ Tag(r) /\ asking' = asking \ {r}
  /\ UNCHANGED <<st, try, asked, got, events, lock, pc, loc, bounds>>

\* Then the session is suspended, unless it was cancelled.
Park ==
  /\ asking = {} /\ asking' = None
  /\ IF st = "cancelled" THEN UNCHANGED <<st, asked, got>>
     ELSE st' = "gated" /\ asked' = Requests(try) /\ got' = {}
  /\ UNCHANGED <<node, try, events, lock, pc, loc, bounds>>

Cancel ==
  /\ Other("cancel") /\ st # "cancelled" /\ st' = "cancelled"
  /\ UNCHANGED <<node, try, asking, asked, got, events, lock, pc, loc>>

-------------------------------------------------------------------------------
(***************************************************************************)
(* gateVerdict().                                                          *)
(***************************************************************************)
\* The node is read before the lock is asked for.
ReadRequest(c, r) ==
  /\ pc[c] = "idle" /\ Free /\ IsOpen(r) /\ r.try > 0
  /\ Goto(c, "lock", [req |-> r, got |-> {}])
  /\ UNCHANGED <<node, session, lock, bounds>>

\* Mutant: a request with a verdict is answered again.
MayAnswerAgain(r) == st = "gated" /\ r \in asked

MayAnswer(r) == st = "gated" /\ r \in asked /\ r \notin got

\* The session's detail is read under the lock.
Enter(c) ==
  /\ pc[c] = "lock" /\ lock = None
  /\ IF MayAnswer(loc[c].req)
     THEN lock' = c /\ Goto(c, "resolve", [loc[c] EXCEPT !.got = got])
     ELSE Goto(c, "idle", None) /\ UNCHANGED lock
  /\ UNCHANGED <<node, session, bounds>>

\* Mutant: a call that fails keeps the lock.
Held == UNCHANGED lock

Unlock == lock' = None

Close(c) ==
  LET r == loc[c].req IN
  /\ pc[c] = "resolve"
  /\ \/ Resolve(r) /\ Goto(c, "record", loc[c]) /\ UNCHANGED lock
     \/ Free /\ ~IsOpen(r) /\ Unlock /\ Goto(c, "idle", None) /\ UNCHANGED node
  /\ UNCHANGED <<session, bounds>>

\* Mutant: one verdict decides.
CompleteWithOne(all) == all # {}

Complete(all) == asked \subseteq all

\* The verdict is counted; the last one sends the session on: resolveGate().
Record(c) ==
  LET all == loc[c].got \cup {loc[c].req} IN
  /\ pc[c] = "record"
  /\ events' = Append(events, loc[c].req)
  /\ IF ~Complete(all) THEN got' = all /\ UNCHANGED <<st, asked>>
     ELSE IF st = "cancelled" THEN UNCHANGED <<st, asked, got>>
     ELSE st' = "queued" /\ asked' = {} /\ got' = {}
  /\ Unlock /\ Goto(c, "idle", None)
  /\ UNCHANGED <<node, try, asking, bounds>>

Verdict(c) == (\E r \in Req : ReadRequest(c, r)) \/ Enter(c) \/ Close(c) \/ Record(c)

-------------------------------------------------------------------------------
(***************************************************************************)
(* The content service's own operations.                                   *)
(***************************************************************************)
\* A request that a user or a subagent makes.
TagPlain(r) ==
  /\ Other("plain") /\ r.try = 0 /\ ~IsOpen(r) /\ r \notin node[r.art].hist
  /\ Tag(r) /\ UNCHANGED <<session, lock, pc, loc>>

\* The resolve route takes every request, a gate's with a verdict.
ResolveRoute(r) ==
  /\ Other(IF r.try = 0 THEN "plain" ELSE "route")
  /\ Resolve(r) /\ UNCHANGED <<session, lock, pc, loc>>

\* patchNode() and updateArtifact() read the node; if tags are changed, the new
\* tags are computed from the requests that are open now.
Edit(e, a) ==
  /\ pc[e] = "idle" /\ Free
  /\ \/ Other("edit") /\ Goto(e, "patch", [art |-> a, tags |-> None, row |-> Fresh])
     \/ Other("retag") /\ Goto(e, "patch", [art |-> a, tags |-> Tags(node[a].open), row |-> Fresh])
  /\ UNCHANGED <<node, session, lock>>

\* patch(): the transaction reads the row ...
ReadRow(e) ==
  /\ pc[e] = "patch" /\ Free
  /\ Goto(e, "write", [loc[e] EXCEPT !.row = node[loc[e].art]])
  /\ UNCHANGED <<node, session, lock, bounds>>

\* ... and writes every property of it.
WriteRow(e) ==
  LET l == loc[e] IN
  /\ pc[e] = "write"
  /\ node' = [node EXCEPT ![l.art] = IF l.tags = None THEN l.row ELSE [l.row EXCEPT !.tags = l.tags]]
  /\ Goto(e, "idle", None)
  /\ UNCHANGED <<session, lock, bounds>>

\* A restart: calls and transactions are lost, the session is queued by recover().
Crash ==
  /\ crashes < MaxCrash /\ crashes' = crashes + 1
  /\ st' = IF st = "running" THEN "queued" ELSE st
  /\ asking' = None /\ lock' = None
  /\ pc' = [c \in Call |-> "idle"] /\ loc' = [c \in Call |-> None]
  /\ UNCHANGED <<node, try, asked, got, events, serialized, calls>>

Next ==
  \/ Reach \/ Park \/ Cancel \/ Crash
  \/ \E r \in Req : Ask(r) \/ TagPlain(r) \/ ResolveRoute(r)
  \/ \E c \in Reviewer : Verdict(c)
  \/ \E e \in Editor : ReadRow(e) \/ WriteRow(e) \/ \E a \in Art : Edit(e, a)

Spec == Init /\ [][Next]_vars

\* Statements are answered, calls get the gate lock in the order they asked for
\* it, and every request is taken up by somebody as long as it is open.
Fairness ==
  /\ WF_vars(\E r \in Req : Ask(r)) /\ WF_vars(Park)
  /\ \A c \in Reviewer : SF_vars(Enter(c)) /\ WF_vars(Close(c)) /\ WF_vars(Record(c))
  /\ \A e \in Editor : SF_vars(ReadRow(e)) /\ WF_vars(WriteRow(e))
  /\ \A r \in Req : SF_vars(\E c \in Reviewer : ReadRequest(c, r))

FairSpec == Spec /\ Fairness
-------------------------------------------------------------------------------
(***************************************************************************)
(* Properties.                                                             *)
(***************************************************************************)
\* A session leaves its gate only when all its requests are resolved on their nodes.
LeavesDecided ==
  [][st = "gated" /\ st' = "queued" /\ serialized =>
       \A r \in asked : r \in node[r.art].hist /\ ~IsOpen(r)]_vars

\* A verdict is recorded once for each request of an attempt and for no other
\* request, also when an edit has opened a resolved request again.
VerdictOnce ==
  /\ \A i, j \in DOMAIN events : events[i] = events[j] => i = j
  /\ \A i \in DOMAIN events : events[i].try = try

\* In PGlite, and while the process keeps running, a session at its gate leaves it if its
\* reviewers answer.  (In PostgreSQL an edit can write a resolved request's row over; after
\* a crash between a node's verdict and the session's record nobody counts the verdict.)
Answered == st = "gated" ~> st # "gated" \/ crashes > 0 \/ ~serialized
===============================================================================
