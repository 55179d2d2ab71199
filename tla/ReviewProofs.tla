----------------------------- MODULE ReviewProofs -----------------------------
(***************************************************************************)
(* The content service, for any artifacts, reviewers, editors, tasks and   *)
(* bounds: a verdict counts once, a gate is left when all is decided, and  *)
(* no task waits for itself.                                               *)
(*                                                                         *)
(* First VerdictOnce of GateReview.  A node cannot be trusted: an edit may *)
(* have opened a resolved request again.  What makes a verdict count once  *)
(* is the session's row, read and written under the gate's lock: a call    *)
(* inside the lock holds a request that the row has no verdict for, and    *)
(* nothing but such a call, a crash or the end of the session moves a      *)
(* session away from its gate.                                             *)
(***************************************************************************)
EXTENDS MCContent, FiniteSetTheorems, WellFoundedInduction, TLAPS

Inside(c) == pc[c] \in {"resolve", "record"}
Seen == {events[i] : i \in 1 .. Len(events)}

\* What Enter, Close and Record read and write of the calls and of the session.
Typed ==
  /\ pc \in [Call -> {"idle", "lock", "resolve", "record", "patch", "write"}]
  /\ DOMAIN loc = Call
  /\ \A c \in Reviewer : pc[c] # "idle" => loc[c] \in [req : Req, got : SUBSET Req]
  /\ events \in Seq(Req) /\ try \in 0 .. MaxTry /\ asked \subseteq Req /\ got \subseteq Req

\* A call inside the lock, with a request of the present attempt and without a verdict.
Holds(c) ==
  /\ lock = c /\ st \in {"gated", "cancelled"} /\ asking = None
  /\ loc[c].req.try = try /\ loc[c].req \notin Seen
  /\ loc[c].got = got

\* Where the session is in its attempt.
Stage ==
  /\ asking # None => st \in {"running", "cancelled"}
  /\ st = "running" => events = << >>
  /\ st = "gated" => /\ asking = None /\ Seen \subseteq got
                     /\ \A r \in asked : r.try = try

ReviewInv ==
  /\ Typed /\ Stage /\ VerdictOnce
  /\ \A c \in Reviewer : Inside(c) => Holds(c)

LEMMA Apart == Reviewer \cap Editor = {} /\ Reviewer \subseteq Call /\ Editor \subseteq Call /\ MaxTry \in Nat
BY ReviewAssumption DEF Call

LEMMA RequestsType == ASSUME NEW n \in 0 .. MaxTry
                      PROVE  Requests(n) \subseteq Req /\ \A r \in Requests(n) : r.try = n
BY DEF Requests, Req

\* A step of one call.
LEMMA Steps ==
  ASSUME Typed, NEW c \in Call, NEW label, NEW l, Goto(c, label, l)
  PROVE  /\ pc'[c] = label /\ loc'[c] = l /\ DOMAIN loc' = Call
         /\ \A d \in Call \ {c} : pc'[d] = pc[d] /\ loc'[d] = loc[d]
         /\ label \in {"idle", "lock", "resolve", "record", "patch", "write"} =>
              pc' \in [Call -> {"idle", "lock", "resolve", "record", "patch", "write"}]
BY DEF Typed, Goto

LEMMA ReviewInit == Init => ReviewInv
<1> SUFFICES ASSUME Init PROVE ReviewInv
  OBVIOUS
<1>1. Typed
  BY Apart DEF Init, Typed
<1>2. \A c \in Reviewer : ~Inside(c)
  BY Apart DEF Init, Inside
<1> QED BY <1>1, <1>2 DEF Init, ReviewInv, Stage, VerdictOnce

\* Steps in which only calls that are outside the lock move.
LEMMA Outside ==
  ASSUME ReviewInv, UNCHANGED <<session, lock>>, Typed',
         \A c \in Reviewer : Inside(c)' => Inside(c) /\ loc'[c] = loc[c]
  PROVE  ReviewInv'
BY DEF ReviewInv, Stage, VerdictOnce, Holds, Seen, session

\* Steps of the session, which moves while no call is inside the lock.
LEMMA Alone ==
  ASSUME Typed', Stage', VerdictOnce', \A c \in Reviewer : ~Inside(c)'
  PROVE  ReviewInv'
BY DEF ReviewInv

LEMMA SessionKeeps == ASSUME ReviewInv, Reach \/ Park \/ Cancel \/ Crash PROVE ReviewInv'
<1>1. CASE Reach
  <2>1. /\ st = "queued" /\ try' = try + 1 /\ try' \in 0 .. MaxTry /\ events' = << >> /\ st' = "running"
        /\ UNCHANGED <<asked, got, pc, loc>>
    BY <1>1, Apart DEF Reach, ReviewInv, Typed
  <2>2. \A c \in Reviewer : ~Inside(c)'
    BY <2>1 DEF ReviewInv, Holds, Inside
  <2> QED BY <2>1, <2>2 DEF ReviewInv, Typed, Stage, VerdictOnce
<1>2. CASE Park
  <2>1. UNCHANGED <<try, events, lock, pc, loc>> /\ asking = {} /\ asking' = None
    BY <1>2 DEF Park
  <2>2. CASE st = "cancelled"
    BY <1>2, <2>1, <2>2 DEF Park, ReviewInv, Typed, Stage, VerdictOnce, Holds, Inside, Seen
  <2>3. CASE st # "cancelled"
    <3>1. st' = "gated" /\ asked' = Requests(try) /\ got' = {}
      BY <1>2, <2>3 DEF Park
    <3>2. \A c \in Reviewer : ~Inside(c)
      <4> SUFFICES ASSUME NEW c \in Reviewer, Holds(c) PROVE FALSE
        BY DEF ReviewInv
      <4> QED BY <2>1, ReviewAssumption DEF Holds
    <3>3. events = << >>
      BY <2>1, <2>3, ReviewAssumption DEF ReviewInv, Stage
    <3>4. try \in 0 .. MaxTry
      BY DEF ReviewInv, Typed
    <3>5. Typed'
      BY <2>1, <3>1, <3>4, RequestsType DEF ReviewInv, Typed
    <3>6. Stage' /\ VerdictOnce'
      BY <2>1, <3>1, <3>3, <3>4, RequestsType DEF ReviewInv, Stage, VerdictOnce, Seen
    <3>7. \A c \in Reviewer : ~Inside(c)'
      BY <2>1, <3>2 DEF Inside
    <3> QED BY <3>5, <3>6, <3>7, Alone
  <2> QED BY <2>2, <2>3
<1>3. CASE Cancel
  <2>1. UNCHANGED <<try, asking, asked, got, events, lock, pc, loc>> /\ st' = "cancelled"
    BY <1>3 DEF Cancel
  <2> QED BY <2>1 DEF ReviewInv, Typed, Stage, VerdictOnce, Holds, Inside, Seen
<1>4. CASE Crash
  <2>1. /\ UNCHANGED <<try, asked, got, events>> /\ asking' = None
        /\ st' = IF st = "running" THEN "queued" ELSE st
        /\ pc' = [c \in Call |-> "idle"] /\ loc' = [c \in Call |-> None]
    BY <1>4 DEF Crash
  <2>2. Typed' /\ \A c \in Reviewer : ~Inside(c)'
    BY <2>1, Apart DEF ReviewInv, Typed, Inside
  <2>3. Stage' /\ VerdictOnce'
    BY <2>1 DEF ReviewInv, Stage, VerdictOnce, Seen
  <2> QED BY <2>2, <2>3, Alone
<1> QED BY <1>1, <1>2, <1>3, <1>4

LEMMA EditorKeeps ==
  ASSUME ReviewInv, NEW e \in Editor, ReadRow(e) \/ WriteRow(e) \/ \E a \in Art : Edit(e, a)
  PROVE  ReviewInv'
<1>1. UNCHANGED <<session, lock>>
  BY DEF ReadRow, WriteRow, Edit
<1>2. PICK label \in {"idle", "patch", "write"} : \E l : Goto(e, label, l)
  BY DEF ReadRow, WriteRow, Edit
<1>3. e \in Call /\ \A c \in Reviewer : c \in Call \ {e}
  BY Apart
<1>4. /\ DOMAIN loc' = Call /\ \A d \in Call \ {e} : pc'[d] = pc[d] /\ loc'[d] = loc[d]
      /\ pc' \in [Call -> {"idle", "lock", "resolve", "record", "patch", "write"}]
  BY <1>2, <1>3, Steps DEF ReviewInv
<1>5. Typed'
  BY <1>1, <1>3, <1>4 DEF ReviewInv, Typed, session
<1>6. \A c \in Reviewer : Inside(c)' => Inside(c) /\ loc'[c] = loc[c]
  BY <1>3, <1>4 DEF Inside
<1> QED BY <1>1, <1>5, <1>6, Outside

LEMMA NodesKeep ==
  ASSUME ReviewInv, NEW r \in Req, Ask(r) \/ TagPlain(r) \/ ResolveRoute(r)
  PROVE  ReviewInv'
<1>1. CASE Ask(r)
  <2>1. UNCHANGED <<st, try, asked, got, events, lock, pc, loc>> /\ asking # None
    BY <1>1 DEF Ask
  <2>2. st \in {"running", "cancelled"} /\ \A c \in Reviewer : ~Inside(c)
    BY <2>1 DEF ReviewInv, Stage, Holds
  <2> QED BY <2>1, <2>2 DEF ReviewInv, Typed, Stage, VerdictOnce, Inside, Seen
<1>2. CASE TagPlain(r) \/ ResolveRoute(r)
  <2>1. UNCHANGED <<session, lock, pc, loc>>
    BY <1>2 DEF TagPlain, ResolveRoute
  <2> QED BY <2>1, Outside DEF ReviewInv, Typed, Inside, session
<1> QED BY <1>1, <1>2

\* A call outside the lock, or one that leaves it without a verdict.
LEMMA CallOutside ==
  ASSUME ReviewInv, NEW c \in Reviewer, UNCHANGED session, NEW label \in {"idle", "lock"},
         NEW l, Goto(c, label, l), label # "idle" => l \in [req : Req, got : SUBSET Req],
         lock' = lock \/ (Inside(c) /\ lock' = None)
  PROVE  ReviewInv'
<1>1. /\ pc'[c] = label /\ loc'[c] = l /\ DOMAIN loc' = Call
      /\ \A d \in Call \ {c} : pc'[d] = pc[d] /\ loc'[d] = loc[d]
      /\ pc' \in [Call -> {"idle", "lock", "resolve", "record", "patch", "write"}]
  BY Apart, Steps DEF ReviewInv
<1>2. Typed'
  BY <1>1, Apart DEF ReviewInv, Typed, session
<1>3. \A d \in Reviewer : Inside(d)' => Holds(d)'
  <2> SUFFICES ASSUME NEW d \in Reviewer, Inside(d)' PROVE Holds(d)'
    OBVIOUS
  <2>1. d # c /\ d \in Call
    BY <1>1, Apart DEF Inside
  <2>2. Inside(d) /\ Holds(d)
    BY <1>1, <2>1 DEF Inside, ReviewInv
  <2>3. lock' = lock
    BY <2>1, <2>2 DEF ReviewInv, Holds
  <2> QED BY <1>1, <2>1, <2>2, <2>3 DEF Holds, Seen, session
<1>4. Stage' /\ VerdictOnce'
  BY DEF ReviewInv, Stage, VerdictOnce, Seen, session
<1> QED BY <1>2, <1>3, <1>4 DEF ReviewInv

LEMMA ReadKeeps == ASSUME ReviewInv, NEW c \in Reviewer, NEW r \in Req, ReadRequest(c, r) PROVE ReviewInv'
<1>1. UNCHANGED <<session, lock>> /\ Goto(c, "lock", [req |-> r, got |-> {}])
  BY DEF ReadRequest
<1>2. [req |-> r, got |-> {}] \in [req : Req, got : SUBSET Req]
  OBVIOUS
<1> QED BY <1>1, <1>2, CallOutside

LEMMA EnterKeeps == ASSUME ReviewInv, NEW c \in Reviewer, Enter(c) PROVE ReviewInv'
<1>1. UNCHANGED session /\ pc[c] = "lock" /\ lock = None /\ loc[c] \in [req : Req, got : SUBSET Req]
  BY DEF Enter, ReviewInv, Typed
<1>2. CASE ~MayAnswer(loc[c].req)
  BY <1>1, <1>2, CallOutside DEF Enter
<1>3. CASE MayAnswer(loc[c].req)
  <2> DEFINE l == [loc[c] EXCEPT !.got = got]
  <2>1. /\ st = "gated" /\ loc[c].req \in asked /\ loc[c].req \notin got
        /\ lock' = c /\ Goto(c, "resolve", l)
    BY <1>3 DEF MayAnswer, Enter
  <2>2. l \in [req : Req, got : SUBSET Req] /\ l.req = loc[c].req /\ l.got = got
    BY <1>1 DEF ReviewInv, Typed
  <2> HIDE DEF l
  <2>3. /\ pc'[c] = "resolve" /\ loc'[c] = l /\ DOMAIN loc' = Call
        /\ \A d \in Call \ {c} : pc'[d] = pc[d] /\ loc'[d] = loc[d]
        /\ pc' \in [Call -> {"idle", "lock", "resolve", "record", "patch", "write"}]
    BY <2>1, Apart, Steps DEF ReviewInv
  <2>4. Typed'
    BY <1>1, <2>2, <2>3, Apart DEF ReviewInv, Typed, session
  <2>5. \A d \in Reviewer \ {c} : ~Inside(d)'
    <3> SUFFICES ASSUME NEW d \in Reviewer \ {c}, Inside(d)' PROVE FALSE
      OBVIOUS
    <3>1. Inside(d)
      BY <2>3, Apart DEF Inside
    <3>2. lock = d
      BY <3>1 DEF ReviewInv, Holds
    <3> QED BY <1>1, <3>2, ReviewAssumption
  <2>6. Holds(c)'
    BY <1>1, <2>1, <2>2, <2>3 DEF ReviewInv, Stage, Holds, Seen, session
  <2>7. Stage' /\ VerdictOnce'
    BY <1>1 DEF ReviewInv, Stage, VerdictOnce, Seen, session
  <2> QED BY <2>4, <2>5, <2>6, <2>7 DEF ReviewInv
<1> QED BY <1>2, <1>3

LEMMA CloseKeeps == ASSUME ReviewInv, NEW c \in Reviewer, Close(c) PROVE ReviewInv'
<1>1. UNCHANGED session /\ pc[c] = "resolve" /\ Inside(c)
  BY DEF Close, Inside
<1>2. CASE Unlock /\ Goto(c, "idle", None)
  BY <1>1, <1>2, CallOutside DEF Unlock
<1>3. CASE Goto(c, "record", loc[c]) /\ UNCHANGED lock
  <2>1. /\ pc'[c] = "record" /\ loc'[c] = loc[c] /\ DOMAIN loc' = Call
        /\ \A d \in Call \ {c} : pc'[d] = pc[d] /\ loc'[d] = loc[d]
        /\ pc' \in [Call -> {"idle", "lock", "resolve", "record", "patch", "write"}]
    BY <1>3, Apart, Steps DEF ReviewInv
  <2>2. Typed'
    BY <1>1, <2>1, Apart DEF ReviewInv, Typed, session
  <2>3. \A d \in Reviewer : Inside(d)' => Inside(d) /\ loc'[d] = loc[d]
    BY <1>1, <2>1, Apart DEF Inside
  <2> QED BY <1>1, <1>3, <2>2, <2>3, Outside
<1> QED BY <1>2, <1>3 DEF Close

LEMMA RecordKeeps == ASSUME ReviewInv, NEW c \in Reviewer, Record(c) PROVE ReviewInv'
<1> DEFINE r == loc[c].req
<1> DEFINE n == Len(events)
<1>1. /\ Holds(c) /\ r \in Req /\ loc[c].got = got /\ got \subseteq Req
      /\ events \in Seq(Req) /\ n \in Nat
  <2>1. pc[c] = "record" /\ Typed /\ Holds(c)
    BY DEF ReviewInv, Record, Inside
  <2>2. loc[c] \in [req : Req, got : SUBSET Req] /\ got \subseteq Req /\ events \in Seq(Req)
    BY <2>1 DEF Typed
  <2> QED BY <2>1, <2>2 DEF Holds
<1>2. /\ events' = Append(events, r) /\ Goto(c, "idle", None) /\ lock' = None
      /\ UNCHANGED <<try, asking>>
      /\ \/ got' = got \cup {r} /\ UNCHANGED <<st, asked>>
         \/ st = "cancelled" /\ UNCHANGED <<st, asked, got>>
         \/ st' = "queued" /\ asked' = {} /\ got' = {}
  BY <1>1 DEF Record, Unlock
<1>3. /\ events' \in Seq(Req) /\ Len(events') = n + 1 /\ events'[n + 1] = r
      /\ \A i \in 1 .. n : events'[i] = events[i]
  BY <1>1, <1>2
<1>4. Seen' = Seen \cup {r}
  <2>1. Seen' = {events'[i] : i \in 1 .. n + 1}
    BY <1>3 DEF Seen
  <2>2. 1 .. n + 1 = (1 .. n) \cup {n + 1}
    BY <1>1
  <2> HIDE DEF n
  <2> QED BY <1>3, <2>1, <2>2 DEF Seen, n
<1>5. VerdictOnce'
  <2>1. /\ r.try = try /\ \A i \in 1 .. n : events[i] # r
    BY <1>1 DEF Holds, Seen
  <2>2. DOMAIN events = 1 .. n /\ DOMAIN events' = 1 .. n + 1
    BY <1>1, <1>3
  <2>3. \A i \in 1 .. n + 1 : i \in 1 .. n \/ i = n + 1
    BY <1>1
  <2> HIDE DEF n, r
  <2> QED BY <1>2, <1>3, <2>1, <2>2, <2>3 DEF ReviewInv, VerdictOnce
<1>6. /\ pc'[c] = "idle" /\ DOMAIN loc' = Call
      /\ \A d \in Call \ {c} : pc'[d] = pc[d] /\ loc'[d] = loc[d]
      /\ pc' \in [Call -> {"idle", "lock", "resolve", "record", "patch", "write"}]
  BY <1>2, Apart, Steps DEF ReviewInv
<1>7. Typed'
  BY <1>1, <1>2, <1>3, <1>6, Apart DEF ReviewInv, Typed
<1>8. \A d \in Reviewer : ~Inside(d)'
  <2> SUFFICES ASSUME NEW d \in Reviewer, Inside(d)' PROVE FALSE
    OBVIOUS
  <2>1. d # c /\ Inside(d)
    BY <1>6, Apart DEF Inside
  <2> QED BY <1>1, <2>1 DEF ReviewInv, Holds
<1>9. Stage'
  BY <1>1, <1>2, <1>4 DEF ReviewInv, Stage, Holds
<1> QED BY <1>5, <1>7, <1>8, <1>9, Alone

LEMMA ReviewNext == ReviewInv /\ [Next]_vars => ReviewInv'
<1> SUFFICES ASSUME ReviewInv, [Next]_vars PROVE ReviewInv'
  OBVIOUS
<1>1. CASE UNCHANGED vars
  BY <1>1, Outside DEF vars, session, ReviewInv, Typed, Inside
<1>2. CASE Reach \/ Park \/ Cancel \/ Crash
  BY <1>2, SessionKeeps
<1>3. CASE \E r \in Req : Ask(r) \/ TagPlain(r) \/ ResolveRoute(r)
  BY <1>3, NodesKeep
<1>4. CASE \E c \in Reviewer : Verdict(c)
  BY <1>4, ReadKeeps, EnterKeeps, CloseKeeps, RecordKeeps DEF Verdict
<1>5. CASE \E e \in Editor : ReadRow(e) \/ WriteRow(e) \/ \E a \in Art : Edit(e, a)
  BY <1>5, EditorKeeps
<1> QED BY <1>1, <1>2, <1>3, <1>4, <1>5 DEF Next

\* A verdict is recorded once for each request of an attempt and for no other request, for any
\* number of reviewers and edits that write a resolved request back as open (gateVerdict).
THEOREM OneVerdictEach == Spec => []VerdictOnce
<1>1. Init => ReviewInv BY ReviewInit
<1>2. ReviewInv /\ [Next]_vars => ReviewInv' BY ReviewNext
<1>3. ReviewInv => VerdictOnce BY DEF ReviewInv
<1> QED BY <1>1, <1>2, <1>3, PTL DEF Spec

-------------------------------------------------------------------------------
(***************************************************************************)
(* LeavesDecided, on a database that runs one transaction at a time.  An    *)
(* edit that is between its read and its write then holds the row as it is, *)
(* so that it opens no request again: a verdict that was counted, and one   *)
(* that is about to be, stays resolved on its node while the session is at  *)
(* its gate, since only runGate() asks for requests of an attempt.          *)
(***************************************************************************)
Closed(r) == r \in node[r.art].hist /\ ~IsOpen(r)

\* What is on the nodes, and in the hands of an edit.
Rows ==
  /\ node \in [Art -> Node] /\ serialized \in BOOLEAN
  /\ \A e \in Editor :
       pc[e] \in {"patch", "write"} => loc[e] \in [art : Art, tags : (SUBSET Target) \cup {None}, row : Node]
  /\ serialized => \A e \in Editor : pc[e] = "write" => /\ loc[e].row = node[loc[e].art]
                                                        /\ \A f \in Editor : pc[f] = "write" => f = e

\* Verdicts that are counted or closed are those of resolved requests.
Decided ==
  serialized => /\ st = "gated" => \A r \in got : Closed(r)
                /\ \A c \in Reviewer : pc[c] = "record" => Closed(loc[c].req)

DecideInv == ReviewInv /\ Rows /\ Decided

LEMMA DecideInit == Init => DecideInv
<1> SUFFICES ASSUME Init PROVE DecideInv
  OBVIOUS
<1>1. Fresh \in Node
  BY DEF Fresh, Node
<1>2. Rows
  BY <1>1, Apart DEF Init, Rows
<1>3. Decided
  BY Apart DEF Init, Decided
<1> QED BY <1>2, <1>3, ReviewInit DEF DecideInv

\* A node is written in a transaction of its own.
LEMMA PutOne ==
  ASSUME Rows, NEW a \in Art, NEW open \in SUBSET Req, NEW hist \in SUBSET Req, Put(a, open, hist)
  PROVE  /\ node' \in [Art -> Node] /\ node'[a].open = open /\ node'[a].hist = hist
         /\ \A b \in Art \ {a} : node'[b] = node[b]
<1> DEFINE n == [open |-> open, hist |-> hist, tags |-> Tags(open)]
<1>1. n \in Node
  BY DEF n, Node, Tags, Req
<1>2. n.open = open /\ n.hist = hist
  BY DEF n
<1>3. node' = [node EXCEPT ![a] = n]
  BY DEF Put, n
<1> HIDE DEF n
<1> QED BY <1>1, <1>2, <1>3 DEF Rows

\* A transaction on a node leaves the edits' rows, as none is under way if they exclude each other.
LEMMA RowsKeep ==
  ASSUME Rows, Typed, Free, node' \in [Art -> Node], UNCHANGED serialized,
         \A e \in Editor : pc'[e] = pc[e] /\ loc'[e] = loc[e]
  PROVE  Rows'
BY DEF Rows, Free

\* Steps that leave the nodes and the edits.
LEMMA RowsStay ==
  ASSUME Rows, UNCHANGED <<node, serialized>>, \A e \in Editor : pc'[e] = pc[e] /\ loc'[e] = loc[e]
  PROVE  Rows'
BY DEF Rows

LEMMA SessionDecides == ASSUME DecideInv, Reach \/ Park \/ Cancel \/ Crash PROVE Rows' /\ Decided'
<1>1. UNCHANGED <<node, serialized>>
  BY DEF Reach, Park, Cancel, Crash, Other, bounds
<1>2. CASE Reach
  BY <1>1, <1>2, RowsStay DEF Reach, DecideInv, Decided, Closed, IsOpen
<1>3. CASE Park
  <2>1. (got' = got /\ st' = st) \/ got' = {}
    BY <1>3 DEF Park
  <2> QED BY <1>1, <1>3, <2>1, RowsStay DEF Park, DecideInv, Decided, Closed, IsOpen
<1>4. CASE Cancel
  BY <1>1, <1>4, RowsStay DEF Cancel, DecideInv, Decided, Closed, IsOpen
<1>5. CASE Crash
  <2>1. /\ UNCHANGED <<try, asked, got, events>> /\ st' = IF st = "running" THEN "queued" ELSE st
        /\ \A c \in Call : pc'[c] = "idle"
    BY <1>5 DEF Crash
  <2>2. Rows'
    BY <1>1, <2>1, Apart DEF DecideInv, Rows
  <2>3. Decided'
    BY <1>1, <2>1, Apart DEF DecideInv, Decided, Closed, IsOpen
  <2> QED BY <2>2, <2>3
<1> QED BY <1>2, <1>3, <1>4, <1>5

\* What is resolved stays so when a request is put that was not closed, or is resolved.
LEMMA TagKeeps ==
  ASSUME Rows, NEW r \in Req, Tag(r) \/ Resolve(r)
  PROVE  /\ Free /\ node' \in [Art -> Node]
         /\ \A q \in Req : (Closed(q) /\ (Tag(r) => q # r)) => Closed(q)'
         /\ Resolve(r) => Closed(r)'
<1>1. r.art \in Art /\ \A q \in Req : q.art \in Art
  BY DEF Req
<1>2. /\ node[r.art].open \cup {r} \in SUBSET Req /\ node[r.art].hist \in SUBSET Req
      /\ node[r.art].open \ {r} \in SUBSET Req /\ node[r.art].hist \cup {r} \in SUBSET Req
  BY <1>1 DEF Rows, Node
<1>3. CASE Tag(r)
  <2>1. Put(r.art, node[r.art].open \cup {r}, node[r.art].hist) /\ Free
    BY <1>3 DEF Tag
  <2>2. /\ node' \in [Art -> Node] /\ node'[r.art].open = node[r.art].open \cup {r}
        /\ node'[r.art].hist = node[r.art].hist /\ \A b \in Art \ {r.art} : node'[b] = node[b]
    <3>1. PICK open \in SUBSET Req, hist \in SUBSET Req :
            open = node[r.art].open \cup {r} /\ hist = node[r.art].hist
      BY <1>2
    <3>2. Put(r.art, open, hist) /\ r.art \in Art
      BY <1>1, <2>1, <3>1
    <3>3. /\ node' \in [Art -> Node] /\ node'[r.art].open = open /\ node'[r.art].hist = hist
          /\ \A b \in Art \ {r.art} : node'[b] = node[b]
      BY <3>2, PutOne
    <3> QED BY <3>1, <3>3
  <2>3. \A q \in Req : Closed(q) /\ q # r => Closed(q)'
    BY <1>1, <2>2 DEF Closed, IsOpen
  <2>4. ASSUME Resolve(r) PROVE Closed(r)'
    <3>1. Put(r.art, node[r.art].open \ {r}, node[r.art].hist \cup {r})
      BY <2>4 DEF Resolve
    <3>2. node'[r.art].open = node[r.art].open \ {r} /\ node'[r.art].hist = node[r.art].hist \cup {r}
      BY <1>1, <1>2, <3>1, PutOne
    <3> QED BY <3>2 DEF Closed, IsOpen
  <2> QED BY <1>3, <2>1, <2>2, <2>3, <2>4
<1>4. CASE Resolve(r) /\ ~Tag(r)
  <2>1. Put(r.art, node[r.art].open \ {r}, node[r.art].hist \cup {r}) /\ Free
    BY <1>4 DEF Resolve
  <2>2. /\ node' \in [Art -> Node] /\ node'[r.art].open = node[r.art].open \ {r}
        /\ node'[r.art].hist = node[r.art].hist \cup {r} /\ \A b \in Art \ {r.art} : node'[b] = node[b]
    BY <1>1, <1>2, <2>1, PutOne
  <2>3. \A q \in Req : Closed(q) => Closed(q)'
    BY <1>1, <2>2 DEF Closed, IsOpen
  <2>4. Closed(r)'
    BY <1>1, <2>2 DEF Closed, IsOpen
  <2> QED BY <1>4, <2>1, <2>2, <2>3, <2>4
<1> QED BY <1>3, <1>4

LEMMA NodesDecide ==
  ASSUME DecideInv, NEW r \in Req, Ask(r) \/ TagPlain(r) \/ ResolveRoute(r)
  PROVE  Rows' /\ Decided'
<1>1. UNCHANGED <<st, asked, got, pc, loc, serialized>> /\ (Tag(r) \/ Resolve(r))
  BY DEF Ask, TagPlain, ResolveRoute, Other, session, bounds
<1>2. Rows'
  BY <1>1, TagKeeps, RowsKeep DEF DecideInv, ReviewInv
<1>3. \A q \in Req : (Closed(q) /\ (Tag(r) => q # r)) => Closed(q)'
  BY <1>1, TagKeeps DEF DecideInv
<1>4. ASSUME \A q \in Req : Closed(q) => Closed(q)' PROVE Decided'
  <2>1. got \subseteq Req /\ \A c \in Reviewer : pc[c] = "record" => loc[c].req \in Req
    BY DEF DecideInv, ReviewInv, Typed
  <2>2. ASSUME serialized, st = "gated", NEW q \in got PROVE Closed(q)'
    BY <1>4, <2>1, <2>2 DEF DecideInv, Decided
  <2>3. ASSUME serialized, NEW c \in Reviewer, pc[c] = "record" PROVE Closed(loc[c].req)'
    <3>1. PICK q \in Req : q = loc[c].req
      BY <2>1, <2>3
    <3>2. Closed(q)'
      BY <1>4, <2>3, <3>1 DEF DecideInv, Decided
    <3> QED BY <1>1, <3>1, <3>2 DEF Closed, IsOpen
  <2>4. st' = st /\ got' = got /\ asked' = asked /\ pc' = pc /\ loc' = loc /\ serialized' = serialized
    BY <1>1
  <2> QED BY <2>2, <2>3, <2>4 DEF DecideInv, Decided
<1>5. CASE TagPlain(r)
  <2>1. ~Closed(r)
    BY <1>5 DEF TagPlain, Closed
  <2>2. \A q \in Req : Closed(q) => Closed(q)'
    BY <1>3, <2>1
  <2> QED BY <1>2, <1>4, <2>2
<1>6. CASE Ask(r)
  <2>1. st # "gated" /\ \A c \in Reviewer : pc[c] # "record"
    BY <1>6 DEF Ask, DecideInv, ReviewInv, Stage, Holds, Inside
  <2> QED BY <1>1, <1>2, <2>1 DEF Decided
<1>7. CASE ResolveRoute(r)
  <2>1. Resolve(r) /\ Closed(r)'
    BY <1>7, TagKeeps DEF ResolveRoute, DecideInv
  <2> QED BY <1>2, <1>3, <1>4, <2>1
<1> QED BY <1>5, <1>6, <1>7

LEMMA EditorDecides ==
  ASSUME DecideInv, NEW e \in Editor, ReadRow(e) \/ WriteRow(e) \/ \E a \in Art : Edit(e, a)
  PROVE  Rows' /\ Decided'
<1>1. UNCHANGED <<st, asked, got, serialized>> /\ e \in Call /\ Typed
  BY Apart DEF ReadRow, WriteRow, Edit, Other, session, bounds, DecideInv, ReviewInv
<1>2. \A c \in Reviewer : c \in Call \ {e}
  BY Apart
<1>3. ASSUME UNCHANGED node, \A c \in Reviewer : pc'[c] = pc[c] /\ loc'[c] = loc[c]
      PROVE  Decided'
  BY <1>1, <1>3 DEF DecideInv, Decided, Closed, IsOpen
<1>4. ASSUME NEW a \in Art, Edit(e, a) PROVE Rows' /\ Decided'
  <2>1. PICK l \in [art : Art, tags : (SUBSET Target) \cup {None}, row : Node] : Goto(e, "patch", l)
    <3>1. Fresh \in Node /\ \A n \in Node : Tags(n.open) \in SUBSET Target
      BY DEF Fresh, Node, Tags, Req
    <3>2. node[a] \in Node
      BY DEF DecideInv, Rows
    <3>3. Tags(node[a].open) \in SUBSET Target
      BY <3>1, <3>2
    <3>4. /\ [art |-> a, tags |-> None, row |-> Fresh] \in [art : Art, tags : (SUBSET Target) \cup {None}, row : Node]
          /\ [art |-> a, tags |-> Tags(node[a].open), row |-> Fresh] \in [art : Art, tags : (SUBSET Target) \cup {None}, row : Node]
      BY <3>1, <3>3
    <3> QED BY <1>4, <3>4 DEF Edit
  <2>2. UNCHANGED node
    BY <1>4 DEF Edit
  <2>3. pc'[e] = "patch" /\ loc'[e] = l /\ \A d \in Call \ {e} : pc'[d] = pc[d] /\ loc'[d] = loc[d]
    BY <1>1, <2>1, Steps
  <2>4. Rows'
    BY <1>1, <2>1, <2>2, <2>3, Apart DEF DecideInv, Rows, Call
  <2> QED BY <1>2, <1>3, <2>2, <2>3, <2>4
<1>5. CASE ReadRow(e)
  <2>1. pc[e] = "patch" /\ UNCHANGED node /\ Free
    BY <1>5 DEF ReadRow
  <2> DEFINE l == [loc[e] EXCEPT !.row = node[loc[e].art]]
  <2>2. l \in [art : Art, tags : (SUBSET Target) \cup {None}, row : Node] /\ l.row = node[l.art]
    BY <2>1 DEF DecideInv, Rows
  <2>3. Goto(e, "write", l)
    BY <1>5 DEF ReadRow
  <2> HIDE DEF l
  <2>4. pc'[e] = "write" /\ loc'[e] = l /\ \A d \in Call \ {e} : pc'[d] = pc[d] /\ loc'[d] = loc[d]
    BY <1>1, <2>3, Steps
  <2>5. Rows'
    BY <1>1, <2>1, <2>2, <2>4, Apart DEF DecideInv, Rows, Call, Free
  <2> QED BY <1>2, <1>3, <2>1, <2>4, <2>5
<1>6. CASE WriteRow(e)
  <2> DEFINE l == loc[e]
  <2> DEFINE n == IF l.tags = None THEN l.row ELSE [l.row EXCEPT !.tags = l.tags]
  <2>1. pc[e] = "write" /\ node' = [node EXCEPT ![l.art] = n] /\ Goto(e, "idle", None)
    BY <1>6 DEF WriteRow
  <2>2. l \in [art : Art, tags : (SUBSET Target) \cup {None}, row : Node]
    BY <2>1 DEF DecideInv, Rows
  <2>3. n \in Node /\ n.open = l.row.open /\ n.hist = l.row.hist
    <3>1. l.row \in Node /\ (l.tags = None \/ l.tags \in SUBSET Target)
      BY <2>2
    <3>2. \A x \in Node : \A y \in SUBSET Target :
            /\ [x EXCEPT !.tags = y] \in Node /\ [x EXCEPT !.tags = y].open = x.open
            /\ [x EXCEPT !.tags = y].hist = x.hist
      BY DEF Node
    <3> HIDE DEF l
    <3> QED BY <3>1, <3>2
  <2>4. serialized => /\ n.open = node[l.art].open /\ n.hist = node[l.art].hist
                      /\ \A f \in Editor : pc[f] = "write" => f = e
    BY <2>1, <2>3 DEF DecideInv, Rows
  <2> HIDE DEF n, l
  <2>5. pc'[e] = "idle" /\ \A d \in Call \ {e} : pc'[d] = pc[d] /\ loc'[d] = loc[d]
    BY <1>1, <2>1, Steps
  <2>6. node' \in [Art -> Node] /\ l.art \in Art
    BY <2>1, <2>2, <2>3 DEF DecideInv, Rows
  <2>7. Rows'
    BY <1>1, <2>4, <2>5, <2>6, Apart DEF DecideInv, Rows, Call
  <2>8. serialized => \A q \in Req : Closed(q) => Closed(q)'
    <3> SUFFICES ASSUME serialized, NEW q \in Req, Closed(q) PROVE Closed(q)'
      OBVIOUS
    <3>1. q.art \in Art
      BY DEF Req
    <3>2. node'[q.art].open = node[q.art].open /\ node'[q.art].hist = node[q.art].hist
      BY <2>1, <2>4, <2>6, <3>1 DEF DecideInv, Rows
    <3> QED BY <3>2 DEF Closed, IsOpen
  <2>9. Decided'
    BY <1>1, <1>2, <2>5, <2>8 DEF DecideInv, Decided, ReviewInv, Typed
  <2> QED BY <2>7, <2>9
<1> QED BY <1>4, <1>5, <1>6

LEMMA VerdictDecides == ASSUME DecideInv, NEW c \in Reviewer, Verdict(c) PROVE Rows' /\ Decided'
<1>1. c \in Call /\ Typed /\ UNCHANGED serialized /\ \A e \in Editor : e \in Call \ {c}
  BY Apart DEF Verdict, ReadRequest, Enter, Close, Record, bounds, DecideInv, ReviewInv
<1>2. \A e \in Editor : pc'[e] = pc[e] /\ loc'[e] = loc[e]
  <2>1. PICK label, l : Goto(c, label, l)
    BY DEF Verdict, ReadRequest, Enter, Close, Record
  <2> QED BY <1>1, <2>1, Steps
<1>3. ASSUME UNCHANGED <<node, session>>, NEW label \in {"idle", "lock", "resolve"}, NEW l, Goto(c, label, l)
      PROVE  Rows' /\ Decided'
  <2>1. Rows'
    BY <1>1, <1>2, <1>3, RowsStay DEF DecideInv
  <2>2. pc'[c] # "record" /\ \A d \in Reviewer \ {c} : pc'[d] = pc[d] /\ loc'[d] = loc[d]
    BY <1>1, <1>3, Steps, Apart
  <2> QED BY <1>1, <1>3, <2>1, <2>2 DEF session, DecideInv, Decided, Closed, IsOpen
<1>4. CASE (\E r \in Req : ReadRequest(c, r)) \/ Enter(c)
  BY <1>3, <1>4 DEF ReadRequest, Enter
<1>5. CASE Close(c)
  <2>1. CASE UNCHANGED node /\ Goto(c, "idle", None)
    BY <1>3, <1>5, <2>1 DEF Close
  <2>2. CASE Resolve(loc[c].req) /\ Goto(c, "record", loc[c])
    <3>1. loc[c].req \in Req
      BY <1>1, <1>5 DEF Close, Typed
    <3>2. Free /\ node' \in [Art -> Node] /\ Closed(loc[c].req)'
      <4> DEFINE r == loc[c].req
      <4>1. PICK q \in Req : q = r
        BY <3>1
      <4>2. Resolve(q)
        BY <2>2, <4>1
      <4>3. loc'[c] = loc[c]
        BY <1>1, <2>2, Steps
      <4>4. Free /\ node' \in [Art -> Node] /\ Closed(q)'
        BY <4>1, <4>2, TagKeeps DEF DecideInv
      <4> QED BY <4>1, <4>3, <4>4 DEF Closed, IsOpen
    <3>3. Rows'
      BY <1>1, <1>2, <3>2, RowsKeep DEF DecideInv
    <3>4. \A q \in Req : Closed(q) => Closed(q)'
      <4> SUFFICES ASSUME NEW q \in Req, Closed(q) PROVE Closed(q)'
        OBVIOUS
      <4>1. PICK p \in Req : p = loc[c].req
        BY <3>1
      <4>2. Resolve(p)
        BY <2>2, <4>1
      <4>3. Closed(p)' /\ (q # p => Closed(q)')
        BY <4>1, <4>2, TagKeeps DEF DecideInv
      <4> QED BY <4>3
    <3>5. \A d \in Reviewer \ {c} : pc'[d] = pc[d] /\ loc'[d] = loc[d]
      BY <1>1, <2>2, Steps, Apart
    <3>6. UNCHANGED <<st, asked, got>>
      BY <1>5 DEF Close, session
    <3> QED BY <1>1, <3>2, <3>3, <3>4, <3>5, <3>6 DEF DecideInv, ReviewInv, Typed, Decided
  <2> QED BY <1>5, <2>1, <2>2 DEF Close
<1>6. CASE Record(c)
  <2>1. pc[c] = "record" /\ UNCHANGED node /\ Goto(c, "idle", None)
    BY <1>6 DEF Record
  <2>2. pc'[c] = "idle" /\ \A d \in Reviewer \ {c} : pc'[d] = pc[d] /\ loc'[d] = loc[d]
    BY <1>1, <2>1, Steps, Apart
  <2>3. Rows'
    BY <1>1, <1>2, <2>1, RowsStay DEF DecideInv
  <2>4. loc[c].got = got
    BY <2>1 DEF DecideInv, ReviewInv, Inside, Holds
  <2>5. \/ UNCHANGED <<st, asked>> /\ got' = got \cup {loc[c].req}
        \/ UNCHANGED <<st, asked, got>>
        \/ st' = "queued"
    BY <1>6, <2>4 DEF Record
  <2>6. Decided'
    BY <1>1, <2>1, <2>2, <2>5 DEF DecideInv, Decided, Closed, IsOpen
  <2> QED BY <2>3, <2>6
<1> QED BY <1>4, <1>5, <1>6 DEF Verdict

LEMMA DecideNext == DecideInv /\ [Next]_vars => DecideInv'
<1> SUFFICES ASSUME DecideInv, [Next]_vars PROVE DecideInv'
  OBVIOUS
<1>1. ReviewInv'
  BY ReviewNext DEF DecideInv
<1>2. CASE UNCHANGED vars
  BY <1>1, <1>2, RowsStay DEF vars, session, bounds, DecideInv, Decided, Closed, IsOpen
<1>3. CASE Next
  BY <1>1, <1>3, SessionDecides, NodesDecide, EditorDecides, VerdictDecides DEF Next, DecideInv
<1> QED BY <1>2, <1>3

\* The only way from a gate to the queue is the verdict that completes the session's record.
LEMMA LastVerdict ==
  ASSUME DecideInv, [Next]_vars, st = "gated", st' = "queued", serialized
  PROVE  \A r \in asked : Closed(r)
<1>1. ~UNCHANGED vars /\ Next
  BY DEF vars, session
<1>2. \E c \in Reviewer : Record(c)
  <2>1. ~(Reach \/ Park \/ Cancel \/ Crash)
    BY DEF Reach, Park, Cancel, Crash, DecideInv, ReviewInv, Stage
  <2>2. \A r \in Req : ~(Ask(r) \/ TagPlain(r) \/ ResolveRoute(r))
    BY DEF Ask, TagPlain, ResolveRoute, session
  <2>3. \A e \in Editor : ~(ReadRow(e) \/ WriteRow(e) \/ \E a \in Art : Edit(e, a))
    BY DEF ReadRow, WriteRow, Edit, session
  <2> QED BY <1>1, <2>1, <2>2, <2>3 DEF Next, Verdict, ReadRequest, Enter, Close, session
<1>3. PICK c \in Reviewer : Record(c)
  BY <1>2
<1>4. pc[c] = "record" /\ asked \subseteq loc[c].got \cup {loc[c].req}
  BY <1>3 DEF Record, Complete
<1>5. loc[c].got = got
  BY <1>4 DEF DecideInv, ReviewInv, Inside, Holds
<1> QED BY <1>4, <1>5 DEF DecideInv, Decided

\* A session leaves its gate only when all requests of its attempt are resolved on their nodes,
\* whatever edits, other requests, calls of the route and crashes there are (runGate, resolveGate).
THEOREM LeavesWhenDecided == Spec => LeavesDecided
<1>1. Init => DecideInv
  BY DecideInit
<1>2. DecideInv /\ [Next]_vars => DecideInv'
  BY DecideNext
<1>3. DecideInv /\ [Next]_vars =>
        [st = "gated" /\ st' = "queued" /\ serialized => \A r \in asked : r \in node[r.art].hist /\ ~IsOpen(r)]_vars
  BY LastVerdict DEF Closed
<1> QED BY <1>1, <1>2, <1>3, PTL DEF Spec, LeavesDecided

-------------------------------------------------------------------------------
(***************************************************************************)
(* Acyclic, of the edges between tasks.  The query answers for the edges   *)
(* as they are: what it reaches from the new edge's waitee is closed under *)
(* waiting, unless a chain is longer than it follows.  Closed sets survive *)
(* retractions, so that one still stands between waitee and waiter when    *)
(* the edge is inserted, if nobody else inserts one meanwhile.             *)
(***************************************************************************)
LEMMA LeastNumber ==
  ASSUME NEW S \in SUBSET Nat, S # {}
  PROVE  \E m \in S : \A n \in S : m <= n
<1> DEFINE R == OpToRel(<, Nat)
<1>1. IsWellFoundedOn(R, Nat)
  BY NatLessThanWellFounded
<1>2. \A x, y \in Nat : x < y => <<x, y>> \in R
  BY Zenon DEF OpToRel
<1> HIDE DEF R
<1>3. PICK m \in S : \A n \in S : ~(<<n, m>> \in R)
  BY <1>1, WFMin
<1>4. ASSUME NEW n \in S PROVE m <= n
  <2>1. m \in Nat /\ n \in Nat /\ ~(n < m)
    BY <1>2, <1>3
  <2> QED BY <2>1
<1> QED BY <1>4

\* The function that the recursive query makes of the edges, up to n.
Grown(from, r, n) == IF n = 0 THEN {from} ELSE r[n - 1] \cup Edges!Follow(r[n - 1])
GrownBelow(from, k, r) ==
  DOMAIN r = 0 .. MaxDepth /\ \A n \in 0 .. MaxDepth : n < k => r[n] = Grown(from, r, n)

LEMMA GrownUpTo == ASSUME NEW from, NEW n \in Nat PROVE \E r : GrownBelow(from, n, r)
<1> DEFINE S == {k \in Nat : ~\E r : GrownBelow(from, k, r)}
<1> SUFFICES ASSUME S # {} PROVE FALSE
  OBVIOUS
<1>1. S \in SUBSET Nat
  OBVIOUS
<1>2. PICK m \in S : \A k \in S : m <= k
  BY <1>1, LeastNumber
<1>3. CASE m = 0
  <2>1. GrownBelow(from, 0, [k \in 0 .. MaxDepth |-> {}])
    BY DEF GrownBelow
  <2> QED BY <1>2, <1>3, <2>1
<1>4. CASE m # 0
  <2>1. m \in Nat /\ m - 1 \in Nat /\ m - 1 \notin S
    BY <1>2, <1>4
  <2>2. PICK r : GrownBelow(from, m - 1, r)
    BY <2>1
  <2> DEFINE g == [k \in 0 .. MaxDepth |-> IF k = m - 1 THEN Grown(from, r, k) ELSE r[k]]
  <2>3. ASSUME NEW k \in 0 .. MaxDepth, k < m PROVE g[k] = Grown(from, g, k)
    <3> MaxDepth \in Nat
      BY EdgesAssumed DEF Edges!DepthAssumption
    <3>1. k = m - 1 \/ k < m - 1
      BY <2>1, <2>3
    <3>2. k # 0 => k - 1 \in 0 .. MaxDepth /\ k - 1 # m - 1
      BY <2>1, <2>3
    <3>3. k # 0 => g[k - 1] = r[k - 1]
      BY <3>2
    <3>4. g[k] = Grown(from, r, k)
      BY <2>2, <3>1 DEF GrownBelow
    <3> HIDE DEF g
    <3> QED BY <3>3, <3>4 DEF Grown
  <2>4. GrownBelow(from, m, g)
    BY <2>3 DEF GrownBelow
  <2> QED BY <1>2, <2>4
<1> QED BY <1>3, <1>4

LEMMA ReachedIs ==
  ASSUME NEW from
  PROVE  \E r : /\ \A n \in 0 .. MaxDepth : r[n] = Grown(from, r, n)
                /\ Edges!Reached(from) = r[MaxDepth]
<1> DEFINE Made(r) == r = [n \in 0 .. MaxDepth |-> IF n = 0 THEN {from}
                                                   ELSE r[n - 1] \cup Edges!Follow(r[n - 1])]
<1>1. MaxDepth \in Nat
  BY EdgesAssumed DEF Edges!DepthAssumption
<1>2. PICK r : GrownBelow(from, MaxDepth + 1, r)
  BY <1>1, GrownUpTo
<1>3. \E x : Made(x)
  <2>1. PICK h : h = [n \in 0 .. MaxDepth |-> IF n = 0 THEN {from} ELSE r[n - 1] \cup Edges!Follow(r[n - 1])]
    OBVIOUS
  <2>2. ASSUME NEW n \in 0 .. MaxDepth PROVE h[n] = r[n]
    BY <1>1, <1>2, <2>1, <2>2 DEF GrownBelow, Grown
  <2>3. ASSUME NEW n \in 0 .. MaxDepth
        PROVE  (IF n = 0 THEN {from} ELSE r[n - 1] \cup Edges!Follow(r[n - 1]))
                 = (IF n = 0 THEN {from} ELSE h[n - 1] \cup Edges!Follow(h[n - 1]))
    <3>1. n # 0 => h[n - 1] = r[n - 1]
      BY <1>1, <2>2
    <3> QED BY <3>1
  <2>4. Made(h)
    BY <2>1, <2>3
  <2> QED BY <2>4
<1>4. PICK q : q = CHOOSE x : Made(x)
  OBVIOUS
<1>5. Made(q)
  BY <1>3, <1>4, Zenon
<1>6. Edges!Reached(from) = q[MaxDepth]
  BY <1>4 DEF Edges!Reached
<1>7. \A n \in 0 .. MaxDepth : q[n] = Grown(from, q, n)
  BY <1>5 DEF Grown
<1> QED BY <1>6, <1>7

\* No chain of waits is longer than the query follows.
DepthSuffices == \A t \in Task : Edges!Follow(Edges!Reached(t)) \subseteq Edges!Reached(t)

LEMMA FollowType == ASSUME Edges!TypeOK, NEW S PROVE Edges!Follow(S) \subseteq Task
BY DEF Edges!TypeOK, Edges!Edge, Edges!Follow, Edges!Waitee

LEMMA WantEnds ==
  ASSUME NEW w \in Edges!Want
  PROVE  Edges!Waiter(w) \in Task /\ Edges!Waitee(w) \in Task
BY DEF Edges!Want, Edges!Waiter, Edges!Waitee

LEMMA ReachedStarts ==
  ASSUME Edges!TypeOK, NEW from \in Task
  PROVE  from \in Edges!Reached(from) /\ Edges!Reached(from) \subseteq Task
<1>0. MaxDepth \in Nat
  BY EdgesAssumed DEF Edges!DepthAssumption
<1>1. PICK r : /\ \A n \in 0 .. MaxDepth : r[n] = Grown(from, r, n)
               /\ Edges!Reached(from) = r[MaxDepth]
  BY ReachedIs
<1> DEFINE S == {n \in 0 .. MaxDepth : ~(from \in r[n] /\ r[n] \subseteq Task)}
<1> SUFFICES ASSUME S # {} PROVE FALSE
  BY <1>0, <1>1
<1>2. PICK m \in S : \A k \in S : m <= k
  <2>1. S \in SUBSET Nat
    BY <1>0
  <2> QED BY <2>1, LeastNumber
<1>3. m # 0
  BY <1>0, <1>1, <1>2 DEF Grown
<1>4. m - 1 \in 0 .. MaxDepth /\ m - 1 \notin S
  BY <1>0, <1>2, <1>3
<1>5. r[m] = r[m - 1] \cup Edges!Follow(r[m - 1])
  BY <1>1, <1>2, <1>3 DEF Grown
<1> QED BY <1>2, <1>4, <1>5, FollowType

\* A step of the query that finds nothing new was the last; so it ends within as many
\* steps as there are tasks.
LEMMA FewTasks ==
  ASSUME Edges!TypeOK, IsFiniteSet(Task), Cardinality(Task) <= MaxDepth + 1
  PROVE  DepthSuffices
<1> SUFFICES ASSUME NEW from \in Task PROVE Edges!Follow(Edges!Reached(from)) \subseteq Edges!Reached(from)
  BY DEF DepthSuffices
<1>0. MaxDepth \in Nat
  BY EdgesAssumed DEF Edges!DepthAssumption
<1>1. PICK r : /\ \A n \in 0 .. MaxDepth : r[n] = Grown(from, r, n)
               /\ Edges!Reached(from) = r[MaxDepth]
  BY ReachedIs
<1> DEFINE Still(n) == Edges!Follow(r[n]) \subseteq r[n]
           Big(n) == IsFiniteSet(r[n]) /\ r[n] \subseteq Task /\ Cardinality(r[n]) >= n + 1
           S == {n \in 0 .. MaxDepth : ~(Still(n) \/ Big(n))}
<1>2. ASSUME S # {} PROVE FALSE
  <2>1. PICK m \in S : \A k \in S : m <= k
    <3>1. S \in SUBSET Nat
      BY <1>0
    <3> QED BY <1>2, <3>1, LeastNumber
  <2>2. m # 0
    <3>1. ASSUME m = 0 PROVE Big(m)
      <4>1. r[m] = {from}
        BY <1>0, <1>1, <3>1 DEF Grown
      <4>2. IsFiniteSet({from}) /\ Cardinality({from}) = 1
        BY FS_Singleton
      <4> QED BY <3>1, <4>1, <4>2
    <3> QED BY <2>1, <3>1
  <2>3. m \in Nat /\ m - 1 \in 0 .. MaxDepth /\ (Still(m - 1) \/ Big(m - 1))
    BY <1>0, <2>1, <2>2
  <2>4. r[m] = r[m - 1] \cup Edges!Follow(r[m - 1])
    BY <1>1, <2>1, <2>2 DEF Grown
  <2>5. CASE Still(m - 1)
    <3>1. r[m] = r[m - 1]
      BY <2>4, <2>5
    <3> QED BY <2>1, <2>5, <3>1
  <2>6. CASE ~Still(m - 1)
    <3>1. PICK x : x \in Edges!Follow(r[m - 1]) /\ x \notin r[m - 1]
      BY <2>6
    <3> DEFINE q == r[m - 1]
    <3>2. IsFiniteSet(q) /\ q \subseteq Task /\ Cardinality(q) >= m /\ Cardinality(q) \in Nat
      BY <2>3, <2>6, FS_CardinalityType
    <3> HIDE DEF q
    <3>3. IsFiniteSet(q \cup {x}) /\ Cardinality(q \cup {x}) = Cardinality(q) + 1
      BY <3>1, <3>2, FS_AddElement DEF q
    <3>4. r[m] \subseteq Task
      BY <2>4, <3>2, FollowType DEF q
    <3>5. IsFiniteSet(r[m]) /\ q \cup {x} \subseteq r[m]
      BY <2>4, <3>1, <3>4, FS_Subset DEF q
    <3>6. Cardinality(q \cup {x}) <= Cardinality(r[m]) /\ Cardinality(r[m]) \in Nat
      BY <3>5, FS_Subset, FS_CardinalityType
    <3>7. Big(m)
      BY <2>3, <3>2, <3>3, <3>4, <3>5, <3>6
    <3> QED BY <2>1, <3>7
  <2> QED BY <2>5, <2>6
<1>3. Still(MaxDepth) \/ Big(MaxDepth)
  BY <1>0, <1>2
<1>4. ASSUME Big(MaxDepth) PROVE Still(MaxDepth)
  <2>1. r[MaxDepth] = Task
    <3>1. Cardinality(r[MaxDepth]) <= Cardinality(Task) /\ Cardinality(Task) \in Nat /\ Cardinality(r[MaxDepth]) \in Nat
      BY <1>4, FS_Subset, FS_CardinalityType
    <3>2. Cardinality(r[MaxDepth]) = Cardinality(Task)
      BY <1>0, <1>4, <3>1
    <3> QED BY <1>4, <3>2, FS_Subset
  <2> QED BY <2>1, FollowType
<1> QED BY <1>1, <1>3, <1>4

-------------------------------------------------------------------------------
\* The tasks fall apart: nobody on the side of whom the new edge's waiter would wait for
\* waits for anybody on the waiter's side.
Separate(w) == \E R \in SUBSET Task : Edges!Waitee(w) \in R /\ Edges!Waiter(w) \notin R /\ Edges!Follow(R) \subseteq R
EdgeTyped == Edges!TypeOK /\ DOMAIN want = Caller
EdgeInv == EdgeTyped /\ Acyclic /\ \A c \in Caller : at[c] = "insert" => Separate(want[c])

LEMMA EdgeInit == Edges!Init => EdgeInv
<1> SUFFICES ASSUME Edges!Init PROVE EdgeInv
  OBVIOUS
<1>1. EdgeTyped
  BY EdgesAssumed DEF Edges!Init, EdgeTyped, Edges!TypeOK, Edges!DepthAssumption
<1>2. Acyclic
  <2> SUFFICES ASSUME NEW S \in (SUBSET Task) \ {{}}
               PROVE  \E t \in S : ~ \E e \in edges : Edges!Waiter(e) = t /\ Edges!Waitee(e) \in S
    BY DEF Acyclic, Edges!Acyclic, Edges!Waiter, Edges!Waitee
  <2>1. edges = {}
    BY DEF Edges!Init
  <2>2. PICK t \in S : TRUE
    OBVIOUS
  <2> QED BY <2>1, <2>2
<1> QED BY <1>1, <1>2 DEF Edges!Init, EdgeInv

\* With fewer edges there are fewer waits.
LEMMA FewerEdges ==
  ASSUME Acyclic, edges' \subseteq edges
  PROVE  Acyclic' /\ \A R : Edges!Follow(R)' \subseteq Edges!Follow(R)
BY DEF Acyclic, Edges!Acyclic, Edges!Follow, Edges!Waiter, Edges!Waitee

LEMMA InsertKeeps ==
  ASSUME EdgeInv, NEW c \in Caller, Edges!Insert(c)
  PROVE  Acyclic'
<1>1. PICK n : n = Edges!New(c)
  OBVIOUS
<1>2. /\ at[c] = "insert" /\ want[c] \in Edges!Want /\ edges' = edges \cup {n}
      /\ n.type = want[c].type /\ n.src = want[c].src /\ n.dst = want[c].dst
  BY <1>1 DEF Edges!Insert, Edges!New, EdgeInv, EdgeTyped, Edges!TypeOK
<1>3. Edges!Waiter(n) = Edges!Waiter(want[c]) /\ Edges!Waitee(n) = Edges!Waitee(want[c])
  BY <1>2 DEF Edges!Waiter, Edges!Waitee
<1>4. PICK R \in SUBSET Task : Edges!Waitee(n) \in R /\ Edges!Waiter(n) \notin R /\ Edges!Follow(R) \subseteq R
  BY <1>2, <1>3 DEF EdgeInv, Separate
<1> SUFFICES ASSUME NEW S \in (SUBSET Task) \ {{}}
             PROVE  \E t \in S : ~ \E e \in edges' : Edges!Waiter(e) = t /\ Edges!Waitee(e) \in S
  BY DEF Acyclic, Edges!Acyclic, Edges!Waiter, Edges!Waitee
<1>5. CASE S \cap R = {}
  <2>1. PICK t \in S : ~ \E e \in edges : Edges!Waiter(e) = t /\ Edges!Waitee(e) \in S
    BY DEF EdgeInv, Acyclic, Edges!Acyclic
  <2> QED BY <1>2, <1>4, <1>5, <2>1
<1>6. CASE S \cap R # {}
  <2>1. PICK t \in S \cap R : ~ \E e \in edges : Edges!Waiter(e) = t /\ Edges!Waitee(e) \in S \cap R
    BY <1>6 DEF EdgeInv, Acyclic, Edges!Acyclic
  <2>2. \A e \in edges : Edges!Waiter(e) = t => Edges!Waitee(e) \in R
    BY <1>4, <2>1 DEF Edges!Follow
  <2> QED BY <1>2, <1>4, <2>1, <2>2
<1> QED BY <1>5, <1>6

LEMMA EdgeTypes == EdgeTyped /\ [Edges!Next]_edgeVars => EdgeTyped'
<1> SUFFICES ASSUME EdgeTyped, [Edges!Next]_edgeVars PROVE EdgeTyped'
  OBVIOUS
<1>0. MaxEdges \in Nat /\ next \in 1 .. MaxEdges + 1
  BY EdgesAssumed DEF Edges!DepthAssumption, EdgeTyped, Edges!TypeOK
<1>1. CASE UNCHANGED edgeVars
  BY <1>1 DEF edgeVars, EdgeTyped, Edges!TypeOK
<1>2. ASSUME NEW c \in Caller, NEW w \in Edges!Want, Edges!Ask(c, w) PROVE EdgeTyped'
  <2>1. edges' = edges /\ next' = next /\ at' \in [Caller -> {"idle", "check", "insert"}]
    BY <1>2 DEF Edges!Ask, EdgeTyped, Edges!TypeOK
  <2>2. DOMAIN want' = Caller /\ want'[c] = w /\ \A d \in Caller \ {c} : want'[d] = want[d] /\ at'[d] = at[d]
    BY <1>2 DEF Edges!Ask, EdgeTyped, Edges!TypeOK
  <2> QED BY <2>1, <2>2 DEF EdgeTyped, Edges!TypeOK
<1>3. ASSUME NEW c \in Caller, Edges!CheckCycle(c) PROVE EdgeTyped'
  BY <1>3 DEF Edges!CheckCycle, EdgeTyped, Edges!TypeOK
<1>4. ASSUME NEW c \in Caller, Edges!Insert(c) PROVE EdgeTyped'
  <2>1. PICK n : n = Edges!New(c)
    OBVIOUS
  <2>2. /\ at[c] = "insert" /\ want[c] \in Edges!Want /\ edges' = edges \cup {n} /\ next <= MaxEdges
        /\ next' = next + 1 /\ at' = [at EXCEPT ![c] = "idle"] /\ want' = want
    BY <1>4, <2>1 DEF Edges!Insert, EdgeTyped, Edges!TypeOK
  <2>3. n \in Edges!Edge /\ n.id = next
    BY <1>0, <2>1, <2>2 DEF Edges!New, Edges!Edge, Edges!Want
  <2>4. next' \in 1 .. MaxEdges + 1 /\ \A e \in edges' : e.id < next'
    <3>1. \A e \in edges : e.id \in Nat /\ e.id < next
      BY <1>0 DEF EdgeTyped, Edges!TypeOK, Edges!Edge
    <3> QED BY <1>0, <2>2, <2>3, <3>1
  <2> QED BY <2>2, <2>3, <2>4 DEF EdgeTyped, Edges!TypeOK
<1>5. ASSUME NEW e \in edges, Edges!Retract(e) PROVE EdgeTyped'
  BY <1>5 DEF Edges!Retract, EdgeTyped, Edges!TypeOK
<1> QED BY <1>1, <1>2, <1>3, <1>4, <1>5 DEF Edges!Next

LEMMA EdgeStep ==
  ASSUME \A c, d \in Caller : c = d, EdgeInv, DepthSuffices, [Edges!Next]_edgeVars
  PROVE  EdgeInv'
<1>0. EdgeTyped /\ EdgeTyped'
  BY EdgeTypes DEF EdgeInv
<1>1. CASE UNCHANGED edgeVars
  BY <1>0, <1>1 DEF edgeVars, EdgeInv, Acyclic, Edges!Acyclic, Separate, Edges!Follow, Edges!Waiter, Edges!Waitee
<1>2. ASSUME NEW c \in Caller, NEW w \in Edges!Want, Edges!Ask(c, w) PROVE EdgeInv'
  <2>1. edges' = edges /\ at'[c] = "check"
    BY <1>0, <1>2 DEF Edges!Ask, EdgeTyped, Edges!TypeOK
  <2>2. Acyclic'
    BY <2>1, FewerEdges DEF EdgeInv
  <2> QED BY <1>0, <2>1, <2>2 DEF EdgeInv
<1>3. ASSUME NEW c \in Caller, Edges!CheckCycle(c) PROVE EdgeInv'
  <2>1. at[c] = "check" /\ edges' = edges /\ want' = want /\ want[c] \in Edges!Want
    BY <1>0, <1>3 DEF Edges!CheckCycle, EdgeTyped, Edges!TypeOK
  <2>2. Acyclic' /\ \A R : Edges!Follow(R)' \subseteq Edges!Follow(R)
    BY <2>1, FewerEdges DEF EdgeInv
  <2>3. ASSUME at'[c] = "insert" PROVE Separate(want[c])
    <3> DEFINE a == Edges!Waiter(want[c])
               b == Edges!Waitee(want[c])
    <3>1. a \in Task /\ b \in Task
      BY <2>1, WantEnds
    <3>2. a \notin Edges!Reached(b)
      BY <1>0, <1>3, <2>3 DEF Edges!CheckCycle, Edges!WaitsOn, EdgeTyped, Edges!TypeOK
    <3>3. b \in Edges!Reached(b) /\ Edges!Reached(b) \subseteq Task
      <4>1. Edges!TypeOK
        BY <1>0 DEF EdgeTyped
      <4> HIDE DEF b
      <4> QED BY <3>1, <4>1, ReachedStarts
    <3>4. Edges!Follow(Edges!Reached(b)) \subseteq Edges!Reached(b)
      BY <3>1 DEF DepthSuffices
    <3> QED BY <3>2, <3>3, <3>4 DEF Separate
  <2>4. PICK v : v = want[c]
    OBVIOUS
  <2>5. Separate(v) => Separate(v)'
    BY <2>2 DEF Separate, Edges!Waiter, Edges!Waitee
  <2> QED BY <1>0, <2>1, <2>2, <2>3, <2>4, <2>5 DEF EdgeInv
<1>4. ASSUME NEW c \in Caller, Edges!Insert(c) PROVE EdgeInv'
  <2>1. at'[c] # "insert"
    BY <1>0, <1>4 DEF Edges!Insert, EdgeTyped, Edges!TypeOK
  <2> QED BY <1>0, <1>4, <2>1, InsertKeeps DEF EdgeInv
<1>5. ASSUME NEW e \in edges, Edges!Retract(e) PROVE EdgeInv'
  <2>1. edges' \subseteq edges /\ at' = at /\ want' = want
    BY <1>5 DEF Edges!Retract
  <2>2. Acyclic' /\ \A R : Edges!Follow(R)' \subseteq Edges!Follow(R)
    BY <2>1, FewerEdges DEF EdgeInv
  <2>3. ASSUME NEW c \in Caller, at'[c] = "insert" PROVE Separate(want[c])'
    <3>1. PICK v : v = want[c]
      OBVIOUS
    <3>2. Separate(v) /\ v = want'[c]
      BY <2>1, <2>3, <3>1 DEF EdgeInv
    <3>3. Separate(v)'
      BY <2>2, <3>2 DEF Separate, Edges!Waiter, Edges!Waitee
    <3> QED BY <3>2, <3>3
  <2> QED BY <1>0, <2>2, <2>3 DEF EdgeInv
<1> QED BY <1>1, <1>2, <1>3, <1>4, <1>5 DEF Edges!Next

LEMMA EdgeSteps == [ContentNext]_contentVars => [Edges!Next]_edgeVars
BY DEF ContentNext, contentVars

\* No task waits for itself, over whatever edges one caller emits and anybody retracts, as long as
\* no chain of waits is longer than the query follows (emitEdge, waitsOn).
THEOREM NoneWaitsForItself ==
  (\A c, d \in Caller : c = d) => (ContentSpec /\ []DepthSuffices => []Acyclic)
<1> SUFFICES ASSUME \A c, d \in Caller : c = d PROVE ContentSpec /\ []DepthSuffices => []Acyclic
  OBVIOUS
<1>1. ContentInit => EdgeInv
  BY EdgeInit DEF ContentInit
<1>2. EdgeInv /\ DepthSuffices /\ [ContentNext]_contentVars => EdgeInv'
  BY EdgeStep, EdgeSteps
<1>3. EdgeInv => Acyclic
  BY DEF EdgeInv
<1> QED BY <1>1, <1>2, <1>3, PTL DEF ContentSpec

\* No chain is that long where there are no more tasks than the query makes steps, and one more.
LEMMA DepthOfFewTasks ==
  IsFiniteSet(Task) /\ Cardinality(Task) <= MaxDepth + 1 => (ContentSpec => []DepthSuffices)
<1> SUFFICES ASSUME IsFiniteSet(Task), Cardinality(Task) <= MaxDepth + 1 PROVE ContentSpec => []DepthSuffices
  OBVIOUS
<1>1. ContentInit => EdgeTyped
  BY EdgeInit DEF ContentInit, EdgeInv
<1>2. EdgeTyped /\ [ContentNext]_contentVars => EdgeTyped'
  BY EdgeTypes, EdgeSteps
<1>3. EdgeTyped => DepthSuffices
  BY FewTasks DEF EdgeTyped
<1> QED BY <1>1, <1>2, <1>3, PTL DEF ContentSpec

\* Among no more tasks than the query makes steps, and one more, none waits for itself, over
\* whatever edges one caller emits and anybody retracts.
THEOREM FewTasksWaitInOrder ==
  (\A c, d \in Caller : c = d) /\ IsFiniteSet(Task) /\ Cardinality(Task) <= MaxDepth + 1
    => (ContentSpec => []Acyclic)
<1> SUFFICES ASSUME \A c, d \in Caller : c = d, IsFiniteSet(Task), Cardinality(Task) <= MaxDepth + 1
             PROVE  ContentSpec => []Acyclic
  OBVIOUS
<1>1. ContentSpec => []DepthSuffices
  BY DepthOfFewTasks
<1>2. ContentSpec /\ []DepthSuffices => []Acyclic
  BY NoneWaitsForItself
<1> QED BY <1>1, <1>2
===============================================================================
