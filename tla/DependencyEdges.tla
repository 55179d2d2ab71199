---------------------------- MODULE DependencyEdges ----------------------------
(***************************************************************************)
(* The edges by which tasks wait for one another: emitEdge(), waitsOn()    *)
(* and retractEdge() of the content service (content/service.ts), over the *)
(* edge store (content/edges.ts).  "X depends-on Y" says what "Y blocks X" *)
(* says.  emitEdge() makes its three queries (is the edge there, would it  *)
(* close a cycle, insert it) without a transaction.                        *)
(***************************************************************************)
EXTENDS Naturals, FiniteSets

CONSTANTS
  Task, Caller, None,
  MaxDepth,    \* the depth to which waitsOn() follows edges: 50 in the code
  MaxEdges     \* bound: edges ever emitted

DepthAssumption == MaxDepth \in Nat /\ MaxEdges \in Nat /\ None \notin Caller

VARIABLES
  edges,     \* the rows: [id, type, src, dst]; a retracted edge is left out
  next,      \* the next edge_id
  pc, want   \* where each caller is, and the edge it wants

vars == <<edges, next, pc, want>>

Type == {"depends-on", "blocks"}
Want == {w \in [type : Type, src : Task, dst : Task] : w.src # w.dst}
Edge == [id : 1 .. MaxEdges, type : Type, src : Task, dst : Task]

TypeOK ==
  /\ edges \subseteq Edge /\ next \in 1 .. MaxEdges + 1
  /\ \A e \in edges : e.id < next
  /\ pc \in [Caller -> {"idle", "check", "insert"}]
  /\ \A c \in Caller : pc[c] # "idle" => want[c] \in Want

Init == edges = {} /\ next = 1 /\ pc = [c \in Caller |-> "idle"] /\ want = [c \in Caller |-> None]

-------------------------------------------------------------------------------
\* Who waits by an edge, and for whom.
Waiter(w) == IF w.type = "depends-on" THEN w.src ELSE w.dst
Waitee(w) == IF Waiter(w) = w.src THEN w.dst ELSE w.src

\* Mutant: the query follows only one of the two types.
FollowOne(S) == {Waitee(e) : e \in {f \in edges : f.type = "depends-on" /\ Waiter(f) \in S}}

\* One step of the recursive query.
Follow(S) == {Waitee(e) : e \in {f \in edges : Waiter(f) \in S}}

\* The recursive query: reached[n] is what can be waited for in n edges or less.
Reached(from) ==
  LET reached[n \in 0 .. MaxDepth] ==
        IF n = 0 THEN {from}
        ELSE reached[n - 1] \cup Follow(reached[n - 1])
  IN  reached[MaxDepth]

WaitsOn(from, to) == to \in Reached(from)

Same(e, w) == e.type = w.type /\ e.src = w.src /\ e.dst = w.dst

-------------------------------------------------------------------------------
\* emitEdge(): an edge that is there is returned as it is.
Ask(c, w) ==
  /\ pc[c] = "idle" /\ next <= MaxEdges
  /\ ~ \E e \in edges : Same(e, w)
  /\ pc' = [pc EXCEPT ![c] = "check"] /\ want' = [want EXCEPT ![c] = w]
  /\ UNCHANGED <<edges, next>>

CheckCycle(c) ==
  /\ pc[c] = "check"
  /\ pc' = [pc EXCEPT ![c] = IF WaitsOn(Waitee(want[c]), Waiter(want[c])) THEN "idle" ELSE "insert"]
  /\ UNCHANGED <<edges, next, want>>

New(c) == [id |-> next, type |-> want[c].type, src |-> want[c].src, dst |-> want[c].dst]

Insert(c) ==
  /\ pc[c] = "insert" /\ next <= MaxEdges
  /\ edges' = edges \cup {New(c)}
  /\ next' = next + 1
  /\ pc' = [pc EXCEPT ![c] = "idle"] /\ UNCHANGED want

\* retractEdge(): the row is tested and updated by one statement at the end.
Retract(e) == edges' = edges \ {e} /\ UNCHANGED <<next, pc, want>>

Next ==
  \/ \E c \in Caller : CheckCycle(c) \/ Insert(c) \/ \E w \in Want : Ask(c, w)
  \/ \E e \in edges : Retract(e)

Spec == Init /\ [][Next]_vars
-------------------------------------------------------------------------------
\* No task waits for itself: in every set of tasks there is one that waits for
\* none of the others, so that the dispatcher can always begin somewhere.
Acyclic ==
  \A S \in (SUBSET Task) \ {{}} :
    \E t \in S : ~ \E e \in edges : Waiter(e) = t /\ Waitee(e) \in S
===============================================================================
