---------------------------- MODULE DispatchProofs ----------------------------
(***************************************************************************)
(* What the dispatcher promises of its queue, for any sessions, parents,   *)
(* priorities and capacity, where the queue fits in a scan.                *)
(*                                                                         *)
(* A pass decides with what it read.  That is still true when it returns:  *)
(* a run that leaves in between asks for another pass, only the pass       *)
(* launches, and a row is looked at before the rows behind it, so that the *)
(* slot it was refused is not free again and its parent has no run yet.    *)
(***************************************************************************)
EXTENDS Dispatcher, FiniteSetTheorems, WellFoundedInduction, TLAPS

RunStates == {"none", "launched", "executing", "returning"}

Typed ==
  /\ state \in [Session -> State] /\ run \in [Session -> RunStates]
  /\ live \subseteq Session /\ scan \subseteq Session /\ roots \in Nat

\* A running row has a run in this process.
RunningHasRun == \A s \in Session : state[s] = "running" => run[s] = "executing"

\* The pass under way is the last one, as far as it is known.
Decisive == ~again /\ ~stopped

Refused(s) ==
  \/ s \in Inflight
  \/ s \in broke
  \/ ~HasLiveParent(s, Inflight) /\ Cardinality(Inflight) >= MaxRuns

\* The rows it read as running have their runs still.
Counted == (pc = "queue" /\ Decisive) => live \subseteq Inflight

\* In the loop: what it counts is what is in flight, and what it has passed
\* over comes before what is left.
Looping ==
  (pc = "loop" /\ Decisive) =>
    /\ live = Inflight /\ roots <= Cardinality(Inflight)
    /\ \A s \in Queued \ scan : Refused(s) /\ \A t \in scan : Before(s, t)

Rest == (pc = "idle" /\ ~stopped) => \A s \in Queued : Refused(s)

QueueInv == Typed /\ RunningHasRun /\ Counted /\ Looping /\ Rest

LEMMA InflightFinite ==
  IsFiniteSet(Inflight) /\ Cardinality(Inflight) \in Nat
  BY SessionAssumption, FS_Subset, FS_CardinalityType DEF Inflight

LEMMA CountRootsBound ==
  ASSUME NEW set \in SUBSET Session
  PROVE  CountRoots(set) \in Nat /\ CountRoots(set) <= Cardinality(set)
<1> DEFINE top == {s \in set : ~HasLiveParent(s, set)}
<1>1. IsFiniteSet(set) /\ top \subseteq set
  BY SessionAssumption, FS_Subset
<1>2. IsFiniteSet(top) /\ Cardinality(top) <= Cardinality(set)
  BY <1>1, FS_Subset
<1>3. Cardinality(top) \in Nat
  BY <1>2, FS_CardinalityType
<1> QED BY <1>2, <1>3 DEF CountRoots

\* A queue that fits in a scan is scanned as a whole.
LEMMA ScansAll ==
  ASSUME Cardinality(Session) <= ScanLimit
  PROVE  NextQueued = Queued
<1> SUFFICES ASSUME NEW s \in Queued
             PROVE  Cardinality({t \in Queued : Before(t, s)}) < ScanLimit
  BY DEF NextQueued
<1> DEFINE ahead == {t \in Queued : Before(t, s)}
<1>1. s \in Session /\ Session \subseteq Nat /\ Priority \in [Session -> Nat]
  BY SessionAssumption DEF Queued
<1>2. ahead \subseteq Session \ {s}
  BY <1>1 DEF Queued, Before
<1>3. IsFiniteSet(Session) /\ Cardinality(Session) \in Nat
  BY SessionAssumption, FS_CardinalityType
<1>4. IsFiniteSet(Session \ {s}) /\ Cardinality(Session \ {s}) = Cardinality(Session) - 1
  BY <1>1, <1>3, FS_RemoveElement
<1>5. Cardinality(ahead) <= Cardinality(Session \ {s}) /\ Cardinality(ahead) \in Nat
  <2>1. IsFiniteSet(ahead) /\ Cardinality(ahead) <= Cardinality(Session \ {s})
    BY <1>2, <1>4, FS_Subset
  <2> QED BY <2>1, FS_CardinalityType
<1>6. ScanLimit \in Nat
  BY CapacityAssumption
<1> QED BY <1>3, <1>4, <1>5, <1>6

\* Asking for a pass starts one, or makes the one under way not the last.
LEMMA ScheduleRests ==
  ASSUME Schedule, Free, stopped' = stopped
  PROVE  Counted' /\ Looping' /\ Rest'
<1>1. CASE stopped
  BY <1>1 DEF Counted, Looping, Rest, Decisive
<1>2. CASE ~stopped /\ pc \in {"idle", "gave-up"}
  BY <1>2 DEF Schedule, Counted, Looping, Rest, Decisive
<1>3. CASE ~stopped /\ pc \notin {"idle", "gave-up"}
  BY <1>3 DEF Schedule, Counted, Looping, Rest, Decisive
<1> QED BY <1>1, <1>2, <1>3

\* An action that asks for no pass, adds nothing to the queue and keeps the
\* slots taken leaves the decisions as they are.
LEMMA QuietRests ==
  ASSUME QueueInv, Free, UNCHANGED <<pc, again, stopped, live>>,
         Queued' \subseteq Queued, Inflight' = Inflight, broke \subseteq broke'
  PROVE  Counted' /\ Looping' /\ Rest'
  BY DEF QueueInv, Counted, Looping, Rest, Decisive, Refused, Free, HasLiveParent

LEMMA InitRests == Init => QueueInv
  BY DEF Init, QueueInv, Typed, RunningHasRun, Counted, Looping, Rest, Decisive, Queued,
         State, RunStates

LEMMA AdmitKeeps ==
  ASSUME QueueInv, NEW s \in Session, Admit(s)
  PROVE  QueueInv'
<1> USE DEF Admit
<1>1. Typed' /\ RunningHasRun'
  BY DEF QueueInv, Typed, RunningHasRun, RunStates, Inflight, db
<1>2. Counted' /\ Rest'
  BY DEF Counted, Rest
<1>3. Looping'
  <2> SUFFICES ASSUME ~again, ~stopped PROVE Looping'
    BY DEF Looping, Decisive
  <2>1. /\ live = Inflight /\ roots <= Cardinality(Inflight) /\ roots \in Nat
        /\ \A u \in Queued \ scan : Refused(u) /\ \A t \in scan : Before(u, t)
    BY DEF QueueInv, Looping, Decisive, Typed
  <2>2. Queued' = Queued /\ Queued \subseteq Session /\ scan \subseteq Session
    BY DEF QueueInv, Typed, Queued, db
  <2>3. s \in scan /\ \A t \in scan \ {s} : Before(s, t)
    BY DEF First
  <2>4. \A u \in Queued \ scan' : \A t \in scan' : Before(u, t)
    BY <2>1, <2>2, <2>3
  <2>5. MaxRuns \in Nat /\ Cardinality(Inflight) \in Nat /\ IsFiniteSet(Inflight)
    BY CapacityAssumption, InflightFinite
  <2>6. CASE UNCHANGED <<run, live, roots>>
           /\ (s \in Inflight \/ (~Borrows(s) /\ roots >= MaxRuns) \/ s \in broke)
    <3>1. Inflight' = Inflight /\ broke' = broke
      BY <2>6 DEF Inflight, db
    <3>2. Refused(s)
      BY <2>1, <2>5, <2>6 DEF Refused, Borrows, HasLiveParent
    <3>3. \A u \in Queued \ scan' : Refused(u)'
      BY <2>1, <2>2, <3>1, <3>2 DEF Refused, HasLiveParent
    <3> QED BY <2>1, <2>2, <2>4, <2>6, <3>1, <3>3 DEF Looping, Before
  <2>7. CASE /\ s \notin Inflight /\ run' = [run EXCEPT ![s] = "launched"]
             /\ live' = live \cup {s}
             /\ roots' = IF Borrows(s) THEN roots ELSE roots + 1
    <3>1. Inflight' = Inflight \cup {s} /\ broke' = broke
      BY <2>7 DEF QueueInv, Typed, Inflight, db
    <3>2. Cardinality(Inflight') = Cardinality(Inflight) + 1
      BY <2>5, <2>7, <3>1, FS_AddElement
    <3>3. roots' <= Cardinality(Inflight')
      BY <2>1, <2>5, <2>7, <3>2
    <3>4. \A u \in Queued \ scan : Parent[u] # s
      <4> SUFFICES ASSUME NEW u \in Queued \ scan, Parent[u] = s PROVE FALSE
        OBVIOUS
      <4>1. u \in Session /\ Before(u, s)
        BY <2>1, <2>2, <2>3
      <4>2. /\ u \in Nat /\ s \in Nat /\ s < u
            /\ Priority[u] = Priority[s] /\ Priority[s] \in Nat
        BY <4>1, SessionAssumption
      <4> QED BY <4>1, <4>2 DEF Before
    <3>5. \A u \in Queued \ scan : Refused(u)'
      <4> SUFFICES ASSUME NEW u \in Queued \ scan PROVE Refused(u)'
        OBVIOUS
      <4>1. Refused(u) /\ Parent[u] # s
        BY <2>1, <3>4
      <4> QED BY <2>5, <3>1, <3>2, <4>1 DEF Refused, HasLiveParent
    <3>6. Refused(s)'
      BY <3>1 DEF Refused
    <3>7. \A u \in Queued' \ scan' : Refused(u)'
      BY <2>2, <2>3, <3>5, <3>6
    <3> QED BY <2>1, <2>2, <2>4, <2>7, <3>1, <3>3, <3>7 DEF Looping, Before
  <2> QED BY <2>6, <2>7
<1> QED BY <1>1, <1>2, <1>3 DEF QueueInv

LEMMA ReadQueueKeeps ==
  ASSUME QueueInv, ReadQueue, Cardinality(Session) <= ScanLimit
  PROVE  QueueInv'
<1> USE DEF ReadQueue, LiveSet
<1>1. live' \in SUBSET Session /\ live' = live \cup Inflight
  BY DEF QueueInv, Typed, Inflight
<1>2. roots' \in Nat /\ roots' <= Cardinality(live')
  BY <1>1, CountRootsBound
<1>3. scan' = Queued /\ Queued \subseteq Session
  BY ScansAll DEF Queued
<1>4. Inflight' = Inflight /\ Queued' = Queued
  BY DEF Inflight, Queued, db
<1>5. Typed' /\ RunningHasRun'
  BY <1>1, <1>2, <1>3 DEF QueueInv, Typed, RunningHasRun, db
<1>6. Counted' /\ Rest'
  BY DEF Counted, Rest
<1>7. Looping'
  <2> SUFFICES ASSUME ~again, ~stopped PROVE Looping'
    BY DEF Looping, Decisive
  <2>1. live' = Inflight
    BY <1>1 DEF QueueInv, Counted, Decisive
  <2> QED BY <1>2, <1>3, <1>4, <2>1 DEF Looping
<1> QED BY <1>5, <1>6, <1>7 DEF QueueInv

LEMMA NextKeeps ==
  ASSUME QueueInv, [Next]_vars, Cardinality(Session) <= ScanLimit
  PROVE  QueueInv'
<1> USE DEF db, pass, bounds
<1>0. Typed /\ RunningHasRun
  BY DEF QueueInv
<1>1. CASE UNCHANGED vars
  BY <1>1 DEF vars, QueueInv, Typed, RunningHasRun, Counted, Looping, Rest, Decisive,
              Refused, Inflight, Queued, HasLiveParent, Before
<1>2. CASE ReadRunning
  <2>1. Typed' /\ RunningHasRun'
    BY <1>0, <1>2 DEF ReadRunning, Typed, RunningHasRun
  <2>2. Looping' /\ Rest'
    BY <1>2 DEF ReadRunning, PassReturns, Looping, Rest
  <2>3. Counted'
    BY <1>0, <1>2 DEF ReadRunning, PassReturns, Counted, RunningHasRun, Inflight
  <2> QED BY <2>1, <2>2, <2>3 DEF QueueInv
<1>3. CASE ReadQueue
  BY <1>3, ReadQueueKeeps
<1>4. CASE Scanned
  <2>1. Typed' /\ RunningHasRun'
    BY <1>0, <1>4 DEF Scanned, Typed, RunningHasRun
  <2>2. Counted' /\ Looping'
    BY <1>4 DEF Scanned, PassReturns, Counted, Looping
  <2>3. Rest'
    <3> SUFFICES ASSUME pc' = "idle", ~stopped PROVE \A s \in Queued : Refused(s)'
      BY <1>4 DEF Scanned, Rest, Queued
    <3>1. ~again /\ scan = {} /\ pc = "loop"
      BY <1>4 DEF Scanned, PassReturns
    <3>2. \A s \in Queued : Refused(s)
      BY <3>1 DEF QueueInv, Looping, Decisive
    <3> QED BY <1>4, <3>2 DEF Scanned, Refused, Inflight, HasLiveParent
  <2> QED BY <2>1, <2>2, <2>3 DEF QueueInv
<1>5. ASSUME NEW s \in Session, Admit(s) PROVE QueueInv'
  BY <1>5, AdmitKeeps
<1>6. CASE PassFails
  BY <1>0, <1>6 DEF PassFails, QueueInv, Typed, RunningHasRun, Counted, Looping, Rest
<1>7. CASE Timer
  <2>1. Typed' /\ RunningHasRun'
    BY <1>0, <1>7 DEF Timer, Typed, RunningHasRun
  <2> QED BY <1>7, <2>1, ScheduleRests DEF Timer, QueueInv
<1>8. CASE WindowMoves
  BY <1>8 DEF WindowMoves, QueueInv, Typed, RunningHasRun, Counted, Looping, Rest, Decisive,
              Refused, Inflight, Queued, HasLiveParent, Before
<1>9. CASE Stop
  BY <1>0, <1>9 DEF Stop, QueueInv, Typed, RunningHasRun, Counted, Looping, Rest, Decisive
<1>10. CASE Restart
  BY <1>0, <1>10 DEF Restart, QueueInv, Typed, RunningHasRun, Counted, Looping, Rest,
                     State, RunStates
<1>11. ASSUME NEW s \in Session, Enqueue(s) PROVE QueueInv'
  <2>1. Typed' /\ RunningHasRun'
    BY <1>0, <1>11 DEF Enqueue, Typed, RunningHasRun, State
  <2> QED BY <1>11, <2>1, ScheduleRests DEF Enqueue, QueueInv
<1>12. ASSUME NEW s \in Session, Resume(s) PROVE QueueInv'
  <2>1. Typed' /\ RunningHasRun'
    BY <1>0, <1>12 DEF Resume, Typed, RunningHasRun, State
  <2> QED BY <1>12, <2>1, ScheduleRests DEF Resume, QueueInv
<1>13. ASSUME NEW s \in Session, Cancel(s) PROVE QueueInv'
  <2>1. Typed' /\ RunningHasRun'
    BY <1>0, <1>13 DEF Cancel, Typed, RunningHasRun, State
  <2>2. Queued' \subseteq Queued /\ Inflight' = Inflight
    BY <1>0, <1>13 DEF Cancel, Queued, Inflight, Typed
  <2> QED BY <1>13, <2>1, <2>2, QuietRests DEF Cancel, QueueInv
<1>14. ASSUME NEW s \in Session, Spawn(s) PROVE QueueInv'
  <2>1. Typed' /\ RunningHasRun'
    BY <1>0, <1>14 DEF Spawn, Typed, RunningHasRun, State
  <2> QED BY <1>14, <2>1, ScheduleRests DEF Spawn, QueueInv
<1>15. ASSUME NEW s \in Session, Start(s) PROVE QueueInv'
  <2>1. Typed' /\ RunningHasRun'
    BY <1>0, <1>15 DEF Start, Typed, RunningHasRun, State, RunStates
  <2>2. Queued' \subseteq Queued /\ Inflight' = Inflight
    BY <1>0, <1>15 DEF Start, Queued, Inflight, Typed
  <2> QED BY <1>15, <2>1, <2>2, QuietRests DEF Start, QueueInv
<1>16. ASSUME NEW s \in Session, Finish(s) PROVE QueueInv'
  <2>1. Typed' /\ RunningHasRun'
    BY <1>0, <1>16 DEF Finish, Typed, RunningHasRun, State, RunStates
  <2>2. Queued' \subseteq Queued /\ Inflight' = Inflight /\ broke \subseteq broke'
    BY <1>0, <1>16 DEF Finish, Queued, Inflight, Typed
  <2> QED BY <1>16, <2>1, <2>2, QuietRests DEF Finish, QueueInv
<1>17. ASSUME NEW s \in Session, Return(s) PROVE QueueInv'
  <2>1. Typed' /\ RunningHasRun'
    BY <1>0, <1>17 DEF Return, Typed, RunningHasRun, RunStates
  <2> QED BY <1>17, <2>1, ScheduleRests DEF Return, QueueInv
<1> QED BY <1>1, <1>2, <1>3, <1>4, <1>5, <1>6, <1>7, <1>8, <1>9, <1>10, <1>11, <1>12, <1>13,
           <1>14, <1>15, <1>16, <1>17 DEF Next, Pass, Runs

\* Where the queue fits in a scan (100 rows in the code), a dispatcher at rest
\* has overlooked nothing: every queued session is running still, or out of
\* budget, or finds all slots taken (dispatcher.ts: tick).
THEOREM NoneOverlooked ==
  ASSUME Cardinality(Session) <= ScanLimit
  PROVE  Spec => []NothingOverlooked
<1>1. Init => QueueInv
  BY InitRests
<1>2. QueueInv /\ [Next]_vars => QueueInv'
  BY NextKeeps
<1>3. QueueInv => NothingOverlooked
  BY ScansAll DEF QueueInv, Rest, NothingOverlooked, Refused
<1> QED BY <1>1, <1>2, <1>3, PTL DEF Spec

-------------------------------------------------------------------------------
(***************************************************************************)
(* WithinCapacity, for any queue.  The top-level sessions of a set are at   *)
(* most as many as its roots, as countRoots() counts them: a session has a  *)
(* root of the set above it, or is one.  What a pass counts as live covers  *)
(* what is in flight, since only the pass launches; and what it read as     *)
(* running some queries ago was in flight then, so that even a row whose    *)
(* run has gone since does not let a sub-circuit in without a slot.         *)
(***************************************************************************)
LEMMA LeastNumber ==
  ASSUME NEW S \in SUBSET Nat, S # {}
  PROVE  \E m \in S : \A n \in S : m <= n
<1> DEFINE R == OpToRel(<, Nat)
<1>1. IsWellFoundedOn(R, Nat)
  BY NatLessThanWellFounded
<1>2. \A x, y \in Nat : x < y => <<x, y>> \in R
  BY Zenon DEF OpToRel
<1> HIDE DEF R
<1>3. PICK m \in S : \A n \in S : ~(<<n, m>> \in R)
  BY <1>1, WFMin
<1>4. ASSUME NEW n \in S PROVE m <= n
  <2>1. m \in Nat /\ n \in Nat /\ ~(n < m)
    BY <1>2, <1>3
  <2> QED BY <2>1
<1> QED BY <1>4

\* Top is what its recursion says: there is such a function, made id by id.
MadeBelow(n, f) ==
  /\ DOMAIN f = Session
  /\ \A s \in Session : s < n => f[s] = IF Parent[s] = None THEN s ELSE f[Parent[s]]

LEMMA Parents ==
  /\ Session \subseteq Nat
  /\ \A s \in Session : Parent[s] # None => Parent[s] \in Session /\ Parent[s] < s
BY SessionAssumption

LEMMA MadeOnce ==
  ASSUME NEW m \in Nat, NEW n \in Nat, NEW f, NEW g, MadeBelow(m, f), MadeBelow(n, g),
         NEW s \in Session, s < m, s < n
  PROVE  f[s] = g[s]
<1> DEFINE S == {x \in Session : x < m /\ x < n /\ f[x] # g[x]}
<1> SUFFICES ASSUME S # {} PROVE FALSE
  OBVIOUS
<1>1. S \in SUBSET Nat
  BY Parents
<1>2. PICK x \in S : \A y \in S : x <= y
  BY <1>1, LeastNumber
<1>3. x \in Session /\ x \in Nat /\ x < m /\ x < n /\ f[x] # g[x]
  BY <1>2, Parents
<1>4. CASE Parent[x] = None
  BY <1>3, <1>4 DEF MadeBelow
<1>5. CASE Parent[x] # None
  <2>1. Parent[x] \in Session /\ Parent[x] \in Nat /\ Parent[x] < x
    BY <1>3, <1>5, Parents
  <2>2. Parent[x] \notin S
    BY <1>2, <1>3, <2>1
  <2>3. f[Parent[x]] = g[Parent[x]]
    BY <1>3, <2>1, <2>2
  <2> QED BY <1>3, <1>5, <2>3 DEF MadeBelow
<1> QED BY <1>4, <1>5

LEMMA MadeUpTo == ASSUME NEW n \in Nat PROVE \E f : MadeBelow(n, f)
<1> DEFINE S == {k \in Nat : ~\E f : MadeBelow(k, f)}
<1> SUFFICES ASSUME S # {} PROVE FALSE
  OBVIOUS
<1>1. S \in SUBSET Nat
  OBVIOUS
<1>2. PICK m \in S : \A k \in S : m <= k
  BY <1>1, LeastNumber
<1>3. CASE m = 0
  <2>1. MadeBelow(0, [s \in Session |-> s])
    BY Parents DEF MadeBelow
  <2> QED BY <1>2, <1>3, <2>1
<1>4. CASE m # 0
  <2>1. m \in Nat /\ m - 1 \in Nat /\ m - 1 \notin S
    BY <1>2, <1>4
  <2>2. PICK f : MadeBelow(m - 1, f)
    BY <2>1
  <2> DEFINE top(s) == IF Parent[s] = None THEN s ELSE f[Parent[s]]
  <2> DEFINE g == [s \in Session |-> IF s = m - 1 THEN top(s) ELSE f[s]]
  <2>3. ASSUME NEW s \in Session, s < m PROVE g[s] = IF Parent[s] = None THEN s ELSE g[Parent[s]]
    <3>1. s \in Nat /\ (s = m - 1 \/ s < m - 1)
      BY <2>1, <2>3, Parents
    <3>2. ASSUME Parent[s] # None PROVE Parent[s] \in Session /\ Parent[s] \in Nat /\ Parent[s] < m - 1
      <4>1. PICK p \in Session : p = Parent[s]
        BY <3>2, Parents
      <4>2. p \in Nat /\ p < s
        BY <3>2, <4>1, Parents
      <4> QED BY <2>1, <3>1, <4>1, <4>2
    <3>3. Parent[s] # None => g[Parent[s]] = f[Parent[s]]
      BY <2>1, <3>2
    <3>4. g[s] = top(s)
      BY <2>1, <2>2, <3>1 DEF MadeBelow
    <3> HIDE DEF g
    <3> QED BY <3>3, <3>4
  <2>4. MadeBelow(m, g)
    BY <2>3 DEF MadeBelow
  <2> QED BY <1>2, <2>4
<1> QED BY <1>3, <1>4

LEMMA TopOf == ASSUME NEW s \in Session PROVE Top[s] = IF Parent[s] = None THEN s ELSE Top[Parent[s]]
<1> DEFINE F == [n \in Nat |-> CHOOSE f : MadeBelow(n, f)]
<1> DEFINE g == [x \in Session |-> F[x + 1][x]]
<1>1. \A n \in Nat : MadeBelow(n, F[n])
  <2> SUFFICES ASSUME NEW n \in Nat PROVE MadeBelow(n, F[n])
    OBVIOUS
  <2>1. MadeBelow(n, CHOOSE f : MadeBelow(n, f))
    BY MadeUpTo, Zenon
  <2> QED BY <2>1
<1> HIDE DEF F
<1>2. ASSUME NEW x \in Session PROVE g[x] = IF Parent[x] = None THEN x ELSE g[Parent[x]]
  <2>1. x \in Nat /\ x + 1 \in Nat /\ x < x + 1
    BY Parents
  <2>2. g[x] = IF Parent[x] = None THEN x ELSE F[x + 1][Parent[x]]
    BY <1>1, <2>1 DEF MadeBelow
  <2>3. ASSUME Parent[x] # None PROVE F[x + 1][Parent[x]] = g[Parent[x]]
    <3>1. PICK p \in Session : p = Parent[x]
      BY <2>3, Parents
    <3>2. p \in Nat /\ p < p + 1 /\ p < x + 1 /\ p + 1 \in Nat
      BY <2>1, <2>3, <3>1, Parents
    <3>3. F[x + 1][p] = F[p + 1][p]
      BY <1>1, <2>1, <3>1, <3>2, MadeOnce
    <3> QED BY <3>1, <3>3
  <2> QED BY <2>2, <2>3
<1>3. g = [x \in Session |-> IF Parent[x] = None THEN x ELSE g[Parent[x]]]
  <2> DEFINE h == [x \in Session |-> IF Parent[x] = None THEN x ELSE g[Parent[x]]]
  <2>1. \A x \in Session : g[x] = h[x]
    BY <1>2
  <2>2. DOMAIN g = Session /\ DOMAIN h = Session
    OBVIOUS
  <2> QED BY <2>1, <2>2
<1> HIDE DEF g
<1>4. Top = [x \in Session |-> IF Parent[x] = None THEN x ELSE Top[Parent[x]]]
  BY <1>3, Zenon DEF Top
<1> QED BY <1>4

Tops(set) == {Top[s] : s \in set}

LEMMA TopsFinite ==
  ASSUME NEW set \in SUBSET Session
  PROVE  IsFiniteSet(Tops(set)) /\ Cardinality(Tops(set)) \in Nat /\ Cardinality(Tops(set)) <= Cardinality(set)
<1> DEFINE f == [s \in set |-> Top[s]]
<1>1. IsFiniteSet(set)
  BY SessionAssumption, FS_Subset
<1>2. f \in Surjection(set, Tops(set))
  BY DEF Tops, Surjection
<1> HIDE DEF f
<1> QED BY <1>1, <1>2, FS_Surjection, FS_CardinalityType

\* countRoots() of a set is at least the number of its top-level sessions.
LEMMA RootsCover ==
  ASSUME NEW set \in SUBSET Session
  PROVE  Cardinality(Tops(set)) <= CountRoots(set)
<1> DEFINE top == {s \in set : ~HasLiveParent(s, set)}
<1>1. ASSUME NEW s \in set PROVE \E r \in top : Top[r] = Top[s]
  <2> DEFINE S == {x \in set : Top[x] = Top[s]}
  <2>1. S \in SUBSET Nat /\ S # {}
    BY Parents
  <2>2. PICK r \in S : \A x \in S : r <= x
    BY <2>1, LeastNumber
  <2>3. r \in set /\ r \in Session /\ r \in Nat /\ Top[r] = Top[s]
    BY <2>2, Parents
  <2>4. ASSUME HasLiveParent(r, set) PROVE FALSE
    <3>1. Parent[r] \in set /\ Parent[r] \in Nat /\ Parent[r] < r /\ Top[Parent[r]] = Top[r]
      BY <2>3, <2>4, Parents, TopOf DEF HasLiveParent
    <3>2. Parent[r] \in S
      BY <2>3, <3>1
    <3> QED BY <2>2, <2>3, <3>1, <3>2
  <2> QED BY <2>3, <2>4
<1>2. Tops(top) = Tops(set)
  BY <1>1 DEF Tops
<1> QED BY <1>2, TopsFinite DEF CountRoots

\* What the pass has found, or given, fits the slots.
Slots ==
  /\ Cardinality(Tops(Inflight)) <= MaxRuns
  /\ pc = "queue" => Cardinality(Tops(live \cup Inflight)) <= MaxRuns
  /\ pc = "loop" => /\ Inflight \subseteq live /\ Cardinality(Tops(live)) <= MaxRuns
                    /\ Cardinality(Tops(live)) <= roots

SlotInv == Typed /\ RunningHasRun /\ Slots

\* Fewer sessions have no more tops.
LEMMA FewerTops ==
  ASSUME NEW set \in SUBSET Session, NEW sub \in SUBSET set
  PROVE  Cardinality(Tops(sub)) <= Cardinality(Tops(set))
<1>1. Tops(sub) \subseteq Tops(set)
  BY DEF Tops
<1> QED BY <1>1, TopsFinite, FS_Subset

LEMMA TypedNext == Typed /\ RunningHasRun /\ [Next]_vars => Typed' /\ RunningHasRun'
<1> SUFFICES ASSUME Typed, RunningHasRun, [Next]_vars PROVE Typed' /\ RunningHasRun'
  OBVIOUS
<1> USE DEF db, pass, bounds
<1>1. CASE ReadQueue
  <2>1. live' \in SUBSET Session /\ scan' \in SUBSET Session
    BY <1>1 DEF ReadQueue, LiveSet, Typed, Inflight, NextQueued, Queued
  <2>2. roots' \in Nat
    BY <1>1, <2>1, CountRootsBound DEF ReadQueue
  <2> QED BY <1>1, <2>1, <2>2 DEF ReadQueue, Typed, RunningHasRun
<1>2. CASE UNCHANGED vars
  BY <1>2 DEF vars, Typed, RunningHasRun
<1>3. CASE ReadRunning \/ Scanned \/ PassFails \/ Timer \/ WindowMoves \/ Stop
  BY <1>3 DEF ReadRunning, Scanned, PassFails, Timer, WindowMoves, Stop, Typed, RunningHasRun
<1>4. CASE Restart
  BY <1>4 DEF Restart, Typed, RunningHasRun, State, RunStates
<1>5. ASSUME NEW s \in Session, Admit(s) PROVE Typed' /\ RunningHasRun'
  BY <1>5 DEF Admit, Typed, RunningHasRun, RunStates, Inflight
<1>6. ASSUME NEW s \in Session, Enqueue(s) \/ Resume(s) \/ Cancel(s) \/ Spawn(s) PROVE Typed' /\ RunningHasRun'
  BY <1>6 DEF Enqueue, Resume, Cancel, Spawn, Typed, RunningHasRun, State
<1>7. ASSUME NEW s \in Session, Runs(s) PROVE Typed' /\ RunningHasRun'
  BY <1>7 DEF Runs, Start, Finish, Return, Typed, RunningHasRun, State, RunStates
<1> QED BY <1>1, <1>2, <1>3, <1>4, <1>5, <1>6, <1>7 DEF Next, Pass

LEMMA SlotInit == Init => SlotInv
<1> SUFFICES ASSUME Init PROVE SlotInv
  OBVIOUS
<1>1. Inflight = {} /\ pc = "idle"
  BY DEF Init, Inflight
<1>2. Cardinality(Tops(Inflight)) <= MaxRuns
  <2>1. Tops(Inflight) = {}
    BY <1>1 DEF Tops
  <2> QED BY <2>1, FS_EmptySet, CapacityAssumption
<1> QED BY <1>1, <1>2, InitRests DEF SlotInv, Slots, QueueInv

\* Steps beside a pass, in which runs may end but none is launched.
LEMMA BesideKeeps ==
  ASSUME SlotInv, Inflight' \subseteq Inflight,
         pc' = "queue" => pc = "queue" /\ live' = live,
         pc' = "loop" => pc = "loop" /\ live' = live /\ roots' = roots
  PROVE  Slots'
<1>1. live \subseteq Session /\ Inflight \subseteq Session /\ MaxRuns \in Nat
  BY CapacityAssumption DEF SlotInv, Typed, Inflight
<1>2. Cardinality(Tops(Inflight')) <= MaxRuns
  BY <1>1, FewerTops, TopsFinite DEF SlotInv, Slots
<1>3. pc = "queue" => Cardinality(Tops(live \cup Inflight')) <= MaxRuns
  <2> SUFFICES ASSUME pc = "queue" PROVE Cardinality(Tops(live \cup Inflight')) <= MaxRuns
    OBVIOUS
  <2>1. live \cup Inflight \in SUBSET Session /\ live \cup Inflight' \in SUBSET (live \cup Inflight)
    BY <1>1
  <2> QED BY <1>1, <2>1, FewerTops, TopsFinite DEF SlotInv, Slots
<1> QED BY <1>1, <1>2, <1>3 DEF SlotInv, Slots

\* The pass reads the running rows; later it counts what is in flight too.
LEMMA ReadingKeeps ==
  ASSUME SlotInv, ReadRunning \/ ReadQueue
  PROVE  Slots'
<1>0. /\ live \in SUBSET Session /\ Inflight \in SUBSET Session /\ MaxRuns \in Nat
      /\ Inflight' = Inflight /\ Cardinality(Tops(Inflight)) <= MaxRuns
  BY CapacityAssumption DEF SlotInv, Slots, Typed, Inflight, ReadRunning, ReadQueue
<1>1. CASE ReadRunning
  <2>1. pc' = "queue" => live' \subseteq Inflight
    BY <1>1 DEF ReadRunning, PassReturns, SlotInv, Typed, RunningHasRun, Inflight
  <2>2. pc' = "queue" => live' \cup Inflight = Inflight
    BY <2>1
  <2>3. pc' # "loop"
    BY <1>1 DEF ReadRunning, PassReturns
  <2> QED BY <1>0, <2>2, <2>3 DEF Slots
<1>2. CASE ReadQueue
  <2>1. live' = live \cup Inflight /\ roots' = CountRoots(live') /\ pc' = "loop" /\ pc = "queue"
    BY <1>2 DEF ReadQueue, LiveSet
  <2>2. Cardinality(Tops(live')) <= MaxRuns
    BY <2>1 DEF SlotInv, Slots
  <2>3. PICK rows \in SUBSET Session : rows = live'
    BY <1>0, <2>1
  <2>4. Cardinality(Tops(rows)) <= CountRoots(rows)
    BY RootsCover
  <2> QED BY <1>0, <2>1, <2>2, <2>3, <2>4 DEF Slots
<1> QED BY <1>1, <1>2

\* A sub-circuit is in its parent's slot; another session takes one of its own.
LEMMA AdmitFits ==
  ASSUME SlotInv, NEW s \in Session, Admit(s)
  PROVE  Slots'
<1>0. /\ pc = "loop" /\ pc' = "loop" /\ Inflight \subseteq live /\ live \in SUBSET Session
      /\ Cardinality(Tops(live)) <= MaxRuns /\ Cardinality(Tops(live)) <= roots
      /\ roots \in Nat /\ MaxRuns \in Nat
  BY CapacityAssumption DEF SlotInv, Slots, Typed, Admit
<1>1. CASE UNCHANGED <<run, live, roots>>
  <2>1. Inflight' = Inflight
    BY <1>1 DEF Inflight
  <2> QED BY <1>0, <1>1, <2>1 DEF SlotInv, Slots
<1>2. CASE /\ Borrows(s) \/ roots < MaxRuns
           /\ run' = [run EXCEPT ![s] = "launched"]
           /\ live' = live \cup {s}
           /\ roots' = IF Borrows(s) THEN roots ELSE roots + 1
  <2>1. Inflight' = Inflight \cup {s}
    BY <1>2 DEF SlotInv, Typed, Inflight
  <2>2. Cardinality(Tops(live')) <= MaxRuns /\ Cardinality(Tops(live')) <= roots'
    <3>1. CASE Borrows(s)
      <4>1. Parent[s] \in live /\ Top[s] = Top[Parent[s]]
        BY <1>0, <3>1, TopOf DEF Borrows, HasLiveParent
      <4>2. Tops(live \cup {s}) = Tops(live)
        BY <4>1 DEF Tops
      <4> QED BY <1>0, <1>2, <3>1, <4>2
    <3>2. CASE ~Borrows(s)
      <4>1. Tops(live \cup {s}) = Tops(live) \cup {Top[s]}
        BY DEF Tops
      <4>2. IsFiniteSet(Tops(live)) /\ Cardinality(Tops(live)) \in Nat
        BY <1>0, TopsFinite
      <4>3. Cardinality(Tops(live \cup {s})) <= Cardinality(Tops(live)) + 1
        <5>1. PICK tops : tops = Tops(live)
          OBVIOUS
        <5>2. PICK top : top = Top[s]
          OBVIOUS
        <5>3. PICK n \in Nat : n = Cardinality(tops)
          BY <4>2, <5>1
        <5>4. Cardinality(tops \cup {top}) = n \/ Cardinality(tops \cup {top}) = n + 1
          BY <4>2, <5>1, <5>3, FS_AddElement
        <5>5. Cardinality(tops \cup {top}) <= n + 1
          BY <5>4
        <5> QED BY <4>1, <5>1, <5>2, <5>3, <5>5
      <4>4. Cardinality(Tops(live \cup {s})) \in Nat
        BY <4>1, <4>2, FS_AddElement, FS_CardinalityType
      <4> QED BY <1>0, <1>2, <3>2, <4>2, <4>3, <4>4
    <3> QED BY <3>1, <3>2
  <2>3. Inflight' \subseteq live' /\ live' \subseteq Session
    BY <1>0, <1>2, <2>1
  <2>4. Cardinality(Tops(Inflight')) <= MaxRuns
    <3>1. PICK l \in SUBSET Session : l = live'
      BY <2>3
    <3>2. PICK fl \in SUBSET l : fl = Inflight'
      BY <2>3, <3>1
    <3>3. Cardinality(Tops(fl)) <= Cardinality(Tops(l)) /\ Cardinality(Tops(l)) \in Nat
          /\ Cardinality(Tops(fl)) \in Nat
      BY FewerTops, TopsFinite
    <3> QED BY <1>0, <2>2, <3>1, <3>2, <3>3
  <2> QED BY <1>0, <2>2, <2>3, <2>4 DEF Slots
<1> QED BY <1>1, <1>2 DEF Admit

LEMMA SlotsKept == ASSUME SlotInv, [Next]_vars PROVE SlotInv'
<1>0. Typed' /\ RunningHasRun'
  BY TypedNext DEF SlotInv
<1> USE DEF db, pass, bounds
<1> SUFFICES Slots'
  BY <1>0 DEF SlotInv
<1>1. CASE UNCHANGED vars
  BY <1>1, BesideKeeps DEF vars, Inflight
<1>2. CASE ReadRunning \/ ReadQueue
  BY <1>2, ReadingKeeps
<1>3. ASSUME NEW s \in Session, Admit(s) PROVE Slots'
  BY <1>3, AdmitFits
<1>4. CASE Scanned \/ PassFails \/ Restart
  <2>1. Inflight' \subseteq Inflight /\ pc' \notin {"queue", "loop"}
    BY <1>4 DEF Scanned, PassReturns, PassFails, Restart, Inflight
  <2> QED BY <2>1, BesideKeeps
<1>5. CASE Timer \/ WindowMoves \/ Stop
  <2>1. Inflight' \subseteq Inflight /\ live' = live /\ roots' = roots
        /\ (pc' = pc \/ pc' = "read")
    BY <1>5 DEF Timer, Schedule, WindowMoves, Stop, Inflight
  <2> QED BY <2>1, BesideKeeps
<1>6. ASSUME NEW s \in Session, Enqueue(s) \/ Resume(s) \/ Cancel(s) \/ Spawn(s) PROVE Slots'
  <2>1. Inflight' \subseteq Inflight /\ live' = live /\ roots' = roots
        /\ (pc' = pc \/ pc' = "read")
    BY <1>6 DEF Enqueue, Resume, Cancel, Spawn, Schedule, Inflight
  <2> QED BY <2>1, BesideKeeps
<1>7. ASSUME NEW s \in Session, Runs(s) PROVE Slots'
  <2>1. Inflight' \subseteq Inflight /\ live' = live /\ roots' = roots
        /\ (pc' = pc \/ pc' = "read")
    BY <1>7 DEF Runs, Start, Finish, Return, Schedule, Inflight, SlotInv, Typed
  <2> QED BY <2>1, BesideKeeps
<1> QED BY <1>1, <1>2, <1>3, <1>4, <1>5, <1>6, <1>7 DEF Next, Pass

\* Whatever the queue and the order of the queries, the runs in flight belong
\* to at most MaxRuns top-level sessions: the capacity that tick() keeps by
\* counting the roots of what it read.
THEOREM CapacityKept == Spec => []WithinCapacity
<1>1. Init => SlotInv
  BY SlotInit
<1>2. SlotInv /\ [Next]_vars => SlotInv'
  BY SlotsKept
<1>3. SlotInv => WithinCapacity
  BY DEF SlotInv, Slots, WithinCapacity, Tops
<1> QED BY <1>1, <1>2, <1>3, PTL DEF Spec
===============================================================================
