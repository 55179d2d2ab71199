------------------------------ MODULE LoopProofs ------------------------------
(***************************************************************************)
(* What run loops, operator calls, wake-ups and verdicts that overlap keep *)
(* of each other: five invariants, each proved from those before it, and   *)
(* the refinement to SessionLifecycle.                                     *)
(***************************************************************************)
EXTENDS OrchestratorProofs

-------------------------------------------------------------------------------
(***************************************************************************)
(* RunningHasLoop.  Only a session's own loop writes "running", as it is   *)
(* admitted, and a loop ends only after its row has left that state or was *)
(* found cancelled; what an operator, a child or the recovery pass writes  *)
(* in between is never "running" either.                                   *)
(***************************************************************************)
\* The recovery pass has s still to do, or is at it.
Recovering(s) == phase = "recover" /\ (s \in todo \/ (pc[Boot] # "idle" /\ tx[Boot].who = s))

Calls(t) == pc[t] \in {"check", "write"}

\* The transition() a loop is in takes a row out of "running", and the loop
\* goes on to its end: it wakes a parent after the loop's own row was written,
\* or is about that row; or it is the loop's admission.
Ends(s) == tx[s].to # "running" /\ tx[s].then \in {"end", "again"}
Wakening(s) == tx[s].wake /\ Ends(s) /\ st[s] # "running"
Own(s) ==
  /\ ~tx[s].wake /\ tx[s].who = s
  /\ Ends(s) \/ (tx[s].to = "running" /\ tx[s].then = "position")

LoopAt(s) ==
  /\ pc[s] \in {"idle", "end"} => st[s] # "running" \/ Recovering(s)
  /\ pc[s] = "again" => st[s] # "running"
  /\ pc[s] = "settle" => st[s] # "running" /\ tx[s].then \in {"end", "again"}
  /\ Calls(s) => Wakening(s) \/ Own(s)

LoopInv ==
  /\ \A s \in Session : LoopAt(s)
  /\ \A t \in Operator \cup {Boot} : Calls(t) => tx[t].to # "running"
  /\ phase = "recover" => \A s \in Session : pc[s] = "idle"
  /\ pc[Boot] # "idle" => phase = "recover"
  /\ pc[Boot] = "settle" => st[tx[Boot].who] # "running"

\* Where a loop is close to its end or in a call.
Delicate == {"idle", "end", "again", "settle", "check", "write"}

\* A step of thread t moves no other thread.
Mine(t) == \A u \in Thread : u # t => pc'[u] = pc[u] /\ tx'[u] = tx[u]

\* A step that leaves every row as it is, but for some that it takes out of "running".
RowsLeave == \A r \in Session : st'[r] = st[r] \/ st'[r] # "running"

LEMMA LoopInit == Init => LoopInv
<1> SUFFICES ASSUME Init PROVE LoopInv
  OBVIOUS
<1>1. \A s \in Session : pc[s] = "idle" /\ st[s] # "running"
  BY DEF Init, Thread
<1>2. pc[Boot] = "idle" /\ phase = "up" /\ \A o \in Operator : pc[o] = "idle"
  BY DEF Init, Thread
<1> QED BY <1>1, <1>2 DEF LoopInv, LoopAt, Calls

\* A step of one loop or one operator call is only about that one.
LEMMA LoopFrame ==
  ASSUME TypeOK, ChildShape, LoopInv, NEW t \in Session \cup Operator, UNCHANGED <<phase, todo>>,
         Mine(t), \A r \in Session : r # t => st'[r] = st[r] \/ st'[r] # "running",
         t \in Session => phase = "up" /\ LoopAt(t)',
         t \in Operator => (Calls(t)' => tx'[t].to # "running")
  PROVE  LoopInv'
<1>1. Boot # t /\ pc'[Boot] = pc[Boot] /\ tx'[Boot] = tx[Boot]
  BY ThreadsAssumption DEF Mine, Thread
<1>2. ASSUME NEW r \in Session, r # t PROVE LoopAt(r)'
  <2>1. /\ pc'[r] = pc[r] /\ tx'[r] = tx[r] /\ (st'[r] = st[r] \/ st'[r] # "running")
        /\ LoopAt(r)
    BY <1>2 DEF Mine, Thread, LoopInv
  <2>2. Recovering(r) => Recovering(r)'
    BY <1>1 DEF Recovering
  <2> QED BY <2>1, <2>2 DEF LoopAt, Calls, Wakening, Own, Ends
<1>3. \A r \in Session : LoopAt(r)'
  BY <1>2
<1>4. \A u \in Operator \cup {Boot} : (Calls(u) => tx[u].to # "running")'
  <2>1. \A u \in Operator \cup {Boot} : u # t => pc'[u] = pc[u] /\ tx'[u] = tx[u]
    BY DEF Mine, Thread
  <2> QED BY <1>1, <2>1, ThreadsAssumption DEF LoopInv, Calls
<1>5. phase' = "recover" => \A r \in Session : pc'[r] = "idle"
  BY ThreadsAssumption DEF LoopInv, Mine, Thread
<1>6. pc'[Boot] = "settle" => st'[tx'[Boot].who] # "running"
  <2>1. ASSUME pc[Boot] = "settle" PROVE st'[tx[Boot].who] # "running"
    <3>1. tx[Boot].who \in Session /\ phase = "recover" /\ st[tx[Boot].who] # "running"
      BY <2>1 DEF ChildShape, InCall, Thread, LoopInv
    <3>2. tx[Boot].who # t
      BY <3>1, ThreadsAssumption
    <3> QED BY <3>1, <3>2
  <2> QED BY <1>1, <2>1
<1>7. pc'[Boot] # "idle" => phase' = "recover"
  BY <1>1 DEF LoopInv
<1> QED BY <1>3, <1>4, <1>5, <1>6, <1>7 DEF LoopInv

-------------------------------------------------------------------------------
(***************************************************************************)
(* Where a step leaves the loop that makes it.                             *)
(***************************************************************************)
LEMMA MoveAt ==
  ASSUME TypeOK, NEW s \in Session, NEW label, label \notin Delicate,
         pc' = [pc EXCEPT ![s] = label], tx' = tx
  PROVE  Mine(s) /\ LoopAt(s)'
BY DEF TypeOK, Thread, Mine, LoopAt, Delicate, Calls

\* The loop ends, and its row is not running.
LEMMA RestAt ==
  ASSUME TypeOK, NEW s \in Session, NEW label \in {"idle", "end"}, st'[s] # "running",
         pc' = [pc EXCEPT ![s] = label], \A u \in Thread : u # s => tx'[u] = tx[u]
  PROVE  Mine(s) /\ LoopAt(s)'
BY DEF TypeOK, Thread, Mine, LoopAt, Calls

LEMMA CallAt ==
  ASSUME TypeOK, NEW s \in Session, NEW to, NEW d, NEW then, Transition(s, s, to, d, then),
         \/ to # "running" /\ then \in {"end", "again"}
         \/ to = "running" /\ then = "position"
  PROVE  Mine(s) /\ LoopAt(s)'
<1> DEFINE c == [who |-> s, to |-> to, det |-> d, wake |-> FALSE, then |-> then]
<1>1. /\ s \in Thread /\ pc' = [pc EXCEPT ![s] = "check"] /\ tx' = [tx EXCEPT ![s] = c]
      /\ c.who = s /\ c.to = to /\ c.wake = FALSE /\ c.then = then
  BY DEF Thread, Transition, Goto
<1> HIDE DEF c
<1>2. pc'[s] = "check" /\ tx'[s] = c /\ Mine(s)
  BY <1>1 DEF TypeOK, Mine
<1>3. Own(s)'
  BY <1>1, <1>2 DEF Own, Ends
<1> QED BY <1>2, <1>3 DEF LoopAt, Calls

LEMMA SuspendAt ==
  ASSUME TypeOK, NEW s \in Session, NEW why, NEW kid, Suspend(s, why, kid)
  PROVE  Mine(s) /\ LoopAt(s)'
BY CallAt DEF Suspend

LEMMA EnterAt ==
  ASSUME TypeOK, NEW s \in Session, NEW x, NEW visit, NEW att, NEW V, NEW A, NEW kid,
         Enter(s, x, visit, att, V, A, kid)
  PROVE  Mine(s) /\ LoopAt(s)'
BY MoveAt DEF Enter, Goto, Delicate

LEMMA NewVisitAt ==
  ASSUME TypeOK, NEW s \in Session, NEW x, NEW V, NEW A, NewVisit(s, x, V, A)
  PROVE  Mine(s) /\ LoopAt(s)'
BY SuspendAt, EnterAt DEF NewVisit

LEMMA FollowAt ==
  ASSUME TypeOK, NEW s \in Session, NEW x, NEW e, NEW V, NEW A, Follow(s, x, e, V, A)
  PROVE  Mine(s) /\ LoopAt(s)'
<1>1. CASE Goto(s, "complete") /\ UNCHANGED <<ctx, loc, tx>>
  BY <1>1, MoveAt DEF Goto, Delicate
<1>2. CASE NewVisit(s, Target[x][e], V, A)
  BY <1>2, NewVisitAt
<1> QED BY <1>1, <1>2 DEF Follow

LEMMA FailAttemptAt ==
  ASSUME TypeOK, NEW s \in Session, NEW retry, NEW why, NEW kid, FailAttempt(s, retry, why, kid)
  PROVE  Mine(s) /\ LoopAt(s)'
<1>1. CASE Goto(s, "assert") /\ UNCHANGED <<mVisits, tx>>
  BY <1>1, MoveAt DEF Goto, Delicate
<1>2. CASE Suspend(s, IF retry THEN "retries-exhausted" ELSE why, IF retry THEN None ELSE kid)
  BY <1>2, SuspendAt
<1> QED BY <1>1, <1>2 DEF FailAttempt

-------------------------------------------------------------------------------
(***************************************************************************)
(* The actions.                                                            *)
(***************************************************************************)
\* A loop that is away from its end or waits for nothing more has an idle row.
LEMMA RunRows ==
  ASSUME TypeOK, LoopInv, NEW s \in Session, Run(s) \/ Admit(s)
  PROVE  phase = "up" /\ UNCHANGED <<phase, todo>> /\ RowsLeave
<1>1. CASE Admit(s)
  BY <1>1 DEF Admit, boot, sessionRows, RowsLeave
<1>2. CASE Run(s)
  <2>1. pc[s] # "idle" /\ UNCHANGED <<phase, todo>>
    BY <1>2 DEF Run, Position, Start, StopCancelled, OverBudget, WorkExit, WorkFail, Spawn, LinkRow,
       LinkLog, WaitExit, WaitCancelled, WaitPark, ParkedAgain, GateOpen, GateEmpty, Complete, End, boot
  <2>2. st' = st \/ \E c \in Session : st' = [st EXCEPT ![c] = "queued"]
    BY <1>2 DEF Run, Position, Start, StopCancelled, OverBudget, WorkExit, WorkFail, Spawn, LinkRow,
       LinkLog, WaitExit, WaitCancelled, WaitPark, ParkedAgain, GateOpen, GateEmpty, Complete, End,
       sessionRows
  <2>3. phase = "up"
    BY <2>1 DEF LoopInv, TypeOK
  <2> QED BY <2>1, <2>2, <2>3 DEF RowsLeave, TypeOK
<1> QED BY <1>1, <1>2

LEMMA RunLoops ==
  ASSUME TypeOK, ChildShape, LoopInv, NEW s \in Session, Run(s) \/ Admit(s)
  PROVE  LoopInv'
<1>1. phase = "up" /\ UNCHANGED <<phase, todo>> /\ RowsLeave
  BY RunRows
<1>2. LoopAt(s) /\ s \in Thread
  BY DEF LoopInv, Thread
<1>3. Mine(s) /\ LoopAt(s)'
  <2>1. CASE Admit(s)
    BY <2>1, CallAt DEF Admit
  <2>2. CASE Position(s)
    BY <2>2, SuspendAt, NewVisitAt, FollowAt, EnterAt DEF Position
  <2>3. CASE Start(s) \/ WorkExit(s) \/ Spawn(s) \/ LinkRow(s) \/ LinkLog(s)
    BY <2>3, MoveAt DEF Start, WorkExit, Spawn, LinkRow, LinkLog, Goto, Delicate
  <2>4. CASE StopCancelled(s)
    BY <2>4, RestAt DEF StopCancelled, Goto, sessionRows
  <2>5. CASE OverBudget(s)
    BY <2>5, SuspendAt DEF OverBudget
  <2>6. CASE WorkFail(s) \/ WaitCancelled(s) \/ GateEmpty(s)
    BY <2>6, FailAttemptAt DEF WorkFail, WaitCancelled, GateEmpty
  <2>7. CASE WaitExit(s)
    <3>1. CASE Goto(s, "exit-log") /\ UNCHANGED <<log, rows, ctx, tx>>
      BY <3>1, MoveAt DEF Goto, Delicate
    <3>2. CASE \E retry, why, kid : FailAttempt(s, retry, why, kid)
      BY <3>2, FailAttemptAt
    <3> QED BY <2>7, <3>1, <3>2 DEF WaitExit
  <2>8. CASE WaitPark(s) \/ GateOpen(s)
    BY <2>8, CallAt DEF WaitPark, GateOpen
  <2>9. CASE ParkedAgain(s)
    <3> DEFINE c == [NoCall EXCEPT !.who = loc[s].kid, !.then = "end"]
    <3>1. st'[s] # "running"
      BY <1>2, <2>9 DEF ParkedAgain, LoopAt, sessionRows
    <3>2. CASE Goto(s, "end") /\ UNCHANGED tx
      BY <3>1, <3>2, RestAt DEF Goto
    <3>3. CASE tx' = [tx EXCEPT ![s] = c] /\ Goto(s, "settle")
      <4>1. c.then = "end"
        BY DEF NoCall
      <4> HIDE DEF c
      <4> QED BY <1>2, <3>1, <3>3, <4>1 DEF Goto, TypeOK, Mine, LoopAt, Calls
    <3> QED BY <2>9, <3>2, <3>3 DEF ParkedAgain
  <2>10. CASE Complete(s)
    BY <2>10, CallAt, SuspendAt DEF Complete
  <2>11. CASE End(s)
    <3>1. st'[s] # "running"
      BY <1>1, <1>2, <2>11 DEF End, LoopAt, Recovering, sessionRows
    <3>2. pc' = [pc EXCEPT ![s] = "idle"] /\ \A u \in Thread : u # s => tx'[u] = tx[u]
      BY <2>11 DEF End, Goto, TypeOK
    <3> QED BY <3>1, <3>2, RestAt
  <2> QED BY <2>1, <2>2, <2>3, <2>4, <2>5, <2>6, <2>7, <2>8, <2>9, <2>10, <2>11 DEF Run
<1> QED BY <1>1, <1>3, ThreadsAssumption, LoopFrame DEF RowsLeave

\* An operator call ends nothing and admits nothing.
LEMMA OperatorCall ==
  ASSUME TypeOK, NEW o \in Operator, NEW s, NEW d, NEW then, Transition(o, s, "queued", d, then)
  PROVE  Mine(o) /\ tx'[o].to # "running"
<1> DEFINE c == [who |-> s, to |-> "queued", det |-> d, wake |-> FALSE, then |-> then]
<1>1. /\ o \in Thread /\ pc' = [pc EXCEPT ![o] = "check"] /\ tx' = [tx EXCEPT ![o] = c]
      /\ c.to = "queued"
  BY DEF Thread, Transition, Goto
<1> HIDE DEF c
<1> QED BY <1>1 DEF TypeOK, Mine

LEMMA OperatorMove ==
  ASSUME TypeOK, NEW o \in Operator, NEW label, label \notin {"check", "write"},
         pc' = [pc EXCEPT ![o] = label], \A u \in Thread : u # o => tx'[u] = tx[u]
  PROVE  Mine(o) /\ ~Calls(o)'
BY DEF TypeOK, Thread, Mine, Calls

LEMMA ServeLoops ==
  ASSUME TypeOK, ChildShape, LoopInv, NEW o \in Operator, Request(o) \/ Serve(o)
  PROVE  LoopInv'
<1>1. UNCHANGED <<phase, todo>>
  BY DEF Request, Serve, Cancel, Retry, Resume, ManualRoute, Verdict, CancelWrite, CancelChildren,
         CancelNext, RetryRead, RetryChild, RetryQueue, VerdictClose, Return, boot
<1>2. RowsLeave
  <2>1. st' = st \/ st' = [st EXCEPT ![Head(stack[o])] = "cancelled"]
    BY DEF Request, Serve, Cancel, Retry, Resume, ManualRoute, Verdict, CancelWrite, CancelChildren,
           CancelNext, RetryRead, RetryChild, RetryQueue, VerdictClose, Return, sessionRows
  <2> QED BY <2>1 DEF TypeOK, RowsLeave
<1>3. Mine(o) /\ (Calls(o)' => tx'[o].to # "running")
  <2>1. CASE \E s \in Session : Resume(o, s)
    BY <2>1, OperatorCall DEF Resume
  <2>2. CASE RetryQueue(o) /\ stack[o] # << >>
    BY <2>2, OperatorCall DEF RetryQueue
  <2>3. CASE \/ \E s \in Session : Cancel(o, s) \/ Retry(o, s) \/ ManualRoute(o, s) \/ Verdict(o, s)
             \/ CancelWrite(o) \/ CancelChildren(o) \/ RetryChild(o) \/ VerdictClose(o)
             \/ RetryRead(o) \/ (RetryQueue(o) /\ stack[o] = << >>)
    BY <2>3, OperatorMove DEF Cancel, Retry, ManualRoute, Verdict, CancelWrite, CancelChildren,
       RetryChild, VerdictClose, RetryRead, RetryQueue, Goto
  <2>4. CASE CancelNext(o)
    <3>1. tx' = tx /\ (pc' = pc \/ \E label \in {"done", "cancel-write"} : pc' = [pc EXCEPT ![o] = label])
      BY <2>4 DEF CancelNext, Goto
    <3>2. pc[o] = "cancel-next"
      BY <2>4 DEF CancelNext
    <3>3. CASE pc' = pc
      BY <3>1, <3>2, <3>3 DEF Mine, Calls
    <3>4. CASE \E label \in {"done", "cancel-write"} : pc' = [pc EXCEPT ![o] = label]
      BY <3>1, <3>4, OperatorMove
    <3> QED BY <3>1, <3>3, <3>4
  <2>5. CASE Return(o)
    <3>1. pc' = [pc EXCEPT ![o] = "idle"] /\ \A u \in Thread : u # o => tx'[u] = tx[u]
      BY <2>5 DEF Return, Goto, TypeOK
    <3> QED BY <3>1, OperatorMove
  <2> QED BY <2>1, <2>2, <2>3, <2>4, <2>5 DEF Request, Serve
<1> QED BY <1>1, <1>2, <1>3, ThreadsAssumption, LoopFrame DEF RowsLeave

LEMMA RecordingLoops ==
  ASSUME TypeOK, ChildShape, LoopInv, NEW t \in Session \cup Operator, Recording(t)
  PROVE  LoopInv'
<1>1. UNCHANGED <<phase, todo>> /\ st' = st /\ t \in Thread
  BY DEF Recording, ExitLog, ExitRow, boot, sessionRows, Thread
<1>2. CASE t \in Session
  <2>1. phase = "up"
    BY <1>2 DEF LoopInv, Recording, ExitLog, ExitRow, TypeOK
  <2>2. CASE ExitLog(t)
    <3>1. Mine(t) /\ LoopAt(t)'
      BY <1>2, <2>2, MoveAt DEF ExitLog, Goto, Delicate
    <3> QED BY <1>1, <1>2, <2>1, <3>1, ThreadsAssumption, LoopFrame
  <2>3. CASE ExitRow(t)
    <3>1. Follow(t, loc[t].step, loc[t].exit, mVisits[t], mAttempts[t])
      BY <1>2, <2>3 DEF ExitRow, About
    <3>2. Mine(t) /\ LoopAt(t)'
      BY <1>2, <3>1, FollowAt
    <3> QED BY <1>1, <1>2, <2>1, <3>2, ThreadsAssumption, LoopFrame
  <2> QED BY <2>2, <2>3 DEF Recording
<1>3. CASE t \in Operator /\ t \notin Session
  <2>1. CASE ExitLog(t)
    <3>1. Mine(t) /\ ~Calls(t)'
      BY <1>3, <2>1, OperatorMove DEF ExitLog, Goto
    <3> QED BY <1>1, <1>3, <3>1, LoopFrame
  <2>2. CASE ExitRow(t)
    <3>1. Transition(t, About(t), "queued", Plain("resumed"), "done")
      BY <1>3, <2>2 DEF ExitRow
    <3>2. Mine(t) /\ tx'[t].to # "running"
      BY <1>3, <3>1, OperatorCall
    <3> QED BY <1>1, <1>3, <3>2, LoopFrame
  <2> QED BY <2>1, <2>2 DEF Recording
<1> QED BY <1>2, <1>3

-------------------------------------------------------------------------------
(***************************************************************************)
(* A transition(), of whichever thread.                                    *)
(***************************************************************************)
\* What the three steps of a transition do to the thread that is in it.
LEMMA SharedCases ==
  ASSUME TypeOK, ChildShape, NEW t \in Thread, Shared(t)
  PROVE  /\ UNCHANGED <<phase, todo>> /\ Mine(t) /\ tx[t].who \in Session
         /\ \/ /\ pc[t] = "check" /\ st' = st /\ tx'[t] = tx[t]
               /\ \/ st[tx[t].who] # "cancelled" /\ pc'[t] = "write"
                  \/ st[tx[t].who] = "cancelled" /\ pc'[t] = OnSignal(t)
            \/ /\ pc[t] = "write" /\ tx'[t] = tx[t] /\ st' = [st EXCEPT ![tx[t].who] = tx[t].to]
               /\ pc'[t] = tx[t].then \/ (pc'[t] = "settle" /\ tx[t].to # "running")
            \/ /\ pc[t] = "settle" /\ st' = st
               /\ \/ /\ pc'[t] = "check" /\ tx'[t].wake /\ tx'[t].to = "queued"
                     /\ tx'[t].then = tx[t].then
                  \/ pc'[t] = tx[t].then /\ tx'[t] = tx[t]
<1>1. tx[t].who \in Session
  BY DEF ChildShape, InCall, Shared, TxCheck, TxWrite, Settle
<1>2. UNCHANGED <<phase, todo>>
  BY DEF Shared, TxCheck, TxWrite, Settle, boot
<1>3. CASE TxCheck(t)
  BY <1>1, <1>2, <1>3 DEF TxCheck, Goto, TypeOK, Mine, sessionRows
<1>4. CASE TxWrite(t)
  <2>1. Wakes(tx[t].who, tx[t].to, tx[t].det) => tx[t].to # "running"
    BY DEF Wakes
  <2> QED BY <1>1, <1>2, <1>4, <2>1 DEF TxWrite, Goto, TypeOK, Mine
<1>5. CASE Settle(t)
  <2> DEFINE c == [who |-> parent[tx[t].who], to |-> "queued", det |-> Plain("resumed"),
                   wake |-> TRUE, then |-> tx[t].then]
  <2>1. c.wake /\ c.to = "queued" /\ c.then = tx[t].then
    OBVIOUS
  <2>2. \/ tx' = [tx EXCEPT ![t] = c] /\ pc' = [pc EXCEPT ![t] = "check"]
        \/ tx' = tx /\ pc' = [pc EXCEPT ![t] = tx[t].then]
    BY <1>5 DEF Settle, Goto
  <2> HIDE DEF c
  <2> QED BY <1>1, <1>2, <1>5, <2>1, <2>2 DEF Settle, TypeOK, Mine, sessionRows
<1> QED BY <1>3, <1>4, <1>5 DEF Shared

LEMMA SharedBySession ==
  ASSUME TypeOK, ChildShape, LoopInv, NEW s \in Session, Shared(s)
  PROVE  LoopInv'
<1>1. s \in Thread /\ LoopAt(s) /\ st \in [Session -> State]
  BY DEF Thread, LoopInv, TypeOK
<1>2. phase = "up"
  BY DEF LoopInv, Shared, TxCheck, TxWrite, Settle, TypeOK
<1>3. CASE /\ pc[s] = "check" /\ st' = st /\ tx'[s] = tx[s]
           /\ \/ st[tx[s].who] # "cancelled" /\ pc'[s] = "write"
              \/ st[tx[s].who] = "cancelled" /\ pc'[s] = OnSignal(s)
  <2>1. LoopAt(s)'
    BY <1>1, <1>3 DEF LoopAt, Calls, Wakening, Own, Ends, OnSignal
  <2> QED BY <1>1, <1>2, <1>3, <2>1, SharedCases, ThreadsAssumption, LoopFrame
<1>4. CASE /\ pc[s] = "write" /\ tx'[s] = tx[s] /\ st' = [st EXCEPT ![tx[s].who] = tx[s].to]
           /\ pc'[s] = tx[s].then \/ (pc'[s] = "settle" /\ tx[s].to # "running")
  <2>1. tx[s].who \in Session /\ (Wakening(s) \/ Own(s))
    BY <1>1, <1>4, SharedCases DEF LoopAt, Calls
  <2>2. LoopAt(s)'
    BY <1>1, <1>4, <2>1 DEF LoopAt, Calls, Wakening, Own, Ends
  <2>3. \A r \in Session : r # s => st'[r] = st[r] \/ st'[r] # "running"
    BY <1>1, <1>4, <2>1 DEF Wakening, Own, Ends
  <2> QED BY <1>1, <1>2, <2>2, <2>3, SharedCases, ThreadsAssumption, LoopFrame
<1>5. CASE /\ pc[s] = "settle" /\ st' = st
           /\ \/ /\ pc'[s] = "check" /\ tx'[s].wake /\ tx'[s].to = "queued"
                 /\ tx'[s].then = tx[s].then
              \/ pc'[s] = tx[s].then /\ tx'[s] = tx[s]
  <2>1. LoopAt(s)'
    BY <1>1, <1>5 DEF LoopAt, Calls, Wakening, Own, Ends
  <2> QED BY <1>1, <1>2, <1>5, <2>1, SharedCases, ThreadsAssumption, LoopFrame
<1> QED BY <1>1, <1>3, <1>4, <1>5, SharedCases

LEMMA SharedByOperator ==
  ASSUME TypeOK, ChildShape, LoopInv, NEW o \in Operator, Shared(o)
  PROVE  LoopInv'
<1>1. o \in Thread /\ o \notin Session /\ tx[o] \in Call /\ st \in [Session -> State]
  BY ThreadsAssumption DEF Thread, TypeOK
<1>2. tx[o].then \notin {"check", "write"} /\ OnSignal(o) \notin {"check", "write"}
  BY <1>1 DEF Call, Returns, OnSignal
<1>3. Calls(o)' => tx'[o].to # "running"
  BY <1>1, <1>2, SharedCases DEF LoopInv, Calls
<1>4. RowsLeave
  BY <1>1, SharedCases DEF LoopInv, Calls, RowsLeave
<1> QED BY <1>1, <1>3, <1>4, SharedCases, LoopFrame DEF RowsLeave

\* The recovery pass: no loop runs beside it.
LEMMA SharedByBoot ==
  ASSUME TypeOK, ChildShape, LoopInv, Shared(Boot)
  PROVE  LoopInv'
<1>1. Boot \in Thread /\ Boot \notin Session \cup Operator /\ tx[Boot] \in Call
      /\ st \in [Session -> State]
  BY ThreadsAssumption DEF Thread, TypeOK
<1>2. /\ tx[Boot].then \notin {"check", "write", "settle"}
      /\ OnSignal(Boot) \notin {"check", "write", "settle"}
  BY <1>1 DEF Call, Returns, OnSignal
<1>3. /\ phase' = "recover" /\ \A s \in Session : pc[s] = "idle" /\ pc'[s] = "idle"
      /\ \A o \in Operator : pc'[o] = pc[o] /\ tx'[o] = tx[o]
  <2>1. pc[Boot] # "idle"
    BY DEF Shared, TxCheck, TxWrite, Settle
  <2> QED BY <1>1, <2>1, SharedCases DEF LoopInv, Mine, Thread
<1>4. Calls(Boot)' => tx'[Boot].to # "running"
  BY <1>1, <1>2, SharedCases DEF LoopInv, Calls
<1>5. RowsLeave
  BY <1>1, SharedCases DEF LoopInv, Calls, RowsLeave
<1>6. pc'[Boot] = "settle" => st'[tx'[Boot].who] # "running"
  BY <1>1, <1>2, SharedCases DEF LoopInv, Calls
<1>7. ASSUME NEW s \in Session, st'[s] = "running" PROVE Recovering(s)'
  <2>1. st[s] = "running" /\ s \in Session
    BY <1>5, <1>7 DEF RowsLeave
  <2>2. Recovering(s)
    BY <1>3, <2>1 DEF LoopInv, LoopAt
  <2>3. CASE s \in todo
    BY <1>1, <1>3, <2>3, SharedCases DEF Recovering
  <2>4. CASE tx[Boot].who = s
    <3>1. pc[Boot] = "check" /\ tx'[Boot] = tx[Boot] /\ pc'[Boot] = "write"
      BY <1>1, <1>7, <2>1, <2>4, SharedCases DEF LoopInv, Calls
    <3> QED BY <1>3, <2>4, <3>1 DEF Recovering
  <2> QED BY <2>2, <2>3, <2>4 DEF Recovering
<1>8. \A s \in Session : LoopAt(s)'
  BY <1>3, <1>7 DEF LoopAt, Calls
<1>9. \A t \in Operator \cup {Boot} : (Calls(t) => tx[t].to # "running")'
  BY <1>3, <1>4 DEF LoopInv, Calls
<1> QED BY <1>3, <1>6, <1>8, <1>9 DEF LoopInv

LEMMA RecoverLoops ==
  ASSUME TypeOK, ChildShape, LoopInv, Recover \/ Crash
  PROVE  LoopInv'
<1>1. CASE Crash \/ RecoverDies
  <2>1. Reboot
    BY <1>1 DEF Crash, RecoverDies
  <2>2. /\ \A t \in Thread : pc'[t] = "idle"
        /\ phase' = "recover" /\ todo' = Interrupted /\ st' = st
    BY <2>1 DEF Reboot, sessionRows
  <2>3. \A s \in Session : st'[s] = "running" => Recovering(s)'
    BY <2>2 DEF Recovering, Interrupted
  <2> QED BY <2>2, <2>3 DEF LoopInv, LoopAt, Calls, Thread
<1>2. CASE RecoverDone
  <2>1. pc' = pc /\ tx' = tx /\ st' = st /\ pc[Boot] = "idle" /\ todo = {} /\ phase' = "up"
    BY <1>2 DEF RecoverDone, sessionRows
  <2>2. \A s \in Session : pc[s] = "idle" /\ st[s] # "running"
    BY <1>2, <2>1 DEF RecoverDone, LoopInv, LoopAt, Recovering
  <2>3. \A s \in Session : LoopAt(s)'
    BY <2>1, <2>2 DEF LoopAt, Calls
  <2> QED BY <2>1, <2>3 DEF LoopInv, Calls
<1>3. ASSUME NEW s \in Session, RecoverSession(s)
      PROVE  LoopInv'
  <2> DEFINE c == [who |-> s, to |-> "queued", det |-> Plain("recovered"), wake |-> FALSE,
                   then |-> "idle"]
  <2>1. c.who = s /\ c.to = "queued"
    OBVIOUS
  <2>2. /\ phase = "recover" /\ phase' = "recover" /\ pc[Boot] = "idle" /\ todo' = todo \ {s}
        /\ pc' = [pc EXCEPT ![Boot] = "check"] /\ tx' = [tx EXCEPT ![Boot] = c] /\ st' = st
    BY <1>3 DEF RecoverSession, Transition, Goto, sessionRows
  <2> HIDE DEF c
  <2>3. /\ pc'[Boot] = "check" /\ tx'[Boot] = c
        /\ \A t \in Session \cup Operator : pc'[t] = pc[t] /\ tx'[t] = tx[t]
    BY <2>2, ThreadsAssumption DEF TypeOK, Thread
  <2>4. \A r \in Session : pc[r] = "idle" /\ (st[r] = "running" => r \in todo)
    BY <2>2 DEF LoopInv, LoopAt, Recovering
  <2>5. \A r \in Session : st'[r] = "running" => Recovering(r)'
    BY <2>1, <2>2, <2>3, <2>4 DEF Recovering
  <2>6. \A r \in Session : LoopAt(r)'
    BY <2>3, <2>4, <2>5 DEF LoopAt, Calls
  <2>7. \A t \in Operator \cup {Boot} : (Calls(t) => tx[t].to # "running")'
    BY <2>1, <2>3 DEF LoopInv, Calls
  <2> QED BY <2>2, <2>3, <2>4, <2>6, <2>7 DEF LoopInv
<1> QED BY <1>1, <1>2, <1>3 DEF Recover

LEMMA LoopStep == Typed /\ LoopInv /\ [Next]_vars => LoopInv'
<1> SUFFICES ASSUME TypeOK, ChildShape, LoopInv, [Next]_vars PROVE LoopInv'
  BY DEF Typed
<1>1. CASE UNCHANGED vars
  <2>1. UNCHANGED <<st, pc, tx, phase, todo>>
    BY <1>1 DEF vars, sessionRows, boot
  <2> QED BY <2>1 DEF LoopInv, LoopAt, Recovering, Calls, Wakening, Own, Ends
<1>2. CASE Next
  <2>1. ASSUME NEW t \in Thread, Shared(t) PROVE LoopInv'
    BY <2>1, SharedBySession, SharedByOperator, SharedByBoot DEF Thread
  <2> QED BY <1>2, <2>1, RunLoops, ServeLoops, RecordingLoops, RecoverLoops DEF Next
<1> QED BY <1>1, <1>2

\* A session whose row says running has a run loop at work, or the recovery pass
\* has it still to put back: no order of suspensions, wake-ups, cancellations,
\* retries and crashes leaves it in the one state that nobody looks at.
THEOREM NoneAbandoned == Spec => []RunningHasLoop
<1>1. LoopInv => RunningHasLoop
  BY DEF LoopInv, LoopAt, Recovering, RunningHasLoop
<1> QED BY TypedInit, TypedStep, LoopInit, LoopStep, <1>1, PTL DEF Spec

-------------------------------------------------------------------------------
(***************************************************************************)
(* What a step does outside a transition().  It moves one thread, and that *)
(* thread may start a transition(); only a loop that parks behind a child  *)
(* or stops at a gate starts one to a state that waits for somebody.       *)
(***************************************************************************)
Behind == {"child-gated", "child-error"}
Waits == Behind \cup {"gate"}
Alone(t) == Mine(t) /\ \A u \in Thread : u # t => loc'[u] = loc[u]
Away(t) == pc[t] \notin InCall \cup {"again"}
PlainCall(t) ==
  /\ pc[t] = "check" /\ tx[t].to # "none"
  /\ tx[t].det.why \notin Waits /\ tx[t].then # "again"
Plainly(t) == Alone(t) /\ Away(t) /\ (Away(t)' \/ PlainCall(t)')

\* Outside a transition() rows are only cancelled, or a child's made.
RowMoves(r) ==
  \/ st'[r] = st[r] /\ det'[r] = det[r]
  \/ st'[r] = "cancelled" /\ det'[r].why \notin Waits
  \/ st[r] = "none" /\ st'[r] = "queued" /\ det'[r] = det[r]
RowsMove == \A r \in Session : RowMoves(r)

LEMMA PlainMove ==
  ASSUME TypeOK, NEW t \in Thread, Away(t), NEW label, label \notin InCall \cup {"again"},
         pc' = [pc EXCEPT ![t] = label],
         \A u \in Thread : u # t => tx'[u] = tx[u] /\ loc'[u] = loc[u]
  PROVE  Plainly(t)
BY DEF TypeOK, Mine, Alone, Away, Plainly

LEMMA PlainTransition ==
  ASSUME TypeOK, NEW t \in Thread, Away(t), NEW s, NEW to, to # "none", NEW d, d.why \notin Waits,
         NEW then, then # "again", Transition(t, s, to, d, then),
         \A u \in Thread : u # t => loc'[u] = loc[u]
  PROVE  Plainly(t)
<1> DEFINE c == [who |-> s, to |-> to, det |-> d, wake |-> FALSE, then |-> then]
<1>1. /\ pc' = [pc EXCEPT ![t] = "check"] /\ tx' = [tx EXCEPT ![t] = c]
      /\ c.to = to /\ c.det = d /\ c.then = then
  BY DEF Transition, Goto
<1> HIDE DEF c
<1>2. pc'[t] = "check" /\ tx'[t] = c /\ Alone(t)
  BY <1>1 DEF TypeOK, Mine, Alone
<1> QED BY <1>1, <1>2 DEF Plainly, PlainCall

LEMMA PlainWhy == \A why, kid : Plain(why).why = why /\ [Plain(why) EXCEPT !.kid = kid].why = why
BY DEF Plain

LEMMA PlainSuspend ==
  ASSUME TypeOK, NEW s \in Session, Away(s), NEW why, why \notin Waits, NEW kid, Suspend(s, why, kid),
         \A u \in Thread : u # s => loc'[u] = loc[u]
  PROVE  Plainly(s)
<1>1. s \in Thread /\ [Plain(why) EXCEPT !.kid = kid].why = why
  BY PlainWhy DEF Thread
<1> QED BY <1>1, PlainTransition DEF Suspend

LEMMA PlainEnter ==
  ASSUME TypeOK, NEW s \in Session, Away(s), NEW x, NEW visit, NEW att, NEW V, NEW A, NEW kid,
         Enter(s, x, visit, att, V, A, kid)
  PROVE  Plainly(s)
<1>1. /\ pc' = [pc EXCEPT ![s] = "assert"] /\ tx' = tx
      /\ \A u \in Thread : u # s => loc'[u] = loc[u]
  BY DEF Enter, Goto, TypeOK
<1> QED BY <1>1, PlainMove DEF Thread, InCall

LEMMA PlainNewVisit ==
  ASSUME TypeOK, NEW s \in Session, Away(s), NEW x, NEW V, NEW A, NewVisit(s, x, V, A)
  PROVE  Plainly(s)
<1>1. "max-visits-exceeded" \notin Waits
  BY DEF Waits, Behind
<1> QED BY <1>1, PlainSuspend, PlainEnter DEF NewVisit

LEMMA PlainFollow ==
  ASSUME TypeOK, NEW s \in Session, Away(s), NEW x, NEW e, NEW V, NEW A, Follow(s, x, e, V, A)
  PROVE  Plainly(s)
<1>1. CASE Goto(s, "complete") /\ UNCHANGED <<ctx, loc, tx>>
  BY <1>1, PlainMove DEF Goto, Thread, InCall
<1> QED BY <1>1, PlainNewVisit DEF Follow

LEMMA PlainFailAttempt ==
  ASSUME TypeOK, NEW s \in Session, Away(s), NEW retry, NEW why, why \notin Waits, NEW kid,
         FailAttempt(s, retry, why, kid)
  PROVE  Plainly(s)
<1>1. CASE retry /\ loc[s].tries < MaxTries
  <2>1. /\ pc' = [pc EXCEPT ![s] = "assert"] /\ tx' = tx
        /\ \A u \in Thread : u # s => loc'[u] = loc[u]
    BY <1>1 DEF FailAttempt, Goto, TypeOK
  <2> QED BY <2>1, PlainMove DEF Thread, InCall
<1>2. CASE ~(retry /\ loc[s].tries < MaxTries)
  <2>1. (IF retry THEN "retries-exhausted" ELSE why) \notin Waits
    BY DEF Waits, Behind
  <2> QED BY <1>2, <2>1, PlainSuspend DEF FailAttempt
<1> QED BY <1>1, <1>2

\* Every step of a run loop but these three.
Delivers(s) == WaitPark(s) \/ GateOpen(s) \/ ParkedAgain(s)

LEMMA RunPlain ==
  ASSUME TypeOK, NEW s \in Session, Run(s) \/ Admit(s), ~Delivers(s)
  PROVE  Plainly(s)
<1>0. s \in Thread
  BY DEF Thread
<1>1. Away(s)
  BY DEF Away, InCall, Run, Admit, Position, Start, StopCancelled, OverBudget, WorkExit, WorkFail, Spawn,
     LinkRow, LinkLog, WaitExit, WaitCancelled, GateEmpty, Complete, End, Delivers
<1>2. /\ "config-error" \notin Waits /\ "budget-exceeded" \notin Waits /\ "none" \notin Waits
      /\ "child-cancelled" \notin Waits /\ "gate-no-artifacts" \notin Waits
      /\ "exit-unmapped" \notin Waits /\ "exit-output-invalid" \notin Waits
  BY DEF Waits, Behind
<1>3. CASE Admit(s)
  BY <1>0, <1>1, <1>2, <1>3, PlainWhy, PlainTransition DEF Admit
<1>4. CASE Position(s)
  BY <1>1, <1>2, <1>4, PlainSuspend, PlainNewVisit, PlainFollow, PlainEnter DEF Position
<1>5. CASE Start(s) \/ StopCancelled(s) \/ LinkRow(s) \/ LinkLog(s)
  BY <1>0, <1>1, <1>5, PlainMove DEF Start, StopCancelled, LinkRow, LinkLog, Goto, InCall
<1>6. CASE OverBudget(s)
  BY <1>1, <1>2, <1>6, PlainSuspend DEF OverBudget
<1>7. CASE WorkExit(s) \/ Spawn(s)
  <2>1. \A u \in Thread : u # s => loc'[u] = loc[u]
    BY <1>7 DEF WorkExit, Spawn, TypeOK
  <2> QED BY <1>0, <1>1, <1>7, <2>1, PlainMove DEF WorkExit, Spawn, Goto, InCall
<1>8. CASE WorkFail(s) \/ WaitCancelled(s) \/ GateEmpty(s)
  BY <1>1, <1>2, <1>8, PlainFailAttempt DEF WorkFail, WaitCancelled, GateEmpty
<1>9. CASE WaitExit(s)
  <2>1. CASE /\ \E e \in Exits[loc[s].step] : loc' = [loc EXCEPT ![s].exit = e]
             /\ Goto(s, "exit-log")
             /\ UNCHANGED <<log, rows, ctx, tx>>
    <3>1. \A u \in Thread : u # s => loc'[u] = loc[u]
      BY <2>1 DEF TypeOK
    <3> QED BY <1>0, <1>1, <2>1, <3>1, PlainMove DEF Goto, InCall
  <2> QED BY <1>1, <1>2, <1>9, <2>1, PlainFailAttempt DEF WaitExit
<1>10. CASE Complete(s)
  BY <1>0, <1>1, <1>2, <1>10, PlainWhy, PlainTransition, PlainSuspend DEF Complete
<1>11. CASE End(s)
  <2>1. \A u \in Thread : u # s => tx'[u] = tx[u] /\ loc'[u] = loc[u]
    BY <1>11 DEF End, TypeOK
  <2> QED BY <1>0, <1>1, <1>11, <2>1, PlainMove DEF End, Goto, InCall
<1> QED BY <1>3, <1>4, <1>5, <1>6, <1>7, <1>8, <1>9, <1>10, <1>11 DEF Run, Delivers

LEMMA ServePlain ==
  ASSUME TypeOK, NEW o \in Operator, Request(o) \/ Serve(o)
  PROVE  Plainly(o)
<1>0. o \in Thread /\ "resumed" \notin Waits
  BY DEF Thread, Waits, Behind
<1>1. Away(o)
  BY DEF Away, InCall, Request, Serve, Accept, Cancel, Retry, Resume, ManualRoute, Verdict, CancelWrite,
     CancelChildren, CancelNext, RetryRead, RetryChild, RetryQueue, VerdictClose, Return
<1>2. CASE \E s \in Session : Resume(o, s)
  BY <1>0, <1>1, <1>2, PlainWhy, PlainTransition DEF Resume
<1>3. CASE RetryQueue(o) /\ stack[o] # << >>
  BY <1>0, <1>1, <1>3, PlainWhy, PlainTransition DEF RetryQueue
<1>4. CASE \/ \E s \in Session : Cancel(o, s) \/ Retry(o, s) \/ ManualRoute(o, s) \/ Verdict(o, s)
           \/ CancelWrite(o) \/ CancelChildren(o) \/ RetryChild(o) \/ VerdictClose(o)
           \/ RetryRead(o) \/ (RetryQueue(o) /\ stack[o] = << >>) \/ Return(o)
  <2>1. \A u \in Thread : u # o => tx'[u] = tx[u] /\ loc'[u] = loc[u]
    BY <1>4 DEF Cancel, Retry, ManualRoute, Verdict, CancelWrite, CancelChildren,
       RetryChild, VerdictClose, RetryRead, RetryQueue, Return, TypeOK
  <2>2. PICK label : label \notin InCall \cup {"again"} /\ pc' = [pc EXCEPT ![o] = label]
    BY <1>4 DEF Cancel, Retry, ManualRoute, Verdict, CancelWrite, CancelChildren,
       RetryChild, VerdictClose, RetryRead, RetryQueue, Return, Goto, InCall
  <2> QED BY <1>0, <1>1, <2>1, <2>2, PlainMove
<1>5. CASE CancelNext(o)
  <2>1. UNCHANGED <<loc, tx>>
    BY <1>5 DEF CancelNext
  <2>2. PICK label : label \notin InCall \cup {"again"} /\ pc' = [pc EXCEPT ![o] = label]
    <3>1. pc' = [pc EXCEPT ![o] = pc[o]] \/ \E label \in {"done", "cancel-write"} : pc' = [pc EXCEPT ![o] = label]
      BY <1>0, <1>5 DEF CancelNext, Goto, TypeOK
    <3> QED BY <1>1, <3>1 DEF Away, InCall
  <2> QED BY <1>0, <1>1, <2>1, <2>2, PlainMove
<1> QED BY <1>2, <1>3, <1>4, <1>5 DEF Request, Serve

LEMMA RecordingPlain ==
  ASSUME TypeOK, NEW t \in Session \cup Operator, Recording(t)
  PROVE  Plainly(t)
<1>0. t \in Thread /\ "resumed" \notin Waits /\ Away(t)
  BY DEF Thread, Waits, Behind, Away, InCall, Recording, ExitLog, ExitRow
<1>1. CASE ExitLog(t)
  BY <1>0, <1>1, PlainMove DEF ExitLog, Goto, InCall
<1>2. CASE ExitRow(t) /\ t \in Session
  <2>1. Follow(t, loc[t].step, loc[t].exit, mVisits[t], mAttempts[t])
    BY <1>2 DEF ExitRow, About
  <2> QED BY <1>0, <1>2, <2>1, PlainFollow
<1>3. CASE ExitRow(t) /\ t \notin Session
  <2>1. Transition(t, About(t), "queued", Plain("resumed"), "done") /\ UNCHANGED loc
    BY <1>3 DEF ExitRow
  <2> QED BY <1>0, <2>1, PlainWhy, PlainTransition
<1> QED BY <1>1, <1>2, <1>3 DEF Recording

LEMMA RecoverSessionPlain ==
  ASSUME TypeOK, NEW s \in Session, RecoverSession(s)
  PROVE  Plainly(Boot)
<1>1. Boot \in Thread /\ "recovered" \notin Waits /\ Away(Boot)
  BY DEF Thread, Waits, Behind, Away, InCall, RecoverSession
<1> QED BY <1>1, PlainWhy, PlainTransition DEF RecoverSession

LEMMA RowsMoved ==
  ASSUME TypeOK, \/ \E s \in Session : Run(s) \/ Admit(s) \/ RecoverSession(s)
                 \/ \E o \in Operator : Request(o) \/ Serve(o)
                 \/ \E t \in Thread : Recording(t)
  PROVE  RowsMove
<1>1. ASSUME UNCHANGED sessionRows PROVE RowsMove
  BY <1>1 DEF RowsMove, RowMoves, sessionRows
<1>2. ASSUME NEW s \in Session, Spawn(s) PROVE RowsMove
  <2>1. PICK c \in Session : st[c] = "none" /\ st' = [st EXCEPT ![c] = "queued"] /\ det' = det
    BY <1>2 DEF Spawn
  <2> QED BY <2>1 DEF RowsMove, RowMoves, TypeOK
<1>3. ASSUME NEW o \in Operator, CancelWrite(o) PROVE RowsMove
  <2>1. Plain("cancelled").why \notin Waits
    BY PlainWhy DEF Waits, Behind
  <2> QED BY <1>3, <2>1 DEF CancelWrite, RowsMove, RowMoves, TypeOK
<1>4. ASSUME NEW s \in Session, Run(s) \/ Admit(s) \/ RecoverSession(s), ~Spawn(s)
      PROVE  UNCHANGED sessionRows
  BY <1>4 DEF Run, Admit, RecoverSession, Position, Start, StopCancelled, OverBudget, WorkExit, WorkFail,
     LinkRow, LinkLog, WaitExit, WaitCancelled, WaitPark, ParkedAgain, GateOpen, GateEmpty, Complete, End
<1>5. ASSUME NEW o \in Operator, Request(o) \/ Serve(o), ~CancelWrite(o)
      PROVE  UNCHANGED sessionRows
  BY <1>5 DEF Request, Serve, Cancel, Retry, Resume, ManualRoute, Verdict,
     CancelChildren, CancelNext, RetryRead, RetryChild, RetryQueue, VerdictClose, Return
<1>6. ASSUME NEW t \in Thread, Recording(t) PROVE UNCHANGED sessionRows
  BY <1>6 DEF Recording, ExitLog, ExitRow
<1> QED BY <1>1, <1>2, <1>3, <1>4, <1>5, <1>6
-------------------------------------------------------------------------------
(***************************************************************************)
(* NoLostWakeup.  Who parks behind a child is the child's parent, and says *)
(* so of the child it is about to look at again; the child's own wake-up   *)
(* is under way from the write that completes it, so either finds the      *)
(* other.                                                                  *)
(***************************************************************************)
AdoptedIn(P, s, k) == k \in Session /\ P[k] = s
Adopted(s, k) == AdoptedIn(parent, s, k)

\* A session without a row has no parent; a session once a child stays one.
Unborn == \A c \in Session : st[c] = "none" => parent[c] = None
Bears == \A c \in Session : parent'[c] = parent[c] \/ (st[c] = "none" /\ st'[c] # "none")

\* The children a session goes by are its own.
OwnKids ==
  /\ \A s \in Session : cur[s].kid # None => Adopted(s, cur[s].kid)
  /\ \A s \in Session : NeedsKid(s) => Adopted(s, loc[s].kid)

\* A thread that parks a session behind a child is that session's loop, and
\* will look at that child, which it saw suspended, again.
ToLookAgain(s) == pc[s] = "again" \/ (pc[s] \in InCall /\ tx[s].then = "again")
ParkFits(t) ==
  /\ Calls(t) => tx[t].to # "none"
  /\ Calls(t) /\ tx[t].det.why \in Behind =>
       t \in Session /\ tx[t].who = t /\ tx[t].then = "again" /\ tx[t].det.kid = loc[t].kid
  /\ t \in Session /\ ToLookAgain(t) => loc[t].seen \in Suspended
ParkedOwn == \A p \in Session : det[p].why \in Behind => Adopted(p, det[p].kid)

NeverDown == crashes = 0 => phase = "up"

Parks == Unborn /\ (\A t \in Thread : ParkFits(t)) /\ ParkedOwn
WaitInv == Parks /\ OwnKids /\ NeverDown /\ NoLostWakeup

LEMMA WaitInit == Init => WaitInv
<1> SUFFICES ASSUME Init PROVE WaitInv
  OBVIOUS
<1>1. \A t \in Thread : pc[t] = "idle"
  BY DEF Init
<1>2. \A s \in Session : /\ st[s] \in {"queued", "none"} /\ det[s].why = "none"
                         /\ parent[s] = None /\ cur[s].kid = None
  BY DEF Init, Plain, NoCursor
<1>3. crashes = 0 /\ phase = "up"
  BY DEF Init
<1>4. Parks
  BY <1>1, <1>2 DEF Parks, Unborn, ParkFits, ParkedOwn, Calls, ToLookAgain, InCall, Behind, Thread
<1>5. OwnKids
  BY <1>1, <1>2 DEF OwnKids, NeedsKid, InCall, Thread
<1>6. NoLostWakeup
  BY <1>2 DEF NoLostWakeup, Parked, Suspended
<1> QED BY <1>3, <1>4, <1>5, <1>6 DEF WaitInv, NeverDown

LEMMA AdoptedStays ==
  ASSUME TypeOK, Unborn, Bears, NEW s \in Session, NEW k, Adopted(s, k)
  PROVE  AdoptedIn(parent', s, k)
BY ThreadsAssumption DEF Unborn, Bears, Adopted, AdoptedIn

\* A step outside a transition(), by a thread that then fits, loses no wake-up.
LEMMA AwayWaits ==
  ASSUME TypeOK, Parks, NoLostWakeup, NEW t \in Thread, Alone(t), Away(t), ParkFits(t)',
         RowsMove, Bears, crashes' = crashes
  PROVE  Parks' /\ NoLostWakeup'
<1>1. Unborn'
  BY DEF Parks, Unborn, RowsMove, RowMoves, Bears
<1>2. ASSUME NEW u \in Thread, u # t PROVE ParkFits(u)'
  <2>1. pc'[u] = pc[u] /\ tx'[u] = tx[u] /\ loc'[u] = loc[u] /\ ParkFits(u)
    BY <1>2 DEF Parks, Alone, Mine
  <2> QED BY <2>1 DEF ParkFits, Calls, ToLookAgain
<1>3. ASSUME NEW p \in Session, det'[p].why \in Behind
      PROVE  /\ det'[p] = det[p] /\ AdoptedIn(parent', p, det[p].kid)
             /\ st'[p] \in Suspended => st[p] = st'[p]
  <2>1. RowMoves(p) /\ det'[p].why \in Waits
    BY <1>3 DEF RowsMove, Waits
  <2>2. det'[p] = det[p] /\ (st'[p] \in Suspended => st'[p] = st[p])
    BY <2>1 DEF RowMoves, Suspended
  <2>3. Adopted(p, det[p].kid)
    BY <1>3, <2>2 DEF Parks, ParkedOwn
  <2> QED BY <2>2, <2>3, AdoptedStays DEF Parks
<1>4. ParkedOwn'
  BY <1>3 DEF ParkedOwn, Adopted
<1>5. ASSUME crashes' = 0, NEW p \in Session, Parked(p)', st'[det'[p].kid] = "completed"
      PROVE  WakePending(p, det[p].kid)'
  <2>1. /\ det'[p] = det[p] /\ st'[p] = st[p] /\ AdoptedIn(parent', p, det[p].kid)
        /\ st[p] \in Suspended /\ det[p].why \in Behind
    BY <1>3, <1>5 DEF Parked, Behind
  <2>2. PICK k \in Session : k = det[p].kid /\ k = det'[p].kid /\ st'[k] = "completed"
    BY <1>5, <2>1 DEF AdoptedIn
  <2>3. st[k] = "completed"
    BY <2>2 DEF RowsMove, RowMoves
  <2>4. WakePending(p, k)
    BY <1>5, <2>1, <2>2, <2>3 DEF Parked, NoLostWakeup, Behind
  <2>5. CASE ToLookAgain(p) /\ loc[p].kid = k /\ loc[p].seen # st[k]
    <3>1. p # t /\ p \in Thread
      BY <2>5 DEF ToLookAgain, Away, InCall, Thread
    <3>2. pc'[p] = pc[p] /\ tx'[p] = tx[p] /\ loc'[p] = loc[p]
      BY <3>1 DEF Alone, Mine
    <3> QED BY <2>2, <2>3, <2>5, <3>2 DEF WakePending, ToLookAgain, InCall
  <2>6. CASE \E u \in Thread : \/ pc[u] = "settle" /\ tx[u].who = k
                               \/ pc[u] \in {"check", "write"} /\ tx[u].who = p /\ tx[u].to = "queued"
    <3>1. PICK u \in Thread : \/ pc[u] = "settle" /\ tx[u].who = k
                              \/ pc[u] \in {"check", "write"} /\ tx[u].who = p /\ tx[u].to = "queued"
      BY <2>6
    <3>2. pc'[u] = pc[u] /\ tx'[u] = tx[u]
      BY <3>1 DEF Away, InCall, Alone, Mine
    <3> QED BY <2>2, <3>1, <3>2 DEF WakePending
  <2> QED BY <2>4, <2>5, <2>6 DEF WakePending, ToLookAgain, InCall
<1> QED BY <1>1, <1>2, <1>4, <1>5 DEF Parks, NoLostWakeup
\* The three steps of a loop that start or answer a wait for somebody.
LEMMA DeliverWaits ==
  ASSUME TypeOK, Parks, NoLostWakeup, NEW s \in Session, WaitPark(s) \/ GateOpen(s)
  PROVE  Parks' /\ NoLostWakeup'
<1>1. s \in Thread /\ Away(s)
  BY DEF Thread, Away, InCall, WaitPark, GateOpen
<1>2. UNCHANGED sessionRows /\ crashes' = crashes
  BY DEF WaitPark, GateOpen, boot
<1>3. RowsMove /\ Bears
  BY <1>2 DEF sessionRows, RowsMove, RowMoves, Bears
<1>4. Alone(s) /\ ParkFits(s)'
  <2>1. CASE WaitPark(s)
    <3> DEFINE d(why) == [why |-> why, kid |-> loc[s].kid, step |-> loc[s].step,
                          att |-> loc[s].att, visit |-> loc[s].visit]
    <3>1. PICK to \in Suspended, why \in Behind :
            /\ st[loc[s].kid] = to
            /\ tx' = [tx EXCEPT ![s] = [who |-> s, to |-> to, det |-> d(why), wake |-> FALSE,
                                        then |-> "again"]]
      BY <2>1 DEF WaitPark, Transition, Suspended, Behind
    <3> DEFINE c == [who |-> s, to |-> to, det |-> d(why), wake |-> FALSE, then |-> "again"]
    <3>2. c.who = s /\ c.to = to /\ c.det.kid = loc[s].kid /\ c.then = "again"
      OBVIOUS
    <3>3. pc' = [pc EXCEPT ![s] = "check"] /\ loc' = [loc EXCEPT ![s].seen = to] /\ tx' = [tx EXCEPT ![s] = c]
      BY <2>1, <3>1 DEF WaitPark, Transition, Goto
    <3> HIDE DEF c, d
    <3>4. /\ pc'[s] = "check" /\ tx'[s] = c /\ loc'[s].seen = to /\ loc'[s].kid = loc[s].kid
          /\ \A u \in Thread : u # s => pc'[u] = pc[u] /\ tx'[u] = tx[u] /\ loc'[u] = loc[u]
      BY <1>1, <3>3 DEF TypeOK, Locals
    <3>5. to # "none"
      BY <3>1 DEF Suspended
    <3> QED BY <3>1, <3>2, <3>4, <3>5 DEF Alone, Mine, ParkFits, Calls, ToLookAgain
  <2>2. CASE GateOpen(s)
    <3> DEFINE d == [why |-> "gate", kid |-> None, step |-> loc[s].step,
                     att |-> loc[s].att, visit |-> loc[s].visit]
               c == [who |-> s, to |-> "suspended-gate", det |-> d, wake |-> FALSE, then |-> "end"]
    <3>1. c.to = "suspended-gate" /\ c.det.why = "gate" /\ c.then = "end"
      OBVIOUS
    <3>2. pc' = [pc EXCEPT ![s] = "check"] /\ loc' = loc /\ tx' = [tx EXCEPT ![s] = c]
      BY <2>2 DEF GateOpen, Transition, Goto
    <3> HIDE DEF c, d
    <3>3. /\ pc'[s] = "check" /\ tx'[s] = c
          /\ \A u \in Thread : u # s => pc'[u] = pc[u] /\ tx'[u] = tx[u] /\ loc'[u] = loc[u]
      BY <1>1, <3>2 DEF TypeOK
    <3> QED BY <3>1, <3>3 DEF Alone, Mine, ParkFits, Calls, ToLookAgain, Behind
  <2> QED BY <2>1, <2>2
<1> QED BY <1>1, <1>2, <1>3, <1>4, AwayWaits

\* A step that leaves the rows alone, of a thread in a transition() or past one, and
\* that hands the wake-ups it stands for on.
LEMMA HandOver ==
  ASSUME TypeOK, Parks, NoLostWakeup, NEW t \in Thread, Mine(t), loc' = loc, ParkFits(t)',
         UNCHANGED <<sessionRows, crashes>>,
         \A p \in Session, k \in Session :
           /\ Parked(p) /\ k = det[p].kid /\ parent[k] = p /\ st[k] = "completed"
           /\ WakePending(p, k)
           /\ \/ p = t /\ ToLookAgain(p) /\ loc[p].kid = k /\ loc[p].seen # st[k]
              \/ pc[t] = "settle" /\ tx[t].who = k
              \/ Calls(t) /\ tx[t].who = p /\ tx[t].to = "queued"
           => WakePending(p, k)'
  PROVE  Parks' /\ NoLostWakeup'
<1>1. st' = st /\ det' = det /\ parent' = parent
  BY DEF sessionRows
<1>2. Parks'
  <2>1. ASSUME NEW u \in Thread, u # t PROVE ParkFits(u)'
    <3>1. pc'[u] = pc[u] /\ tx'[u] = tx[u] /\ loc'[u] = loc[u] /\ ParkFits(u)
      BY <2>1 DEF Parks, Mine
    <3> QED BY <3>1 DEF ParkFits, Calls, ToLookAgain
  <2> QED BY <1>1, <2>1 DEF Parks, Unborn, ParkedOwn, Adopted, AdoptedIn
<1>3. ASSUME crashes = 0, NEW p \in Session, Parked(p), st[det[p].kid] = "completed"
      PROVE  WakePending(p, det[p].kid)'
  <2>1. PICK k \in Session : k = det[p].kid /\ parent[k] = p /\ st[k] = "completed"
    BY <1>3 DEF Parked, Parks, ParkedOwn, Adopted, AdoptedIn, Behind
  <2>2. WakePending(p, k)
    BY <1>3, <2>1 DEF NoLostWakeup
  <2>3. CASE p # t /\ ToLookAgain(p) /\ loc[p].kid = k /\ loc[p].seen # st[k]
    <3>1. pc'[p] = pc[p] /\ tx'[p] = tx[p] /\ loc'[p] = loc[p]
      BY <2>3 DEF Mine, Thread
    <3> QED BY <1>1, <2>1, <2>3, <3>1 DEF WakePending, ToLookAgain, InCall
  <2>4. CASE \E u \in Thread : /\ u # t
                               /\ \/ pc[u] = "settle" /\ tx[u].who = k
                                  \/ Calls(u) /\ tx[u].who = p /\ tx[u].to = "queued"
    <3>1. PICK u \in Thread : /\ u # t
                              /\ \/ pc[u] = "settle" /\ tx[u].who = k
                                 \/ Calls(u) /\ tx[u].who = p /\ tx[u].to = "queued"
      BY <2>4
    <3>2. pc'[u] = pc[u] /\ tx'[u] = tx[u]
      BY <3>1 DEF Mine
    <3> QED BY <1>1, <2>1, <3>1, <3>2 DEF WakePending, Calls
  <2>5. CASE \/ p = t /\ ToLookAgain(p) /\ loc[p].kid = k /\ loc[p].seen # st[k]
             \/ pc[t] = "settle" /\ tx[t].who = k
             \/ Calls(t) /\ tx[t].who = p /\ tx[t].to = "queued"
    <3>1. WakePending(p, k)'
      BY <1>3, <2>1, <2>2, <2>5
    <3> QED BY <1>1, <2>1, <3>1 DEF WakePending
  <2> QED BY <2>2, <2>3, <2>4, <2>5 DEF WakePending, ToLookAgain, InCall, Calls
<1>4. NoLostWakeup'
  BY <1>1, <1>3 DEF NoLostWakeup, Parked, WakePending
<1> QED BY <1>2, <1>4
LEMMA ParkedAgainWaits ==
  ASSUME TypeOK, Parks, NoLostWakeup, NEW s \in Session, ParkedAgain(s)
  PROVE  Parks' /\ NoLostWakeup'
<1> DEFINE c == [NoCall EXCEPT !.who = loc[s].kid, !.then = "end"]
<1>1. c.who = loc[s].kid /\ c.then = "end"
  BY DEF NoCall
<1>2. /\ pc[s] = "again" /\ loc' = loc /\ UNCHANGED <<sessionRows, crashes>> /\ s \in Thread
      /\ \/ SettledMeanwhile(s) /\ tx' = [tx EXCEPT ![s] = c] /\ pc' = [pc EXCEPT ![s] = "settle"]
         \/ ~SettledMeanwhile(s) /\ tx' = tx /\ pc' = [pc EXCEPT ![s] = "end"]
  BY DEF ParkedAgain, Goto, boot, Thread
<1> HIDE DEF c
<1>3. /\ \/ SettledMeanwhile(s) /\ tx'[s] = c /\ pc'[s] = "settle"
         \/ ~SettledMeanwhile(s) /\ pc'[s] = "end"
      /\ Mine(s)
  BY <1>2 DEF TypeOK, Mine
<1>4. ParkFits(s)'
  BY <1>1, <1>3 DEF ParkFits, Calls, ToLookAgain, InCall
<1>5. ASSUME NEW p \in Session, NEW k \in Session, st[k] = "completed",
             p = s, loc[p].kid = k, loc[p].seen # st[k]
      PROVE  WakePending(p, k)'
  <2>1. SettledMeanwhile(s)
    BY <1>5 DEF SettledMeanwhile
  <2> QED BY <1>1, <1>2, <1>3, <1>5, <2>1 DEF WakePending
<1> QED BY <1>2, <1>3, <1>4, <1>5, HandOver DEF Calls

LEMMA TxCheckWaits ==
  ASSUME TypeOK, LoopInv, Parks, NoLostWakeup, NEW t \in Thread, TxCheck(t)
  PROVE  Parks' /\ NoLostWakeup'
<1>1. /\ pc[t] = "check" /\ UNCHANGED <<sessionRows, crashes, loc, tx>> /\ tx[t].then \in Returns
      /\ pc' = [pc EXCEPT ![t] = IF st[tx[t].who] = "cancelled" THEN OnSignal(t) ELSE "write"]
  BY DEF TxCheck, Goto, boot, TypeOK, Call
<1>2. /\ pc'[t] = IF st[tx[t].who] = "cancelled" THEN OnSignal(t) ELSE "write"
      /\ Mine(t)
  BY <1>1 DEF TypeOK, Mine
<1>3. OnSignal(t) \notin InCall /\ (OnSignal(t) = "again" => tx[t].then = "again")
  BY <1>1 DEF OnSignal, InCall, Returns
<1>4. ParkFits(t)'
  <2>1. ParkFits(t)
    BY DEF Parks
  <2>2. Calls(t)' => Calls(t)
    BY <1>1 DEF Calls
  <2>3. t \in Session /\ ToLookAgain(t)' => ToLookAgain(t)
    BY <1>1, <1>2, <1>3 DEF ToLookAgain, InCall
  <2> QED BY <1>1, <2>1, <2>2, <2>3 DEF ParkFits
<1>5. ASSUME NEW p \in Session, NEW k \in Session, Parked(p), st[k] = "completed",
             \/ p = t /\ ToLookAgain(p) /\ loc[p].kid = k /\ loc[p].seen # st[k]
             \/ Calls(t) /\ tx[t].who = p /\ tx[t].to = "queued"
      PROVE  WakePending(p, k)'
  <2>1. st[p] # "cancelled" /\ st' = st
    BY <1>1, <1>5 DEF Parked, Suspended, sessionRows
  <2>2. CASE p = t /\ ToLookAgain(p) /\ loc[p].kid = k /\ loc[p].seen # st[k]
    <3>1. tx[p].then = "again" /\ LoopAt(p)
      BY <1>1, <2>2 DEF ToLookAgain, LoopInv
    <3>2. tx[p].wake \/ tx[p].who = p
      BY <1>1, <2>2, <3>1 DEF LoopAt, Calls, Wakening, Own
    <3>3. pc'[p] \in {"again", "write"}
      BY <1>2, <2>1, <2>2, <3>1, <3>2 DEF OnSignal
    <3> QED BY <1>1, <2>1, <2>2, <3>1, <3>3 DEF WakePending
  <2>3. CASE Calls(t) /\ tx[t].who = p /\ tx[t].to = "queued"
    BY <1>1, <1>2, <2>1, <2>3 DEF WakePending
  <2> QED BY <1>5, <2>2, <2>3
<1> QED BY <1>1, <1>2, <1>4, <1>5, HandOver

LEMMA SettleWaits ==
  ASSUME TypeOK, ChildShape, Parks, NoLostWakeup, NEW t \in Thread, Settle(t)
  PROVE  Parks' /\ NoLostWakeup'
<1> DEFINE q == parent[tx[t].who]
           c == [who |-> q, to |-> "queued", det |-> Plain("resumed"), wake |-> TRUE,
                 then |-> tx[t].then]
           on == st[q] \in Suspended /\ det[q].kid = tx[t].who
<1>1. /\ c.who = q /\ c.to = "queued" /\ c.det.why = "resumed" /\ c.then = tx[t].then
      /\ tx[t].then \in Returns
  BY PlainWhy DEF TypeOK, Call
<1>2. /\ pc[t] = "settle" /\ UNCHANGED <<sessionRows, crashes, loc>>
      /\ \/ on /\ tx' = [tx EXCEPT ![t] = c] /\ pc' = [pc EXCEPT ![t] = "check"]
         \/ ~on /\ tx' = tx /\ pc' = [pc EXCEPT ![t] = tx[t].then]
  BY DEF Settle, Goto, boot
<1> HIDE DEF c
<1>3. /\ \/ on /\ tx'[t] = c /\ pc'[t] = "check"
         \/ ~on /\ tx'[t] = tx[t] /\ pc'[t] = tx[t].then
      /\ Mine(t)
  BY <1>2 DEF TypeOK, Mine
<1>4. ParkFits(t)'
  <2>1. ParkFits(t)
    BY DEF Parks
  <2>2. t \in Session /\ ToLookAgain(t)' => ToLookAgain(t)
    BY <1>1, <1>2, <1>3 DEF ToLookAgain, InCall
  <2>3. Calls(t)' => tx'[t].to = "queued" /\ tx'[t].det.why = "resumed"
    BY <1>1, <1>3 DEF Calls, Returns
  <2> QED BY <1>2, <2>1, <2>2, <2>3 DEF ParkFits, Behind
<1>5. ASSUME NEW p \in Session, NEW k \in Session, Parked(p), k = det[p].kid, parent[k] = p,
             st[k] = "completed",
             \/ p = t /\ ToLookAgain(p) /\ loc[p].kid = k /\ loc[p].seen # st[k]
             \/ pc[t] = "settle" /\ tx[t].who = k
      PROVE  WakePending(p, k)'
  <2>1. CASE p = t /\ ToLookAgain(p) /\ loc[p].kid = k /\ loc[p].seen # st[k]
    <3>1. tx[p].then = "again" /\ st' = st
      BY <1>2, <2>1 DEF ToLookAgain, sessionRows
    <3> QED BY <1>1, <1>2, <1>3, <2>1, <3>1 DEF WakePending
  <2>2. CASE tx[t].who = k
    <3>1. on /\ q = p
      BY <1>5, <2>2 DEF Parked
    <3> QED BY <1>1, <1>3, <3>1 DEF WakePending
  <2> QED BY <1>5, <2>1, <2>2
<1> QED BY <1>2, <1>3, <1>4, <1>5, HandOver DEF Calls

LEMMA TxWriteWaits ==
  ASSUME TypeOK, ChildShape, Parks, OwnKids, NoLostWakeup, NEW t \in Thread, TxWrite(t)
  PROVE  Parks' /\ NoLostWakeup'
<1> DEFINE c == tx[t]
<1>1. /\ pc[t] = "write" /\ UNCHANGED <<parent, crashes, loc, tx>> /\ c.then \in Returns
      /\ c.who \in Session /\ c.to # "none"
      /\ st' = [st EXCEPT ![c.who] = c.to] /\ det' = [det EXCEPT ![c.who] = c.det]
      /\ pc' = [pc EXCEPT ![t] = IF Wakes(c.who, c.to, c.det) THEN "settle" ELSE c.then]
  BY DEF TxWrite, Goto, boot, TypeOK, Call, ChildShape, InCall, Parks, ParkFits, Calls
<1>2. /\ pc'[t] = IF Wakes(c.who, c.to, c.det) THEN "settle" ELSE c.then
      /\ Mine(t) /\ ParkFits(t)
      /\ st'[c.who] = c.to /\ det'[c.who] = c.det
      /\ \A r \in Session : r # c.who => st'[r] = st[r] /\ det'[r] = det[r]
  BY <1>1 DEF TypeOK, Mine, Parks
<1> HIDE DEF c
<1>3. Unborn'
  BY <1>1, <1>2 DEF Parks, Unborn
<1>4. ASSUME NEW u \in Thread PROVE ParkFits(u)'
  <2>1. CASE u # t
    <3>1. pc'[u] = pc[u] /\ tx'[u] = tx[u] /\ loc'[u] = loc[u] /\ ParkFits(u)
      BY <1>1, <1>2, <2>1 DEF Parks, Mine
    <3> QED BY <3>1 DEF ParkFits, Calls, ToLookAgain
  <2>2. CASE u = t
    <3>1. ~Calls(t)' /\ (t \in Session /\ ToLookAgain(t)' => ToLookAgain(t))
      BY <1>1, <1>2 DEF Calls, ToLookAgain, InCall, Returns, c
    <3> QED BY <1>1, <1>2, <2>2, <3>1 DEF ParkFits
  <2> QED BY <2>1, <2>2
\* Its own loop has parked p.
<1>5. ASSUME c.det.why \in Behind
      PROVE  /\ t \in Session /\ c.who = t /\ c.then = "again" /\ c.det.kid = loc[t].kid
             /\ Adopted(t, c.det.kid) /\ loc[t].seen \in Suspended
  <2>1. t \in Session /\ c.who = t /\ c.then = "again" /\ c.det.kid = loc[t].kid
    BY <1>1, <1>2, <1>5 DEF ParkFits, Calls, c
  <2>2. NeedsKid(t) /\ ToLookAgain(t)
    BY <1>1, <2>1 DEF NeedsKid, ToLookAgain, InCall, c
  <2> QED BY <1>2, <2>1, <2>2 DEF ParkFits, OwnKids
<1>6. ASSUME NEW p \in Session, det'[p].why \in Behind PROVE Adopted(p, det'[p].kid)
  BY <1>2, <1>5, <1>6 DEF Parks, ParkedOwn
<1>7. ASSUME crashes = 0, NEW p \in Session, Parked(p)', st'[det'[p].kid] = "completed"
      PROVE  WakePending(p, det[p].kid)'
  <2>1. det'[p].why \in Behind /\ st'[p] \in Suspended
    BY <1>7 DEF Parked, Behind
  <2>2. PICK k \in Session : k = det'[p].kid /\ parent[k] = p /\ st'[k] = "completed"
    BY <1>6, <1>7, <2>1 DEF Adopted, AdoptedIn
  <2>3. CASE c.who = p
    <3>1. p = t /\ c.then = "again" /\ k = loc[p].kid /\ loc[p].seen \in Suspended
      BY <1>2, <1>5, <2>1, <2>2, <2>3
    <3>2. loc[p].seen # "completed"
      BY <3>1 DEF Suspended
    <3> QED BY <1>1, <1>2, <2>2, <3>1, <3>2 DEF WakePending, c
  <2>4. CASE c.who = k /\ c.who # p
    <3>1. parent[k] # None /\ c.to = "completed"
      BY <1>2, <2>2, <2>4, ThreadsAssumption
    <3>2. Wakes(c.who, c.to, c.det)
      BY <2>4, <3>1 DEF Wakes
    <3> QED BY <1>1, <1>2, <2>2, <2>4, <3>2 DEF WakePending, c
  <2>5. CASE c.who # k /\ c.who # p
    <3>1. st'[k] = st[k] /\ st'[p] = st[p] /\ det'[p] = det[p]
      BY <1>2, <2>2, <2>5
    <3>2. WakePending(p, k)
      BY <1>7, <2>1, <2>2, <3>1 DEF NoLostWakeup, Parked, Behind
    <3>3. CASE ToLookAgain(p) /\ loc[p].kid = k /\ loc[p].seen # st[k]
      <4>1. ToLookAgain(p)'
        <5>1. CASE p = t
          BY <1>1, <1>2, <3>3, <5>1 DEF ToLookAgain, InCall, c
        <5>2. CASE p # t
          <6>1. pc'[p] = pc[p] /\ tx'[p] = tx[p]
            BY <1>2, <5>2 DEF Mine, Thread
          <6> QED BY <3>3, <6>1 DEF ToLookAgain
        <5> QED BY <5>1, <5>2
      <4> QED BY <1>1, <2>2, <3>1, <3>3, <4>1 DEF WakePending, ToLookAgain, InCall
    <3>4. CASE \E u \in Thread : \/ pc[u] = "settle" /\ tx[u].who = k
                                 \/ Calls(u) /\ tx[u].who = p /\ tx[u].to = "queued"
      <4>1. PICK u \in Thread : \/ pc[u] = "settle" /\ tx[u].who = k
                                \/ Calls(u) /\ tx[u].who = p /\ tx[u].to = "queued"
        BY <3>4
      <4>2. u # t
        BY <1>1, <2>5, <4>1 DEF c
      <4>3. pc'[u] = pc[u] /\ tx'[u] = tx[u]
        BY <1>2, <4>2 DEF Mine
      <4> QED BY <2>2, <3>1, <4>1, <4>3 DEF WakePending, Calls
    <3> QED BY <3>2, <3>3, <3>4 DEF WakePending, ToLookAgain, InCall, Calls
  <2> QED BY <2>3, <2>4, <2>5
<1>8. ParkedOwn'
  BY <1>1, <1>6 DEF ParkedOwn, Adopted, AdoptedIn
<1> QED BY <1>1, <1>3, <1>4, <1>7, <1>8 DEF Parks, NoLostWakeup
-------------------------------------------------------------------------------
\* Where a loop's child comes from: it had it, its cursor names it, or it starts it.
LEMMA NoKidAt ==
  ASSUME TypeOK, NEW s \in Session, NEW label,
         label \notin InCall \cup {"link-row", "link-log", "wait", "again"},
         label = "assert" => ~loc'[s].reattach, pc' = [pc EXCEPT ![s] = label]
  PROVE  ~NeedsKid(s)'
<1>1. pc'[s] = label
  BY DEF TypeOK, Thread
<1> QED BY <1>1 DEF NeedsKid

LEMMA NoKidCall ==
  ASSUME TypeOK, NEW s \in Session, NEW to, NEW d, NEW then, then # "again",
         Transition(s, s, to, d, then)
  PROVE  ~NeedsKid(s)'
<1> DEFINE c == [who |-> s, to |-> to, det |-> d, wake |-> FALSE, then |-> then]
<1>1. pc' = [pc EXCEPT ![s] = "check"] /\ tx' = [tx EXCEPT ![s] = c] /\ c.then = then
  BY DEF Transition, Goto
<1> HIDE DEF c
<1>2. pc'[s] = "check" /\ tx'[s].then = then
  BY <1>1 DEF TypeOK, Thread
<1> QED BY <1>2 DEF NeedsKid

LEMMA EnterKid ==
  ASSUME TypeOK, NEW s \in Session, NEW x, NEW visit, NEW att, NEW V, NEW A, NEW kid,
         Enter(s, x, visit, att, V, A, kid)
  PROVE  NeedsKid(s)' => kid # None /\ loc'[s].kid = kid
<1> DEFINE l == [NoLocals EXCEPT !.step = x, !.visit = visit, !.att = att, !.tries = 1,
                                 !.kid = kid, !.reattach = (kid # None)]
<1>1. l.kid = kid /\ l.reattach = (kid # None)
  BY DEF NoLocals
<1>2. loc' = [loc EXCEPT ![s] = l] /\ pc' = [pc EXCEPT ![s] = "assert"]
  BY DEF Enter, Goto
<1> HIDE DEF l
<1>3. loc'[s] = l /\ pc'[s] = "assert"
  BY <1>2 DEF TypeOK, Thread
<1> QED BY <1>1, <1>3 DEF NeedsKid, InCall

LEMMA NewVisitKid ==
  ASSUME TypeOK, NEW s \in Session, NEW x, NEW V, NEW A, NewVisit(s, x, V, A)
  PROVE  ~NeedsKid(s)'
BY NoKidCall, EnterKid DEF NewVisit, Suspend

LEMMA FollowKid ==
  ASSUME TypeOK, NEW s \in Session, NEW x, NEW e, NEW V, NEW A, Follow(s, x, e, V, A)
  PROVE  ~NeedsKid(s)'
BY NoKidAt, NewVisitKid DEF Follow, Goto, InCall

LEMMA FailAttemptKid ==
  ASSUME TypeOK, NEW s \in Session, NEW retry, NEW why, NEW kid, FailAttempt(s, retry, why, kid)
  PROVE  ~NeedsKid(s)'
<1>1. CASE retry /\ loc[s].tries < MaxTries
  <2>1. PICK a : loc' = [loc EXCEPT ![s].att = a, ![s].tries = @ + 1, ![s].reattach = FALSE, ![s].kid = None]
    BY <1>1 DEF FailAttempt
  <2>2. loc'[s].reattach = FALSE
    BY <2>1 DEF TypeOK, Thread, Locals
  <2> QED BY <1>1, <2>2, NoKidAt DEF FailAttempt, Goto, InCall
<1>2. CASE ~(retry /\ loc[s].tries < MaxTries)
  BY <1>2, NoKidCall DEF FailAttempt, Suspend
<1> QED BY <1>1, <1>2

LEMMA KidFrom ==
  ASSUME TypeOK, NEW s \in Session, Run(s) \/ Admit(s), ~Spawn(s), NeedsKid(s)'
  PROVE  \/ NeedsKid(s) /\ loc'[s].kid = loc[s].kid
         \/ cur[s].kid # None /\ loc'[s].kid = cur[s].kid
<1>0. s \in Thread
  BY DEF Thread
<1>1. CASE Admit(s) \/ OverBudget(s) \/ GateOpen(s) \/ Complete(s)
  BY <1>1, NoKidCall DEF Admit, OverBudget, GateOpen, Complete, Suspend
<1>2. CASE Position(s)
  BY <1>2, NoKidCall, NewVisitKid, FollowKid, EnterKid DEF Position, Suspend, Reattaches
<1>3. CASE Start(s)
  <2>1. loc' = loc
    BY <1>3 DEF Start
  <2>2. CASE loc[s].reattach
    BY <1>3, <2>1, <2>2 DEF Start, NeedsKid
  <2>3. CASE ~loc[s].reattach
    BY <1>3, <2>3, NoKidAt DEF Start, Goto, InCall
  <2> QED BY <2>2, <2>3
<1>4. CASE StopCancelled(s) \/ WorkExit(s) \/ End(s)
  BY <1>4, NoKidAt DEF StopCancelled, WorkExit, End, Goto, InCall
<1>5. CASE WorkFail(s) \/ WaitCancelled(s) \/ GateEmpty(s)
  BY <1>5, FailAttemptKid DEF WorkFail, WaitCancelled, GateEmpty
<1>6. CASE LinkRow(s) \/ LinkLog(s)
  BY <1>6 DEF LinkRow, LinkLog, NeedsKid
<1>7. CASE WaitExit(s)
  BY <1>7, NoKidAt, FailAttemptKid DEF WaitExit, Goto, InCall
<1>8. CASE WaitPark(s)
  <2>1. PICK v : loc' = [loc EXCEPT ![s].seen = v]
    BY <1>8 DEF WaitPark
  <2>2. loc'[s].kid = loc[s].kid
    BY <1>0, <2>1 DEF TypeOK, Locals
  <2> QED BY <1>8, <2>2 DEF WaitPark, NeedsKid
<1>9. CASE ParkedAgain(s)
  BY <1>9 DEF ParkedAgain, NeedsKid
<1> QED BY <1>1, <1>2, <1>3, <1>4, <1>5, <1>6, <1>7, <1>8, <1>9 DEF Run

\* The loop of s runs on: the other loops have the children they had.
LEMMA OwnFrame ==
  ASSUME TypeOK, Unborn, Bears, OwnKids, NEW t \in Thread, Mine(t),
         \A u \in Thread : u # t => loc'[u] = loc[u],
         \A r \in Session : \/ cur'[r].kid \in {None, cur[r].kid}
                            \/ AdoptedIn(parent', r, cur'[r].kid),
         t \in Session => (NeedsKid(t)' => AdoptedIn(parent', t, loc'[t].kid))
  PROVE  OwnKids'
<1>1. ASSUME NEW r \in Session, cur'[r].kid # None PROVE AdoptedIn(parent', r, cur'[r].kid)
  <2>1. CASE cur'[r].kid = cur[r].kid
    <3>1. Adopted(r, cur[r].kid)
      BY <1>1, <2>1 DEF OwnKids
    <3> QED BY <2>1, <3>1, AdoptedStays
  <2> QED BY <1>1, <2>1
<1>2. ASSUME NEW r \in Session, r # t, NeedsKid(r)' PROVE AdoptedIn(parent', r, loc'[r].kid)
  <2>1. pc'[r] = pc[r] /\ tx'[r] = tx[r] /\ loc'[r] = loc[r]
    BY <1>2 DEF Mine, Thread
  <2>2. NeedsKid(r)
    BY <1>2, <2>1 DEF NeedsKid
  <2>3. Adopted(r, loc[r].kid)
    BY <2>2 DEF OwnKids
  <2> QED BY <2>1, <2>3, AdoptedStays
<1> QED BY <1>1, <1>2 DEF OwnKids, Adopted

LEMMA RunOwn ==
  ASSUME TypeOK, Unborn, OwnKids, NEW s \in Session, Run(s) \/ Admit(s), Alone(s)
  PROVE  OwnKids' /\ Bears
<1>0. s \in Thread /\ Mine(s) /\ \A u \in Thread : u # s => loc'[u] = loc[u]
  BY DEF Thread, Alone
<1>1. CASE Spawn(s)
  <2>1. PICK c \in Session : /\ st[c] = "none" /\ st' = [st EXCEPT ![c] = "queued"]
                             /\ parent' = [parent EXCEPT ![c] = s] /\ loc' = [loc EXCEPT ![s].kid = c]
    BY <1>1 DEF Spawn
  <2>2. Bears /\ cur' = cur /\ parent'[c] = s /\ loc'[s].kid = c
    BY <1>0, <1>1, <2>1 DEF Bears, TypeOK, Spawn, log, Locals
  <2> QED BY <1>0, <2>2, OwnFrame DEF AdoptedIn
<1>2. CASE ~Spawn(s)
  <2>1. parent' = parent /\ Bears
    BY <1>2 DEF Bears, sessionRows, Run, Admit, Position, Start, StopCancelled, OverBudget, WorkExit, WorkFail,
       LinkRow, LinkLog, WaitExit, WaitCancelled, WaitPark, ParkedAgain, GateOpen, GateEmpty, Complete, End
  <2>2. NeedsKid(s)' => AdoptedIn(parent', s, loc'[s].kid)
    BY <1>2, <2>1, KidFrom DEF OwnKids, Adopted
  <2>3. CASE LinkLog(s)
    <3>1. Adopted(s, loc[s].kid)
      BY <2>3 DEF LinkLog, OwnKids, NeedsKid
    <3>2. \A r \in Session : cur'[r].kid \in {None, cur[r].kid} \/ AdoptedIn(parent', r, cur'[r].kid)
      <4>1. CASE cur' = cur
        BY <4>1
      <4>2. CASE cur' = [cur EXCEPT ![s].kid = loc[s].kid]
        <5>1. cur[s] \in Cursor
          BY DEF TypeOK
        <5>2. cur'[s].kid = loc[s].kid /\ \A r \in Session : r # s => cur'[r] = cur[r]
          BY <4>2, <5>1 DEF TypeOK, Cursor
        <5> QED BY <2>1, <3>1, <5>2 DEF Adopted
      <4> QED BY <2>3, <4>1, <4>2 DEF LinkLog
    <3> QED BY <1>0, <2>1, <2>2, <3>2, OwnFrame
  <2>4. CASE ~LinkLog(s)
    <3>1. \/ UNCHANGED log
          \/ \E x, a, v : LogStarted(s, x, a, v)
          \/ \E x, a : LogFailed(s, x, a)
      BY <1>2, <2>4 DEF Run, Admit, Position, Start, StopCancelled, OverBudget, WorkExit, WorkFail,
         LinkRow, WaitExit, WaitCancelled, WaitPark, ParkedAgain, GateOpen, GateEmpty, Complete, End,
         FailAttempt, log
    <3>2. Kept
      BY <2>1, <3>1, LogKept, LogStartedKept, LogFailedKept
    <3> QED BY <1>0, <2>1, <2>2, <3>2, OwnFrame DEF Kept
  <2> QED BY <2>3, <2>4
<1> QED BY <1>1, <1>2
LEMMA ServeOwn ==
  ASSUME TypeOK, Unborn, OwnKids, NEW o \in Operator, Request(o) \/ Serve(o), Alone(o)
  PROVE  OwnKids' /\ Bears
<1>1. cur' = cur /\ parent' = parent
  BY DEF Request, Serve, Cancel, Retry, Resume, ManualRoute, Verdict, CancelWrite, CancelChildren,
         CancelNext, RetryRead, RetryChild, RetryQueue, VerdictClose, Return, sessionRows, log
<1>2. Bears /\ o \in Thread /\ o \notin Session
  BY <1>1, ThreadsAssumption DEF Bears, Thread
<1> QED BY <1>1, <1>2, OwnFrame DEF Alone

LEMMA RecordingOwn ==
  ASSUME TypeOK, Shape, Unborn, OwnKids, NEW t \in Session \cup Operator, Recording(t), Alone(t)
  PROVE  OwnKids' /\ Bears
<1>1. t \in Thread /\ parent' = parent /\ pc[t] \in AtExit
  BY DEF Thread, Recording, ExitLog, ExitRow, sessionRows, AtExit
<1>2. About(t) \in Session /\ Bears
  BY <1>1, AboutType DEF Bears
<1>3. Kept
  BY <1>1, <1>2, LogExitedKept, LogKept DEF Recording, ExitLog, ExitRow
<1>4. t \in Session => ~NeedsKid(t)'
  BY NoKidAt, FollowKid DEF Recording, ExitLog, ExitRow, About, Goto, InCall
<1> QED BY <1>1, <1>2, <1>3, <1>4, OwnFrame DEF Alone, Kept

LEMMA SharedOwn ==
  ASSUME TypeOK, ChildShape, Unborn, OwnKids, NEW t \in Thread, Shared(t)
  PROVE  OwnKids'
<1>1. cur' = cur /\ parent' = parent /\ loc' = loc /\ Bears
  BY DEF Shared, TxCheck, TxWrite, Settle, sessionRows, log, Bears
<1>2. /\ tx[t].then \in Returns /\ OnSignal(t) \in Returns \cup {"dead"}
      /\ OnSignal(t) = "again" => tx[t].then = "again"
  BY DEF TypeOK, Call, OnSignal, Returns
<1>3. /\ pc[t] \in InCall /\ tx'[t].then = tx[t].then
      /\ pc'[t] \in InCall \cup {tx[t].then, OnSignal(t)}
  BY SharedCases DEF InCall
<1>4. t \in Session => (NeedsKid(t)' => NeedsKid(t))
  BY <1>2, <1>3 DEF NeedsKid, InCall, Returns
<1>5. t \in Session => (NeedsKid(t)' => AdoptedIn(parent', t, loc'[t].kid))
  BY <1>1, <1>4 DEF OwnKids, Adopted
<1> QED BY <1>1, <1>5, SharedCases, OwnFrame

\* The recovery pass; the process only ever goes down in a crash.
LEMMA RecoverWaits ==
  ASSUME TypeOK, ChildShape, LoopInv, WaitInv, Recover \/ Crash
  PROVE  WaitInv'
<1>1. CASE Crash \/ RecoverDies
  <2>1. /\ UNCHANGED <<st, det, parent, cur>> /\ pc' = [t \in Thread |-> "idle"]
        /\ crashes' # 0
    <3>1. UNCHANGED <<st, det, parent, cur>> /\ pc' = [t \in Thread |-> "idle"]
      BY <1>1 DEF Crash, RecoverDies, Reboot, log, sessionRows
    <3>2. Crash => crashes' # 0
      BY DEF Crash, TypeOK
    <3>3. RecoverDies => phase = "recover" /\ crashes' = crashes
      BY DEF RecoverDies, LoopInv
    <3> QED BY <1>1, <3>1, <3>2, <3>3 DEF WaitInv, NeverDown
  <2>2. Parks'
    BY <2>1 DEF WaitInv, Parks, Unborn, ParkFits, ParkedOwn, Calls, ToLookAgain, InCall, Adopted, AdoptedIn
  <2>3. OwnKids'
    BY <2>1 DEF WaitInv, OwnKids, NeedsKid, InCall, Adopted, AdoptedIn, Thread
  <2> QED BY <2>1, <2>2, <2>3 DEF WaitInv, NeverDown, NoLostWakeup
<1>2. CASE RecoverDone
  <2>1. UNCHANGED <<st, det, parent, cur, pc, tx, loc, crashes>> /\ phase' = "up"
    BY <1>2 DEF RecoverDone, log, sessionRows
  <2> QED BY <2>1 DEF WaitInv, Parks, Unborn, ParkFits, ParkedOwn, Calls, ToLookAgain, Adopted, AdoptedIn,
                      OwnKids, NeedsKid, NeverDown, NoLostWakeup, Parked, WakePending
<1>3. ASSUME NEW s \in Session, RecoverSession(s) PROVE WaitInv'
  <2>1. Plainly(Boot) /\ RowsMove /\ Boot \in Thread /\ Boot \notin Session
    BY <1>3, RecoverSessionPlain, RowsMoved, ThreadsAssumption DEF Thread
  <2>2. parent' = parent /\ crashes' = crashes /\ phase' = phase /\ Bears
    BY <1>3 DEF RecoverSession, sessionRows, boot, Bears
  <2>3. Kept
    <3>1. CASE cur' = [cur EXCEPT ![s].status = "failed"]
      <4>1. cur[s] \in Cursor
        BY DEF TypeOK
      <4>2. cur'[s].kid = cur[s].kid /\ \A r \in Session : r # s => cur'[r] = cur[r]
        BY <3>1, <4>1 DEF TypeOK, Cursor
      <4> QED BY <2>2, <4>2 DEF Kept
    <3> QED BY <1>3, <2>2, <3>1 DEF RecoverSession, Kept
  <2>4. ParkFits(Boot)'
    BY <2>1 DEF Plainly, PlainCall, ParkFits, Calls, ToLookAgain, InCall, Away, Waits
  <2>5. Parks' /\ NoLostWakeup'
    BY <2>1, <2>2, <2>4, AwayWaits DEF Plainly, WaitInv
  <2>6. OwnKids'
    BY <2>1, <2>2, <2>3, OwnFrame DEF Plainly, Alone, Kept, WaitInv, Parks
  <2> QED BY <2>2, <2>5, <2>6 DEF WaitInv, NeverDown
<1> QED BY <1>1, <1>2, <1>3 DEF Recover

\* A plain step of a loop, an operator call or of either's recording.
LEMMA PlainWaits ==
  ASSUME TypeOK, WaitInv, NEW t \in Thread, Plainly(t), RowsMove, Bears, OwnKids',
         UNCHANGED <<phase, crashes>>
  PROVE  WaitInv'
<1>1. ParkFits(t)'
  BY DEF Plainly, PlainCall, ParkFits, Calls, ToLookAgain, InCall, Away, Waits
<1>2. Parks' /\ NoLostWakeup'
  BY <1>1, AwayWaits DEF Plainly, WaitInv
<1> QED BY <1>2 DEF WaitInv, NeverDown

LEMMA WaitStep == Typed /\ LoopInv /\ WaitInv /\ [Next]_vars => WaitInv'
<1> SUFFICES ASSUME TypeOK, Shape, ChildShape, LoopInv, WaitInv, [Next]_vars PROVE WaitInv'
  BY DEF Typed
<1>0. Parks /\ Unborn /\ OwnKids /\ NoLostWakeup /\ NeverDown
  BY DEF WaitInv, Parks
<1>1. ASSUME NEW s \in Session, Run(s) \/ Admit(s) PROVE WaitInv'
  <2>1. UNCHANGED <<phase, crashes>> /\ RowsMove /\ s \in Thread
    BY <1>1, RowsMoved DEF Run, Admit, Position, Start, StopCancelled, OverBudget, WorkExit, WorkFail, Spawn,
       LinkRow, LinkLog, WaitExit, WaitCancelled, WaitPark, ParkedAgain, GateOpen, GateEmpty, Complete, End,
       boot, Thread
  <2>2. CASE ~Delivers(s)
    <3>1. Plainly(s)
      BY <1>1, <2>2, RunPlain
    <3>2. OwnKids' /\ Bears
      BY <1>0, <1>1, <3>1, RunOwn DEF Plainly
    <3> QED BY <2>1, <3>1, <3>2, PlainWaits
  <2>3. CASE Delivers(s)
    <3>1. Parks' /\ NoLostWakeup'
      BY <1>0, <2>3, DeliverWaits, ParkedAgainWaits DEF Delivers
    <3>2. Alone(s)
      <4>1. CASE WaitPark(s) \/ GateOpen(s)
        BY <2>1, <4>1 DEF WaitPark, GateOpen, Transition, Goto, TypeOK, Alone, Mine
      <4>2. CASE ParkedAgain(s)
        BY <2>1, <4>2 DEF ParkedAgain, Goto, TypeOK, Alone, Mine
      <4> QED BY <2>3, <4>1, <4>2 DEF Delivers
    <3>3. OwnKids'
      BY <1>0, <1>1, <3>2, RunOwn
    <3> QED BY <1>0, <2>1, <3>1, <3>3 DEF WaitInv, NeverDown
  <2> QED BY <2>2, <2>3
<1>2. ASSUME NEW o \in Operator, Request(o) \/ Serve(o) PROVE WaitInv'
  <2>1. UNCHANGED <<phase, crashes>> /\ RowsMove /\ o \in Thread
    BY <1>2, RowsMoved DEF Request, Serve, Cancel, Retry, Resume, ManualRoute, Verdict, CancelWrite,
       CancelChildren, CancelNext, RetryRead, RetryChild, RetryQueue, VerdictClose, Return, boot, Thread
  <2>2. Plainly(o)
    BY <1>2, ServePlain
  <2>3. OwnKids' /\ Bears
    BY <1>0, <1>2, <2>2, ServeOwn DEF Plainly
  <2> QED BY <2>1, <2>2, <2>3, PlainWaits
<1>3. ASSUME NEW t \in Session \cup Operator, Recording(t) PROVE WaitInv'
  <2>1. UNCHANGED <<phase, crashes>> /\ RowsMove /\ t \in Thread
    BY <1>3, RowsMoved DEF Recording, ExitLog, ExitRow, boot, Thread
  <2>2. Plainly(t)
    BY <1>3, RecordingPlain
  <2>3. OwnKids' /\ Bears
    BY <1>0, <1>3, <2>2, RecordingOwn DEF Plainly
  <2> QED BY <2>1, <2>2, <2>3, PlainWaits
<1>4. ASSUME NEW t \in Thread, Shared(t) PROVE WaitInv'
  <2>1. Parks' /\ NoLostWakeup'
    BY <1>0, <1>4, TxCheckWaits, TxWriteWaits, SettleWaits DEF Shared
  <2>2. OwnKids' /\ UNCHANGED <<phase, crashes>>
    BY <1>0, <1>4, SharedOwn DEF Shared, TxCheck, TxWrite, Settle, boot
  <2> QED BY <1>0, <2>1, <2>2 DEF WaitInv, NeverDown
<1>5. CASE UNCHANGED vars
  <2>1. UNCHANGED <<st, det, parent, cur, pc, tx, loc, phase, crashes>>
    BY <1>5 DEF vars, sessionRows, log, boot
  <2> QED BY <2>1 DEF WaitInv, Parks, Unborn, ParkFits, ParkedOwn, Calls, ToLookAgain, Adopted, AdoptedIn,
                      OwnKids, NeedsKid, NeverDown, NoLostWakeup, Parked, WakePending
<1> QED BY <1>1, <1>2, <1>3, <1>4, <1>5, RecoverWaits DEF Next

\* While the process keeps running, a parent parked behind a child that has completed
\* is about to be woken: whichever of the two writes its row first, and however many
\* sessions deep the wake-up has to be handed on, somebody still has it in hand.
THEOREM WakeupsArrive == Spec => []NoLostWakeup
<1>1. WaitInv => NoLostWakeup
  BY DEF WaitInv
<1> QED BY TypedInit, TypedStep, LoopInit, LoopStep, WaitInit, WaitStep, <1>1, PTL DEF Spec

-------------------------------------------------------------------------------
(***************************************************************************)
(* GateAnswerable.  A gate's request is closed by the call that holds the  *)
(* gate's lock, and that call does not let go before the session's row has *)
(* left the gate.  A gate that is entered meanwhile asks in an attempt of  *)
(* its own, so the call closes no request but the one it was given.        *)
(***************************************************************************)
GateCall(t) == Calls(t) /\ tx[t].det.why = "gate"
Asked(s) == st[s] = "suspended-gate" /\ det[s].why = "gate"
Started(s, d) == d.step \in Step /\ d.att <= attempts[s][d.step]

\* A lock is held by a call that is about the session, from its verdict on.
Holding == {"verdict", "exit-log", "exit-row", "check", "write", "settle", "done"}
Holds(o, s) ==
  /\ pc[o] \in Holding /\ stack[o] # << >> /\ Head(stack[o]) = s
  /\ pc[o] \in InCall => tx[o].then = "done"
LockFits(s) == lock[s] # None => Holds(lock[s], s)

\* A loop asks in an attempt it has started, and ends once it has asked.
GateFits(s) ==
  /\ pc[s] = "gate" => loc[s].att <= attempts[s][loc[s].step]
  /\ GateCall(s) =>
       /\ tx[s].who = s /\ tx[s].to = "suspended-gate" /\ tx[s].then = "end"
       /\ <<s, tx[s].det.step, tx[s].det.att>> \in open /\ Started(s, tx[s].det)
  /\ det[s].why = "gate" => Started(s, det[s])
  /\ Asked(s) => pc[s] \in {"idle", "end"}

\* The gates the session reaches while a verdict is at work are later attempts, up to
\* the verdict's checkpoint event.
Later(s, x, a) ==
  /\ pc[s] = "gate" /\ loc[s].step = x => loc[s].att > a
  /\ GateCall(s) /\ tx[s].det.step = x => tx[s].det.att > a
VerdictAt(o, s) == loc[o].att <= attempts[s][loc[o].step] /\ Later(s, loc[o].step, loc[o].att)
VerdictFits(o) ==
  /\ pc[o] = "verdict" => lock[Head(stack[o])] = o
  /\ pc[o] \in {"verdict", "exit-log"} => \A s \in Session : lock[s] = o => VerdictAt(o, s)

\* The call that has closed the request of s is on its way to queue it.
Answering(o, s) ==
  /\ lock[s] = o
  /\ pc[o] \in {"exit-log", "exit-row"} \/ (Calls(o) /\ tx[o].who = s /\ tx[o].to = "queued")
RequestOf(s) == <<s, det[s].step, det[s].att>>
Answered ==
  crashes = 0 => \A s \in Session :
    Asked(s) /\ RequestOf(s) \notin open => \E o \in Operator : Answering(o, s)

OnlyLoopsAsk == \A t \in Operator \cup {Boot} : ~GateCall(t)
Gates == \A s \in Session : LockFits(s) /\ GateFits(s)
Verdicts == \A o \in Operator : VerdictFits(o)
GateInv == Gates /\ Verdicts /\ OnlyLoopsAsk /\ Answered

LEMMA GateInit == Init => GateInv
<1> SUFFICES ASSUME Init PROVE GateInv
  OBVIOUS
<1>1. \A t \in Thread : pc[t] = "idle"
  BY DEF Init
<1>2. \A s \in Session : st[s] \in {"queued", "none"} /\ det[s].why = "none" /\ lock[s] = None
  BY DEF Init, Plain
<1>3. \A s \in Session : ~Asked(s) /\ LockFits(s) /\ GateFits(s)
  BY <1>1, <1>2 DEF Asked, LockFits, GateFits, GateCall, Calls, Thread
<1> QED BY <1>1, <1>3 DEF GateInv, Gates, Verdicts, VerdictFits, OnlyLoopsAsk, GateCall, Calls, Answered, Thread

\* The log's attempts only grow.
Grows == \A s \in Session : \A x \in Step : attempts[s][x] <= attempts'[s][x]

LEMMA SameGrows == TypeOK /\ attempts' = attempts => Grows
BY DEF TypeOK, Counts, Grows

LEMMA StartedGrows ==
  ASSUME TypeOK, TypeOK', Grows, NEW s \in Session, NEW x \in Step, NEW a \in Nat, a <= attempts[s][x]
  PROVE  a <= attempts'[s][x]
<1>1. attempts[s][x] \in Nat /\ attempts'[s][x] \in Nat /\ attempts[s][x] <= attempts'[s][x]
  BY DEF TypeOK, Counts, Grows
<1> QED BY <1>1

\* A loop that stays where it is.
LEMMA GateStays ==
  ASSUME TypeOK, TypeOK', Shape, Grows, NEW r \in Session, GateFits(r), RowMoves(r),
         pc'[r] = pc[r], loc'[r] = loc[r], tx'[r] = tx[r],
         GateCall(r) => <<r, tx[r].det.step, tx[r].det.att>> \in open'
  PROVE  GateFits(r)' /\ (Asked(r)' => Asked(r) /\ det'[r] = det[r])
<1>0. r \in Thread /\ tx[r].det \in Detail /\ det[r] \in Detail /\ loc[r] \in Locals
  BY DEF Thread, TypeOK, Call
<1>1. pc[r] = "gate" => loc[r].att <= attempts'[r][loc[r].step]
  <2>1. pc[r] = "gate" => loc[r].step \in Step /\ loc[r].att \in Nat
    BY <1>0 DEF Shape, StepShape, AtStep, Locals
  <2> QED BY <2>1, StartedGrows DEF GateFits
<1>2. GateCall(r) => tx[r].det.step \in Step /\ tx[r].det.att <= attempts'[r][tx[r].det.step]
  BY <1>0, StartedGrows DEF GateFits, Started, Detail
<1>3. det'[r].why = "gate" => det'[r].step \in Step /\ det'[r].att <= attempts'[r][det'[r].step]
  <2>1. det'[r].why = "gate" => det'[r] = det[r]
    BY DEF RowMoves, Waits
  <2> QED BY <1>0, <2>1, StartedGrows DEF GateFits, Started, Detail
<1>4. Asked(r)' => Asked(r) /\ det'[r] = det[r]
  BY DEF Asked, RowMoves, Waits
<1> QED BY <1>1, <1>2, <1>3, <1>4 DEF GateFits, GateCall, Calls, Started

\* A verdict at work, and a step of somebody else.
LEMMA VerdictStays ==
  ASSUME TypeOK, TypeOK', Shape, Grows, NEW o \in Operator, VerdictFits(o), pc'[o] = pc[o],
         loc'[o] = loc[o], stack'[o] = stack[o],
         \A s \in Session : lock[s] = o <=> lock'[s] = o,
         \A s \in Session, x \in Step, a \in Nat :
            a <= attempts[s][x] /\ Later(s, x, a) => Later(s, x, a)'
  PROVE  VerdictFits(o)'
<1>1. ASSUME pc[o] = "verdict" PROVE lock'[Head(stack'[o])] = o
  <2>1. PICK s \in Session : s = Head(stack[o])
    BY <1>1, StackTypes DEF TypeOK, Shape, StackShape, AtSession, AtExit
  <2> QED BY <1>1, <2>1 DEF VerdictFits
<1>2. ASSUME pc[o] \in {"verdict", "exit-log"}, NEW s \in Session, lock'[s] = o PROVE VerdictAt(o, s)'
  <2>1. loc[o].step \in Step /\ loc[o].att \in Nat
    BY <1>2 DEF Shape, StepShape, AtStep, AtExit, Thread, TypeOK, Locals
  <2>2. VerdictAt(o, s)
    BY <1>2 DEF VerdictFits
  <2>3. loc[o].att <= attempts'[s][loc[o].step]
    BY <2>1, <2>2, StartedGrows DEF VerdictAt
  <2>4. Later(s, loc[o].step, loc[o].att)'
    BY <2>1, <2>2 DEF VerdictAt
  <2> QED BY <2>3, <2>4 DEF VerdictAt
<1> QED BY <1>1, <1>2 DEF VerdictFits

-------------------------------------------------------------------------------
\* A step of one run loop.
LEMMA LoopGates ==
  ASSUME TypeOK, TypeOK', Shape, GateInv, NEW s \in Session, Alone(s), UNCHANGED <<stack, lock, crashes>>,
         open \subseteq open', Grows, RowsMove, GateFits(s)',
         Asked(s)' => Asked(s) /\ det'[s] = det[s],
         \A x \in Step, a \in Nat : a <= attempts[s][x] /\ Later(s, x, a) => Later(s, x, a)'
  PROVE  GateInv'
<1>0. s \in Thread /\ s \notin Operator \cup {Boot}
  BY ThreadsAssumption DEF Thread
<1>1. \A u \in Thread : u # s => pc'[u] = pc[u] /\ tx'[u] = tx[u] /\ loc'[u] = loc[u]
  BY DEF Alone, Mine
<1>2. \A u \in Operator \cup {Boot} : u \in Thread /\ u # s
  BY <1>0 DEF Thread
<1>3. ASSUME NEW r \in Session PROVE GateFits(r)' /\ (Asked(r)' => Asked(r) /\ det'[r] = det[r])
  <2>1. CASE r = s
    BY <2>1
  <2>2. CASE r # s
    <3>1. r \in Thread /\ GateFits(r) /\ RowMoves(r)
      BY DEF Thread, GateInv, Gates, RowsMove
    <3>2. GateCall(r) => <<r, tx[r].det.step, tx[r].det.att>> \in open'
      BY <3>1 DEF GateFits
    <3> QED BY <1>1, <2>2, <3>1, <3>2, GateStays
  <2> QED BY <2>1, <2>2
<1>4. ASSUME NEW r \in Session PROVE LockFits(r)'
  <2>1. LockFits(r) /\ lock[r] \in Operator \cup {None}
    BY DEF GateInv, Gates, TypeOK
  <2>2. CASE lock[r] # None
    <3>1. lock[r] \in Operator /\ Holds(lock[r], r)
      BY <2>1, <2>2 DEF LockFits
    <3>2. Holds(lock[r], r)'
      BY <1>1, <1>2, <3>1 DEF Holds
    <3> QED BY <3>2 DEF LockFits
  <2> QED BY <2>2 DEF LockFits
<1>5. ASSUME NEW o \in Operator PROVE VerdictFits(o)'
  <2>1. \A r \in Session, x \in Step, a \in Nat :
           a <= attempts[r][x] /\ Later(r, x, a) => Later(r, x, a)'
    <3> SUFFICES ASSUME NEW r \in Session, r # s, NEW x, NEW a, Later(r, x, a) PROVE Later(r, x, a)'
      OBVIOUS
    <3>1. pc'[r] = pc[r] /\ tx'[r] = tx[r] /\ loc'[r] = loc[r]
      BY <1>1 DEF Thread
    <3> QED BY <3>1 DEF Later, GateCall, Calls
  <2>2. VerdictFits(o) /\ pc'[o] = pc[o] /\ loc'[o] = loc[o]
    BY <1>1, <1>2 DEF GateInv, Verdicts
  <2> QED BY <2>1, <2>2, VerdictStays
<1>6. OnlyLoopsAsk'
  BY <1>1, <1>2 DEF GateInv, OnlyLoopsAsk, GateCall, Calls
<1>7. Answered'
  <2> SUFFICES ASSUME crashes = 0, NEW r \in Session, Asked(r)', RequestOf(r)' \notin open'
               PROVE  \E o \in Operator : Answering(o, r)'
    BY DEF Answered
  <2>1. Asked(r) /\ RequestOf(r) \notin open
    BY <1>3 DEF RequestOf
  <2>2. PICK o \in Operator : Answering(o, r)
    BY <2>1 DEF GateInv, Answered
  <2>3. Answering(o, r)'
    BY <1>1, <1>2, <2>2 DEF Answering, Calls
  <2> QED BY <2>3
<1> QED BY <1>3, <1>4, <1>5, <1>6, <1>7 DEF GateInv, Gates, Verdicts

\* Where a loop goes, but for an attempt it starts.
LEMMA NotToGate ==
  ASSUME TypeOK, NEW s \in Session, Run(s) \/ Admit(s), ~Start(s)
  PROVE  pc'[s] # "gate" /\ (pc[s] = "end" => pc'[s] = "idle")
<1>0. s \in Thread /\ pc \in [Thread -> Label]
  BY DEF Thread, TypeOK
<1>1. \A label : Goto(s, label) => pc'[s] = label
  BY <1>0 DEF Goto
<1>2. \A to, d, then : Transition(s, s, to, d, then) => pc'[s] = "check"
  BY <1>1 DEF Transition
<1>3. \A why, kid : Suspend(s, why, kid) => pc'[s] = "check"
  BY <1>2 DEF Suspend
<1>4. \A x, visit, att, V, A, kid : Enter(s, x, visit, att, V, A, kid) => pc'[s] = "assert"
  BY <1>1 DEF Enter
<1>5. \A x, V, A : NewVisit(s, x, V, A) => pc'[s] \in {"check", "assert"}
  BY <1>3, <1>4 DEF NewVisit
<1>6. \A x, e, V, A : Follow(s, x, e, V, A) => pc'[s] \in {"check", "assert", "complete"}
  BY <1>1, <1>5 DEF Follow
<1>7. \A retry, why, kid : FailAttempt(s, retry, why, kid) => pc'[s] \in {"check", "assert"}
  BY <1>1, <1>3 DEF FailAttempt
<1> QED BY <1>1, <1>2, <1>3, <1>4, <1>5, <1>6, <1>7 DEF Run, Admit, Position, StopCancelled, OverBudget,
  WorkExit, WorkFail, Spawn, LinkRow, LinkLog, WaitExit, WaitCancelled, WaitPark, ParkedAgain, GateOpen,
  GateEmpty, Complete, End

LEMMA RunGrows ==
  ASSUME TypeOK, Shape, NEW s \in Session, Run(s) \/ Admit(s)
  PROVE  /\ Grows
         /\ ~Start(s) => attempts' = attempts
<1>1. CASE ~Start(s)
  <2>1. UNCHANGED log \/ UNCHANGED attempts \/ \E x, a : LogFailed(s, x, a)
    BY <1>1 DEF Run, Admit, Position, StopCancelled, OverBudget, WorkExit, WorkFail, Spawn,
       LinkRow, LinkLog, WaitExit, WaitCancelled, WaitPark, ParkedAgain, GateOpen, GateEmpty, Complete, End,
       FailAttempt
  <2>2. attempts' = attempts
    BY <2>1, LogAttempts DEF LogFailed
  <2> QED BY <2>2, SameGrows
<1>2. CASE Start(s) /\ loc[s].reattach
  BY <1>2, SameGrows DEF Start, log
<1>3. CASE Start(s) /\ ~loc[s].reattach
  <2>1. loc[s].att \in Nat /\ attempts' = [attempts EXCEPT ![s][loc[s].step] = Larger(@, loc[s].att)]
    BY <1>3 DEF Start, LogStarted, TypeOK, Locals, Thread
  <2>2. \A x \in Step : attempts[s][x] \in Nat /\ Larger(attempts[s][x], loc[s].att) >= attempts[s][x]
    <3> TAKE x \in Step
    <3>1. attempts[s][x] \in Nat
      BY DEF TypeOK, Counts
    <3> QED BY <2>1, <3>1, LargerType
  <2>3. \A r \in Session : \A x \in Step : attempts[r][x] \in Nat
    BY DEF TypeOK, Counts
  <2> QED BY <1>3, <2>1, <2>2, <2>3 DEF Grows, TypeOK, Counts
<1> QED BY <1>1, <1>2, <1>3

LEMMA RunGates ==
  ASSUME TypeOK, TypeOK', Shape, CountInv, GateInv, NEW s \in Session, Run(s) \/ Admit(s), Alone(s)
  PROVE  GateInv'
<1>0. s \in Thread
  BY DEF Thread
<1>1. /\ UNCHANGED <<stack, lock, crashes>> /\ open \subseteq open' /\ RowsMove
  BY RowsMoved DEF Run, Admit, Position, Start, StopCancelled, OverBudget, WorkExit, WorkFail, Spawn,
     LinkRow, LinkLog, WaitExit, WaitCancelled, WaitPark, ParkedAgain, GateOpen, GateEmpty, Complete, End,
     boot
<1>2. Grows
  BY RunGrows
<1>3. Asked(s)' => Asked(s) /\ det'[s] = det[s]
  BY <1>1 DEF Asked, RowsMove, RowMoves, Waits
<1>4. Asked(s)' => pc'[s] \in {"idle", "end"}
  <2>1. ASSUME Asked(s) PROVE pc'[s] \in {"idle", "end"}
    <3>1. pc[s] \in {"idle", "end"} /\ st[s] # "queued"
      BY <2>1 DEF GateInv, Gates, GateFits, Asked
    <3>2. pc[s] = "end" /\ ~Start(s)
      BY <3>1 DEF Run, Admit, Position, Start, StopCancelled, OverBudget, WorkExit, WorkFail, Spawn,
         LinkRow, LinkLog, WaitExit, WaitCancelled, WaitPark, ParkedAgain, GateOpen, GateEmpty, Complete, End
    <3> QED BY <3>2, NotToGate
  <2> QED BY <1>3, <2>1
<1>5. det'[s].why = "gate" => Started(s, det[s])' /\ det'[s] = det[s]
  <2>1. det'[s].why = "gate" => det'[s] = det[s] /\ Started(s, det[s])
    BY <1>1 DEF RowsMove, RowMoves, Waits, GateInv, Gates, GateFits
  <2>2. det[s] \in Detail
    BY DEF TypeOK
  <2> QED BY <1>2, <2>1, <2>2, StartedGrows DEF Started, Detail
\* The loop stops at a gate in an attempt of its own, ...
<1>6. pc'[s] = "gate" =>
        /\ loc'[s].att <= attempts'[s][loc'[s].step]
        /\ loc'[s].att > attempts[s][loc'[s].step]
  <2>1. ASSUME Start(s), pc'[s] = "gate"
        PROVE  /\ loc' = loc /\ loc[s].att > attempts[s][loc[s].step]
               /\ loc[s].att <= attempts'[s][loc[s].step]
    <3>1. ~loc[s].reattach /\ pc[s] = "assert" /\ loc' = loc /\ pc[s] \in AtStep
      BY <1>0, <2>1 DEF Start, Goto, TypeOK, AtStep
    <3>2. loc[s].att > attempts[s][loc[s].step] /\ loc[s].step \in Step /\ loc[s].att \in Nat
      BY <1>0, <3>1 DEF CountInv, CountsAt, Shape, StepShape, TypeOK, Locals
    <3>3. attempts'[s][loc[s].step] = Larger(attempts[s][loc[s].step], loc[s].att)
      BY <2>1, <3>1, <3>2 DEF Start, LogStarted, TypeOK, Counts
    <3>4. attempts[s][loc[s].step] \in Nat
      BY <3>2 DEF TypeOK, Counts
    <3> QED BY <3>1, <3>2, <3>3, <3>4, LargerType
  <2> QED BY <2>1, NotToGate
\* ... and asks in it.
<1>7. GateCall(s)' =>
        /\ pc[s] = "gate" /\ tx'[s].who = s /\ tx'[s].to = "suspended-gate" /\ tx'[s].then = "end"
        /\ tx'[s].det.step = loc[s].step /\ tx'[s].det.att = loc[s].att
        /\ <<s, loc[s].step, loc[s].att>> \in open' /\ attempts' = attempts
  <2>1. CASE GateOpen(s)
    <3> DEFINE d == [why |-> "gate", kid |-> None, step |-> loc[s].step,
                     att |-> loc[s].att, visit |-> loc[s].visit]
               c == [who |-> s, to |-> "suspended-gate", det |-> d, wake |-> FALSE, then |-> "end"]
    <3>1. /\ c.who = s /\ c.to = "suspended-gate" /\ c.then = "end"
          /\ c.det.step = loc[s].step /\ c.det.att = loc[s].att
      OBVIOUS
    <3>2. /\ pc[s] = "gate" /\ tx' = [tx EXCEPT ![s] = c] /\ attempts' = attempts
          /\ <<s, loc[s].step, loc[s].att>> \in open'
      BY <2>1 DEF GateOpen, Transition, log
    <3> HIDE DEF c, d
    <3>3. tx'[s] = c
      BY <1>0, <3>2 DEF TypeOK
    <3> QED BY <3>1, <3>2, <3>3
  <2>2. CASE WaitPark(s)
    <3>1. PICK d, to : d.why \in Behind /\ Transition(s, s, to, d, "again")
      BY <2>2 DEF WaitPark, Behind
    <3> DEFINE c == [who |-> s, to |-> to, det |-> d, wake |-> FALSE, then |-> "again"]
    <3>2. tx' = [tx EXCEPT ![s] = c] /\ c.det = d
      BY <3>1 DEF Transition
    <3> HIDE DEF c
    <3>3. tx'[s].det = d
      BY <1>0, <3>2 DEF TypeOK
    <3> QED BY <3>1, <3>3 DEF GateCall, Behind
  <2>3. CASE ParkedAgain(s)
    BY <1>0, <2>3 DEF ParkedAgain, Goto, TypeOK, GateCall, Calls
  <2>4. CASE ~Delivers(s)
    <3>1. Plainly(s)
      BY <2>4, RunPlain
    <3> QED BY <3>1 DEF Plainly, PlainCall, Away, InCall, GateCall, Calls, Waits
  <2> QED BY <2>1, <2>2, <2>3, <2>4 DEF Delivers
<1>8. pc[s] = "gate" => loc[s].step \in Step /\ loc[s].att <= attempts[s][loc[s].step]
  BY <1>0 DEF GateInv, Gates, GateFits, Shape, StepShape, AtStep
<1>9. GateFits(s)'
  BY <1>4, <1>5, <1>6, <1>7, <1>8 DEF GateFits, Started
<1>10. ASSUME NEW x \in Step, NEW a \in Nat, a <= attempts[s][x], Later(s, x, a)
       PROVE  Later(s, x, a)'
  <2>1. pc'[s] = "gate" /\ loc'[s].step = x => loc'[s].att > a
    <3>1. attempts[s][x] \in Nat /\ loc'[s].att \in Nat
      BY <1>0 DEF TypeOK, Counts, Locals
    <3> QED BY <1>6, <1>10, <3>1
  <2>2. GateCall(s)' /\ tx'[s].det.step = x => tx'[s].det.att > a
    BY <1>7, <1>10 DEF Later
  <2> QED BY <2>1, <2>2 DEF Later
<1> QED BY <1>1, <1>2, <1>3, <1>9, <1>10, LoopGates

-------------------------------------------------------------------------------
\* A step of one operator call outside a transition().
LEMMA OperatorGates ==
  ASSUME TypeOK, TypeOK', Shape, GateInv, NEW o \in Operator, Alone(o), RowsMove,
         UNCHANGED <<attempts, crashes>>, \A u \in Operator : u # o => stack'[u] = stack[u],
         ~GateCall(o)', VerdictFits(o)',
         \A s \in Session :
           /\ lock'[s] = lock[s] \/ (lock[s] \in {None, o} /\ lock'[s] \in {None, o})
           /\ lock'[s] = o => Holds(o, s)'
           /\ GateCall(s) => <<s, tx[s].det.step, tx[s].det.att>> \in open'
           /\ Answering(o, s) => Answering(o, s)'
           /\ Asked(s) /\ RequestOf(s) \in open => RequestOf(s) \in open' \/ Answering(o, s)'
  PROVE  GateInv'
<1>0. o \in Thread /\ o \notin Session \cup {Boot} /\ None \notin Operator
  BY ThreadsAssumption DEF Thread
<1>1. /\ \A u \in Thread : u # o => pc'[u] = pc[u] /\ tx'[u] = tx[u] /\ loc'[u] = loc[u]
      /\ \A s \in Session : s \in Thread /\ s # o
      /\ Boot \in Thread /\ Boot # o
      /\ Operator \subseteq Thread
  BY <1>0 DEF Alone, Mine, Thread
<1>2. Grows
  BY SameGrows
<1>3. ASSUME NEW r \in Session PROVE GateFits(r)' /\ (Asked(r)' => Asked(r) /\ det'[r] = det[r])
  <2>1. GateFits(r) /\ RowMoves(r)
    BY DEF GateInv, Gates, RowsMove
  <2> QED BY <1>1, <1>2, <2>1, GateStays
<1>4. ASSUME NEW r \in Session PROVE LockFits(r)'
  <2>1. LockFits(r) /\ lock[r] \in Operator \cup {None}
    BY DEF GateInv, Gates, TypeOK
  <2>2. CASE lock'[r] \notin {None, o}
    <3>1. lock'[r] = lock[r] /\ lock[r] \in Operator /\ lock[r] # o /\ Holds(lock[r], r)
      BY <2>1, <2>2 DEF LockFits
    <3>2. Holds(lock[r], r)'
      BY <1>1, <3>1 DEF Holds
    <3> QED BY <3>1, <3>2 DEF LockFits
  <2>3. CASE lock'[r] = o
    BY <2>3 DEF LockFits
  <2> QED BY <2>2, <2>3 DEF LockFits
<1>5. ASSUME NEW u \in Operator, u # o PROVE VerdictFits(u)'
  <2>1. \A s \in Session, x \in Step, a \in Nat :
           a <= attempts[s][x] /\ Later(s, x, a) => Later(s, x, a)'
    BY <1>1 DEF Later, GateCall, Calls
  <2>2. VerdictFits(u) /\ pc'[u] = pc[u] /\ loc'[u] = loc[u]
    BY <1>1, <1>5 DEF GateInv, Verdicts
  <2>3. ASSUME NEW s \in Session PROVE lock[s] = u <=> lock'[s] = u
    <3>1. u # None /\ u # o
      BY <1>0, <1>5
    <3> QED BY <3>1
  <2>4. stack'[u] = stack[u]
    BY <1>5
  <2> HIDE DEF VerdictFits
  <2> QED BY <1>2, <2>1, <2>2, <2>3, <2>4, VerdictStays
<1>6. OnlyLoopsAsk'
  BY <1>1 DEF GateInv, OnlyLoopsAsk, GateCall, Calls
<1>7. Answered'
  <2> SUFFICES ASSUME crashes = 0, NEW r \in Session, Asked(r)', RequestOf(r)' \notin open'
               PROVE  \E u \in Operator : Answering(u, r)'
    BY DEF Answered
  <2>1. Asked(r) /\ RequestOf(r) \notin open'
    BY <1>3 DEF RequestOf
  <2>2. CASE RequestOf(r) \in open
    BY <2>1, <2>2
  <2>3. CASE RequestOf(r) \notin open
    <3>1. PICK u \in Operator : Answering(u, r)
      BY <2>1, <2>3 DEF GateInv, Answered
    <3>2. CASE u # o
      <4>1. lock'[r] = lock[r]
        BY <1>0, <3>1, <3>2 DEF Answering
      <4>2. Answering(u, r)'
        BY <1>1, <3>1, <3>2, <4>1 DEF Answering, Calls
      <4> QED BY <4>2
    <3>3. CASE u = o
      BY <3>1, <3>3
    <3> QED BY <3>2, <3>3
  <2> QED BY <2>2, <2>3
<1> QED BY <1>3, <1>4, <1>5, <1>6, <1>7 DEF GateInv, Gates, Verdicts

\* A call that holds no lock takes none but a verdict.
LEMMA UnlockedGates ==
  ASSUME TypeOK, TypeOK', Shape, GateInv, NEW o \in Operator, pc[o] \notin Holding, pc'[o] # "verdict",
         Plainly(o), RowsMove, UNCHANGED <<attempts, crashes, lock, open>>,
         \A u \in Operator : u # o => stack'[u] = stack[u]
  PROVE  GateInv'
<1>1. \A s \in Session : lock[s] # o
  BY ThreadsAssumption DEF GateInv, Gates, LockFits, Holds
<1>2. ~GateCall(o)' /\ VerdictFits(o)'
  BY <1>1 DEF Plainly, PlainCall, Away, InCall, GateCall, Calls, Waits, VerdictFits
<1>3. \A s \in Session : GateCall(s) => <<s, tx[s].det.step, tx[s].det.att>> \in open'
  BY DEF GateInv, Gates, GateFits
<1>4. \A s \in Session : ~Answering(o, s)
  BY <1>1 DEF Answering
<1> QED BY <1>1, <1>2, <1>3, <1>4, OperatorGates DEF Plainly

LEMMA VerdictGates ==
  ASSUME TypeOK, TypeOK', Shape, GateInv, NEW o \in Operator, NEW s \in Session, Verdict(o, s)
  PROVE  GateInv'
<1>0. o \in Thread /\ o # None /\ s \in Thread /\ s # o /\ det[s] \in Detail
  BY ThreadsAssumption DEF Thread, TypeOK
<1>1. Plainly(o) /\ RowsMove
  BY ServePlain, RowsMoved DEF Request
<1>2. /\ pc[o] = "idle" /\ stack' = [stack EXCEPT ![o] = <<s>>] /\ lock[s] = None
      /\ lock' = [lock EXCEPT ![s] = o] /\ pc' = [pc EXCEPT ![o] = "verdict"]
      /\ UNCHANGED <<attempts, crashes, open, tx>> /\ Asked(s)
  BY DEF Verdict, Accept, GateFree, Goto, log, boot, Asked
<1>3. PICK e : loc' = [loc EXCEPT ![o] = [NoLocals EXCEPT !.step = det[s].step, !.att = det[s].att,
                                                          !.visit = det[s].visit, !.exit = e]]
  BY DEF Verdict
<1> DEFINE l == [NoLocals EXCEPT !.step = det[s].step, !.att = det[s].att,
                                 !.visit = det[s].visit, !.exit = e]
<1>4. l.step = det[s].step /\ l.att = det[s].att
  BY DEF NoLocals
<1> HIDE DEF l
<1>5. pc'[o] = "verdict" /\ loc'[o] = l /\ stack'[o] = <<s>> /\ lock'[s] = o
      /\ \A r \in Session : r # s => lock'[r] = lock[r]
  BY <1>0, <1>2, <1>3 DEF TypeOK, l
<1>6. \A r \in Session : lock[r] # o
  BY <1>0, <1>2 DEF GateInv, Gates, LockFits, Holds, Holding
<1>7. pc'[s] = pc[s] /\ pc[s] \in {"idle", "end"} /\ Started(s, det[s])
  BY <1>0, <1>1, <1>2 DEF Plainly, Alone, Mine, GateInv, Gates, GateFits, Asked
<1>8. VerdictFits(o)'
  BY <1>2, <1>4, <1>5, <1>6, <1>7 DEF VerdictFits, VerdictAt, Later, GateCall, Calls, Started
<1>9. \A r \in Session : lock'[r] = o => Holds(o, r)'
  BY <1>5, <1>6 DEF Holds, Holding, InCall
<1>10. ~GateCall(o)' /\ \A r \in Session : ~Answering(o, r)
  BY <1>5, <1>6 DEF GateCall, Calls, Answering
<1>11. \A r \in Session : GateCall(r) => <<r, tx[r].det.step, tx[r].det.att>> \in open'
  BY <1>2 DEF GateInv, Gates, GateFits
<1>12. \A u \in Operator : u # o => stack'[u] = stack[u]
  BY <1>2 DEF TypeOK
<1>13. \A r \in Session : lock'[r] = lock[r] \/ (lock[r] \in {None, o} /\ lock'[r] \in {None, o})
  BY <1>2, <1>5
<1> QED BY <1>1, <1>2, <1>8, <1>9, <1>10, <1>11, <1>12, <1>13, OperatorGates DEF Plainly

LEMMA VerdictCloseGates ==
  ASSUME TypeOK, TypeOK', Shape, GateInv, NEW o \in Operator, VerdictClose(o)
  PROVE  GateInv'
<1>0. o \in Thread /\ o \notin Session /\ pc[o] = "verdict"
  BY ThreadsAssumption DEF Thread, VerdictClose
<1>1. Plainly(o) /\ RowsMove
  BY ServePlain, RowsMoved DEF Serve
<1>2. PICK s \in Session : s = Head(stack[o]) /\ s = About(o)
  BY <1>0, StackTypes DEF TypeOK, Shape, StackShape, AtSession, AtExit, About
<1>3. /\ pc'[o] = "exit-log" /\ UNCHANGED <<attempts, crashes, stack, lock, tx>>
      /\ open' = open \ {<<s, loc[o].step, loc[o].att>>}
  BY <1>0, <1>2 DEF VerdictClose, Goto, TypeOK, log, boot
<1>4. lock[s] = o /\ VerdictAt(o, s)
  BY <1>0, <1>2 DEF GateInv, Verdicts, VerdictFits
<1>5. ASSUME NEW r \in Session, GateCall(r)
      PROVE  <<r, tx[r].det.step, tx[r].det.att>> \in open'
  <2>1. <<r, tx[r].det.step, tx[r].det.att>> \in open
    BY <1>5 DEF GateInv, Gates, GateFits
  <2>2. tx[r].det.att \in Nat /\ loc[o].att \in Nat
    BY <1>0 DEF TypeOK, Call, Detail, Locals, Thread
  <2>3. r # s \/ tx[r].det.step # loc[o].step \/ tx[r].det.att # loc[o].att
    BY <1>4, <1>5, <2>2 DEF VerdictAt, Later
  <2> QED BY <1>3, <2>1, <2>3
<1>6. \A r \in Session : lock'[r] = o => Holds(o, r)'
  BY <1>0, <1>3, ThreadsAssumption DEF GateInv, Gates, LockFits, Holds, Holding, InCall
<1>7. ~GateCall(o)' /\ VerdictFits(o)' /\ \A r \in Session : ~Answering(o, r)
  <2>1. \A r \in Session : lock[r] = o => VerdictAt(o, r)
    BY <1>0 DEF GateInv, Verdicts, VerdictFits
  <2>2. UNCHANGED <<loc, pc, tx>> \/ \A r \in Session : pc'[r] = pc[r] /\ tx'[r] = tx[r] /\ loc'[r] = loc[r]
    BY <1>0, <1>1 DEF Plainly, Alone, Mine, Thread
  <2>3. loc'[o] = loc[o]
    BY DEF VerdictClose
  <2> QED BY <1>0, <1>3, <2>1, <2>2, <2>3 DEF GateCall, Calls, VerdictFits, VerdictAt, Later, Answering
<1>8. ASSUME NEW r \in Session, RequestOf(r) \in open PROVE RequestOf(r) \in open' \/ Answering(o, r)'
  <2>1. CASE r # s
    BY <1>3, <1>8, <2>1 DEF RequestOf
  <2>2. CASE r = s
    BY <1>3, <1>4, <2>2 DEF VerdictAt, Answering
  <2> QED BY <2>1, <2>2
<1> QED BY <1>1, <1>3, <1>5, <1>6, <1>7, <1>8, OperatorGates DEF Plainly

LEMMA ReturnGates ==
  ASSUME TypeOK, TypeOK', Shape, GateInv, NEW o \in Operator, Return(o)
  PROVE  GateInv'
<1>0. o \in Thread /\ o # None /\ pc[o] = "done" /\ pc'[o] = "idle"
  BY ThreadsAssumption DEF Thread, Return, Goto, TypeOK
<1>1. Plainly(o) /\ RowsMove
  BY ServePlain, RowsMoved DEF Serve
<1>2. /\ UNCHANGED <<attempts, crashes, open>> /\ \A u \in Operator : u # o => stack'[u] = stack[u]
      /\ \A s \in Session : lock'[s] = IF lock[s] = o THEN None ELSE lock[s]
  BY DEF Return, log, boot, TypeOK
<1>3. ~GateCall(o)' /\ VerdictFits(o)' /\ \A r \in Session : ~Answering(o, r)
  BY <1>0 DEF GateCall, Calls, VerdictFits, Answering
<1>4. \A r \in Session : GateCall(r) => <<r, tx[r].det.step, tx[r].det.att>> \in open'
  BY <1>2 DEF GateInv, Gates, GateFits
<1>5. \A s \in Session : /\ lock'[s] # o
                         /\ lock'[s] = lock[s] \/ (lock[s] \in {None, o} /\ lock'[s] \in {None, o})
  BY <1>0, <1>2
<1> QED BY <1>1, <1>2, <1>3, <1>4, <1>5, OperatorGates DEF Plainly

LEMMA ServeGates ==
  ASSUME TypeOK, TypeOK', Shape, GateInv, NEW o \in Operator, Request(o) \/ Serve(o)
  PROVE  GateInv'
<1>1. CASE (\E s \in Session : Verdict(o, s)) \/ VerdictClose(o) \/ Return(o)
  BY <1>1, VerdictGates, VerdictCloseGates, ReturnGates
<1>2. CASE ~((\E s \in Session : Verdict(o, s)) \/ VerdictClose(o) \/ Return(o))
  <2>1. /\ UNCHANGED <<crashes, lock, open>> /\ attempts' = attempts
        /\ \A u \in Operator : u # o => stack'[u] = stack[u]
    BY <1>2 DEF Request, Serve, Accept, Cancel, Retry, Resume, ManualRoute, CancelWrite, CancelChildren,
       CancelNext, RetryRead, RetryChild, RetryQueue, boot, log, TypeOK
  <2>2. pc[o] \notin Holding
    BY <1>2 DEF Request, Serve, Accept, Cancel, Retry, Resume, ManualRoute, CancelWrite, CancelChildren,
       CancelNext, RetryRead, RetryChild, RetryQueue, Holding
  <2>3. pc'[o] # "verdict"
    <3>0. o \in Thread /\ pc \in [Thread -> Label]
      BY DEF Thread, TypeOK
    <3>1. \A label : Goto(o, label) => pc'[o] = label
      BY <3>0 DEF Goto
    <3>2. \A s, to, d, then : Transition(o, s, to, d, then) => pc'[o] = "check"
      BY <3>1 DEF Transition
    <3> QED BY <1>2, <3>1, <3>2 DEF Request, Serve, Cancel, Retry, Resume, ManualRoute, CancelWrite,
      CancelChildren, CancelNext, RetryRead, RetryChild, RetryQueue
  <2>4. Plainly(o) /\ RowsMove
    BY ServePlain, RowsMoved
  <2> QED BY <2>1, <2>2, <2>3, <2>4, UnlockedGates
<1> QED BY <1>1, <1>2

LEMMA RecordingGates ==
  ASSUME TypeOK, TypeOK', Shape, GateInv, NEW t \in Session \cup Operator, Recording(t)
  PROVE  GateInv'
<1>0. t \in Thread /\ pc[t] \in {"exit-log", "exit-row"}
  BY DEF Thread, Recording, ExitLog, ExitRow
<1>1. Plainly(t) /\ RowsMove
  BY <1>0, RecordingPlain, RowsMoved
<1>2. /\ attempts' = attempts /\ UNCHANGED <<stack, lock, crashes, open>>
  BY DEF Recording, ExitLog, ExitRow, LogExited, log, boot
<1>3. ~GateCall(t)'
  BY <1>1 DEF Plainly, PlainCall, Away, InCall, GateCall, Calls, Waits
<1>4. pc'[t] \notin {"gate", "verdict", "exit-log"}
  <2>1. \A label : Goto(t, label) => pc'[t] = label
    BY <1>0 DEF Goto, TypeOK
  <2>2. \A s, to, d, then : Transition(t, s, to, d, then) => pc'[t] = "check"
    BY <2>1 DEF Transition
  <2>3. \A x, e, V, A : Follow(t, x, e, V, A) => pc'[t] \in {"check", "assert", "complete"}
    BY <2>1, <2>2 DEF Follow, NewVisit, Suspend, Enter
  <2>4. CASE ExitLog(t)
    BY <2>1, <2>4 DEF ExitLog
  <2>5. CASE ExitRow(t) /\ t \in Session
    <3>1. Follow(t, loc[t].step, loc[t].exit, mVisits[t], mAttempts[t])
      BY <2>5 DEF ExitRow, About
    <3> QED BY <2>3, <3>1
  <2>6. CASE ExitRow(t) /\ t \notin Session
    <3>1. Transition(t, About(t), "queued", Plain("resumed"), "done")
      BY <2>6 DEF ExitRow
    <3> QED BY <2>2, <3>1
  <2> QED BY <2>4, <2>5, <2>6 DEF Recording
<1>5. CASE t \in Session
  <2>1. Asked(t)' => Asked(t)
    BY <1>1, <1>5 DEF Asked, RowsMove, RowMoves, Waits
  <2>2. ~Asked(t)'
    BY <1>0, <1>5, <2>1 DEF GateInv, Gates, GateFits
  <2>3. det'[t].why = "gate" => Started(t, det[t]) /\ det'[t] = det[t]
    BY <1>1, <1>5 DEF RowsMove, RowMoves, Waits, GateInv, Gates, GateFits
  <2>4. GateFits(t)'
    BY <1>2, <1>3, <1>4, <2>2, <2>3 DEF GateFits, Started
  <2>5. \A x \in Step, a \in Nat : Later(t, x, a)'
    BY <1>3, <1>4 DEF Later
  <2> QED BY <1>1, <1>2, <1>5, <2>2, <2>4, <2>5, SameGrows, LoopGates DEF Plainly
<1>6. CASE t \in Operator
  <2>1. t \notin Session /\ t # None /\ About(t) = Head(stack[t])
    BY <1>6, ThreadsAssumption DEF About
  <2>2. ASSUME NEW s \in Session, lock[s] = t
        PROVE  Head(stack[t]) = s /\ stack[t] # << >> /\ (pc'[t] = "exit-row" \/ (Answering(t, s)' /\ tx'[t].then = "done"))
    <3>1. Head(stack[t]) = s /\ stack[t] # << >>
      BY <2>1, <2>2 DEF GateInv, Gates, LockFits, Holds
    <3>2. CASE ExitLog(t)
      BY <1>0, <3>1, <3>2 DEF ExitLog, Goto, TypeOK
    <3>3. CASE ExitRow(t)
      <4> DEFINE c == [who |-> s, to |-> "queued", det |-> Plain("resumed"), wake |-> FALSE,
                       then |-> "done"]
      <4>1. tx' = [tx EXCEPT ![t] = c] /\ pc' = [pc EXCEPT ![t] = "check"]
        BY <2>1, <3>1, <3>3 DEF ExitRow, Transition, Goto
      <4>2. c.who = s /\ c.to = "queued" /\ c.then = "done"
        OBVIOUS
      <4> HIDE DEF c
      <4>3. tx'[t] = c /\ pc'[t] = "check"
        BY <1>0, <4>1 DEF TypeOK
      <4> QED BY <1>2, <2>2, <3>1, <4>2, <4>3 DEF Answering, Calls
    <3> QED BY <3>1, <3>2, <3>3 DEF Recording
  <2>3. \A s \in Session : lock'[s] = t => Holds(t, s)'
    <3> SUFFICES ASSUME NEW s \in Session, lock[s] = t PROVE Holds(t, s)'
      BY <1>2
    <3>1. CASE pc'[t] = "exit-row"
      BY <1>2, <2>2, <3>1 DEF Holds, Holding, InCall
    <3>2. CASE Answering(t, s)' /\ tx'[t].then = "done"
      BY <1>2, <2>2, <3>2 DEF Holds, Holding, Answering, Calls
    <3> QED BY <2>2, <3>1, <3>2
  <2>4. \A s \in Session : Answering(t, s) => Answering(t, s)'
    BY <1>2, <2>2 DEF Answering
  <2>5. \A r \in Session : GateCall(r) => <<r, tx[r].det.step, tx[r].det.att>> \in open'
    BY <1>2 DEF GateInv, Gates, GateFits
  <2>6. VerdictFits(t)'
    BY <1>4 DEF VerdictFits
  <2> QED BY <1>1, <1>2, <1>3, <1>6, <2>3, <2>4, <2>5, <2>6, OperatorGates DEF Plainly
<1> QED BY <1>5, <1>6

-------------------------------------------------------------------------------
\* A transition().  Only the loop's own call brings a session to its gate.
LEMMA SharedGates ==
  ASSUME TypeOK, TypeOK', Shape, ChildShape, GateInv, NEW t \in Thread, Shared(t)
  PROVE  GateInv'
<1> DEFINE c == tx[t]
<1>1. /\ UNCHANGED <<attempts, crashes, lock, open, loc, stack>>
  BY DEF Shared, TxCheck, TxWrite, Settle, log, boot
<1>2. /\ c.who \in Session /\ c.then \in Returns /\ OnSignal(t) \in Returns \cup {"dead"} /\ c.det \in Detail
      /\ \A u \in Thread : u # t => pc'[u] = pc[u] /\ tx'[u] = tx[u]
      /\ pc[t] \in InCall /\ tx'[t].then = c.then /\ pc'[t] \in InCall \cup {c.then, OnSignal(t)}
  BY SharedCases DEF TypeOK, Call, OnSignal, Returns, InCall, Mine
<1>3. pc'[t] \notin {"gate", "verdict", "exit-log", "exit-row"}
  BY <1>2 DEF Returns, InCall
<1>4. GateCall(t)' => GateCall(t) /\ tx'[t] = c
  <2>1. CASE TxCheck(t)
    BY <2>1 DEF TxCheck, GateCall, Calls
  <2>2. CASE TxWrite(t)
    <3>1. pc'[t] \in {"settle", c.then}
      BY <2>2 DEF TxWrite, Goto, TypeOK
    <3> QED BY <1>2, <3>1 DEF GateCall, Calls, Returns
  <2>3. CASE Settle(t)
    <3> DEFINE w == [who |-> parent[c.who], to |-> "queued", det |-> Plain("resumed"),
                     wake |-> TRUE, then |-> c.then]
    <3>1. w.det.why = "resumed"
      BY PlainWhy
    <3>2. \/ tx' = [tx EXCEPT ![t] = w]
          \/ tx' = tx /\ pc' = [pc EXCEPT ![t] = c.then]
      BY <2>3 DEF Settle, Goto
    <3> HIDE DEF w
    <3>3. tx'[t] = w \/ pc'[t] = c.then
      BY <3>2 DEF TypeOK
    <3> QED BY <1>2, <3>1, <3>3 DEF GateCall, Calls, Returns
  <2> QED BY <2>1, <2>2, <2>3 DEF Shared
\* What the write of a gate's call says.
<1>5. ASSUME GateCall(t)
      PROVE  /\ t \in Session /\ c.who = t /\ c.to = "suspended-gate" /\ c.then = "end"
             /\ <<t, c.det.step, c.det.att>> \in open /\ Started(t, c.det)
  BY <1>5 DEF GateInv, OnlyLoopsAsk, Gates, GateFits, Thread
<1>6. \A r \in Session : LockFits(r)'
  <2> SUFFICES ASSUME NEW r \in Session, lock[r] # None PROVE Holds(lock[r], r)'
    BY <1>1 DEF LockFits
  <2>1. Holds(lock[r], r) /\ lock[r] \in Operator /\ lock[r] \in Thread
    BY DEF GateInv, Gates, LockFits, TypeOK, Thread
  <2>2. CASE lock[r] # t
    BY <1>1, <1>2, <2>1, <2>2 DEF Holds
  <2>3. CASE lock[r] = t
    <3>1. t \notin Session /\ t # Boot
      BY <2>1, <2>3, ThreadsAssumption
    <3>2. c.then = "done" /\ OnSignal(t) = "done"
      BY <1>2, <2>1, <2>3, <3>1 DEF Holds, OnSignal
    <3> QED BY <1>1, <1>2, <2>1, <2>3, <3>2 DEF Holds, Holding, InCall
  <2> QED BY <2>2, <2>3
<1>7. ASSUME NEW o \in Operator PROVE VerdictFits(o)'
  <2>1. CASE o = t
    BY <1>3, <2>1 DEF VerdictFits
  <2>2. CASE o # t
    <3>1. VerdictFits(o) /\ pc'[o] = pc[o]
      BY <1>2, <2>2 DEF GateInv, Verdicts, Thread
    <3>2. ASSUME NEW s \in Session, NEW x, NEW a, Later(s, x, a) PROVE Later(s, x, a)'
      <4>1. CASE s = t
        BY <1>3, <1>4, <3>2, <4>1 DEF Later
      <4>2. CASE s # t
        <5>1. pc'[s] = pc[s] /\ tx'[s] = tx[s]
          BY <1>2, <4>2 DEF Thread
        <5> QED BY <1>1, <3>2, <5>1 DEF Later, GateCall, Calls
      <4> QED BY <4>1, <4>2
    <3> QED BY <1>1, <3>1, <3>2, SameGrows, VerdictStays
  <2> QED BY <2>1, <2>2
<1>8. OnlyLoopsAsk'
  <2> SUFFICES ASSUME NEW u \in Operator \cup {Boot} PROVE ~GateCall(u)'
    BY DEF OnlyLoopsAsk
  <2>1. u \in Thread /\ ~GateCall(u)
    BY DEF GateInv, OnlyLoopsAsk, Thread
  <2> QED BY <1>2, <1>4, <2>1 DEF GateCall, Calls
\* What stays true of a loop but for its row.
<1>9. ASSUME NEW r \in Session, det'[r].why = "gate" => Started(r, det'[r]),
             Asked(r)' => pc'[r] \in {"idle", "end"}
      PROVE  GateFits(r)'
  <2>1. GateFits(r)
    BY DEF GateInv, Gates
  <2>2. CASE r # t
    <3>1. pc'[r] = pc[r] /\ tx'[r] = tx[r]
      BY <1>2, <2>2 DEF Thread
    <3> QED BY <1>1, <1>9, <2>1, <3>1 DEF GateFits, GateCall, Calls, Started
  <2>3. CASE r = t
    BY <1>1, <1>3, <1>4, <1>9, <2>1, <2>3 DEF GateFits, Started
  <2> QED BY <2>2, <2>3
<1>10. CASE TxWrite(t)
  <2>1. /\ pc[t] = "write" /\ tx' = tx
        /\ pc'[t] = IF Wakes(c.who, c.to, c.det) THEN "settle" ELSE c.then
        /\ st'[c.who] = c.to /\ det'[c.who] = c.det
        /\ \A r \in Session : r # c.who => st'[r] = st[r] /\ det'[r] = det[r]
    BY <1>2, <1>10 DEF TxWrite, Goto, TypeOK
  <2>2. c.det.why = "gate" => GateCall(t)
    BY <2>1 DEF GateCall, Calls
  <2>3. ASSUME NEW r \in Session PROVE GateFits(r)'
    <3>1. GateFits(r) /\ r \in Thread
      BY DEF GateInv, Gates, Thread
    <3>2. det'[r].why = "gate" => Started(r, det'[r])
      BY <1>5, <2>1, <2>2, <3>1 DEF GateFits
    <3>3. CASE r = c.who
      <4>1. ASSUME Asked(r)' PROVE pc'[r] = "end"
        <5>1. GateCall(t)
          BY <2>1, <2>2, <3>3, <4>1 DEF Asked
        <5> QED BY <1>5, <2>1, <3>3, <5>1 DEF Wakes
      <4> QED BY <1>9, <3>2, <4>1
    <3>4. CASE r # c.who
      <4>1. ASSUME Asked(r)' PROVE pc'[r] \in {"idle", "end"}
        <5>1. pc[r] \in {"idle", "end"}
          BY <2>1, <3>1, <3>4, <4>1 DEF Asked, GateFits
        <5> QED BY <1>2, <2>1, <3>1, <5>1
      <4> QED BY <1>9, <3>2, <4>1
    <3> QED BY <3>3, <3>4
  <2>4. ASSUME crashes = 0, NEW r \in Session, Asked(r)', RequestOf(r)' \notin open
        PROVE  \E o \in Operator : Answering(o, r)'
    <3>1. r # c.who
      BY <1>5, <2>1, <2>2, <2>4 DEF Asked, RequestOf
    <3>2. Asked(r) /\ RequestOf(r) \notin open
      BY <2>1, <2>4, <3>1 DEF Asked, RequestOf
    <3>3. PICK o \in Operator : Answering(o, r)
      BY <2>4, <3>2 DEF GateInv, Answered
    <3>4. o # t /\ o \in Thread
      BY <2>1, <3>1, <3>3 DEF Answering, Thread
    <3> QED BY <1>1, <1>2, <3>3, <3>4 DEF Answering, Calls
  <2>5. Answered'
    BY <1>1, <2>4 DEF Answered
  <2> HIDE DEF c
  <2> QED BY <1>6, <1>7, <1>8, <2>3, <2>5 DEF GateInv, Gates, Verdicts
<1>11. CASE TxCheck(t) \/ Settle(t)
  <2>1. st' = st /\ det' = det /\ pc[t] \in {"check", "settle"}
    BY <1>11 DEF TxCheck, Settle, sessionRows
  <2>2. ASSUME NEW r \in Session PROVE GateFits(r)'
    <3>1. GateFits(r) /\ r \in Thread
      BY DEF GateInv, Gates, Thread
    <3>2. Asked(r) => r # t /\ pc'[r] \in {"idle", "end"}
      BY <1>2, <2>1, <3>1 DEF GateFits
    <3> QED BY <1>9, <2>1, <3>1, <3>2 DEF GateFits, Asked
  <2>3. ASSUME crashes = 0, NEW r \in Session, Asked(r), RequestOf(r) \notin open
        PROVE  \E o \in Operator : Answering(o, r)'
    <3>1. PICK o \in Operator : Answering(o, r)
      BY <2>3 DEF GateInv, Answered
    <3>2. CASE o # t
      <4>1. o \in Thread
        BY DEF Thread
      <4> QED BY <1>1, <1>2, <3>1, <3>2, <4>1 DEF Answering, Calls
    <3>3. CASE o = t
      <4>1. pc[t] = "check" /\ c.who = r /\ c.to = "queued"
        BY <2>1, <3>1, <3>3 DEF Answering, Calls
      <4>2. pc'[t] = "write" /\ tx' = tx
        BY <1>11, <2>3, <4>1 DEF TxCheck, Settle, Goto, Asked, TypeOK
      <4> QED BY <1>1, <3>1, <3>3, <4>1, <4>2 DEF Answering, Calls
    <3> QED BY <3>2, <3>3
  <2>4. Answered'
    BY <1>1, <2>1, <2>3 DEF Answered, Asked, RequestOf
  <2> HIDE DEF c
  <2> QED BY <1>6, <1>7, <1>8, <2>2, <2>4 DEF GateInv, Gates, Verdicts
<1> QED BY <1>10, <1>11 DEF Shared

-------------------------------------------------------------------------------
\* Going down and coming up again: no call is left, and with a crash behind it the
\* property asks nothing.
LEMMA DownGates ==
  ASSUME TypeOK, LoopInv, NeverDown, GateInv, Crash \/ RecoverDies
  PROVE  GateInv'
<1>1. /\ pc' = [t \in Thread |-> "idle"] /\ lock' = [s \in Session |-> None]
      /\ UNCHANGED <<st, det, attempts, open>>
  BY DEF Crash, RecoverDies, Reboot, sessionRows, log
<1>2. crashes' # 0
  <2>1. Crash => crashes' # 0
    BY DEF Crash, TypeOK
  <2>2. RecoverDies => crashes' # 0
    BY DEF RecoverDies, LoopInv, NeverDown
  <2> QED BY <2>1, <2>2
<1>3. \A t \in Thread : pc'[t] = "idle"
  BY <1>1
<1>4. ASSUME NEW s \in Session PROVE LockFits(s)' /\ GateFits(s)'
  <2>1. s \in Thread /\ GateFits(s) /\ lock'[s] = None
    BY <1>1 DEF Thread, GateInv, Gates
  <2> QED BY <1>1, <1>3, <2>1 DEF LockFits, GateFits, GateCall, Calls, Started
<1>5. Verdicts' /\ OnlyLoopsAsk'
  BY <1>3 DEF Verdicts, VerdictFits, OnlyLoopsAsk, GateCall, Calls, Thread
<1> QED BY <1>2, <1>4, <1>5 DEF GateInv, Gates, Answered

\* A step of the recovery pass.
LEMMA BootGates ==
  ASSUME TypeOK, Shape, LoopInv, NeverDown, GateInv, RecoverDone \/ \E s \in Session : RecoverSession(s)
  PROVE  GateInv'
<1>1. /\ UNCHANGED <<st, det, attempts, open, lock, stack, loc>> /\ crashes # 0 /\ crashes' = crashes
  BY DEF RecoverDone, RecoverSession, NeverDown, sessionRows, log
<1>2. Alone(Boot) /\ ~GateCall(Boot)'
  <2>1. Boot \in Thread /\ ~GateCall(Boot)
    BY DEF Thread, GateInv, OnlyLoopsAsk
  <2>2. ASSUME NEW s \in Session, RecoverSession(s) PROVE Plainly(Boot)
    BY <2>2, RecoverSessionPlain
  <2>3. CASE RecoverDone
    BY <2>1, <2>3 DEF RecoverDone, Alone, Mine, GateCall, Calls
  <2> QED BY <2>2, <2>3 DEF Plainly, PlainCall, Away, InCall, GateCall, Calls, Waits
<1>3. \A u \in Session \cup Operator : u \in Thread /\ u # Boot /\ pc'[u] = pc[u] /\ tx'[u] = tx[u]
  BY <1>2, ThreadsAssumption DEF Alone, Mine, Thread
<1>4. ASSUME NEW s \in Session PROVE LockFits(s)' /\ GateFits(s)'
  <2>1. LockFits(s) /\ GateFits(s) /\ lock[s] \in Operator \cup {None}
    BY DEF GateInv, Gates, TypeOK
  <2>2. LockFits(s)'
    BY <1>1, <1>3, <2>1 DEF LockFits, Holds
  <2>3. pc'[s] = pc[s] /\ tx'[s] = tx[s] /\ loc'[s] = loc[s]
    BY <1>1, <1>3
  <2>4. GateCall(s)' <=> GateCall(s)
    BY <2>3 DEF GateCall, Calls
  <2>5. Asked(s)' <=> Asked(s)
    BY <1>1 DEF Asked
  <2>6. GateFits(s)'
    BY <1>1, <2>1, <2>3, <2>4, <2>5 DEF GateFits, Started
  <2> QED BY <2>2, <2>6
<1>5. ASSUME NEW o \in Operator PROVE VerdictFits(o)' /\ ~GateCall(o)'
  <2>1. VerdictFits(o) /\ ~GateCall(o)
    BY DEF GateInv, Verdicts, OnlyLoopsAsk
  <2>2. pc[o] = "verdict" => Head(stack[o]) \in Session
    BY StackTypes DEF TypeOK, Shape, StackShape, AtSession, AtExit
  <2>3. ASSUME NEW s \in Session, NEW x, NEW a, Later(s, x, a) PROVE Later(s, x, a)'
    BY <1>1, <1>3, <2>3 DEF Later, GateCall, Calls
  <2> QED BY <1>1, <1>3, <2>1, <2>2, <2>3 DEF VerdictFits, VerdictAt, GateCall, Calls
<1> QED BY <1>1, <1>2, <1>4, <1>5 DEF GateInv, Gates, Verdicts, OnlyLoopsAsk, Answered

LEMMA RunAlone ==
  ASSUME TypeOK, NEW s \in Session, Run(s) \/ Admit(s)
  PROVE  Alone(s)
<1>0. s \in Thread
  BY DEF Thread
<1>1. CASE ~Delivers(s)
  BY <1>1, RunPlain DEF Plainly
<1>2. CASE WaitPark(s) \/ GateOpen(s)
  BY <1>0, <1>2 DEF WaitPark, GateOpen, Transition, Goto, TypeOK, Alone, Mine
<1>3. CASE ParkedAgain(s)
  BY <1>0, <1>3 DEF ParkedAgain, Goto, TypeOK, Alone, Mine
<1> QED BY <1>1, <1>2, <1>3 DEF Delivers

LEMMA GateStep == Typed /\ Typed' /\ CountInv /\ LoopInv /\ WaitInv /\ GateInv /\ [Next]_vars => GateInv'
<1> SUFFICES ASSUME TypeOK, Shape, ChildShape, TypeOK', CountInv, LoopInv, WaitInv, GateInv, [Next]_vars
             PROVE  GateInv'
  BY DEF Typed
<1>1. ASSUME NEW s \in Session, Admit(s) \/ Run(s) PROVE GateInv'
  BY <1>1, RunAlone, RunGates
<1>2. ASSUME NEW o \in Operator, Request(o) \/ Serve(o) PROVE GateInv'
  BY <1>2, ServeGates
<1>3. ASSUME NEW t \in Thread, Shared(t) PROVE GateInv'
  BY <1>3, SharedGates
<1>4. ASSUME NEW t \in Session \cup Operator, Recording(t) PROVE GateInv'
  BY <1>4, RecordingGates
<1>5. CASE Recover \/ Crash
  BY <1>5, DownGates, BootGates DEF Recover, WaitInv
<1>6. CASE UNCHANGED vars
  BY <1>6 DEF vars, sessionRows, log, boot, GateInv, Gates, Verdicts, OnlyLoopsAsk, Answered, LockFits, Holds,
     GateFits, GateCall, Calls, Asked, Started, VerdictFits, VerdictAt, Later, Answering, RequestOf
<1> QED BY <1>1, <1>2, <1>3, <1>4, <1>5, <1>6 DEF Next

\* While the process keeps running, a session parked at its gate with nobody at work on
\* its verdict has its request open: whichever calls overlap with the loop that asks,
\* the operator always has something to answer.
THEOREM GatesAnswerable == Spec => []GateAnswerable
<1>1. GateInv => GateAnswerable
  <2> SUFFICES ASSUME GateInv, crashes = 0, NEW s \in Session, Asked(s), lock[s] = None
               PROVE  RequestOf(s) \in open
    BY DEF GateAnswerable, Asked, RequestOf
  <2>1. \A o \in Operator : ~Answering(o, s)
    BY ThreadsAssumption DEF Answering
  <2> QED BY <2>1 DEF GateInv, Answered
<1>2. Init => CountInv
  BY DEF Init, CountInv, CountsAt, AtStep, AtExit, Thread
<1> QED BY TypedInit, TypedStep, LoopInit, LoopStep, WaitInit, WaitStep, GateInit, GateStep, CountStep,
           <1>1, <1>2, PTL DEF Spec

-------------------------------------------------------------------------------
(***************************************************************************)
(* ExitOnce, of a program that offers no manual routes.  A loop records    *)
(* exits of steps that are no gates, each in an attempt and, without a     *)
(* crash, a visit it started itself; a verdict records the exit of a gate  *)
(* whose request it has closed, and a loop that is back at that gate is in *)
(* a later attempt.                                                        *)
(***************************************************************************)
NoRoutes == "route" \notin Ops

Recorded(s, x, a) == \E e \in exits[s] : e[1] = x /\ e[2] = a
Visited(s, x, v) == \E e \in exits[s] : e[1] = x /\ e[3] = v
IsGate(x) == Kind[x] = "gate"

\* Where a loop is in an attempt that the log has as started.
AtWork == {"work", "spawn", "link-row", "link-log", "wait", "gate", "exit-log"}
InAttempt(s) == pc[s] \in AtWork \/ (pc[s] = "assert" /\ loc[s].reattach)

\* The attempts of the log: none is recorded before it is started, and one that can
\* be taken up again, with its child, is not recorded.
Interruptible == {"running", "failed"}
PastAttempts(s) ==
  /\ \A e \in exits[s] : e[2] <= attempts[s][e[1]]
  /\ cur[s].status = "none" => cur[s].step = None
  /\ cur[s].status = "exited" => Recorded(s, cur[s].step, cur[s].att) /\ cur[s].kid = None
  /\ cur[s].status \in Interruptible /\ cur[s].kid # None =>
       ~Recorded(s, cur[s].step, cur[s].att) /\ cur[s].att <= attempts[s][cur[s].step]
AtAttempt(s) ==
  InAttempt(s) =>
    /\ pc[s] = "gate" <=> IsGate(loc[s].step)
    /\ ~Recorded(s, loc[s].step, loc[s].att) /\ loc[s].att <= attempts[s][loc[s].step]

\* Its visits, but for those of gates, as long as nothing crashed.
PastVisits(s) ==
  /\ \A e \in exits[s] : ~IsGate(e[1]) => e[3] <= visits[s][e[1]]
  /\ cur[s].status \in Interruptible =>
       /\ cur[s].visit <= visits[s][cur[s].step]
       /\ ~IsGate(cur[s].step) => ~Visited(s, cur[s].step, cur[s].visit)
AtVisit(s) ==
  /\ pc[s] \in AtStep => /\ \A x \in Step : visits[s][x] <= mVisits[s][x]
                         /\ loc[s].visit <= mVisits[s][loc[s].step]
  /\ InAttempt(s) => loc[s].visit <= visits[s][loc[s].step]
  /\ (InAttempt(s) \/ pc[s] = "assert") /\ ~IsGate(loc[s].step) =>
       ~Visited(s, loc[s].step, loc[s].visit)

Fits(s) == /\ PastAttempts(s) /\ AtAttempt(s)
           /\ crashes = 0 => PastVisits(s) /\ AtVisit(s)

\* The gates' side: an open request is not recorded, nor is the one a verdict has
\* closed until the verdict records it.
OpenFits == \A r \in open : IsGate(r[2]) /\ ~Recorded(r[1], r[2], r[3])
ClosingFits(o) ==
  pc[o] \in {"verdict", "exit-log"} => \A s \in Session : lock[s] = o =>
    /\ IsGate(loc[o].step) /\ ~Recorded(s, loc[o].step, loc[o].att)
    /\ pc[o] = "exit-log" => <<s, loc[o].step, loc[o].att>> \notin open
OwnLock(o) == pc[o] = "exit-log" => lock[Head(stack[o])] = o

ExitInv == /\ \A s \in Session : Fits(s)
           /\ OpenFits /\ \A o \in Operator : ClosingFits(o) /\ OwnLock(o)

LEMMA ExitInit == Init => ExitInv
<1> SUFFICES ASSUME Init PROVE ExitInv
  OBVIOUS
<1>1. \A t \in Thread : pc[t] = "idle"
  BY DEF Init
<1>2. ASSUME NEW s \in Session PROVE Fits(s)
  <2>1. pc[s] = "idle" /\ exits[s] = {} /\ cur[s] = NoCursor
    BY <1>1 DEF Init, Thread
  <2>2. NoCursor.status = "none" /\ NoCursor.step = None
    BY DEF NoCursor
  <2> QED BY <2>1, <2>2 DEF Fits, PastAttempts, AtAttempt, PastVisits, AtVisit, InAttempt, AtWork, AtStep,
                            AtExit, Interruptible
<1>3. open = {}
  BY DEF Init
<1> QED BY <1>1, <1>2, <1>3 DEF ExitInv, OpenFits, ClosingFits, OwnLock, Thread

-------------------------------------------------------------------------------
\* A step of the loop of s: what it leaves alone.
OwnStep(s) ==
  /\ UNCHANGED <<stack, lock, crashes>>
  /\ \A u \in Session \cup Operator : u # s => pc'[u] = pc[u] /\ loc'[u] = loc[u]
  /\ \A r \in Session : r # s => /\ exits'[r] = exits[r] /\ attempts'[r] = attempts[r]
                                 /\ visits'[r] = visits[r] /\ cur'[r] = cur[r] /\ mVisits'[r] = mVisits[r]

LEMMA FitsStays ==
  ASSUME NEW r \in Session, Fits(r), pc'[r] = pc[r], loc'[r] = loc[r], exits'[r] = exits[r],
         attempts'[r] = attempts[r], visits'[r] = visits[r], cur'[r] = cur[r],
         mVisits'[r] = mVisits[r], crashes' = 0 => crashes = 0
  PROVE  Fits(r)'
BY DEF Fits, PastAttempts, AtAttempt, PastVisits, AtVisit, InAttempt, Recorded, Visited

LEMMA OwnFits ==
  ASSUME TypeOK, GateInv, ExitInv, NEW s \in Session, OwnStep(s), Fits(s)',
         \A e \in exits'[s] : e \in exits[s] \/ ~IsGate(e[1]),
         \A r \in open' : r \in open \/ (r = <<s, loc[s].step, loc[s].att>> /\ pc[s] = "gate")
  PROVE  ExitInv'
<1>0. \A o \in Operator : o # s
  BY ThreadsAssumption
<1>1. ASSUME NEW r \in Session PROVE Fits(r)'
  BY <1>1, FitsStays DEF ExitInv, OwnStep
<1>2. ASSUME NEW r \in Session, NEW x, NEW a, IsGate(x), ~Recorded(r, x, a)
      PROVE  ~Recorded(r, x, a)'
  BY <1>2 DEF OwnStep, Recorded
<1>3. OpenFits'
  <2> SUFFICES ASSUME NEW r \in open' PROVE IsGate(r[2]) /\ ~Recorded(r[1], r[2], r[3])'
    BY DEF OpenFits, Recorded
  <2>1. CASE r \in open
    <3>1. r[1] \in Session
      BY <2>1 DEF TypeOK
    <3> QED BY <1>2, <2>1, <3>1 DEF ExitInv, OpenFits
  <2>2. CASE r = <<s, loc[s].step, loc[s].att>> /\ pc[s] = "gate"
    <3>1. IsGate(loc[s].step) /\ ~Recorded(s, loc[s].step, loc[s].att)
      BY <2>2 DEF ExitInv, Fits, AtAttempt, InAttempt, AtWork
    <3> QED BY <1>2, <2>2, <3>1
  <2> QED BY <2>1, <2>2
<1>4. ASSUME NEW o \in Operator PROVE ClosingFits(o)' /\ OwnLock(o)'
  <2>1. pc'[o] = pc[o] /\ loc'[o] = loc[o] /\ stack' = stack /\ lock' = lock
    BY <1>0 DEF OwnStep
  <2>2. ClosingFits(o) /\ OwnLock(o) /\ VerdictFits(o)
    BY DEF ExitInv, GateInv, Verdicts
  <2>3. ASSUME pc[o] \in {"verdict", "exit-log"}, NEW r \in Session, lock[r] = o
        PROVE  /\ IsGate(loc[o].step) /\ ~Recorded(r, loc[o].step, loc[o].att)'
               /\ pc[o] = "exit-log" => <<r, loc[o].step, loc[o].att>> \notin open'
    <3>1. IsGate(loc[o].step) /\ ~Recorded(r, loc[o].step, loc[o].att)'
      BY <1>2, <2>1, <2>2, <2>3 DEF ClosingFits
    <3>2. ASSUME pc[o] = "exit-log", <<r, loc[o].step, loc[o].att>> \in open' PROVE FALSE
      <4>1. pc[s] = "gate" /\ r = s /\ loc[s].step = loc[o].step /\ loc[s].att = loc[o].att
        BY <2>2, <2>3, <3>2 DEF ClosingFits
      <4>2. loc[s].att > loc[o].att
        BY <2>2, <2>3, <4>1 DEF VerdictFits, VerdictAt, Later
      <4>3. loc[o].att \in Nat
        BY DEF TypeOK, Thread, Locals
      <4> QED BY <4>1, <4>2, <4>3
    <3> QED BY <3>1, <3>2
  <2> QED BY <2>1, <2>2, <2>3 DEF ClosingFits, OwnLock, Recorded
<1> QED BY <1>1, <1>3, <1>4 DEF ExitInv

\* What a step of a loop that records nothing makes of the log.
SameLog(s) ==
  /\ exits'[s] = exits[s] /\ attempts'[s] = attempts[s] /\ visits'[s] = visits[s]
  /\ cur'[s] = cur[s] \/ (cur[s].status \in Interruptible /\ cur'[s] = [cur[s] EXCEPT !.status = "failed"])

LEMMA SamePast ==
  ASSUME TypeOK, NEW s \in Session, Fits(s), SameLog(s), crashes' = crashes
  PROVE  PastAttempts(s)' /\ (crashes = 0 => PastVisits(s)')
<1>1. cur[s] \in Cursor
  BY DEF TypeOK
<1>2. CASE cur'[s] = cur[s]
  BY <1>2 DEF SameLog, Fits, PastAttempts, PastVisits, Recorded, Visited
<1>3. CASE cur[s].status \in Interruptible /\ cur'[s] = [cur[s] EXCEPT !.status = "failed"]
  <2>1. /\ cur'[s].status = "failed" /\ cur'[s].step = cur[s].step /\ cur'[s].att = cur[s].att
        /\ cur'[s].visit = cur[s].visit /\ cur'[s].kid = cur[s].kid
    BY <1>1, <1>3 DEF Cursor
  <2> QED BY <1>3, <2>1 DEF SameLog, Fits, PastAttempts, PastVisits, Recorded, Visited, Interruptible
<1> QED BY <1>2, <1>3 DEF SameLog

\* The loop goes to a label at no step.
LEMMA LeaveFits ==
  ASSUME TypeOK, NEW s \in Session, Fits(s), SameLog(s), crashes' = crashes, pc'[s] \notin AtStep
  PROVE  Fits(s)'
<1>1. ~InAttempt(s)' /\ pc'[s] # "assert"
  BY DEF InAttempt, AtWork, AtStep, AtExit
<1> QED BY <1>1, SamePast DEF Fits, AtAttempt, AtVisit

\* The loop stays in its attempt.
LEMMA StayFits ==
  ASSUME TypeOK, NEW s \in Session, Fits(s), SameLog(s), UNCHANGED <<crashes, mVisits>>,
         InAttempt(s), InAttempt(s)', pc[s] \in AtStep, pc'[s] # "gate", pc[s] # "gate",
         loc'[s].step = loc[s].step, loc'[s].att = loc[s].att, loc'[s].visit = loc[s].visit
  PROVE  Fits(s)'
<1>1. AtAttempt(s)'
  BY DEF Fits, AtAttempt, SameLog, Recorded
<1>2. crashes = 0 => AtVisit(s)'
  BY DEF Fits, AtVisit, SameLog, Visited
<1> QED BY <1>1, <1>2, SamePast DEF Fits

\* The loop enters an attempt.
LEMMA EnterFits ==
  ASSUME TypeOK, NEW s \in Session, Fits(s), SameLog(s), crashes' = crashes,
         NEW x \in Step, NEW visit, NEW att, NEW V, NEW A, NEW kid, Enter(s, x, visit, att, V, A, kid),
         kid # None => ~IsGate(x) /\ ~Recorded(s, x, att) /\ att <= attempts[s][x],
         crashes = 0 =>
           /\ \A y \in Step : visits[s][y] <= V[y]
           /\ visit <= V[x] /\ (IsGate(x) \/ ~Visited(s, x, visit))
           /\ kid # None => visit <= visits[s][x]
  PROVE  Fits(s)'
<1> DEFINE l == [NoLocals EXCEPT !.step = x, !.visit = visit, !.att = att, !.tries = 1,
                                 !.kid = kid, !.reattach = (kid # None)]
<1>1. l.step = x /\ l.att = att /\ l.visit = visit /\ l.reattach = (kid # None)
  BY DEF NoLocals
<1>2. loc' = [loc EXCEPT ![s] = l] /\ pc' = [pc EXCEPT ![s] = "assert"] /\ mVisits' = [mVisits EXCEPT ![s] = V]
  BY DEF Enter, Goto
<1> HIDE DEF l
<1>3. loc'[s] = l /\ pc'[s] = "assert" /\ mVisits'[s] = V
  BY <1>2 DEF TypeOK, Thread, Counts
<1>4. InAttempt(s)' <=> kid # None
  BY <1>1, <1>3 DEF InAttempt, AtWork
<1>5. AtAttempt(s)'
  BY <1>1, <1>3, <1>4 DEF AtAttempt, SameLog, Recorded
<1>6. crashes = 0 => AtVisit(s)'
  BY <1>1, <1>3, <1>4 DEF AtVisit, SameLog, Visited
<1> QED BY <1>5, <1>6, SamePast DEF Fits

LEMMA SuspendAway ==
  ASSUME TypeOK, NEW s \in Session, NEW why, NEW kid, Suspend(s, why, kid)
  PROVE  pc'[s] \notin AtStep
BY DEF Suspend, Transition, Goto, TypeOK, Thread, AtStep, AtExit

\* ... of a visit that is more than the log has.
LEMMA NewVisitFits ==
  ASSUME TypeOK, NEW s \in Session, Fits(s), SameLog(s), crashes' = crashes,
         NEW x \in Step, NEW V \in [Step -> Nat], NEW A, NewVisit(s, x, V, A),
         crashes = 0 => \A y \in Step : visits[s][y] <= V[y]
  PROVE  Fits(s)'
<1>1. CASE Suspend(s, "max-visits-exceeded", None)
  BY <1>1, SuspendAway, LeaveFits
<1>2. CASE Enter(s, x, V[x] + 1, A[x] + 1, [V EXCEPT ![x] = @ + 1], A, None)
  <2> DEFINE W == [V EXCEPT ![x] = @ + 1]
  <2>1. V[x] \in Nat /\ W[x] = V[x] + 1 /\ \A y \in Step : y # x => W[y] = V[y]
    OBVIOUS
  <2>2. visits[s] \in [Step -> Nat] /\ exits[s] \subseteq Step \X Nat \X Nat
    BY DEF TypeOK, Counts
  <2> HIDE DEF W
  <2>3. ASSUME crashes = 0 PROVE \A y \in Step : visits[s][y] <= W[y]
    <3> TAKE y \in Step
    <3>1. visits[s][y] \in Nat /\ V[y] \in Nat /\ visits[s][y] <= V[y]
      BY <2>2, <2>3
    <3> QED BY <2>1, <3>1
  <2>4. ASSUME crashes = 0, ~IsGate(x), Visited(s, x, V[x] + 1) PROVE FALSE
    <3>1. PICK e \in exits[s] : e[1] = x /\ e[3] = V[x] + 1
      BY <2>4 DEF Visited
    <3>2. e[3] <= visits[s][x] /\ visits[s][x] <= V[x] /\ visits[s][x] \in Nat
      BY <2>2, <2>4, <3>1 DEF Fits, PastVisits
    <3> QED BY <2>1, <3>1, <3>2
  <2>5. Enter(s, x, V[x] + 1, A[x] + 1, W, A, None)
    BY <1>2 DEF W
  <2>6. V[x] + 1 <= W[x]
    BY <2>1
  <2> QED BY <2>3, <2>4, <2>5, <2>6, EnterFits
<1> QED BY <1>1, <1>2 DEF NewVisit

LEMMA FollowFits ==
  ASSUME TypeOK, NEW s \in Session, Fits(s), SameLog(s), crashes' = crashes,
         NEW x \in Step, NEW e \in Exits[x], NEW V \in [Step -> Nat], NEW A, Follow(s, x, e, V, A),
         crashes = 0 => \A y \in Step : visits[s][y] <= V[y]
  PROVE  Fits(s)'
<1>1. CASE Goto(s, "complete")
  <2>1. pc'[s] \notin AtStep
    BY <1>1 DEF Goto, TypeOK, Thread, AtStep, AtExit
  <2> QED BY <2>1, LeaveFits
<1>2. CASE Target[x][e] # Done /\ NewVisit(s, Target[x][e], V, A)
  <2>1. Target[x][e] \in Step
    BY <1>2, CircuitAssumption
  <2> QED BY <1>2, <2>1, NewVisitFits
<1> QED BY <1>1, <1>2 DEF Follow

LEMMA FailAttemptFits ==
  ASSUME TypeOK, Shape, NEW s \in Session, Fits(s), InAttempt(s), pc[s] \in AtStep, crashes' = crashes,
         NEW retry, NEW why, NEW kid, FailAttempt(s, retry, why, kid)
  PROVE  Fits(s)' /\ SameLog(s)
<1> DEFINE l == loc[s]
<1>1. s \in Thread /\ l \in Locals /\ l.step \in Step /\ cur[s] \in Cursor
  BY DEF Thread, TypeOK, Shape, StepShape
<1>2. SameLog(s)
  <2>1. UNCHANGED <<exits, attempts, visits>>
    BY DEF FailAttempt, LogFailed
  <2>2. CASE cur[s].step = l.step /\ cur[s].att = l.att
    <3>1. ~Recorded(s, cur[s].step, cur[s].att) /\ cur[s].step # None
      BY <1>1, <2>2, ThreadsAssumption DEF Fits, AtAttempt
    <3>2. cur[s].status \in Interruptible
      BY <1>1, <3>1 DEF Fits, PastAttempts, Cursor, Interruptible
    <3>3. cur' = [cur EXCEPT ![s].status = "failed"]
      BY <2>2 DEF FailAttempt, LogFailed
    <3>4. cur'[s] = [cur[s] EXCEPT !.status = "failed"]
      BY <3>3 DEF TypeOK
    <3> QED BY <2>1, <3>2, <3>4 DEF SameLog
  <2>3. CASE ~(cur[s].step = l.step /\ cur[s].att = l.att)
    BY <2>1, <2>3 DEF FailAttempt, LogFailed, SameLog
  <2> QED BY <2>2, <2>3
<1>3. CASE retry /\ l.tries < MaxTries
  <2> DEFINE a == Larger(mAttempts[s][l.step], l.att) + 1
             m == [l EXCEPT !.att = a, !.tries = @ + 1, !.reattach = FALSE, !.kid = None]
  <2>1. /\ loc' = [loc EXCEPT ![s].att = a, ![s].tries = @ + 1, ![s].reattach = FALSE, ![s].kid = None]
        /\ pc' = [pc EXCEPT ![s] = "assert"] /\ mVisits' = mVisits
    BY <1>3 DEF FailAttempt, Goto
  <2>2. loc'[s] = m
    BY <1>1, <2>1 DEF TypeOK
  <2>3. m.step = l.step /\ m.visit = l.visit /\ m.reattach = FALSE
    BY <1>1 DEF Locals
  <2> HIDE DEF m
  <2>4. pc'[s] = "assert" /\ ~InAttempt(s)'
    BY <1>1, <2>1, <2>2, <2>3 DEF TypeOK, InAttempt, AtWork
  <2>5. crashes = 0 => AtVisit(s)'
    BY <1>2, <2>1, <2>2, <2>3, <2>4 DEF Fits, AtVisit, SameLog, Visited
  <2> QED BY <1>2, <2>4, <2>5, SamePast DEF Fits, AtAttempt
<1>4. CASE ~(retry /\ l.tries < MaxTries)
  <2>1. Suspend(s, IF retry THEN "retries-exhausted" ELSE why, IF retry THEN None ELSE kid)
    BY <1>4 DEF FailAttempt
  <2> QED BY <1>2, <2>1, SuspendAway, LeaveFits
<1> QED BY <1>2, <1>3, <1>4

\* step-started, of an attempt and perhaps a visit that the log does not have yet.
LEMMA StartFits ==
  ASSUME TypeOK, Shape, CountInv, NEW s \in Session, Fits(s), Start(s)
  PROVE  Fits(s)'
<1> DEFINE l == loc[s]
           x == l.step
<1>0. /\ s \in Thread /\ pc[s] = "assert" /\ pc[s] \in AtStep /\ x \in Step
      /\ l.att \in Nat /\ l.visit \in Nat /\ UNCHANGED <<loc, mVisits, crashes>>
  BY DEF Start, Thread, AtStep, Shape, StepShape, TypeOK, Locals, ctx, boot
<1>1. CASE l.reattach
  <2>1. pc'[s] = "wait" /\ UNCHANGED <<cur, exits, attempts, visits>>
    BY <1>0, <1>1 DEF Start, Goto, TypeOK, log
  <2>2. SameLog(s) /\ InAttempt(s) /\ InAttempt(s)'
    BY <1>0, <1>1, <2>1 DEF SameLog, InAttempt, AtWork
  <2> QED BY <1>0, <2>1, <2>2, StayFits
<1>2. CASE ~l.reattach
  <2> DEFINE c == [NoCursor EXCEPT !.step = x, !.att = l.att, !.visit = l.visit, !.status = "running"]
  <2>1. /\ pc'[s] \in {"spawn", "gate", "work"} /\ pc'[s] = "gate" <=> IsGate(x)
        /\ visits' = [visits EXCEPT ![s][x] = Larger(@, l.visit)]
        /\ attempts' = [attempts EXCEPT ![s][x] = Larger(@, l.att)]
        /\ cur' = [cur EXCEPT ![s] = c] /\ exits' = exits
    BY <1>0, <1>2 DEF Start, LogStarted, Goto, TypeOK, IsGate
  <2>2. /\ c.step = x /\ c.att = l.att /\ c.visit = l.visit /\ c.status = "running" /\ c.kid = None
    BY DEF NoCursor
  <2>3. cur'[s] = c
    BY <2>1 DEF TypeOK
  <2> HIDE DEF c
  <2>4. /\ visits[s] \in [Step -> Nat] /\ attempts[s] \in [Step -> Nat] /\ mVisits[s] \in [Step -> Nat]
        /\ exits[s] \subseteq Step \X Nat \X Nat
    BY DEF TypeOK, Counts
  <2>5. /\ visits'[s][x] = Larger(visits[s][x], l.visit) /\ attempts'[s][x] = Larger(attempts[s][x], l.att)
        /\ \A y \in Step : y # x => visits'[s][y] = visits[s][y] /\ attempts'[s][y] = attempts[s][y]
    BY <1>0, <2>1 DEF TypeOK, Counts
  <2>6. /\ l.visit <= visits'[s][x] /\ l.att <= attempts'[s][x]
        /\ \A y \in Step : visits[s][y] <= visits'[s][y] /\ attempts[s][y] <= attempts'[s][y]
        /\ \A y \in Step : visits'[s][y] \in Nat /\ attempts'[s][y] \in Nat
    <3>1. visits[s][x] \in Nat /\ attempts[s][x] \in Nat
      BY <1>0, <2>4
    <3>2. /\ l.visit <= visits'[s][x] /\ l.att <= attempts'[s][x]
          /\ visits[s][x] <= visits'[s][x] /\ attempts[s][x] <= attempts'[s][x]
          /\ visits'[s][x] \in Nat /\ attempts'[s][x] \in Nat
      BY <1>0, <2>5, <3>1, LargerType
    <3> QED BY <2>4, <2>5, <3>2
  <2>7. l.att > attempts[s][x]
    BY <1>0, <1>2 DEF CountInv, CountsAt
  <2>8. \A e \in exits[s] : e[1] \in Step /\ e[2] \in Nat /\ e[3] \in Nat /\ e[2] <= attempts[s][e[1]]
    BY <2>4 DEF Fits, PastAttempts
  <2>9. ~Recorded(s, x, l.att)'
    <3>1. ASSUME NEW e \in exits[s], e[1] = x, e[2] = l.att PROVE FALSE
      <4>1. attempts[s][x] \in Nat /\ e[2] <= attempts[s][x]
        BY <1>0, <2>4, <2>8, <3>1
      <4> QED BY <1>0, <2>7, <3>1, <4>1
    <3> QED BY <1>0, <2>1, <3>1 DEF Recorded
  <2>10. PastAttempts(s)'
    <3>1. ASSUME NEW e \in exits[s] PROVE e[2] <= attempts'[s][e[1]]
      <4>1. e[1] \in Step /\ e[2] \in Nat /\ e[2] <= attempts[s][e[1]] /\ attempts[s][e[1]] \in Nat
        BY <2>4, <2>8
      <4> QED BY <2>6, <4>1
    <3> QED BY <2>1, <2>2, <2>3, <3>1 DEF PastAttempts, Interruptible
  <2>11. AtAttempt(s)'
    BY <1>0, <2>1, <2>6, <2>9 DEF AtAttempt
  <2>12. ASSUME crashes = 0 PROVE PastVisits(s)' /\ AtVisit(s)'
    <3>1. IsGate(x) \/ ~Visited(s, x, l.visit)'
      BY <1>0, <2>1, <2>12 DEF Fits, AtVisit, Visited
    <3>2. ASSUME NEW e \in exits[s], ~IsGate(e[1]) PROVE e[3] <= visits'[s][e[1]]
      <4>1. e[1] \in Step /\ e[3] \in Nat /\ e[3] <= visits[s][e[1]] /\ visits[s][e[1]] \in Nat
        BY <2>4, <2>8, <2>12, <3>2 DEF Fits, PastVisits
      <4> QED BY <2>6, <4>1
    <3>3. PastVisits(s)'
      BY <1>0, <2>1, <2>2, <2>3, <2>6, <3>1, <3>2 DEF PastVisits
    <3>4. \A y \in Step : visits[s][y] <= mVisits[s][y]
      BY <1>0, <2>12 DEF Fits, AtVisit
    <3>5. l.visit <= mVisits[s][x]
      BY <1>0, <2>12 DEF Fits, AtVisit
    <3>6. \A y \in Step : visits'[s][y] <= mVisits[s][y]
      BY <1>0, <2>5, <3>4, <3>5 DEF Larger
    <3> QED BY <1>0, <2>6, <3>1, <3>3, <3>5, <3>6 DEF AtVisit
  <2> QED BY <1>0, <2>10, <2>11, <2>12 DEF Fits
<1> QED BY <1>1, <1>2

LEMMA RunFits ==
  ASSUME TypeOK, Shape, CountInv, NEW s \in Session, Fits(s), Run(s) \/ Admit(s)
  PROVE  Fits(s)'
<1>0. s \in Thread /\ loc[s] \in Locals /\ cur[s] \in Cursor
  BY DEF Thread, TypeOK
<1>c. crashes' = crashes
  BY DEF Run, Admit, Position, Start, StopCancelled, OverBudget, WorkExit, WorkFail, Spawn,
     LinkRow, LinkLog, WaitExit, WaitCancelled, WaitPark, ParkedAgain, GateOpen, GateEmpty, Complete, End,
     boot
<1>s. UNCHANGED log => SameLog(s)
  BY DEF log, SameLog
\* What ends an attempt without a word in the log.
<1>1. ASSUME UNCHANGED log, NEW label \in {"idle", "end", "check", "settle"}, pc' = [pc EXCEPT ![s] = label]
      PROVE  Fits(s)'
  <2>1. pc'[s] \notin AtStep
    BY <1>0, <1>1 DEF TypeOK, AtStep, AtExit
  <2> QED BY <1>1, <1>c, <1>s, <2>1, LeaveFits
<1>2. CASE \/ Admit(s) \/ StopCancelled(s) \/ OverBudget(s) \/ WaitPark(s) \/ ParkedAgain(s)
           \/ GateOpen(s) \/ Complete(s) \/ End(s)
  BY <1>1, <1>2 DEF Admit, StopCancelled, OverBudget, WaitPark, ParkedAgain, GateOpen, Complete, End,
     Suspend, Transition, Goto
<1>3. CASE Position(s)
  <2> DEFINE c == cur[s]
  <2>1. /\ SameLog(s) /\ circ[s] \in Circuit
        /\ visits[s] \in [Step -> Nat] /\ \A y \in Step : visits[s][y] <= visits[s][y]
    BY <1>3, <1>s DEF Position, TypeOK, Counts
  <2>2. CASE Suspend(s, "config-error", None)
    BY <1>c, <2>1, <2>2, SuspendAway, LeaveFits
  <2>3. CASE NewVisit(s, Entry[circ[s]], visits[s], attempts[s])
    <3>1. Entry[circ[s]] \in Step
      BY <2>1, CircuitAssumption
    <3> QED BY <1>c, <2>1, <2>3, <3>1, NewVisitFits
  <2>4. CASE c.status = "exited" /\ Follow(s, c.step, c.exit, visits[s], attempts[s])
    <3>1. c.step \in Step /\ c.exit \in Exits[c.step]
      BY <2>4 DEF Shape, CursorShape
    <3> QED BY <1>c, <2>1, <2>4, <3>1, FollowFits
  <2>5. ASSUME c.status \in Interruptible, crashes = 0
        PROVE  c.visit <= visits[s][c.step] /\ (IsGate(c.step) \/ ~Visited(s, c.step, c.visit))
    BY <2>5 DEF Fits, PastVisits
  <2>6. CASE /\ c.status \in Interruptible /\ Reattaches(s)
             /\ Enter(s, c.step, c.visit, c.att, visits[s], attempts[s], c.kid)
    <3>1. c.step \in Step /\ c.kid # None /\ ~IsGate(c.step)
      BY <2>6 DEF Shape, CursorShape, Reattaches, IsGate, Interruptible
    <3>2. ~Recorded(s, c.step, c.att) /\ c.att <= attempts[s][c.step]
      BY <2>6, <3>1 DEF Fits, PastAttempts
    <3> QED BY <1>c, <2>1, <2>5, <2>6, <3>1, <3>2, EnterFits
  <2>7. CASE /\ c.status \in Interruptible
             /\ Enter(s, c.step, c.visit, attempts[s][c.step] + 1, visits[s], attempts[s], None)
    <3>1. c.step \in Step
      BY <2>7 DEF Shape, CursorShape, Interruptible
    <3> QED BY <1>c, <2>1, <2>5, <2>7, <3>1, EnterFits
  <2> QED BY <1>3, <2>2, <2>3, <2>4, <2>6, <2>7 DEF Position, Interruptible
<1>4. CASE Start(s)
  BY <1>4, StartFits
\* What goes on within an attempt.
<1>5. ASSUME SameLog(s), mVisits' = mVisits, pc[s] \in {"work", "spawn", "link-row", "link-log", "wait"},
             NEW label \in {"exit-log", "link-row", "link-log", "wait"}, pc' = [pc EXCEPT ![s] = label],
             loc'[s].step = loc[s].step, loc'[s].att = loc[s].att, loc'[s].visit = loc[s].visit
      PROVE  Fits(s)'
  <2>1. pc'[s] = label /\ InAttempt(s) /\ InAttempt(s)' /\ pc[s] \in AtStep
    BY <1>0, <1>5 DEF TypeOK, InAttempt, AtWork, AtStep
  <2> QED BY <1>5, <1>c, <2>1, StayFits
<1>6. ASSUME pc[s] \in {"work", "wait"}, UNCHANGED <<log, ctx>>, Goto(s, "exit-log"),
             \E e \in Exits[loc[s].step] : loc' = [loc EXCEPT ![s].exit = e]
      PROVE  Fits(s)'
  <2>1. /\ loc'[s].step = loc[s].step /\ loc'[s].att = loc[s].att /\ loc'[s].visit = loc[s].visit
    BY <1>0, <1>6 DEF TypeOK, Locals
  <2> QED BY <1>5, <1>6, <1>s, <2>1 DEF Goto, ctx
<1>7. CASE WorkExit(s)
  BY <1>6, <1>7 DEF WorkExit
<1>8. CASE Spawn(s)
  <2>1. /\ loc'[s].step = loc[s].step /\ loc'[s].att = loc[s].att /\ loc'[s].visit = loc[s].visit
    BY <1>0, <1>8 DEF Spawn, TypeOK, Locals
  <2> QED BY <1>5, <1>8, <1>s, <2>1 DEF Spawn, Goto, ctx
<1>9. CASE LinkRow(s)
  BY <1>5, <1>9, <1>s DEF LinkRow, Goto, ctx
<1>10. ASSUME pc[s] \in AtWork, NEW retry, NEW why, NEW kid, FailAttempt(s, retry, why, kid)
       PROVE  Fits(s)'
  <2>1. InAttempt(s) /\ pc[s] \in AtStep
    BY <1>10 DEF InAttempt, AtWork, AtStep, AtExit
  <2> QED BY <1>10, <1>c, <2>1, FailAttemptFits
<1>11. CASE WorkFail(s) \/ WaitCancelled(s) \/ GateEmpty(s)
  BY <1>10, <1>11 DEF WorkFail, WaitCancelled, GateEmpty, AtWork
<1>12. CASE WaitExit(s)
  BY <1>6, <1>10, <1>12 DEF WaitExit, AtWork
<1>13. CASE LinkLog(s)
  <2>1. UNCHANGED <<exits, attempts, visits, loc, mVisits, crashes>> /\ pc[s] = "link-log" /\ pc'[s] = "wait"
    BY <1>0, <1>13 DEF LinkLog, Goto, TypeOK, ctx, boot
  <2>2. CASE cur' = cur
    <3>1. SameLog(s)
      BY <2>1, <2>2 DEF SameLog
    <3> QED BY <1>5, <1>13, <2>1, <3>1 DEF LinkLog, Goto
  <2>3. CASE /\ cur' = [cur EXCEPT ![s].kid = loc[s].kid]
             /\ cur[s].step = loc[s].step /\ cur[s].att = loc[s].att
    <3>1. InAttempt(s) /\ InAttempt(s)' /\ pc[s] \in AtStep
      BY <2>1 DEF InAttempt, AtWork, AtStep
    <3>2. /\ cur'[s].step = cur[s].step /\ cur'[s].att = cur[s].att /\ cur'[s].visit = cur[s].visit
          /\ cur'[s].status = cur[s].status
      BY <1>0, <2>3 DEF TypeOK, Cursor
    <3>3. ~Recorded(s, cur[s].step, cur[s].att) /\ cur[s].att <= attempts[s][cur[s].step]
      BY <2>3, <3>1 DEF Fits, AtAttempt
    <3>4. loc[s].step \in Step /\ loc[s].step # None
      BY <3>1, <1>0, ThreadsAssumption DEF Shape, StepShape
    <3>5. PastAttempts(s)'
      BY <2>1, <2>3, <3>2, <3>3, <3>4 DEF Fits, PastAttempts, Recorded
    <3>6. AtAttempt(s)'
      BY <2>1, <3>1 DEF Fits, AtAttempt, Recorded
    <3>7. crashes = 0 => PastVisits(s)' /\ AtVisit(s)'
      BY <2>1, <3>1, <3>2 DEF Fits, PastVisits, AtVisit, Visited
    <3> QED BY <2>1, <3>5, <3>6, <3>7 DEF Fits
  <2> QED BY <1>13, <2>2, <2>3 DEF LinkLog
<1> QED BY <1>2, <1>3, <1>4, <1>7, <1>8, <1>9, <1>11, <1>12, <1>13 DEF Run

LEMMA RunExits ==
  ASSUME TypeOK, Shape, CountInv, GateInv, ExitInv, NEW s \in Session, Run(s) \/ Admit(s)
  PROVE  ExitInv'
<1>0. s \in Thread /\ Fits(s)
  BY DEF Thread, ExitInv
<1>1. UNCHANGED <<stack, lock, crashes>>
  BY DEF Run, Admit, Position, Start, StopCancelled, OverBudget, WorkExit, WorkFail, Spawn,
     LinkRow, LinkLog, WaitExit, WaitCancelled, WaitPark, ParkedAgain, GateOpen, GateEmpty, Complete, End,
     boot
<1>2. /\ exits' = exits
      /\ \A r \in Session : r # s => attempts'[r] = attempts[r] /\ visits'[r] = visits[r] /\ cur'[r] = cur[r]
  <2>1. CASE UNCHANGED log
    BY <2>1 DEF log
  <2>2. ASSUME NEW x, NEW a, LogFailed(s, x, a)
        PROVE  /\ exits' = exits /\ attempts' = attempts /\ visits' = visits
               /\ \A r \in Session : r # s => cur'[r] = cur[r]
    BY <2>2 DEF LogFailed, TypeOK
  <2>3. ASSUME NEW retry, NEW why, NEW kid, FailAttempt(s, retry, why, kid)
        PROVE  \E x, a : LogFailed(s, x, a)
    BY <2>3 DEF FailAttempt
  <2>4. CASE Start(s)
    BY <2>1, <2>4 DEF Start, LogStarted, TypeOK, Counts
  <2>5. CASE LinkLog(s)
    BY <2>5 DEF LinkLog, TypeOK
  <2>6. CASE ~Start(s) /\ ~LinkLog(s)
    <3>1. UNCHANGED log \/ \E x, a : LogFailed(s, x, a)
      BY <2>3, <2>6 DEF Run, Admit, Position, StopCancelled, OverBudget, WorkExit, WorkFail, Spawn,
         LinkRow, WaitExit, WaitCancelled, WaitPark, ParkedAgain, GateOpen, GateEmpty, Complete, End, log
    <3> QED BY <2>1, <2>2, <3>1
  <2> QED BY <2>4, <2>5, <2>6
<1>3. \A r \in Session : r # s => mVisits'[r] = mVisits[r]
  <2>1. \A x, visit, att, V, A, kid : Enter(s, x, visit, att, V, A, kid) =>
           \A r \in Session : r # s => mVisits'[r] = mVisits[r]
    BY DEF Enter, TypeOK, Counts
  <2>2. \A x, V, A : NewVisit(s, x, V, A) => \A r \in Session : r # s => mVisits'[r] = mVisits[r]
    BY <2>1 DEF NewVisit, ctx
  <2>3. \A x, e, V, A : Follow(s, x, e, V, A) => \A r \in Session : r # s => mVisits'[r] = mVisits[r]
    BY <2>2 DEF Follow, ctx
  <2>4. CASE Position(s)
    BY <2>1, <2>2, <2>3, <2>4 DEF Position, ctx
  <2>5. CASE End(s)
    BY <2>5 DEF End, TypeOK, Counts
  <2>6. CASE ~Position(s) /\ ~End(s)
    <3>1. mVisits' = mVisits
      BY <2>6 DEF Run, Admit, Start, StopCancelled, OverBudget, WorkExit, WorkFail, Spawn, LinkRow, LinkLog,
         WaitExit, WaitCancelled, WaitPark, ParkedAgain, GateOpen, GateEmpty, Complete, FailAttempt, ctx
    <3> QED BY <3>1
  <2> QED BY <2>4, <2>5, <2>6
<1>4. Alone(s)
  BY RunAlone
<1>5. \A r \in open' : r \in open \/ (r = <<s, loc[s].step, loc[s].att>> /\ pc[s] = "gate")
  BY DEF Run, Admit, Position, Start, StopCancelled, OverBudget, WorkExit, WorkFail, Spawn,
     LinkRow, LinkLog, WaitExit, WaitCancelled, WaitPark, ParkedAgain, GateOpen, GateEmpty, Complete, End
<1>6. OwnStep(s)
  BY <1>1, <1>2, <1>3, <1>4 DEF OwnStep, Alone, Mine, Thread
<1>7. Fits(s)'
  BY <1>0, RunFits
<1> QED BY <1>2, <1>5, <1>6, <1>7, OwnFits

\* A loop's checkpoint event and its row.
LEMMA LoopRecordingExits ==
  ASSUME TypeOK, Shape, GateInv, ExitInv, NEW s \in Session, Recording(s)
  PROVE  ExitInv'
<1> DEFINE l == loc[s]
<1>0. /\ s \in Thread /\ Fits(s) /\ pc[s] \in AtStep /\ About(s) = s /\ cur[s] \in Cursor
      /\ l.step \in Step /\ l.exit \in Exits[l.step] /\ UNCHANGED <<open, stack, lock, crashes, attempts, visits>>
  BY DEF Thread, ExitInv, Recording, ExitLog, ExitRow, LogExited, AtStep, AtExit, About, Shape, StepShape,
         TypeOK, log, boot
<1>1. CASE ExitLog(s)
  <2> DEFINE c == [NoCursor EXCEPT !.step = l.step, !.att = l.att, !.visit = l.visit,
                                   !.status = "exited", !.exit = l.exit]
             e == <<l.step, l.att, l.visit>>
  <2>1. /\ pc[s] = "exit-log" /\ pc' = [pc EXCEPT ![s] = "exit-row"] /\ UNCHANGED <<loc, mVisits>>
        /\ cur' = [cur EXCEPT ![s] = c] /\ exits' = [exits EXCEPT ![s] = @ \cup {e}]
    BY <1>0, <1>1 DEF ExitLog, LogExited, Goto, ctx
  <2>2. /\ c.step = l.step /\ c.att = l.att /\ c.visit = l.visit /\ c.status = "exited" /\ c.kid = None
        /\ e[1] = l.step /\ e[2] = l.att /\ e[3] = l.visit
    BY DEF NoCursor
  <2>3. pc'[s] = "exit-row" /\ cur'[s] = c /\ exits'[s] = exits[s] \cup {e}
    BY <1>0, <2>1 DEF TypeOK
  <2> HIDE DEF c, e
  <2>4. OwnStep(s)
    BY <1>0, <2>1, ThreadsAssumption DEF OwnStep, TypeOK, Thread
  <2>5. InAttempt(s) /\ ~InAttempt(s)'
    BY <2>1, <2>3 DEF InAttempt, AtWork
  <2>6. ~IsGate(e[1]) /\ e[2] <= attempts[s][e[1]] /\ (crashes = 0 => e[3] <= visits[s][e[1]])
    BY <1>0, <2>1, <2>2, <2>5 DEF Fits, AtAttempt, AtVisit
  <2>7. PastAttempts(s)'
    BY <1>0, <2>2, <2>3, <2>6 DEF Fits, PastAttempts, Recorded, Interruptible
  <2>8. crashes = 0 => PastVisits(s)' /\ AtVisit(s)'
    BY <1>0, <2>1, <2>2, <2>3, <2>5, <2>6 DEF Fits, PastVisits, AtVisit, Interruptible
  <2>9. Fits(s)'
    BY <1>0, <2>5, <2>7, <2>8 DEF Fits, AtAttempt
  <2> QED BY <1>0, <2>3, <2>4, <2>6, <2>9, OwnFits
<1>2. CASE ExitRow(s)
  <2>1. Follow(s, l.step, l.exit, mVisits[s], mAttempts[s]) /\ UNCHANGED log
    BY <1>0, <1>2 DEF ExitRow
  <2>2. SameLog(s) /\ exits' = exits
    BY <2>1 DEF SameLog, log
  <2>3. mVisits[s] \in [Step -> Nat] /\ (crashes = 0 => \A y \in Step : visits[s][y] <= mVisits[s][y])
    BY <1>0 DEF TypeOK, Counts, Fits, AtVisit
  <2>4. Fits(s)'
    BY <1>0, <2>1, <2>2, <2>3, FollowFits
  <2>5. Alone(s)
    BY RecordingPlain DEF Plainly
  <2>6. \A r \in Session : r # s => mVisits'[r] = mVisits[r]
    <3>1. \A x, visit, att, V, A, kid : Enter(s, x, visit, att, V, A, kid) =>
             \A r \in Session : r # s => mVisits'[r] = mVisits[r]
      BY DEF Enter, TypeOK, Counts
    <3> QED BY <2>1, <3>1 DEF Follow, NewVisit, ctx
  <2>7. OwnStep(s)
    BY <1>0, <2>1, <2>5, <2>6 DEF OwnStep, Alone, Mine, Thread, log
  <2> QED BY <1>0, <2>2, <2>4, <2>7, OwnFits
<1> QED BY <1>1, <1>2 DEF Recording

\* A step of somebody who is no loop and records nothing.
LEMMA AwayExits ==
  ASSUME TypeOK, ExitInv, UNCHANGED <<exits, attempts, visits, cur, mVisits>>, crashes' = 0 => crashes = 0,
         open' \subseteq open, \A s \in Session : pc'[s] = pc[s] /\ loc'[s] = loc[s],
         \A o \in Operator : ClosingFits(o)' /\ OwnLock(o)'
  PROVE  ExitInv'
<1>1. ASSUME NEW r \in Session PROVE Fits(r)'
  BY <1>1, FitsStays DEF ExitInv
<1>2. OpenFits'
  BY DEF ExitInv, OpenFits, Recorded
<1> QED BY <1>1, <1>2 DEF ExitInv

LEMMA SharedExits ==
  ASSUME TypeOK, GateInv, ExitInv, NEW t \in Thread, Shared(t)
  PROVE  ExitInv'
<1>1. UNCHANGED <<exits, attempts, visits, cur, mVisits, crashes, open, lock, stack, loc>>
  BY DEF Shared, TxCheck, TxWrite, Settle, log, ctx, boot
<1>2. tx[t] \in Call /\ tx[t].then \in TxLabel
  BY DEF TypeOK, Call, TxLabel
<1>3. PICK label \in TxLabel : pc' = [pc EXCEPT ![t] = label]
  BY <1>2 DEF Shared, TxCheck, TxWrite, Settle, Goto, OnSignal, TxLabel, Returns
<1>4. label \notin AtStep
  BY TxLabels
<1>5. ASSUME NEW r \in Session PROVE Fits(r)'
  <2>1. CASE r = t
    <3>1. SameLog(t) /\ pc'[t] \notin AtStep
      BY <1>1, <1>3, <1>4 DEF SameLog, TypeOK
    <3> QED BY <1>1, <1>5, <2>1, <3>1, LeaveFits DEF ExitInv
  <2>2. CASE r # t
    BY <1>1, <1>3, <2>2, FitsStays DEF ExitInv, TypeOK
  <2> QED BY <2>1, <2>2
<1>6. ASSUME NEW o \in Operator PROVE ClosingFits(o)' /\ OwnLock(o)'
  <2>1. CASE o = t
    <3>1. pc'[o] \notin {"verdict", "exit-log"}
      BY <1>3, <1>4, <2>1 DEF TypeOK, AtStep, AtExit
    <3> QED BY <3>1 DEF ClosingFits, OwnLock
  <2>2. CASE o # t
    <3>1. pc'[o] = pc[o]
      BY <1>3, <2>2 DEF TypeOK
    <3> QED BY <1>1, <3>1 DEF ExitInv, ClosingFits, OwnLock, Recorded
  <2> QED BY <2>1, <2>2
<1>7. OpenFits'
  BY <1>1 DEF ExitInv, OpenFits, Recorded
<1> QED BY <1>5, <1>6, <1>7 DEF ExitInv

\* A step of an operator call that records nothing.
LEMMA CallExits ==
  ASSUME TypeOK, ExitInv, NEW o \in Operator, Alone(o),
         UNCHANGED <<exits, attempts, visits, cur, mVisits, crashes>>, open' \subseteq open,
         \A u \in Operator : u # o => stack'[u] = stack[u],
         \A s \in Session : lock'[s] = lock[s] \/ (lock[s] \in {None, o} /\ lock'[s] \in {None, o}),
         \A u \in Operator : u # o /\ pc[u] = "exit-log" => Head(stack[u]) \in Session,
         ClosingFits(o)' /\ OwnLock(o)'
  PROVE  ExitInv'
<1>1. \A u \in Session \cup Operator : u # o => pc'[u] = pc[u] /\ loc'[u] = loc[u]
  BY DEF Alone, Mine, Thread
<1>2. \A s \in Session : s # o
  BY ThreadsAssumption
<1>3. ASSUME NEW u \in Operator, u # o PROVE ClosingFits(u)' /\ OwnLock(u)'
  <2>1. ClosingFits(u) /\ OwnLock(u) /\ u # None /\ pc'[u] = pc[u] /\ loc'[u] = loc[u] /\ stack'[u] = stack[u]
    BY <1>1, <1>3, ThreadsAssumption DEF ExitInv
  <2>2. ASSUME NEW s \in Session PROVE lock[s] = u <=> lock'[s] = u
    BY <1>3, <2>1
  <2>3. ClosingFits(u)'
    BY <2>1, <2>2 DEF ClosingFits, Recorded
  <2>4. OwnLock(u)'
    BY <1>3, <2>1, <2>2 DEF OwnLock
  <2> QED BY <2>3, <2>4
<1>4. \A s \in Session : pc'[s] = pc[s] /\ loc'[s] = loc[s]
  BY <1>1, <1>2
<1>5. \A u \in Operator : ClosingFits(u)' /\ OwnLock(u)'
  BY <1>3
<1> QED BY <1>4, <1>5, AwayExits

LEMMA AboutTypes ==
  ASSUME TypeOK, Shape, NEW o \in Operator, pc[o] \in AtExit
  PROVE  Head(stack[o]) \in Session /\ About(o) = Head(stack[o])
BY StackTypes, ThreadsAssumption DEF TypeOK, Shape, StackShape, AtSession, About

LEMMA ServeExits ==
  ASSUME NoRoutes, TypeOK, TypeOK', Shape, GateInv, ExitInv, NEW o \in Operator, Request(o) \/ Serve(o)
  PROVE  ExitInv'
<1>0. o \in Thread /\ o # None /\ o \notin Session
  BY ThreadsAssumption DEF Thread
<1>1. Alone(o)
  BY ServePlain DEF Plainly
<1>2. /\ UNCHANGED <<exits, attempts, visits, cur, mVisits, crashes>> /\ open' \subseteq open
      /\ \A u \in Operator : u # o => stack'[u] = stack[u]
      /\ \A s \in Session : lock'[s] = lock[s] \/ (lock[s] \in {None, o} /\ lock'[s] \in {None, o})
  <2>1. CASE Request(o)
    <3>1. ASSUME NEW s \in Session, Verdict(o, s) PROVE lock[s] = None /\ lock' = [lock EXCEPT ![s] = o]
      BY <3>1 DEF Verdict, GateFree
    <3>2. ASSUME NEW s \in Session, Cancel(o, s) \/ Retry(o, s) \/ Resume(o, s) \/ ManualRoute(o, s)
          PROVE  lock' = lock
      BY <3>2 DEF Cancel, Retry, Resume, ManualRoute
    <3>3. \A s \in Session : lock'[s] = lock[s] \/ (lock[s] \in {None, o} /\ lock'[s] \in {None, o})
      BY <2>1, <3>1, <3>2 DEF Request, TypeOK
    <3>4. \E s \in Session : stack' = [stack EXCEPT ![o] = <<s>>]
      BY <2>1 DEF Request, Accept, Cancel, Retry, Resume, ManualRoute, Verdict
    <3>5. \A u \in Operator : u # o => stack'[u] = stack[u]
      BY <3>4 DEF TypeOK
    <3>6. UNCHANGED <<log, ctx, boot, open>>
      BY <2>1 DEF Request, Cancel, Retry, Resume, ManualRoute, Verdict
    <3> QED BY <3>3, <3>5, <3>6 DEF log, ctx, boot
  <2>2. CASE Serve(o)
    <3>1. CASE Return(o)
      BY <3>1 DEF Return, boot, log, ctx, TypeOK
    <3>2. CASE ~Return(o)
      BY <2>2, <3>2 DEF Serve, CancelWrite, CancelChildren, CancelNext, RetryRead, RetryChild, RetryQueue,
         VerdictClose, boot, log, ctx, TypeOK
    <3> QED BY <3>1, <3>2
  <2> QED BY <2>1, <2>2
<1>3. \A u \in Operator : u # o /\ pc[u] = "exit-log" => Head(stack[u]) \in Session
  BY AboutTypes DEF AtExit
<1>5. ASSUME NEW s \in Session, Verdict(o, s) PROVE ClosingFits(o)' /\ OwnLock(o)'
  <2> DEFINE d == det[s]
  <2>1. /\ pc'[o] = "verdict" /\ lock[s] = None /\ lock' = [lock EXCEPT ![s] = o]
        /\ pc[o] = "idle" /\ <<s, d.step, d.att>> \in open /\ UNCHANGED exits
    BY <1>0, <1>5 DEF Verdict, Accept, GateFree, Goto, TypeOK, log
  <2>2. \A r \in Session : r # s => lock'[r] # o
    BY <1>0, <2>1 DEF GateInv, Gates, LockFits, Holds, Holding, TypeOK
  <2>3. PICK e : loc' = [loc EXCEPT ![o] = [NoLocals EXCEPT !.step = d.step, !.att = d.att,
                                                            !.visit = d.visit, !.exit = e]]
    BY <1>5 DEF Verdict
  <2>4. loc'[o].step = d.step /\ loc'[o].att = d.att
    <3> DEFINE l == [NoLocals EXCEPT !.step = d.step, !.att = d.att, !.visit = d.visit, !.exit = e]
    <3>1. l.step = d.step /\ l.att = d.att
      BY DEF NoLocals
    <3> HIDE DEF l
    <3>2. loc'[o] = l
      BY <1>0, <2>3 DEF TypeOK, l
    <3> QED BY <3>1, <3>2
  <2>5. IsGate(d.step) /\ ~Recorded(s, d.step, d.att)
    BY <2>1 DEF ExitInv, OpenFits
  <2> QED BY <2>1, <2>2, <2>4, <2>5 DEF ClosingFits, OwnLock, Recorded
<1>6. ASSUME VerdictClose(o) PROVE ClosingFits(o)' /\ OwnLock(o)'
  <2>1. /\ pc[o] = "verdict" /\ pc'[o] = "exit-log" /\ UNCHANGED <<loc, stack, lock, exits>>
        /\ open' = open \ {<<About(o), loc[o].step, loc[o].att>>}
    BY <1>0, <1>6 DEF VerdictClose, Goto, TypeOK, log
  <2>2. About(o) = Head(stack[o])
    BY <2>1, AboutTypes DEF AtExit
  <2>3. \A s \in Session : lock[s] = o => Head(stack[o]) = s
    BY <1>0 DEF GateInv, Gates, LockFits, Holds
  <2>4. lock[Head(stack[o])] = o
    BY <2>1 DEF GateInv, Verdicts, VerdictFits
  <2> QED BY <2>1, <2>2, <2>3, <2>4 DEF ExitInv, ClosingFits, OwnLock, Recorded
<1>7. ASSUME ~VerdictClose(o), \A s \in Session : ~Verdict(o, s) PROVE ClosingFits(o)' /\ OwnLock(o)'
  <2>1. pc'[o] \notin {"verdict", "exit-log"}
    <3>1. \A label : Goto(o, label) => pc'[o] = label
      BY <1>0 DEF Goto, TypeOK
    <3>2. \A s, to, d, then : Transition(o, s, to, d, then) => pc'[o] = "check"
      BY <3>1 DEF Transition
    <3>3. CASE Request(o)
      BY <1>7, <3>1, <3>2, <3>3 DEF Request, Accept, Cancel, Retry, Resume, ManualRoute, NoRoutes
    <3>4. CASE Serve(o)
      BY <1>7, <3>1, <3>2, <3>4 DEF Serve, CancelWrite, CancelChildren, CancelNext,
         RetryRead, RetryChild, RetryQueue, Return
    <3> QED BY <3>3, <3>4
  <2> QED BY <2>1 DEF ClosingFits, OwnLock
<1>8. ClosingFits(o)' /\ OwnLock(o)'
  BY <1>5, <1>6, <1>7
<1> QED BY <1>1, <1>2, <1>3, <1>8, CallExits

\* A verdict's checkpoint event: of a gate, in the attempt whose request it closed.
LEMMA VerdictRecordingExits ==
  ASSUME TypeOK, Shape, GateInv, ExitInv, NEW o \in Operator, ExitLog(o)
  PROVE  ExitInv'
<1> DEFINE l == loc[o]
           e == <<l.step, l.att, l.visit>>
<1>0. o \in Thread /\ o # None /\ o \notin Session /\ pc[o] = "exit-log"
  BY ThreadsAssumption DEF Thread, ExitLog
<1>1. PICK s \in Session : s = Head(stack[o]) /\ s = About(o) /\ lock[s] = o
  BY <1>0, AboutTypes DEF ExitInv, OwnLock, AtExit
<1> DEFINE c == [NoCursor EXCEPT !.step = l.step, !.att = l.att, !.visit = l.visit,
                                 !.status = "exited", !.exit = l.exit]
<1>2. /\ pc' = [pc EXCEPT ![o] = "exit-row"] /\ cur' = [cur EXCEPT ![s] = c]
      /\ exits' = [exits EXCEPT ![s] = @ \cup {e}]
      /\ UNCHANGED <<loc, mVisits, crashes, attempts, visits, open, stack, lock>>
  BY <1>1 DEF ExitLog, LogExited, Goto, ctx, boot
<1>3. /\ c.step = l.step /\ c.att = l.att /\ c.visit = l.visit /\ c.status = "exited" /\ c.kid = None
      /\ e[1] = l.step /\ e[2] = l.att /\ e[3] = l.visit
  BY DEF NoCursor
<1>4. /\ pc'[o] = "exit-row" /\ cur'[s] = c /\ exits'[s] = exits[s] \cup {e}
      /\ \A r \in Session : r # s => cur'[r] = cur[r] /\ exits'[r] = exits[r]
      /\ \A u \in Session \cup Operator : u # o => pc'[u] = pc[u]
  BY <1>0, <1>2 DEF TypeOK, Thread
<1>5. IsGate(l.step) /\ <<s, l.step, l.att>> \notin open /\ VerdictAt(o, s) /\ l.att \in Nat
  BY <1>0, <1>1 DEF ExitInv, ClosingFits, GateInv, Verdicts, VerdictFits, TypeOK, Locals
<1> HIDE DEF c, e
<1>6. ASSUME NEW x, NEW a, x # l.step \/ a # l.att, ~Recorded(s, x, a) PROVE ~Recorded(s, x, a)'
  BY <1>3, <1>4, <1>6 DEF Recorded
<1>7. ASSUME NEW x, NEW v, ~IsGate(x), ~Visited(s, x, v) PROVE ~Visited(s, x, v)'
  BY <1>3, <1>4, <1>5, <1>7 DEF Visited
<1>8. Fits(s)'
  <2>1. Fits(s) /\ pc'[s] = pc[s]
    BY <1>0, <1>4 DEF ExitInv
  <2>2. PastAttempts(s)'
    BY <1>2, <1>3, <1>4, <1>5, <2>1 DEF Fits, PastAttempts, Recorded, VerdictAt, Interruptible
  <2>3. ASSUME InAttempt(s) PROVE ~Recorded(s, loc[s].step, loc[s].att)'
    <3>1. ~Recorded(s, loc[s].step, loc[s].att) /\ (pc[s] = "gate" <=> IsGate(loc[s].step))
      BY <2>1, <2>3 DEF Fits, AtAttempt
    <3>2. loc[s].step # l.step \/ loc[s].att # l.att
      <4>1. pc[s] = "gate" /\ loc[s].step = l.step => loc[s].att > l.att
        BY <1>5 DEF VerdictAt, Later
      <4> QED BY <1>5, <3>1, <4>1
    <3> QED BY <1>2, <1>6, <3>1, <3>2
  <2>4. AtAttempt(s)'
    BY <1>2, <2>1, <2>3 DEF Fits, AtAttempt, InAttempt
  <2>5. crashes = 0 => PastVisits(s)'
    BY <1>2, <1>3, <1>4, <1>5, <2>1 DEF Fits, PastVisits, Interruptible
  <2>6. crashes = 0 => AtVisit(s)'
    BY <1>2, <1>7, <2>1 DEF Fits, AtVisit, InAttempt
  <2> QED BY <1>2, <2>2, <2>4, <2>5, <2>6 DEF Fits
<1>9. ASSUME NEW r \in Session, r # s PROVE Fits(r)'
  <2>1. pc'[r] = pc[r] /\ Fits(r)
    BY <1>0, <1>4 DEF ExitInv
  <2> QED BY <1>2, <1>4, <1>9, <2>1, FitsStays
<1>10. OpenFits'
  <2> SUFFICES ASSUME NEW r \in open PROVE IsGate(r[2]) /\ ~Recorded(r[1], r[2], r[3])'
    BY <1>2 DEF OpenFits, Recorded
  <2>1. r[1] \in Session /\ IsGate(r[2]) /\ ~Recorded(r[1], r[2], r[3]) /\ r = <<r[1], r[2], r[3]>>
    BY DEF TypeOK, ExitInv, OpenFits
  <2>2. CASE r[1] = s
    BY <1>5, <1>6, <2>1, <2>2
  <2>3. CASE r[1] # s
    BY <1>4, <2>1, <2>3 DEF Recorded
  <2> QED BY <2>1, <2>2, <2>3
<1>11. ASSUME NEW u \in Operator PROVE ClosingFits(u)' /\ OwnLock(u)'
  <2>1. CASE u = o
    BY <1>4, <2>1 DEF ClosingFits, OwnLock
  <2>2. CASE u # o
    <3>1. pc'[u] = pc[u] /\ ClosingFits(u) /\ OwnLock(u)
      BY <1>4, <2>2 DEF ExitInv
    <3>2. \A r \in Session : lock[r] = u => r # s
      BY <1>1, <2>2
    <3>3. ClosingFits(u)'
      BY <1>2, <1>4, <3>1, <3>2 DEF ClosingFits, Recorded
    <3> QED BY <1>2, <3>1, <3>3 DEF OwnLock
  <2> QED BY <2>1, <2>2
<1> QED BY <1>8, <1>9, <1>10, <1>11 DEF ExitInv

LEMMA RecordingExits ==
  ASSUME TypeOK, Shape, GateInv, ExitInv, NEW t \in Session \cup Operator, Recording(t)
  PROVE  ExitInv'
<1>1. CASE t \in Session
  BY <1>1, LoopRecordingExits
<1>2. CASE t \in Operator /\ ExitLog(t)
  BY <1>2, VerdictRecordingExits
<1>3. CASE t \in Operator /\ ExitRow(t)
  <2>1. t \notin Session /\ t \in Thread
    BY <1>3, ThreadsAssumption DEF Thread
  <2>2. Alone(t)
    BY RecordingPlain DEF Plainly
  <2>3. /\ UNCHANGED <<exits, attempts, visits, cur, mVisits, crashes, open, lock, stack>>
        /\ pc'[t] = "check"
    BY <1>3, <2>1 DEF ExitRow, Transition, Goto, TypeOK, log, ctx, boot
  <2>4. \A u \in Operator : u # t /\ pc[u] = "exit-log" => Head(stack[u]) \in Session
    BY AboutTypes DEF AtExit
  <2>5. ClosingFits(t)' /\ OwnLock(t)'
    BY <2>3 DEF ClosingFits, OwnLock
  <2> QED BY <1>3, <2>2, <2>3, <2>4, <2>5, CallExits
<1> QED BY <1>1, <1>2, <1>3 DEF Recording

LEMMA RecoverExits ==
  ASSUME TypeOK, LoopInv, NeverDown, ExitInv, Recover \/ Crash
  PROVE  ExitInv'
<1>1. CASE Crash \/ RecoverDies
  <2>1. /\ pc' = [t \in Thread |-> "idle"] /\ UNCHANGED <<exits, attempts, visits, cur, open>>
    BY <1>1 DEF Crash, RecoverDies, Reboot, log
  <2>2. crashes' # 0
    <3>1. Crash => crashes' # 0
      BY DEF Crash, TypeOK
    <3>2. RecoverDies => crashes' # 0
      BY DEF RecoverDies, LoopInv, NeverDown
    <3> QED BY <1>1, <3>1, <3>2
  <2>3. ASSUME NEW s \in Session PROVE Fits(s)'
    <3>1. pc'[s] = "idle" /\ PastAttempts(s)
      BY <2>1 DEF Thread, ExitInv, Fits
    <3> QED BY <2>1, <2>2, <3>1 DEF Fits, PastAttempts, AtAttempt, InAttempt, AtWork, Recorded
  <2>4. \A o \in Operator : pc'[o] = "idle"
    BY <2>1 DEF Thread
  <2> QED BY <2>1, <2>3, <2>4 DEF ExitInv, OpenFits, Recorded, ClosingFits, OwnLock
<1>2. CASE RecoverDone
  BY <1>2, AwayExits DEF RecoverDone, log, ctx, ExitInv, ClosingFits, OwnLock, Recorded
<1>3. ASSUME NEW s \in Session, RecoverSession(s) PROVE ExitInv'
  <2>1. /\ UNCHANGED <<exits, attempts, visits, mVisits, open, loc, lock, stack>>
        /\ crashes # 0 /\ crashes' = crashes
    BY <1>3 DEF RecoverSession, NeverDown, ctx, boot
  <2>2. \A u \in Session \cup Operator : pc'[u] = pc[u]
    BY <1>3, ThreadsAssumption DEF RecoverSession, Transition, Goto, TypeOK, Thread
  <2>3. ASSUME NEW r \in Session PROVE Fits(r)'
    <3>1. Fits(r) /\ cur[r] \in Cursor /\ pc'[r] = pc[r]
      BY <2>2 DEF ExitInv, TypeOK
    <3>2. PastAttempts(r)'
      <4>1. CASE cur'[r] = cur[r]
        BY <2>1, <3>1, <4>1 DEF Fits, PastAttempts, Recorded
      <4>2. CASE cur'[r] # cur[r]
        <5>1. PICK w \in rows[s] : /\ cur' = [cur EXCEPT ![s].status = "failed"]
                                   /\ cur[s].step = w.step
          BY <1>3, <4>2 DEF RecoverSession
        <5>2. r = s /\ cur' = [cur EXCEPT ![r].status = "failed"]
          BY <4>2, <5>1 DEF TypeOK
        <5>5. cur[r].step # None
          <6>1. w \in RowRec
            BY <5>1 DEF TypeOK
          <6> QED BY <5>1, <5>2, <6>1, ThreadsAssumption DEF RowRec
        <5>3. /\ cur'[r].status = "failed" /\ cur'[r].step = cur[r].step /\ cur'[r].att = cur[r].att
              /\ cur'[r].kid = cur[r].kid /\ cur[r].status # "none"
          BY <3>1, <5>2, <5>5 DEF TypeOK, Cursor, Fits, PastAttempts
        <5>4. cur[r].kid # None => cur[r].status \in Interruptible
          BY <3>1, <5>3 DEF Fits, PastAttempts, Cursor, Interruptible
        <5> QED BY <2>1, <3>1, <5>3, <5>4 DEF Fits, PastAttempts, Recorded
      <4> QED BY <4>1, <4>2
    <3>3. AtAttempt(r)'
      BY <2>1, <3>1 DEF Fits, AtAttempt, InAttempt, Recorded
    <3> QED BY <2>1, <3>2, <3>3 DEF Fits
  <2> QED BY <2>1, <2>2, <2>3 DEF ExitInv, OpenFits, Recorded, ClosingFits, OwnLock
<1> QED BY <1>1, <1>2, <1>3 DEF Recover

LEMMA ExitStep ==
  NoRoutes /\ Typed /\ Typed' /\ CountInv /\ LoopInv /\ WaitInv /\ GateInv /\ ExitInv /\ [Next]_vars => ExitInv'
<1> SUFFICES ASSUME NoRoutes, TypeOK, Shape, TypeOK', CountInv, LoopInv, NeverDown, GateInv, ExitInv, [Next]_vars
             PROVE  ExitInv'
  BY DEF Typed, WaitInv
<1>1. CASE UNCHANGED vars
  <2>1. UNCHANGED <<exits, attempts, visits, cur, mVisits, crashes, open, pc, loc, lock, stack>>
    BY <1>1 DEF vars, log, ctx, boot
  <2> QED BY <2>1, AwayExits DEF ExitInv, ClosingFits, OwnLock, Recorded
<1>2. CASE Next
  BY <1>2, RunExits, ServeExits, SharedExits, RecordingExits, RecoverExits DEF Next
<1> QED BY <1>1, <1>2

\* Where operators do not route a session by hand, an attempt is recorded as exited at
\* most once, over every crash, retry and verdict; and without a crash a loop records
\* an exit of a visit at most once.
THEOREM ExitsOnce == NoRoutes => (Spec => []ExitOnce)
<1> SUFFICES ASSUME NoRoutes PROVE Spec => []ExitOnce
  OBVIOUS
<1>1. Typed /\ ExitInv => ExitOnce
  <2> SUFFICES ASSUME TypeOK, Shape, ExitInv, NEW t \in Session \cup Operator, pc[t] = "exit-log",
                      NEW e \in exits[About(t)], e[1] = loc[t].step
               PROVE  e[2] # loc[t].att /\ (t \in Session /\ crashes = 0 => e[3] # loc[t].visit)
    BY DEF Typed, ExitOnce
  <2>1. CASE t \in Session
    <3>1. InAttempt(t) /\ About(t) = t
      BY <2>1 DEF InAttempt, AtWork, About
    <3>2. ~Recorded(t, loc[t].step, loc[t].att) /\ ~IsGate(loc[t].step)
      BY <2>1, <3>1 DEF ExitInv, Fits, AtAttempt
    <3>3. crashes = 0 => ~Visited(t, loc[t].step, loc[t].visit)
      BY <2>1, <3>1, <3>2 DEF ExitInv, Fits, AtVisit
    <3> QED BY <3>1, <3>2, <3>3 DEF Recorded, Visited
  <2>2. CASE t \notin Session
    <3>1. Head(stack[t]) \in Session /\ About(t) = Head(stack[t])
      BY <2>2, AboutTypes DEF AtExit
    <3>2. ~Recorded(About(t), loc[t].step, loc[t].att)
      BY <2>2, <3>1 DEF ExitInv, OwnLock, ClosingFits
    <3> QED BY <2>2, <3>2 DEF Recorded
  <2> QED BY <2>1, <2>2
<1>2. Init => CountInv
  BY DEF Init, CountInv, CountsAt, AtStep, AtExit, Thread
<1>3. Typed /\ Typed' /\ CountInv /\ LoopInv /\ WaitInv /\ GateInv /\ ExitInv /\ [Next]_vars => ExitInv'
  BY ExitStep
<1> QED BY TypedInit, TypedStep, LoopInit, LoopStep, WaitInit, WaitStep, GateInit, GateStep, CountStep,
           ExitInit, <1>1, <1>2, <1>3, PTL DEF Spec

-------------------------------------------------------------------------------
(***************************************************************************)
(* The refinement to SessionLifecycle, for sessions without sub-circuits   *)
(* that nobody cancels and one operator call at a time; each of the three  *)
(* breaks it.  A transition() reads the row some awaits before it writes   *)
(* it: LifeInv says that the row is still in the state from which the      *)
(* lifecycle lets it go where the call takes it.                           *)
(***************************************************************************)
Childless == \A x \in Step : Kind[x] # "circuit"
Undisturbed ==
  /\ "cancel" \notin Ops
  /\ Childless \/ Root = Session
  /\ \A o, p \in Operator : o = p

\* Where a loop works on its step.
Working == {"position", "assert", "work", "spawn", "gate", "complete", "exit-log", "exit-row"}
Rested == {"suspended-gate", "suspended-error", "completed"}
Uncalled == {"cancel-write", "cancel-children", "cancel-next", "retry-read"}

RowLife(s) ==
  /\ parent[s] = None /\ det[s].kid = None /\ st[s] # "cancelled"
  /\ Root = Session => st[s] # "none"
LoopLife(s) ==
  /\ pc[s] \in Working => st[s] = "running"
  /\ pc[s] = "spawn" => ~Childless
  /\ Calls(s) => /\ tx[s].who = s /\ tx[s].det.kid = None
                 /\ \/ tx[s].to = "running" /\ tx[s].then = "position" /\ st[s] = "queued"
                    \/ tx[s].to \in Rested /\ tx[s].then = "end" /\ st[s] = "running"
OnIt(o) == \E s \in Session : stack[o] = <<s>> /\ st[s] \in Suspended
OperatorLife(o) ==
  /\ pc[o] \notin Uncalled
  /\ pc[o] \in {"retry-child", "verdict", "exit-log", "exit-row"} => OnIt(o)
  /\ pc[o] = "retry-child" => loc[o].kid = None
  /\ pc[o] = "retry-queue" => stack[o] = << >> \/ OnIt(o)
  /\ Calls(o) => /\ tx[o].to = "queued" /\ tx[o].det.kid = None /\ st[tx[o].who] \in Suspended
                 /\ tx[o].then = "done" \/ (tx[o].then = "retry-queue" /\ stack[o] = << >>)
BootLife ==
  /\ phase = "recover" => \A s \in todo : st[s] = "running"
  /\ Calls(Boot) => /\ tx[Boot].to = "queued" /\ tx[Boot].det.kid = None /\ tx[Boot].then = "idle"
                    /\ st[tx[Boot].who] = "running" /\ tx[Boot].who \notin todo

LifeInv ==
  /\ \A s \in Session : RowLife(s) /\ LoopLife(s)
  /\ \A o \in Operator : OperatorLife(o)
  /\ BootLife

LEMMA LifeInit == Init => LifeInv
<1> SUFFICES ASSUME Init PROVE LifeInv
  OBVIOUS
<1>1. \A s \in Session : RowLife(s)
  BY DEF Init, RowLife, Plain
<1>2. \A t \in Thread : pc[t] = "idle"
  BY DEF Init
<1>3. \A s \in Session : LoopLife(s)
  BY <1>2 DEF LoopLife, Calls, Working, Thread
<1>4. \A o \in Operator : OperatorLife(o)
  BY <1>2 DEF OperatorLife, Calls, Uncalled, Thread
<1>5. BootLife
  BY <1>2 DEF Init, BootLife, Calls, Thread
<1> QED BY <1>1, <1>3, <1>4, <1>5 DEF LifeInv

\* Without a parent there is no child: nobody waits, looks again, or settles.
LEMMA NoneSettles ==
  ASSUME ChildShape, \A s \in Session : RowLife(s)
  PROVE  /\ \A s \in Session : cur[s].kid = None /\ ~NeedsKid(s)
         /\ \A t \in Thread : pc[t] # "settle"
<1>1. \A k : ~IsChild(k)
  BY ThreadsAssumption DEF RowLife, IsChild, IsChildIn
<1> QED BY <1>1 DEF ChildShape

-------------------------------------------------------------------------------
\* Where a step leaves the loop that makes it.
LEMMA LifeMove ==
  ASSUME TypeOK, NEW s \in Session, NEW label, label \notin {"check", "write"},
         label \in Working => st'[s] = "running", label = "spawn" => ~Childless,
         pc' = [pc EXCEPT ![s] = label]
  PROVE  LoopLife(s)'
<1>1. pc'[s] = label
  BY DEF TypeOK, Thread
<1> QED BY <1>1 DEF LoopLife, Calls

LEMMA LifeCall ==
  ASSUME TypeOK, NEW s \in Session, NEW to, NEW d, d.kid = None, NEW then, Transition(s, s, to, d, then),
         \/ to = "running" /\ then = "position" /\ st'[s] = "queued"
         \/ to \in Rested /\ then = "end" /\ st'[s] = "running"
  PROVE  LoopLife(s)'
<1> DEFINE c == [who |-> s, to |-> to, det |-> d, wake |-> FALSE, then |-> then]
<1>1. /\ s \in Thread /\ pc' = [pc EXCEPT ![s] = "check"] /\ tx' = [tx EXCEPT ![s] = c]
      /\ c.who = s /\ c.to = to /\ c.det = d /\ c.then = then
  BY DEF Thread, Transition, Goto
<1> HIDE DEF c
<1>2. pc'[s] = "check" /\ tx'[s] = c
  BY <1>1 DEF TypeOK
<1> QED BY <1>1, <1>2 DEF LoopLife, Calls, Working

LEMMA LifeSuspend ==
  ASSUME TypeOK, NEW s \in Session, NEW why, Suspend(s, why, None), st'[s] = "running"
  PROVE  LoopLife(s)'
<1>1. PICK d : d = [Plain(why) EXCEPT !.kid = None]
  OBVIOUS
<1>2. d.kid = None /\ Transition(s, s, "suspended-error", d, "end")
  BY <1>1 DEF Plain, Suspend
<1> QED BY <1>2, LifeCall DEF Rested

LEMMA LifeEnter ==
  ASSUME TypeOK, NEW s \in Session, NEW x, NEW visit, NEW att, NEW V, NEW A, NEW kid,
         Enter(s, x, visit, att, V, A, kid), st'[s] = "running"
  PROVE  LoopLife(s)'
BY LifeMove DEF Enter, Goto

LEMMA LifeNewVisit ==
  ASSUME TypeOK, NEW s \in Session, NEW x, NEW V, NEW A, NewVisit(s, x, V, A), st'[s] = "running"
  PROVE  LoopLife(s)'
BY LifeSuspend, LifeEnter DEF NewVisit

LEMMA LifeFollow ==
  ASSUME TypeOK, NEW s \in Session, NEW x, NEW e, NEW V, NEW A, Follow(s, x, e, V, A), st'[s] = "running"
  PROVE  LoopLife(s)'
BY LifeMove, LifeNewVisit DEF Follow, Goto

LEMMA LifeFailAttempt ==
  ASSUME TypeOK, NEW s \in Session, NEW retry, NEW why, FailAttempt(s, retry, why, None), st'[s] = "running"
  PROVE  LoopLife(s)'
<1>1. CASE Goto(s, "assert")
  BY <1>1, LifeMove DEF Goto
<1>2. CASE \E reason : Suspend(s, reason, None)
  BY <1>2, LifeSuspend
<1>3. (IF retry THEN None ELSE None) = None
  OBVIOUS
<1> QED BY <1>1, <1>2, <1>3 DEF FailAttempt

LEMMA RunLife ==
  ASSUME TypeOK, Shape, ChildShape, LifeInv, Undisturbed, NEW s \in Session, Run(s) \/ Admit(s)
  PROVE  UNCHANGED sessionRows /\ LoopLife(s)'
<1>0. /\ s \in Thread /\ st[s] # "cancelled" /\ pc[s] \notin {"link-row", "link-log", "wait", "again"}
      /\ cur[s].kid = None /\ LoopLife(s)
  BY NoneSettles DEF Thread, LifeInv, RowLife, NeedsKid
<1>1. ~(Spawn(s) \/ LinkRow(s) \/ LinkLog(s) \/ WaitExit(s) \/ WaitCancelled(s) \/ WaitPark(s)
        \/ ParkedAgain(s) \/ StopCancelled(s))
  <2>1. ~Spawn(s)
    BY <1>0 DEF Spawn, LifeInv, RowLife, LoopLife, Undisturbed
  <2> QED BY <1>0, <2>1 DEF LinkRow, LinkLog, WaitExit, WaitCancelled, WaitPark, ParkedAgain, StopCancelled
<1>2. UNCHANGED sessionRows
  BY <1>1 DEF Run, Admit, Position, Start, OverBudget, WorkExit, WorkFail, GateOpen, GateEmpty, Complete, End
<1>3. st' = st
  BY <1>2 DEF sessionRows
<1>4. CASE Admit(s)
  <2>1. Plain("none").kid = None
    BY DEF Plain
  <2> QED BY <1>3, <1>4, <2>1, LifeCall DEF Admit
<1>5. CASE Position(s)
  <2>1. st'[s] = "running"
    BY <1>0, <1>3, <1>5 DEF Position, LoopLife, Working
  <2> QED BY <1>5, <2>1, LifeSuspend, LifeNewVisit, LifeFollow, LifeEnter DEF Position
<1>6. CASE Start(s)
  <2>1. st'[s] = "running" /\ loc[s].step \in Step
    BY <1>0, <1>3, <1>6 DEF Start, LoopLife, Working, Shape, StepShape, AtStep
  <2> QED BY <1>6, <2>1, LifeMove DEF Start, Goto, Childless
<1>7. CASE OverBudget(s) \/ WorkFail(s) \/ GateEmpty(s)
  <2>1. st'[s] = "running"
    BY <1>0, <1>3, <1>7 DEF OverBudget, WorkFail, GateEmpty, LoopLife, Working
  <2> QED BY <1>7, <2>1, LifeSuspend, LifeFailAttempt DEF OverBudget, WorkFail, GateEmpty
<1>8. CASE WorkExit(s)
  <2>1. st'[s] = "running"
    BY <1>0, <1>3, <1>8 DEF WorkExit, LoopLife, Working
  <2> QED BY <1>8, <2>1, LifeMove DEF WorkExit, Goto
<1>9. CASE GateOpen(s)
  <2>1. st'[s] = "running"
    BY <1>0, <1>3, <1>9 DEF GateOpen, LoopLife, Working
  <2>2. PICK d : d = [why |-> "gate", kid |-> None, step |-> loc[s].step, att |-> loc[s].att,
                      visit |-> loc[s].visit]
    OBVIOUS
  <2>3. d.kid = None /\ Transition(s, s, "suspended-gate", d, "end")
    BY <1>9, <2>2 DEF GateOpen
  <2>4. "suspended-gate" \in Rested
    BY DEF Rested
  <2> QED BY <1>2, <2>1, <2>3, <2>4, LifeCall
<1>10. CASE Complete(s)
  <2>1. st'[s] = "running" /\ Plain("none").kid = None
    BY <1>0, <1>3, <1>10 DEF Complete, LoopLife, Working, Plain
  <2> QED BY <1>10, <2>1, LifeCall, LifeSuspend DEF Complete, Rested
<1>11. CASE End(s)
  BY <1>11, LifeMove DEF End, Goto, Working
<1> QED BY <1>1, <1>2, <1>4, <1>5, <1>6, <1>7, <1>8, <1>9, <1>10, <1>11 DEF Run

-------------------------------------------------------------------------------
\* A step that leaves the rows as they are and moves one thread, whose locals fit still.
LEMMA LifeFrame ==
  ASSUME TypeOK, LifeInv, UNCHANGED <<sessionRows, phase, todo>>, NEW t \in Thread, Alone(t),
         \A o \in Operator : o # t => stack'[o] = stack[o],
         t \in Session => LoopLife(t)', t \in Operator => OperatorLife(t)', t = Boot => BootLife'
  PROVE  LifeInv'
<1>1. UNCHANGED <<st, det, parent>>
  BY DEF sessionRows
<1>2. \A u \in Thread : u # t => pc'[u] = pc[u] /\ tx'[u] = tx[u] /\ loc'[u] = loc[u]
  BY DEF Alone, Mine
<1>3. \A s \in Session : RowLife(s)'
  BY <1>1 DEF LifeInv, RowLife
<1>4. \A s \in Session : LoopLife(s)'
  BY <1>1, <1>2 DEF LifeInv, LoopLife, Calls, Thread
<1>5. \A o \in Operator : OperatorLife(o)'
  BY <1>1, <1>2 DEF LifeInv, OperatorLife, OnIt, Calls, Thread
<1>6. BootLife'
  BY <1>1, <1>2 DEF LifeInv, BootLife, Calls, Thread
<1> QED BY <1>3, <1>4, <1>5, <1>6 DEF LifeInv

LEMMA OperatorLifeMove ==
  ASSUME TypeOK, NEW o \in Operator, NEW label,
         label \notin {"check", "write", "retry-child", "retry-queue"} \cup Uncalled,
         label \in {"verdict", "exit-log", "exit-row"} => OnIt(o)', pc' = [pc EXCEPT ![o] = label]
  PROVE  OperatorLife(o)'
<1>1. pc'[o] = label
  BY DEF TypeOK, Thread
<1> QED BY <1>1 DEF OperatorLife, Calls

LEMMA OperatorLifeCall ==
  ASSUME TypeOK, NEW o \in Operator, NEW s \in Session, st'[s] \in Suspended, NEW d, d.kid = None, NEW then,
         Transition(o, s, "queued", d, then),
         then = "done" \/ (then = "retry-queue" /\ stack'[o] = << >>)
  PROVE  OperatorLife(o)'
<1> DEFINE c == [who |-> s, to |-> "queued", det |-> d, wake |-> FALSE, then |-> then]
<1>1. /\ o \in Thread /\ pc' = [pc EXCEPT ![o] = "check"] /\ tx' = [tx EXCEPT ![o] = c]
      /\ c.who = s /\ c.to = "queued" /\ c.det = d /\ c.then = then
  BY DEF Thread, Transition, Goto
<1> HIDE DEF c
<1>2. pc'[o] = "check" /\ tx'[o] = c
  BY <1>1 DEF TypeOK
<1> QED BY <1>1, <1>2 DEF OperatorLife, Calls, Uncalled

LEMMA ServeLife ==
  ASSUME TypeOK, Shape, LifeInv, Undisturbed, NEW o \in Operator, Request(o) \/ Serve(o)
  PROVE  UNCHANGED sessionRows /\ OperatorLife(o)'
<1>0. o \in Thread /\ OperatorLife(o) /\ stack[o] \in Seq(Session) /\ Plain("resumed").kid = None
  BY DEF Thread, LifeInv, TypeOK, Plain
<1>1. /\ ~(CancelWrite(o) \/ CancelChildren(o) \/ CancelNext(o) \/ RetryRead(o))
      /\ \A s : ~Cancel(o, s)
  BY <1>0 DEF OperatorLife, Uncalled, CancelWrite, CancelChildren, CancelNext, RetryRead, Cancel, Accept,
     Undisturbed
<1>2. UNCHANGED sessionRows
  BY <1>1 DEF Request, Serve, Retry, Resume, ManualRoute, Verdict, RetryChild, RetryQueue, VerdictClose, Return
<1>3. st' = st
  BY <1>2 DEF sessionRows
<1>4. ASSUME NEW s \in Session, stack' = [stack EXCEPT ![o] = <<s>>], st[s] \in Suspended PROVE OnIt(o)'
  <2>1. stack'[o] = <<s>>
    BY <1>4 DEF TypeOK
  <2> QED BY <1>3, <1>4, <2>1 DEF OnIt
<1>5. ASSUME NEW s \in Session, Retry(o, s) PROVE OperatorLife(o)'
  <2>1. OnIt(o)'
    BY <1>4, <1>5 DEF Retry, Accept, Suspended
  <2>2. pc'[o] = "retry-child"
    BY <1>0, <1>5 DEF Retry, Goto, TypeOK
  <2>3. loc' = [loc EXCEPT ![o].kid = None]
    BY <1>5 DEF Retry, LifeInv, RowLife
  <2>4. loc'[o].kid = None
    BY <1>0, <2>3 DEF TypeOK, Locals
  <2> QED BY <2>1, <2>2, <2>4 DEF OperatorLife, Calls, Uncalled
<1>6. ASSUME NEW s \in Session, Resume(o, s) PROVE OperatorLife(o)'
  <2>1. st'[s] \in Suspended
    BY <1>3, <1>6 DEF Resume, Suspended
  <2> QED BY <1>0, <1>6, <2>1, OperatorLifeCall DEF Resume
<1>7. ASSUME NEW s \in Session, ManualRoute(o, s) \/ Verdict(o, s) PROVE OperatorLife(o)'
  <2>1. OnIt(o)'
    BY <1>4, <1>7 DEF ManualRoute, Verdict, Accept, Suspended
  <2> QED BY <1>7, <2>1, OperatorLifeMove DEF ManualRoute, Verdict, Goto, Uncalled
<1>8. CASE RetryChild(o)
  <2>1. pc[o] = "retry-child" /\ loc[o].kid = None /\ OnIt(o)
    BY <1>0, <1>8 DEF RetryChild, OperatorLife
  <2>2. pc' = [pc EXCEPT ![o] = "retry-queue"] /\ stack' = stack
    BY <1>8, <2>1 DEF RetryChild, Goto
  <2>3. pc'[o] = "retry-queue" /\ OnIt(o)'
    BY <1>0, <1>3, <2>1, <2>2 DEF TypeOK, OnIt
  <2> QED BY <1>2, <2>3 DEF OperatorLife, Calls, Uncalled
<1>9. CASE RetryQueue(o)
  <2>1. pc[o] = "retry-queue" /\ (stack[o] = << >> \/ OnIt(o))
    BY <1>0, <1>9 DEF RetryQueue, OperatorLife
  <2>2. CASE stack[o] = << >>
    BY <1>9, <2>2, OperatorLifeMove DEF RetryQueue, Goto, Uncalled
  <2>3. CASE stack[o] # << >>
    <3>1. PICK s \in Session : stack[o] = <<s>> /\ st[s] \in Suspended
      BY <2>1, <2>3 DEF OnIt
    <3>2. Head(stack[o]) = s /\ Tail(stack[o]) = << >>
      BY <3>1
    <3>3. /\ Transition(o, s, "queued", Plain("resumed"), "retry-queue")
          /\ stack'[o] = << >>
      BY <1>9, <2>3, <3>2 DEF RetryQueue, TypeOK
    <3> QED BY <1>0, <1>2, <1>3, <3>1, <3>3, OperatorLifeCall
  <2> QED BY <2>2, <2>3
<1>10. CASE VerdictClose(o)
  <2>1. OnIt(o)'
    BY <1>0, <1>3, <1>10 DEF VerdictClose, OperatorLife, OnIt
  <2> QED BY <1>10, <2>1, OperatorLifeMove DEF VerdictClose, Goto, Uncalled
<1>11. CASE Return(o)
  BY <1>11, OperatorLifeMove DEF Return, Goto, Uncalled
<1> QED BY <1>1, <1>2, <1>5, <1>6, <1>7, <1>8, <1>9, <1>10, <1>11 DEF Request, Serve

LEMMA RecordingLife ==
  ASSUME TypeOK, Shape, LifeInv, NEW t \in Session \cup Operator, Recording(t)
  PROVE  /\ UNCHANGED sessionRows
         /\ t \in Session => LoopLife(t)'
         /\ t \in Operator => OperatorLife(t)'
<1>1. UNCHANGED sessionRows /\ st' = st
  BY DEF Recording, ExitLog, ExitRow, sessionRows
<1>2. CASE t \in Session
  <2>1. st'[t] = "running" /\ t \notin Operator
    BY <1>1, <1>2, ThreadsAssumption DEF LifeInv, LoopLife, Working, Recording, ExitLog, ExitRow
  <2>2. CASE ExitLog(t)
    BY <1>1, <1>2, <2>1, <2>2, LifeMove DEF ExitLog, Goto
  <2>3. CASE ExitRow(t)
    <3>1. Follow(t, loc[t].step, loc[t].exit, mVisits[t], mAttempts[t])
      BY <1>2, <2>3 DEF ExitRow, About
    <3> QED BY <1>1, <1>2, <2>1, <3>1, LifeFollow
  <2> QED BY <2>2, <2>3 DEF Recording
<1>3. CASE t \in Operator
  <2>1. t \notin Session /\ OnIt(t)
    BY <1>3, ThreadsAssumption DEF LifeInv, OperatorLife, Recording, ExitLog, ExitRow
  <2>2. CASE ExitLog(t)
    <3>1. OnIt(t)'
      BY <1>1, <2>1, <2>2 DEF ExitLog, OnIt
    <3> QED BY <1>1, <1>3, <2>1, <2>2, <3>1, OperatorLifeMove DEF ExitLog, Goto, Uncalled
  <2>3. CASE ExitRow(t)
    <3>1. PICK s \in Session : stack[t] = <<s>> /\ st[s] \in Suspended
      BY <2>1 DEF OnIt
    <3>2. About(t) = s
      BY <2>1, <3>1 DEF About
    <3>3. Transition(t, s, "queued", Plain("resumed"), "done") /\ Plain("resumed").kid = None
      BY <2>1, <2>3, <3>2 DEF ExitRow, Plain
    <3> QED BY <1>1, <1>3, <2>1, <3>1, <3>3, OperatorLifeCall
  <2> QED BY <2>2, <2>3 DEF Recording
<1> QED BY <1>1, <1>2, <1>3

-------------------------------------------------------------------------------
\* A call writes the row it is about, from a state from which the lifecycle lets
\* it go there: the mapping's steps.
LEMMA WriteFits ==
  ASSUME TypeOK, LoopInv, LifeInv, NEW t \in Thread, pc[t] = "write"
  PROVE  /\ tx[t].det.kid = None /\ tx[t].to \notin {"none", "cancelled"}
         /\ \/ t \in Session /\ tx[t].who = t /\ tx[t].to = "running" /\ st[t] = "queued"
            \/ t \in Session /\ tx[t].who = t /\ tx[t].to \in Rested /\ st[t] = "running"
            \/ t \in Operator /\ tx[t].to = "queued" /\ st[tx[t].who] \in Suspended
            \/ t = Boot /\ phase = "recover" /\ tx[t].to = "queued" /\ st[tx[t].who] = "running"
<1>1. CASE t \in Session
  BY <1>1 DEF LifeInv, LoopLife, Calls, Rested
<1>2. CASE t \in Operator
  BY <1>2 DEF LifeInv, OperatorLife, Calls
<1>3. CASE t = Boot
  BY <1>3 DEF LifeInv, BootLife, LoopInv, Calls
<1> QED BY <1>1, <1>2, <1>3 DEF Thread

LEMMA WriteLife ==
  ASSUME TypeOK, ChildShape, LoopInv, LifeInv, Undisturbed, NEW t \in Thread, TxWrite(t)
  PROVE  LifeInv'
<1> DEFINE w == tx[t].who
           to == tx[t].to
<1>1. /\ pc[t] = "write" /\ t \in Thread /\ w \in Session
      /\ st' = [st EXCEPT ![w] = to] /\ det' = [det EXCEPT ![w] = tx[t].det]
      /\ UNCHANGED <<parent, loc, tx, stack, phase, todo>>
  BY DEF TxWrite, boot, ChildShape, InCall
<1>2. pc' = [pc EXCEPT ![t] = tx[t].then]
  <2>1. parent[w] = None
    BY <1>1 DEF LifeInv, RowLife
  <2> QED BY <2>1 DEF TxWrite, Wakes, Goto
<1>3. /\ st'[w] = to /\ det'[w] = tx[t].det /\ pc'[t] = tx[t].then
      /\ \A s \in Session : s # w => st'[s] = st[s] /\ det'[s] = det[s]
      /\ \A u \in Thread : u # t => pc'[u] = pc[u]
  BY <1>1, <1>2 DEF TypeOK
<1> HIDE DEF w, to
<1>4. /\ tx[t].det.kid = None /\ to \notin {"none", "cancelled"}
      /\ \/ t \in Session /\ w = t /\ to = "running" /\ st[t] = "queued"
         \/ t \in Session /\ w = t /\ to \in Rested /\ st[t] = "running"
         \/ t \in Operator /\ to = "queued" /\ st[w] \in Suspended
         \/ t = Boot /\ phase = "recover" /\ to = "queued" /\ st[w] = "running"
  BY <1>1, WriteFits DEF w, to
<1>5. \A s \in Session : RowLife(s)'
  BY <1>1, <1>3, <1>4 DEF LifeInv, RowLife
<1>6. ASSUME NEW s \in Session PROVE LoopLife(s)'
  <2>1. CASE s = t
    <3>1. w = t /\ tx[t].then = (IF to = "running" THEN "position" ELSE "end")
      BY <1>1, <1>6, <2>1 DEF LifeInv, LoopLife, Calls, w, to, Rested
    <3> QED BY <1>3, <2>1, <3>1 DEF LoopLife, Calls, Working
  <2>2. CASE s # t /\ s # w
    BY <1>1, <1>3, <2>2 DEF LifeInv, LoopLife, Calls, Thread
  <2>3. CASE s # t /\ s = w
    <3>1. pc'[s] = pc[s] /\ tx'[s] = tx[s] /\ (st[s] \in Suspended \/ phase = "recover")
      BY <1>1, <1>3, <1>4, <2>3 DEF Thread
    <3>2. pc[s] \notin Working \cup {"check", "write"}
      BY <1>4, <2>3, <3>1, ThreadsAssumption DEF LifeInv, LoopLife, LoopInv, Calls, Working, Suspended
    <3> QED BY <3>1, <3>2 DEF LoopLife, Calls, Working
  <2> QED BY <2>1, <2>2, <2>3
<1>7. ASSUME NEW o \in Operator PROVE OperatorLife(o)'
  <2>1. CASE o = t
    <3>1. tx[o].then = "done" \/ (tx[o].then = "retry-queue" /\ stack[o] = << >>)
      BY <1>1, <2>1 DEF LifeInv, OperatorLife, Calls
    <3> QED BY <1>1, <1>3, <2>1, <3>1 DEF OperatorLife, Calls, Uncalled
  <2>2. CASE o # t
    <3>1. /\ st[w] \notin Suspended /\ pc'[o] = pc[o]
      BY <1>3, <1>4, <2>2 DEF Undisturbed, Suspended, Thread
    <3>2. OnIt(o) => OnIt(o)'
      BY <1>1, <1>3, <3>1 DEF OnIt
    <3>3. \A s \in Session : st[s] \in Suspended => st'[s] \in Suspended
      BY <1>3, <3>1
    <3>4. pc[o] \in {"check", "write"} => tx[o].who \in Session
      BY DEF ChildShape, InCall, Thread
    <3> QED BY <1>1, <3>1, <3>2, <3>3, <3>4 DEF LifeInv, OperatorLife, Calls
  <2> QED BY <2>1, <2>2
<1>8. BootLife'
  <2>1. CASE t = Boot
    <3>1. w \notin todo /\ tx[t].then = "idle"
      BY <1>1, <2>1 DEF LifeInv, BootLife, Calls, w
    <3> QED BY <1>1, <1>3, <2>1, <3>1 DEF LifeInv, BootLife, Calls, TypeOK
  <2>2. CASE t # Boot /\ phase = "recover"
    <3>1. st[w] # "running" /\ pc'[Boot] = pc[Boot]
      BY <1>1, <1>3, <1>4, <2>2 DEF LoopInv, Suspended, Thread
    <3>2. \A s \in Session : st[s] = "running" => st'[s] = "running"
      BY <1>3, <3>1
    <3>3. pc[Boot] \in {"check", "write"} => tx[Boot].who \in Session
      BY DEF ChildShape, InCall, Thread
    <3> QED BY <1>1, <3>1, <3>2, <3>3 DEF LifeInv, BootLife, Calls, TypeOK
  <2>3. CASE t # Boot /\ phase # "recover"
    <3>1. pc'[Boot] = "idle"
      BY <1>3, <2>3 DEF LoopInv, Thread
    <3> QED BY <1>1, <2>3, <3>1 DEF BootLife, Calls
  <2> QED BY <2>1, <2>2, <2>3
<1> QED BY <1>5, <1>6, <1>7, <1>8 DEF LifeInv

LEMMA CheckLife ==
  ASSUME TypeOK, ChildShape, LifeInv, NEW t \in Thread, TxCheck(t)
  PROVE  LifeInv'
<1>1. /\ pc[t] = "check" /\ UNCHANGED <<sessionRows, phase, todo, loc, tx, stack>>
  BY DEF TxCheck, boot
<1>2. st[tx[t].who] # "cancelled"
  BY <1>1 DEF ChildShape, InCall, LifeInv, RowLife
<1>3. pc' = [pc EXCEPT ![t] = "write"] /\ st' = st
  BY <1>1, <1>2 DEF TxCheck, Goto, sessionRows
<1>4. pc'[t] = "write" /\ Alone(t)
  BY <1>1, <1>3 DEF TypeOK, Alone, Mine
<1>5. t \in Session => LoopLife(t)'
  BY <1>1, <1>3, <1>4 DEF LifeInv, LoopLife, Calls, Working
<1>6. t \in Operator => OperatorLife(t)'
  BY <1>1, <1>3, <1>4 DEF LifeInv, OperatorLife, Calls, Uncalled
<1>7. t = Boot => BootLife'
  BY <1>1, <1>3, <1>4 DEF LifeInv, BootLife, Calls
<1> QED BY <1>1, <1>4, <1>5, <1>6, <1>7, LifeFrame

LEMMA RecoverLife ==
  ASSUME TypeOK, LoopInv, LifeInv, Recover \/ Crash
  PROVE  LifeInv' /\ st' = st
<1>1. CASE Crash \/ RecoverDies
  <2>1. Reboot
    BY <1>1 DEF Crash, RecoverDies
  <2>2. /\ \A t \in Thread : pc'[t] = "idle"
        /\ phase' = "recover" /\ todo' = Interrupted /\ UNCHANGED <<st, det, parent>>
    BY <2>1 DEF Reboot, sessionRows
  <2>3. \A s \in Session : RowLife(s)' /\ LoopLife(s)'
    BY <2>2 DEF LifeInv, RowLife, LoopLife, Calls, Working, Thread
  <2>4. \A o \in Operator : OperatorLife(o)'
    BY <2>2 DEF OperatorLife, Calls, Uncalled, Thread
  <2>5. BootLife'
    BY <2>2 DEF BootLife, Calls, Thread, Interrupted
  <2> QED BY <2>2, <2>3, <2>4, <2>5 DEF LifeInv
<1>2. CASE RecoverDone
  <2>1. UNCHANGED <<st, det, parent, pc, tx, loc, stack>> /\ phase' = "up"
    BY <1>2 DEF RecoverDone, sessionRows
  <2>2. ~Calls(Boot)
    BY <1>2 DEF RecoverDone, Calls
  <2> QED BY <2>1, <2>2 DEF LifeInv, RowLife, LoopLife, OperatorLife, OnIt, BootLife, Calls
<1>3. ASSUME NEW s \in Session, RecoverSession(s) PROVE LifeInv' /\ st' = st
  <2> DEFINE c == [who |-> s, to |-> "queued", det |-> Plain("recovered"), wake |-> FALSE,
                   then |-> "idle"]
  <2>1. c.who = s /\ c.to = "queued" /\ c.det.kid = None /\ c.then = "idle"
    BY DEF Plain
  <2>2. /\ phase = "recover" /\ s \in todo /\ todo' = todo \ {s}
        /\ pc' = [pc EXCEPT ![Boot] = "check"] /\ tx' = [tx EXCEPT ![Boot] = c]
        /\ UNCHANGED <<st, det, parent, loc, stack, phase>>
    BY <1>3 DEF RecoverSession, Transition, Goto, sessionRows
  <2> HIDE DEF c
  <2>3. /\ Boot \in Thread /\ pc'[Boot] = "check" /\ tx'[Boot] = c
        /\ \A t \in Session \cup Operator : t \in Thread /\ pc'[t] = pc[t] /\ tx'[t] = tx[t]
    BY <2>2, ThreadsAssumption DEF TypeOK, Thread
  <2>4. \A r \in Session : RowLife(r)' /\ LoopLife(r)'
    BY <2>2, <2>3 DEF LifeInv, RowLife, LoopLife, Calls
  <2>5. \A o \in Operator : OperatorLife(o)'
    BY <2>2, <2>3 DEF LifeInv, OperatorLife, OnIt, Calls
  <2>6. BootLife'
    BY <2>1, <2>2, <2>3 DEF LifeInv, BootLife, Calls
  <2> QED BY <2>2, <2>4, <2>5, <2>6 DEF LifeInv
<1> QED BY <1>1, <1>2, <1>3 DEF Recover

LEMMA LifeStep == Undisturbed /\ Typed /\ LoopInv /\ LifeInv /\ [Next]_vars => LifeInv'
<1> SUFFICES ASSUME Undisturbed, TypeOK, Shape, ChildShape, LoopInv, LifeInv, [Next]_vars PROVE LifeInv'
  BY DEF Typed
<1>1. ASSUME NEW s \in Session, Admit(s) \/ Run(s) PROVE LifeInv'
  <2>1. s \in Thread /\ s \notin Operator /\ s # Boot /\ Alone(s)
    <3>1. ~Delivers(s) \/ GateOpen(s)
      BY <1>1, NoneSettles DEF Delivers, WaitPark, ParkedAgain, NeedsKid, LifeInv
    <3>2. CASE GateOpen(s)
      <4>1. pc' = [pc EXCEPT ![s] = "check"] /\ loc' = loc /\ \E c : tx' = [tx EXCEPT ![s] = c]
        BY <3>2 DEF GateOpen, Transition, Goto
      <4> QED BY <4>1, ThreadsAssumption DEF TypeOK, Thread, Alone, Mine
    <3>3. CASE ~Delivers(s)
      BY <1>1, <3>3, RunPlain, ThreadsAssumption DEF Plainly, Thread
    <3> QED BY <3>1, <3>2, <3>3
  <2>2. UNCHANGED <<phase, todo, stack>>
    BY <1>1 DEF Admit, Run, Position, Start, StopCancelled, OverBudget, WorkExit, WorkFail, Spawn, LinkRow,
       LinkLog, WaitExit, WaitCancelled, WaitPark, ParkedAgain, GateOpen, GateEmpty, Complete, End, boot
  <2> QED BY <1>1, <2>1, <2>2, RunLife, LifeFrame
<1>2. ASSUME NEW o \in Operator, Request(o) \/ Serve(o) PROVE LifeInv'
  <2>1. o \in Thread /\ o \notin Session /\ o # Boot /\ Alone(o)
    BY <1>2, ServePlain, ThreadsAssumption DEF Plainly, Thread
  <2>2. UNCHANGED <<phase, todo>> /\ \A p \in Operator : p # o => stack'[p] = stack[p]
    BY <1>2 DEF Request, Serve, Cancel, Retry, Resume, ManualRoute, Verdict, Accept, CancelWrite, CancelChildren,
       CancelNext, RetryRead, RetryChild, RetryQueue, VerdictClose, Return, boot, TypeOK, Undisturbed
  <2> QED BY <1>2, <2>1, <2>2, ServeLife, LifeFrame
<1>3. ASSUME NEW t \in Thread, Shared(t) PROVE LifeInv'
  <2>1. ~Settle(t)
    BY NoneSettles DEF Settle, LifeInv
  <2> QED BY <1>3, <2>1, CheckLife, WriteLife DEF Shared
<1>4. ASSUME NEW t \in Session \cup Operator, Recording(t) PROVE LifeInv'
  <2>1. t \in Thread /\ t # Boot /\ Alone(t) /\ UNCHANGED <<phase, todo, stack>>
    BY <1>4, RecordingPlain, ThreadsAssumption DEF Plainly, Thread, Recording, ExitLog, ExitRow, boot
  <2> QED BY <1>4, <2>1, RecordingLife, LifeFrame
<1>5. CASE UNCHANGED vars
  <2>1. UNCHANGED <<st, det, parent, pc, tx, loc, stack, phase, todo>>
    BY <1>5 DEF vars, sessionRows, boot
  <2> QED BY <2>1 DEF LifeInv, RowLife, LoopLife, OperatorLife, OnIt, BootLife, Calls
<1> QED BY <1>1, <1>2, <1>3, <1>4, <1>5, RecoverLife DEF Next

\* Every step of the orchestrator is a step of the lifecycle or leaves the states alone.
LEMMA StepMaps ==
  ASSUME Undisturbed, TypeOK, Shape, ChildShape, LoopInv, LifeInv, [Next]_vars
  PROVE  [Lifecycle!Next]_<<st, phase = "recover">>
<1>1. ASSUME st' = st PROVE Lifecycle!Restart
  BY <1>1 DEF Lifecycle!Restart
<1>2. ASSUME NEW t \in Thread, TxWrite(t), tx[t].who \in Session
      PROVE  \E s \in Session : Lifecycle!Admit(s) \/ Lifecycle!Rest(s) \/ Lifecycle!Requeue(s) \/ Lifecycle!Recover(s)
  <2> DEFINE w == tx[t].who
  <2>1. /\ pc[t] = "write" /\ st' = [st EXCEPT ![w] = tx[t].to] /\ phase' = phase
    BY <1>2 DEF TxWrite, boot
  <2>2. CASE tx[t].to = "running" /\ st[w] = "queued"
    BY <1>2, <2>1, <2>2 DEF Lifecycle!Admit, Lifecycle!Move
  <2>3. CASE tx[t].to \in Rested /\ st[w] = "running"
    BY <1>2, <2>1, <2>3 DEF Lifecycle!Rest, Lifecycle!Move, Rested
  <2>4. CASE tx[t].to = "queued" /\ st[w] \in Suspended
    BY <1>2, <2>1, <2>4 DEF Lifecycle!Requeue, Lifecycle!Move, Suspended
  <2>5. CASE phase = "recover" /\ tx[t].to = "queued" /\ st[w] = "running"
    BY <1>2, <2>1, <2>5 DEF Lifecycle!Recover, Lifecycle!Move
  <2> QED BY <1>2, <2>1, <2>2, <2>3, <2>4, <2>5, WriteFits
<1>3. ASSUME NEW t \in Thread, Shared(t) PROVE Lifecycle!Next
  <2>1. ~Settle(t)
    BY NoneSettles DEF Settle, LifeInv
  <2>2. CASE TxCheck(t)
    BY <1>1, <2>2 DEF TxCheck, sessionRows, Lifecycle!Next
  <2>3. CASE TxWrite(t)
    <3>1. tx[t].who \in Session
      BY <2>3 DEF TxWrite, ChildShape, InCall
    <3> QED BY <1>2, <2>3, <3>1 DEF Lifecycle!Next
  <2> QED BY <1>3, <2>1, <2>2, <2>3 DEF Shared
<1>4. ASSUME Next, \A t \in Thread : ~Shared(t) PROVE st' = st
  BY <1>4, RunLife, ServeLife, RecordingLife, RecoverLife DEF Next, sessionRows
<1>5. CASE Next
  BY <1>1, <1>3, <1>4, <1>5 DEF Lifecycle!Next
<1>6. CASE UNCHANGED vars
  BY <1>1, <1>6 DEF vars, sessionRows, Lifecycle!Next
<1> QED BY <1>5, <1>6

\* The orchestrator implements the lifecycle, over every suspension, verdict, retry, manual route,
\* failure, crash and crash of the recovery, for sessions without sub-circuits, no cancellation and one
\* operator call at a time: no call writes over a state that another has written since it read the row.
THEOREM FollowsLifecycle == Undisturbed => (Spec => LifecycleSpec)
<1> SUFFICES ASSUME Undisturbed PROVE Spec => LifecycleSpec
  OBVIOUS
<1>1. Init => Lifecycle!Init
  BY DEF Init, Lifecycle!Init
<1>2. Typed /\ LoopInv /\ LifeInv /\ [Next]_vars => LifeInv'
  BY LifeStep
<1>3. Typed /\ LoopInv /\ LifeInv /\ [Next]_vars => [Lifecycle!Next]_<<st, phase = "recover">>
  BY StepMaps DEF Typed
<1>4. Spec => [](Typed /\ LoopInv /\ LifeInv)
  BY TypedInit, TypedStep, LoopInit, LoopStep, LifeInit, <1>2, PTL DEF Spec
<1> QED BY <1>1, <1>3, <1>4, PTL DEF Spec, LifecycleSpec, Lifecycle!Spec

-------------------------------------------------------------------------------
(***************************************************************************)
(* OneLiveChild, of sub-circuits that run no sub-circuit, with one         *)
(* operator, no cancellation and no manual route; the README says how it   *)
(* fails without each.  The child is made, linked in the row and linked in *)
(* the log by three steps of its parent's loop: from the first of them the *)
(* loop has it, from the last the log's cursor, and a new step is started  *)
(* when the cursor's child is finished.  A finished child stays finished,  *)
(* as it has no child that would wake it and its loop and the one operator *)
(* never write its row from a state that is out of date.                   *)
(***************************************************************************)
\* The steps from which no sub-circuit is reached.
Flat == UNION {B \in SUBSET Step : \A x \in B : /\ Kind[x] # "circuit"
                                                /\ \A e \in Exits[x] : Target[x][e] \in B \cup {Done}}

\* Sub-circuits run no sub-circuits, and no gate comes before one.
Orderly ==
  /\ "cancel" \notin Ops /\ "route" \notin Ops
  /\ \A o, p \in Operator : o = p
  /\ \A x \in Step : /\ Kind[x] = "circuit" => Entry[ChildCircuit[x]] \in Flat
                     /\ Kind[x] = "gate" => x \in Flat

\* A session that will start no child any more.
InFlat(s) ==
  /\ IF cur[s].status = "none" THEN Entry[circ[s]] \in Flat ELSE cur[s].step \in Flat
  /\ pc[s] \in AtStep => loc[s].step \in Flat

\* A loop at a circuit step is at the step of the log's cursor.
AtChild(s) == pc[s] \in {"spawn", "link-row", "link-log", "wait"} \/ (pc[s] = "assert" /\ loc[s].reattach)
AtCursor(s) == AtChild(s) =>
  /\ Kind[loc[s].step] = "circuit" /\ cur[s].step = loc[s].step /\ cur[s].att = loc[s].att
  /\ cur[s].status \in Interruptible

\* The loop of p, or the log, knows c as the child p is to wait for.
Linked(p, c) ==
  \/ pc[p] \in {"link-row", "link-log"} /\ loc[p].kid = c
  \/ /\ cur[p].kid = c /\ Kind[cur[p].step] = "circuit" /\ cur[p].status \in Interruptible
     /\ \/ pc[p] \in {"idle", "end", "check", "write", "settle", "again", "position"}
        \/ (pc[p] = "wait" \/ (pc[p] = "assert" /\ loc[p].reattach)) /\ loc[p].kid = c

RowFits(s) ==
  /\ st[s] = "none" => pc[s] = "idle" /\ cur[s].status = "none" /\ det[s].kid = None
  /\ det[s].why = "gate" => InFlat(s)

\* What the loop of a child writes to its row fits the row as it is.
KidLife(c) ==
  /\ pc[c] \in Working => st[c] = "running"
  /\ Calls(c) /\ tx[c].who = c =>
       /\ tx[c].det.kid = None
       /\ \/ tx[c].to = "running" /\ tx[c].then = "position" /\ st[c] = "queued"
          \/ tx[c].to \in Rested /\ tx[c].then = "end" /\ st[c] = "running"
KidFits(c) == IsChild(c) =>
  /\ st[parent[c]] # "none" /\ parent[parent[c]] = None
  /\ InFlat(c) /\ det[c].kid = None
  /\ st[c] \notin Terminal => Linked(parent[c], c)
  /\ KidLife(c)

LoopFits(s) ==
  /\ pc[s] = "gate" \/ GateCall(s) => InFlat(s)
  /\ AtCursor(s)
  /\ pc[s] \in InCall => st[tx[s].who] # "none"
  /\ Calls(s) => tx[s].who = s \/ ~IsChild(tx[s].who)

\* An operator call about a child finds it suspended from its start to its write.
OnHead == {"retry-read", "retry-child", "retry-queue", "verdict", "exit-log", "exit-row"}
OpStack(o) ==
  /\ \A i \in DOMAIN stack[o] : st[stack[o][i]] # "none" /\ (IsChild(stack[o][i]) => i = 1)
  /\ pc[o] \in OnHead /\ stack[o] # << >> /\ IsChild(Head(stack[o])) => st[Head(stack[o])] \in Suspended
OpCall(o) ==
  /\ pc[o] \in InCall => st[tx[o].who] # "none"
  /\ Calls(o) /\ IsChild(tx[o].who) =>
       st[tx[o].who] \in Suspended /\ tx[o].to = "queued" /\ tx[o].det.kid = None
  /\ pc[o] \in InCall /\ tx[o].then = "retry-queue" => \A i \in DOMAIN stack[o] : ~IsChild(stack[o][i])
OpFits(o) ==
  /\ pc[o] \notin {"cancel-write", "cancel-children", "cancel-next"}
  /\ OpStack(o) /\ OpCall(o)
  /\ pc[o] = "retry-child" => stack[o] # << >> /\ (IsChild(Head(stack[o])) => loc[o].kid = None)
  /\ pc[o] \in {"verdict", "exit-log"} => InFlat(Head(stack[o])) /\ loc[o].step \in Flat

ChildInv ==
  /\ \A s \in Session : RowFits(s) /\ KidFits(s) /\ LoopFits(s)
  /\ \A o \in Operator : OpFits(o)

LEMMA FlatClosed ==
  /\ Flat \subseteq Step
  /\ \A x \in Flat : Kind[x] # "circuit" /\ \A e \in Exits[x] : Target[x][e] \in Flat \cup {Done}
<1>1. ASSUME NEW x \in Flat
      PROVE  x \in Step /\ Kind[x] # "circuit" /\ \A e \in Exits[x] : Target[x][e] \in Flat \cup {Done}
  <2>1. PICK B \in SUBSET Step : /\ x \in B
                                 /\ \A y \in B : /\ Kind[y] # "circuit"
                                                 /\ \A e \in Exits[y] : Target[y][e] \in B \cup {Done}
    BY DEF Flat
  <2>2. B \subseteq Flat
    BY <2>1 DEF Flat
  <2> QED BY <2>1, <2>2
<1> QED BY <1>1

LEMMA ChildInit == Init => ChildInv
<1> SUFFICES ASSUME Init PROVE ChildInv
  OBVIOUS
<1>1. \A t \in Thread : pc[t] = "idle"
  BY DEF Init
<1>2. \A s \in Session : /\ cur[s] = NoCursor /\ det[s] = Plain("none") /\ parent[s] = None
  BY DEF Init
<1>3. NoCursor.status = "none" /\ Plain("none").kid = None /\ Plain("none").why = "none"
  BY DEF NoCursor, Plain
<1>4. \A c : ~IsChild(c)
  BY <1>2, ThreadsAssumption DEF IsChild, IsChildIn
<1>5. \A s \in Session : RowFits(s) /\ KidFits(s) /\ LoopFits(s)
  BY <1>1, <1>2, <1>3, <1>4 DEF RowFits, KidFits, LoopFits, GateCall, Calls, InCall, AtCursor, AtChild, Thread
<1>6. \A o \in Operator : OpFits(o)
  <2>1. \A o \in Operator : stack[o] = << >> /\ pc[o] = "idle"
    BY <1>1 DEF Init, Thread
  <2> QED BY <2>1 DEF OpFits, OpStack, OpCall, OnHead, Calls, InCall
<1> QED BY <1>5, <1>6 DEF ChildInv

-------------------------------------------------------------------------------
\* Where a step of the loop of s leaves its locals: at the step it was at, at the
\* cursor's, or at one that these lead to.
LEMMA EnterStep ==
  ASSUME TypeOK, NEW s \in Session, NEW x, NEW visit, NEW att, NEW V, NEW A, NEW kid,
         Enter(s, x, visit, att, V, A, kid)
  PROVE  /\ pc'[s] = "assert" /\ loc'[s].step = x /\ loc'[s].att = att
         /\ loc'[s].kid = kid /\ loc'[s].reattach = (kid # None)
<1> DEFINE l == [NoLocals EXCEPT !.step = x, !.visit = visit, !.att = att, !.tries = 1,
                                 !.kid = kid, !.reattach = (kid # None)]
<1>1. l.step = x /\ l.att = att /\ l.kid = kid /\ l.reattach = (kid # None)
  BY DEF NoLocals
<1>2. loc' = [loc EXCEPT ![s] = l] /\ pc' = [pc EXCEPT ![s] = "assert"]
  BY DEF Enter, Goto
<1> HIDE DEF l
<1>3. loc'[s] = l /\ pc'[s] = "assert"
  BY <1>2 DEF TypeOK, Thread
<1> QED BY <1>1, <1>3

LEMMA CallStep ==
  ASSUME TypeOK, NEW s \in Session, NEW to, NEW d, NEW then, Transition(s, s, to, d, then)
  PROVE  /\ pc'[s] = "check" /\ tx'[s].who = s /\ tx'[s].to = to /\ tx'[s].det = d /\ tx'[s].then = then
         /\ pc'[s] \notin AtStep
<1> DEFINE c == [who |-> s, to |-> to, det |-> d, wake |-> FALSE, then |-> then]
<1>1. c.who = s /\ c.to = to /\ c.det = d /\ c.then = then
  OBVIOUS
<1>2. pc' = [pc EXCEPT ![s] = "check"] /\ tx' = [tx EXCEPT ![s] = c]
  BY DEF Transition, Goto
<1> HIDE DEF c
<1>3. pc'[s] = "check" /\ tx'[s] = c
  BY <1>2 DEF TypeOK, Thread
<1> QED BY <1>1, <1>3 DEF AtStep, AtExit

LEMMA SuspendStep ==
  ASSUME TypeOK, NEW s \in Session, NEW why, NEW kid, Suspend(s, why, kid)
  PROVE  /\ pc'[s] = "check" /\ tx'[s].who = s /\ tx'[s].det.why = why /\ tx'[s].then = "end"
         /\ pc'[s] \notin AtStep
<1>1. PICK d : d = [Plain(why) EXCEPT !.kid = kid]
  OBVIOUS
<1>2. d.why = why /\ Transition(s, s, "suspended-error", d, "end")
  BY <1>1, PlainWhy DEF Suspend
<1> QED BY <1>2, CallStep

LEMMA MoveStep ==
  ASSUME TypeOK, NEW s \in Session, NEW label, Goto(s, label)
  PROVE  pc'[s] = label
BY DEF TypeOK, Thread, Goto

\* The label a loop is at, and whom its call is about, after each way a step may end.
Onward(s, x) ==
  \/ pc'[s] = "check" /\ tx'[s].who = s /\ tx'[s].det.why \notin Waits
  \/ pc'[s] = "assert" /\ ~loc'[s].reattach /\ loc'[s].step = x

LEMMA NewVisitStep ==
  ASSUME TypeOK, NEW s \in Session, NEW x, NEW V, NEW A, NewVisit(s, x, V, A)
  PROVE  Onward(s, x)
<1>1. CASE Suspend(s, "max-visits-exceeded", None)
  BY <1>1, SuspendStep DEF Onward, Waits, Behind
<1>2. ASSUME NEW visit, NEW att, NEW W, Enter(s, x, visit, att, W, A, None) PROVE Onward(s, x)
  <2>1. pc'[s] = "assert" /\ loc'[s].step = x /\ loc'[s].reattach = (None # None)
    BY <1>2, EnterStep
  <2> QED BY <2>1 DEF Onward
<1> QED BY <1>1, <1>2 DEF NewVisit

LEMMA FollowStep ==
  ASSUME TypeOK, NEW s \in Session, NEW x, NEW e, NEW V, NEW A, Follow(s, x, e, V, A)
  PROVE  \/ pc'[s] = "complete"
         \/ Target[x][e] # Done /\ Onward(s, Target[x][e])
BY MoveStep, NewVisitStep DEF Follow

LEMMA FailAttemptStep ==
  ASSUME TypeOK, NEW s \in Session, NEW retry, NEW why, why \notin Waits, NEW kid, FailAttempt(s, retry, why, kid)
  PROVE  Onward(s, loc[s].step)
<1>1. CASE retry /\ loc[s].tries < MaxTries
  <2>1. PICK a : loc' = [loc EXCEPT ![s].att = a, ![s].tries = @ + 1, ![s].reattach = FALSE, ![s].kid = None]
    BY <1>1 DEF FailAttempt
  <2>2. loc'[s].reattach = FALSE /\ loc'[s].step = loc[s].step
    BY <2>1 DEF TypeOK, Thread, Locals
  <2> QED BY <1>1, <2>2, MoveStep DEF FailAttempt, Onward
<1>2. CASE ~(retry /\ loc[s].tries < MaxTries)
  <2>1. PICK r : r \notin Waits /\ \E k : Suspend(s, r, k)
    <3>1. "retries-exhausted" \notin Waits
      BY DEF Waits, Behind
    <3> QED BY <1>2, <3>1 DEF FailAttempt
  <2> QED BY <2>1, SuspendStep DEF Onward
<1> QED BY <1>1, <1>2

\* The cursor stays as it is or is put at the step the loop works on.
CursorFrom(s) == cur'[s] = cur[s] \/ (cur'[s].status # "none" /\ cur'[s].step = loc[s].step)
LogStays(s) == \A r \in Session : r # s => cur'[r] = cur[r]

LEMMA LogStartedStep ==
  ASSUME TypeOK, NEW s \in Session, NEW x, NEW a, NEW v, LogStarted(s, x, a, v)
  PROVE  /\ LogStays(s) /\ cur'[s].step = x /\ cur'[s].att = a /\ cur'[s].status = "running"
<1> DEFINE c == [NoCursor EXCEPT !.step = x, !.att = a, !.visit = v, !.status = "running"]
<1>1. c.step = x /\ c.att = a /\ c.status = "running"
  BY DEF NoCursor
<1>2. cur' = [cur EXCEPT ![s] = c]
  BY DEF LogStarted
<1> HIDE DEF c
<1> QED BY <1>1, <1>2 DEF TypeOK, LogStays

LEMMA LogExitedStep ==
  ASSUME TypeOK, NEW s \in Session, NEW x, NEW a, NEW v, NEW e, LogExited(s, x, a, v, e)
  PROVE  LogStays(s) /\ cur'[s].step = x /\ cur'[s].status = "exited"
<1> DEFINE c == [NoCursor EXCEPT !.step = x, !.att = a, !.visit = v, !.status = "exited", !.exit = e]
<1>1. c.step = x /\ c.status = "exited"
  BY DEF NoCursor
<1>2. cur' = [cur EXCEPT ![s] = c]
  BY DEF LogExited
<1> HIDE DEF c
<1> QED BY <1>1, <1>2 DEF TypeOK, LogStays

LEMMA LogFailedStep ==
  ASSUME TypeOK, NEW s \in Session, NEW a, LogFailed(s, loc[s].step, a)
  PROVE  LogStays(s) /\ CursorFrom(s)
<1>1. CASE cur' = cur
  BY <1>1 DEF LogStays, CursorFrom
<1>2. CASE cur[s].step = loc[s].step /\ cur' = [cur EXCEPT ![s].status = "failed"]
  <2>1. cur[s] \in Cursor
    BY DEF TypeOK
  <2>2. cur'[s].step = cur[s].step /\ cur'[s].status = "failed" /\ LogStays(s)
    BY <1>2, <2>1 DEF TypeOK, Cursor, LogStays
  <2> QED BY <1>2, <2>2 DEF CursorFrom
<1> QED BY <1>1, <1>2 DEF LogFailed

\* A step of the loop of s, outside a transition().
LoopMoves(s) == Run(s) \/ Admit(s) \/ Recording(s)

LEMMA LoopStays ==
  ASSUME TypeOK, NEW s \in Session, LoopMoves(s)
  PROVE  Alone(s) /\ UNCHANGED <<stack, phase, crashes>> /\ (~Spawn(s) => UNCHANGED sessionRows)
<1>1. Alone(s)
  BY RunAlone, RecordingPlain DEF LoopMoves, Plainly
<1>2. UNCHANGED <<stack, phase, crashes>> /\ (~Spawn(s) => UNCHANGED sessionRows)
  BY DEF LoopMoves, Run, Admit, Recording, Position, Start, StopCancelled, OverBudget, WorkExit, WorkFail, Spawn,
     LinkRow, LinkLog, WaitExit, WaitCancelled, WaitPark, ParkedAgain, GateOpen, GateEmpty, Complete, End,
     ExitLog, ExitRow, boot
<1> QED BY <1>1, <1>2

LEMMA LinkLogStep ==
  ASSUME TypeOK, NEW s \in Session, LinkLog(s), AtCursor(s)
  PROVE  /\ pc[s] = "link-log" /\ pc'[s] = "wait" /\ loc' = loc /\ LogStays(s)
         /\ cur'[s].kid = loc[s].kid /\ cur'[s].step = cur[s].step /\ cur'[s].att = cur[s].att
         /\ cur'[s].status = cur[s].status
<1>1. pc[s] = "link-log" /\ pc'[s] = "wait" /\ loc' = loc
  BY MoveStep DEF LinkLog
<1>2. cur' = [cur EXCEPT ![s].kid = loc[s].kid] /\ cur[s] \in Cursor
  BY <1>1 DEF LinkLog, AtCursor, AtChild, TypeOK
<1> QED BY <1>1, <1>2 DEF TypeOK, Cursor, LogStays

LEMMA CursorMoves ==
  ASSUME TypeOK, NEW s \in Session, LoopMoves(s), AtCursor(s)
  PROVE  LogStays(s) /\ (cur'[s] = cur[s] \/ (pc[s] \in AtStep /\ CursorFrom(s)))
<1>1. CASE LinkLog(s)
  BY <1>1, LinkLogStep DEF AtCursor, AtChild, Interruptible, AtStep, CursorFrom
<1>2. CASE Start(s)
  <2>1. CASE LogStarted(s, loc[s].step, loc[s].att, loc[s].visit)
    BY <1>2, <2>1, LogStartedStep DEF Start, AtStep, CursorFrom
  <2>2. CASE cur' = cur
    BY <2>2 DEF LogStays
  <2> QED BY <1>2, <2>1, <2>2 DEF Start, log
<1>3. CASE ExitLog(s)
  BY <1>3, LogExitedStep DEF ExitLog, About, AtStep, AtExit, CursorFrom
<1>4. CASE WorkFail(s) \/ WaitCancelled(s) \/ GateEmpty(s) \/ WaitExit(s)
  <2>1. CASE LogFailed(s, loc[s].step, loc[s].att)
    BY <1>4, <2>1, LogFailedStep DEF WorkFail, WaitCancelled, GateEmpty, WaitExit, AtStep
  <2>2. CASE cur' = cur
    BY <2>2 DEF LogStays
  <2> QED BY <1>4, <2>1, <2>2 DEF WorkFail, WaitCancelled, GateEmpty, WaitExit, FailAttempt, log
<1>5. CASE cur' = cur
  BY <1>5 DEF LogStays
<1> QED BY <1>1, <1>2, <1>3, <1>4, <1>5 DEF LoopMoves, Run, Admit, Recording, Position, StopCancelled,
     OverBudget, WorkExit, Spawn, LinkRow, WaitPark, ParkedAgain, GateOpen, Complete, End, ExitRow, log

\* The step a loop is at after a step of its own.
LEMMA StepFrom ==
  ASSUME TypeOK, NEW s \in Session, LoopMoves(s), pc'[s] \in AtStep
  PROVE  \/ pc[s] \in AtStep /\ loc'[s].step = loc[s].step
         \/ /\ pc[s] = "position"
            /\ \/ cur[s].status = "none" /\ loc'[s].step = Entry[circ[s]]
               \/ cur[s].status \in Interruptible /\ loc'[s].step = cur[s].step
               \/ /\ cur[s].status = "exited" /\ Target[cur[s].step][cur[s].exit] # Done
                  /\ loc'[s].step = Target[cur[s].step][cur[s].exit]
         \/ /\ pc[s] = "exit-row" /\ Target[loc[s].step][loc[s].exit] # Done
            /\ loc'[s].step = Target[loc[s].step][loc[s].exit]
<1>0. s \in Thread /\ loc[s] \in Locals /\ "check" \notin AtStep /\ "complete" \notin AtStep
  BY DEF Thread, TypeOK, AtStep, AtExit
<1>1. CASE Position(s)
  <2>1. CASE Suspend(s, "config-error", None)
    BY <2>1, SuspendStep
  <2>2. CASE cur[s].status = "none" /\ NewVisit(s, Entry[circ[s]], visits[s], attempts[s])
    BY <1>0, <1>1, <2>2, NewVisitStep DEF Position, Onward
  <2>3. CASE cur[s].status = "exited" /\ Follow(s, cur[s].step, cur[s].exit, visits[s], attempts[s])
    BY <1>0, <1>1, <2>3, FollowStep DEF Position, Onward
  <2>4. CASE cur[s].status \in {"running", "failed"} /\ \E a, kid : Enter(s, cur[s].step, cur[s].visit, a,
                                                                           visits[s], attempts[s], kid)
    BY <1>1, <2>4, EnterStep DEF Position, Interruptible
  <2> QED BY <1>1, <2>1, <2>2, <2>3, <2>4 DEF Position
<1>2. CASE ExitRow(s)
  <2>1. Follow(s, loc[s].step, loc[s].exit, mVisits[s], mAttempts[s]) /\ pc[s] = "exit-row"
    BY <1>2 DEF ExitRow, About
  <2> QED BY <1>0, <2>1, FollowStep DEF Onward
<1>3. CASE Admit(s) \/ OverBudget(s) \/ GateOpen(s) \/ Complete(s) \/ WaitPark(s)
  BY <1>3, CallStep, SuspendStep DEF Admit, OverBudget, GateOpen, Complete, WaitPark
<1>4. CASE StopCancelled(s) \/ End(s) \/ ParkedAgain(s)
  BY <1>4, MoveStep DEF StopCancelled, End, ParkedAgain, AtStep, AtExit
<1>5. CASE Start(s) \/ LinkRow(s) \/ LinkLog(s) \/ ExitLog(s)
  BY <1>5 DEF Start, LinkRow, LinkLog, ExitLog, AtStep, AtExit
<1>6. CASE WorkExit(s) \/ Spawn(s)
  <2>1. loc'[s].step = loc[s].step
    BY <1>0, <1>6 DEF WorkExit, Spawn, TypeOK, Locals
  <2> QED BY <1>6, <2>1 DEF WorkExit, Spawn, AtStep, AtExit
<1>7. CASE WorkFail(s) \/ WaitCancelled(s) \/ GateEmpty(s)
  <2>1. Onward(s, loc[s].step) /\ pc[s] \in AtStep
    BY <1>7, FailAttemptStep DEF WorkFail, WaitCancelled, GateEmpty, AtStep, Waits, Behind
  <2> QED BY <1>0, <2>1 DEF Onward
<1>8. CASE WaitExit(s)
  <2>1. CASE \E e \in Exits[loc[s].step] : loc' = [loc EXCEPT ![s].exit = e]
    BY <1>0, <1>8, <2>1 DEF WaitExit, TypeOK, Locals, AtStep
  <2>2. CASE ~\E e \in Exits[loc[s].step] : loc' = [loc EXCEPT ![s].exit = e]
    <3>1. Onward(s, loc[s].step) /\ pc[s] \in AtStep
      BY <1>8, <2>2, FailAttemptStep DEF WaitExit, AtStep, Waits, Behind
    <3> QED BY <1>0, <3>1 DEF Onward
  <2> QED BY <2>1, <2>2
<1> QED BY <1>1, <1>2, <1>3, <1>4, <1>5, <1>6, <1>7, <1>8 DEF LoopMoves, Run, Recording

\* A session in its flat part stays in it.
LEMMA InFlatStays ==
  ASSUME TypeOK, Shape, NEW s \in Session, LoopMoves(s), AtCursor(s), circ'[s] = circ[s], InFlat(s)
  PROVE  InFlat(s)'
<1>1. CASE pc'[s] \in AtStep
  <2>1. loc'[s].step \in Flat
    <3>1. cur[s].status # "none" => cur[s].step \in Flat
      BY DEF InFlat
    <3>2. cur[s].status = "exited" => cur[s].exit \in Exits[cur[s].step]
      BY DEF Shape, CursorShape
    <3>3. pc[s] = "exit-row" => loc[s].step \in Flat /\ loc[s].exit \in Exits[loc[s].step]
      BY DEF Shape, StepShape, AtExit, AtStep, InFlat, Thread
    <3> QED BY <1>1, <3>1, <3>2, <3>3, StepFrom, FlatClosed DEF InFlat, Interruptible
  <2>2. cur'[s] = cur[s] \/ (cur'[s].status # "none" /\ cur'[s].step \in Flat)
    BY CursorMoves DEF InFlat, CursorFrom
  <2> QED BY <2>1, <2>2 DEF InFlat
<1>2. CASE pc'[s] \notin AtStep
  BY <1>2, CursorMoves DEF InFlat, CursorFrom
<1> QED BY <1>1, <1>2

-------------------------------------------------------------------------------
\* A child has no child, and its loop does what a loop without children does.
LEMMA KidAlone ==
  ASSUME TypeOK, OwnKids, ChildInv, NEW c \in Session, IsChild(c)
  PROVE  /\ ~NeedsKid(c) /\ cur[c].kid = None /\ pc[c] # "spawn"
         /\ pc[c] \in AtStep => Kind[loc[c].step] # "circuit"
         /\ cur[c].status # "none" => Kind[cur[c].step] # "circuit"
<1>1. \A k : ~Adopted(c, k)
  BY ThreadsAssumption DEF ChildInv, KidFits, Adopted, AdoptedIn, IsChild, IsChildIn
<1>2. /\ pc[c] \in AtStep => Kind[loc[c].step] # "circuit"
      /\ cur[c].status # "none" => Kind[cur[c].step] # "circuit"
  BY FlatClosed DEF ChildInv, KidFits, InFlat
<1>3. pc[c] # "spawn"
  BY <1>2 DEF ChildInv, LoopFits, AtCursor, AtChild, AtStep
<1> QED BY <1>1, <1>2, <1>3 DEF OwnKids

LEMMA KidRuns ==
  ASSUME TypeOK, Shape, OwnKids, ChildInv, NEW s \in Session, IsChild(s), LoopMoves(s)
  PROVE  LoopLife(s)'
<1>0. /\ s \in Thread /\ ~NeedsKid(s) /\ cur[s].kid = None /\ pc[s] # "spawn" /\ KidLife(s)
      /\ pc[s] \in AtStep => Kind[loc[s].step] # "circuit"
  BY KidAlone DEF Thread, ChildInv, KidFits
<1>1. ~(Spawn(s) \/ LinkRow(s) \/ LinkLog(s) \/ WaitExit(s) \/ WaitCancelled(s) \/ WaitPark(s) \/ ParkedAgain(s))
  BY <1>0 DEF NeedsKid, Spawn, LinkRow, LinkLog, WaitExit, WaitCancelled, WaitPark, ParkedAgain
<1>2. UNCHANGED sessionRows /\ st' = st
  BY <1>1, LoopStays DEF sessionRows
<1>3. CASE Admit(s)
  <2>1. Plain("none").kid = None
    BY DEF Plain
  <2> QED BY <1>2, <1>3, <2>1, LifeCall DEF Admit
<1>4. CASE Position(s)
  <2>1. st'[s] = "running"
    BY <1>0, <1>2, <1>4 DEF Position, KidLife, Working
  <2> QED BY <1>4, <2>1, LifeSuspend, LifeNewVisit, LifeFollow, LifeEnter DEF Position
<1>5. CASE Start(s)
  <2>1. st'[s] = "running" /\ Kind[loc[s].step] # "circuit"
    BY <1>0, <1>2, <1>5 DEF Start, KidLife, Working, AtStep
  <2> QED BY <1>5, <2>1, LifeMove DEF Start, Goto
<1>6. CASE OverBudget(s) \/ WorkFail(s) \/ GateEmpty(s)
  <2>1. st'[s] = "running"
    BY <1>0, <1>2, <1>6 DEF OverBudget, WorkFail, GateEmpty, KidLife, Working
  <2> QED BY <1>6, <2>1, LifeSuspend, LifeFailAttempt DEF OverBudget, WorkFail, GateEmpty
<1>7. CASE WorkExit(s) \/ ExitLog(s)
  <2>1. st'[s] = "running"
    BY <1>0, <1>2, <1>7 DEF WorkExit, ExitLog, KidLife, Working
  <2> QED BY <1>7, <2>1, LifeMove DEF WorkExit, ExitLog, Goto
<1>8. CASE GateOpen(s)
  <2>1. st'[s] = "running"
    BY <1>0, <1>2, <1>8 DEF GateOpen, KidLife, Working
  <2>2. PICK d : d = [why |-> "gate", kid |-> None, step |-> loc[s].step, att |-> loc[s].att,
                      visit |-> loc[s].visit]
    OBVIOUS
  <2>3. d.kid = None /\ Transition(s, s, "suspended-gate", d, "end")
    BY <1>8, <2>2 DEF GateOpen
  <2>4. "suspended-gate" \in Rested
    BY DEF Rested
  <2> QED BY <2>1, <2>3, <2>4, LifeCall
<1>9. CASE Complete(s)
  <2>1. st'[s] = "running" /\ Plain("none").kid = None
    BY <1>0, <1>2, <1>9 DEF Complete, KidLife, Working, Plain
  <2> QED BY <1>9, <2>1, LifeCall, LifeSuspend DEF Complete, Rested
<1>10. CASE StopCancelled(s) \/ End(s)
  BY <1>10, LifeMove DEF StopCancelled, End, Goto, Working
<1>11. CASE ExitRow(s)
  <2>1. /\ Follow(s, loc[s].step, loc[s].exit, mVisits[s], mAttempts[s])
        /\ st'[s] = "running"
    BY <1>0, <1>2, <1>11 DEF ExitRow, About, KidLife, Working
  <2> QED BY <2>1, LifeFollow
<1> QED BY <1>1, <1>3, <1>4, <1>5, <1>6, <1>7, <1>8, <1>9, <1>10, <1>11 DEF LoopMoves, Run, Recording

LEMMA LifeOfKid ==
  ASSUME NEW s \in Session
  PROVE  LoopLife(s)' => KidLife(s)'
BY DEF LoopLife, KidLife

-------------------------------------------------------------------------------
\* A step of the loop of s that makes no child.
LEMMA LoopChildren ==
  ASSUME TypeOK, Shape, OwnKids, ChildInv, NEW s \in Session, LoopMoves(s), ~Spawn(s), LoopFits(s)',
         \A c \in Session : parent[c] = s /\ st[c] \notin Terminal /\ Linked(s, c) => Linked(s, c)'
  PROVE  ChildInv'
<1>1. /\ s \in Thread /\ Alone(s) /\ LogStays(s) /\ UNCHANGED <<st, det, parent, circ, stack>>
      /\ \A u \in Thread : u # s => pc'[u] = pc[u] /\ tx'[u] = tx[u] /\ loc'[u] = loc[u]
  BY LoopStays, CursorMoves DEF ChildInv, LoopFits, Thread, sessionRows, Alone, Mine
<1>2. \A c : IsChild(c)' <=> IsChild(c)
  BY <1>1 DEF IsChild
<1>3. \A r \in Session : InFlat(r) => InFlat(r)'
  <2>1. InFlat(s) => InFlat(s)'
    BY <1>1, InFlatStays DEF ChildInv, LoopFits
  <2> QED BY <1>1, <2>1 DEF InFlat, LogStays, Thread
<1>4. st[s] # "none"
  BY DEF ChildInv, RowFits, LoopMoves, Admit, Run, Recording, Position, Start, StopCancelled, OverBudget,
     WorkExit, WorkFail, Spawn, LinkRow, LinkLog, WaitExit, WaitCancelled, WaitPark, ParkedAgain, GateOpen,
     GateEmpty, Complete, End, ExitLog, ExitRow
<1>5. \A r \in Session : RowFits(r)'
  BY <1>1, <1>3, <1>4 DEF ChildInv, RowFits, LogStays, Thread
<1>6. \A r \in Session : LoopFits(r)'
  BY <1>1, <1>2, <1>3 DEF ChildInv, LoopFits, GateCall, Calls, AtCursor, AtChild, LogStays, Thread
<1>7. ASSUME NEW c \in Session, IsChild(c) PROVE KidFits(c)'
  <2>1. KidFits(c) /\ parent[c] \in Session
    BY <1>7 DEF ChildInv, IsChild, IsChildIn
  <2>2. KidLife(c)'
    <3>1. CASE c = s
      BY <1>7, <3>1, KidRuns, LifeOfKid
    <3>2. CASE c # s
      BY <1>1, <1>7, <2>1, <3>2 DEF KidFits, KidLife, Calls, Thread
    <3> QED BY <3>1, <3>2
  <2>3. st[c] \notin Terminal => Linked(parent[c], c)'
    <3>1. PICK p \in Session : p = parent[c]
      BY <2>1
    <3>2. st[c] \notin Terminal => Linked(p, c)
      BY <1>7, <2>1, <3>1 DEF KidFits
    <3>3. CASE p = s
      BY <1>1, <3>1, <3>2, <3>3
    <3>4. CASE p # s
      <4>1. pc'[p] = pc[p] /\ loc'[p] = loc[p] /\ cur'[p] = cur[p]
        BY <1>1, <3>4 DEF LogStays, Thread
      <4> QED BY <1>1, <3>1, <3>2, <4>1 DEF Linked
    <3> QED BY <3>3, <3>4
  <2> QED BY <1>1, <1>3, <1>7, <2>1, <2>2, <2>3 DEF KidFits, Linked
<1>8. \A r \in Session : KidFits(r)'
  BY <1>2, <1>7 DEF KidFits
<1>9. ASSUME NEW o \in Operator PROVE OpFits(o)'
  <2>1. /\ o \in Thread /\ pc'[o] = pc[o] /\ tx'[o] = tx[o] /\ loc'[o] = loc[o] /\ stack'[o] = stack[o]
        /\ OpFits(o)
    BY <1>1, ThreadsAssumption DEF ChildInv, Thread
  <2>2. pc[o] \in {"verdict", "exit-log"} => Head(stack[o]) \in Session
    BY <2>1, AboutType, ThreadsAssumption DEF AtExit, About
  <2> QED BY <1>1, <1>2, <1>3, <2>1, <2>2 DEF OpFits, OpStack, OpCall, Calls
<1> QED BY <1>5, <1>6, <1>8, <1>9 DEF ChildInv

\* How a step of the loop of s may end, those apart that start a step or make its child.
StartsStep(s) == Start(s) \/ Spawn(s) \/ LinkRow(s) \/ LinkLog(s)
TakesUp(s) ==
  /\ pc[s] = "position" /\ Reattaches(s) /\ cur[s].status \in Interruptible /\ cur'[s] = cur[s]
  /\ pc'[s] = "assert" /\ loc'[s].step = cur[s].step /\ loc'[s].att = cur[s].att
  /\ loc'[s].kid = cur[s].kid /\ loc'[s].reattach

LEMMA Outcomes ==
  ASSUME TypeOK, NEW s \in Session, LoopMoves(s), ~StartsStep(s)
  PROVE  \/ pc'[s] = "check" /\ tx'[s].who = s /\ (tx'[s].det.why = "gate" => GateOpen(s))
         \/ pc'[s] = "settle" /\ tx'[s].who = loc[s].kid /\ ParkedAgain(s)
         \/ pc'[s] = "assert" /\ ~loc'[s].reattach
         \/ TakesUp(s)
         \/ pc'[s] \in {"complete", "exit-log", "exit-row", "end", "idle"}
<1>0. "gate" \in Waits
  BY DEF Waits
<1>1. CASE Position(s)
  <2>1. CASE Suspend(s, "config-error", None)
    BY <2>1, SuspendStep
  <2>2. CASE \E x, V, A : NewVisit(s, x, V, A)
    BY <1>0, <2>2, NewVisitStep DEF Onward
  <2>3. CASE \E x, e, V, A : Follow(s, x, e, V, A)
    BY <1>0, <2>3, FollowStep DEF Onward
  <2>4. CASE /\ Reattaches(s) /\ cur[s].status \in {"running", "failed"}
             /\ \E V, A : Enter(s, cur[s].step, cur[s].visit, cur[s].att, V, A, cur[s].kid)
    <3>1. cur[s].kid # None /\ cur' = cur
      BY <1>1, <2>4 DEF Reattaches, Position, log
    <3> QED BY <1>1, <2>4, <3>1, EnterStep DEF TakesUp, Position, Interruptible
  <2>5. ASSUME NEW x, NEW v, NEW a, NEW V, NEW A, Enter(s, x, v, a, V, A, None)
        PROVE  pc'[s] = "assert" /\ ~loc'[s].reattach
    <3>1. pc'[s] = "assert" /\ loc'[s].reattach = (None # None)
      BY <2>5, EnterStep
    <3> QED BY <3>1
  <2> QED BY <1>1, <2>1, <2>2, <2>3, <2>4, <2>5 DEF Position
<1>2. CASE ExitRow(s)
  <2>1. Follow(s, loc[s].step, loc[s].exit, mVisits[s], mAttempts[s])
    BY <1>2 DEF ExitRow, About
  <2> QED BY <1>0, <2>1, FollowStep DEF Onward
<1>3. CASE Admit(s) \/ Complete(s)
  <2>1. Plain("none").why # "gate"
    BY DEF Plain
  <2> QED BY <1>3, <2>1, CallStep, SuspendStep DEF Admit, Complete
<1>4. CASE OverBudget(s) \/ GateOpen(s)
  BY <1>4, CallStep, SuspendStep DEF OverBudget, GateOpen
<1>5. CASE WaitPark(s)
  <2>1. PICK to, d : d.why \in Behind /\ Transition(s, s, to, d, "again")
    BY <1>5 DEF WaitPark, Behind
  <2> QED BY <2>1, CallStep DEF Behind
<1>6. CASE StopCancelled(s) \/ End(s) \/ WorkExit(s) \/ ExitLog(s)
  BY <1>6, MoveStep DEF StopCancelled, End, WorkExit, ExitLog
<1>7. CASE ParkedAgain(s)
  <2>1. CASE SettledMeanwhile(s)
    <3> DEFINE c == [NoCall EXCEPT !.who = loc[s].kid, !.then = "end"]
    <3>1. c.who = loc[s].kid
      BY DEF NoCall
    <3>2. tx' = [tx EXCEPT ![s] = c] /\ pc'[s] = "settle"
      BY <1>7, <2>1, MoveStep DEF ParkedAgain
    <3> HIDE DEF c
    <3>3. tx'[s] = c
      BY <3>2 DEF TypeOK, Thread
    <3> QED BY <1>7, <3>1, <3>2, <3>3
  <2>2. CASE ~SettledMeanwhile(s)
    BY <1>7, <2>2, MoveStep DEF ParkedAgain
  <2> QED BY <2>1, <2>2
<1>8. CASE WorkFail(s) \/ WaitCancelled(s) \/ GateEmpty(s)
  <2>1. Onward(s, loc[s].step)
    BY <1>8, FailAttemptStep DEF WorkFail, WaitCancelled, GateEmpty, Waits, Behind
  <2> QED BY <1>0, <2>1 DEF Onward
<1>9. CASE WaitExit(s)
  <2>1. CASE Goto(s, "exit-log")
    BY <2>1, MoveStep
  <2>2. CASE ~Goto(s, "exit-log")
    <3>1. Onward(s, loc[s].step)
      BY <1>9, <2>2, FailAttemptStep DEF WaitExit, Waits, Behind
    <3> QED BY <1>0, <3>1 DEF Onward
  <2> QED BY <2>1, <2>2
<1> QED BY <1>1, <1>2, <1>3, <1>4, <1>5, <1>6, <1>7, <1>8, <1>9 DEF LoopMoves, Run, Recording, StartsStep

\* A step of the loop keeps the child that is at work.
LEMMA LinkStays ==
  ASSUME TypeOK, NEW s \in Session, LoopMoves(s), ~Spawn(s), AtCursor(s),
         NEW c \in Session, st[c] \notin Terminal, Linked(s, c)
  PROVE  Linked(s, c)'
<1>1. CASE Start(s)
  <2>1. loc[s].reattach /\ pc[s] = "assert"
    BY <1>1 DEF Start, Linked
  <2>2. pc'[s] = "wait" /\ loc' = loc /\ cur' = cur
    BY <1>1, <2>1, MoveStep DEF Start, log
  <2> QED BY <2>1, <2>2 DEF Linked
<1>2. CASE LinkRow(s)
  <2>1. pc[s] = "link-row" /\ pc'[s] = "link-log" /\ loc' = loc
    BY <1>2, MoveStep DEF LinkRow
  <2> QED BY <2>1 DEF Linked
<1>3. CASE LinkLog(s)
  BY <1>3, LinkLogStep DEF Linked, AtCursor, AtChild
<1>4. CASE ~StartsStep(s)
  <2>1. ~(WaitExit(s) \/ WaitCancelled(s))
    BY DEF WaitExit, WaitCancelled, Linked, Terminal
  <2>2. pc[s] \notin {"work", "spawn", "gate", "complete", "exit-log", "exit-row"}
    BY DEF Linked
  <2>3. CASE Position(s)
    <3>1. cur' = cur /\ pc[s] = "position" /\ cur[s].kid = c /\ cur[s].status \in Interruptible
          /\ Kind[cur[s].step] = "circuit"
      BY <2>3 DEF Position, log, Linked
    <3>2. Reattaches(s)
      BY <3>1, ThreadsAssumption DEF Reattaches, Terminal
    <3>3. \/ Suspend(s, "config-error", None)
          \/ \E V, A : Enter(s, cur[s].step, cur[s].visit, cur[s].att, V, A, cur[s].kid)
      BY <2>3, <3>1, <3>2 DEF Position, Interruptible
    <3>4. CASE Suspend(s, "config-error", None)
      BY <3>1, <3>4, SuspendStep DEF Linked
    <3>5. CASE \E V, A : Enter(s, cur[s].step, cur[s].visit, cur[s].att, V, A, cur[s].kid)
      <4>1. pc'[s] = "assert" /\ loc'[s].kid = c /\ loc'[s].reattach = (c # None)
        BY <3>1, <3>5, EnterStep
      <4> QED BY <3>1, <4>1, ThreadsAssumption DEF Linked
    <3> QED BY <3>3, <3>4, <3>5
  <2>4. CASE Admit(s) \/ OverBudget(s) \/ WaitPark(s) \/ ParkedAgain(s) \/ StopCancelled(s) \/ End(s)
    <3>1. cur' = cur /\ pc[s] \notin {"link-row", "link-log"}
      BY <2>4 DEF Admit, OverBudget, WaitPark, ParkedAgain, StopCancelled, End, log
    <3>2. pc'[s] \in {"check", "settle", "end", "idle"}
      BY <1>4, <2>4, MoveStep, CallStep, SuspendStep DEF Admit, OverBudget, WaitPark, ParkedAgain, StopCancelled, End
    <3> QED BY <3>1, <3>2 DEF Linked
  <2> QED BY <1>4, <2>1, <2>2, <2>3, <2>4 DEF LoopMoves, Run, Recording, StartsStep, WorkExit, WorkFail, GateOpen,
                                          GateEmpty, Complete, ExitLog, ExitRow
<1> QED BY <1>1, <1>2, <1>3, <1>4 DEF StartsStep

-------------------------------------------------------------------------------
\* A loop in motion has a row.
LEMMA LoopHasRow ==
  ASSUME ChildInv, NEW s \in Session, LoopMoves(s)
  PROVE  st[s] # "none"
BY DEF ChildInv, RowFits, LoopMoves, Admit, Run, Recording, Position, Start, StopCancelled, OverBudget,
     WorkExit, WorkFail, Spawn, LinkRow, LinkLog, WaitExit, WaitCancelled, WaitPark, ParkedAgain, GateOpen,
     GateEmpty, Complete, End, ExitLog, ExitRow

LEMMA LoopFitsStep ==
  ASSUME Orderly, TypeOK, Shape, Unborn, OwnKids, ChildInv, NEW s \in Session, LoopMoves(s), ~Spawn(s)
  PROVE  LoopFits(s)'
<1>0. /\ s \in Thread /\ st[s] # "none" /\ LoopFits(s) /\ UNCHANGED <<st, parent, circ>>
      /\ pc[s] \in AtStep => loc[s].step \in Step
  BY LoopStays, LoopHasRow DEF Thread, ChildInv, Shape, StepShape, sessionRows
<1>1. CASE Start(s)
  <2>1. CASE loc[s].reattach
    <3>1. pc'[s] = "wait" /\ loc' = loc /\ cur' = cur /\ pc[s] = "assert"
      BY <1>1, <2>1, MoveStep DEF Start, log
    <3> QED BY <1>0, <2>1, <3>1 DEF LoopFits, GateCall, Calls, InCall, AtCursor, AtChild
  <2>2. CASE ~loc[s].reattach
    <3>1. /\ loc' = loc /\ loc[s].step \in Step
          /\ cur'[s].step = loc[s].step /\ cur'[s].att = loc[s].att /\ cur'[s].status = "running"
      BY <1>0, <1>1, <2>2, LogStartedStep DEF Start, AtStep
    <3>2. pc'[s] = IF Kind[loc[s].step] = "circuit" THEN "spawn"
                   ELSE IF Kind[loc[s].step] = "gate" THEN "gate" ELSE "work"
      BY <1>1, <2>2, MoveStep DEF Start
    <3>3. pc'[s] = "gate" => loc[s].step \in Flat
      BY <3>1, <3>2 DEF Orderly
    <3>4. pc'[s] = "gate" => InFlat(s)'
      BY <3>1, <3>3 DEF InFlat
    <3> QED BY <2>2, <3>1, <3>2, <3>4 DEF LoopFits, GateCall, Calls, InCall, AtCursor, AtChild, Interruptible
  <2> QED BY <2>1, <2>2
<1>2. CASE LinkRow(s)
  <2>1. pc[s] = "link-row" /\ pc'[s] = "link-log" /\ loc' = loc /\ cur' = cur
    BY <1>2, MoveStep DEF LinkRow, log
  <2> QED BY <1>0, <2>1 DEF LoopFits, GateCall, Calls, InCall, AtCursor, AtChild
<1>3. CASE LinkLog(s)
  <2>1. /\ pc[s] = "link-log" /\ pc'[s] = "wait" /\ loc' = loc
        /\ cur'[s].step = cur[s].step /\ cur'[s].att = cur[s].att /\ cur'[s].status = cur[s].status
    BY <1>0, <1>3, LinkLogStep DEF LoopFits
  <2> QED BY <1>0, <2>1 DEF LoopFits, GateCall, Calls, InCall, AtCursor, AtChild
<1>4. CASE ~StartsStep(s)
  <2>1. CASE pc'[s] = "check" /\ tx'[s].who = s /\ (tx'[s].det.why = "gate" => GateOpen(s))
    <3>1. ASSUME GateOpen(s) PROVE InFlat(s)'
      BY <1>0, <3>1, InFlatStays DEF GateOpen, LoopFits
    <3> QED BY <1>0, <2>1, <3>1 DEF LoopFits, GateCall, Calls, InCall, AtCursor, AtChild
  <2>2. CASE pc'[s] = "settle" /\ tx'[s].who = loc[s].kid /\ ParkedAgain(s)
    <3>1. Adopted(s, loc[s].kid)
      BY <2>2 DEF OwnKids, NeedsKid, ParkedAgain
    <3>2. st[loc[s].kid] # "none"
      BY <3>1, ThreadsAssumption DEF Unborn, Adopted, AdoptedIn
    <3> QED BY <1>0, <2>2, <3>2 DEF LoopFits, GateCall, Calls, InCall, AtCursor, AtChild
  <2>3. CASE pc'[s] = "assert" /\ ~loc'[s].reattach
    BY <2>3 DEF LoopFits, GateCall, Calls, InCall, AtCursor, AtChild
  <2>4. CASE TakesUp(s)
    BY <2>4 DEF TakesUp, Reattaches, LoopFits, GateCall, Calls, InCall, AtCursor, AtChild
  <2>5. CASE pc'[s] \in {"complete", "exit-log", "exit-row", "end", "idle"}
    BY <2>5 DEF LoopFits, GateCall, Calls, InCall, AtCursor, AtChild
  <2> QED BY <1>4, <2>1, <2>2, <2>3, <2>4, <2>5, Outcomes
<1> QED BY <1>1, <1>2, <1>3, <1>4 DEF StartsStep

LEMMA LoopStepChildren ==
  ASSUME Orderly, TypeOK, Shape, Unborn, OwnKids, ChildInv, NEW s \in Session, LoopMoves(s), ~Spawn(s)
  PROVE  ChildInv'
<1>1. AtCursor(s)
  BY DEF ChildInv, LoopFits
<1> QED BY <1>1, LoopFitsStep, LoopChildren, LinkStays

LEMMA StackHead ==
  ASSUME TypeOK, NEW o \in Operator, stack[o] # << >>
  PROVE  Head(stack[o]) = stack[o][1] /\ 1 \in DOMAIN stack[o] /\ Head(stack[o]) \in Session
BY DEF TypeOK

\* A loop that has its child made is nobody's child and has no other at work.
LEMMA SpawnChildren ==
  ASSUME Orderly, TypeOK, Shape, Unborn, OwnKids, ChildInv, NEW s \in Session, Spawn(s)
  PROVE  ChildInv'
<1>1. PICK c \in Session : /\ st[c] = "none" /\ st' = [st EXCEPT ![c] = "queued"]
                           /\ parent' = [parent EXCEPT ![c] = s]
                           /\ circ' = [circ EXCEPT ![c] = ChildCircuit[loc[s].step]]
                           /\ loc' = [loc EXCEPT ![s].kid = c]
  BY DEF Spawn
<1>2. /\ pc[s] = "spawn" /\ pc'[s] = "link-row" /\ s \in Thread /\ LoopMoves(s)
      /\ UNCHANGED <<det, cur, tx, stack>>
  BY MoveStep DEF Spawn, Thread, LoopMoves, Run, log
<1>3. st[s] # "none" /\ s # c /\ LoopFits(s) /\ parent[c] = None
  BY <1>1, <1>2, LoopHasRow DEF Unborn, ChildInv
<1>4. /\ Kind[loc[s].step] = "circuit" /\ loc[s].step \in Step /\ AtCursor(s)
      /\ Entry[ChildCircuit[loc[s].step]] \in Flat
  BY <1>2, <1>3 DEF LoopFits, AtCursor, AtChild, Shape, StepShape, AtStep, Orderly
<1>5. parent[s] = None
  BY <1>2, KidAlone DEF TypeOK, IsChild, IsChildIn
<1>6. /\ st'[c] = "queued" /\ parent'[c] = s /\ circ'[c] = ChildCircuit[loc[s].step]
      /\ \A r \in Session : r # c => st'[r] = st[r] /\ parent'[r] = parent[r] /\ circ'[r] = circ[r]
      /\ \A u \in Thread : u # s => pc'[u] = pc[u] /\ loc'[u] = loc[u]
      /\ loc'[s].step = loc[s].step /\ loc'[s].att = loc[s].att /\ loc'[s].kid = c
  BY <1>1, <1>2 DEF TypeOK, Locals, Spawn, Goto
<1>7. \A r \in Session : r # c => (IsChild(r)' <=> IsChild(r))
  BY <1>6 DEF IsChild, IsChildIn
<1>8. /\ pc[c] = "idle" /\ cur[c].status = "none" /\ det[c].kid = None
      /\ pc'[c] = "idle" /\ InFlat(c)'
  <2>1. pc[c] = "idle" /\ cur[c].status = "none" /\ det[c].kid = None
    BY <1>1 DEF ChildInv, RowFits
  <2>2. pc'[c] = "idle"
    BY <1>3, <1>6, <2>1 DEF Thread
  <2> QED BY <1>2, <1>4, <1>6, <2>1, <2>2 DEF InFlat, AtStep, AtExit
<1>9. \A r \in Session : InFlat(r) => InFlat(r)'
  <2>1. InFlat(s) => InFlat(s)'
    BY <1>2, <1>3, <1>6 DEF InFlat, AtStep
  <2>2. ASSUME NEW r \in Session, r # s, r # c PROVE InFlat(r) => InFlat(r)'
    <3>1. pc'[r] = pc[r] /\ loc'[r] = loc[r] /\ circ'[r] = circ[r] /\ cur'[r] = cur[r]
      BY <1>2, <1>6, <2>2 DEF Thread
    <3> QED BY <3>1 DEF InFlat
  <2> QED BY <1>8, <2>1, <2>2
<1>10. \A r \in Session : RowFits(r)'
  <2>1. ASSUME NEW r \in Session, r # c PROVE RowFits(r)'
    <3>1. RowFits(r) /\ st'[r] = st[r] /\ det'[r] = det[r] /\ cur'[r] = cur[r]
          /\ (r # s => pc'[r] = pc[r])
      BY <1>2, <1>6, <2>1 DEF ChildInv, Thread
    <3> QED BY <1>3, <1>9, <3>1 DEF RowFits
  <2>2. RowFits(c)'
    BY <1>6, <1>8 DEF RowFits
  <2> QED BY <2>1, <2>2
<1>11. \A r \in Session : LoopFits(r)'
  <2>1. LoopFits(s)'
    BY <1>2, <1>4, <1>6 DEF LoopFits, GateCall, Calls, InCall, AtCursor, AtChild
  <2>2. ASSUME NEW r \in Session, r # s PROVE LoopFits(r)'
    <3>1. pc'[r] = pc[r] /\ loc'[r] = loc[r] /\ cur'[r] = cur[r] /\ tx'[r] = tx[r] /\ LoopFits(r)
      BY <1>2, <1>6, <2>2 DEF Thread, ChildInv
    <3>2. pc[r] \in InCall => st'[tx[r].who] # "none" /\ tx[r].who # c
      BY <1>1, <3>1 DEF LoopFits, TypeOK
    <3>3. Calls(r) => tx[r].who = r \/ ~IsChild(tx[r].who)'
      BY <1>7, <3>1, <3>2 DEF LoopFits, Calls, InCall, IsChild, IsChildIn
    <3> QED BY <1>9, <3>1, <3>2, <3>3 DEF LoopFits, GateCall, Calls, AtCursor, AtChild
  <2> QED BY <2>1, <2>2
<1>12. ASSUME NEW r \in Session, IsChild(r)' PROVE KidFits(r)'
  <2>1. CASE r = c
    <3>1. Linked(s, c)'
      BY <1>2, <1>6 DEF Linked
    <3>2. KidLife(c)'
      BY <1>8 DEF KidLife, Working, Calls
    <3>3. st'[s] # "none" /\ parent'[s] = None
      BY <1>3, <1>5, <1>6
    <3>4. st'[parent'[c]] # "none" /\ parent'[parent'[c]] = None
      BY <1>6, <3>3
    <3>5. det'[c].kid = None
      BY <1>2, <1>8
    <3>6. Linked(parent[c], c)'
      <4>1. PICK p : p = parent'[c]
        OBVIOUS
      <4>2. p = s
        BY <1>6, <4>1
      <4> QED BY <3>1, <4>1, <4>2 DEF Linked
    <3> QED BY <1>8, <2>1, <3>2, <3>4, <3>5, <3>6 DEF KidFits
  <2>2. CASE r # c
    <3>1. IsChild(r) /\ KidFits(r) /\ r # s
      BY <1>5, <1>7, <1>12, <2>2, ThreadsAssumption DEF ChildInv, IsChild, IsChildIn
    <3>2. PICK p \in Session : p = parent[r] /\ p = parent'[r] /\ p # c
      BY <1>1, <1>6, <2>2, <3>1 DEF KidFits, IsChild, IsChildIn
    <3>3. st'[p] # "none" /\ parent'[p] = None
      BY <1>6, <3>1, <3>2 DEF KidFits
    <3>4. pc'[r] = pc[r] /\ tx'[r] = tx[r] /\ det'[r] = det[r] /\ st'[r] = st[r]
      BY <1>2, <1>6, <2>2, <3>1 DEF Thread
    <3>5. KidLife(r)'
      BY <3>1, <3>4 DEF KidFits, KidLife, Calls
    <3>6. st[r] \notin Terminal => Linked(p, r)'
      <4>1. st[r] \notin Terminal => Linked(p, r)
        BY <3>1, <3>2 DEF KidFits
      <4>2. CASE p = s
        BY <1>2, <4>1, <4>2 DEF Linked
      <4>3. CASE p # s
        <5>1. pc'[p] = pc[p] /\ loc'[p] = loc[p] /\ cur'[p] = cur[p]
          BY <1>2, <1>6, <4>3 DEF Thread
        <5> QED BY <4>1, <5>1 DEF Linked
      <4> QED BY <4>2, <4>3
    <3> QED BY <1>9, <3>1, <3>2, <3>3, <3>4, <3>5, <3>6 DEF KidFits, Linked
  <2> QED BY <2>1, <2>2
<1>13. ASSUME NEW o \in Operator PROVE OpFits(o)'
  <2>1. /\ o \in Thread /\ pc'[o] = pc[o] /\ tx'[o] = tx[o] /\ loc'[o] = loc[o] /\ stack'[o] = stack[o]
        /\ OpFits(o)
    BY <1>2, <1>6, ThreadsAssumption DEF ChildInv, Thread
  <2>2. \A i \in DOMAIN stack[o] : stack[o][i] \in Session \ {c}
    BY <1>1, <2>1 DEF OpFits, OpStack, TypeOK
  <2>3. stack[o] # << >> => Head(stack[o]) \in Session \ {c}
    BY <2>2, StackHead
  <2>4. pc[o] \in InCall => st'[tx[o].who] # "none" /\ tx[o].who # c
    BY <1>1, <2>1 DEF OpFits, OpCall, TypeOK
  <2>5. OpStack(o)'
    BY <1>6, <1>7, <2>1, <2>2, <2>3 DEF OpFits, OpStack
  <2>6. OpCall(o)'
    <3>1. Calls(o) /\ IsChild(tx[o].who)' => IsChild(tx[o].who) /\ st'[tx[o].who] = st[tx[o].who]
      BY <1>6, <1>7, <2>1, <2>4 DEF Calls, InCall, IsChild, IsChildIn
    <3> QED BY <1>7, <2>1, <2>2, <2>4, <3>1 DEF OpFits, OpCall, Calls
  <2>7. pc[o] \in {"verdict", "exit-log"} => stack[o] # << >>
    BY DEF Shape, StackShape, AtSession, AtExit
  <2> QED BY <1>7, <1>9, <2>1, <2>3, <2>5, <2>6, <2>7 DEF OpFits
<1> QED BY <1>10, <1>11, <1>12, <1>13 DEF ChildInv, KidFits

-------------------------------------------------------------------------------
\* An operator's step leaves the rows alone and, of the log, every session but one
\* that has no child and starts none.
LEMMA OperatorChildren ==
  ASSUME Orderly, TypeOK, Shape, ChildInv, NEW o \in Operator, Alone(o), UNCHANGED <<st, det, parent, circ>>,
         \A r \in Session : \/ cur'[r] = cur[r]
                            \/ /\ InFlat(r) /\ st[r] # "none"
                               /\ cur'[r].status # "none" /\ cur'[r].step \in Flat,
         OpFits(o)'
  PROVE  ChildInv'
<1>1. /\ \A s \in Session : pc'[s] = pc[s] /\ tx'[s] = tx[s] /\ loc'[s] = loc[s]
      /\ \A c : IsChild(c)' <=> IsChild(c)
  BY ThreadsAssumption DEF Alone, Mine, Thread, IsChild
<1>2. \A r \in Session : InFlat(r) => InFlat(r)'
  BY <1>1 DEF InFlat
<1>3. ASSUME NEW r \in Session, InFlat(r)
      PROVE  ~AtChild(r) /\ \A c : ~Linked(r, c)
  <2>1. ~AtChild(r)
    BY <1>3, FlatClosed DEF ChildInv, LoopFits, AtCursor, AtChild, InFlat, AtStep
  <2> QED BY <1>3, <2>1, FlatClosed DEF Linked, AtChild, InFlat, Interruptible
<1>4. \A r \in Session : RowFits(r)'
  BY <1>1, <1>2 DEF ChildInv, RowFits
<1>5. \A r \in Session : LoopFits(r)'
  BY <1>1, <1>2, <1>3 DEF ChildInv, LoopFits, GateCall, Calls, AtCursor, AtChild
<1>6. ASSUME NEW c \in Session, IsChild(c) PROVE KidFits(c)'
  <2>1. KidFits(c) /\ parent[c] \in Session
    BY <1>6 DEF ChildInv, IsChild, IsChildIn
  <2>2. KidLife(c)'
    BY <1>1, <1>6, <2>1 DEF KidFits, KidLife, Calls
  <2>3. PICK p \in Session : p = parent[c]
    BY <2>1
  <2>4. st[c] \notin Terminal => Linked(p, c)'
    BY <1>1, <1>3, <1>6, <2>1, <2>3 DEF KidFits, Linked
  <2> QED BY <1>2, <1>6, <2>1, <2>2, <2>3, <2>4 DEF KidFits, Linked
<1>7. \A r \in Session : KidFits(r)'
  BY <1>1, <1>6 DEF KidFits
<1>8. \A q \in Operator : OpFits(q)'
  BY DEF Orderly
<1> QED BY <1>4, <1>5, <1>7, <1>8 DEF ChildInv

\* How an operator's call comes to queue the session it is about.
LEMMA OpCallStep ==
  ASSUME TypeOK, ChildInv, NEW o \in Operator, UNCHANGED <<st, parent>>, NEW s \in Session, st[s] # "none",
         IsChild(s) => st[s] \in Suspended, NEW then, Transition(o, s, "queued", Plain("resumed"), then),
         \A i \in DOMAIN stack'[o] : st[stack'[o][i]] # "none" /\ (IsChild(stack'[o][i]) => i = 1),
         then = "retry-queue" => \A i \in DOMAIN stack'[o] : ~IsChild(stack'[o][i])
  PROVE  OpFits(o)'
<1> DEFINE c == [who |-> s, to |-> "queued", det |-> Plain("resumed"), wake |-> FALSE, then |-> then]
<1>1. /\ o \in Thread /\ pc' = [pc EXCEPT ![o] = "check"] /\ tx' = [tx EXCEPT ![o] = c]
      /\ c.who = s /\ c.to = "queued" /\ c.det.kid = None /\ c.then = then
  BY DEF Thread, Transition, Goto, Plain
<1> HIDE DEF c
<1>2. pc'[o] = "check" /\ tx'[o] = c
  BY <1>1 DEF TypeOK
<1>3. \A k : IsChild(k)' <=> IsChild(k)
  BY DEF IsChild
<1> QED BY <1>1, <1>2, <1>3 DEF OpFits, OpStack, OpCall, OnHead, Calls, InCall

\* How it comes to rest at another label.
LEMMA OpMoveStep ==
  ASSUME TypeOK, NEW o \in Operator, UNCHANGED <<st, parent>>, NEW label,
         label \notin InCall \cup {"cancel-write", "cancel-children", "cancel-next"}, pc'[o] = label,
         \A i \in DOMAIN stack'[o] : st[stack'[o][i]] # "none" /\ (IsChild(stack'[o][i]) => i = 1),
         label \in OnHead /\ stack'[o] # << >> /\ IsChild(Head(stack'[o])) => st[Head(stack'[o])] \in Suspended,
         label = "retry-child" => stack'[o] # << >> /\ (IsChild(Head(stack'[o])) => loc'[o].kid = None),
         label \in {"verdict", "exit-log"} => InFlat(Head(stack[o]))' /\ loc'[o].step \in Flat
  PROVE  OpFits(o)'
<1>1. \A k : IsChild(k)' <=> IsChild(k)
  BY DEF IsChild
<1>2. OpStack(o)'
  BY <1>1 DEF OpStack
<1>3. OpCall(o)'
  BY DEF OpCall, Calls, InCall
<1> QED BY <1>1, <1>2, <1>3 DEF OpFits

LEMMA RequestChildren ==
  ASSUME Orderly, TypeOK, Shape, OpenFits, ChildInv, NEW o \in Operator, Request(o)
  PROVE  ChildInv'
<1>0. o \in Thread /\ Alone(o)
  BY ServePlain DEF Plainly, Thread
<1>1. ASSUME NEW s \in Session, Cancel(o, s) \/ ManualRoute(o, s) PROVE FALSE
  BY <1>1 DEF Orderly, Cancel, ManualRoute, Accept
<1>2. UNCHANGED <<st, det, parent, circ, cur>>
  BY <1>1 DEF Request, Retry, Resume, Verdict, sessionRows, log
<1>3. ASSUME NEW s \in Session, Accept(o, "retry", s) \/ Accept(o, "resume", s) \/ Accept(o, "verdict", s)
      PROVE  stack'[o] = <<s>>
  BY <1>3 DEF Accept, TypeOK
<1>4. ASSUME NEW s \in Session, Retry(o, s) PROVE OpFits(o)'
  <2>1. stack'[o] = <<s>> /\ st[s] = "suspended-error" /\ pc'[o] = "retry-child"
    BY <1>0, <1>3, <1>4 DEF Retry, Goto, TypeOK
  <2>2. loc'[o].kid = det[s].kid
    BY <1>0, <1>4 DEF Retry, TypeOK, Locals
  <2>3. IsChild(s) => det[s].kid = None
    BY DEF ChildInv, KidFits
  <2> QED BY <1>2, <2>1, <2>2, <2>3, OpMoveStep DEF OnHead, InCall, Suspended
<1>5. ASSUME NEW s \in Session, Resume(o, s) PROVE OpFits(o)'
  <2>1. stack'[o] = <<s>> /\ st[s] = "suspended-error" /\ Transition(o, s, "queued", Plain("resumed"), "done")
    BY <1>3, <1>5 DEF Resume
  <2> QED BY <1>2, <2>1, OpCallStep DEF Suspended
<1>6. ASSUME NEW s \in Session, Verdict(o, s) PROVE OpFits(o)'
  <2>1. stack'[o] = <<s>> /\ st[s] = "suspended-gate" /\ pc'[o] = "verdict" /\ det[s].why = "gate"
    BY <1>0, <1>3, <1>6 DEF Verdict, Goto, TypeOK
  <2>2. loc'[o].step = det[s].step
    <3>1. PICK e : loc' = [loc EXCEPT ![o] = [NoLocals EXCEPT !.step = det[s].step, !.att = det[s].att,
                                                             !.visit = det[s].visit, !.exit = e]]
      BY <1>6 DEF Verdict
    <3> DEFINE l == [NoLocals EXCEPT !.step = det[s].step, !.att = det[s].att, !.visit = det[s].visit, !.exit = e]
    <3>2. l.step = det[s].step
      BY DEF NoLocals
    <3> HIDE DEF l
    <3>3. loc'[o] = l
      BY <1>0, <3>1 DEF TypeOK, l
    <3> QED BY <3>2, <3>3
  <2>3. det[s].step \in Flat
    <3>1. <<s, det[s].step, det[s].att>> \in open
      BY <1>6 DEF Verdict
    <3>2. det[s].step \in Step /\ Kind[det[s].step] = "gate"
      BY <3>1 DEF OpenFits, IsGate, TypeOK
    <3> QED BY <3>2 DEF Orderly
  <2>4. InFlat(s)
    BY <2>1 DEF ChildInv, RowFits
  <2>5. InFlat(s)'
    <3>1. pc'[s] = pc[s] /\ loc'[s] = loc[s]
      BY <1>0, ThreadsAssumption DEF Alone, Mine, Thread
    <3> QED BY <1>2, <2>4, <3>1 DEF InFlat
  <2>6. Head(stack'[o]) = s
    BY <2>1
  <2>7. InFlat(Head(stack[o]))'
    BY <2>5, <2>6 DEF InFlat
  <2> QED BY <1>2, <2>1, <2>2, <2>3, <2>7, OpMoveStep DEF OnHead, InCall, Suspended
<1> QED BY <1>0, <1>1, <1>2, <1>4, <1>5, <1>6, OperatorChildren DEF Request

\* The sessions under the one that a call is about.
LEMMA StackTail ==
  ASSUME TypeOK, NEW o \in Operator, stack[o] # << >>
  PROVE  \A i \in DOMAIN Tail(stack[o]) : /\ i + 1 \in DOMAIN stack[o] /\ i + 1 # 1
                                          /\ Tail(stack[o])[i] = stack[o][i + 1]
BY DEF TypeOK

LEMMA StackPush ==
  ASSUME TypeOK, NEW o \in Operator, NEW k \in Session
  PROVE  LET q == <<k>> \o stack[o] IN
         /\ q # << >> /\ Head(q) = k
         /\ \A i \in DOMAIN q : \/ i = 1 /\ q[i] = k
                                \/ i # 1 /\ i - 1 \in DOMAIN stack[o] /\ q[i] = stack[o][i - 1]
BY DEF TypeOK

LEMMA ServeChildren ==
  ASSUME Orderly, TypeOK, Shape, ChildInv, NEW o \in Operator, Serve(o)
  PROVE  ChildInv'
<1>0. o \in Thread /\ Alone(o) /\ OpFits(o)
  BY ServePlain DEF Plainly, Thread, ChildInv
<1>1. ~(CancelWrite(o) \/ CancelChildren(o) \/ CancelNext(o))
  BY <1>0 DEF OpFits, CancelWrite, CancelChildren, CancelNext
<1>2. UNCHANGED <<st, det, parent, circ, cur>>
  BY <1>1 DEF Serve, RetryRead, RetryChild, RetryQueue, VerdictClose, Return, sessionRows, log
<1> SUFFICES OpFits(o)'
  BY <1>0, <1>2, OperatorChildren
<1>3. OpStack(o) /\ (stack[o] # << >> => Head(stack[o]) = stack[o][1] /\ 1 \in DOMAIN stack[o])
  BY <1>0, StackHead DEF OpFits
<1>4. CASE RetryRead(o)
  <2>1. pc[o] = "retry-read" /\ stack[o] # << >> /\ stack' = stack
    BY <1>4 DEF RetryRead, Shape, StackShape, AtSession
  <2>2. CASE st[Head(stack[o])] = "suspended-error"
    <3>1. pc'[o] = "retry-child" /\ loc'[o].kid = det[Head(stack[o])].kid
      BY <1>0, <1>4, <2>2 DEF RetryRead, Goto, TypeOK, Locals
    <3>2. IsChild(Head(stack[o])) => det[Head(stack[o])].kid = None
      BY <2>1, StackHead DEF ChildInv, KidFits
    <3> QED BY <1>2, <1>3, <2>1, <2>2, <3>1, <3>2, OpMoveStep DEF OpStack, OnHead, InCall, Suspended
  <2>3. CASE st[Head(stack[o])] # "suspended-error"
    <3>1. pc'[o] = "done"
      BY <1>0, <1>4, <2>3 DEF RetryRead, Goto, TypeOK
    <3> QED BY <1>2, <1>3, <2>1, <3>1, OpMoveStep DEF OpStack, OnHead, InCall
  <2> QED BY <2>2, <2>3
<1>5. CASE RetryChild(o)
  <2>1. /\ pc[o] = "retry-child" /\ stack[o] # << >> /\ loc' = loc
        /\ IsChild(Head(stack[o])) => loc[o].kid = None
    BY <1>0, <1>5 DEF RetryChild, OpFits
  <2>2. CASE loc[o].kid # None /\ st[loc[o].kid] = "suspended-error"
    <3>1. PICK k \in Session : k = loc[o].kid
      BY <1>0, <2>2 DEF TypeOK, Locals
    <3>2. pc'[o] = "retry-read" /\ stack'[o] = <<k>> \o stack[o]
      BY <1>0, <1>5, <2>2, <3>1 DEF RetryChild, Goto, TypeOK
    <3>3. \A i \in DOMAIN stack[o] : ~IsChild(stack[o][i])
      BY <1>3, <2>1, <2>2 DEF OpStack
    <3>4. \A i \in DOMAIN stack'[o] : st[stack'[o][i]] # "none" /\ (IsChild(stack'[o][i]) => i = 1)
      BY <1>3, <2>2, <3>1, <3>2, <3>3, StackPush DEF OpStack
    <3>5. stack'[o] # << >> /\ Head(stack'[o]) = k
      BY <3>2, StackPush
    <3> QED BY <1>2, <2>2, <3>1, <3>2, <3>4, <3>5, OpMoveStep DEF OnHead, InCall, Suspended
  <2>3. CASE ~(loc[o].kid # None /\ st[loc[o].kid] = "suspended-error")
    <3>1. pc'[o] = "retry-queue" /\ stack' = stack
      BY <1>0, <1>5, <2>3 DEF RetryChild, Goto, TypeOK
    <3> QED BY <1>2, <1>3, <2>1, <3>1, OpMoveStep DEF OpStack, OnHead, InCall
  <2> QED BY <2>2, <2>3
<1>6. CASE RetryQueue(o)
  <2>1. CASE stack[o] = << >>
    <3>1. pc'[o] = "done" /\ stack' = stack
      BY <1>0, <1>6, <2>1 DEF RetryQueue, Goto, TypeOK
    <3> QED BY <1>2, <1>3, <2>1, <3>1, OpMoveStep DEF OpStack, OnHead, InCall
  <2>2. CASE stack[o] # << >>
    <3>1. PICK s \in Session : s = Head(stack[o])
      BY <2>2, StackHead
    <3>2. /\ Transition(o, s, "queued", Plain("resumed"), "retry-queue") /\ pc[o] = "retry-queue"
          /\ stack'[o] = Tail(stack[o])
      BY <1>6, <2>2, <3>1 DEF RetryQueue, TypeOK
    <3>3. \A i \in DOMAIN stack'[o] : st[stack'[o][i]] # "none" /\ ~IsChild(stack'[o][i])
      BY <1>3, <2>2, <3>2, StackTail DEF OpStack
    <3>4. st[s] # "none" /\ (IsChild(s) => st[s] \in Suspended)
      BY <1>3, <2>2, <3>1, <3>2 DEF OpStack, OnHead
    <3> QED BY <1>2, <3>2, <3>3, <3>4, OpCallStep
  <2> QED BY <2>1, <2>2
<1>7. CASE VerdictClose(o)
  <2>1. pc[o] = "verdict" /\ pc'[o] = "exit-log" /\ stack' = stack /\ loc' = loc
    BY <1>0, <1>7 DEF VerdictClose, Goto, TypeOK
  <2>2. PICK s \in Session : s = Head(stack[o]) /\ s = Head(stack'[o])
    BY <2>1, StackHead DEF Shape, StackShape, AtSession, AtExit
  <2>3. InFlat(s)'
    <3>1. pc'[s] = pc[s] /\ loc'[s] = loc[s]
      BY <1>0, ThreadsAssumption DEF Alone, Mine, Thread
    <3>2. InFlat(s)
      BY <1>0, <2>1, <2>2 DEF OpFits, InFlat
    <3> QED BY <1>2, <3>1, <3>2 DEF InFlat
  <2>4. InFlat(Head(stack[o]))'
    BY <2>2, <2>3 DEF InFlat
  <2>5. loc'[o].step \in Flat
    BY <1>0, <2>1 DEF OpFits
  <2> QED BY <1>2, <1>3, <2>1, <2>4, <2>5, OpMoveStep DEF OpStack, OnHead, InCall
<1>8. CASE Return(o)
  <2>1. pc'[o] = "idle" /\ stack'[o] = << >>
    BY <1>0, <1>8 DEF Return, Goto, TypeOK
  <2> QED BY <1>2, <2>1, OpMoveStep DEF OnHead, InCall
<1> QED BY <1>1, <1>4, <1>5, <1>6, <1>7, <1>8 DEF Serve

\* A verdict's recording is about a session that has no child.
LEMMA VerdictChildren ==
  ASSUME Orderly, TypeOK, Shape, ChildInv, NEW o \in Operator, Recording(o)
  PROVE  ChildInv'
<1>0. /\ o \in Thread /\ Alone(o) /\ OpFits(o) /\ OpStack(o) /\ o \notin Session
      /\ UNCHANGED <<st, det, parent, circ, stack>>
  BY RecordingPlain, ThreadsAssumption DEF Plainly, Thread, ChildInv, OpFits, Recording, ExitLog, ExitRow, sessionRows
<1>1. pc[o] \in {"exit-log", "exit-row"}
  BY DEF Recording, ExitLog, ExitRow
<1>2. PICK s \in Session : s = Head(stack[o]) /\ s = About(o) /\ s = stack[o][1] /\ stack[o] # << >>
                           /\ 1 \in DOMAIN stack[o]
  BY <1>0, <1>1, AboutType, StackHead DEF Shape, StackShape, AtSession, AtExit, About
<1>3. st[s] # "none" /\ (IsChild(s) => st[s] \in Suspended)
  BY <1>0, <1>1, <1>2 DEF OpStack, OnHead
<1>4. CASE ExitLog(o)
  <2>1. /\ pc[o] = "exit-log" /\ pc'[o] = "exit-row"
        /\ LogExited(s, loc[o].step, loc[o].att, loc[o].visit, loc[o].exit)
    BY <1>0, <1>2, <1>4 DEF ExitLog, Goto, TypeOK
  <2>2. InFlat(s) /\ loc[o].step \in Flat
    BY <1>0, <1>2, <2>1 DEF OpFits, InFlat
  <2>3. OpFits(o)'
    BY <1>0, <1>3, <1>2, <2>1, OpMoveStep DEF OpStack, OnHead, InCall
  <2>4. LogStays(s) /\ cur'[s].step = loc[o].step /\ cur'[s].status = "exited"
    BY <2>1, LogExitedStep
  <2>5. \A r \in Session : \/ cur'[r] = cur[r]
                           \/ /\ InFlat(r) /\ st[r] # "none"
                              /\ cur'[r].status # "none" /\ cur'[r].step \in Flat
    BY <1>3, <2>2, <2>4 DEF LogStays
  <2> QED BY <1>0, <2>3, <2>5, OperatorChildren
<1>5. CASE ExitRow(o)
  <2>1. Transition(o, s, "queued", Plain("resumed"), "done") /\ cur' = cur
    BY <1>0, <1>2, <1>5 DEF ExitRow, log
  <2>2. OpFits(o)'
    BY <1>0, <1>3, <2>1, OpCallStep DEF OpStack
  <2> QED BY <1>0, <2>1, <2>2, OperatorChildren
<1> QED BY <1>4, <1>5 DEF Recording

-------------------------------------------------------------------------------
\* A step of a transition() that writes no row.
LEMMA CallMoves ==
  ASSUME Orderly, TypeOK, Shape, ChildInv, NEW t \in Session \cup Operator, Mine(t),
         UNCHANGED <<st, det, parent, circ, cur, stack, loc>>, pc[t] \in InCall,
         pc'[t] \in IF t \in Session THEN {"check", "write", "end", "again"} ELSE InCall \cup {"done", tx[t].then},
         tx'[t].then = tx[t].then,
         pc'[t] \in InCall => st[tx'[t].who] # "none",
         Calls(t)' => \/ Calls(t) /\ tx'[t] = tx[t]
                      \/ tx'[t].det.why # "gate" /\ ~IsChild(tx'[t].who)
  PROVE  ChildInv'
<1>1. /\ \A u \in Thread : u # t => pc'[u] = pc[u] /\ tx'[u] = tx[u]
      /\ \A c : IsChild(c)' <=> IsChild(c)
      /\ t \in Thread /\ tx[t].then \in Returns
  BY DEF Mine, IsChild, Thread, TypeOK, Call
<1>2. pc'[t] \notin AtStep
  BY <1>1 DEF AtStep, AtExit, InCall, Returns
<1>3. \A r \in Session : InFlat(r) => InFlat(r)'
  BY <1>1, <1>2 DEF InFlat, Thread
<1>4. \A r \in Session : RowFits(r)'
  <2>1. t \in Session => st[t] # "none"
    BY DEF ChildInv, RowFits, InCall
  <2> QED BY <1>1, <1>3, <2>1 DEF ChildInv, RowFits, Thread
<1>5. ASSUME NEW r \in Session PROVE LoopFits(r)'
  <2>1. CASE r = t
    <3>1. GateCall(r)' => GateCall(r)
      BY <2>1 DEF GateCall
    <3>2. Calls(r)' => tx'[r].who = r \/ ~IsChild(tx'[r].who)
      BY <2>1 DEF ChildInv, LoopFits
    <3> QED BY <1>1, <1>2, <1>3, <2>1, <3>1, <3>2 DEF ChildInv, LoopFits, AtCursor, AtChild, AtStep
  <2>2. CASE r # t
    BY <1>1, <1>3, <2>2 DEF ChildInv, LoopFits, GateCall, Calls, AtCursor, AtChild, Thread
  <2> QED BY <2>1, <2>2
<1>6. ASSUME NEW c \in Session, IsChild(c) PROVE KidFits(c)'
  <2>1. KidFits(c)
    BY <1>6 DEF ChildInv
  <2>2. PICK p \in Session : p = parent[c]
    BY <1>6 DEF IsChild, IsChildIn
  <2>3. KidLife(c)'
    BY <1>1, <1>6, <2>1 DEF KidFits, KidLife, Calls, Working, Thread
  <2>4. ASSUME st[c] \notin Terminal PROVE Linked(p, c)'
    <3>1. Linked(p, c)
      BY <1>6, <2>1, <2>2, <2>4 DEF KidFits
    <3>2. CASE p = t
      BY <3>1, <3>2 DEF Linked, InCall
    <3>3. CASE p # t
      BY <1>1, <3>1, <3>3 DEF Linked, Thread
    <3> QED BY <3>2, <3>3
  <2> QED BY <1>3, <1>6, <2>1, <2>2, <2>3, <2>4 DEF KidFits, Linked
<1>7. \A r \in Session : KidFits(r)'
  BY <1>1, <1>6 DEF KidFits
<1>8. ASSUME NEW o \in Operator PROVE OpFits(o)'
  <2>0. OpFits(o) /\ o \in Thread /\ o \notin Session
    BY ThreadsAssumption DEF ChildInv, Thread
  <2>1. CASE o = t
    <3>1. pc'[o] \in InCall \cup {"done", tx[o].then} /\ tx[o].then \in Returns
      BY <1>1, <2>0, <2>1
    <3>2. \/ pc'[o] \in InCall
          \/ pc'[o] = "retry-queue" /\ tx[o].then = "retry-queue"
          \/ pc'[o] \in {"idle", "end", "done", "again", "position"}
      BY <3>1 DEF Returns
    <3>3. \A i \in DOMAIN stack[o] :
            /\ st[stack[o][i]] # "none" /\ (IsChild(stack[o][i]) => i = 1)
            /\ tx[o].then = "retry-queue" => ~IsChild(stack[o][i])
      BY <2>0, <2>1 DEF OpFits, OpStack, OpCall
    <3>4. stack[o] # << >> => Head(stack[o]) = stack[o][1] /\ 1 \in DOMAIN stack[o]
      BY StackHead
    <3>5. OpStack(o)'
      BY <1>1, <3>2, <3>3, <3>4 DEF OpStack, OnHead, InCall
    <3>6. Calls(o)' /\ IsChild(tx'[o].who) => Calls(o) /\ tx'[o] = tx[o]
      BY <2>1
    <3>7. OpCall(o)'
      BY <1>1, <2>0, <2>1, <3>3, <3>6 DEF OpFits, OpCall
    <3> QED BY <3>2, <3>5, <3>7 DEF OpFits, InCall
  <2>2. CASE o # t
    <3>1. pc'[o] = pc[o] /\ tx'[o] = tx[o]
      BY <1>1, <2>0, <2>2
    <3>2. pc[o] \in {"verdict", "exit-log"} => Head(stack[o]) \in Session
      BY <2>0, AboutType DEF AtExit, About
    <3> QED BY <1>1, <1>3, <2>0, <3>1, <3>2 DEF OpFits, OpStack, OpCall, Calls
  <2> QED BY <2>1, <2>2
<1> QED BY <1>4, <1>5, <1>7, <1>8 DEF ChildInv

LEMMA CheckChildren ==
  ASSUME Orderly, TypeOK, Shape, LoopInv, ChildInv, NEW t \in Session \cup Operator, TxCheck(t)
  PROVE  ChildInv'
<1>0. /\ t \in Thread /\ Mine(t) /\ pc[t] = "check" /\ Calls(t) /\ tx' = tx
      /\ UNCHANGED <<st, det, parent, circ, cur, stack, loc>>
  BY DEF TxCheck, Mine, Calls, Goto, sessionRows, log, TypeOK, Thread
<1>1. pc'[t] = IF st[tx[t].who] = "cancelled" THEN OnSignal(t) ELSE "write"
  BY <1>0 DEF TxCheck, Goto, TypeOK
<1>2. st[tx[t].who] # "none"
  BY <1>0, ThreadsAssumption DEF ChildInv, LoopFits, OpFits, OpCall, InCall
<1>3. CASE t \in Session
  <2>1. tx[t].wake => tx[t].then \in {"end", "again"}
    BY <1>0, <1>3 DEF LoopInv, LoopAt, Wakening, Own, Ends
  <2>2. pc'[t] \in {"check", "write", "end", "again"}
    BY <1>1, <1>3, <2>1 DEF OnSignal
  <2> QED BY <1>0, <1>2, <1>3, <2>2, CallMoves DEF InCall
<1>4. CASE t \notin Session
  <2>1. pc'[t] \in InCall \cup {"done", tx[t].then}
    BY <1>1, <1>4, ThreadsAssumption DEF OnSignal, InCall
  <2> QED BY <1>0, <1>2, <1>4, <2>1, CallMoves DEF InCall
<1> QED BY <1>3, <1>4

\* A child's parent is nobody's child.
LEMMA SettleChildren ==
  ASSUME Orderly, TypeOK, Shape, ChildShape, LoopInv, ChildInv, NEW t \in Session \cup Operator, Settle(t)
  PROVE  ChildInv'
<1>0. /\ t \in Thread /\ Mine(t) /\ pc[t] = "settle" /\ IsChild(tx[t].who)
      /\ UNCHANGED <<st, det, parent, circ, cur, stack, loc>>
  BY DEF Settle, Mine, Goto, sessionRows, log, TypeOK, Thread, ChildShape
<1>1. PICK p \in Session : p = parent[tx[t].who] /\ st[p] # "none" /\ ~IsChild(p)
  BY <1>0, ThreadsAssumption DEF ChildInv, KidFits, IsChild, IsChildIn
<1>2. t \in Session => tx[t].then \in {"end", "again"}
  BY <1>0 DEF LoopInv, LoopAt
<1>3. CASE pc'[t] = "check"
  <2>1. pc'[t] \in {"check"} /\ "check" \notin {tx[t].then}
    BY <1>0, <1>3 DEF TypeOK, Call, Returns
  <2>2. CASE st[p] \in Suspended /\ det[p].kid = tx[t].who
    <3> DEFINE c == [who |-> p, to |-> "queued", det |-> Plain("resumed"), wake |-> TRUE, then |-> tx[t].then]
    <3>1. c.who = p /\ c.det.why # "gate" /\ c.then = tx[t].then
      BY DEF Plain
    <3>2. tx' = [tx EXCEPT ![t] = c]
      BY <1>1, <2>2 DEF Settle
    <3> HIDE DEF c
    <3>3. tx'[t] = c
      BY <1>0, <3>2 DEF TypeOK
    <3> QED BY <1>0, <1>1, <1>3, <3>1, <3>3, CallMoves DEF InCall
  <2>3. CASE ~(st[p] \in Suspended /\ det[p].kid = tx[t].who)
    BY <1>0, <1>1, <2>1, <2>3 DEF Settle, Goto, TypeOK
  <2> QED BY <2>2, <2>3
<1>4. CASE pc'[t] # "check"
  <2>1. tx' = tx /\ pc'[t] = tx[t].then
    BY <1>0, <1>1, <1>4 DEF Settle, Goto, TypeOK
  <2>2. tx[t].then \notin InCall
    BY <1>0 DEF TypeOK, Call, Returns, InCall
  <2> QED BY <1>0, <1>2, <2>1, <2>2, CallMoves DEF InCall, Calls
<1> QED BY <1>3, <1>4

\* A call that writes the row of a child is its own loop's, or the operator's while it is suspended.
LEMMA ChildWriter ==
  ASSUME ChildInv, NEW t \in Session \cup Operator, pc[t] = "write", NEW c \in Session, IsChild(c), tx[t].who = c
  PROVE  /\ tx[t].det.kid = None /\ st[c] \notin Terminal /\ Linked(parent[c], c)
         /\ \/ t = c /\ tx[t].to = "running" /\ tx[t].then = "position" /\ st[c] = "queued"
            \/ t = c /\ tx[t].to \in Rested /\ tx[t].then = "end" /\ st[c] = "running"
            \/ t \in Operator /\ tx[t].to = "queued" /\ st[c] \in Suspended
<1>1. CASE t \in Session
  BY <1>1 DEF ChildInv, LoopFits, KidFits, KidLife, Calls, Terminal
<1>2. CASE t \in Operator
  BY <1>2 DEF ChildInv, OpFits, OpCall, KidFits, Calls, Terminal, Suspended
<1> QED BY <1>1, <1>2

LEMMA WriteChildren ==
  ASSUME Orderly, TypeOK, Shape, ChildShape, LoopInv, Parks, GateInv, ChildInv, NEW t \in Session \cup Operator,
         TxWrite(t)
  PROVE  ChildInv'
<1>0. PICK w \in Session, d \in Detail, to \in State :
        /\ w = tx[t].who /\ d = tx[t].det /\ to = tx[t].to /\ to # "none"
        /\ t \in Thread /\ pc[t] = "write" /\ Calls(t)
  <2>1. t \in Thread /\ pc[t] = "write" /\ Calls(t)
    BY DEF TxWrite, Calls, Thread
  <2>2. tx[t].who \in Session /\ tx[t].to # "none"
    BY <2>1 DEF ChildShape, InCall, Parks, ParkFits
  <2>3. tx[t].det \in Detail /\ tx[t].to \in State
    BY <2>1 DEF TypeOK, Call
  <2> QED BY <2>1, <2>2, <2>3
<1>1. /\ st'[w] = to /\ det'[w] = d /\ pc'[t] \in {"settle", tx[t].then} /\ tx[t].then \in Returns
      /\ \A r \in Session : r # w => st'[r] = st[r] /\ det'[r] = det[r]
      /\ \A u \in Thread : u # t => pc'[u] = pc[u]
      /\ UNCHANGED <<parent, circ, cur, loc, tx, stack>>
  BY <1>0 DEF TxWrite, Goto, TypeOK, Call, log
<1>2. pc'[t] \notin AtStep /\ ~Calls(t)' /\ \A c : IsChild(c)' <=> IsChild(c)
  BY <1>1 DEF AtStep, AtExit, Returns, Calls, IsChild
<1>3. \A r \in Session : InFlat(r) => InFlat(r)'
  BY <1>1, <1>2 DEF InFlat, Thread
<1>4. \A r \in Session : st[r] # "none" => st'[r] # "none"
  BY <1>0, <1>1
<1>5. t \in Session => tx[t].then \in {"end", "again", "position"} /\ st[t] # "none"
                       /\ (tx[t].then = "position" => w = t /\ to = "running")
  <2>1. t \in Session => st[t] # "none"
    BY <1>0 DEF ChildInv, RowFits
  <2> QED BY <1>0, <2>1 DEF LoopInv, LoopAt, Wakening, Own, Ends
<1>6. d.why = "gate" => InFlat(w)
  <2>1. ASSUME d.why = "gate" PROVE GateCall(t)
    BY <1>0, <2>1 DEF GateCall
  <2>2. GateCall(t) => t \in Session /\ w = t
    BY <1>0 DEF GateInv, OnlyLoopsAsk, Gates, GateFits
  <2> QED BY <2>1, <2>2 DEF ChildInv, LoopFits
<1>7. ASSUME NEW r \in Session PROVE RowFits(r)'
  <2>1. st'[r] = "none" => r # w /\ r # t /\ st[r] = "none"
    BY <1>0, <1>1, <1>4, <1>5
  <2>2. det'[r].why = "gate" => InFlat(r)
    BY <1>1, <1>6 DEF ChildInv, RowFits
  <2> QED BY <1>1, <1>3, <2>1, <2>2 DEF ChildInv, RowFits, Thread
<1>8. ASSUME NEW r \in Session PROVE LoopFits(r)'
  <2>1. CASE r = t
    <3>1. pc'[r] \in {"settle", "end", "again", "position"}
      BY <1>1, <1>5, <2>1
    <3> QED BY <1>0, <1>1, <2>1, <3>1 DEF LoopFits, GateCall, Calls, AtCursor, AtChild
  <2>2. CASE r # t
    <3>1. pc[r] \in InCall => st'[tx[r].who] # "none"
      <4>1. pc[r] \in InCall => tx[r].who \in Session
        BY DEF ChildShape, Thread
      <4> QED BY <1>4, <4>1 DEF ChildInv, LoopFits
    <3> QED BY <1>1, <1>2, <1>3, <2>2, <3>1 DEF ChildInv, LoopFits, GateCall, Calls, AtCursor, AtChild, Thread
  <2> QED BY <2>1, <2>2
<1>9. ASSUME NEW c \in Session, IsChild(c) PROVE KidFits(c)'
  <2>1. PICK p \in Session : p = parent[c] /\ p = parent'[c] /\ st'[p] # "none" /\ parent'[p] = None
    BY <1>1, <1>4, <1>9 DEF ChildInv, KidFits, IsChild, IsChildIn
  <2>2. det'[c].kid = None /\ (st'[c] \notin Terminal => Linked(p, c))
    BY <1>0, <1>1, <1>9, <2>1, ChildWriter DEF ChildInv, KidFits
  <2>3. Linked(p, c) => Linked(p, c)'
    <3>1. CASE p = t
      BY <1>0, <1>1, <1>5, <3>1 DEF Linked
    <3>2. CASE p # t
      BY <1>1, <3>2 DEF Linked, Thread
    <3> QED BY <3>1, <3>2
  <2>4. KidLife(c)'
    <3>1. KidLife(c)
      BY <1>9 DEF ChildInv, KidFits
    <3>2. CASE c = t
      <4>1. pc'[c] \in Working => tx[t].then = "position"
        BY <1>1, <1>5, <3>2 DEF Working
      <4>2. pc'[c] \in Working => st'[c] = "running"
        BY <1>1, <1>5, <3>2, <4>1
      <4> QED BY <1>2, <3>2, <4>2 DEF KidLife
    <3>3. CASE c # t /\ c = w
      <4>1. st[c] \in Suspended
        BY <1>0, <1>9, <3>3, ChildWriter
      <4>2. pc'[c] = pc[c] /\ tx' = tx /\ pc[c] \notin Working /\ ~(Calls(c) /\ tx[c].who = c)
        BY <1>1, <3>1, <3>3, <4>1 DEF KidLife, Suspended, Thread
      <4> QED BY <4>2 DEF KidLife, Calls
    <3>4. CASE c # t /\ c # w
      BY <1>1, <3>1, <3>4 DEF KidLife, Calls, Thread
    <3> QED BY <3>2, <3>3, <3>4
  <2>5. InFlat(c)'
    BY <1>3, <1>9 DEF ChildInv, KidFits
  <2>6. st'[c] \notin Terminal => Linked(p, c)'
    BY <2>2, <2>3
  <2> QED BY <2>1, <2>2, <2>4, <2>5, <2>6 DEF KidFits, Linked
<1>10. \A r \in Session : KidFits(r)'
  BY <1>2, <1>9 DEF KidFits
<1>11. ASSUME NEW o \in Operator PROVE OpFits(o)'
  <2>0. OpFits(o) /\ o \in Thread /\ o \notin Session /\ stack[o] \in Seq(Session)
    BY ThreadsAssumption DEF ChildInv, Thread, TypeOK
  <2>1. \A i \in DOMAIN stack[o] : st'[stack[o][i]] # "none" /\ (IsChild(stack[o][i]) => i = 1)
    BY <1>4, <2>0 DEF OpFits, OpStack
  <2>2. pc[o] \in InCall => st'[tx[o].who] # "none"
    <3>1. pc[o] \in InCall => tx[o].who \in Session
      BY <2>0 DEF ChildShape
    <3> QED BY <1>4, <2>0, <3>1 DEF OpFits, OpCall
  <2>3. stack[o] # << >> => Head(stack[o]) \in Session /\ Head(stack[o]) = stack[o][1] /\ 1 \in DOMAIN stack[o]
    BY StackHead
  <2>4. CASE o = t
    <3>1. /\ tx[o].then = "retry-queue" => \A i \in DOMAIN stack[o] : ~IsChild(stack[o][i])
          /\ pc[o] \in InCall
      BY <1>0, <2>0, <2>4 DEF OpFits, OpCall, InCall
    <3>2. \/ pc'[o] = "settle"
          \/ pc'[o] = "retry-queue" /\ tx[o].then = "retry-queue"
          \/ pc'[o] \in {"idle", "end", "done", "again", "position"}
      BY <1>1, <2>4 DEF Returns
    <3>3. OpStack(o)'
      BY <1>1, <1>2, <2>1, <2>3, <3>1, <3>2 DEF OpStack, OnHead
    <3>4. OpCall(o)'
      BY <1>1, <1>2, <2>2, <2>4, <3>1 DEF OpCall
    <3> QED BY <3>2, <3>3, <3>4 DEF OpFits
  <2>5. CASE o # t
    <3>1. t \in Session /\ pc'[o] = pc[o]
      BY <1>1, <2>0, <2>5 DEF Orderly
    <3>2. \A c \in Session : IsChild(c) /\ st[c] \in Suspended => st'[c] = st[c]
      <4>1. ASSUME NEW c \in Session, IsChild(c), st[c] \in Suspended, c = w PROVE FALSE
        BY <1>0, <3>1, <4>1, ChildWriter, ThreadsAssumption DEF Suspended
      <4> QED BY <1>1, <4>1
    <3>3. OpStack(o)'
      BY <1>1, <1>2, <2>0, <2>1, <2>3, <3>1, <3>2 DEF OpFits, OpStack
    <3>4. OpCall(o)'
      <4>1. Calls(o) => tx[o].who \in Session
        BY <2>0 DEF ChildShape, Calls, InCall
      <4> QED BY <1>1, <1>2, <2>0, <2>2, <3>1, <3>2, <4>1 DEF OpFits, OpCall, Calls
    <3>5. pc[o] \in {"verdict", "exit-log"} => stack[o] # << >>
      BY DEF Shape, StackShape, AtSession, AtExit
    <3> QED BY <1>1, <1>2, <1>3, <2>0, <2>3, <3>1, <3>3, <3>4, <3>5 DEF OpFits
  <2> QED BY <2>4, <2>5
<1> QED BY <1>7, <1>8, <1>10, <1>11 DEF ChildInv

-------------------------------------------------------------------------------
LEMMA ChildStutter ==
  ASSUME ChildInv, UNCHANGED vars
  PROVE  ChildInv'
<1>1. UNCHANGED <<st, det, parent, circ, cur, pc, loc, tx, stack>>
  BY DEF vars, sessionRows, log
<1>2. \A r \in Session : RowFits(r)' /\ LoopFits(r)' /\ KidFits(r)'
  BY <1>1 DEF ChildInv, RowFits, LoopFits, KidFits, KidLife, InFlat, IsChild, Linked, GateCall, Calls, AtCursor,
     AtChild
<1>3. \A o \in Operator : OpFits(o)'
  BY <1>1 DEF ChildInv, OpFits, OpStack, OpCall, InFlat, IsChild, Calls
<1> QED BY <1>2, <1>3 DEF ChildInv

LEMMA ChildStep ==
  ASSUME Orderly, Typed, LoopInv, WaitInv, GateInv, ExitInv, crashes = 0 => ChildInv, [Next]_vars, crashes' = 0
  PROVE  ChildInv'
<1>0. /\ TypeOK /\ Shape /\ ChildShape /\ Parks /\ Unborn /\ OwnKids /\ OpenFits
      /\ crashes = 0 => phase = "up" /\ pc[Boot] = "idle"
  BY DEF Typed, WaitInv, Parks, ExitInv, NeverDown, LoopInv
<1>1. ~Crash
  BY <1>0 DEF Crash, TypeOK
<1>2. crashes = 0
  <2>1. ASSUME NEW s \in Session, Admit(s) \/ Run(s) PROVE crashes' = crashes
    BY <1>0, <2>1, LoopStays DEF LoopMoves
  <2>2. ASSUME NEW o \in Operator, Request(o) \/ Serve(o) PROVE crashes' = crashes
    BY <2>2 DEF Request, Serve, Cancel, Retry, Resume, ManualRoute, Verdict, CancelWrite, CancelChildren,
       CancelNext, RetryRead, RetryChild, RetryQueue, VerdictClose, Return, boot
  <2>3. ASSUME NEW t, Shared(t) \/ Recording(t) PROVE crashes' = crashes
    BY <2>3 DEF Shared, TxCheck, TxWrite, Settle, Recording, ExitLog, ExitRow, boot
  <2>4. Recover => crashes' = crashes
    BY DEF Recover, RecoverDies, RecoverDone, RecoverSession
  <2> QED BY <1>1, <2>1, <2>2, <2>3, <2>4 DEF Next, vars, boot
<1>3. ChildInv /\ phase = "up" /\ pc[Boot] = "idle"
  BY <1>0, <1>2
<1>4. ASSUME NEW s \in Session, Admit(s) \/ Run(s) PROVE ChildInv'
  BY <1>0, <1>3, <1>4, LoopStepChildren, SpawnChildren DEF LoopMoves
<1>5. ASSUME NEW o \in Operator, Request(o) \/ Serve(o) PROVE ChildInv'
  BY <1>0, <1>3, <1>5, RequestChildren, ServeChildren
<1>6. ASSUME NEW t \in Thread, Shared(t) PROVE ChildInv'
  <2>1. t \in Session \cup Operator
    BY <1>3, <1>6 DEF Thread, Shared, TxCheck, TxWrite, Settle
  <2> QED BY <1>0, <1>3, <1>6, <2>1, CheckChildren, WriteChildren, SettleChildren DEF Shared
<1>7. ASSUME NEW t \in Session \cup Operator, Recording(t) PROVE ChildInv'
  <2>1. CASE t \in Session
    <3>1. ~Spawn(t)
      BY <1>7 DEF Spawn, Recording, ExitLog, ExitRow
    <3> QED BY <1>0, <1>3, <1>7, <2>1, <3>1, LoopStepChildren DEF LoopMoves
  <2>2. CASE t \in Operator
    BY <1>0, <1>3, <1>7, <2>2, VerdictChildren
  <2> QED BY <2>1, <2>2
<1>8. ~Recover
  BY <1>3 DEF Recover, RecoverDies, RecoverDone, RecoverSession
<1>9. CASE UNCHANGED vars
  BY <1>3, <1>9, ChildStutter
<1> QED BY <1>1, <1>4, <1>5, <1>6, <1>7, <1>8, <1>9 DEF Next

\* Without a crash a step that runs a sub-circuit has one child at work, over every failure,
\* retry, resumption and verdict of it and of its parent: of sub-circuits that run no sub-circuit,
\* where no gate comes before one, with one operator who neither cancels nor routes by hand.
THEOREM OneChildAtWork == Orderly => (Spec => []OneLiveChild)
<1> SUFFICES ASSUME Orderly PROVE Spec => []OneLiveChild
  OBVIOUS
<1> DEFINE Inv == crashes = 0 => ChildInv
<1>1. Init => Inv
  BY ChildInit
<1>2. Typed /\ Typed' /\ LoopInv /\ WaitInv /\ GateInv /\ ExitInv /\ Inv /\ [Next]_vars => Inv'
  BY ChildStep
<1>3. TypeOK /\ Inv => OneLiveChild
  <2> SUFFICES ASSUME TypeOK, ChildInv, NEW c \in Session, NEW d \in Session, c # d, parent[c] # None,
                      parent[c] = parent[d]
               PROVE  st[c] \in Terminal \/ st[d] \in Terminal
    BY DEF OneLiveChild
  <2>1. PICK p \in Session : p = parent[c] /\ p = parent[d]
    BY DEF TypeOK
  <2>2. /\ st[c] \notin Terminal => Linked(p, c)
        /\ st[d] \notin Terminal => Linked(p, d)
    BY <2>1 DEF ChildInv, KidFits, IsChild, IsChildIn
  <2>3. ~(Linked(p, c) /\ Linked(p, d))
    BY DEF Linked
  <2> QED BY <2>2, <2>3
<1>4. Typed /\ Inv => OneLiveChild
  BY <1>3 DEF Typed
<1>5. Init => CountInv
  BY DEF Init, CountInv, CountsAt, AtStep, AtExit, Thread
<1>6. Orderly => NoRoutes
  BY DEF Orderly, NoRoutes
<1>7. Typed /\ Typed' /\ CountInv /\ LoopInv /\ WaitInv /\ GateInv /\ ExitInv /\ [Next]_vars => ExitInv'
  BY <1>6, ExitStep
<1> HIDE DEF Inv
<1> QED BY TypedInit, TypedStep, LoopInit, LoopStep, WaitInit, WaitStep, GateInit, GateStep, CountStep,
           ExitInit, <1>1, <1>2, <1>4, <1>5, <1>7, PTL DEF Spec
===============================================================================
