-------------------------- MODULE OrchestratorProofs --------------------------
(***************************************************************************)
(* What holds of Orchestrator for every set of sessions, every circuit and *)
(* every bound.                                                            *)
(***************************************************************************)
EXTENDS Orchestrator, FiniteSetTheorems, SequenceTheorems, TLAPS

-------------------------------------------------------------------------------
(***************************************************************************)
(* Type correctness.  TypeOK alone is not inductive: that an operator on   *)
(* steps is applied to a step follows from where the thread is.            *)
(***************************************************************************)
AtExit == {"exit-log", "exit-row", "verdict"}
AtStep == AtExit \cup {"assert", "work", "spawn", "link-row", "link-log", "wait", "gate"}
AtSession == AtExit \cup {"cancel-write", "cancel-children", "retry-read"}

\* A cursor that names a checkpoint names a step, and an exit of that step.
CursorShape ==
  \A s \in Session :
    /\ cur[s].status # "none" => cur[s].step \in Step
    /\ cur[s].status = "exited" => cur[s].exit \in Exits[cur[s].step]

\* So do the locals of a thread that is at a step.
StepShape ==
  \A t \in Thread :
    /\ pc[t] \in AtStep => loc[t].step \in Step
    /\ pc[t] \in AtExit => loc[t].exit \in Exits[loc[t].step]

\* An operator call that is about a session has one.
StackShape == \A o \in Operator : pc[o] \in AtSession => stack[o] # << >>

Shape == CursorShape /\ StepShape /\ StackShape

\* A session that is somebody's child, and where a run loop relies on having one:
\* waiting for it, about to, or parking behind it.
IsChildIn(P, k) == k \in Session /\ P[k] \in Session
IsChild(k) == IsChildIn(parent, k)
InCall == {"check", "write", "settle"}
NeedsKid(s) ==
  \/ pc[s] \in {"link-row", "link-log", "wait", "again"}
  \/ pc[s] = "assert" /\ loc[s].reattach
  \/ pc[s] \in InCall /\ tx[s].then = "again"

\* onChildSettled is called about a child: the cursor, the run loops and the
\* transition() calls all name one where they say they do.
ChildShape ==
  /\ \A s \in Session : cur[s].kid # None => IsChild(cur[s].kid)
  /\ \A s \in Session : NeedsKid(s) => IsChild(loc[s].kid)
  /\ \A t \in Thread : pc[t] \in InCall => tx[t].who \in Session
  /\ \A t \in Thread : pc[t] = "settle" => IsChild(tx[t].who)

\* The parts of TypeOK that the actions share.
LogType ==
  /\ cur \in [Session -> Cursor]
  /\ visits \in Counts /\ attempts \in Counts
  /\ exits \in [Session -> SUBSET (Step \X Nat \X Nat)]
LoopType ==
  /\ pc \in [Thread -> Label]
  /\ loc \in [Thread -> Locals]
  /\ mVisits \in Counts /\ mAttempts \in Counts
  /\ tx \in [Thread -> Call]

\* A step of a run loop moves no operator.
OperatorsStay == \A o \in Operator : pc'[o] = pc[o]

LEMMA RecordTypes ==
  /\ NoCursor \in Cursor /\ NoLocals \in Locals /\ NoCall \in Call /\ NoCounts \in [Step -> Nat]
  /\ \A why \in Reason, kid \in Session \cup {None} : [Plain(why) EXCEPT !.kid = kid] \in Detail
  /\ \A why \in Reason : Plain(why) \in Detail
<1>1. NoCursor \in Cursor
  BY DEF NoCursor, Cursor
<1>2. NoLocals \in Locals
  BY DEF NoLocals, Locals, Reason, State
<1>3. \A why \in Reason : Plain(why) \in Detail
  BY DEF Plain, Detail
<1>4. \A why \in Reason, kid \in Session \cup {None} : [Plain(why) EXCEPT !.kid = kid] \in Detail
  BY DEF Plain, Detail
<1>5. "none" \in State /\ "none" \in Reason /\ "idle" \in Returns
  BY DEF State, Reason, Returns
<1>6. NoCall \in Call
  BY <1>3, <1>5 DEF NoCall, Call
<1>7. NoCounts \in [Step -> Nat]
  BY DEF NoCounts
<1> QED BY <1>1, <1>2, <1>3, <1>4, <1>6, <1>7

LEMMA TypeInit == Init => TypeOK /\ Shape
<1> SUFFICES ASSUME Init PROVE TypeOK /\ Shape
  OBVIOUS
<1>1. TypeOK
  <2>1. st \in [Session -> State] /\ det \in [Session -> Detail]
    BY RecordTypes DEF Init, State, Reason
  <2>2. /\ parent \in [Session -> Session \cup {None}] /\ circ \in [Session -> Circuit]
        /\ rows \in [Session -> SUBSET RowRec] /\ open \in SUBSET (Session \X Step \X Nat)
    BY CircuitAssumption DEF Init
  <2>3. LogType
    BY RecordTypes DEF Init, LogType, Counts
  <2>4. LoopType
    BY RecordTypes DEF Init, LoopType, Counts, Label, Returns
  <2>5. /\ stack \in [Operator -> Seq(Session)] /\ lock \in [Session -> Operator \cup {None}]
        /\ phase \in {"recover", "up"} /\ todo \in SUBSET Session /\ calls \in Nat /\ crashes \in Nat
    BY DEF Init
  <2> QED BY <2>1, <2>2, <2>3, <2>4, <2>5 DEF TypeOK, LogType, LoopType
<1>2. Shape
  BY DEF Init, Shape, CursorShape, StepShape, StackShape, Thread, AtStep, AtExit, AtSession, NoCursor
<1> QED BY <1>1, <1>2

-------------------------------------------------------------------------------
(***************************************************************************)
(* The operators the actions are built from.                               *)
(***************************************************************************)
LEMMA GotoType ==
  ASSUME TypeOK, NEW t \in Thread, NEW label \in Label, Goto(t, label)
  PROVE  pc' \in [Thread -> Label]
BY DEF TypeOK, Goto

LEMMA TransitionType ==
  ASSUME TypeOK, NEW t \in Thread, NEW s \in Session, NEW to \in State, NEW d \in Detail,
         NEW then \in Returns, Transition(t, s, to, d, then)
  PROVE  tx' \in [Thread -> Call] /\ pc' \in [Thread -> Label] /\ pc' = [pc EXCEPT ![t] = "check"]
<1>1. [who |-> s, to |-> to, det |-> d, wake |-> FALSE, then |-> then] \in Call
  BY DEF Call
<1> QED BY <1>1 DEF TypeOK, Transition, Goto, Label

LEMMA SuspendType ==
  ASSUME TypeOK, NEW s \in Session, NEW why \in Reason, NEW kid \in Session \cup {None},
         Suspend(s, why, kid)
  PROVE  tx' \in [Thread -> Call] /\ pc' \in [Thread -> Label] /\ pc' = [pc EXCEPT ![s] = "check"]
<1>1. [Plain(why) EXCEPT !.kid = kid] \in Detail /\ "suspended-error" \in State /\ "end" \in Returns
  BY RecordTypes DEF State, Returns
<1>2. s \in Thread
  BY DEF Thread
<1> QED BY <1>1, <1>2, TransitionType DEF Suspend

LEMMA LargerType == \A a, b \in Nat : Larger(a, b) \in Nat /\ Larger(a, b) >= a /\ Larger(a, b) >= b
BY DEF Larger

LEMMA CountsExcept ==
  ASSUME NEW F \in Counts, NEW s \in Session, NEW x \in Step, NEW n \in Nat
  PROVE  [F EXCEPT ![s][x] = n] \in Counts
BY DEF Counts

LEMMA UpsertType ==
  ASSUME TypeOK, NEW s \in Session, NEW x \in Step, NEW a \in Nat,
         NEW v \in {"running", "linked", "exited", "failed"}, Upsert(s, x, a, v)
  PROVE  rows' \in [Session -> SUBSET RowRec]
<1>1. [step |-> x, att |-> a, status |-> v] \in RowRec
  BY DEF RowRec
<1> QED BY <1>1 DEF TypeOK, Upsert

LEMMA LogStartedType ==
  ASSUME TypeOK, Shape, NEW s \in Session, NEW x \in Step, NEW a \in Nat, NEW v \in Nat,
         LogStarted(s, x, a, v)
  PROVE  LogType' /\ CursorShape'
<1> DEFINE c == [NoCursor EXCEPT !.step = x, !.att = a, !.visit = v, !.status = "running"]
<1>1. c \in Cursor /\ c.step = x /\ c.status = "running"
  BY DEF NoCursor, Cursor
<1>2. cur' = [cur EXCEPT ![s] = c] /\ exits' = exits
  BY DEF LogStarted
<1>3. visits' \in Counts /\ attempts' \in Counts
  BY CountsExcept, LargerType DEF TypeOK, LogStarted, Counts
<1> HIDE DEF c
<1>4. LogType'
  BY <1>1, <1>2, <1>3 DEF LogType, TypeOK
<1>5. CursorShape'
  BY <1>1, <1>2 DEF Shape, CursorShape, TypeOK
<1> QED BY <1>4, <1>5

LEMMA LogExitedType ==
  ASSUME TypeOK, Shape, NEW s \in Session, NEW x \in Step, NEW a \in Nat, NEW v \in Nat,
         NEW e \in Exits[x], LogExited(s, x, a, v, e)
  PROVE  LogType' /\ CursorShape'
<1> DEFINE c == [NoCursor EXCEPT !.step = x, !.att = a, !.visit = v, !.status = "exited", !.exit = e]
<1>0. e \in ExitName
  BY DEF ExitName
<1>1. c \in Cursor /\ c.step = x /\ c.status = "exited" /\ c.exit = e
  BY <1>0 DEF NoCursor, Cursor
<1>2. cur' = [cur EXCEPT ![s] = c] /\ visits' = visits /\ attempts' = attempts
  BY DEF LogExited
<1>3. exits' \in [Session -> SUBSET (Step \X Nat \X Nat)]
  BY DEF TypeOK, LogExited
<1> HIDE DEF c
<1>4. LogType'
  BY <1>1, <1>2, <1>3 DEF LogType, TypeOK
<1>5. CursorShape'
  BY <1>1, <1>2 DEF Shape, CursorShape, TypeOK
<1> QED BY <1>4, <1>5

LEMMA LogFailedType ==
  ASSUME TypeOK, Shape, NEW s \in Session, NEW x \in Step, NEW a \in Nat, LogFailed(s, x, a)
  PROVE  LogType' /\ CursorShape'
<1>1. visits' = visits /\ attempts' = attempts /\ exits' = exits
  BY DEF LogFailed
<1>2. CASE cur' = cur
  BY <1>1, <1>2 DEF LogType, TypeOK, Shape, CursorShape
<1>3. CASE cur[s].step = x /\ cur' = [cur EXCEPT ![s].status = "failed"]
  <2>1. cur[s] \in Cursor
    BY DEF TypeOK
  <2>2. [cur[s] EXCEPT !.status = "failed"] \in Cursor
    BY <2>1 DEF Cursor
  <2>3. cur' \in [Session -> Cursor]
    BY <2>2, <1>3 DEF TypeOK
  <2>4. CursorShape'
    BY <2>1, <1>3 DEF TypeOK, Shape, CursorShape, Cursor
  <2> QED BY <1>1, <2>3, <2>4 DEF LogType, TypeOK
<1> QED BY <1>2, <1>3 DEF LogFailed

LEMMA EnterType ==
  ASSUME TypeOK, Shape, NEW s \in Session, NEW x \in Step, NEW visit \in Nat, NEW att \in Nat,
         NEW V \in [Step -> Nat], NEW A \in [Step -> Nat], NEW kid \in Session \cup {None},
         Enter(s, x, visit, att, V, A, kid)
  PROVE  LoopType' /\ StepShape' /\ OperatorsStay
<1> DEFINE l == [NoLocals EXCEPT !.step = x, !.visit = visit, !.att = att, !.tries = 1,
                                 !.kid = kid, !.reattach = (kid # None)]
<1>0. s \in Thread
  BY DEF Thread
<1>1. l \in Locals /\ l.step = x
  BY DEF NoLocals, Locals, State, Reason
<1>2. loc' = [loc EXCEPT ![s] = l] /\ pc' = [pc EXCEPT ![s] = "assert"] /\ tx' = tx
  BY DEF Enter, Goto
<1>3. [A EXCEPT ![x] = Larger(@, att)] \in [Step -> Nat]
  BY LargerType
<1>4. mVisits' \in Counts /\ mAttempts' \in Counts
  BY <1>3 DEF Enter, TypeOK, Counts
<1> HIDE DEF l
<1>5. LoopType'
  BY <1>0, <1>1, <1>2, <1>4 DEF LoopType, TypeOK, Label
<1>6. StepShape'
  BY <1>0, <1>1, <1>2 DEF Shape, StepShape, TypeOK, AtExit
<1>7. OperatorsStay
  BY <1>2, ThreadsAssumption DEF OperatorsStay, TypeOK, Thread
<1> QED BY <1>5, <1>6, <1>7

LEMMA SuspendLoop ==
  ASSUME TypeOK, Shape, NEW s \in Session, NEW why \in Reason, NEW kid \in Session \cup {None},
         Suspend(s, why, kid), UNCHANGED <<ctx, loc>>
  PROVE  LoopType' /\ StepShape' /\ OperatorsStay
<1>1. tx' \in [Thread -> Call] /\ pc' \in [Thread -> Label] /\ pc' = [pc EXCEPT ![s] = "check"]
  BY SuspendType
<1>2. UNCHANGED <<mVisits, mAttempts, loc>>
  BY DEF ctx
<1>3. LoopType'
  BY <1>1, <1>2 DEF LoopType, TypeOK
<1>4. StepShape'
  BY <1>1, <1>2 DEF Shape, StepShape, TypeOK, AtStep, AtExit
<1>5. OperatorsStay
  BY <1>1, ThreadsAssumption DEF OperatorsStay, TypeOK, Thread
<1> QED BY <1>3, <1>4, <1>5

LEMMA NewVisitType ==
  ASSUME TypeOK, Shape, NEW s \in Session, NEW x \in Step,
         NEW V \in [Step -> Nat], NEW A \in [Step -> Nat], NewVisit(s, x, V, A)
  PROVE  LoopType' /\ StepShape' /\ OperatorsStay
<1>1. CASE V[x] + 1 > MaxVisits
  BY <1>1, SuspendLoop DEF NewVisit, Reason
<1>2. CASE ~(V[x] + 1 > MaxVisits)
  <2>1. Enter(s, x, V[x] + 1, A[x] + 1, [V EXCEPT ![x] = @ + 1], A, None)
    BY <1>2 DEF NewVisit
  <2>2. V[x] + 1 \in Nat /\ A[x] + 1 \in Nat /\ [V EXCEPT ![x] = @ + 1] \in [Step -> Nat]
    OBVIOUS
  <2> QED BY <2>1, <2>2, EnterType
<1> QED BY <1>1, <1>2

LEMMA FollowType ==
  ASSUME TypeOK, Shape, NEW s \in Session, NEW x \in Step, NEW e \in Exits[x],
         NEW V \in [Step -> Nat], NEW A \in [Step -> Nat], Follow(s, x, e, V, A)
  PROVE  LoopType' /\ StepShape' /\ OperatorsStay
<1>1. CASE Target[x][e] = Done
  <2>1. pc' = [pc EXCEPT ![s] = "complete"] /\ UNCHANGED <<mVisits, mAttempts, loc, tx>>
    BY <1>1 DEF Follow, Goto, ctx
  <2>2. LoopType' /\ StepShape'
    BY <2>1 DEF LoopType, TypeOK, Label, Shape, StepShape, AtStep, AtExit
  <2>3. OperatorsStay
    BY <2>1, ThreadsAssumption DEF OperatorsStay, TypeOK, Thread
  <2> QED BY <2>2, <2>3
<1>2. CASE Target[x][e] # Done
  <2>1. Target[x][e] \in Step
    BY <1>2, CircuitAssumption
  <2> QED BY <1>2, <2>1, NewVisitType DEF Follow
<1> QED BY <1>1, <1>2

LEMMA FailAttemptType ==
  ASSUME TypeOK, Shape, NEW s \in Session, pc[s] \in AtStep, NEW retry \in BOOLEAN,
         NEW why \in Reason, NEW kid \in Session \cup {None},
         FailAttempt(s, retry, why, kid)
  PROVE  LogType' /\ CursorShape' /\ LoopType' /\ StepShape' /\ OperatorsStay
         /\ rows' \in [Session -> SUBSET RowRec]
<1> DEFINE l == loc[s]
           a == Larger(mAttempts[s][l.step], l.att) + 1
<1>1. s \in Thread
  BY DEF Thread
<1>2. l \in Locals /\ l.step \in Step /\ l.att \in Nat
  BY <1>1 DEF TypeOK, Shape, StepShape, Locals
<1>3. a \in Nat
  <2>1. mAttempts[s][l.step] \in Nat
    BY <1>2 DEF TypeOK, Counts
  <2>2. Larger(mAttempts[s][l.step], l.att) \in Nat
    BY <1>2, <2>1, LargerType
  <2> QED BY <2>2
<1>4. LogFailed(s, l.step, l.att) /\ Upsert(s, l.step, l.att, "failed")
  BY DEF FailAttempt
<1>5. LogType' /\ CursorShape' /\ rows' \in [Session -> SUBSET RowRec]
  BY <1>2, <1>4, LogFailedType, UpsertType
<1>6. CASE retry /\ l.tries < MaxTries
  <2>1. /\ loc' = [loc EXCEPT ![s].att = a, ![s].tries = @ + 1, ![s].reattach = FALSE, ![s].kid = None]
        /\ mAttempts' = [mAttempts EXCEPT ![s][l.step] = a]
        /\ pc' = [pc EXCEPT ![s] = "assert"]
        /\ UNCHANGED <<mVisits, tx>>
    BY <1>6 DEF FailAttempt, Goto
  <2> DEFINE m == [l EXCEPT !.att = a, !.tries = @ + 1, !.reattach = FALSE, !.kid = None]
  <2>2. loc' = [loc EXCEPT ![s] = m]
    BY <1>1, <2>1 DEF TypeOK
  <2>3. m \in Locals /\ m.step = l.step
    <3>1. l.tries + 1 \in Nat
      BY <1>2 DEF Locals
    <3> HIDE DEF a
    <3> QED BY <1>2, <1>3, <3>1 DEF Locals
  <2>4. mAttempts' \in Counts
    BY <1>2, <1>3, <2>1, CountsExcept DEF TypeOK
  <2>a. pc' = [pc EXCEPT ![s] = "assert"] /\ mVisits' = mVisits /\ tx' = tx
    BY <2>1
  <2> HIDE DEF m, a
  <2>5. LoopType'
    BY <1>1, <2>a, <2>2, <2>3, <2>4 DEF LoopType, TypeOK, Label
  <2>6. StepShape'
    BY <1>1, <1>2, <2>a, <2>2, <2>3 DEF Shape, StepShape, TypeOK, AtExit
  <2>7. OperatorsStay
    BY <2>a, ThreadsAssumption DEF OperatorsStay, TypeOK, Thread
  <2> QED BY <1>5, <2>5, <2>6, <2>7
<1>7. CASE ~(retry /\ l.tries < MaxTries)
  <2>1. Suspend(s, IF retry THEN "retries-exhausted" ELSE why, IF retry THEN None ELSE kid)
        /\ UNCHANGED <<loc, ctx>>
    BY <1>7 DEF FailAttempt
  <2>2. LoopType' /\ StepShape' /\ OperatorsStay
    BY <2>1, SuspendLoop DEF Reason
  <2> QED BY <1>5, <2>2
<1> QED BY <1>6, <1>7

\* A step that moves a run loop from one label to another and nothing else of it.
LEMMA GotoLoop ==
  ASSUME TypeOK, Shape, NEW s \in Session, NEW label \in Label, Goto(s, label),
         label \in AtStep => pc[s] \in AtStep, label \in AtExit => pc[s] \in AtExit,
         UNCHANGED <<loc, ctx, tx>>
  PROVE  LoopType' /\ StepShape' /\ OperatorsStay
<1>1. pc' = [pc EXCEPT ![s] = label] /\ UNCHANGED <<loc, mVisits, mAttempts, tx>>
  BY DEF Goto, ctx
<1>2. LoopType'
  BY <1>1 DEF LoopType, TypeOK
<1>3. StepShape'
  BY <1>1 DEF Shape, StepShape, TypeOK
<1>4. OperatorsStay
  BY <1>1, ThreadsAssumption DEF OperatorsStay, TypeOK, Thread
<1> QED BY <1>2, <1>3, <1>4

\* A run loop that enters a transition() of a session.
LEMMA TransitionLoop ==
  ASSUME TypeOK, Shape, NEW s \in Session, NEW to \in State, NEW d \in Detail,
         NEW then \in Returns, Transition(s, s, to, d, then), loc' \in [Thread -> Locals],
         \A t \in Thread : t # s => loc'[t] = loc[t], UNCHANGED ctx
  PROVE  LoopType' /\ StepShape' /\ OperatorsStay
<1>0. s \in Thread
  BY DEF Thread
<1>1. tx' \in [Thread -> Call] /\ pc' \in [Thread -> Label] /\ pc' = [pc EXCEPT ![s] = "check"]
  BY <1>0, TransitionType
<1>2. LoopType'
  BY <1>1 DEF LoopType, TypeOK, ctx
<1>3. StepShape'
  BY <1>1 DEF Shape, StepShape, TypeOK, AtStep, AtExit
<1>4. OperatorsStay
  BY <1>1, ThreadsAssumption DEF OperatorsStay, TypeOK, Thread
<1> QED BY <1>2, <1>3, <1>4

\* A step of a run loop that leaves the sessions' rows and the operators alone
\* is typed when its log, its rows and its loop are.
LEMMA RunFrame ==
  ASSUME TypeOK, Shape, UNCHANGED <<sessionRows, open, stack, lock, boot, calls>>,
         LogType', CursorShape', LoopType', StepShape', OperatorsStay,
         rows' \in [Session -> SUBSET RowRec]
  PROVE  TypeOK' /\ Shape'
<1>1. UNCHANGED <<st, det, parent, circ, open, stack, lock, phase, todo, crashes, calls>>
  BY DEF sessionRows, boot
<1>2. TypeOK'
  BY <1>1 DEF TypeOK, LogType, LoopType
<1>3. Shape'
  BY <1>1 DEF Shape, StackShape, OperatorsStay
<1> QED BY <1>2, <1>3

\* The parts a step leaves alone keep their types.
LEMMA LogFrame ==
  ASSUME TypeOK, Shape, UNCHANGED log
  PROVE  LogType' /\ CursorShape'
BY DEF TypeOK, Shape, LogType, CursorShape, log

LEMMA RowsFrame ==
  ASSUME TypeOK, UNCHANGED rows
  PROVE  rows' \in [Session -> SUBSET RowRec]
BY DEF TypeOK

-------------------------------------------------------------------------------
(***************************************************************************)
(* The actions of a run loop.                                              *)
(***************************************************************************)
LEMMA AdmitTypes ==
  ASSUME TypeOK, Shape, NEW s \in Session, Admit(s)
  PROVE  TypeOK' /\ Shape'
<1>1. Plain("none") \in Detail /\ "running" \in State /\ "position" \in Returns
  BY RecordTypes DEF Reason, State, Returns
<1>2. loc' = loc /\ loc \in [Thread -> Locals] /\ UNCHANGED ctx
  BY DEF Admit, TypeOK
<1>3. LoopType' /\ StepShape' /\ OperatorsStay
  BY <1>1, <1>2, TransitionLoop DEF Admit
<1> QED BY <1>3, LogFrame, RowsFrame, RunFrame DEF Admit

LEMMA PositionTypes ==
  ASSUME TypeOK, Shape, NEW s \in Session, Position(s)
  PROVE  TypeOK' /\ Shape'
<1> DEFINE c == cur[s]
           x == c.step
           V == visits[s]
           A == attempts[s]
<1>1. V \in [Step -> Nat] /\ A \in [Step -> Nat] /\ c \in Cursor /\ circ[s] \in Circuit
  BY DEF TypeOK, Counts
<1>2. LoopType' /\ StepShape' /\ OperatorsStay
  <2>1. CASE Suspend(s, "config-error", None) /\ UNCHANGED <<ctx, loc>>
    BY <2>1, SuspendLoop DEF Reason
  <2>2. CASE NewVisit(s, Entry[circ[s]], V, A)
    <3>1. Entry[circ[s]] \in Step
      BY <1>1, CircuitAssumption
    <3> QED BY <1>1, <2>2, <3>1, NewVisitType
  <2>3. CASE c.status = "exited" /\ Follow(s, x, c.exit, V, A)
    <3>1. x \in Step /\ c.exit \in Exits[x]
      BY <2>3 DEF Shape, CursorShape
    <3> QED BY <1>1, <2>3, <3>1, FollowType
  <2>4. CASE /\ c.status \in {"running", "failed"}
             /\ Enter(s, x, c.visit, c.att, V, A, c.kid) \/ Enter(s, x, c.visit, A[x] + 1, V, A, None)
    <3>1. x \in Step
      BY <2>4 DEF Shape, CursorShape
    <3>2. c.visit \in Nat /\ c.att \in Nat /\ c.kid \in Session \cup {None} /\ A[x] + 1 \in Nat
      BY <1>1, <3>1 DEF Cursor
    <3> QED BY <1>1, <2>4, <3>1, <3>2, EnterType
  <2> QED BY <2>1, <2>2, <2>3, <2>4 DEF Position
<1> QED BY <1>2, LogFrame, RowsFrame, RunFrame DEF Position

LEMMA StartTypes ==
  ASSUME TypeOK, Shape, NEW s \in Session, Start(s)
  PROVE  TypeOK' /\ Shape'
<1> DEFINE l == loc[s]
<1>1. s \in Thread
  BY DEF Thread
<1>2. l \in Locals /\ l.step \in Step /\ l.att \in Nat /\ l.visit \in Nat /\ pc[s] \in AtStep
  BY <1>1 DEF Start, TypeOK, Shape, StepShape, Locals, AtStep
<1>3. PICK label \in {"wait", "spawn", "gate", "work"} : Goto(s, label)
  BY DEF Start
<1>4. label \in Label /\ label \in AtStep /\ label \notin AtExit
  BY DEF Label, AtStep, AtExit
<1>5. LoopType' /\ StepShape' /\ OperatorsStay
  BY <1>2, <1>3, <1>4, GotoLoop DEF Start
<1>6. LogType' /\ CursorShape' /\ rows' \in [Session -> SUBSET RowRec]
  BY <1>2, LogFrame, RowsFrame, LogStartedType, UpsertType DEF Start
<1> QED BY <1>5, <1>6, RunFrame DEF Start

LEMMA StopCancelledTypes ==
  ASSUME TypeOK, Shape, NEW s \in Session, StopCancelled(s)
  PROVE  TypeOK' /\ Shape'
<1>1. LoopType' /\ StepShape' /\ OperatorsStay
  BY GotoLoop DEF StopCancelled, Label, Returns, AtStep, AtExit
<1> QED BY <1>1, LogFrame, RowsFrame, RunFrame DEF StopCancelled

LEMMA OverBudgetTypes ==
  ASSUME TypeOK, Shape, NEW s \in Session, OverBudget(s)
  PROVE  TypeOK' /\ Shape'
<1>1. loc[s].step \in Step /\ loc[s].att \in Nat
  BY DEF OverBudget, TypeOK, Shape, StepShape, Locals, AtStep, Thread
<1>2. LoopType' /\ StepShape' /\ OperatorsStay
  BY SuspendLoop DEF OverBudget, Reason
<1>3. rows' \in [Session -> SUBSET RowRec]
  BY <1>1, UpsertType DEF OverBudget
<1> QED BY <1>2, <1>3, LogFrame, RunFrame DEF OverBudget

LEMMA WorkFailTypes ==
  ASSUME TypeOK, Shape, NEW s \in Session, WorkFail(s)
  PROVE  TypeOK' /\ Shape'
<1>1. pc[s] \in AtStep
  BY DEF WorkFail, AtStep
<1> QED BY <1>1, FailAttemptType, RunFrame DEF WorkFail, Reason

\* An exit chosen for the step a loop is at.
LEMMA ExitChosen ==
  ASSUME TypeOK, Shape, NEW s \in Session, pc[s] \in AtStep,
         NEW e \in Exits[loc[s].step], loc' = [loc EXCEPT ![s].exit = e],
         Goto(s, "exit-log"), UNCHANGED <<ctx, tx>>
  PROVE  LoopType' /\ StepShape' /\ OperatorsStay
<1> DEFINE m == [loc[s] EXCEPT !.exit = e]
<1>1. s \in Thread
  BY DEF Thread
<1>2. loc[s] \in Locals /\ loc[s].step \in Step
  BY <1>1 DEF TypeOK, Shape, StepShape
<1>3. e \in ExitName
  BY <1>2 DEF ExitName
<1>4. m \in Locals /\ m.step = loc[s].step /\ m.exit = e
  BY <1>2, <1>3 DEF Locals
<1>5. loc' = [loc EXCEPT ![s] = m]
  BY <1>1 DEF TypeOK
<1>6. pc' = [pc EXCEPT ![s] = "exit-log"] /\ UNCHANGED <<mVisits, mAttempts, tx>>
  BY DEF Goto, ctx
<1> HIDE DEF m
<1>7. LoopType'
  BY <1>1, <1>4, <1>5, <1>6 DEF LoopType, TypeOK, Label
<1>8. StepShape'
  BY <1>1, <1>2, <1>4, <1>5, <1>6 DEF Shape, StepShape, TypeOK
<1>9. OperatorsStay
  BY <1>6, ThreadsAssumption DEF OperatorsStay, TypeOK, Thread
<1> QED BY <1>7, <1>8, <1>9

LEMMA WorkExitTypes ==
  ASSUME TypeOK, Shape, NEW s \in Session, WorkExit(s)
  PROVE  TypeOK' /\ Shape'
<1>1. PICK e \in Exits[loc[s].step] : loc' = [loc EXCEPT ![s].exit = e]
  BY DEF WorkExit
<1>2. LoopType' /\ StepShape' /\ OperatorsStay
  BY <1>1, ExitChosen DEF WorkExit, AtStep
<1> QED BY <1>2, LogFrame, RowsFrame, RunFrame DEF WorkExit

LEMMA SpawnTypes ==
  ASSUME TypeOK, Shape, NEW s \in Session, Spawn(s)
  PROVE  TypeOK' /\ Shape'
<1>1. s \in Thread /\ loc[s] \in Locals /\ loc[s].step \in Step
  BY DEF Thread, Spawn, TypeOK, Shape, StepShape, AtStep
<1>2. PICK c \in Session :
        /\ st' = [st EXCEPT ![c] = "queued"]
        /\ parent' = [parent EXCEPT ![c] = s]
        /\ circ' = [circ EXCEPT ![c] = ChildCircuit[loc[s].step]]
        /\ loc' = [loc EXCEPT ![s].kid = c]
  BY DEF Spawn
<1>3. /\ st' \in [Session -> State]
      /\ parent' \in [Session -> Session \cup {None}]
      /\ circ' \in [Session -> Circuit]
  BY <1>1, <1>2, CircuitAssumption DEF TypeOK, State
<1> DEFINE m == [loc[s] EXCEPT !.kid = c]
<1>4. m \in Locals /\ m.step = loc[s].step
  BY <1>1 DEF Locals
<1>5. loc' = [loc EXCEPT ![s] = m]
  BY <1>1, <1>2 DEF TypeOK
<1>6. /\ pc' = [pc EXCEPT ![s] = "link-row"]
      /\ UNCHANGED <<mVisits, mAttempts, tx, det, rows, open, stack, lock, phase, todo, crashes, calls>>
  BY DEF Spawn, Goto, ctx, boot
<1> HIDE DEF m
<1>7. LoopType'
  BY <1>1, <1>4, <1>5, <1>6 DEF LoopType, TypeOK, Label
<1>8. StepShape'
  BY <1>1, <1>4, <1>5, <1>6 DEF Shape, StepShape, TypeOK, AtExit
<1>9. OperatorsStay
  BY <1>6, ThreadsAssumption DEF OperatorsStay, TypeOK, Thread
<1>10. LogType' /\ CursorShape'
  BY LogFrame DEF Spawn
<1>11. TypeOK'
  BY <1>3, <1>6, <1>7, <1>10 DEF TypeOK, LogType, LoopType
<1> QED BY <1>6, <1>8, <1>9, <1>10, <1>11 DEF Shape, StackShape, OperatorsStay

LEMMA LinkRowTypes ==
  ASSUME TypeOK, Shape, NEW s \in Session, LinkRow(s)
  PROVE  TypeOK' /\ Shape'
<1>1. loc[s].step \in Step /\ loc[s].att \in Nat
  BY DEF LinkRow, TypeOK, Shape, StepShape, Locals, AtStep, Thread
<1>2. LoopType' /\ StepShape' /\ OperatorsStay
  BY GotoLoop DEF LinkRow, Label, AtStep, AtExit
<1>3. rows' \in [Session -> SUBSET RowRec]
  BY <1>1, UpsertType DEF LinkRow
<1> QED BY <1>2, <1>3, LogFrame, RunFrame DEF LinkRow

LEMMA LinkLogTypes ==
  ASSUME TypeOK, Shape, NEW s \in Session, LinkLog(s)
  PROVE  TypeOK' /\ Shape'
<1>1. loc[s] \in Locals /\ cur[s] \in Cursor
  BY DEF TypeOK, Thread
<1> DEFINE c == [cur[s] EXCEPT !.kid = loc[s].kid]
<1>2. c \in Cursor /\ c.status = cur[s].status /\ c.step = cur[s].step /\ c.exit = cur[s].exit
  BY <1>1 DEF Cursor, Locals
<1>3. cur' = cur \/ cur' = [cur EXCEPT ![s] = c]
  BY DEF LinkLog, TypeOK
<1> HIDE DEF c
<1>4. cur' \in [Session -> Cursor] /\ CursorShape'
  BY <1>2, <1>3 DEF TypeOK, Shape, CursorShape
<1>5. LogType'
  BY <1>4 DEF LinkLog, LogType, TypeOK
<1>6. LoopType' /\ StepShape' /\ OperatorsStay
  BY GotoLoop DEF LinkLog, Label, AtStep, AtExit
<1> QED BY <1>4, <1>5, <1>6, RowsFrame, RunFrame DEF LinkLog

LEMMA WaitExitTypes ==
  ASSUME TypeOK, Shape, NEW s \in Session, WaitExit(s)
  PROVE  TypeOK' /\ Shape'
<1>1. pc[s] \in AtStep /\ UNCHANGED <<sessionRows, open, stack, lock, boot, calls>>
  BY DEF WaitExit, AtStep
<1>2. CASE /\ \E e \in Exits[loc[s].step] : loc' = [loc EXCEPT ![s].exit = e]
           /\ Goto(s, "exit-log")
           /\ UNCHANGED <<log, rows, ctx, tx>>
  <2>1. LoopType' /\ StepShape' /\ OperatorsStay
    BY <1>1, <1>2, ExitChosen
  <2> QED BY <1>1, <1>2, <2>1, LogFrame, RowsFrame, RunFrame
<1>3. loc[s].kid \in Session \cup {None}
  BY DEF TypeOK, Locals, Thread
<1>4. CASE FailAttempt(s, FALSE, "exit-unmapped", loc[s].kid)
  BY <1>1, <1>3, <1>4, FailAttemptType, RunFrame DEF Reason
<1>5. CASE FailAttempt(s, TRUE, "none", None)
  BY <1>1, <1>5, FailAttemptType, RunFrame DEF Reason
<1> QED BY <1>2, <1>4, <1>5 DEF WaitExit

LEMMA WaitCancelledTypes ==
  ASSUME TypeOK, Shape, NEW s \in Session, WaitCancelled(s)
  PROVE  TypeOK' /\ Shape'
<1>1. pc[s] \in AtStep /\ loc[s].kid \in Session \cup {None}
  BY DEF WaitCancelled, AtStep, TypeOK, Locals, Thread
<1> QED BY <1>1, FailAttemptType, RunFrame DEF WaitCancelled, Reason

LEMMA WaitParkTypes ==
  ASSUME TypeOK, Shape, NEW s \in Session, WaitPark(s)
  PROVE  TypeOK' /\ Shape'
<1> DEFINE l == loc[s]
           d(why) == [why |-> why, kid |-> l.kid, step |-> l.step, att |-> l.att, visit |-> l.visit]
           m == [l EXCEPT !.seen = st[l.kid]]
<1>1. s \in Thread /\ l \in Locals
  BY DEF Thread, TypeOK
<1>2. \A why \in Reason : d(why) \in Detail
  BY <1>1 DEF Locals, Detail
<1>3. /\ \/ Transition(s, s, "suspended-gate", d("child-gated"), "again")
         \/ Transition(s, s, "suspended-error", d("child-error"), "again")
      /\ st[l.kid] \in State
  BY DEF WaitPark, State
<1>4. m \in Locals
  BY <1>1, <1>3 DEF Locals
<1>5. loc' = [loc EXCEPT ![s] = m]
  BY <1>1 DEF WaitPark, TypeOK
<1>6. d("child-gated") \in Detail /\ d("child-error") \in Detail
  BY <1>2 DEF Reason
<1>7. "suspended-gate" \in State /\ "suspended-error" \in State /\ "again" \in Returns
  BY DEF State, Returns
<1> HIDE DEF m, d
<1>8. loc' \in [Thread -> Locals] /\ \A t \in Thread : t # s => loc'[t] = loc[t]
  BY <1>4, <1>5 DEF TypeOK
<1>9. LoopType' /\ StepShape' /\ OperatorsStay
  BY <1>3, <1>6, <1>7, <1>8, TransitionLoop DEF WaitPark
<1> QED BY <1>9, LogFrame, RowsFrame, RunFrame DEF WaitPark

LEMMA ParkedAgainTypes ==
  ASSUME TypeOK, Shape, NEW s \in Session, ParkedAgain(s)
  PROVE  TypeOK' /\ Shape'
<1>1. CASE Goto(s, "end") /\ UNCHANGED tx
  <2>1. LoopType' /\ StepShape' /\ OperatorsStay
    BY <1>1, GotoLoop DEF ParkedAgain, Label, Returns, AtStep, AtExit
  <2> QED BY <2>1, LogFrame, RowsFrame, RunFrame DEF ParkedAgain
<1>2. CASE /\ tx' = [tx EXCEPT ![s] = [NoCall EXCEPT !.who = loc[s].kid, !.then = "end"]]
           /\ Goto(s, "settle")
  <2>1. s \in Thread /\ loc[s].kid \in Session \cup {None}
    BY DEF Thread, TypeOK, Locals
  <2>2. [NoCall EXCEPT !.who = loc[s].kid, !.then = "end"] \in Call
    BY <2>1, RecordTypes DEF Call, Returns
  <2>3. UNCHANGED <<loc, mVisits, mAttempts>> /\ pc' = [pc EXCEPT ![s] = "settle"]
    BY <1>2 DEF ParkedAgain, ctx, Goto
  <2>4. LoopType'
    BY <1>2, <2>2, <2>3 DEF LoopType, TypeOK, Label
  <2>5. StepShape'
    BY <2>3 DEF Shape, StepShape, TypeOK, AtStep, AtExit
  <2>6. OperatorsStay
    BY <2>3, ThreadsAssumption DEF OperatorsStay, TypeOK, Thread
  <2> QED BY <2>4, <2>5, <2>6, LogFrame, RowsFrame, RunFrame DEF ParkedAgain
<1> QED BY <1>1, <1>2 DEF ParkedAgain

LEMMA GateOpenTypes ==
  ASSUME TypeOK, Shape, NEW s \in Session, GateOpen(s)
  PROVE  TypeOK' /\ Shape'
<1> DEFINE l == loc[s]
           d == [why |-> "gate", kid |-> None, step |-> l.step, att |-> l.att, visit |-> l.visit]
<1>1. l \in Locals /\ l.step \in Step /\ l.att \in Nat /\ l.visit \in Nat
  BY DEF GateOpen, TypeOK, Shape, StepShape, Locals, AtStep, Thread
<1>2. d \in Detail /\ "suspended-gate" \in State /\ "end" \in Returns
  BY <1>1 DEF Detail, Reason, State, Returns
<1>3. Transition(s, s, "suspended-gate", d, "end")
      /\ UNCHANGED <<sessionRows, log, rows, loc, ctx, stack, lock, boot, calls>>
  BY DEF GateOpen
<1>4. open' \in SUBSET (Session \X Step \X Nat)
  BY <1>1 DEF GateOpen, TypeOK
<1> HIDE DEF d
<1>5. LoopType' /\ StepShape' /\ OperatorsStay
  BY <1>2, <1>3, TransitionLoop DEF TypeOK
<1>6. UNCHANGED <<st, det, parent, circ, rows, stack, lock, phase, todo, crashes, calls>>
  BY <1>3 DEF sessionRows, boot
<1>7. LogType' /\ CursorShape'
  BY <1>3, LogFrame
<1>8. TypeOK'
  BY <1>4, <1>5, <1>6, <1>7 DEF TypeOK, LogType, LoopType
<1> QED BY <1>5, <1>6, <1>7, <1>8 DEF Shape, StackShape, OperatorsStay

LEMMA GateEmptyTypes ==
  ASSUME TypeOK, Shape, NEW s \in Session, GateEmpty(s)
  PROVE  TypeOK' /\ Shape'
<1>1. pc[s] \in AtStep
  BY DEF GateEmpty, AtStep
<1> QED BY <1>1, FailAttemptType, RunFrame DEF GateEmpty, Reason

LEMMA CompleteTypes ==
  ASSUME TypeOK, Shape, NEW s \in Session, Complete(s)
  PROVE  TypeOK' /\ Shape'
<1>1. Plain("none") \in Detail /\ "completed" \in State /\ "end" \in Returns
  BY RecordTypes DEF Reason, State, Returns
<1>2. LoopType' /\ StepShape' /\ OperatorsStay
  <2>1. CASE Transition(s, s, "completed", Plain("none"), "end")
    BY <1>1, <2>1, TransitionLoop DEF Complete, TypeOK
  <2>2. CASE Suspend(s, "exit-output-invalid", None)
    BY <2>2, SuspendLoop DEF Complete, Reason
  <2> QED BY <2>1, <2>2 DEF Complete
<1> QED BY <1>2, LogFrame, RowsFrame, RunFrame DEF Complete

LEMMA EndTypes ==
  ASSUME TypeOK, Shape, NEW s \in Session, End(s)
  PROVE  TypeOK' /\ Shape'
<1>1. /\ pc' = [pc EXCEPT ![s] = "idle"]
      /\ loc' = [loc EXCEPT ![s] = NoLocals]
      /\ tx' = [tx EXCEPT ![s] = NoCall]
      /\ mVisits' = [mVisits EXCEPT ![s] = NoCounts]
      /\ mAttempts' = [mAttempts EXCEPT ![s] = NoCounts]
  BY DEF End, Goto
<1>2. LoopType'
  BY <1>1, RecordTypes DEF LoopType, TypeOK, Label, Returns, Counts
<1>3. StepShape'
  BY <1>1 DEF Shape, StepShape, TypeOK, AtStep, AtExit
<1>4. OperatorsStay
  BY <1>1, ThreadsAssumption DEF OperatorsStay, TypeOK, Thread
<1> QED BY <1>2, <1>3, <1>4, LogFrame, RowsFrame, RunFrame DEF End

-------------------------------------------------------------------------------
(***************************************************************************)
(* Operator calls.                                                         *)
(***************************************************************************)
\* A step of an operator's thread that leaves the database alone is typed when
\* its own variables are.
LEMMA ServeFrame ==
  ASSUME TypeOK, Shape, NEW o \in Operator,
         UNCHANGED <<sessionRows, log, rows, open, ctx, boot>>,
         pc' \in [Thread -> Label], loc' \in [Thread -> Locals], tx' \in [Thread -> Call],
         stack' \in [Operator -> Seq(Session)], lock' \in [Session -> Operator \cup {None}],
         calls' \in Nat,
         \A t \in Thread : t # o => pc'[t] = pc[t] /\ loc'[t] = loc[t],
         \A p \in Operator : p # o => stack'[p] = stack[p],
         pc'[o] \in AtStep => loc'[o].step \in Step,
         pc'[o] \in AtExit => loc'[o].exit \in Exits[loc'[o].step],
         pc'[o] \in AtSession => stack'[o] # << >>
  PROVE  TypeOK' /\ Shape'
<1>1. UNCHANGED <<st, det, parent, circ, cur, visits, attempts, exits, rows, open, mVisits, mAttempts,
                  phase, todo, crashes>>
  BY DEF sessionRows, log, ctx, boot
<1>2. TypeOK'
  BY <1>1 DEF TypeOK
<1>3. CursorShape' /\ StepShape'
  BY <1>1 DEF Shape, CursorShape, StepShape
<1>4. StackShape'
  BY DEF Shape, StackShape, Thread
<1> QED BY <1>2, <1>3, <1>4 DEF Shape

LEMMA StackTypes ==
  ASSUME NEW q \in Seq(Session), q # << >>
  PROVE  Head(q) \in Session /\ Tail(q) \in Seq(Session)
OBVIOUS

\* The call a request starts.
LEMMA AcceptTypes ==
  ASSUME TypeOK, NEW o \in Operator, NEW s \in Session, NEW op, Accept(o, op, s)
  PROVE  /\ o \in Thread /\ pc[o] = "idle"
         /\ stack' = [stack EXCEPT ![o] = <<s>>] /\ stack'[o] # << >>
         /\ stack' \in [Operator -> Seq(Session)] /\ calls' \in Nat
<1>1. <<s>> \in Seq(Session) /\ <<s>> # << >>
  OBVIOUS
<1> QED BY <1>1 DEF TypeOK, Accept, Thread

LEMMA CancelTypes ==
  ASSUME TypeOK, Shape, NEW o \in Operator, NEW s \in Session, Cancel(o, s)
  PROVE  TypeOK' /\ Shape'
<1>1. /\ o \in Thread /\ stack' = [stack EXCEPT ![o] = <<s>>] /\ stack'[o] # << >>
      /\ stack' \in [Operator -> Seq(Session)] /\ calls' \in Nat
  BY AcceptTypes DEF Cancel
<1>2. pc' = [pc EXCEPT ![o] = "cancel-write"]
      /\ UNCHANGED <<sessionRows, log, rows, open, loc, ctx, tx, lock, boot>>
  BY DEF Cancel, Goto
<1>3. pc' \in [Thread -> Label] /\ loc' \in [Thread -> Locals] /\ tx' \in [Thread -> Call]
      /\ lock' \in [Session -> Operator \cup {None}]
  BY <1>1, <1>2 DEF TypeOK, Label
<1>4. \A t \in Thread : t # o => pc'[t] = pc[t] /\ loc'[t] = loc[t]
  BY <1>2 DEF TypeOK
<1>5. pc'[o] \notin AtStep /\ pc'[o] \notin AtExit
  BY <1>1, <1>2 DEF TypeOK, AtStep, AtExit
<1>6. \A p \in Operator : p # o => stack'[p] = stack[p]
  BY <1>1 DEF TypeOK
<1> QED BY <1>1, <1>2, <1>3, <1>4, <1>5, <1>6, ServeFrame

\* A step of an operator's thread to a label that is at no step.
LEMMA ServeGoto ==
  ASSUME TypeOK, Shape, NEW o \in Operator, NEW label \in Label, label \notin AtStep,
         pc' = [pc EXCEPT ![o] = label],
         UNCHANGED <<sessionRows, log, rows, open, ctx, boot>>,
         loc' \in [Thread -> Locals], \A t \in Thread : t # o => loc'[t] = loc[t],
         tx' \in [Thread -> Call],
         NEW q \in Seq(Session), stack' = [stack EXCEPT ![o] = q], label \in AtSession => q # << >>,
         lock' \in [Session -> Operator \cup {None}], calls' \in Nat
  PROVE  TypeOK' /\ Shape'
<1>1. o \in Thread
  BY DEF Thread
<1>2. pc' \in [Thread -> Label] /\ pc'[o] = label /\ \A t \in Thread : t # o => pc'[t] = pc[t]
  BY <1>1 DEF TypeOK
<1>3. stack' \in [Operator -> Seq(Session)] /\ stack'[o] = q
      /\ \A p \in Operator : p # o => stack'[p] = stack[p]
  BY DEF TypeOK
<1>4. label \notin AtExit
  BY DEF AtStep
<1> QED BY <1>2, <1>3, <1>4, ServeFrame

\* What an operator call leaves alone keeps its type.
LEMMA ServeRest ==
  ASSUME TypeOK
  PROVE  /\ tx \in [Thread -> Call] /\ loc \in [Thread -> Locals]
         /\ lock \in [Session -> Operator \cup {None}] /\ calls \in Nat
         /\ \A o \in Operator : stack[o] \in Seq(Session) /\ stack = [stack EXCEPT ![o] = stack[o]]
BY DEF TypeOK

LEMMA CancelWriteTypes ==
  ASSUME TypeOK, Shape, NEW o \in Operator, CancelWrite(o)
  PROVE  TypeOK' /\ Shape'
<1>1. /\ pc' = [pc EXCEPT ![o] = "cancel-children"]
      /\ UNCHANGED <<parent, circ, cur, visits, attempts, exits, rows, open, loc, mVisits, mAttempts,
                      tx, stack, lock, phase, todo, crashes, calls>>
  BY DEF CancelWrite, Goto, log, ctx, boot
<1>2. o \in Thread /\ pc[o] = "cancel-write"
  BY DEF Thread, CancelWrite
<1>3. "cancelled" \in State /\ Plain("cancelled") \in Detail
  BY RecordTypes DEF State, Reason
<1>4. st' \in [Session -> State] /\ det' \in [Session -> Detail]
  BY <1>3 DEF CancelWrite, TypeOK
<1>5. TypeOK'
  BY <1>1, <1>4 DEF TypeOK, Label
<1>6. Shape'
  BY <1>1, <1>2 DEF TypeOK, Shape, CursorShape, StepShape, StackShape, AtStep, AtExit, AtSession, Thread
<1> QED BY <1>5, <1>6

LEMMA FunIsSeq ==
  ASSUME NEW S, NEW n \in Nat, NEW q \in [1..n -> S]
  PROVE  q \in Seq(S)
BY SeqDef

LEMMA CancelChildrenTypes ==
  ASSUME TypeOK, Shape, NEW o \in Operator, CancelChildren(o)
  PROVE  TypeOK' /\ Shape'
<1> DEFINE kids == {c \in Session : st[c] # "none" /\ parent[c] = Head(stack[o])}
<1>1. stack[o] # << >> /\ stack[o] \in Seq(Session)
  BY DEF CancelChildren, TypeOK, Shape, StackShape, AtSession
<1>2. PICK q \in Orders(kids) : stack' = [stack EXCEPT ![o] = q \o Tail(stack[o])]
  BY DEF CancelChildren, TypeOK
<1>3. Cardinality(kids) \in Nat
  BY ThreadsAssumption, FS_Subset, FS_CardinalityType
<1>4. q \in Seq(Session)
  <2>1. q \in [1..Cardinality(kids) -> Session]
    BY DEF Orders
  <2> QED BY <1>3, <2>1, FunIsSeq
<1>5. q \o Tail(stack[o]) \in Seq(Session)
  BY <1>1, <1>4
<1>6. "cancel-next" \in Label /\ "cancel-next" \notin AtStep /\ "cancel-next" \notin AtSession
  BY DEF Label, AtStep, AtSession, AtExit
<1>7. pc' = [pc EXCEPT ![o] = "cancel-next"]
      /\ UNCHANGED <<sessionRows, log, rows, open, loc, ctx, tx, lock, boot, calls>>
  BY DEF CancelChildren, Goto
<1> QED BY <1>2, <1>5, <1>6, <1>7, ServeGoto, ServeRest

LEMMA CancelNextTypes ==
  ASSUME TypeOK, Shape, NEW o \in Operator, CancelNext(o)
  PROVE  TypeOK' /\ Shape'
<1>0. stack[o] \in Seq(Session) /\ pc[o] = "cancel-next" /\ o \in Thread
  BY DEF TypeOK, CancelNext, Thread
<1>1. UNCHANGED <<sessionRows, log, rows, open, loc, ctx, tx, lock, boot, calls>>
  BY DEF CancelNext
<1>2. CASE stack[o] = << >> /\ Goto(o, "done") /\ UNCHANGED stack
  <2>1. "done" \in Label /\ "done" \notin AtStep /\ "done" \notin AtSession
    BY DEF Label, Returns, AtStep, AtSession, AtExit
  <2> QED BY <1>0, <1>1, <1>2, <2>1, ServeGoto, ServeRest DEF Goto
<1>3. CASE stack[o] # << >> /\ stack' = [stack EXCEPT ![o] = Tail(@)] /\ UNCHANGED pc
  <2>1. Tail(stack[o]) \in Seq(Session) /\ stack' = [stack EXCEPT ![o] = Tail(stack[o])]
    BY <1>0, <1>3, StackTypes DEF TypeOK
  <2>2. pc' = [pc EXCEPT ![o] = "cancel-next"]
    BY <1>0, <1>3 DEF TypeOK
  <2>3. "cancel-next" \in Label /\ "cancel-next" \notin AtStep /\ "cancel-next" \notin AtSession
    BY DEF Label, AtStep, AtSession, AtExit
  <2> QED BY <1>1, <2>1, <2>2, <2>3, ServeGoto, ServeRest
<1>4. CASE stack[o] # << >> /\ Goto(o, "cancel-write") /\ UNCHANGED stack
  <2>1. "cancel-write" \in Label /\ "cancel-write" \notin AtStep
    BY DEF Label, AtStep, AtExit
  <2> QED BY <1>0, <1>1, <1>4, <2>1, ServeGoto, ServeRest DEF Goto
<1> QED BY <1>2, <1>3, <1>4 DEF CancelNext

\* The locals of a retry, about to look at the child its session is parked behind.
LEMMA RetryLocals ==
  ASSUME TypeOK, NEW o \in Operator, NEW s \in Session, loc' = [loc EXCEPT ![o].kid = det[s].kid]
  PROVE  loc' \in [Thread -> Locals] /\ \A t \in Thread : t # o => loc'[t] = loc[t]
<1> DEFINE m == [loc[o] EXCEPT !.kid = det[s].kid]
<1>1. o \in Thread /\ loc[o] \in Locals /\ det[s].kid \in Session \cup {None}
  BY DEF Thread, TypeOK, Detail
<1>2. m \in Locals
  BY <1>1 DEF Locals
<1>3. loc' = [loc EXCEPT ![o] = m]
  BY <1>1 DEF TypeOK
<1> HIDE DEF m
<1> QED BY <1>2, <1>3 DEF TypeOK

LEMMA RetryTypes ==
  ASSUME TypeOK, Shape, NEW o \in Operator, NEW s \in Session, Retry(o, s)
  PROVE  TypeOK' /\ Shape'
<1>1. stack' = [stack EXCEPT ![o] = <<s>>] /\ calls' \in Nat /\ <<s>> \in Seq(Session)
  BY AcceptTypes DEF Retry
<1>2. pc' = [pc EXCEPT ![o] = "retry-child"]
      /\ UNCHANGED <<sessionRows, log, rows, open, ctx, tx, lock, boot>>
  BY DEF Retry, Goto
<1>3. loc' \in [Thread -> Locals] /\ \A t \in Thread : t # o => loc'[t] = loc[t]
  BY RetryLocals DEF Retry
<1>4. "retry-child" \in Label /\ "retry-child" \notin AtStep /\ "retry-child" \notin AtSession
  BY DEF Label, AtStep, AtSession, AtExit
<1> QED BY <1>1, <1>2, <1>3, <1>4, ServeGoto, ServeRest

LEMMA RetryReadTypes ==
  ASSUME TypeOK, Shape, NEW o \in Operator, RetryRead(o)
  PROVE  TypeOK' /\ Shape'
<1>1. stack[o] \in Seq(Session) /\ stack[o] # << >> /\ Head(stack[o]) \in Session
  BY StackTypes DEF TypeOK, RetryRead, Shape, StackShape, AtSession
<1>2. UNCHANGED <<sessionRows, log, rows, open, ctx, tx, stack, lock, boot, calls>>
  BY DEF RetryRead
<1>3. CASE loc' = [loc EXCEPT ![o].kid = det[Head(stack[o])].kid] /\ Goto(o, "retry-child")
  <2>1. loc' \in [Thread -> Locals] /\ \A t \in Thread : t # o => loc'[t] = loc[t]
    BY <1>1, <1>3, RetryLocals
  <2>2. "retry-child" \in Label /\ "retry-child" \notin AtStep /\ "retry-child" \notin AtSession
    BY DEF Label, AtStep, AtSession, AtExit
  <2> QED BY <1>1, <1>2, <1>3, <2>1, <2>2, ServeGoto, ServeRest DEF Goto
<1>4. CASE Goto(o, "done") /\ UNCHANGED loc
  <2>1. "done" \in Label /\ "done" \notin AtStep /\ "done" \notin AtSession
    BY DEF Label, Returns, AtStep, AtSession, AtExit
  <2> QED BY <1>1, <1>2, <1>4, <2>1, ServeGoto, ServeRest DEF Goto
<1> QED BY <1>3, <1>4 DEF RetryRead

LEMMA RetryChildTypes ==
  ASSUME TypeOK, Shape, NEW o \in Operator, RetryChild(o)
  PROVE  TypeOK' /\ Shape'
<1> DEFINE k == loc[o].kid
<1>1. stack[o] \in Seq(Session) /\ k \in Session \cup {None}
  BY DEF TypeOK, Locals, Thread
<1>2. UNCHANGED <<sessionRows, log, rows, open, loc, ctx, tx, lock, boot, calls>>
  BY DEF RetryChild
<1>3. CASE k # None /\ stack' = [stack EXCEPT ![o] = <<k>> \o @] /\ Goto(o, "retry-read")
  <2> DEFINE q == <<k>> \o stack[o]
  <2>1. q \in Seq(Session) /\ q # << >>
    BY <1>1, <1>3
  <2>2. stack' = [stack EXCEPT ![o] = q]
    BY <1>3 DEF TypeOK
  <2>3. "retry-read" \in Label /\ "retry-read" \notin AtStep
    BY DEF Label, AtStep, AtExit
  <2> HIDE DEF q
  <2> QED BY <1>2, <1>3, <2>1, <2>2, <2>3, ServeGoto, ServeRest DEF Goto
<1>4. CASE Goto(o, "retry-queue") /\ UNCHANGED stack
  <2>1. "retry-queue" \in Label /\ "retry-queue" \notin AtStep /\ "retry-queue" \notin AtSession
    BY DEF Label, Returns, AtStep, AtSession, AtExit
  <2> QED BY <1>1, <1>2, <1>4, <2>1, ServeGoto, ServeRest DEF Goto
<1> QED BY <1>3, <1>4 DEF RetryChild

\* A call that queues a session.
LEMMA QueueTypes ==
  ASSUME TypeOK, NEW t \in Thread, NEW s \in Session, NEW why \in Reason, NEW then \in Returns,
         Transition(t, s, "queued", Plain(why), then)
  PROVE  tx' \in [Thread -> Call] /\ pc' = [pc EXCEPT ![t] = "check"] /\ "check" \in Label
         /\ "check" \notin AtStep /\ "check" \notin AtSession
<1>1. "queued" \in State /\ Plain(why) \in Detail
  BY RecordTypes DEF State
<1>2. "check" \in Label /\ "check" \notin AtStep /\ "check" \notin AtSession
  BY DEF Label, AtStep, AtSession, AtExit
<1> QED BY <1>1, <1>2, TransitionType

LEMMA RetryQueueTypes ==
  ASSUME TypeOK, Shape, NEW o \in Operator, RetryQueue(o)
  PROVE  TypeOK' /\ Shape'
<1>0. stack[o] \in Seq(Session) /\ o \in Thread
  BY DEF TypeOK, Thread
<1>1. UNCHANGED <<sessionRows, log, rows, open, loc, ctx, lock, boot, calls>>
  BY DEF RetryQueue
<1>2. CASE Goto(o, "done") /\ UNCHANGED <<tx, stack>>
  <2>1. "done" \in Label /\ "done" \notin AtStep /\ "done" \notin AtSession
    BY DEF Label, Returns, AtStep, AtSession, AtExit
  <2> QED BY <1>0, <1>1, <1>2, <2>1, ServeGoto, ServeRest DEF Goto
<1>3. CASE /\ stack[o] # << >>
           /\ Transition(o, Head(stack[o]), "queued", Plain("resumed"), "retry-queue")
           /\ stack' = [stack EXCEPT ![o] = Tail(@)]
  <2>1. Head(stack[o]) \in Session /\ Tail(stack[o]) \in Seq(Session)
        /\ stack' = [stack EXCEPT ![o] = Tail(stack[o])]
    BY <1>0, <1>3, StackTypes DEF TypeOK
  <2>2. tx' \in [Thread -> Call] /\ pc' = [pc EXCEPT ![o] = "check"] /\ "check" \in Label
        /\ "check" \notin AtStep /\ "check" \notin AtSession
    BY <1>0, <1>3, <2>1, QueueTypes DEF Reason, Returns
  <2> QED BY <1>1, <2>1, <2>2, ServeGoto, ServeRest
<1> QED BY <1>2, <1>3 DEF RetryQueue

LEMMA ResumeTypes ==
  ASSUME TypeOK, Shape, NEW o \in Operator, NEW s \in Session, Resume(o, s)
  PROVE  TypeOK' /\ Shape'
<1>1. o \in Thread /\ stack' = [stack EXCEPT ![o] = <<s>>] /\ calls' \in Nat /\ <<s>> \in Seq(Session)
  BY AcceptTypes DEF Resume
<1>2. tx' \in [Thread -> Call] /\ pc' = [pc EXCEPT ![o] = "check"] /\ "check" \in Label
      /\ "check" \notin AtStep /\ "check" \notin AtSession
  BY <1>1, QueueTypes DEF Resume, Reason, Returns
<1>3. UNCHANGED <<sessionRows, log, rows, open, loc, ctx, lock, boot>>
  BY DEF Resume
<1> QED BY <1>1, <1>2, <1>3, ServeGoto, ServeRest

\* The locals of a call that is about to record an exit of a step.
ExitLocal(x, e, a, v) == [NoLocals EXCEPT !.step = x, !.exit = e, !.att = a, !.visit = v]

LEMMA ExitLocalType ==
  ASSUME NEW x \in Step, NEW e \in Exits[x], NEW a \in Nat, NEW v \in Nat
  PROVE  ExitLocal(x, e, a, v) \in Locals /\ ExitLocal(x, e, a, v).step = x /\ ExitLocal(x, e, a, v).exit = e
<1>1. e \in ExitName
  BY DEF ExitName
<1> QED BY <1>1 DEF ExitLocal, NoLocals, Locals, State, Reason

LEMMA ManualRouteTypes ==
  ASSUME TypeOK, Shape, NEW o \in Operator, NEW s \in Session, ManualRoute(o, s)
  PROVE  TypeOK' /\ Shape'
<1> DEFINE c == cur[s]
           to == Target[c.step][c.exit]
           exited == c.status = "exited"
           x == IF exited THEN to ELSE c.step
           a == IF exited THEN attempts[s][x] + 1 ELSE c.att
           v == IF exited THEN Larger(visits[s][x], 1) ELSE c.visit
<1>1. /\ o \in Thread /\ stack' = [stack EXCEPT ![o] = <<s>>] /\ stack'[o] # << >>
      /\ stack' \in [Operator -> Seq(Session)] /\ calls' \in Nat
  BY AcceptTypes DEF ManualRoute
<1>2. c \in Cursor /\ c.step \in Step
  BY DEF ManualRoute, TypeOK, Shape, CursorShape
<1>3. x \in Step
  BY <1>2, CircuitAssumption DEF ManualRoute, Shape, CursorShape
<1>4. a \in Nat /\ v \in Nat
  <2> HIDE DEF x, exited
  <2>1. attempts[s][x] \in Nat /\ visits[s][x] \in Nat
    BY <1>3 DEF TypeOK, Counts
  <2>2. c.att \in Nat /\ c.visit \in Nat
    BY <1>2 DEF Cursor
  <2>3. Larger(visits[s][x], 1) \in Nat
    BY <2>1, LargerType
  <2> QED BY <2>1, <2>2, <2>3
<1>5. PICK e \in Exits[x] : loc' = [loc EXCEPT ![o] = ExitLocal(x, e, a, v)]
  BY DEF ManualRoute, ExitLocal
<1>6. pc' = [pc EXCEPT ![o] = "exit-log"]
      /\ UNCHANGED <<sessionRows, log, rows, open, ctx, tx, lock, boot>>
  BY DEF ManualRoute, Goto
<1> HIDE DEF x, a, v
<1>7. /\ loc' \in [Thread -> Locals] /\ \A t \in Thread : t # o => loc'[t] = loc[t]
      /\ loc'[o].step = x /\ loc'[o].exit = e
  BY <1>1, <1>3, <1>4, <1>5, ExitLocalType DEF TypeOK
<1>8. pc' \in [Thread -> Label] /\ \A t \in Thread : t # o => pc'[t] = pc[t]
  BY <1>1, <1>6 DEF TypeOK, Label
<1>9. \A p \in Operator : p # o => stack'[p] = stack[p]
  BY <1>1 DEF TypeOK
<1> QED BY <1>1, <1>3, <1>6, <1>7, <1>8, <1>9, ServeFrame, ServeRest

LEMMA VerdictTypes ==
  ASSUME TypeOK, Shape, NEW o \in Operator, NEW s \in Session, Verdict(o, s)
  PROVE  TypeOK' /\ Shape'
<1> DEFINE d == det[s]
<1>1. /\ o \in Thread /\ stack' = [stack EXCEPT ![o] = <<s>>] /\ stack'[o] # << >>
      /\ stack' \in [Operator -> Seq(Session)] /\ calls' \in Nat
  BY AcceptTypes DEF Verdict
<1>2. d \in Detail /\ d.step \in Step /\ d.att \in Nat /\ d.visit \in Nat
  <2>1. <<s, d.step, d.att>> \in Session \X Step \X Nat /\ d \in Detail
    BY DEF Verdict, TypeOK
  <2> QED BY <2>1 DEF Detail
<1>3. PICK e \in Exits[d.step] : loc' = [loc EXCEPT ![o] = ExitLocal(d.step, e, d.att, d.visit)]
  BY DEF Verdict, ExitLocal, NoLocals
<1>4. /\ pc' = [pc EXCEPT ![o] = "verdict"]
      /\ lock' = [lock EXCEPT ![s] = o]
      /\ UNCHANGED <<sessionRows, log, rows, open, ctx, tx, boot>>
  BY DEF Verdict, Goto
<1>5. /\ loc' \in [Thread -> Locals] /\ \A t \in Thread : t # o => loc'[t] = loc[t]
      /\ loc'[o].step = d.step /\ loc'[o].exit = e
  BY <1>1, <1>2, <1>3, ExitLocalType DEF TypeOK
<1>6. /\ pc' \in [Thread -> Label] /\ \A t \in Thread : t # o => pc'[t] = pc[t]
      /\ lock' \in [Session -> Operator \cup {None}]
  BY <1>1, <1>4 DEF TypeOK, Label
<1>7. \A p \in Operator : p # o => stack'[p] = stack[p]
  BY <1>1 DEF TypeOK
<1> HIDE DEF d
<1> QED BY <1>1, <1>2, <1>4, <1>5, <1>6, <1>7, ServeFrame, ServeRest

LEMMA VerdictCloseTypes ==
  ASSUME TypeOK, Shape, NEW o \in Operator, VerdictClose(o)
  PROVE  TypeOK' /\ Shape'
<1>1. /\ pc' = [pc EXCEPT ![o] = "exit-log"]
      /\ UNCHANGED <<st, det, parent, circ, cur, visits, attempts, exits, rows, loc, mVisits, mAttempts,
                      tx, stack, lock, phase, todo, crashes, calls>>
  BY DEF VerdictClose, Goto, sessionRows, log, ctx, boot
<1>2. o \in Thread /\ pc[o] = "verdict"
  BY DEF Thread, VerdictClose
<1>3. open' \in SUBSET (Session \X Step \X Nat)
  BY DEF VerdictClose, TypeOK
<1>4. TypeOK'
  BY <1>1, <1>3 DEF TypeOK, Label
<1>5. Shape'
  BY <1>1, <1>2 DEF TypeOK, Shape, CursorShape, StepShape, StackShape, AtStep, AtExit, AtSession, Thread
<1> QED BY <1>4, <1>5

LEMMA ReturnTypes ==
  ASSUME TypeOK, Shape, NEW o \in Operator, Return(o)
  PROVE  TypeOK' /\ Shape'
<1>1. /\ pc' = [pc EXCEPT ![o] = "idle"]
      /\ stack' = [stack EXCEPT ![o] = << >>]
      /\ UNCHANGED <<sessionRows, log, rows, open, ctx, boot, calls>>
  BY DEF Return, Goto
<1>2. loc' \in [Thread -> Locals] /\ (\A t \in Thread : t # o => loc'[t] = loc[t])
      /\ tx' \in [Thread -> Call]
  BY RecordTypes DEF Return, TypeOK
<1>3. lock' \in [Session -> Operator \cup {None}]
  BY DEF Return, TypeOK
<1>4. "idle" \in Label /\ "idle" \notin AtStep /\ "idle" \notin AtSession /\ << >> \in Seq(Session)
  BY DEF Label, Returns, AtStep, AtSession, AtExit
<1> QED BY <1>1, <1>2, <1>3, <1>4, ServeGoto, ServeRest

-------------------------------------------------------------------------------
(***************************************************************************)
(* Recorded exits, transitions, and the process.                           *)
(***************************************************************************)
\* Whose checkpoint a thread that records an exit writes.
LEMMA AboutType ==
  ASSUME TypeOK, Shape, NEW t \in Session \cup Operator, pc[t] \in AtExit
  PROVE  About(t) \in Session /\ t \in Thread
         /\ loc[t] \in Locals /\ loc[t].step \in Step /\ loc[t].exit \in Exits[loc[t].step]
         /\ loc[t].att \in Nat /\ loc[t].visit \in Nat
<1>1. t \in Thread /\ loc[t] \in Locals
  BY DEF Thread, TypeOK
<1>2. loc[t].step \in Step /\ loc[t].exit \in Exits[loc[t].step]
  BY <1>1 DEF Shape, StepShape, AtStep
<1>3. t \notin Session => stack[t] # << >> /\ stack[t] \in Seq(Session)
  BY DEF Shape, StackShape, AtSession, TypeOK
<1>4. About(t) \in Session
  BY <1>3, StackTypes DEF About
<1> QED BY <1>1, <1>2, <1>4 DEF Locals

LEMMA ExitLogTypes ==
  ASSUME TypeOK, Shape, NEW t \in Session \cup Operator, ExitLog(t)
  PROVE  TypeOK' /\ Shape'
<1>1. pc[t] = "exit-log" /\ pc[t] \in AtExit /\ t \in Thread
  BY DEF ExitLog, AtExit, Thread
<1>2. LogType' /\ CursorShape'
  BY <1>1, AboutType, LogExitedType DEF ExitLog
<1>3. /\ pc' = [pc EXCEPT ![t] = "exit-row"]
      /\ UNCHANGED <<st, det, parent, circ, rows, open, loc, mVisits, mAttempts, tx, stack, lock,
                      phase, todo, crashes, calls>>
  BY DEF ExitLog, Goto, sessionRows, ctx, boot
<1>4. TypeOK'
  BY <1>2, <1>3 DEF TypeOK, LogType, Label
<1>5. Shape'
  BY <1>1, <1>2, <1>3 DEF TypeOK, Shape, StepShape, StackShape, AtStep, AtExit, AtSession, Thread
<1> QED BY <1>4, <1>5

LEMMA ExitRowTypes ==
  ASSUME TypeOK, Shape, NEW t \in Session \cup Operator, ExitRow(t)
  PROVE  TypeOK' /\ Shape'
<1> DEFINE l == loc[t]
           s == About(t)
<1>1. pc[t] \in AtExit
  BY DEF ExitRow, AtExit
<1>2. /\ s \in Session /\ t \in Thread /\ l.step \in Step /\ l.exit \in Exits[l.step]
      /\ l.att \in Nat
  BY <1>1, AboutType
<1>3. rows' \in [Session -> SUBSET RowRec]
  BY <1>2, UpsertType DEF ExitRow
<1>4. LogType' /\ CursorShape'
  BY LogFrame DEF ExitRow
<1>5. CASE t \in Session
  <2>1. Follow(t, l.step, l.exit, mVisits[t], mAttempts[t])
    BY <1>5 DEF ExitRow, About
  <2>2. mVisits[t] \in [Step -> Nat] /\ mAttempts[t] \in [Step -> Nat]
    BY <1>5 DEF TypeOK, Counts
  <2>3. LoopType' /\ StepShape' /\ OperatorsStay
    BY <1>2, <1>5, <2>1, <2>2, FollowType
  <2> QED BY <1>3, <1>4, <2>3, RunFrame DEF ExitRow
<1>6. CASE t \notin Session
  <2>1. Transition(t, s, "queued", Plain("resumed"), "done") /\ UNCHANGED <<loc, ctx>>
    BY <1>6 DEF ExitRow
  <2>2. tx' \in [Thread -> Call] /\ pc' = [pc EXCEPT ![t] = "check"] /\ "check" \in Label
        /\ "check" \notin AtStep /\ "check" \notin AtSession
    BY <1>2, <2>1, QueueTypes DEF Reason, Returns
  <2>3. UNCHANGED <<st, det, parent, circ, open, stack, lock, phase, todo, crashes, calls>>
    BY DEF ExitRow, sessionRows, boot
  <2>4. UNCHANGED <<loc, mVisits, mAttempts>>
    BY <2>1 DEF ctx
  <2>5. TypeOK'
    BY <1>3, <1>4, <2>2, <2>3, <2>4 DEF TypeOK, LogType
  <2>6. StepShape' /\ StackShape'
    BY <2>2, <2>3, <2>4 DEF TypeOK, Shape, StepShape, StackShape, AtStep, Thread
  <2> QED BY <1>4, <2>5, <2>6 DEF Shape
<1> QED BY <1>5, <1>6

\* A step that moves one thread to a label at no step and no session, and may
\* change sessions' states and details and that thread's call.
LEMMA SharedFrame ==
  ASSUME TypeOK, Shape, NEW t \in Thread, NEW label \in Label,
         label \notin AtStep, label \notin AtSession,
         pc' = [pc EXCEPT ![t] = label],
         st' \in [Session -> State], det' \in [Session -> Detail], tx' \in [Thread -> Call],
         UNCHANGED <<parent, circ, log, rows, open, loc, ctx, stack, lock, boot, calls>>
  PROVE  TypeOK' /\ Shape'
<1>1. UNCHANGED <<parent, circ, cur, visits, attempts, exits, rows, open, loc, mVisits, mAttempts,
                  stack, lock, phase, todo, crashes, calls>>
  BY DEF log, ctx, boot
<1>2. TypeOK'
  BY <1>1 DEF TypeOK
<1>3. Shape'
  BY <1>1 DEF TypeOK, Shape, CursorShape, StepShape, StackShape, AtStep, Thread
<1> QED BY <1>2, <1>3

\* The labels a transition() leads to.
TxLabel == Returns \cup {"check", "write", "settle", "dead"}

LEMMA TxLabels == \A label \in TxLabel : label \in Label /\ label \notin AtStep /\ label \notin AtSession
BY DEF TxLabel, Returns, Label, AtStep, AtSession, AtExit

LEMMA TxCheckTypes ==
  ASSUME TypeOK, Shape, NEW t \in Thread, TxCheck(t)
  PROVE  TypeOK' /\ Shape'
<1>1. tx[t] \in Call
  BY DEF TypeOK
<1>2. PICK label \in TxLabel : Goto(t, label)
  BY <1>1 DEF TxCheck, OnSignal, TxLabel, Returns, Call
<1>3. /\ pc' = [pc EXCEPT ![t] = label]
      /\ st' \in [Session -> State] /\ det' \in [Session -> Detail] /\ tx' \in [Thread -> Call]
      /\ UNCHANGED <<parent, circ, log, rows, open, loc, ctx, stack, lock, boot, calls>>
  BY <1>2 DEF TxCheck, Goto, sessionRows, TypeOK
<1> QED BY <1>3, TxLabels, SharedFrame

LEMMA TxWriteTypes ==
  ASSUME TypeOK, Shape, NEW t \in Thread, TxWrite(t)
  PROVE  TypeOK' /\ Shape'
<1>1. tx[t] \in Call
  BY DEF TypeOK
<1>2. tx[t].to \in State /\ tx[t].det \in Detail /\ tx[t].then \in TxLabel
  BY <1>1 DEF Call, TxLabel
<1>3. PICK label \in TxLabel : Goto(t, label)
  BY <1>2 DEF TxWrite, TxLabel
<1>4. /\ pc' = [pc EXCEPT ![t] = label]
      /\ st' \in [Session -> State] /\ det' \in [Session -> Detail] /\ tx' \in [Thread -> Call]
      /\ UNCHANGED <<parent, circ, log, rows, open, loc, ctx, stack, lock, boot, calls>>
  BY <1>2, <1>3 DEF TxWrite, Goto, TypeOK
<1> QED BY <1>4, TxLabels, SharedFrame

LEMMA SettleTypes ==
  ASSUME TypeOK, Shape, ChildShape, NEW t \in Thread, Settle(t)
  PROVE  TypeOK' /\ Shape'
<1> DEFINE c == tx[t]
           p == parent[c.who]
           d == [who |-> p, to |-> "queued", det |-> Plain("resumed"), wake |-> TRUE, then |-> c.then]
<1>1. c \in Call /\ p \in Session
  BY DEF TypeOK, Settle, ChildShape, IsChild, IsChildIn
<1>2. c.then \in TxLabel
  BY <1>1 DEF Call, TxLabel
<1>3. d \in Call
  BY <1>1, RecordTypes DEF Call, Reason, State
<1>4. st' \in [Session -> State] /\ det' \in [Session -> Detail]
      /\ UNCHANGED <<parent, circ, log, rows, open, loc, ctx, stack, lock, boot, calls>>
  BY DEF Settle, sessionRows, TypeOK
<1>5. CASE tx' = [tx EXCEPT ![t] = d] /\ Goto(t, "check")
  <2> HIDE DEF d
  <2>1. tx' \in [Thread -> Call] /\ pc' = [pc EXCEPT ![t] = "check"] /\ "check" \in TxLabel
    BY <1>3, <1>5 DEF TypeOK, Goto, TxLabel
  <2> QED BY <1>4, <2>1, TxLabels, SharedFrame
<1>6. CASE Goto(t, c.then) /\ UNCHANGED tx
  <2>1. tx' \in [Thread -> Call] /\ pc' = [pc EXCEPT ![t] = c.then]
    BY <1>6 DEF TypeOK, Goto
  <2> QED BY <1>2, <1>4, <2>1, TxLabels, SharedFrame
<1> QED BY <1>5, <1>6 DEF Settle

LEMMA RebootTypes ==
  ASSUME TypeOK, Shape, Reboot, crashes' \in Nat
  PROVE  TypeOK' /\ Shape'
<1>1. /\ pc' = [t \in Thread |-> "idle"]
      /\ UNCHANGED <<st, det, parent, circ, cur, visits, attempts, exits, rows, open, calls>>
  BY DEF Reboot, sessionRows, log
<1>2. LoopType'
  BY <1>1, RecordTypes DEF Reboot, LoopType, Counts, Label, Returns
<1>3. /\ stack' \in [Operator -> Seq(Session)] /\ lock' \in [Session -> Operator \cup {None}]
      /\ phase' \in {"recover", "up"} /\ todo' \in SUBSET Session
  BY DEF Reboot, Interrupted
<1>4. TypeOK'
  BY <1>1, <1>2, <1>3 DEF TypeOK, LoopType
<1>5. Shape'
  BY <1>1 DEF Shape, CursorShape, StepShape, StackShape, AtStep, AtExit, AtSession, Thread
<1> QED BY <1>4, <1>5

LEMMA CrashTypes ==
  ASSUME TypeOK, Shape, Crash \/ RecoverDies
  PROVE  TypeOK' /\ Shape'
<1>1. crashes' \in Nat
  BY DEF TypeOK, Crash, RecoverDies
<1> QED BY <1>1, RebootTypes DEF Crash, RecoverDies

LEMMA RecoverSessionTypes ==
  ASSUME TypeOK, Shape, NEW s \in Session, RecoverSession(s)
  PROVE  TypeOK' /\ Shape'
<1> DEFINE broken == {r \in rows[s] : r.status = "running"}
           failed == {[r EXCEPT !.status = "failed"] : r \in broken}
           c == [cur[s] EXCEPT !.status = "failed"]
<1>1. Boot \in Thread
  BY DEF Thread
<1>2. rows[s] \in SUBSET RowRec /\ cur[s] \in Cursor
  BY DEF TypeOK
<1>3. failed \in SUBSET RowRec
  BY <1>2 DEF RowRec
<1>4. rows' \in [Session -> SUBSET RowRec]
  BY <1>2, <1>3 DEF RecoverSession, TypeOK
<1>5. c \in Cursor /\ c.step = cur[s].step /\ c.status = "failed"
  BY <1>2 DEF Cursor
<1>6. cur' = cur \/ (cur' = [cur EXCEPT ![s] = c] /\ \E r \in rows[s] : cur[s].step = r.step)
  BY DEF RecoverSession, TypeOK
<1>7. \A r \in rows[s] : r.step \in Step
  BY <1>2 DEF RowRec
<1> HIDE DEF c
<1>8. cur' \in [Session -> Cursor] /\ CursorShape'
  BY <1>5, <1>6, <1>7 DEF TypeOK, Shape, CursorShape
<1>9. tx' \in [Thread -> Call] /\ pc' = [pc EXCEPT ![Boot] = "check"] /\ "check" \in Label
      /\ "check" \notin AtStep /\ "check" \notin AtSession
  BY <1>1, QueueTypes DEF RecoverSession, Reason, Returns
<1>10. UNCHANGED <<st, det, parent, circ, visits, attempts, exits, open, loc, mVisits, mAttempts, stack,
                   lock, phase, crashes, calls>>
  BY DEF RecoverSession, sessionRows, ctx
<1>11. todo' \in SUBSET Session
  BY DEF RecoverSession, TypeOK
<1>12. TypeOK'
  BY <1>4, <1>8, <1>9, <1>10, <1>11 DEF TypeOK
<1>13. StepShape' /\ StackShape'
  BY <1>9, <1>10 DEF TypeOK, Shape, StepShape, StackShape, AtStep, Thread
<1> QED BY <1>8, <1>12, <1>13 DEF Shape

LEMMA RecoverDoneTypes ==
  ASSUME TypeOK, Shape, RecoverDone
  PROVE  TypeOK' /\ Shape'
<1>1. UNCHANGED <<st, det, parent, circ, cur, visits, attempts, exits, rows, open, pc, loc, mVisits,
                  mAttempts, tx, stack, lock, todo, crashes, calls>>
  BY DEF RecoverDone, sessionRows, log, ctx
<1>2. phase' = "up"
  BY DEF RecoverDone
<1>3. TypeOK'
  BY <1>1, <1>2 DEF TypeOK
<1>4. Shape'
  BY <1>1 DEF Shape, CursorShape, StepShape, StackShape
<1> QED BY <1>3, <1>4

-------------------------------------------------------------------------------
(***************************************************************************)
(* Every step keeps ChildShape.  A step moves one thread (a crash, all of  *)
(* them to "idle"), and a session once a child stays one.                  *)
(***************************************************************************)
LEMMA ChildFrame ==
  ASSUME ChildShape, NEW t \in Thread,
         \A k : IsChild(k) => IsChildIn(parent', k),
         \A s \in Session : cur'[s].kid \in {None, cur[s].kid} \/ IsChild(cur'[s].kid),
         \A u \in Thread : u # t => pc'[u] = pc[u] /\ loc'[u] = loc[u] /\ tx'[u] = tx[u],
         t \in Session /\ NeedsKid(t)' => IsChildIn(parent', loc'[t].kid),
         pc'[t] \in InCall => tx'[t].who \in Session,
         pc'[t] = "settle" => IsChild(tx'[t].who)
  PROVE  ChildShape'
<1>1. \A s \in Session : cur'[s].kid # None => IsChildIn(parent', cur'[s].kid)
  BY DEF ChildShape
<1>2. \A s \in Session : NeedsKid(s)' => IsChildIn(parent', loc'[s].kid)
  <2> SUFFICES ASSUME NEW s \in Session, s # t, NeedsKid(s)' PROVE IsChildIn(parent', loc'[s].kid)
    OBVIOUS
  <2>1. pc'[s] = pc[s] /\ loc'[s] = loc[s] /\ tx'[s] = tx[s]
    BY DEF Thread
  <2>2. NeedsKid(s)
    BY <2>1 DEF NeedsKid
  <2>3. IsChild(loc[s].kid)
    BY <2>2 DEF ChildShape
  <2> QED BY <2>1, <2>3
<1>3. \A u \in Thread : pc'[u] \in InCall => tx'[u].who \in Session
  <2> SUFFICES ASSUME NEW u \in Thread, u # t, pc'[u] \in InCall PROVE tx'[u].who \in Session
    OBVIOUS
  <2> QED BY DEF ChildShape
<1>4. \A u \in Thread : pc'[u] = "settle" => IsChildIn(parent', tx'[u].who)
  BY DEF ChildShape
<1> QED BY <1>1, <1>2, <1>3, <1>4 DEF ChildShape, IsChild

\* What a step of thread t may do to the sessions' parents and to the cursors.
Kept == parent' = parent /\ \A s \in Session : cur'[s].kid \in {None, cur[s].kid}

LEMMA KeptFrame ==
  ASSUME TypeOK, ChildShape, Kept, NEW t \in Thread, NEW label, pc' = [pc EXCEPT ![t] = label],
         \A u \in Thread : u # t => loc'[u] = loc[u] /\ tx'[u] = tx[u],
         t \in Session /\ NeedsKid(t)' => IsChild(loc'[t].kid),
         label \in InCall => tx'[t].who \in Session,
         label = "settle" => IsChild(tx'[t].who)
  PROVE  ChildShape'
<1>1. \A k : IsChild(k) => IsChildIn(parent', k)
  BY DEF Kept, IsChild
<1>2. pc'[t] = label /\ \A u \in Thread : u # t => pc'[u] = pc[u]
  BY DEF TypeOK
<1>3. \A s \in Session : cur'[s].kid \in {None, cur[s].kid} \/ IsChild(cur'[s].kid)
  BY DEF Kept
<1>4. t \in Session /\ NeedsKid(t)' => IsChildIn(parent', loc'[t].kid)
  BY DEF Kept, IsChild
<1>5. pc'[t] \in InCall => tx'[t].who \in Session
  BY <1>2
<1>6. pc'[t] = "settle" => IsChild(tx'[t].who)
  BY <1>2
<1> QED BY <1>1, <1>2, <1>3, <1>4, <1>5, <1>6, ChildFrame

LEMMA LogKept ==
  ASSUME parent' = parent, UNCHANGED log
  PROVE  Kept
BY DEF Kept, log

LEMMA LogStartedKept ==
  ASSUME TypeOK, parent' = parent, NEW s \in Session, NEW x, NEW a, NEW v, LogStarted(s, x, a, v)
  PROVE  Kept
BY DEF TypeOK, Kept, LogStarted, NoCursor

LEMMA LogExitedKept ==
  ASSUME TypeOK, parent' = parent, NEW s \in Session, NEW x, NEW a, NEW v, NEW e,
         LogExited(s, x, a, v, e)
  PROVE  Kept
BY DEF TypeOK, Kept, LogExited, NoCursor

LEMMA LogFailedKept ==
  ASSUME TypeOK, parent' = parent, NEW s \in Session, NEW x, NEW a, LogFailed(s, x, a)
  PROVE  Kept
<1>1. CASE cur' = cur
  BY <1>1 DEF Kept
<1>2. CASE cur' = [cur EXCEPT ![s].status = "failed"]
  <2>1. cur[s] \in Cursor
    BY DEF TypeOK
  <2>2. cur'[s].kid = cur[s].kid /\ \A r \in Session : r # s => cur'[r] = cur[r]
    BY <1>2, <2>1 DEF TypeOK, Cursor
  <2> QED BY <2>2 DEF Kept
<1> QED BY <1>1, <1>2 DEF LogFailed

\* A transition() that does not return to the second look at a child.
LEMMA CallKids ==
  ASSUME TypeOK, ChildShape, Kept, NEW t \in Thread, NEW s \in Session, NEW to, NEW d,
         NEW then, then # "again" \/ IsChild(loc'[t].kid), Transition(t, s, to, d, then),
         \A u \in Thread : u # t => loc'[u] = loc[u]
  PROVE  ChildShape'
<1> DEFINE c == [who |-> s, to |-> to, det |-> d, wake |-> FALSE, then |-> then]
<1>1. tx' = [tx EXCEPT ![t] = c] /\ pc' = [pc EXCEPT ![t] = "check"]
  BY DEF Transition, Goto
<1>2. c.who = s /\ c.then = then
  OBVIOUS
<1> HIDE DEF c
<1>3. tx'[t] = c /\ pc'[t] = "check" /\ \A u \in Thread : u # t => tx'[u] = tx[u]
  BY <1>1 DEF TypeOK
<1>4. t \in Session /\ NeedsKid(t)' => IsChild(loc'[t].kid)
  BY <1>2, <1>3 DEF NeedsKid
<1> QED BY <1>1, <1>2, <1>3, <1>4, KeptFrame DEF InCall

LEMMA SuspendKids ==
  ASSUME TypeOK, ChildShape, Kept, NEW s \in Session, NEW why, NEW kid, Suspend(s, why, kid),
         \A u \in Thread : u # s => loc'[u] = loc[u]
  PROVE  ChildShape'
BY CallKids DEF Suspend, Thread

\* A step to a label where no child is needed and no call is made.
LEMMA GotoKids ==
  ASSUME TypeOK, ChildShape, Kept, NEW t \in Thread, NEW label,
         label \notin InCall \cup {"link-row", "link-log", "wait", "again"},
         label = "assert" => ~loc'[t].reattach,
         pc' = [pc EXCEPT ![t] = label],
         \A u \in Thread : u # t => loc'[u] = loc[u] /\ tx'[u] = tx[u]
  PROVE  ChildShape'
<1>1. pc'[t] = label
  BY DEF TypeOK
<1>2. ~NeedsKid(t)'
  BY <1>1 DEF NeedsKid
<1> QED BY <1>2, KeptFrame DEF InCall

LEMMA EnterKids ==
  ASSUME TypeOK, ChildShape, Kept, NEW s \in Session, NEW x, NEW visit, NEW att, NEW V, NEW A,
         NEW kid, kid = None \/ IsChild(kid), Enter(s, x, visit, att, V, A, kid)
  PROVE  ChildShape'
<1> DEFINE l == [NoLocals EXCEPT !.step = x, !.visit = visit, !.att = att, !.tries = 1,
                                 !.kid = kid, !.reattach = (kid # None)]
<1>0. s \in Thread
  BY DEF Thread
<1>1. l.kid = kid /\ l.reattach = (kid # None)
  BY DEF NoLocals
<1>2. loc' = [loc EXCEPT ![s] = l] /\ pc' = [pc EXCEPT ![s] = "assert"] /\ tx' = tx
  BY DEF Enter, Goto
<1> HIDE DEF l
<1>3. loc'[s] = l /\ pc'[s] = "assert" /\ \A u \in Thread : u # s => loc'[u] = loc[u]
  BY <1>0, <1>2 DEF TypeOK
<1>4. NeedsKid(s)' => IsChild(loc'[s].kid)
  BY <1>1, <1>3 DEF NeedsKid, InCall
<1> QED BY <1>0, <1>2, <1>3, <1>4, KeptFrame DEF InCall

LEMMA NewVisitKids ==
  ASSUME TypeOK, ChildShape, Kept, NEW s \in Session, NEW x, NEW V, NEW A, NewVisit(s, x, V, A)
  PROVE  ChildShape'
<1>1. CASE Suspend(s, "max-visits-exceeded", None) /\ UNCHANGED <<ctx, loc>>
  BY <1>1, SuspendKids
<1>2. CASE Enter(s, x, V[x] + 1, A[x] + 1, [V EXCEPT ![x] = @ + 1], A, None)
  BY <1>2, EnterKids
<1> QED BY <1>1, <1>2 DEF NewVisit

LEMMA FollowKids ==
  ASSUME TypeOK, ChildShape, Kept, NEW s \in Session, NEW x, NEW e, NEW V, NEW A, Follow(s, x, e, V, A)
  PROVE  ChildShape'
<1>1. CASE Goto(s, "complete") /\ UNCHANGED <<ctx, loc, tx>>
  BY <1>1, GotoKids DEF Goto, Thread, InCall
<1>2. CASE NewVisit(s, Target[x][e], V, A)
  BY <1>2, NewVisitKids
<1> QED BY <1>1, <1>2 DEF Follow

LEMMA FailAttemptKids ==
  ASSUME TypeOK, ChildShape, parent' = parent, NEW s \in Session, NEW retry \in BOOLEAN,
         NEW why, NEW kid, FailAttempt(s, retry, why, kid)
  PROVE  ChildShape'
<1>0. s \in Thread
  BY DEF Thread
<1>1. Kept
  BY LogFailedKept DEF FailAttempt
<1>2. CASE retry /\ loc[s].tries < MaxTries
  <2>1. PICK a : loc' = [loc EXCEPT ![s].att = a, ![s].tries = @ + 1, ![s].reattach = FALSE, ![s].kid = None]
    BY <1>2 DEF FailAttempt
  <2>2. pc' = [pc EXCEPT ![s] = "assert"] /\ tx' = tx
    BY <1>2 DEF FailAttempt, Goto
  <2> DEFINE m == [loc[s] EXCEPT !.att = a, !.tries = @ + 1, !.reattach = FALSE, !.kid = None]
  <2>3. loc' = [loc EXCEPT ![s] = m]
    BY <1>0, <2>1 DEF TypeOK
  <2>4. m.reattach = FALSE
    BY <1>0 DEF TypeOK, Locals
  <2> HIDE DEF m
  <2>5. loc'[s] = m /\ \A u \in Thread : u # s => loc'[u] = loc[u]
    BY <1>0, <2>3 DEF TypeOK
  <2> QED BY <1>0, <1>1, <2>2, <2>4, <2>5, GotoKids DEF InCall
<1>3. CASE ~(retry /\ loc[s].tries < MaxTries)
  <2>1. /\ Suspend(s, IF retry THEN "retries-exhausted" ELSE why, IF retry THEN None ELSE kid)
        /\ loc' = loc
    BY <1>3 DEF FailAttempt
  <2> QED BY <1>1, <2>1, SuspendKids
<1> QED BY <1>2, <1>3

LEMMA ParentKept == UNCHANGED sessionRows => parent' = parent
BY DEF sessionRows

LEMMA RunKids ==
  ASSUME TypeOK, Shape, ChildShape, NEW s \in Session, Run(s) \/ Admit(s)
  PROVE  ChildShape'
<1>0. s \in Thread /\ loc[s] \in Locals
  BY DEF Thread, TypeOK
<1>1. CASE Admit(s)
  BY <1>0, <1>1, ParentKept, LogKept, CallKids DEF Admit
<1>2. CASE Position(s)
  <2>1. Kept
    BY <1>2, ParentKept, LogKept DEF Position
  <2>2. cur[s].kid = None \/ IsChild(cur[s].kid)
    BY DEF ChildShape
  <2>3. CASE Suspend(s, "config-error", None) /\ UNCHANGED <<ctx, loc>>
    BY <2>1, <2>3, SuspendKids
  <2>4. CASE NewVisit(s, Entry[circ[s]], visits[s], attempts[s])
    BY <2>1, <2>4, NewVisitKids
  <2>5. CASE Follow(s, cur[s].step, cur[s].exit, visits[s], attempts[s])
    BY <2>1, <2>5, FollowKids
  <2>6. CASE Enter(s, cur[s].step, cur[s].visit, cur[s].att, visits[s], attempts[s], cur[s].kid)
    BY <2>1, <2>2, <2>6, EnterKids
  <2>7. CASE Enter(s, cur[s].step, cur[s].visit, attempts[s][cur[s].step] + 1, visits[s], attempts[s], None)
    BY <2>1, <2>7, EnterKids
  <2> QED BY <1>2, <2>3, <2>4, <2>5, <2>6, <2>7 DEF Position
<1>3. CASE Start(s)
  <2>1. UNCHANGED <<loc, tx>>
    BY <1>3 DEF Start
  <2>2. CASE loc[s].reattach
    <3>1. Kept /\ pc' = [pc EXCEPT ![s] = "wait"]
      BY <1>3, <2>2, ParentKept, LogKept DEF Start, Goto
    <3>2. IsChild(loc[s].kid)
      BY <1>3, <2>2 DEF Start, ChildShape, NeedsKid
    <3> QED BY <1>0, <2>1, <3>1, <3>2, KeptFrame DEF InCall
  <2>3. CASE ~loc[s].reattach
    <3>1. Kept
      BY <1>3, <2>3, ParentKept, LogStartedKept DEF Start
    <3>2. PICK label \in {"spawn", "gate", "work"} : pc' = [pc EXCEPT ![s] = label]
      BY <1>3, <2>3 DEF Start, Goto
    <3> QED BY <1>0, <2>1, <3>1, <3>2, GotoKids DEF InCall
  <2> QED BY <2>2, <2>3
<1>4. CASE StopCancelled(s)
  BY <1>0, <1>4, ParentKept, LogKept, GotoKids DEF StopCancelled, Goto, InCall
<1>5. CASE OverBudget(s)
  BY <1>5, ParentKept, LogKept, SuspendKids DEF OverBudget
<1>6. CASE WorkExit(s)
  <2>1. PICK e : loc' = [loc EXCEPT ![s].exit = e]
    BY <1>6 DEF WorkExit
  <2>2. \A u \in Thread : u # s => loc'[u] = loc[u]
    BY <2>1 DEF TypeOK
  <2> QED BY <1>0, <1>6, <2>2, ParentKept, LogKept, GotoKids DEF WorkExit, Goto, InCall
<1>7. CASE WorkFail(s)
  BY <1>7, ParentKept, FailAttemptKids DEF WorkFail
<1>8. CASE Spawn(s)
  <2>1. PICK c \in Session : parent' = [parent EXCEPT ![c] = s] /\ loc' = [loc EXCEPT ![s].kid = c]
    BY <1>8 DEF Spawn
  <2>2. cur' = cur /\ tx' = tx /\ pc' = [pc EXCEPT ![s] = "link-row"]
    BY <1>8 DEF Spawn, Goto, log
  <2>3. \A k : IsChild(k) => IsChildIn(parent', k)
    BY <2>1 DEF TypeOK, IsChild, IsChildIn
  <2>4. loc'[s].kid = c /\ \A u \in Thread : u # s => loc'[u] = loc[u]
    BY <1>0, <2>1 DEF TypeOK, Locals
  <2>5. IsChildIn(parent', loc'[s].kid)
    BY <2>1, <2>4 DEF TypeOK, IsChildIn
  <2>6. pc'[s] = "link-row" /\ \A u \in Thread : u # s => pc'[u] = pc[u] /\ tx'[u] = tx[u]
    BY <1>0, <2>2 DEF TypeOK
  <2> QED BY <1>0, <2>2, <2>3, <2>4, <2>5, <2>6, ChildFrame DEF InCall
<1>9. CASE LinkRow(s)
  <2>1. Kept /\ pc' = [pc EXCEPT ![s] = "link-log"] /\ UNCHANGED <<loc, tx>>
    BY <1>9, ParentKept, LogKept DEF LinkRow, Goto
  <2>2. IsChild(loc[s].kid)
    BY <1>9 DEF LinkRow, ChildShape, NeedsKid
  <2> QED BY <1>0, <2>1, <2>2, KeptFrame DEF InCall
<1>10. CASE LinkLog(s)
  <2>1. parent' = parent /\ pc' = [pc EXCEPT ![s] = "wait"] /\ UNCHANGED <<loc, tx>>
    BY <1>10, ParentKept DEF LinkLog, Goto
  <2>2. IsChild(loc[s].kid)
    BY <1>10 DEF LinkLog, ChildShape, NeedsKid
  <2>3. \A r \in Session : cur'[r].kid \in {None, cur[r].kid} \/ IsChild(cur'[r].kid)
    <3>1. CASE cur' = cur
      BY <3>1
    <3>2. CASE cur' = [cur EXCEPT ![s].kid = loc[s].kid]
      <4>1. cur[s] \in Cursor
        BY DEF TypeOK
      <4>2. cur'[s].kid = loc[s].kid /\ \A r \in Session : r # s => cur'[r] = cur[r]
        BY <3>2, <4>1 DEF TypeOK, Cursor
      <4> QED BY <2>2, <4>2
    <3> QED BY <1>10, <3>1, <3>2 DEF LinkLog
  <2>4. \A k : IsChild(k) => IsChildIn(parent', k)
    BY <2>1 DEF IsChild
  <2>5. pc'[s] = "wait" /\ \A u \in Thread : u # s => pc'[u] = pc[u] /\ tx'[u] = tx[u] /\ loc'[u] = loc[u]
    BY <1>0, <2>1 DEF TypeOK
  <2> QED BY <1>0, <2>1, <2>2, <2>3, <2>4, <2>5, ChildFrame DEF InCall
<1>11. CASE WaitExit(s)
  <2>1. parent' = parent
    BY <1>11, ParentKept DEF WaitExit
  <2>2. CASE /\ \E e \in Exits[loc[s].step] : loc' = [loc EXCEPT ![s].exit = e]
             /\ Goto(s, "exit-log")
             /\ UNCHANGED <<log, rows, ctx, tx>>
    <3>1. \A u \in Thread : u # s => loc'[u] = loc[u]
      BY <2>2 DEF TypeOK
    <3> QED BY <1>0, <2>1, <2>2, <3>1, LogKept, GotoKids DEF Goto, InCall
  <2>3. CASE FailAttempt(s, FALSE, "exit-unmapped", loc[s].kid)
    BY <2>1, <2>3, FailAttemptKids
  <2>4. CASE FailAttempt(s, TRUE, "none", None)
    BY <2>1, <2>4, FailAttemptKids
  <2> QED BY <1>11, <2>2, <2>3, <2>4 DEF WaitExit
<1>12. CASE WaitCancelled(s)
  BY <1>12, ParentKept, FailAttemptKids DEF WaitCancelled
<1>13. CASE WaitPark(s)
  <2>1. Kept /\ IsChild(loc[s].kid)
    BY <1>13, ParentKept, LogKept DEF WaitPark, ChildShape, NeedsKid
  <2>2. PICK v : loc' = [loc EXCEPT ![s].seen = v]
    BY <1>13 DEF WaitPark
  <2>3. loc'[s].kid = loc[s].kid /\ \A u \in Thread : u # s => loc'[u] = loc[u]
    BY <1>0, <2>2 DEF TypeOK, Locals
  <2>4. PICK to, d : Transition(s, s, to, d, "again")
    BY <1>13 DEF WaitPark
  <2> QED BY <1>0, <2>1, <2>3, <2>4, CallKids
<1>14. CASE ParkedAgain(s)
  <2>1. Kept /\ loc' = loc /\ IsChild(loc[s].kid)
    BY <1>14, ParentKept, LogKept DEF ParkedAgain, ChildShape, NeedsKid
  <2>2. CASE Goto(s, "end") /\ UNCHANGED tx
    BY <1>0, <2>1, <2>2, GotoKids DEF Goto, InCall
  <2>3. CASE /\ tx' = [tx EXCEPT ![s] = [NoCall EXCEPT !.who = loc[s].kid, !.then = "end"]]
             /\ Goto(s, "settle")
    <3> DEFINE c == [NoCall EXCEPT !.who = loc[s].kid, !.then = "end"]
    <3>1. c.who = loc[s].kid /\ c.then = "end"
      BY DEF NoCall
    <3>2. tx' = [tx EXCEPT ![s] = c] /\ pc' = [pc EXCEPT ![s] = "settle"]
      BY <2>3 DEF Goto
    <3> HIDE DEF c
    <3>3. tx'[s] = c /\ pc'[s] = "settle" /\ \A u \in Thread : u # s => tx'[u] = tx[u]
      BY <1>0, <3>2 DEF TypeOK
    <3>4. ~NeedsKid(s)'
      BY <3>1, <3>3 DEF NeedsKid
    <3> QED BY <1>0, <2>1, <3>1, <3>2, <3>3, <3>4, KeptFrame DEF IsChild, IsChildIn
  <2> QED BY <1>14, <2>2, <2>3 DEF ParkedAgain
<1>15. CASE GateOpen(s)
  <2>1. Kept /\ loc' = loc
    BY <1>15, ParentKept, LogKept DEF GateOpen
  <2>2. PICK to, d : Transition(s, s, to, d, "end")
    BY <1>15 DEF GateOpen
  <2> QED BY <1>0, <2>1, <2>2, CallKids
<1>16. CASE GateEmpty(s)
  BY <1>16, ParentKept, FailAttemptKids DEF GateEmpty
<1>17. CASE Complete(s)
  <2>1. Kept /\ loc' = loc
    BY <1>17, ParentKept, LogKept DEF Complete
  <2>2. CASE Transition(s, s, "completed", Plain("none"), "end")
    BY <1>0, <2>1, <2>2, CallKids
  <2>3. CASE Suspend(s, "exit-output-invalid", None)
    BY <2>1, <2>3, SuspendKids
  <2> QED BY <1>17, <2>2, <2>3 DEF Complete
<1>18. CASE End(s)
  <2>1. Kept /\ pc' = [pc EXCEPT ![s] = "idle"]
    BY <1>18, ParentKept, LogKept DEF End, Goto
  <2>2. \A u \in Thread : u # s => loc'[u] = loc[u] /\ tx'[u] = tx[u]
    BY <1>18 DEF End, TypeOK
  <2> QED BY <1>0, <2>1, <2>2, GotoKids DEF InCall
<1> QED BY <1>1, <1>2, <1>3, <1>4, <1>5, <1>6, <1>7, <1>8, <1>9, <1>10, <1>11, <1>12, <1>13,
           <1>14, <1>15, <1>16, <1>17, <1>18 DEF Run

LEMMA ServeKids ==
  ASSUME TypeOK, Shape, ChildShape, NEW o \in Operator, Request(o) \/ Serve(o)
  PROVE  ChildShape'
<1>0. o \in Thread /\ o \notin Session /\ loc[o] \in Locals
  BY ThreadsAssumption DEF Thread, TypeOK
<1>1. CASE \E s \in Session : Cancel(o, s)
  BY <1>0, <1>1, ParentKept, LogKept, GotoKids DEF Cancel, Goto, InCall
<1>2. CASE \E s \in Session : Retry(o, s)
  <2>1. Kept /\ pc' = [pc EXCEPT ![o] = "retry-child"] /\ tx' = tx
    BY <1>2, ParentKept, LogKept DEF Retry, Goto
  <2>2. \A u \in Thread : u # o => loc'[u] = loc[u]
    BY <1>2 DEF Retry, TypeOK
  <2> QED BY <1>0, <2>1, <2>2, GotoKids DEF InCall
<1>3. CASE \E s \in Session : Resume(o, s)
  <2>1. PICK s \in Session : Resume(o, s)
    BY <1>3
  <2>2. Kept /\ loc' = loc
    BY <2>1, ParentKept, LogKept DEF Resume
  <2> QED BY <1>0, <2>1, <2>2, CallKids DEF Resume
<1>4. CASE \E s \in Session : ManualRoute(o, s)
  <2>1. Kept /\ pc' = [pc EXCEPT ![o] = "exit-log"] /\ tx' = tx
    BY <1>4, ParentKept, LogKept DEF ManualRoute, Goto
  <2>2. \A u \in Thread : u # o => loc'[u] = loc[u]
    BY <1>4 DEF ManualRoute, TypeOK
  <2> QED BY <1>0, <2>1, <2>2, GotoKids DEF InCall
<1>5. CASE \E s \in Session : Verdict(o, s)
  <2>1. Kept /\ pc' = [pc EXCEPT ![o] = "verdict"] /\ tx' = tx
    BY <1>5, ParentKept, LogKept DEF Verdict, Goto
  <2>2. \A u \in Thread : u # o => loc'[u] = loc[u]
    BY <1>5 DEF Verdict, TypeOK
  <2> QED BY <1>0, <2>1, <2>2, GotoKids DEF InCall
<1>6. CASE CancelWrite(o)
  BY <1>0, <1>6, LogKept, GotoKids DEF CancelWrite, Goto, InCall
<1>7. CASE CancelChildren(o)
  BY <1>0, <1>7, ParentKept, LogKept, GotoKids DEF CancelChildren, Goto, InCall
<1>8. CASE CancelNext(o)
  <2>1. Kept /\ UNCHANGED <<loc, tx>> /\ pc[o] = "cancel-next"
    BY <1>8, ParentKept, LogKept DEF CancelNext
  <2>2. PICK label \in {"done", "cancel-next", "cancel-write"} : pc' = [pc EXCEPT ![o] = label]
    BY <1>0, <1>8 DEF CancelNext, Goto, TypeOK
  <2> QED BY <1>0, <2>1, <2>2, GotoKids DEF InCall
<1>9. CASE RetryRead(o)
  <2>1. Kept /\ tx' = tx
    BY <1>9, ParentKept, LogKept DEF RetryRead
  <2>2. \A u \in Thread : u # o => loc'[u] = loc[u]
    BY <1>9 DEF RetryRead, TypeOK
  <2>3. PICK label \in {"done", "retry-child"} : pc' = [pc EXCEPT ![o] = label]
    BY <1>9 DEF RetryRead, Goto
  <2> QED BY <1>0, <2>1, <2>2, <2>3, GotoKids DEF InCall
<1>10. CASE RetryChild(o)
  <2>1. Kept /\ UNCHANGED <<loc, tx>>
    BY <1>10, ParentKept, LogKept DEF RetryChild
  <2>2. PICK label \in {"retry-read", "retry-queue"} : pc' = [pc EXCEPT ![o] = label]
    BY <1>10 DEF RetryChild, Goto
  <2> QED BY <1>0, <2>1, <2>2, GotoKids DEF InCall
<1>11. CASE RetryQueue(o)
  <2>1. Kept /\ loc' = loc
    BY <1>11, ParentKept, LogKept DEF RetryQueue
  <2>2. CASE Goto(o, "done") /\ UNCHANGED <<tx, stack>>
    BY <1>0, <2>1, <2>2, GotoKids DEF Goto, InCall
  <2>3. CASE stack[o] # << >> /\ Transition(o, Head(stack[o]), "queued", Plain("resumed"), "retry-queue")
    <3>1. Head(stack[o]) \in Session
      BY <2>3, StackTypes DEF TypeOK
    <3> QED BY <1>0, <2>1, <2>3, <3>1, CallKids
  <2> QED BY <1>11, <2>2, <2>3 DEF RetryQueue
<1>12. CASE VerdictClose(o)
  BY <1>0, <1>12, ParentKept, LogKept, GotoKids DEF VerdictClose, Goto, InCall
<1>13. CASE Return(o)
  <2>1. Kept /\ pc' = [pc EXCEPT ![o] = "idle"]
    BY <1>13, ParentKept, LogKept DEF Return, Goto
  <2>2. \A u \in Thread : u # o => loc'[u] = loc[u] /\ tx'[u] = tx[u]
    BY <1>13 DEF Return, TypeOK
  <2> QED BY <1>0, <2>1, <2>2, GotoKids DEF InCall
<1> QED BY <1>1, <1>2, <1>3, <1>4, <1>5, <1>6, <1>7, <1>8, <1>9, <1>10, <1>11, <1>12, <1>13
        DEF Request, Serve

LEMMA RecordingKids ==
  ASSUME TypeOK, Shape, ChildShape, NEW t \in Session \cup Operator, Recording(t)
  PROVE  ChildShape'
<1>1. t \in Thread /\ pc[t] \in AtExit
  BY DEF Thread, Recording, ExitLog, ExitRow, AtExit
<1>2. About(t) \in Session
  BY <1>1, AboutType
<1>3. CASE ExitLog(t)
  <2>1. Kept
    BY <1>2, <1>3, ParentKept, LogExitedKept DEF ExitLog
  <2> QED BY <1>1, <1>3, <2>1, GotoKids DEF ExitLog, Goto, InCall
<1>4. CASE ExitRow(t)
  <2>1. Kept
    BY <1>4, ParentKept, LogKept DEF ExitRow
  <2>2. CASE t \in Session
    BY <1>4, <2>1, <2>2, FollowKids DEF ExitRow, About
  <2>3. CASE t \notin Session
    BY <1>1, <1>2, <1>4, <2>1, <2>3, CallKids DEF ExitRow
  <2> QED BY <2>2, <2>3
<1> QED BY <1>3, <1>4 DEF Recording

LEMMA SharedKids ==
  ASSUME TypeOK, Shape, ChildShape, NEW t \in Thread, Shared(t)
  PROVE  ChildShape'
<1>1. tx[t] \in Call /\ tx[t].then \in Returns
  BY DEF TypeOK, Call
<1>2. tx[t].who \in Session /\ pc[t] \in InCall
  BY DEF Shared, TxCheck, TxWrite, Settle, ChildShape, InCall
<1>3. t \in Session /\ tx[t].then = "again" => IsChild(loc[t].kid)
  BY <1>2 DEF ChildShape, NeedsKid
<1>4. Kept /\ loc' = loc
  BY ParentKept, LogKept DEF Shared, TxCheck, TxWrite, Settle
\* Leaving the call for the label it returns to, or the loop or call that it ends.
<1>5. ASSUME NEW label \in Returns \cup {"dead"}, label = "again" => label = tx[t].then,
             pc' = [pc EXCEPT ![t] = label], tx' = tx
      PROVE  ChildShape'
  <2>1. pc'[t] = label
    BY <1>5 DEF TypeOK
  <2>2. t \in Session /\ NeedsKid(t)' => IsChild(loc'[t].kid)
    BY <1>3, <1>4, <1>5, <2>1 DEF NeedsKid, InCall, Returns
  <2>3. label \notin InCall
    BY <1>5 DEF InCall, Returns
  <2> QED BY <1>4, <1>5, <2>2, <2>3, KeptFrame DEF InCall
<1>6. CASE TxCheck(t)
  <2>1. CASE st[tx[t].who] = "cancelled"
    <3>1. OnSignal(t) \in Returns \cup {"dead"} /\ (OnSignal(t) = "again" => OnSignal(t) = tx[t].then)
      BY <1>1 DEF OnSignal, Returns
    <3> QED BY <1>5, <1>6, <2>1, <3>1 DEF TxCheck, Goto
  <2>2. CASE st[tx[t].who] # "cancelled"
    <3>1. pc' = [pc EXCEPT ![t] = "write"] /\ tx' = tx
      BY <1>6, <2>2 DEF TxCheck, Goto
    <3>2. pc'[t] = "write"
      BY <3>1 DEF TypeOK
    <3>3. t \in Session /\ NeedsKid(t)' => IsChild(loc'[t].kid)
      BY <1>3, <1>4, <3>1, <3>2 DEF NeedsKid
    <3> QED BY <1>2, <1>4, <3>1, <3>3, KeptFrame
  <2> QED BY <2>1, <2>2
<1>7. CASE TxWrite(t)
  <2>1. CASE Wakes(tx[t].who, tx[t].to, tx[t].det)
    <3>1. pc' = [pc EXCEPT ![t] = "settle"] /\ tx' = tx
      BY <1>7, <2>1 DEF TxWrite, Goto
    <3>2. pc'[t] = "settle"
      BY <3>1 DEF TypeOK
    <3>3. t \in Session /\ NeedsKid(t)' => IsChild(loc'[t].kid)
      BY <1>3, <1>4, <3>1, <3>2 DEF NeedsKid
    <3>4. IsChild(tx[t].who)
      BY <1>2, <2>1 DEF Wakes, IsChild, IsChildIn, TypeOK
    <3> QED BY <1>2, <1>4, <3>1, <3>3, <3>4, KeptFrame
  <2>2. CASE ~Wakes(tx[t].who, tx[t].to, tx[t].det)
    BY <1>1, <1>5, <1>7, <2>2 DEF TxWrite, Goto
  <2> QED BY <2>1, <2>2
<1>8. CASE Settle(t)
  <2> DEFINE p == parent[tx[t].who]
             c == [who |-> p, to |-> "queued", det |-> Plain("resumed"), wake |-> TRUE,
                   then |-> tx[t].then]
  <2>1. p \in Session
    BY <1>8 DEF Settle, ChildShape, IsChild, IsChildIn
  <2>2. CASE tx' = [tx EXCEPT ![t] = c] /\ Goto(t, "check")
    <3>1. c.who = p /\ c.then = tx[t].then
      OBVIOUS
    <3> HIDE DEF c, p
    <3>2. pc' = [pc EXCEPT ![t] = "check"] /\ pc'[t] = "check" /\ tx'[t] = c
          /\ \A u \in Thread : u # t => tx'[u] = tx[u]
      BY <2>2 DEF TypeOK, Goto
    <3>3. t \in Session /\ NeedsKid(t)' => IsChild(loc'[t].kid)
      BY <1>3, <1>4, <3>1, <3>2 DEF NeedsKid
    <3> QED BY <1>4, <2>1, <3>1, <3>2, <3>3, KeptFrame
  <2>3. CASE Goto(t, tx[t].then) /\ UNCHANGED tx
    BY <1>1, <1>5, <2>3 DEF Goto
  <2> QED BY <1>8, <2>2, <2>3 DEF Settle
<1> QED BY <1>6, <1>7, <1>8 DEF Shared

LEMMA RecoverKids ==
  ASSUME TypeOK, Shape, ChildShape, Recover \/ Crash
  PROVE  ChildShape'
<1>1. CASE Crash \/ RecoverDies
  <2>1. cur' = cur /\ parent' = parent /\ pc' = [t \in Thread |-> "idle"]
    BY <1>1 DEF Crash, RecoverDies, Reboot, log, sessionRows
  <2> QED BY <2>1 DEF ChildShape, NeedsKid, InCall, IsChild, Thread
<1>2. CASE RecoverDone
  <2>1. UNCHANGED <<cur, parent, pc, loc, tx>>
    BY <1>2 DEF RecoverDone, log, sessionRows
  <2> QED BY <2>1 DEF ChildShape, NeedsKid, IsChild
<1>3. ASSUME NEW s \in Session, RecoverSession(s) PROVE ChildShape'
  <2>1. parent' = parent /\ loc' = loc /\ Boot \in Thread /\ Boot \notin Session
    BY <1>3, ParentKept, ThreadsAssumption DEF RecoverSession, Thread
  <2>2. Kept
    <3>1. CASE cur' = cur
      BY <2>1, <3>1 DEF Kept
    <3>2. CASE cur' = [cur EXCEPT ![s].status = "failed"]
      <4>1. cur[s] \in Cursor
        BY DEF TypeOK
      <4>2. cur'[s].kid = cur[s].kid /\ \A r \in Session : r # s => cur'[r] = cur[r]
        BY <3>2, <4>1 DEF TypeOK, Cursor
      <4> QED BY <2>1, <4>2 DEF Kept
    <3> QED BY <1>3, <3>1, <3>2 DEF RecoverSession
  <2> QED BY <1>3, <2>1, <2>2, CallKids DEF RecoverSession
<1> QED BY <1>1, <1>2, <1>3 DEF Recover

-------------------------------------------------------------------------------
\* The inductive strengthening of TypeOK.
Typed == TypeOK /\ Shape /\ ChildShape

LEMMA TypedInit == Init => Typed
<1> SUFFICES ASSUME Init PROVE ChildShape
  BY TypeInit DEF Typed
<1> QED BY DEF Init, ChildShape, NeedsKid, InCall, NoCursor, Thread

LEMMA TypedStep == Typed /\ [Next]_vars => Typed'
<1> SUFFICES ASSUME TypeOK, Shape, ChildShape, [Next]_vars PROVE Typed'
  BY DEF Typed
<1>1. ASSUME NEW s \in Session, Admit(s) \/ Run(s) PROVE Typed'
  <2>1. TypeOK' /\ Shape'
    BY <1>1, AdmitTypes, PositionTypes, StartTypes, StopCancelledTypes, OverBudgetTypes, WorkExitTypes,
       WorkFailTypes, SpawnTypes, LinkRowTypes, LinkLogTypes, WaitExitTypes, WaitCancelledTypes,
       WaitParkTypes, ParkedAgainTypes, GateOpenTypes, GateEmptyTypes, CompleteTypes, EndTypes DEF Run
  <2> QED BY <1>1, <2>1, RunKids DEF Typed
<1>2. ASSUME NEW o \in Operator, Request(o) \/ Serve(o) PROVE Typed'
  <2>1. CASE Request(o)
    <3>1. TypeOK' /\ Shape'
      BY <2>1, CancelTypes, RetryTypes, ResumeTypes, ManualRouteTypes, VerdictTypes DEF Request
    <3> QED BY <2>1, <3>1, ServeKids DEF Typed
  <2>2. CASE Serve(o)
    <3>1. TypeOK' /\ Shape'
      BY <2>2, CancelWriteTypes, CancelChildrenTypes, CancelNextTypes, RetryReadTypes, RetryChildTypes,
         RetryQueueTypes, VerdictCloseTypes, ReturnTypes DEF Serve
    <3> QED BY <2>2, <3>1, ServeKids DEF Typed
  <2> QED BY <1>2, <2>1, <2>2
<1>3. ASSUME NEW t \in Thread, Shared(t) PROVE Typed'
  BY <1>3, TxCheckTypes, TxWriteTypes, SettleTypes, SharedKids DEF Shared, Typed
<1>4. ASSUME NEW t \in Session \cup Operator, Recording(t) PROVE Typed'
  BY <1>4, ExitLogTypes, ExitRowTypes, RecordingKids DEF Recording, Typed
<1>5. CASE Recover \/ Crash
  BY <1>5, CrashTypes, RecoverSessionTypes, RecoverDoneTypes, RecoverKids DEF Recover, Typed
<1>6. CASE UNCHANGED vars
  <2>1. UNCHANGED <<st, det, parent, circ, cur, visits, attempts, exits, rows, open, pc, loc, mVisits,
                    mAttempts, tx, stack, lock, phase, todo, crashes, calls>>
    BY <1>6 DEF vars, sessionRows, log, ctx, boot
  <2>2. TypeOK'
    BY <2>1 DEF TypeOK
  <2>3. Shape' /\ ChildShape'
    BY <2>1 DEF Shape, CursorShape, StepShape, StackShape, ChildShape, NeedsKid, IsChild
  <2> QED BY <2>2, <2>3 DEF Typed
<1> QED BY <1>1, <1>2, <1>3, <1>4, <1>5, <1>6 DEF Next

\* Every table, log fold, run context and thread of the orchestrator keeps its
\* type, for any sessions, circuits and bounds: no operator on steps or
\* sessions is ever applied to null.
THEOREM Typing == Spec => []TypeOK
<1>1. Typed => TypeOK
  BY DEF Typed
<1> QED BY TypedInit, TypedStep, <1>1, PTL DEF Spec

-------------------------------------------------------------------------------
(***************************************************************************)
(* AttemptFresh.  The log's counts are read once, at Position; what keeps  *)
(* the attempts fresh afterwards is that the run context never falls       *)
(* behind the log: only the session's own loop writes step-started, and    *)
(* the contexts are raised before it does.                                 *)
(***************************************************************************)
\* Of the loop of s, wherever it is at a step.
CountsAt(s) ==
  pc[s] \in AtStep =>
    /\ \A x \in Step : attempts[s][x] <= mAttempts[s][x]
    /\ loc[s].att <= mAttempts[s][loc[s].step]
    /\ pc[s] = "assert" /\ ~loc[s].reattach => loc[s].att > attempts[s][loc[s].step]

CountInv == \A s \in Session : CountsAt(s)

\* The thread of r, the session it is about, and what a step of another leaves alone.
SameCounts(r) ==
  /\ pc'[r] = pc[r] /\ loc'[r] = loc[r]
  /\ mAttempts'[r] = mAttempts[r] /\ attempts'[r] = attempts[r]

LEMMA SameCountsAt ==
  ASSUME NEW r \in Session, CountsAt(r), SameCounts(r)
  PROVE  CountsAt(r)'
BY DEF CountsAt, SameCounts

\* A step of one loop is only about that loop's counts.
LEMMA CountFrame ==
  ASSUME CountInv, NEW s \in Session, CountsAt(s)', \A r \in Session : r # s => SameCounts(r)
  PROVE  CountInv'
BY SameCountsAt DEF CountInv

LEMMA OthersCount ==
  ASSUME TypeOK, NEW s \in Session, NEW label, pc' = [pc EXCEPT ![s] = label],
         NEW l, loc' = [loc EXCEPT ![s] = l],
         NEW m, mAttempts' = [mAttempts EXCEPT ![s] = m],
         NEW a, attempts' = [attempts EXCEPT ![s] = a]
  PROVE  /\ pc'[s] = label /\ loc'[s] = l /\ mAttempts'[s] = m /\ attempts'[s] = a
         /\ \A r \in Session : r # s => SameCounts(r)
BY DEF TypeOK, Counts, Thread, SameCounts

\* What does not change, written as an update, for OthersCount.
LEMMA Unchanged ==
  ASSUME TypeOK, NEW s \in Session
  PROVE  /\ pc = [pc EXCEPT ![s] = pc[s]] /\ loc = [loc EXCEPT ![s] = loc[s]]
         /\ mAttempts = [mAttempts EXCEPT ![s] = mAttempts[s]]
         /\ attempts = [attempts EXCEPT ![s] = attempts[s]]
BY DEF TypeOK, Counts, Thread

\* The loop goes to a label at no step.
LEMMA LeaveCounts ==
  ASSUME TypeOK, CountInv, NEW s \in Session, NEW label, label \notin AtStep,
         pc' = [pc EXCEPT ![s] = label], attempts' = attempts,
         \A r \in Session : r # s => loc'[r] = loc[r] /\ mAttempts'[r] = mAttempts[r]
  PROVE  CountInv'
<1>1. pc'[s] = label /\ \A r \in Session : r # s => SameCounts(r)
  BY DEF TypeOK, Thread, SameCounts
<1>2. CountsAt(s)'
  BY <1>1 DEF CountsAt
<1> QED BY <1>1, <1>2, CountFrame

\* The loop stays at its step and its attempt.
LEMMA MoveCounts ==
  ASSUME TypeOK, CountInv, NEW s \in Session, NEW label, label # "assert", pc[s] \in AtStep,
         pc' = [pc EXCEPT ![s] = label], UNCHANGED <<attempts, mAttempts>>,
         loc'[s].step = loc[s].step, loc'[s].att = loc[s].att,
         \A r \in Session : r # s => loc'[r] = loc[r]
  PROVE  CountInv'
<1>1. pc'[s] = label /\ \A r \in Session : r # s => SameCounts(r)
  BY DEF TypeOK, Thread, SameCounts
<1>2. CountsAt(s)'
  BY <1>1 DEF CountInv, CountsAt
<1> QED BY <1>1, <1>2, CountFrame

LEMMA SuspendCounts ==
  ASSUME TypeOK, CountInv, NEW s \in Session, NEW why, NEW kid, Suspend(s, why, kid),
         UNCHANGED <<attempts, loc, mAttempts>>
  PROVE  CountInv'
<1>1. "check" \notin AtStep
  BY DEF AtStep, AtExit
<1> QED BY <1>1, LeaveCounts DEF Suspend, Transition, Goto

\* A contexts' attempts that are not behind the log's make the next one fresh.
LEMMA EnterCounts ==
  ASSUME TypeOK, CountInv, NEW s \in Session, NEW x \in Step, NEW visit, NEW att \in Nat, NEW V,
         NEW A \in [Step -> Nat], NEW kid, Enter(s, x, visit, att, V, A, kid),
         \A y \in Step : attempts[s][y] <= A[y],
         kid = None => att > attempts[s][x], attempts' = attempts
  PROVE  CountInv'
<1> DEFINE l == [NoLocals EXCEPT !.step = x, !.visit = visit, !.att = att, !.tries = 1,
                                 !.kid = kid, !.reattach = (kid # None)]
           B == [A EXCEPT ![x] = Larger(@, att)]
<1>1. l.step = x /\ l.att = att /\ l.reattach = (kid # None)
  BY DEF NoLocals
<1>2. /\ loc' = [loc EXCEPT ![s] = l] /\ pc' = [pc EXCEPT ![s] = "assert"]
      /\ mAttempts' = [mAttempts EXCEPT ![s] = B]
  BY DEF Enter, Goto
<1>3. B[x] \in Nat /\ B[x] >= att /\ B[x] >= A[x] /\ \A y \in Step : y # x => B[y] = A[y]
  BY LargerType
<1>4. attempts[s] \in [Step -> Nat]
  BY DEF TypeOK, Counts
<1>5. \A y \in Step : attempts[s][y] <= B[y]
  BY <1>3, <1>4
<1> HIDE DEF l, B
<1>6. /\ pc'[s] = "assert" /\ loc'[s] = l /\ mAttempts'[s] = B /\ attempts'[s] = attempts[s]
      /\ \A r \in Session : r # s => SameCounts(r)
  BY <1>2, OthersCount, Unchanged
<1>7. CountsAt(s)'
  BY <1>1, <1>3, <1>5, <1>6 DEF CountsAt
<1> QED BY <1>6, <1>7, CountFrame

LEMMA NewVisitCounts ==
  ASSUME TypeOK, CountInv, NEW s \in Session, NEW x \in Step, NEW V, NEW A \in [Step -> Nat],
         NewVisit(s, x, V, A), \A y \in Step : attempts[s][y] <= A[y], attempts' = attempts
  PROVE  CountInv'
<1>1. CASE Suspend(s, "max-visits-exceeded", None) /\ UNCHANGED <<ctx, loc>>
  BY <1>1, SuspendCounts DEF ctx
<1>2. CASE Enter(s, x, V[x] + 1, A[x] + 1, [V EXCEPT ![x] = @ + 1], A, None)
  <2>1. attempts[s][x] \in Nat /\ A[x] \in Nat /\ A[x] + 1 \in Nat /\ A[x] + 1 > attempts[s][x]
    BY DEF TypeOK, Counts
  <2> QED BY <1>2, <2>1, EnterCounts
<1> QED BY <1>1, <1>2 DEF NewVisit

LEMMA FollowCounts ==
  ASSUME TypeOK, CountInv, NEW s \in Session, NEW x \in Step, NEW e \in Exits[x], NEW V,
         NEW A \in [Step -> Nat], Follow(s, x, e, V, A),
         \A y \in Step : attempts[s][y] <= A[y], attempts' = attempts
  PROVE  CountInv'
<1>1. CASE Goto(s, "complete") /\ UNCHANGED <<ctx, loc, tx>>
  <2>1. "complete" \notin AtStep
    BY DEF AtStep, AtExit
  <2> QED BY <1>1, <2>1, LeaveCounts DEF Goto, ctx
<1>2. CASE Target[x][e] # Done /\ NewVisit(s, Target[x][e], V, A)
  <2>1. Target[x][e] \in Step
    BY <1>2, CircuitAssumption
  <2> QED BY <1>2, <2>1, NewVisitCounts
<1> QED BY <1>1, <1>2 DEF Follow

LEMMA FailAttemptCounts ==
  ASSUME TypeOK, Shape, CountInv, NEW s \in Session, pc[s] \in AtStep, NEW retry \in BOOLEAN,
         NEW why, NEW kid, FailAttempt(s, retry, why, kid)
  PROVE  CountInv'
<1> DEFINE l == loc[s]
           a == Larger(mAttempts[s][l.step], l.att) + 1
<1>1. s \in Thread /\ l \in Locals /\ l.step \in Step /\ l.att \in Nat
  BY DEF Thread, TypeOK, Shape, StepShape, Locals
<1>2. mAttempts[s] \in [Step -> Nat] /\ attempts[s] \in [Step -> Nat]
  BY DEF TypeOK, Counts
<1>3. mAttempts[s][l.step] \in Nat /\ attempts[s][l.step] \in Nat
  BY <1>1, <1>2
<1>4. a \in Nat /\ a > mAttempts[s][l.step]
  <2>1. Larger(mAttempts[s][l.step], l.att) \in Nat
        /\ Larger(mAttempts[s][l.step], l.att) >= mAttempts[s][l.step]
    BY <1>1, <1>3, LargerType
  <2> QED BY <1>3, <2>1
<1>5. attempts' = attempts
  BY DEF FailAttempt, LogFailed
<1>6. CASE retry /\ l.tries < MaxTries
  <2>1. /\ loc' = [loc EXCEPT ![s].att = a, ![s].tries = @ + 1, ![s].reattach = FALSE, ![s].kid = None]
        /\ mAttempts' = [mAttempts EXCEPT ![s][l.step] = a]
        /\ pc' = [pc EXCEPT ![s] = "assert"]
    BY <1>6 DEF FailAttempt, Goto
  <2> DEFINE m == [l EXCEPT !.att = a, !.tries = @ + 1, !.reattach = FALSE, !.kid = None]
             B == [mAttempts[s] EXCEPT ![l.step] = a]
  <2>2. loc' = [loc EXCEPT ![s] = m] /\ mAttempts' = [mAttempts EXCEPT ![s] = B]
    BY <1>1, <2>1 DEF TypeOK, Counts
  <2> HIDE DEF a
  <2>3. m.step = l.step /\ m.att = a
    BY <1>1 DEF Locals
  <2>4. B[l.step] = a /\ \A y \in Step : y # l.step => B[y] = mAttempts[s][y]
    BY <1>1, <1>2
  <2>5. \A y \in Step : attempts[s][y] <= mAttempts[s][y]
    BY DEF CountInv, CountsAt
  <2>6. \A y \in Step : attempts[s][y] <= B[y]
    BY <1>1, <1>2, <1>4, <2>4, <2>5
  <2>7. a > attempts[s][l.step] /\ a <= a
    BY <1>1, <1>3, <1>4, <2>5
  <2>8. pc' = [pc EXCEPT ![s] = "assert"]
    BY <2>1
  <2> HIDE DEF m, B
  <2>9. /\ pc'[s] = "assert" /\ loc'[s] = m /\ mAttempts'[s] = B /\ attempts'[s] = attempts[s]
        /\ \A r \in Session : r # s => SameCounts(r)
    BY <1>5, <2>2, <2>8, OthersCount, Unchanged
  <2>10. CountsAt(s)'
    BY <2>3, <2>4, <2>6, <2>7, <2>9 DEF CountsAt
  <2> QED BY <2>9, <2>10, CountFrame
<1>7. CASE ~(retry /\ l.tries < MaxTries)
  <2>1. /\ Suspend(s, IF retry THEN "retries-exhausted" ELSE why, IF retry THEN None ELSE kid)
        /\ UNCHANGED <<loc, mAttempts>>
    BY <1>7 DEF FailAttempt, ctx
  <2> QED BY <1>5, <2>1, SuspendCounts
<1> QED BY <1>6, <1>7

LEMMA LogAttempts == UNCHANGED log => attempts' = attempts
BY DEF log

LEMMA CtxAttempts == UNCHANGED ctx => mAttempts' = mAttempts
BY DEF ctx

LEMMA RunCounts ==
  ASSUME TypeOK, Shape, CountInv, NEW s \in Session, Run(s) \/ Admit(s)
  PROVE  CountInv'
<1>0. s \in Thread /\ loc[s] \in Locals
  BY DEF Thread, TypeOK
<1>l. \A label \in {"end", "idle", "check", "settle", "complete"} : label \notin AtStep
  BY DEF AtStep, AtExit
<1>1. CASE Admit(s)
  BY <1>l, <1>1, LogAttempts, CtxAttempts, LeaveCounts DEF Admit, Transition, Goto
<1>2. CASE Position(s)
  <2> DEFINE c == cur[s]
  <2>1. /\ attempts' = attempts /\ \A y \in Step : attempts[s][y] <= attempts[s][y]
        /\ attempts[s] \in [Step -> Nat] /\ c \in Cursor /\ circ[s] \in Circuit
    BY <1>2, LogAttempts DEF Position, TypeOK, Counts
  <2>2. CASE Suspend(s, "config-error", None) /\ UNCHANGED <<ctx, loc>>
    BY <2>1, <2>2, CtxAttempts, SuspendCounts
  <2>3. CASE NewVisit(s, Entry[circ[s]], visits[s], attempts[s])
    <3>1. Entry[circ[s]] \in Step
      BY <2>1, CircuitAssumption
    <3> QED BY <2>1, <2>3, <3>1, NewVisitCounts
  <2>4. CASE c.status = "exited" /\ Follow(s, c.step, c.exit, visits[s], attempts[s])
    <3>1. c.step \in Step /\ c.exit \in Exits[c.step]
      BY <2>4 DEF Shape, CursorShape
    <3> QED BY <2>1, <2>4, <3>1, FollowCounts
  <2>5. CASE /\ c.status \in {"running", "failed"} /\ Reattaches(s)
             /\ Enter(s, c.step, c.visit, c.att, visits[s], attempts[s], c.kid)
    <3>1. c.step \in Step /\ c.att \in Nat /\ c.kid # None
      BY <2>1, <2>5 DEF Shape, CursorShape, Cursor, Reattaches
    <3> QED BY <2>1, <2>5, <3>1, EnterCounts
  <2>6. CASE /\ c.status \in {"running", "failed"}
             /\ Enter(s, c.step, c.visit, attempts[s][c.step] + 1, visits[s], attempts[s], None)
    <3>1. c.step \in Step
      BY <2>6 DEF Shape, CursorShape
    <3>2. attempts[s][c.step] \in Nat
      BY <2>1, <3>1
    <3>3. attempts[s][c.step] + 1 \in Nat /\ attempts[s][c.step] + 1 > attempts[s][c.step]
      BY <3>2
    <3> QED BY <2>1, <2>6, <3>1, <3>3, EnterCounts
  <2> QED BY <1>2, <2>2, <2>3, <2>4, <2>5, <2>6 DEF Position
<1>3. CASE Start(s)
  <2> DEFINE l == loc[s]
  <2>1. pc[s] \in AtStep /\ l.step \in Step /\ l.att \in Nat /\ UNCHANGED <<loc, mAttempts>>
    BY <1>0, <1>3 DEF Start, AtStep, Shape, StepShape, Locals, ctx
  <2>2. CASE l.reattach
    BY <1>3, <2>1, <2>2, LogAttempts, MoveCounts DEF Start, Goto
  <2>3. CASE ~l.reattach
    <3>1. PICK label \in {"spawn", "gate", "work"} : pc' = [pc EXCEPT ![s] = label]
      BY <1>3, <2>3 DEF Start, Goto
    <3>2. attempts' = [attempts EXCEPT ![s][l.step] = Larger(@, l.att)]
      BY <1>3, <2>3 DEF Start, LogStarted
    <3> DEFINE B == [attempts[s] EXCEPT ![l.step] = Larger(@, l.att)]
    <3>3. attempts' = [attempts EXCEPT ![s] = B]
      BY <3>2 DEF TypeOK, Counts
    <3>4. attempts[s] \in [Step -> Nat] /\ mAttempts[s] \in [Step -> Nat]
      BY DEF TypeOK, Counts
    <3>5. /\ \A y \in Step : attempts[s][y] <= mAttempts[s][y]
          /\ l.att <= mAttempts[s][l.step]
      BY <2>1 DEF CountInv, CountsAt
    <3>6. B[l.step] = Larger(attempts[s][l.step], l.att) /\ \A y \in Step : y # l.step => B[y] = attempts[s][y]
      BY <2>1, <3>4
    <3>7. B[l.step] <= mAttempts[s][l.step]
      BY <2>1, <3>4, <3>5, <3>6 DEF Larger
    <3>8. \A y \in Step : B[y] <= mAttempts[s][y]
      BY <3>5, <3>6, <3>7
    <3> HIDE DEF B
    <3>9. /\ pc'[s] = label /\ loc'[s] = l /\ mAttempts'[s] = mAttempts[s] /\ attempts'[s] = B
          /\ \A r \in Session : r # s => SameCounts(r)
      BY <2>1, <3>1, <3>3 DEF TypeOK, Counts, Thread, SameCounts
    <3>10. CountsAt(s)'
      BY <3>1, <3>5, <3>8, <3>9 DEF CountsAt
    <3> QED BY <3>9, <3>10, CountFrame
  <2> QED BY <2>2, <2>3
<1>4. CASE StopCancelled(s)
  BY <1>l, <1>4, LogAttempts, CtxAttempts, LeaveCounts DEF StopCancelled, Goto
<1>5. CASE OverBudget(s)
  BY <1>5, LogAttempts, CtxAttempts, SuspendCounts DEF OverBudget
<1>6. ASSUME pc[s] \in AtStep, UNCHANGED <<log, ctx>>, Goto(s, "exit-log"),
             \E e \in Exits[loc[s].step] : loc' = [loc EXCEPT ![s].exit = e]
      PROVE  CountInv'
  <2>1. PICK e : loc' = [loc EXCEPT ![s].exit = e]
    BY <1>6
  <2>2. /\ loc'[s].step = loc[s].step /\ loc'[s].att = loc[s].att
        /\ \A r \in Session : r # s => loc'[r] = loc[r]
    BY <1>0, <2>1 DEF TypeOK, Locals, Thread
  <2> QED BY <1>6, <2>2, LogAttempts, CtxAttempts, MoveCounts DEF Goto
<1>7. CASE WorkExit(s)
  BY <1>6, <1>7 DEF WorkExit, AtStep
<1>8. CASE WorkFail(s)
  BY <1>8, FailAttemptCounts DEF WorkFail, AtStep
<1>9. CASE Spawn(s)
  <2>1. PICK c : loc' = [loc EXCEPT ![s].kid = c]
    BY <1>9 DEF Spawn
  <2>2. /\ loc'[s].step = loc[s].step /\ loc'[s].att = loc[s].att
        /\ \A r \in Session : r # s => loc'[r] = loc[r]
    BY <1>0, <2>1 DEF TypeOK, Locals, Thread
  <2> QED BY <1>9, <2>2, LogAttempts, CtxAttempts, MoveCounts DEF Spawn, Goto, AtStep
<1>10. CASE LinkRow(s)
  BY <1>10, LogAttempts, CtxAttempts, MoveCounts DEF LinkRow, Goto, AtStep
<1>11. CASE LinkLog(s)
  BY <1>11, CtxAttempts, MoveCounts DEF LinkLog, Goto, AtStep
<1>12. CASE WaitExit(s)
  <2>1. pc[s] \in AtStep
    BY <1>12 DEF WaitExit, AtStep
  <2>2. CASE FailAttempt(s, FALSE, "exit-unmapped", loc[s].kid) \/ FailAttempt(s, TRUE, "none", None)
    BY <2>1, <2>2, FailAttemptCounts
  <2> QED BY <1>6, <1>12, <2>1, <2>2 DEF WaitExit
<1>13. CASE WaitCancelled(s)
  BY <1>13, FailAttemptCounts DEF WaitCancelled, AtStep
<1>14. CASE WaitPark(s)
  <2>1. PICK v : loc' = [loc EXCEPT ![s].seen = v]
    BY <1>14 DEF WaitPark
  <2>2. \A r \in Session : r # s => loc'[r] = loc[r]
    BY <2>1 DEF TypeOK, Thread
  <2> QED BY <1>l, <1>14, <2>2, LogAttempts, CtxAttempts, LeaveCounts DEF WaitPark, Transition, Goto
<1>15. CASE ParkedAgain(s)
  BY <1>l, <1>15, LogAttempts, CtxAttempts, LeaveCounts DEF ParkedAgain, Goto
<1>16. CASE GateOpen(s)
  BY <1>l, <1>16, LogAttempts, CtxAttempts, LeaveCounts DEF GateOpen, Transition, Goto
<1>17. CASE GateEmpty(s)
  BY <1>17, FailAttemptCounts DEF GateEmpty, AtStep
<1>18. CASE Complete(s)
  BY <1>l, <1>18, LogAttempts, CtxAttempts, LeaveCounts DEF Complete, Suspend, Transition, Goto
<1>19. CASE End(s)
  <2>1. \A r \in Session : r # s => loc'[r] = loc[r] /\ mAttempts'[r] = mAttempts[r]
    BY <1>19 DEF End, TypeOK, Thread, Counts
  <2> QED BY <1>l, <1>19, <2>1, LogAttempts, LeaveCounts DEF End, Goto
<1> QED BY <1>1, <1>2, <1>3, <1>4, <1>5, <1>7, <1>8, <1>9, <1>10, <1>11, <1>12, <1>13, <1>14,
           <1>15, <1>16, <1>17, <1>18, <1>19 DEF Run

\* A step of a thread that has no counts.
LEMMA AwayCounts ==
  ASSUME TypeOK, CountInv, UNCHANGED <<attempts, mAttempts>>,
         \A r \in Session : pc'[r] = pc[r] /\ loc'[r] = loc[r]
  PROVE  CountInv'
BY SameCountsAt DEF CountInv, SameCounts

LEMMA ServeCounts ==
  ASSUME TypeOK, CountInv, NEW o \in Operator, Request(o) \/ Serve(o)
  PROVE  CountInv'
<1>1. UNCHANGED <<attempts, mAttempts>>
  BY DEF Request, Serve, Cancel, Retry, Resume, ManualRoute, Verdict, CancelWrite, CancelChildren,
         CancelNext, RetryRead, RetryChild, RetryQueue, VerdictClose, Return, log, ctx
<1>2. \A r \in Session : r # o /\ r \in Thread
  BY ThreadsAssumption DEF Thread
<1>3. ASSUME NEW r \in Session PROVE pc'[r] = pc[r]
  BY <1>2 DEF TypeOK, Request, Serve, Cancel, Retry, Resume, ManualRoute, Verdict, CancelWrite,
         CancelChildren, CancelNext, RetryRead, RetryChild, RetryQueue, VerdictClose, Return,
         Goto, Transition
<1>4. ASSUME NEW r \in Session PROVE loc'[r] = loc[r]
  BY <1>2 DEF TypeOK, Request, Serve, Cancel, Retry, Resume, ManualRoute, Verdict, CancelWrite,
         CancelChildren, CancelNext, RetryRead, RetryChild, RetryQueue, VerdictClose, Return
<1> QED BY <1>1, <1>3, <1>4, AwayCounts

LEMMA RecordingCounts ==
  ASSUME TypeOK, Shape, CountInv, NEW t \in Session \cup Operator, Recording(t)
  PROVE  CountInv'
<1>1. t \in Thread /\ pc[t] \in AtExit /\ pc[t] \in AtStep
  BY DEF Thread, Recording, ExitLog, ExitRow, AtExit, AtStep
<1>2. attempts' = attempts
  BY DEF Recording, ExitLog, ExitRow, LogExited, log
<1>3. CASE t \notin Session
  <2>1. UNCHANGED <<mAttempts, loc>>
    BY <1>3 DEF Recording, ExitLog, ExitRow, ctx
  <2>2. \A r \in Session : pc'[r] = pc[r]
    BY <1>3 DEF Recording, ExitLog, ExitRow, Transition, Goto, TypeOK, Thread
  <2> QED BY <1>2, <2>1, <2>2, AwayCounts
<1>4. CASE t \in Session /\ ExitLog(t)
  BY <1>1, <1>2, <1>4, CtxAttempts, MoveCounts DEF ExitLog, Goto
<1>5. CASE t \in Session /\ ExitRow(t)
  <2>1. Follow(t, loc[t].step, loc[t].exit, mVisits[t], mAttempts[t])
    BY <1>5 DEF ExitRow, About
  <2>2. loc[t].step \in Step /\ loc[t].exit \in Exits[loc[t].step]
    BY <1>1 DEF Shape, StepShape
  <2>3. mAttempts[t] \in [Step -> Nat] /\ \A y \in Step : attempts[t][y] <= mAttempts[t][y]
    BY <1>1, <1>5 DEF TypeOK, Counts, CountInv, CountsAt
  <2> QED BY <1>2, <1>5, <2>1, <2>2, <2>3, FollowCounts
<1> QED BY <1>3, <1>4, <1>5 DEF Recording

LEMMA SharedCounts ==
  ASSUME TypeOK, CountInv, NEW t \in Thread, Shared(t)
  PROVE  CountInv'
<1>1. UNCHANGED <<attempts, mAttempts, loc>>
  BY DEF Shared, TxCheck, TxWrite, Settle, log, ctx
<1>2. tx[t] \in Call /\ tx[t].then \in TxLabel
  BY DEF TypeOK, Call, TxLabel
<1>3. PICK label \in TxLabel : pc' = [pc EXCEPT ![t] = label]
  BY <1>2 DEF Shared, TxCheck, TxWrite, Settle, Goto, OnSignal, TxLabel, Returns
<1>4. label \notin AtStep
  BY TxLabels
<1>5. CASE t \in Session
  BY <1>1, <1>3, <1>4, <1>5, LeaveCounts
<1>6. CASE t \notin Session
  <2>1. \A r \in Session : pc'[r] = pc[r]
    BY <1>3, <1>6 DEF TypeOK, Thread
  <2> QED BY <1>1, <2>1, AwayCounts
<1> QED BY <1>5, <1>6

LEMMA RecoverCounts ==
  ASSUME TypeOK, CountInv, Recover \/ Crash
  PROVE  CountInv'
<1>1. CASE Crash \/ RecoverDies
  <2>1. \A s \in Session : pc'[s] = "idle"
    BY <1>1 DEF Crash, RecoverDies, Reboot, Thread
  <2> QED BY <2>1 DEF CountInv, CountsAt, AtStep, AtExit
<1>2. CASE RecoverDone
  BY <1>2, AwayCounts DEF RecoverDone, log, ctx
<1>3. ASSUME NEW s \in Session, RecoverSession(s) PROVE CountInv'
  <2>1. UNCHANGED <<attempts, mAttempts, loc>>
    BY <1>3 DEF RecoverSession, ctx
  <2>2. \A r \in Session : pc'[r] = pc[r]
    BY <1>3, ThreadsAssumption DEF RecoverSession, Transition, Goto, TypeOK, Thread
  <2> QED BY <2>1, <2>2, AwayCounts
<1> QED BY <1>1, <1>2, <1>3 DEF Recover

LEMMA CountStep == Typed /\ CountInv /\ [Next]_vars => CountInv'
<1> SUFFICES ASSUME TypeOK, Shape, CountInv, [Next]_vars PROVE CountInv'
  BY DEF Typed
<1>1. CASE UNCHANGED vars
  BY <1>1, AwayCounts DEF vars, log, ctx
<1>2. CASE Next
  BY <1>2, RunCounts, ServeCounts, SharedCounts, RecordingCounts, RecoverCounts DEF Next
<1> QED BY <1>1, <1>2

\* A run loop logs an attempt as started under a number the log does not have
\* yet, in every circuit, over every crash, recovery, retry and gate.
THEOREM Freshness == Spec => []AttemptFresh
<1>1. Init => CountInv
  BY DEF Init, CountInv, CountsAt, AtStep, AtExit, Thread
<1>2. CountInv => AttemptFresh
  BY DEF CountInv, CountsAt, AttemptFresh, AtStep
<1> QED BY TypedInit, TypedStep, <1>1, CountStep, <1>2, PTL DEF Spec
-------------------------------------------------------------------------------
(***************************************************************************)
(* VisitBound.  The limit is tested where a visit begins and nowhere else, *)
(* so every number that can become a visit has to be within it: those of   *)
(* the log and its cursor, of the run contexts, of the locals of loops and *)
(* operator calls, and of the details through which a gate or a parked     *)
(* parent hands its visit to the call that takes it up.                    *)
(***************************************************************************)
LogWithin == \A s \in Session :
  /\ \A x \in Step : visits[s][x] <= MaxVisits
  /\ cur[s].visit <= MaxVisits
ContextWithin == \A s \in Session : \A x \in Step : mVisits[s][x] <= MaxVisits
LocalsWithin == \A t \in Thread : loc[t].visit <= MaxVisits
CallsWithin == \A t \in Thread : tx[t].det.visit <= MaxVisits
DetailWithin == \A s \in Session : det[s].visit <= MaxVisits

VisitInv == LogWithin /\ ContextWithin /\ LocalsWithin /\ CallsWithin /\ DetailWithin

\* What the steps of a run loop change.
LoopWithin == ContextWithin /\ LocalsWithin /\ CallsWithin

LEMMA NoVisits ==
  /\ 0 <= MaxVisits /\ 1 <= MaxVisits /\ MaxVisits \in Nat
  /\ NoCursor.visit = 0 /\ NoLocals.visit = 0 /\ NoCall.det.visit = 0
  /\ \A why : Plain(why).visit = 0
  /\ \A why, kid : [Plain(why) EXCEPT !.kid = kid].visit = 0
BY BoundAssumption DEF NoCursor, NoLocals, NoCall, Plain

LEMMA VisitInit == Init => VisitInv
BY NoVisits DEF Init, VisitInv, LogWithin, ContextWithin, LocalsWithin, CallsWithin, DetailWithin,
                NoCounts

\* Variables that stay as they are.
LEMMA WithinFrame ==
  ASSUME VisitInv
  PROVE  /\ UNCHANGED log => LogWithin'
         /\ UNCHANGED <<visits, cur>> => LogWithin'
         /\ UNCHANGED ctx => ContextWithin'
         /\ mVisits' = mVisits => ContextWithin'
         /\ loc' = loc => LocalsWithin'
         /\ tx' = tx => CallsWithin'
         /\ UNCHANGED sessionRows => DetailWithin'
         /\ det' = det => DetailWithin'
BY DEF VisitInv, LogWithin, ContextWithin, LocalsWithin, CallsWithin, DetailWithin, log, ctx, sessionRows

-------------------------------------------------------------------------------
(***************************************************************************)
(* The operators the actions are built from.                               *)
(***************************************************************************)
LEMMA CallWithin ==
  ASSUME TypeOK, VisitInv, NEW t \in Thread, NEW s, NEW to, NEW d, NEW then,
         Transition(t, s, to, d, then), d.visit <= MaxVisits
  PROVE  CallsWithin'
<1> DEFINE c == [who |-> s, to |-> to, det |-> d, wake |-> FALSE, then |-> then]
<1>1. c.det.visit <= MaxVisits /\ tx' = [tx EXCEPT ![t] = c]
  BY DEF Transition
<1> HIDE DEF c
<1>2. tx'[t] = c /\ \A r \in Thread : r # t => tx'[r] = tx[r]
  BY <1>1 DEF TypeOK
<1> QED BY <1>1, <1>2 DEF VisitInv, CallsWithin

LEMMA LocalWithin ==
  ASSUME TypeOK, VisitInv, NEW t \in Thread, NEW l, loc' = [loc EXCEPT ![t] = l],
         l.visit <= MaxVisits
  PROVE  LocalsWithin'
<1>1. loc'[t] = l /\ \A r \in Thread : r # t => loc'[r] = loc[r]
  BY DEF TypeOK
<1> QED BY <1>1 DEF VisitInv, LocalsWithin

LEMMA SuspendWithin ==
  ASSUME TypeOK, VisitInv, NEW s \in Session, NEW why, NEW kid, Suspend(s, why, kid)
  PROVE  CallsWithin'
<1>1. s \in Thread
  BY DEF Thread
<1> QED BY <1>1, NoVisits, CallWithin DEF Suspend

LEMMA EnterWithin ==
  ASSUME TypeOK, VisitInv, NEW s \in Session, NEW x, NEW visit, visit <= MaxVisits, NEW att,
         NEW V, \A y \in Step : V[y] <= MaxVisits, NEW A, NEW kid, Enter(s, x, visit, att, V, A, kid)
  PROVE  LoopWithin'
<1> DEFINE l == [NoLocals EXCEPT !.step = x, !.visit = visit, !.att = att, !.tries = 1,
                                 !.kid = kid, !.reattach = (kid # None)]
<1>1. s \in Thread /\ l.visit = visit /\ loc' = [loc EXCEPT ![s] = l]
  BY DEF Thread, Enter, NoLocals
<1> HIDE DEF l
<1>2. LocalsWithin'
  BY <1>1, LocalWithin
<1>3. mVisits' = [mVisits EXCEPT ![s] = V] /\ mVisits \in Counts
  BY DEF Enter, TypeOK
<1>4. mVisits'[s] = V /\ \A r \in Session : r # s => mVisits'[r] = mVisits[r]
  BY <1>3 DEF Counts
<1>5. ContextWithin'
  BY <1>4 DEF VisitInv, ContextWithin
<1>6. CallsWithin'
  BY WithinFrame DEF Enter
<1> QED BY <1>2, <1>5, <1>6 DEF LoopWithin

\* The only place where a visit begins, and the only test of the limit.
LEMMA NewVisitWithin ==
  ASSUME TypeOK, VisitInv, NEW s \in Session, NEW x \in Step, NEW V \in [Step -> Nat],
         \A y \in Step : V[y] <= MaxVisits, NEW A, NewVisit(s, x, V, A)
  PROVE  LoopWithin'
<1>1. CASE Suspend(s, "max-visits-exceeded", None) /\ UNCHANGED <<ctx, loc>>
  BY <1>1, SuspendWithin, WithinFrame DEF LoopWithin
<1>2. CASE /\ ~(V[x] + 1 > MaxVisits)
           /\ Enter(s, x, V[x] + 1, A[x] + 1, [V EXCEPT ![x] = @ + 1], A, None)
  <2>1. V[x] + 1 <= MaxVisits
    BY <1>2, NoVisits
  <2>2. \A y \in Step : [V EXCEPT ![x] = @ + 1][y] <= MaxVisits
    BY <2>1
  <2> QED BY <1>2, <2>1, <2>2, EnterWithin
<1> QED BY <1>1, <1>2 DEF NewVisit

LEMMA FollowWithin ==
  ASSUME TypeOK, VisitInv, NEW s \in Session, NEW x \in Step, NEW e \in Exits[x],
         NEW V \in [Step -> Nat], \A y \in Step : V[y] <= MaxVisits, NEW A, Follow(s, x, e, V, A)
  PROVE  LoopWithin'
<1>1. CASE UNCHANGED <<ctx, loc, tx>>
  BY <1>1, WithinFrame DEF LoopWithin
<1>2. CASE Target[x][e] # Done /\ NewVisit(s, Target[x][e], V, A)
  <2>1. Target[x][e] \in Step
    BY <1>2, CircuitAssumption
  <2> QED BY <1>2, <2>1, NewVisitWithin
<1> QED BY <1>1, <1>2 DEF Follow

LEMMA LogFailedWithin ==
  ASSUME TypeOK, VisitInv, NEW s \in Session, NEW x, NEW a, LogFailed(s, x, a)
  PROVE  LogWithin'
<1>1. \A r \in Session : cur'[r].visit = cur[r].visit
  BY DEF LogFailed, TypeOK, Cursor
<1> QED BY <1>1 DEF LogFailed, VisitInv, LogWithin

LEMMA FailAttemptWithin ==
  ASSUME TypeOK, VisitInv, NEW s \in Session, NEW retry, NEW why, NEW kid,
         FailAttempt(s, retry, why, kid)
  PROVE  LogWithin' /\ LoopWithin'
<1>1. LogWithin'
  BY LogFailedWithin DEF FailAttempt
<1>2. CASE retry /\ loc[s].tries < MaxTries
  <2>1. PICK a : loc' = [loc EXCEPT ![s].att = a, ![s].tries = @ + 1, ![s].reattach = FALSE,
                                    ![s].kid = None]
    BY <1>2 DEF FailAttempt
  <2>2. \A t \in Thread : loc'[t].visit = loc[t].visit
    BY <2>1 DEF TypeOK, Locals
  <2>3. UNCHANGED <<mVisits, tx>>
    BY <1>2 DEF FailAttempt
  <2>4. LocalsWithin'
    BY <2>2 DEF VisitInv, LocalsWithin
  <2> QED BY <1>1, <2>3, <2>4, WithinFrame DEF LoopWithin
<1>3. CASE ~(retry /\ loc[s].tries < MaxTries)
  BY <1>1, <1>3, SuspendWithin, WithinFrame DEF FailAttempt, LoopWithin
<1> QED BY <1>2, <1>3

\* A step that is recorded, as started or as exited.
LEMMA LogStartedWithin ==
  ASSUME TypeOK, VisitInv, NEW s \in Session, NEW x \in Step, NEW a, NEW v, v <= MaxVisits,
         LogStarted(s, x, a, v)
  PROVE  LogWithin'
<1> DEFINE c == [NoCursor EXCEPT !.step = x, !.att = a, !.visit = v, !.status = "running"]
<1>1. c.visit = v /\ cur' = [cur EXCEPT ![s] = c]
  BY DEF LogStarted, NoCursor
<1> HIDE DEF c
<1>2. \A r \in Session : cur'[r].visit <= MaxVisits
  BY <1>1 DEF TypeOK, VisitInv, LogWithin
<1>3. visits' = [visits EXCEPT ![s][x] = Larger(@, v)] /\ visits \in Counts
  BY DEF LogStarted, TypeOK
<1>4. Larger(visits[s][x], v) <= MaxVisits
  BY DEF Larger, VisitInv, LogWithin
<1>5. \A r \in Session : \A y \in Step : visits'[r][y] <= MaxVisits
  BY <1>3, <1>4 DEF Counts, VisitInv, LogWithin
<1> QED BY <1>2, <1>5 DEF LogWithin

LEMMA LogExitedWithin ==
  ASSUME TypeOK, VisitInv, NEW s \in Session, NEW x, NEW a, NEW v, v <= MaxVisits, NEW e,
         LogExited(s, x, a, v, e)
  PROVE  LogWithin'
<1> DEFINE c == [NoCursor EXCEPT !.step = x, !.att = a, !.visit = v, !.status = "exited", !.exit = e]
<1>1. c.visit = v /\ cur' = [cur EXCEPT ![s] = c] /\ visits' = visits
  BY DEF LogExited, NoCursor
<1> HIDE DEF c
<1> QED BY <1>1 DEF TypeOK, VisitInv, LogWithin

-------------------------------------------------------------------------------
(***************************************************************************)
(* The actions.                                                            *)
(***************************************************************************)
\* The position of a run is taken up from the log, whose numbers are within.
LEMMA PositionWithin ==
  ASSUME TypeOK, Shape, VisitInv, NEW s \in Session, Position(s)
  PROVE  VisitInv'
<1> DEFINE c == cur[s]
<1>1. /\ c \in Cursor /\ c.visit <= MaxVisits /\ circ[s] \in Circuit /\ visits[s] \in [Step -> Nat]
      /\ \A y \in Step : visits[s][y] <= MaxVisits
  BY DEF TypeOK, Counts, VisitInv, LogWithin
<1>2. LogWithin' /\ DetailWithin'
  BY WithinFrame DEF Position
<1>3. LoopWithin'
  <2>1. CASE Suspend(s, "config-error", None) /\ UNCHANGED <<ctx, loc>>
    BY <2>1, SuspendWithin, WithinFrame DEF LoopWithin
  <2>2. CASE NewVisit(s, Entry[circ[s]], visits[s], attempts[s])
    <3>1. Entry[circ[s]] \in Step
      BY <1>1, CircuitAssumption
    <3> QED BY <1>1, <2>2, <3>1, NewVisitWithin
  <2>3. CASE c.status = "exited" /\ Follow(s, c.step, c.exit, visits[s], attempts[s])
    <3>1. c.step \in Step /\ c.exit \in Exits[c.step]
      BY <2>3 DEF Shape, CursorShape
    <3> QED BY <1>1, <2>3, <3>1, FollowWithin
  <2>4. CASE \E att, kid : Enter(s, c.step, c.visit, att, visits[s], attempts[s], kid)
    BY <1>1, <2>4, EnterWithin
  <2> QED BY <2>1, <2>2, <2>3, <2>4 DEF Position
<1> QED BY <1>2, <1>3 DEF LoopWithin, VisitInv

LEMMA StartWithin ==
  ASSUME TypeOK, Shape, VisitInv, NEW s \in Session, Start(s)
  PROVE  VisitInv'
<1>1. s \in Thread /\ loc[s].step \in Step /\ loc[s].visit <= MaxVisits
  BY DEF Thread, Start, AtStep, Shape, StepShape, VisitInv, LocalsWithin
<1>2. LogWithin'
  BY <1>1, LogStartedWithin, WithinFrame DEF Start
<1>3. LoopWithin' /\ DetailWithin'
  BY WithinFrame DEF Start, LoopWithin
<1> QED BY <1>2, <1>3 DEF LoopWithin, VisitInv

\* Locals whose visit is not what changes.
LEMMA SameVisit ==
  ASSUME VisitInv, \A t \in Thread : loc'[t].visit = loc[t].visit
  PROVE  LocalsWithin'
BY DEF VisitInv, LocalsWithin

LEMMA FieldsWithin ==
  ASSUME TypeOK, VisitInv, NEW t \in Thread,
         \/ \E e : loc' = [loc EXCEPT ![t].exit = e]
         \/ \E k : loc' = [loc EXCEPT ![t].kid = k]
         \/ \E v : loc' = [loc EXCEPT ![t].seen = v]
  PROVE  LocalsWithin'
<1>1. loc \in [Thread -> Locals]
  BY DEF TypeOK
<1>2. ASSUME NEW e, loc' = [loc EXCEPT ![t].exit = e]
      PROVE  \A r \in Thread : loc'[r].visit = loc[r].visit
  BY <1>1, <1>2 DEF Locals
<1>3. ASSUME NEW k, loc' = [loc EXCEPT ![t].kid = k]
      PROVE  \A r \in Thread : loc'[r].visit = loc[r].visit
  BY <1>1, <1>3 DEF Locals
<1>4. ASSUME NEW v, loc' = [loc EXCEPT ![t].seen = v]
      PROVE  \A r \in Thread : loc'[r].visit = loc[r].visit
  BY <1>1, <1>4 DEF Locals
<1> QED BY <1>2, <1>3, <1>4, SameVisit

\* The details of a session that waits name the visit it waits in.
LEMMA ParkWithin ==
  ASSUME TypeOK, VisitInv, NEW s \in Session, NEW to, NEW why, NEW kid, NEW then,
         Transition(s, s, to, [why |-> why, kid |-> kid, step |-> loc[s].step,
                               att |-> loc[s].att, visit |-> loc[s].visit], then)
  PROVE  CallsWithin'
<1> DEFINE d == [why |-> why, kid |-> kid, step |-> loc[s].step, att |-> loc[s].att,
                 visit |-> loc[s].visit]
<1>1. s \in Thread /\ d.visit <= MaxVisits
  BY DEF Thread, VisitInv, LocalsWithin
<1>2. Transition(s, s, to, d, then)
  OBVIOUS
<1> HIDE DEF d
<1> QED BY <1>1, <1>2, CallWithin

LEMMA RunWithin ==
  ASSUME TypeOK, Shape, VisitInv, NEW s \in Session, Run(s) \/ Admit(s)
  PROVE  VisitInv'
<1>0. s \in Thread
  BY DEF Thread
<1>1. CASE Admit(s)
  <2>1. CallsWithin'
    BY <1>0, <1>1, NoVisits, CallWithin DEF Admit
  <2> QED BY <1>1, <2>1, WithinFrame DEF Admit, VisitInv
<1>2. CASE Position(s)
  BY <1>2, PositionWithin
<1>3. CASE Start(s)
  BY <1>3, StartWithin
<1>4. CASE StopCancelled(s) \/ LinkRow(s)
  BY <1>4, WithinFrame DEF StopCancelled, LinkRow, VisitInv
<1>5. CASE OverBudget(s)
  BY <1>5, SuspendWithin, WithinFrame DEF OverBudget, VisitInv
<1>6. CASE WorkExit(s)
  <2>1. LocalsWithin'
    BY <1>0, <1>6, FieldsWithin DEF WorkExit
  <2> QED BY <1>6, <2>1, WithinFrame DEF WorkExit, VisitInv
<1>7. CASE WorkFail(s) \/ WaitCancelled(s) \/ GateEmpty(s)
  BY <1>7, FailAttemptWithin, WithinFrame DEF WorkFail, WaitCancelled, GateEmpty, LoopWithin, VisitInv
<1>8. CASE Spawn(s)
  <2>1. LocalsWithin'
    BY <1>0, <1>8, FieldsWithin DEF Spawn
  <2> QED BY <1>8, <2>1, WithinFrame DEF Spawn, VisitInv
<1>9. CASE LinkLog(s)
  <2>1. \A r \in Session : cur'[r].visit = cur[r].visit
    BY <1>9 DEF LinkLog, TypeOK, Cursor
  <2>2. LogWithin'
    BY <1>9, <2>1 DEF LinkLog, VisitInv, LogWithin
  <2> QED BY <1>9, <2>2, WithinFrame DEF LinkLog, VisitInv
<1>10. CASE WaitExit(s)
  <2>1. DetailWithin'
    BY <1>10, WithinFrame DEF WaitExit
  <2>2. CASE \E retry, why, kid : FailAttempt(s, retry, why, kid)
    BY <2>1, <2>2, FailAttemptWithin DEF LoopWithin, VisitInv
  <2>3. CASE /\ \E e \in Exits[loc[s].step] : loc' = [loc EXCEPT ![s].exit = e]
             /\ UNCHANGED <<log, rows, ctx, tx>>
    <3>1. LocalsWithin'
      BY <1>0, <2>3, FieldsWithin
    <3> QED BY <2>1, <2>3, <3>1, WithinFrame DEF VisitInv
  <2> QED BY <1>10, <2>2, <2>3 DEF WaitExit
<1>11. CASE WaitPark(s)
  <2>1. CallsWithin'
    BY <1>11, ParkWithin DEF WaitPark
  <2>2. LocalsWithin'
    BY <1>0, <1>11, FieldsWithin DEF WaitPark
  <2> QED BY <1>11, <2>1, <2>2, WithinFrame DEF WaitPark, VisitInv
<1>12. CASE ParkedAgain(s)
  <2>1. CallsWithin'
    <3> DEFINE c == [NoCall EXCEPT !.who = loc[s].kid, !.then = "end"]
    <3>1. tx' = tx \/ tx' = [tx EXCEPT ![s] = c]
      BY <1>12 DEF ParkedAgain
    <3>2. c.det.visit <= MaxVisits
      BY NoVisits DEF NoCall
    <3> HIDE DEF c
    <3> QED BY <1>0, <3>1, <3>2 DEF TypeOK, VisitInv, CallsWithin
  <2> QED BY <1>12, <2>1, WithinFrame DEF ParkedAgain, VisitInv
<1>13. CASE GateOpen(s)
  <2>1. CallsWithin'
    BY <1>13, ParkWithin DEF GateOpen
  <2> QED BY <1>13, <2>1, WithinFrame DEF GateOpen, VisitInv
<1>14. CASE Complete(s)
  <2>1. CallsWithin'
    BY <1>0, <1>14, NoVisits, CallWithin, SuspendWithin DEF Complete
  <2> QED BY <1>14, <2>1, WithinFrame DEF Complete, VisitInv
<1>15. CASE End(s)
  <2>1. LocalsWithin'
    BY <1>0, <1>15, NoVisits, LocalWithin DEF End
  <2>2. CallsWithin'
    BY <1>15, NoVisits DEF End, TypeOK, VisitInv, CallsWithin
  <2>3. ContextWithin'
    BY <1>15, NoVisits DEF End, TypeOK, Counts, VisitInv, ContextWithin, NoCounts
  <2> QED BY <1>15, <2>1, <2>2, <2>3, WithinFrame DEF End, VisitInv
<1> QED BY <1>1, <1>2, <1>3, <1>4, <1>5, <1>6, <1>7, <1>8, <1>9, <1>10, <1>11, <1>12, <1>13,
           <1>14, <1>15 DEF Run

\* An operator call takes a visit from the log or from a gate's detail.
LEMMA ServeWithin ==
  ASSUME TypeOK, Shape, VisitInv, NEW o \in Operator, Request(o) \/ Serve(o)
  PROVE  VisitInv'
<1>0. o \in Thread
  BY DEF Thread
<1>1. ASSUME NEW s \in Session, Cancel(o, s)
      PROVE  VisitInv'
  BY <1>1, WithinFrame DEF Cancel, VisitInv
<1>2. ASSUME NEW s \in Session, Retry(o, s)
      PROVE  VisitInv'
  <2>1. LocalsWithin'
    BY <1>0, <1>2, FieldsWithin DEF Retry
  <2> QED BY <1>2, <2>1, WithinFrame DEF Retry, VisitInv
<1>3. ASSUME NEW s \in Session, Resume(o, s)
      PROVE  VisitInv'
  <2>1. CallsWithin'
    BY <1>0, <1>3, NoVisits, CallWithin DEF Resume
  <2> QED BY <1>3, <2>1, WithinFrame DEF Resume, VisitInv
<1>4. ASSUME NEW s \in Session, ManualRoute(o, s)
      PROVE  VisitInv'
  <2> DEFINE c == cur[s]
             x == IF c.status = "exited" THEN Target[c.step][c.exit] ELSE c.step
             visit == IF c.status = "exited" THEN Larger(visits[s][x], 1) ELSE c.visit
  <2>1. c.status # "none" /\ (c.status = "exited" => Target[c.step][c.exit] # Done)
    BY <1>4 DEF ManualRoute
  <2>2. x \in Step
    <3>1. c.step \in Step /\ (c.status = "exited" => c.exit \in Exits[c.step])
      BY <2>1 DEF Shape, CursorShape
    <3>2. c.status = "exited" => Target[c.step][c.exit] \in Step
      BY <2>1, <3>1, CircuitAssumption
    <3> QED BY <3>1, <3>2
  <2>3. visit <= MaxVisits
    BY <2>2, NoVisits DEF Larger, VisitInv, LogWithin
  <2>4. PICK e, att : loc' = [loc EXCEPT ![o] = [NoLocals EXCEPT !.step = x, !.exit = e,
                                                                 !.att = att, !.visit = visit]]
    BY <1>4 DEF ManualRoute
  <2>5. [NoLocals EXCEPT !.step = x, !.exit = e, !.att = att, !.visit = visit].visit = visit
    BY DEF NoLocals
  <2> HIDE DEF x, visit
  <2>6. LocalsWithin'
    BY <1>0, <2>3, <2>4, <2>5, LocalWithin
  <2> QED BY <1>4, <2>6, WithinFrame DEF ManualRoute, VisitInv
<1>5. ASSUME NEW s \in Session, Verdict(o, s)
      PROVE  VisitInv'
  <2> DEFINE d == det[s]
  <2>1. d.visit <= MaxVisits
    BY DEF VisitInv, DetailWithin
  <2>2. PICK e : loc' = [loc EXCEPT ![o] = [NoLocals EXCEPT !.step = d.step, !.att = d.att,
                                                            !.visit = d.visit, !.exit = e]]
    BY <1>5 DEF Verdict
  <2>3. [NoLocals EXCEPT !.step = d.step, !.att = d.att, !.visit = d.visit, !.exit = e].visit = d.visit
    BY DEF NoLocals
  <2>4. LocalsWithin'
    BY <1>0, <2>1, <2>2, <2>3, LocalWithin
  <2> QED BY <1>5, <2>4, WithinFrame DEF Verdict, VisitInv
<1>6. CASE CancelWrite(o)
  <2>1. \A s \in Session : det'[s].visit <= MaxVisits
    BY <1>6, NoVisits DEF CancelWrite, TypeOK, VisitInv, DetailWithin
  <2> QED BY <1>6, <2>1, WithinFrame DEF CancelWrite, VisitInv, DetailWithin
<1>7. CASE CancelChildren(o) \/ CancelNext(o) \/ RetryChild(o) \/ VerdictClose(o)
  BY <1>7, WithinFrame DEF CancelChildren, CancelNext, RetryChild, VerdictClose, VisitInv
<1>8. CASE RetryRead(o)
  <2>1. LocalsWithin'
    BY <1>0, <1>8, FieldsWithin, WithinFrame DEF RetryRead
  <2> QED BY <1>8, <2>1, WithinFrame DEF RetryRead, VisitInv
<1>9. CASE RetryQueue(o)
  <2>1. CallsWithin'
    BY <1>0, <1>9, NoVisits, CallWithin, WithinFrame DEF RetryQueue
  <2> QED BY <1>9, <2>1, WithinFrame DEF RetryQueue, VisitInv
<1>10. CASE Return(o)
  <2>1. LocalsWithin'
    BY <1>0, <1>10, NoVisits, LocalWithin DEF Return
  <2>2. CallsWithin'
    BY <1>10, NoVisits DEF Return, TypeOK, VisitInv, CallsWithin
  <2> QED BY <1>10, <2>1, <2>2, WithinFrame DEF Return, VisitInv
<1> QED BY <1>1, <1>2, <1>3, <1>4, <1>5, <1>6, <1>7, <1>8, <1>9, <1>10 DEF Request, Serve

LEMMA RecordingWithin ==
  ASSUME TypeOK, Shape, VisitInv, NEW t \in Session \cup Operator, Recording(t)
  PROVE  VisitInv'
<1>1. t \in Thread /\ pc[t] \in AtStep /\ pc[t] \in AtExit /\ loc[t].visit <= MaxVisits
  BY DEF Thread, Recording, ExitLog, ExitRow, AtExit, AtStep, VisitInv, LocalsWithin
<1>2. CASE ExitLog(t)
  <2>1. About(t) \in Session
    BY <1>1, AboutType DEF AtSession
  <2>2. LogWithin'
    BY <1>1, <1>2, <2>1, LogExitedWithin DEF ExitLog
  <2> QED BY <1>2, <2>2, WithinFrame DEF ExitLog, VisitInv
<1>3. CASE ExitRow(t)
  <2>1. LogWithin' /\ DetailWithin'
    BY <1>3, WithinFrame DEF ExitRow
  <2>2. CASE t \in Session
    <3>1. Follow(t, loc[t].step, loc[t].exit, mVisits[t], mAttempts[t])
      BY <1>3, <2>2 DEF ExitRow, About
    <3>2. loc[t].step \in Step /\ loc[t].exit \in Exits[loc[t].step]
      BY <1>1 DEF Shape, StepShape
    <3>3. mVisits[t] \in [Step -> Nat] /\ \A y \in Step : mVisits[t][y] <= MaxVisits
      BY <2>2 DEF TypeOK, Counts, VisitInv, ContextWithin
    <3>4. LoopWithin'
      BY <2>2, <3>1, <3>2, <3>3, FollowWithin
    <3> QED BY <2>1, <3>4 DEF LoopWithin, VisitInv
  <2>3. CASE t \notin Session
    <3>1. CallsWithin'
      BY <1>1, <1>3, <2>3, NoVisits, CallWithin DEF ExitRow
    <3> QED BY <1>3, <2>1, <2>3, <3>1, WithinFrame DEF ExitRow, VisitInv
  <2> QED BY <2>2, <2>3
<1> QED BY <1>2, <1>3 DEF Recording

\* A transition writes the detail it was called with.
LEMMA SharedWithin ==
  ASSUME TypeOK, VisitInv, NEW t \in Thread, Shared(t)
  PROVE  VisitInv'
<1>1. CASE TxCheck(t)
  BY <1>1, WithinFrame DEF TxCheck, VisitInv
<1>2. CASE TxWrite(t)
  <2>1. tx[t].det.visit <= MaxVisits
    BY DEF VisitInv, CallsWithin
  <2>2. \A s \in Session : det'[s].visit <= MaxVisits
    BY <1>2, <2>1 DEF TxWrite, TypeOK, VisitInv, DetailWithin
  <2> QED BY <1>2, <2>2, WithinFrame DEF TxWrite, VisitInv, DetailWithin
<1>3. CASE Settle(t)
  <2> DEFINE c == [who |-> parent[tx[t].who], to |-> "queued", det |-> Plain("resumed"),
                   wake |-> TRUE, then |-> tx[t].then]
  <2>1. tx' = tx \/ tx' = [tx EXCEPT ![t] = c]
    BY <1>3 DEF Settle
  <2>2. c.det.visit <= MaxVisits
    BY NoVisits
  <2> HIDE DEF c
  <2>3. CallsWithin'
    BY <2>1, <2>2 DEF TypeOK, VisitInv, CallsWithin
  <2> QED BY <1>3, <2>3, WithinFrame DEF Settle, VisitInv
<1> QED BY <1>1, <1>2, <1>3 DEF Shared

LEMMA RecoverWithin ==
  ASSUME TypeOK, VisitInv, Recover \/ Crash
  PROVE  VisitInv'
<1>1. CASE Crash \/ RecoverDies
  <2>1. Reboot
    BY <1>1 DEF Crash, RecoverDies
  <2>2. LocalsWithin' /\ CallsWithin'
    BY <2>1, NoVisits DEF Reboot, LocalsWithin, CallsWithin
  <2>3. ContextWithin'
    BY <2>1, NoVisits DEF Reboot, ContextWithin, NoCounts
  <2> QED BY <2>1, <2>2, <2>3, WithinFrame DEF Reboot, VisitInv
<1>2. CASE RecoverDone
  BY <1>2, WithinFrame DEF RecoverDone, VisitInv
<1>3. ASSUME NEW s \in Session, RecoverSession(s)
      PROVE  VisitInv'
  <2>1. CallsWithin'
    BY <1>3, NoVisits, CallWithin DEF RecoverSession, Thread
  <2>2. \A r \in Session : cur'[r].visit = cur[r].visit
    BY <1>3 DEF RecoverSession, TypeOK, Cursor
  <2>3. LogWithin'
    BY <1>3, <2>2 DEF RecoverSession, VisitInv, LogWithin
  <2> QED BY <1>3, <2>1, <2>3, WithinFrame DEF RecoverSession, VisitInv
<1> QED BY <1>1, <1>2, <1>3 DEF Recover

LEMMA VisitStep == Typed /\ VisitInv /\ [Next]_vars => VisitInv'
<1> SUFFICES ASSUME TypeOK, Shape, VisitInv, [Next]_vars PROVE VisitInv'
  BY DEF Typed
<1>1. CASE UNCHANGED vars
  BY <1>1, WithinFrame DEF vars, VisitInv
<1>2. CASE Next
  BY <1>2, RunWithin, ServeWithin, SharedWithin, RecordingWithin, RecoverWithin DEF Next
<1> QED BY <1>1, <1>2

\* No step is entered more often than max_visits allows, in every circuit and
\* however its loops, retries, gates, manual routes, crashes and recoveries
\* follow each other.
THEOREM VisitsBounded == Spec => []VisitBound
<1>1. VisitInv => VisitBound
  BY DEF VisitInv, LogWithin, VisitBound
<1> QED BY TypedInit, TypedStep, VisitInit, VisitStep, <1>1, PTL DEF Spec
===============================================================================
