---------------------------- MODULE IntakeProofs ----------------------------
(***************************************************************************)
(* The queue of tasks: HistoryFits, OneRun and DependenciesHonoured; and   *)
(* the chat: ContextIsCurrent and TurnsGrow.                               *)
(*                                                                         *)
(* Every status write hands what it has read from one statement to the     *)
(* next, so that the invariant speaks of the locals as it does of the      *)
(* rows: a write under way would leave a row that fits, whatever the row   *)
(* has become meanwhile.  A pass does the same with what it has looked up. *)
(***************************************************************************)
EXTENDS MCIntake, SequenceTheorems, FiniteSetTheorems, TLAPS

\* What HistoryFits says of a row.
Fits(n) ==
  IF n.hist = << >> THEN n.status \in {None, "draft", "queued"}
  ELSE n.hist[Len(n.hist)][2] = n.status /\ \A i \in 1 .. Len(n.hist) - 1 : n.hist[i][2] = n.hist[i + 1][1]

Short(hist) == Len(hist) <= KeepHistory

SessionsOK == \A s \in Session : st[s] # "none" \/ pc[s] = "others" => task[s] \in Task

NodesOK == \A t \in Task :
  Fits(node[t]) /\ Short(node[t].hist) /\ (node[t].status = None => node[t].hist = << >>)

\* A write under way: what it has read, and what it will write.
WriteOK(th) ==
  /\ pc[th] \in {"read", "merge", "write"} => loc[th].task \in Task /\ loc[th].then \in {"idle", "run", "task"}
  /\ pc[th] = "read" => loc[th].to \in Status
  /\ pc[th] \in {"merge", "write"} /\ loc[th].to # None =>
       /\ loc[th].hist # << >> \/ loc[th].to \in {"draft", "queued"}
       /\ Fits([status |-> loc[th].to, hist |-> loc[th].hist]) /\ Short(loc[th].hist)
  /\ pc[th] = "write" =>
       /\ Fits(loc[th].old) /\ Short(loc[th].old.hist) /\ loc[th].old.status # None
       /\ node[loc[th].task].status # None

\* The pass has a row to look at, and every row it still has is of a task there is.
PassOK ==
  /\ pc[Pass] \in {"task", "active", "deps", "enqueue"} => todo # << >>
  /\ pc[Pass] \in {"read", "merge", "write"} =>
       /\ loc[Pass].then \in {"idle", "task"}
       /\ loc[Pass].then = "task" => todo # << >>
  /\ \A i \in 1 .. Len(todo) : node[todo[i]].status # None

Typed ==
  /\ node \in [Task -> Node] /\ gone \in SUBSET Task /\ wasDone \in SUBSET Task
  /\ task \in [Session -> Task \cup {None}]
  /\ st \in [Session -> Active \cup {"none", "completed", "cancelled"}]
  /\ begun \in SUBSET Session /\ handed \in SUBSET Session
  /\ pc \in [Thread -> Label] /\ loc \in [Thread -> Locals]
  /\ todo \in Seq(Task)
  /\ calls \in 0 .. MaxCalls /\ crashes \in 0 .. MaxCrash

RowInv == Typed /\ SessionsOK /\ NodesOK /\ (\A th \in Thread : WriteOK(th)) /\ PassOK

LEMMA Parts ==
  /\ Pass \in Thread /\ Session \subseteq Thread /\ Operator \subseteq Thread
  /\ Pass \notin Session /\ Pass \notin Operator
  /\ KeepHistory \in Nat /\ KeepHistory > 0 /\ IsFiniteSet(Task)
  /\ Blockers \in [Task -> SUBSET Task]
BY TaskAssumption DEF Thread

LEMMA NoLocalsType == NoLocals \in Locals /\ NoNode \in Node
<1>1. << >> \in Seq(Status \X Status)
  OBVIOUS
<1>2. NoNode \in Node
  BY <1>1 DEF NoNode, Node
<1> QED BY <1>1, <1>2 DEF NoLocals, Locals, Label

\* A longer history, cut to its last entries, still fits.
LEMMA HistoryFitsOn ==
  ASSUME NEW n \in Node, Fits(n), Short(n.hist), n.status # None, NEW to \in Status
  PROVE  LET h == NewHistory(n, to) IN
           /\ h \in Seq(Status \X Status) /\ Short(h)
           /\ h # << >> \/ to \in {"draft", "queued"}
           /\ Fits([status |-> to, hist |-> h])
<1> DEFINE E == Status \X Status
<1> DEFINE a == Append(n.hist, <<n.status, to>>)
<1> DEFINE m == IF Len(a) > KeepHistory THEN Len(a) - KeepHistory + 1 ELSE 1
<1> DEFINE h == SubSeq(a, m, Len(a))
<1>1. n.hist \in Seq(E) /\ n.status \in Status /\ KeepHistory \in Nat /\ KeepHistory > 0
  BY Parts DEF Node
<1>2. CASE n.status = to
  BY <1>1, <1>2 DEF NewHistory, Fits, Short
<1>3. CASE n.status # to
  <2>1. /\ a \in Seq(E) /\ Len(a) = Len(n.hist) + 1 /\ a[Len(a)] = <<n.status, to>>
        /\ \A i \in 1 .. Len(n.hist) : a[i] = n.hist[i]
    BY <1>1
  <2>0. NewHistory(n, to) = h
    BY <1>3 DEF NewHistory
  <2>4. m \in 1 .. Len(a) /\ Len(a) - m + 1 <= KeepHistory /\ Len(a) \in Nat /\ m \in Nat
    BY <1>1, <2>1
  <2> HIDE DEF a, m
  <2>2. \A i \in 1 .. Len(a) - 1 : a[i][2] = a[i + 1][1]
    <3> SUFFICES ASSUME NEW i \in 1 .. Len(a) - 1 PROVE a[i][2] = a[i + 1][1]
      OBVIOUS
    <3>1. n.hist # << >>
      BY <1>1, <2>1
    <3>2. CASE i = Len(n.hist)
      BY <1>1, <2>1, <3>1, <3>2 DEF Fits
    <3>3. CASE i < Len(n.hist)
      BY <1>1, <2>1, <3>1, <3>3 DEF Fits
    <3> QED BY <1>1, <2>1, <3>2, <3>3
  <2>5. /\ h \in Seq(E) /\ Len(h) = Len(a) - m + 1
        /\ \A i \in 1 .. Len(a) - m + 1 : h[i] = a[m + i - 1]
    <3>1. \A i \in m .. Len(a) : a[i] \in E
      BY <2>1, <2>4
    <3>2. m \in Int /\ Len(a) \in Int /\ m <= Len(a)
      BY <2>4
    <3> QED BY <3>1, <3>2, SubSeqProperties
  <2> HIDE DEF h
  <2>6. h # << >> /\ Short(h)
    BY <2>4, <2>5 DEF Short
  <2>7. h[Len(h)][2] = to /\ Len(h) \in Nat
    <3> DEFINE k == Len(a) - m + 1
    <3>1. k \in 1 .. Len(a) - m + 1 /\ m + k - 1 = Len(a) /\ k \in Nat
      BY <2>4
    <3>2. h[k] = a[m + k - 1] /\ Len(h) = k
      BY <2>5, <3>1
    <3> HIDE DEF k
    <3> QED BY <2>1, <3>1, <3>2
  <2>8. \A i \in 1 .. Len(h) - 1 : h[i][2] = h[i + 1][1]
    <3> SUFFICES ASSUME NEW i \in 1 .. Len(h) - 1 PROVE h[i][2] = h[i + 1][1]
      OBVIOUS
    <3>1. h[i] = a[m + i - 1] /\ h[i + 1] = a[(m + i - 1) + 1] /\ m + i - 1 \in 1 .. Len(a) - 1
      BY <2>4, <2>5, <2>7
    <3> QED BY <3>1, <2>2
  <2>9. Fits([status |-> to, hist |-> h])
    BY <2>6, <2>7, <2>8 DEF Fits
  <2> QED BY <2>0, <2>5, <2>6, <2>9
<1> QED BY <1>2, <1>3

-----------------------------------------------------------------------------
(***************************************************************************)
(* What the actions have in common.                                        *)
(***************************************************************************)
\* Tasks are never unmade.
Kept == \A t \in Task : node[t].status # None => node'[t].status # None

LEMMA RowTypes ==
  ASSUME Typed, NEW t \in Task
  PROVE  /\ node[t] \in Node /\ node[t].status \in Status \cup {None}
         /\ node[t].hist \in Seq(Status \X Status)
BY DEF Typed, Node

LEMMA LocTypes ==
  ASSUME Typed, NEW th \in Thread
  PROVE  /\ loc[th] \in Locals /\ loc[th].task \in Task \cup {None} /\ loc[th].to \in Status \cup {None}
         /\ loc[th].old \in Node /\ loc[th].then \in Label /\ loc[th].hist \in Seq(Status \X Status)
         /\ pc[th] \in Label
BY DEF Typed, Locals

\* The others' writes go on undisturbed: what they have read is theirs.
LEMMA OthersWrite ==
  ASSUME Kept, NEW x \in Thread, WriteOK(x), pc'[x] = pc[x], loc'[x] = loc[x]
  PROVE  WriteOK(x)'
BY TaskAssumption DEF WriteOK, Kept

\* A write that begins.
LEMMA Begins ==
  ASSUME Typed, NEW th \in Thread, NEW t \in Task, NEW to \in Status, NEW then \in {"idle", "run", "task"},
         SetStatus(th, t, to, then)
  PROVE  /\ pc' \in [Thread -> Label] /\ loc' \in [Thread -> Locals]
         /\ \A x \in Thread \ {th} : pc'[x] = pc[x] /\ loc'[x] = loc[x]
         /\ WriteOK(th)'
         /\ pc'[th] = "read" /\ loc'[th].then = then
<1> DEFINE l == [NoLocals EXCEPT !.task = t, !.to = to, !.then = then]
<1>1. l \in Locals /\ l.task = t /\ l.to = to /\ l.then = then
  BY NoLocalsType DEF NoLocals, Locals, Label
<1>2. /\ pc' \in [Thread -> Label] /\ pc'[th] = "read"
      /\ \A x \in Thread \ {th} : pc'[x] = pc[x]
  BY DEF SetStatus, Goto, Typed, Label
<1>3. /\ loc' \in [Thread -> Locals] /\ loc'[th] = l
      /\ \A x \in Thread \ {th} : loc'[x] = loc[x]
  BY <1>1 DEF SetStatus, Typed
<1> HIDE DEF l
<1> QED BY <1>1, <1>2, <1>3 DEF WriteOK

LEMMA BeginsTouch ==
  ASSUME Typed, NEW th \in Thread, NEW t \in Task, NEW then \in {"idle", "run", "task"}, Touch(th, t, then)
  PROVE  /\ pc' \in [Thread -> Label] /\ loc' \in [Thread -> Locals]
         /\ \A x \in Thread \ {th} : pc'[x] = pc[x] /\ loc'[x] = loc[x]
         /\ WriteOK(th)'
         /\ pc'[th] = "merge" /\ loc'[th].then = then
<1> DEFINE l == [NoLocals EXCEPT !.task = t, !.then = then]
<1>1. l \in Locals /\ l.task = t /\ l.to = None /\ l.then = then
  BY NoLocalsType DEF NoLocals, Locals, Label
<1>2. /\ pc' \in [Thread -> Label] /\ pc'[th] = "merge"
      /\ \A x \in Thread \ {th} : pc'[x] = pc[x]
  BY DEF Touch, Goto, Typed, Label
<1>3. /\ loc' \in [Thread -> Locals] /\ loc'[th] = l
      /\ \A x \in Thread \ {th} : loc'[x] = loc[x]
  BY <1>1 DEF Touch, Typed
<1> HIDE DEF l
<1> QED BY <1>1, <1>2, <1>3 DEF WriteOK

\* A write that ends.
LEMMA Ends ==
  ASSUME Typed, NEW th \in Thread, loc[th].then \in {"idle", "run", "task"}, Ended(th)
  PROVE  /\ pc' \in [Thread -> Label] /\ loc' \in [Thread -> Locals]
         /\ \A x \in Thread \ {th} : pc'[x] = pc[x] /\ loc'[x] = loc[x]
         /\ WriteOK(th)'
         /\ pc'[th] = loc[th].then
<1>1. /\ pc' \in [Thread -> Label] /\ pc'[th] = loc[th].then
      /\ \A x \in Thread \ {th} : pc'[x] = pc[x]
  BY DEF Ended, Goto, Typed, Label
<1>2. /\ loc' \in [Thread -> Locals]
      /\ \A x \in Thread \ {th} : loc'[x] = loc[x]
  BY NoLocalsType DEF Ended, Typed
<1> QED BY <1>1, <1>2 DEF WriteOK

\* A step of a thread that is not the pass, which leaves the rows as they are.
LEMMA Elsewhere ==
  ASSUME RowInv, Typed', SessionsOK', UNCHANGED <<node, todo>>,
         NEW th \in Thread, th # Pass, WriteOK(th)',
         \A x \in Thread \ {th} : pc'[x] = pc[x] /\ loc'[x] = loc[x]
  PROVE  RowInv'
<1>1. NodesOK'
  BY DEF RowInv, NodesOK, Fits, Short
<1>2. \A x \in Thread : WriteOK(x)'
  BY OthersWrite DEF RowInv, Kept
<1>3. PassOK'
  BY Parts DEF RowInv, PassOK
<1> QED BY <1>1, <1>2, <1>3 DEF RowInv

-----------------------------------------------------------------------------
(***************************************************************************)
(* Operators and sessions.                                                 *)
(***************************************************************************)
LEMMA OnTaskKeeps ==
  ASSUME RowInv, NEW o \in Operator, NEW t \in Task, Accept(o, t) \/ Reject(o, t) \/ Promote(o, t)
  PROVE  RowInv'
<1>1. Typed /\ o \in Thread /\ o # Pass /\ calls' \in 0 .. MaxCalls
  BY Parts, TaskAssumption DEF RowInv, Typed, Accept, Reject, Promote, Call
<1>2. PICK x \in {"queued", "rejected", None} :
        IF x = None THEN Touch(o, t, "idle") ELSE SetStatus(o, t, x, "idle")
  BY TaskAssumption DEF Accept, Reject, Promote, Status
<1>3. /\ pc' \in [Thread -> Label] /\ loc' \in [Thread -> Locals] /\ WriteOK(o)'
      /\ \A y \in Thread \ {o} : pc'[y] = pc[y] /\ loc'[y] = loc[y]
  <2>1. CASE x = None
    BY <1>1, <1>2, <2>1, BeginsTouch
  <2>2. CASE x # None
    BY <1>1, <1>2, <2>2, Begins, TaskAssumption DEF Status
  <2> QED BY <2>1, <2>2
<1>4. UNCHANGED <<rows, sessions, todo, crashes>>
  BY DEF Accept, Reject, Promote
<1>5. Typed' /\ SessionsOK'
  BY <1>1, <1>3, <1>4, Parts, TaskAssumption DEF RowInv, Typed, SessionsOK, rows, sessions
<1> QED BY <1>1, <1>3, <1>4, <1>5, Elsewhere DEF rows

LEMMA CreateKeeps ==
  ASSUME RowInv, NEW o \in Operator, NEW t \in Task, Create(o, t)
  PROVE  RowInv'
<1>1. Typed /\ o \in Thread /\ o # Pass /\ calls' \in 0 .. MaxCalls
  BY Parts, TaskAssumption DEF RowInv, Typed, Create, Call
<1>2. PICK x \in {"draft", "queued"} : node' = [node EXCEPT ![t].status = x]
  BY DEF Create
<1>3. /\ pc' \in [Thread -> Label] /\ loc' \in [Thread -> Locals] /\ WriteOK(o)'
      /\ \A y \in Thread \ {o} : pc'[y] = pc[y] /\ loc'[y] = loc[y]
  <2>1. CASE Touch(o, t, "idle")
    BY <1>1, <2>1, BeginsTouch
  <2>2. CASE UNCHANGED <<pc, loc>>
    BY <1>1, <2>2 DEF Typed, Create, Call, WriteOK
  <2> QED BY <2>1, <2>2 DEF Create
<1>4. UNCHANGED <<gone, wasDone, sessions, todo, crashes>> /\ node[t].status = None
  BY DEF Create
<1>5. /\ node' \in [Task -> Node] /\ node'[t].status = x /\ node'[t].hist = << >>
      /\ \A u \in Task \ {t} : node'[u] = node[u]
  <2>1. node[t] \in Node /\ node[t].hist = << >>
    BY <1>1, <1>4, RowTypes DEF RowInv, NodesOK
  <2>2. [node[t] EXCEPT !.status = x] \in Node /\ [node[t] EXCEPT !.status = x].hist = << >>
    BY <2>1 DEF Node, Status
  <2> QED BY <1>1, <1>2, <2>1, <2>2 DEF Typed, Node
<1>6. Typed' /\ SessionsOK'
  BY <1>1, <1>3, <1>4, <1>5, Parts, TaskAssumption DEF RowInv, Typed, SessionsOK, sessions
<1>7. Kept
  BY <1>4, <1>5 DEF Kept
<1>8. NodesOK'
  BY <1>4, <1>5, Parts, TaskAssumption DEF RowInv, NodesOK, Fits, Short
<1>9. \A y \in Thread : WriteOK(y)'
  BY <1>3, <1>7, OthersWrite DEF RowInv
<1>10. PassOK'
  BY <1>1, <1>3, <1>4, <1>7, Parts DEF RowInv, PassOK, Kept, Typed
<1> QED BY <1>6, <1>8, <1>9, <1>10 DEF RowInv

LEMMA DeleteKeeps ==
  ASSUME RowInv, NEW t \in Task, (\E o \in Operator : Discard(o, t)) \/ Archive(t)
  PROVE  RowInv'
<1>1. /\ UNCHANGED <<node, sessions, pc, loc, todo, crashes>> /\ calls' \in 0 .. MaxCalls
      /\ gone' = gone \cup {t} /\ wasDone' = wasDone \cup {t}
  BY TaskAssumption DEF RowInv, Typed, Discard, Archive, Call, SoftDelete, bounds
<1>2. Typed' /\ SessionsOK' /\ NodesOK' /\ PassOK'
  BY <1>1 DEF RowInv, Typed, SessionsOK, NodesOK, PassOK, Fits, Short, sessions
<1>3. \A x \in Thread : WriteOK(x)'
  BY <1>1, OthersWrite DEF RowInv, Kept
<1> QED BY <1>2, <1>3 DEF RowInv

LEMMA OnSessionKeeps ==
  ASSUME RowInv, NEW o \in Operator, NEW s \in Session, OnSession(o, s)
  PROVE  RowInv'
<1>1. Typed /\ o \in Thread /\ o # Pass /\ calls' \in 0 .. MaxCalls
  BY Parts, TaskAssumption DEF RowInv, Typed, OnSession, Verdict, Retry, Cancel, Call
<1>2. /\ st[s] # "none" /\ task[s] \in Task
      /\ UNCHANGED <<rows, task, begun, handed, todo, crashes>>
      /\ \E x \in {"queued", "cancelled"} : st' = [st EXCEPT ![s] = x]
  BY DEF RowInv, SessionsOK, OnSession, Verdict, Retry, Cancel, Active
<1>3. /\ pc' \in [Thread -> Label] /\ loc' \in [Thread -> Locals] /\ WriteOK(o)'
      /\ \A y \in Thread \ {o} : pc'[y] = pc[y] /\ loc'[y] = loc[y]
  <2>1. CASE Verdict(o, s)
    BY <1>1, <1>2, <2>1, Begins DEF Verdict, Status
  <2>2. CASE Retry(o, s)
    BY <1>1, <2>2 DEF Typed, Retry, WriteOK, Call
  <2>3. CASE Cancel(o, s)
    BY <1>1, <1>2, <2>3, BeginsTouch DEF Cancel
  <2> QED BY <2>1, <2>2, <2>3 DEF OnSession
<1>4. Typed' /\ SessionsOK'
  BY <1>1, <1>2, <1>3, Parts, TaskAssumption DEF RowInv, Typed, SessionsOK, rows, Active
<1> QED BY <1>1, <1>2, <1>3, <1>4, Elsewhere DEF rows

LEMMA RunKeeps ==
  ASSUME RowInv, NEW s \in Session, Run(s)
  PROVE  RowInv'
<1>1. Typed /\ s \in Thread /\ s # Pass
  BY Parts DEF RowInv
<1>2. /\ UNCHANGED <<rows, task, todo, bounds>>
      /\ begun' \in SUBSET Session /\ handed' \in SUBSET Session
      /\ st' \in [Session -> Active \cup {"none", "completed", "cancelled"}]
      /\ \A r \in Session : st'[r] # "none" => st[r] # "none"
  BY <1>1 DEF Run, Admit, Hand, Park, Fail, Complete, CloseTask, Stop, sessions, Typed, Active
<1>3. /\ pc' \in [Thread -> Label] /\ loc' \in [Thread -> Locals] /\ WriteOK(s)'
      /\ \A y \in Thread \ {s} : pc'[y] = pc[y] /\ loc'[y] = loc[y]
  <2>1. CASE \E to \in Status, then \in {"idle", "run", "task"} :
               (st[s] # "none" \/ pc[s] = "others") /\ SetStatus(s, task[s], to, then)
    BY <1>1, <2>1, Begins DEF RowInv, SessionsOK
  <2>2. CASE UNCHANGED loc /\ \E label \in {"run", "idle", "others"} : Goto(s, label)
    BY <1>1, <2>2 DEF Typed, Goto, WriteOK, Label
  <2>3. CASE Admit(s)
    BY <2>1, <2>2, <2>3 DEF Admit, Status
  <2>4. CASE Hand(s) \/ Park(s)
    BY <2>1, <2>4 DEF Hand, Park, Status
  <2>5. CASE Fail(s) \/ Complete(s) \/ Stop(s)
    BY <2>2, <2>5 DEF Fail, Complete, Stop
  <2>6. CASE CloseTask(s)
    BY <2>1, <2>2, <2>6 DEF CloseTask, Status
  <2> QED BY <2>3, <2>4, <2>5, <2>6 DEF Run
<1>5. pc'[s] = "others" => st[s] # "none"
  <2>1. CASE Complete(s)
    BY <2>1 DEF Complete
  <2>2. CASE Run(s) /\ ~Complete(s)
    <3>1. \E label \in {"read", "run", "idle"} : Goto(s, label)
      BY <2>2 DEF Run, Admit, Hand, Park, Fail, CloseTask, Stop, SetStatus
    <3> QED BY <1>1, <3>1 DEF Goto, Typed
  <2> QED BY <2>1, <2>2
<1>4. Typed' /\ SessionsOK'
  <2>1. Typed'
    BY <1>1, <1>2, <1>3 DEF Typed, rows, bounds
  <2>2. \A r \in Session \ {s} : pc'[r] = pc[r]
    BY <1>3, Parts
  <2>3. SessionsOK'
    BY <1>2, <1>5, <2>2 DEF RowInv, SessionsOK
  <2> QED BY <2>1, <2>3
<1> QED BY <1>1, <1>2, <1>3, <1>4, Elsewhere DEF rows

-----------------------------------------------------------------------------
(***************************************************************************)
(* Writes.                                                                 *)
(***************************************************************************)
\* A write that gives up, or is through: the thread goes on.
LEMMA WriteEnds ==
  ASSUME RowInv, NEW th \in Thread, pc[th] \in {"read", "merge", "write"}, Ended(th)
  PROVE  /\ pc' \in [Thread -> Label] /\ loc' \in [Thread -> Locals]
         /\ \A x \in Thread \ {th} : pc'[x] = pc[x] /\ loc'[x] = loc[x]
         /\ WriteOK(th)' /\ pc'[th] \in {"idle", "run", "task"}
         /\ th = Pass => pc'[th] \in {"idle", "task"} /\ (pc'[th] = "task" => todo # << >>)
<1>1. Typed /\ loc[th].then \in {"idle", "run", "task"}
  BY DEF RowInv, WriteOK
<1>2. th = Pass => loc[th].then \in {"idle", "task"} /\ (loc[th].then = "task" => todo # << >>)
  BY DEF RowInv, PassOK
<1> QED BY <1>1, <1>2, Ends

\* A statement of a write that leaves the rows as they are.
LEMMA ReadsOn ==
  ASSUME RowInv, NEW th \in Thread, pc[th] \in {"read", "merge", "write"},
         UNCHANGED <<rows, sessions, todo, bounds>>,
         pc' \in [Thread -> Label], loc' \in [Thread -> Locals],
         \A x \in Thread \ {th} : pc'[x] = pc[x] /\ loc'[x] = loc[x],
         WriteOK(th)', pc'[th] \in {"merge", "write"} => loc'[th].then = loc[th].then,
         pc'[th] \in {"merge", "write", "idle", "run", "task"},
         th = Pass /\ pc'[th] \in {"idle", "run", "task"} =>
           pc'[th] \in {"idle", "task"} /\ (pc'[th] = "task" => todo # << >>)
  PROVE  RowInv'
<1>1. Typed' /\ SessionsOK'
  BY Parts DEF RowInv, Typed, SessionsOK, rows, sessions, bounds
<1>2. NodesOK'
  BY DEF RowInv, NodesOK, Fits, Short, rows
<1>3. \A x \in Thread : WriteOK(x)'
  BY OthersWrite DEF RowInv, Kept, rows
<1>4. PassOK'
  <2>1. \A i \in 1 .. Len(todo') : node'[todo'[i]].status # None
    BY DEF RowInv, PassOK, rows
  <2>2. CASE th # Pass
    BY <2>1, <2>2, Parts DEF RowInv, PassOK, rows
  <2>3. CASE th = Pass
    BY <2>1, <2>3 DEF RowInv, PassOK, rows
  <2> QED BY <2>2, <2>3
<1> QED BY <1>1, <1>2, <1>3, <1>4 DEF RowInv

LEMMA ReadStatusKeeps ==
  ASSUME RowInv, NEW th \in Thread, ReadStatus(th)
  PROVE  RowInv'
<1> DEFINE t == loc[th].task
<1>1. Typed /\ pc[th] = "read" /\ t \in Task /\ loc[th].to \in Status
      /\ loc[th].then \in {"idle", "run", "task"}
  BY DEF RowInv, WriteOK, ReadStatus
<1>2. UNCHANGED <<rows, sessions, todo, bounds>>
  BY DEF ReadStatus
<1>3. CASE Exists(t)
  <2> DEFINE h == NewHistory(node[t], loc[th].to)
  <2>1. /\ node[t] \in Node /\ Fits(node[t]) /\ Short(node[t].hist) /\ node[t].status # None
    BY <1>1, <1>3, RowTypes DEF RowInv, NodesOK, Exists
  <2>2. /\ h \in Seq(Status \X Status) /\ Short(h)
        /\ h # << >> \/ loc[th].to \in {"draft", "queued"}
        /\ Fits([status |-> loc[th].to, hist |-> h])
    BY <1>1, <2>1, HistoryFitsOn
  <2>3. pc' = [pc EXCEPT ![th] = "merge"] /\ loc' = [loc EXCEPT ![th].hist = h]
    BY <1>3 DEF ReadStatus, Goto
  <2> HIDE DEF h
  <2>4. [loc[th] EXCEPT !.hist = h] \in Locals
    BY <1>1, <2>2, LocTypes DEF Locals
  <2>5. /\ pc' \in [Thread -> Label] /\ loc' \in [Thread -> Locals]
        /\ \A x \in Thread \ {th} : pc'[x] = pc[x] /\ loc'[x] = loc[x]
        /\ pc'[th] = "merge" /\ loc'[th] = [loc[th] EXCEPT !.hist = h]
    BY <1>1, <2>3, <2>4 DEF Typed, Label
  <2>6. loc'[th].hist = h /\ loc'[th].to = loc[th].to /\ loc'[th].task = t /\ loc'[th].then = loc[th].then
    BY <1>1, <2>5, LocTypes DEF Locals
  <2>7. WriteOK(th)'
    BY <1>1, <2>2, <2>5, <2>6 DEF WriteOK
  <2> QED BY <1>1, <1>2, <2>5, <2>6, <2>7, ReadsOn
<1>4. CASE ~Exists(t)
  <2>1. Ended(th)
    BY <1>4 DEF ReadStatus
  <2> QED BY <1>1, <1>2, <2>1, WriteEnds, ReadsOn
<1> QED BY <1>3, <1>4

LEMMA ReadNodeKeeps ==
  ASSUME RowInv, NEW th \in Thread, ReadNode(th)
  PROVE  RowInv'
<1> DEFINE t == loc[th].task
<1>1. Typed /\ pc[th] = "merge" /\ t \in Task /\ loc[th].then \in {"idle", "run", "task"}
  BY DEF RowInv, WriteOK, ReadNode
<1>2. UNCHANGED <<rows, sessions, todo, bounds>>
  BY DEF ReadNode
<1>3. CASE Exists(t)
  <2>1. /\ node[t] \in Node /\ Fits(node[t]) /\ Short(node[t].hist) /\ node[t].status # None
    BY <1>1, <1>3, RowTypes DEF RowInv, NodesOK, Exists
  <2>2. pc' = [pc EXCEPT ![th] = "write"] /\ loc' = [loc EXCEPT ![th].old = node[t]]
    BY <1>3 DEF ReadNode, Goto
  <2>3. [loc[th] EXCEPT !.old = node[t]] \in Locals
    BY <1>1, <2>1, LocTypes DEF Locals
  <2>4. /\ pc' \in [Thread -> Label] /\ loc' \in [Thread -> Locals]
        /\ \A x \in Thread \ {th} : pc'[x] = pc[x] /\ loc'[x] = loc[x]
        /\ pc'[th] = "write" /\ loc'[th] = [loc[th] EXCEPT !.old = node[t]]
    BY <1>1, <2>2, <2>3 DEF Typed, Label
  <2>5. /\ loc'[th].hist = loc[th].hist /\ loc'[th].to = loc[th].to /\ loc'[th].task = t
        /\ loc'[th].then = loc[th].then /\ loc'[th].old = node[t]
    BY <1>1, <2>4, LocTypes DEF Locals
  <2>6. node' = node
    BY <1>2 DEF rows
  <2>7. WriteOK(th)'
    BY <1>1, <2>1, <2>4, <2>5, <2>6 DEF RowInv, WriteOK
  <2> QED BY <1>1, <1>2, <2>4, <2>5, <2>7, ReadsOn
<1>4. CASE ~Exists(t)
  <2>1. Ended(th)
    BY <1>4 DEF ReadNode
  <2> QED BY <1>1, <1>2, <2>1, WriteEnds, ReadsOn
<1> QED BY <1>3, <1>4

LEMMA WriteNodeKeeps ==
  ASSUME RowInv, NEW th \in Thread, WriteNode(th)
  PROVE  RowInv'
<1> DEFINE l == loc[th]
<1> DEFINE n == Merged(l.old, l.to, l.hist)
<1>1. Typed /\ pc[th] = "write" /\ l.task \in Task /\ Ended(th)
      /\ UNCHANGED <<gone, sessions, todo, bounds>>
  BY DEF RowInv, WriteOK, WriteNode
<1>2. n \in Node /\ n.status # None /\ Fits(n) /\ Short(n.hist)
  <2>1. CASE l.to = None
    BY <1>1, <2>1, LocTypes DEF RowInv, WriteOK, Merged
  <2>2. CASE l.to # None
    BY <1>1, <2>2, LocTypes, TaskAssumption DEF RowInv, WriteOK, Merged, Node
  <2> QED BY <2>1, <2>2
<1>3. /\ node' \in [Task -> Node] /\ node'[l.task] = n
      /\ \A u \in Task \ {l.task} : node'[u] = node[u]
      /\ wasDone' \in SUBSET Task
  BY <1>1, <1>2 DEF WriteNode, Typed
<1> HIDE DEF n
<1>4. Kept
  BY <1>2, <1>3 DEF Kept
<1>5. /\ pc' \in [Thread -> Label] /\ loc' \in [Thread -> Locals]
      /\ \A x \in Thread \ {th} : pc'[x] = pc[x] /\ loc'[x] = loc[x]
      /\ WriteOK(th)' /\ pc'[th] \in {"idle", "run", "task"}
      /\ th = Pass => pc'[th] \in {"idle", "task"} /\ (pc'[th] = "task" => todo # << >>)
  BY <1>1, WriteEnds
<1>6. Typed' /\ SessionsOK'
  <2>1. Typed'
    BY <1>1, <1>3, <1>5 DEF Typed, sessions, bounds
  <2>2. \A s \in Session : pc'[s] = "others" => pc[s] = "others"
    BY <1>5, Parts
  <2>3. SessionsOK'
    BY <1>1, <2>2 DEF RowInv, SessionsOK, sessions
  <2> QED BY <2>1, <2>3
<1>7. NodesOK'
  <2> SUFFICES ASSUME NEW u \in Task
               PROVE  /\ Fits(node[u])' /\ Short(node[u].hist)'
                      /\ node'[u].status = None => node'[u].hist = << >>
    BY DEF NodesOK
  <2>1. CASE u = l.task
    BY <1>2, <1>3, <2>1 DEF Fits, Short
  <2>2. CASE u # l.task
    <3>1. node'[u] = node[u]
      BY <1>3, <2>2
    <3>2. Fits(node[u]) /\ Short(node[u].hist) /\ (node[u].status = None => node[u].hist = << >>)
      BY DEF RowInv, NodesOK
    <3> QED BY <3>1, <3>2 DEF Fits, Short
  <2> QED BY <2>1, <2>2
<1>8. \A x \in Thread : WriteOK(x)'
  BY <1>4, <1>5, OthersWrite DEF RowInv
<1>9. PassOK'
  <2>1. todo' = todo /\ \A i \in 1 .. Len(todo) : todo[i] \in Task
    BY <1>1 DEF Typed
  <2>2. \A i \in 1 .. Len(todo') : node'[todo'[i]].status # None
    BY <1>4, <2>1 DEF RowInv, PassOK, Kept
  <2>3. CASE th # Pass
    BY <2>1, <2>2, <2>3, <1>5, Parts DEF RowInv, PassOK
  <2>4. CASE th = Pass
    BY <2>1, <2>2, <2>4, <1>5 DEF RowInv, PassOK
  <2> QED BY <2>3, <2>4
<1> QED BY <1>6, <1>7, <1>8, <1>9 DEF RowInv

-----------------------------------------------------------------------------
(***************************************************************************)
(* The pass, and a crash.                                                  *)
(***************************************************************************)
\* A step of the pass that leaves the rows and its own write as they are.
LEMMA PassGoesOn ==
  ASSUME RowInv, UNCHANGED <<rows, begun, handed, loc, crashes>>, calls' \in 0 .. MaxCalls,
         task' \in [Session -> Task \cup {None}],
         st' \in [Session -> Active \cup {"none", "completed", "cancelled"}],
         SessionsOK',
         NEW label \in {"idle", "task", "active", "deps", "enqueue"}, Goto(Pass, label),
         todo' \in Seq(Task), \A i \in 1 .. Len(todo') : node[todo'[i]].status # None,
         label # "idle" => todo' # << >>
  PROVE  RowInv'
<1>1. /\ pc' \in [Thread -> Label] /\ pc'[Pass] = label
      /\ \A x \in Thread \ {Pass} : pc'[x] = pc[x] /\ loc'[x] = loc[x]
  BY Parts DEF RowInv, Typed, Goto, Label
<1>2. Typed'
  BY <1>1 DEF RowInv, Typed, rows
<1>3. NodesOK'
  BY DEF RowInv, NodesOK, Fits, Short, rows
<1>4. \A x \in Thread : WriteOK(x)'
  <2>1. WriteOK(Pass)'
    BY <1>1 DEF WriteOK
  <2> QED BY <1>1, <2>1, OthersWrite DEF RowInv, Kept, rows
<1>5. PassOK'
  BY <1>1 DEF PassOK, rows
<1> QED BY <1>2, <1>3, <1>4, <1>5 DEF RowInv

\* What is left of the rows after the first.
LEMMA TailFits ==
  ASSUME RowInv, todo # << >>
  PROVE  /\ Head(todo) \in Task /\ node[Head(todo)].status # None
         /\ Tail(todo) \in Seq(Task) /\ \A i \in 1 .. Len(Tail(todo)) : node[Tail(todo)[i]].status # None
         /\ Next1 \in {"idle", "task"} /\ (Next1 = "task" => Tail(todo) # << >>)
<1>1. todo \in Seq(Task) /\ Len(todo) \in Nat /\ Len(todo) > 0
  BY DEF RowInv, Typed
<1>2. \A i \in 1 .. Len(todo) : node[todo[i]].status # None
  BY DEF RowInv, PassOK
<1>3. Head(todo) = todo[1] /\ todo[1] \in Task
  BY <1>1
<1>4. /\ Tail(todo) \in Seq(Task) /\ Len(Tail(todo)) = Len(todo) - 1
      /\ \A i \in 1 .. Len(todo) - 1 : Tail(todo)[i] = todo[i + 1]
  BY <1>1
<1>5. \A i \in 1 .. Len(Tail(todo)) : node[Tail(todo)[i]].status # None
  <2> SUFFICES ASSUME NEW i \in 1 .. Len(todo) - 1 PROVE node[todo[i + 1]].status # None
    BY <1>4
  <2>1. i + 1 \in 1 .. Len(todo)
    BY <1>1
  <2> QED BY <1>2, <2>1
<1>6. Len(todo) > 1 => Tail(todo) # << >>
  <2>1. \A q : q = << >> => Len(q) = 0
    OBVIOUS
  <2>2. Tail(todo) = << >> => Len(Tail(todo)) = 0
    BY <2>1, Zenon
  <2> HIDE <2>1
  <2>3. Len(todo) > 1 => Len(Tail(todo)) # 0
    BY <1>1, <1>4
  <2> QED BY <2>2, <2>3, Zenon
<1>7. Next1 \in {"idle", "task"} /\ (Next1 = "task" => Len(todo) > 1)
  BY DEF Next1
<1>8. 1 \in 1 .. Len(todo)
  BY <1>1
<1>9. node[Head(todo)].status # None
  BY <1>2, <1>3, <1>8
<1> QED BY <1>3, <1>4, <1>5, <1>6, <1>7, <1>9

LEMMA StartKeeps == ASSUME RowInv, StartPass PROVE RowInv'
<1>1. Queued \subseteq Task /\ IsFiniteSet(Queued) /\ Cardinality(Queued) \in Nat /\ Cardinality(Queued) # 0
  <2>1. Queued \subseteq Task /\ Queued # {}
    BY DEF Queued, StartPass
  <2>2. IsFiniteSet(Queued)
    BY <2>1, Parts, FS_Subset
  <2> QED BY <2>1, <2>2, FS_CardinalityType, FS_EmptySet
<1>2. todo' \in [1 .. Cardinality(Queued) -> Queued]
  BY DEF StartPass, SetToSeqs
<1>3. todo' \in Seq(Task) /\ Len(todo') = Cardinality(Queued) /\ todo' # << >>
  BY <1>1, <1>2
<1>4. \A i \in 1 .. Len(todo') : node[todo'[i]].status # None
  BY <1>2, <1>3, TaskAssumption DEF Queued, Exists
<1>5. SessionsOK' /\ UNCHANGED <<rows, sessions, loc, bounds>> /\ Goto(Pass, "task")
  <2>1. UNCHANGED <<rows, sessions, loc, bounds>> /\ Goto(Pass, "task")
    BY DEF StartPass
  <2>2. \A s \in Session : pc'[s] = pc[s]
    BY <2>1, Parts DEF Goto, RowInv, Typed
  <2> QED BY <2>1, <2>2 DEF RowInv, SessionsOK, sessions
<1>6. Typed
  BY DEF RowInv
<1> QED BY <1>3, <1>4, <1>5, <1>6, PassGoesOn DEF Typed, sessions, bounds

LEMMA LooksKeep ==
  ASSUME RowInv, ReadTask \/ CheckActive \/ CheckDeps \/ EnqueueFails
  PROVE  RowInv'
<1>1. /\ UNCHANGED <<rows, sessions, loc, crashes>> /\ calls' \in 0 .. MaxCalls /\ Typed
  BY TaskAssumption DEF RowInv, Typed, ReadTask, CheckActive, CheckDeps, EnqueueFails, bounds
<1>2. todo # << >> /\ todo \in Seq(Task) /\ \A i \in 1 .. Len(todo) : node[todo[i]].status # None
  BY DEF RowInv, Typed, PassOK, ReadTask, CheckActive, CheckDeps, EnqueueFails
<1>3. \/ UNCHANGED todo /\ \E label \in {"active", "deps", "enqueue"} : Goto(Pass, label)
      \/ Skip
  BY DEF ReadTask, CheckActive, CheckDeps, EnqueueFails
<1>4. SessionsOK'
  <2>1. \A s \in Session : pc'[s] = pc[s]
    BY <1>1, <1>3, Parts DEF Goto, Skip, Typed
  <2> QED BY <1>1, <2>1 DEF RowInv, SessionsOK, sessions
<1>5. CASE UNCHANGED todo /\ \E label \in {"active", "deps", "enqueue"} : Goto(Pass, label)
  BY <1>1, <1>2, <1>4, <1>5, PassGoesOn DEF Typed, sessions
<1>6. CASE Skip
  BY <1>1, <1>2, <1>4, <1>6, TailFits, PassGoesOn DEF Typed, sessions, Skip
<1> QED BY <1>3, <1>5, <1>6

LEMMA EnqueueKeeps == ASSUME RowInv, Enqueue PROVE RowInv'
<1> DEFINE t == Head(todo)
<1>1. todo # << >> /\ Typed /\ UNCHANGED <<rows, begun, handed, bounds>>
  BY DEF RowInv, PassOK, Enqueue
<1>2. /\ t \in Task /\ node[t].status # None /\ todo' = Tail(todo) /\ todo' \in Seq(Task)
      /\ \A i \in 1 .. Len(todo') : node[todo'[i]].status # None
      /\ Next1 \in {"idle", "task"} /\ (Next1 = "task" => todo' # << >>)
  BY <1>1, TailFits DEF Enqueue
<1>3. PICK s \in Session : st[s] = "none" /\ st' = [st EXCEPT ![s] = "queued"] /\ task' = [task EXCEPT ![s] = t]
  BY DEF Enqueue
<1>4. /\ task' \in [Session -> Task \cup {None}]
      /\ st' \in [Session -> Active \cup {"none", "completed", "cancelled"}]
      /\ task'[s] \in Task /\ \A r \in Session \ {s} : task'[r] = task[r] /\ st'[r] = st[r]
  BY <1>1, <1>2, <1>3 DEF Typed, Active
<1>5. CASE t \in Targeted
  <2>1. Goto(Pass, Next1) /\ UNCHANGED loc
    BY <1>5 DEF Enqueue
  <2>2. \A r \in Session : pc'[r] = pc[r]
    BY <1>1, <2>1, Parts DEF Goto, Typed
  <2>3. SessionsOK'
    BY <1>4, <2>2 DEF RowInv, SessionsOK
  <2>4. UNCHANGED <<rows, begun, handed, loc, crashes>> /\ calls' \in 0 .. MaxCalls
    BY <1>1, <2>1 DEF Typed, bounds
  <2> QED BY <1>2, <1>4, <2>1, <2>3, <2>4, PassGoesOn
<1>6. CASE t \notin Targeted
  <2>1. SetStatus(Pass, t, "triaging", Next1)
    BY <1>6 DEF Enqueue
  <2>2. /\ pc' \in [Thread -> Label] /\ loc' \in [Thread -> Locals]
        /\ \A x \in Thread \ {Pass} : pc'[x] = pc[x] /\ loc'[x] = loc[x]
        /\ WriteOK(Pass)' /\ pc'[Pass] = "read" /\ loc'[Pass].then = Next1
    BY <1>1, <1>2, <2>1, Parts, Begins DEF Status
  <2>3. Typed'
    BY <1>1, <1>2, <1>4, <2>2 DEF Typed, rows, bounds
  <2>4. SessionsOK'
    BY <1>4, <2>2, Parts DEF RowInv, SessionsOK
  <2>5. NodesOK'
    BY <1>1 DEF RowInv, NodesOK, Fits, Short, rows
  <2>6. \A x \in Thread : WriteOK(x)'
    BY <1>1, <2>2, OthersWrite DEF RowInv, Kept, rows
  <2>7. PassOK'
    BY <1>1, <1>2, <2>2 DEF PassOK, rows
  <2> QED BY <2>3, <2>4, <2>5, <2>6, <2>7 DEF RowInv
<1> QED BY <1>5, <1>6

LEMMA CrashKeeps == ASSUME RowInv, Crash PROVE RowInv'
<1>1. /\ UNCHANGED <<rows, task, begun, handed, calls>> /\ todo' = << >> /\ crashes' \in 0 .. MaxCrash
      /\ st' = [s \in Session |-> IF st[s] = "running" THEN "queued" ELSE st[s]]
      /\ pc' = [th \in Thread |-> "idle"] /\ loc' = [th \in Thread |-> NoLocals]
  BY TaskAssumption DEF RowInv, Typed, Crash
<1>2. st' \in [Session -> Active \cup {"none", "completed", "cancelled"}]
  BY <1>1 DEF RowInv, Typed, Active
<1>3. pc' \in [Thread -> Label] /\ loc' \in [Thread -> Locals] /\ todo' \in Seq(Task)
  BY <1>1, NoLocalsType DEF Label
<1>4. Typed'
  BY <1>1, <1>2, <1>3 DEF RowInv, Typed, rows
<1>5. SessionsOK'
  BY <1>1, Parts DEF RowInv, SessionsOK
<1>6. NodesOK'
  BY <1>1 DEF RowInv, NodesOK, Fits, Short, rows
<1>7. (\A x \in Thread : WriteOK(x)') /\ PassOK'
  BY <1>1, Parts DEF WriteOK, PassOK
<1> QED BY <1>4, <1>5, <1>6, <1>7 DEF RowInv

LEMMA IdleKeeps == ASSUME RowInv, UNCHANGED vars PROVE RowInv'
<1>1. Typed' /\ SessionsOK' /\ NodesOK' /\ PassOK'
  BY DEF RowInv, Typed, SessionsOK, NodesOK, PassOK, Fits, Short, vars, rows, sessions, bounds
<1>2. \A x \in Thread : WriteOK(x)'
  BY OthersWrite DEF RowInv, Kept, vars, rows
<1> QED BY <1>1, <1>2 DEF RowInv

LEMMA RowInit == Init => RowInv
<1> SUFFICES ASSUME Init PROVE RowInv
  OBVIOUS
<1>1. node = [t \in Task |-> NoNode] /\ NoNode.status = None /\ NoNode.hist = << >> /\ Len(<< >>) = 0
  BY DEF Init, NoNode
<1>2. Typed
  BY NoLocalsType, TaskAssumption DEF Init, Typed, Active, Label
<1>3. SessionsOK /\ (\A x \in Thread : WriteOK(x)) /\ PassOK
  BY Parts DEF Init, SessionsOK, WriteOK, PassOK
<1>4. NodesOK
  BY <1>1, Parts DEF NodesOK, Fits, Short
<1> QED BY <1>2, <1>3, <1>4 DEF RowInv

LEMMA RowNext == RowInv /\ [Next]_vars => RowInv'
<1> SUFFICES ASSUME RowInv, [Next]_vars PROVE RowInv'
  OBVIOUS
<1>1. CASE \E o \in Operator, t \in Task : OnTask(o, t)
  BY <1>1, OnTaskKeeps, CreateKeeps, DeleteKeeps DEF OnTask
<1>2. CASE \E o \in Operator, s \in Session : OnSession(o, s)
  BY <1>2, OnSessionKeeps
<1>3. CASE \E t \in Task : Archive(t)
  BY <1>3, DeleteKeeps
<1>4. CASE \E th \in Thread : Write(th)
  BY <1>4, ReadStatusKeeps, ReadNodeKeeps, WriteNodeKeeps DEF Write
<1>5. CASE \E s \in Session : Run(s)
  BY <1>5, RunKeeps
<1>6. CASE Dispatch
  BY <1>6, StartKeeps, LooksKeep, EnqueueKeeps DEF Dispatch
<1> QED BY <1>1, <1>2, <1>3, <1>4, <1>5, <1>6, CrashKeeps, IdleKeeps DEF Next

\* status_history is a chain that ends at the status, however many writers overlap, for any
\* tasks, sessions, calls and crashes, and any length to which it is cut (writeStatus, patch).
THEOREM HistoriesFit == Spec => []HistoryFits
<1>1. Init => RowInv BY RowInit
<1>2. RowInv /\ [Next]_vars => RowInv' BY RowNext
<1>3. RowInv => HistoryFits BY DEF RowInv, NodesOK, Fits, HistoryFits
<1> QED BY <1>1, <1>2, <1>3, PTL DEF Spec

-----------------------------------------------------------------------------
(***************************************************************************)
(* Sessions: one at work on a task, none before what blocks it.            *)
(***************************************************************************)
\* A task that is done or deleted has been so, and blockers are tasks there are.
DoneInv ==
  /\ \A t \in Task : node[t].status = "done" \/ t \in gone => t \in wasDone
  /\ \A t \in Task : node[t].status # None => \A b \in Blockers[t] : node[b].status # None

\* What the pass has looked up still holds when it uses it: no other part of the program
\* gives a task its first session, and what was done stays done.
LookedUp ==
  /\ pc[Pass] \in {"deps", "enqueue"} => ~HasActive(Head(todo))
  /\ pc[Pass] = "enqueue" => Blockers[Head(todo)] \subseteq wasDone

SessionInv == DoneInv /\ LookedUp /\ OneRun /\ DependenciesHonoured

LEMMA DoneNext ==
  ASSUME RowInv, DoneInv, [Next]_vars
  PROVE  DoneInv' /\ wasDone \subseteq wasDone'
<1>1. CASE UNCHANGED rows
  BY <1>1 DEF DoneInv, rows
<1>2. ASSUME NEW t \in Task, (\E o \in Operator : Discard(o, t)) \/ Archive(t)
      PROVE  DoneInv' /\ wasDone \subseteq wasDone'
  BY <1>2 DEF Discard, Archive, SoftDelete, DoneInv
<1>3. ASSUME NEW o \in Operator, NEW t \in Task, Create(o, t)
      PROVE  DoneInv' /\ wasDone \subseteq wasDone'
  <2>1. PICK x \in {"draft", "queued"} : node' = [node EXCEPT ![t].status = x]
    BY <1>3 DEF Create
  <2>2. node'[t].status = x /\ \A u \in Task \ {t} : node'[u] = node[u]
    <3>1. node[t] \in Node /\ node \in [Task -> Node]
      BY RowTypes DEF RowInv, Typed
    <3> QED BY <2>1, <3>1 DEF Node
  <2>3. UNCHANGED <<gone, wasDone>> /\ \A b \in Blockers[t] : node[b].status # None
    BY <1>3 DEF Create
  <2>4. \A u \in Task : Blockers[u] \subseteq Task
    BY Parts
  <2>5. x # None
    BY TaskAssumption DEF Status
  <2> QED BY <2>2, <2>3, <2>4, <2>5 DEF DoneInv
<1>4. ASSUME NEW th \in Thread, WriteNode(th)
      PROVE  DoneInv' /\ wasDone \subseteq wasDone'
  <2> DEFINE l == loc[th]
  <2>1. l.task \in Task /\ node[l.task].status # None /\ node \in [Task -> Node]
    BY <1>4 DEF WriteNode, RowInv, WriteOK, Typed
  <2>2. UNCHANGED gone /\ node' = [node EXCEPT ![l.task] = Merged(l.old, l.to, l.hist)]
        /\ wasDone' = IF node'[l.task].status = "done" THEN wasDone \cup {l.task} ELSE wasDone
    BY <1>4 DEF WriteNode
  <2>3. \A u \in Task \ {l.task} : node'[u] = node[u]
    BY <2>1, <2>2
  <2>4. NodesOK'
    BY <1>4, WriteNodeKeeps DEF RowInv
  <2>5. node'[l.task].status # None
    <3>1. Merged(l.old, l.to, l.hist).status # None
      BY <1>4 DEF WriteNode, RowInv, WriteOK, Merged
    <3> QED BY <2>1, <2>2, <3>1
  <2> HIDE DEF l
  <2>6. \A u \in Task : node'[u].status = "done" \/ u \in gone' => u \in wasDone'
    BY <2>2, <2>3 DEF DoneInv
  <2>7. \A u \in Task : node'[u].status # None => node[u].status # None
    BY <2>1, <2>3
  <2>8. \A u \in Task : Blockers[u] \subseteq Task
    BY Parts
  <2>9. \A u \in Task : node'[u].status # None => \A b \in Blockers[u] : node'[b].status # None
    BY <2>3, <2>5, <2>7, <2>8 DEF DoneInv
  <2> QED BY <2>2, <2>6, <2>9 DEF DoneInv
<1>5. \/ UNCHANGED rows
      \/ \E t \in Task : (\E o \in Operator : Discard(o, t) \/ Create(o, t)) \/ Archive(t)
      \/ \E th \in Thread : WriteNode(th)
  BY DEF Next, OnTask, Accept, Reject, Promote, OnSession, Verdict, Retry, Cancel, Write, ReadStatus, ReadNode,
         Run, Admit, Hand, Park, Fail, Complete, CloseTask, Stop, Dispatch, StartPass, ReadTask, CheckActive,
         CheckDeps, Enqueue, EnqueueFails, Crash, vars
<1> QED BY <1>1, <1>2, <1>3, <1>4, <1>5

\* Only the pass starts a session.
LEMMA NoneStarts ==
  ASSUME RowInv, [Next]_vars, ~Enqueue
  PROVE  task' = task /\ \A s \in Session : /\ st'[s] \in Active => st[s] \in Active
                                            /\ st'[s] # "none" => st[s] # "none"
<1>1. st \in [Session -> Active \cup {"none", "completed", "cancelled"}]
  BY DEF RowInv, Typed
<1>2. CASE UNCHANGED st /\ UNCHANGED task
  BY <1>2
<1>3. ASSUME NEW o \in Operator, NEW s \in Session, OnSession(o, s)
      PROVE  UNCHANGED task /\ \E x \in {"queued", "cancelled"} : st[s] \in Active /\ st' = [st EXCEPT ![s] = x]
  BY <1>3 DEF OnSession, Verdict, Retry, Cancel, Active
<1>4. ASSUME NEW s \in Session, Run(s)
      PROVE  UNCHANGED task /\ (UNCHANGED st \/ \E x \in Active \cup {"completed"} :
                                                  st[s] \in Active /\ st' = [st EXCEPT ![s] = x])
  BY <1>4 DEF Run, Admit, Hand, Park, Fail, Complete, CloseTask, Stop, sessions, Active
<1>5. CASE Crash
  BY <1>1, <1>5 DEF Crash, Active
<1>6. \/ UNCHANGED st /\ UNCHANGED task
      \/ Crash
      \/ \E o \in Operator, s \in Session : OnSession(o, s)
      \/ \E s \in Session : Run(s)
  BY DEF Next, OnTask, Create, Accept, Reject, Promote, Discard, Archive, Write, ReadStatus, ReadNode, WriteNode,
         Dispatch, StartPass, ReadTask, CheckActive, CheckDeps, EnqueueFails, vars, sessions
<1>7. CASE \E o \in Operator, s \in Session : OnSession(o, s)
  BY <1>1, <1>3, <1>7 DEF Active
<1>8. CASE \E s \in Session : Run(s)
  BY <1>1, <1>4, <1>8 DEF Active
<1> QED BY <1>2, <1>5, <1>6, <1>7, <1>8

\* Only the pass looks up what is to start.
LEMMA NoLookup ==
  ASSUME RowInv, [Next]_vars, ~CheckActive, ~CheckDeps
  PROVE  pc'[Pass] \in {"deps", "enqueue"} => pc'[Pass] = pc[Pass] /\ todo' = todo
<1>1. Typed /\ Pass \in Thread
  BY Parts DEF RowInv
<1>2. ASSUME NEW th \in Thread, Write(th)
      PROVE  todo' = todo /\ (pc'[Pass] = pc[Pass] \/ pc'[Pass] \notin {"deps", "enqueue"})
  <2>1. todo' = todo /\ \E label \in {"merge", "write", loc[th].then} : Goto(th, label)
    BY <1>2 DEF Write, ReadStatus, ReadNode, WriteNode, Ended
  <2>2. loc[th].then \in {"idle", "run", "task"}
    BY <1>2 DEF Write, ReadStatus, ReadNode, WriteNode, RowInv, WriteOK
  <2> QED BY <1>1, <2>1, <2>2 DEF Goto, Typed
<1>3. ASSUME NEW th \in Thread \ {Pass}, NEW label \in Label, Goto(th, label)
      PROVE  pc'[Pass] = pc[Pass]
  BY <1>1, <1>3 DEF Goto, Typed
<1>4. ASSUME NEW o \in Operator, (\E t \in Task : OnTask(o, t)) \/ (\E s \in Session : OnSession(o, s))
      PROVE  todo' = todo /\ pc'[Pass] = pc[Pass]
  <2>1. todo' = todo /\ (UNCHANGED pc \/ \E label \in {"read", "merge"} : Goto(o, label))
    BY <1>4 DEF OnTask, Create, Accept, Reject, Promote, Discard, OnSession, Verdict, Retry, Cancel, SetStatus, Touch
  <2> QED BY <1>3, <2>1, Parts DEF Label
<1>5. ASSUME NEW s \in Session, Run(s)
      PROVE  todo' = todo /\ pc'[Pass] = pc[Pass]
  <2>1. todo' = todo /\ \E label \in {"read", "run", "idle", "others"} : Goto(s, label)
    BY <1>5 DEF Run, Admit, Hand, Park, Fail, Complete, CloseTask, Stop, SetStatus
  <2> QED BY <1>3, <2>1, Parts DEF Label
<1>6. CASE Dispatch
  <2>1. \E label \in {"task", "active", "read", Next1} : Goto(Pass, label)
    BY <1>6 DEF Dispatch, StartPass, ReadTask, Skip, Enqueue, EnqueueFails, SetStatus
  <2>2. Next1 \in {"idle", "task"}
    BY DEF Next1
  <2> QED BY <1>1, <2>1, <2>2 DEF Goto, Typed
<1>7. CASE Crash
  BY <1>1, <1>7 DEF Crash
<1>8. CASE (\E t \in Task : Archive(t)) \/ UNCHANGED vars
  BY <1>8 DEF Archive, vars
<1> QED BY <1>2, <1>4, <1>5, <1>6, <1>7, <1>8 DEF Next

LEMMA SessionNext ==
  ASSUME RowInv, SessionInv, [Next]_vars
  PROVE  SessionInv'
<1>1. DoneInv' /\ wasDone \subseteq wasDone'
  BY DoneNext DEF SessionInv
<1>2. CASE ~Enqueue
  <2>1. task' = task /\ \A s \in Session : /\ st'[s] \in Active => st[s] \in Active
                                           /\ st'[s] # "none" => st[s] # "none"
    BY <1>2, NoneStarts
  <2>2. OneRun' /\ DependenciesHonoured'
    BY <1>1, <2>1 DEF SessionInv, OneRun, DependenciesHonoured
  <2>3. \A t : HasActive(t)' => HasActive(t)
    BY <2>1 DEF HasActive
  <2>4. CASE CheckActive
    <3>1. \/ todo' = todo /\ ~HasActive(Head(todo)) /\ pc' = [pc EXCEPT ![Pass] = "deps"]
          \/ pc' = [pc EXCEPT ![Pass] = Next1]
      BY <2>4 DEF CheckActive, Goto, Skip
    <3> QED BY <1>1, <2>2, <2>3, <3>1, Parts DEF SessionInv, LookedUp, RowInv, Typed, Next1
  <2>5. CASE CheckDeps
    <3>1. pc[Pass] = "deps" /\ (\/ todo' = todo /\ DependenciesDone(Head(todo)) /\ pc' = [pc EXCEPT ![Pass] = "enqueue"]
                                \/ pc' = [pc EXCEPT ![Pass] = Next1])
      BY <2>5 DEF CheckDeps, Goto, Skip
    <3>2. Head(todo) \in Task /\ node[Head(todo)].status # None
      BY <3>1, TailFits DEF RowInv, PassOK
    <3>3. DependenciesDone(Head(todo)) => Blockers[Head(todo)] \subseteq wasDone
      BY <3>2, Parts DEF SessionInv, DoneInv, DependenciesDone, Exists
    <3> QED BY <1>1, <2>2, <2>3, <3>1, <3>3, Parts DEF SessionInv, LookedUp, RowInv, Typed, Next1
  <2>6. CASE ~CheckActive /\ ~CheckDeps
    <3>1. pc'[Pass] \in {"deps", "enqueue"} => pc'[Pass] = pc[Pass] /\ todo' = todo
      BY <2>6, NoLookup
    <3> QED BY <1>1, <2>2, <2>3, <3>1 DEF SessionInv, LookedUp
  <2> QED BY <2>4, <2>5, <2>6
<1>3. CASE Enqueue
  <2> DEFINE t == Head(todo)
  <2>1. pc[Pass] = "enqueue" /\ ~HasActive(t) /\ Blockers[t] \subseteq wasDone /\ UNCHANGED wasDone
    BY <1>3 DEF Enqueue, SessionInv, LookedUp, rows
  <2>2. t \in Task
    BY <2>1, TailFits DEF RowInv, PassOK
  <2>3. PICK s \in Session : st[s] = "none" /\ st' = [st EXCEPT ![s] = "queued"] /\ task' = [task EXCEPT ![s] = t]
    BY <1>3 DEF Enqueue
  <2> HIDE DEF t
  <2>4. /\ st'[s] = "queued" /\ task'[s] = t
        /\ \A r \in Session \ {s} : st'[r] = st[r] /\ task'[r] = task[r]
    BY <2>3 DEF RowInv, Typed
  <2>5. OneRun'
    BY <2>1, <2>4 DEF SessionInv, OneRun, HasActive
  <2>6. DependenciesHonoured'
    BY <2>1, <2>4 DEF SessionInv, DependenciesHonoured
  <2>7. LookedUp'
    <3>1. ~CheckActive /\ ~CheckDeps
      BY <2>1 DEF CheckActive, CheckDeps
    <3>2. \E label \in {"read", Next1} : Goto(Pass, label)
      BY <1>3 DEF Enqueue, SetStatus
    <3>3. pc'[Pass] \notin {"deps", "enqueue"}
      BY <3>2, Parts DEF Goto, RowInv, Typed, Next1
    <3> QED BY <3>3 DEF LookedUp
  <2> QED BY <1>1, <2>5, <2>6, <2>7 DEF SessionInv
<1> QED BY <1>2, <1>3

LEMMA SessionInit == Init => SessionInv
<1> SUFFICES ASSUME Init PROVE SessionInv
  OBVIOUS
<1>1. NoNode.status = None /\ None # "done"
  BY TaskAssumption DEF NoNode, Status
<1>2. DoneInv
  BY <1>1, Parts DEF Init, DoneInv
<1> QED BY <1>2, Parts DEF Init, SessionInv, LookedUp, OneRun, DependenciesHonoured, Active

\* Tasks, sessions, writes under way and the rows of a pass keep their types, and no history
\* grows beyond what it is cut to.
THEOREM IntakeTyping == Spec => []TypeOK
<1>1. Init => RowInv BY RowInit
<1>2. RowInv /\ [Next]_vars => RowInv' BY RowNext
<1>3. RowInv => TypeOK BY DEF RowInv, Typed, NodesOK, Short, TypeOK
<1> QED BY <1>1, <1>2, <1>3, PTL DEF Spec

\* Two sessions are never at work on one task, for any number of tasks, sessions and operators:
\* between the look for one and the enqueue only the pass itself could start it (dispatchQueued).
THEOREM OneAtATime == Spec => []OneRun
<1>1. Init => RowInv /\ SessionInv BY RowInit, SessionInit
<1>2. RowInv /\ SessionInv /\ [Next]_vars => RowInv' /\ SessionInv' BY RowNext, SessionNext
<1>3. SessionInv => OneRun BY DEF SessionInv
<1> QED BY <1>1, <1>2, <1>3, PTL DEF Spec

\* No session is started before every task that blocks its own was done or deleted, for any
\* graph of dependencies, and although the pass looks them up some statements earlier.
THEOREM BlockersFirst == Spec => []DependenciesHonoured
<1>1. Init => RowInv /\ SessionInv BY RowInit, SessionInit
<1>2. RowInv /\ SessionInv /\ [Next]_vars => RowInv' /\ SessionInv' BY RowNext, SessionNext
<1>3. SessionInv => DependenciesHonoured BY DEF SessionInv
<1> QED BY <1>1, <1>2, <1>3, PTL DEF Spec

-------------------------------------------------------------------------------
(***************************************************************************)
(* The chat: ContextIsCurrent and TurnsGrow.  Only the message at the head *)
(* of the chain is being answered, so that what its exchange has of the    *)
(* record is the record; and what the model was called with last, but for  *)
(* the note, is a prefix of that.                                          *)
(***************************************************************************)
ChatTurn == [role : {"preamble", "user", "ask", "tool", "reply"}, of : Nat]
ChatLocals == [hist : Seq(ChatTurn), det : Chat!Detail, spent : Nat, max : Nat, seen : Nat]
Speaking == {"preamble", "user", "resolve", "call", "tool"}
Busy == Speaking \cup {"save", "error", "over", "report", "record"}

ChatTyped ==
  /\ turns \in Seq(ChatTurn) /\ locks \in Seq(Chat!Message)
  /\ at \in [Chat!Message -> {"idle", "wait"} \cup Busy \cup Chat!Ended]
  /\ locals \in [Chat!Message -> ChatLocals]
  /\ det \in Chat!Detail /\ spent \in Nat /\ max \in Nat /\ screen \in Nat /\ cancelling \in SUBSET Chat!Detail

InChain(m) == \E i \in 1 .. Len(locks) : locks[i] = m
Chain ==
  /\ \A m \in Chat!Message : at[m] = "wait" \/ at[m] \in Busy => InChain(m)
  /\ \A m \in Chat!Message : at[m] \in Busy => m = locks[1]

\* What an exchange has of the record while it calls the model.
Follows(label, l, record, m) ==
  label \in Speaking =>
    /\ l.hist = record
    /\ label # "preamble" => Chat!Shown(l.hist, l.seen)
    /\ label \in {"resolve", "call", "tool"} => \E i \in 1 .. Len(l.hist) : l.hist[i].role = "user" /\ l.hist[i].of = m

Exchanges == \A m \in Chat!Message : Follows(at[m], locals[m], turns, m)

SentOK == Chat!Turns(sent) \in Seq(ChatTurn) /\ Chat!IsPrefix(Chat!Turns(sent), turns)

ChatInv == ChatTyped /\ Chain /\ Exchanges /\ SentOK

LEMMA PrefixSelf == ASSUME NEW S, NEW s \in Seq(S) PROVE Chat!IsPrefix(s, s)
BY DEF Chat!IsPrefix

LEMMA PrefixOfMore ==
  ASSUME NEW S, NEW s \in Seq(S), NEW r \in Seq(S), Chat!IsPrefix(r, s), NEW t \in S
  PROVE  Chat!IsPrefix(r, Append(s, t))
<1>1. Len(r) <= Len(s) /\ SubSeq(r, 1, Len(r)) = SubSeq(s, 1, Len(r))
  BY DEF Chat!IsPrefix
<1>2. SubSeq(Append(s, t), 1, Len(r)) = SubSeq(s, 1, Len(r))
  <2>1. /\ SubSeq(Append(s, t), 1, Len(r)) \in Seq(S) /\ SubSeq(s, 1, Len(r)) \in Seq(S)
        /\ Len(SubSeq(Append(s, t), 1, Len(r))) = Len(r) /\ Len(SubSeq(s, 1, Len(r))) = Len(r)
        /\ \A i \in 1 .. Len(r) : SubSeq(Append(s, t), 1, Len(r))[i] = SubSeq(s, 1, Len(r))[i]
    BY <1>1
  <2> QED BY <2>1, SeqEqual
<1> QED BY <1>1, <1>2 DEF Chat!IsPrefix

\* What is put into a sequence, and taken out again.
LEMMA PutIn ==
  ASSUME NEW S, NEW h \in Seq(S), NEW n \in S, NEW k \in 1 .. Len(h), NEW s, s = Chat!InsertAt(h, k, n)
  PROVE  /\ s \in Seq(S) /\ Len(s) = Len(h) + 1 /\ s[k] = n
         /\ \A i \in 1 .. k - 1 : s[i] = h[i]
         /\ \A i \in k + 1 .. Len(h) + 1 : s[i] = h[i - 1]
<1> DEFINE a == SubSeq(h, 1, k - 1)
<1> DEFINE b == SubSeq(h, k, Len(h))
<1> DEFINE c == a \o <<n>>
<1>1. k \in Nat /\ Len(h) \in Nat /\ 1 <= k /\ k <= Len(h)
  OBVIOUS
<1>2. a \in Seq(S) /\ Len(a) = k - 1 /\ \A i \in 1 .. k - 1 : a[i] = h[i]
  BY <1>1
<1>3. b \in Seq(S) /\ Len(b) = Len(h) - k + 1 /\ \A i \in 1 .. Len(h) - k + 1 : b[i] = h[i + k - 1]
  BY <1>1
<1> HIDE DEF a, b
<1>4. <<n>> \in Seq(S) /\ Len(<<n>>) = 1 /\ <<n>>[1] = n
  OBVIOUS
<1>5. c \in Seq(S) /\ Len(c) = k /\ c[k] = n /\ \A i \in 1 .. k - 1 : c[i] = h[i]
  BY <1>1, <1>2, <1>4
<1> HIDE DEF c
<1>6. c \o b \in Seq(S) /\ Len(c \o b) = Len(h) + 1 /\ \A i \in 1 .. k : (c \o b)[i] = c[i]
  <2>1. c \o b \in Seq(S) /\ Len(c \o b) = Len(c) + Len(b)
    BY <1>3, <1>5
  <2>2. Len(c) + Len(b) = Len(h) + 1
    BY <1>1, <1>3, <1>5
  <2>3. \A i \in 1 .. Len(c) : (c \o b)[i] = c[i]
    BY <1>3, <1>5
  <2> QED BY <1>5, <2>1, <2>2, <2>3
<1>7. ASSUME NEW i \in k + 1 .. Len(h) + 1 PROVE (c \o b)[i] = h[i - 1]
  <2>1. i - k \in 1 .. Len(h) - k + 1 /\ i - k + k - 1 = i - 1 /\ i \in k + 1 .. k + (Len(h) - k + 1)
    BY <1>1
  <2>2. (c \o b)[i] = b[i - k]
    BY <1>1, <1>3, <1>5, <2>1
  <2>3. b[i - k] = h[i - k + k - 1]
    BY <1>3, <2>1
  <2> QED BY <2>1, <2>2, <2>3
<1>8. s = c \o b
  BY DEF Chat!InsertAt, a, b, c
<1>9. \A i \in 1 .. k - 1 : (c \o b)[i] = h[i]
  BY <1>1, <1>5, <1>6
<1>10. (c \o b)[k] = n
  BY <1>1, <1>5, <1>6
<1>11. PICK e : e = c \o b
  OBVIOUS
<1>12. /\ e \in Seq(S) /\ Len(e) = Len(h) + 1 /\ e[k] = n
       /\ \A i \in 1 .. k - 1 : e[i] = h[i]
       /\ \A i \in k + 1 .. Len(h) + 1 : e[i] = h[i - 1]
  BY <1>6, <1>7, <1>9, <1>10, <1>11
<1>13. s = e
  BY <1>8, <1>11
<1> QED BY <1>12, <1>13

LEMMA TakeOut ==
  ASSUME NEW S, NEW h \in Seq(S), NEW s \in Seq(S), NEW k \in 1 .. Len(h), Len(s) = Len(h) + 1,
         \A i \in 1 .. k - 1 : s[i] = h[i], \A i \in k + 1 .. Len(h) + 1 : s[i] = h[i - 1]
  PROVE  Chat!RemoveAt(s, k) = h
<1> DEFINE a == SubSeq(s, 1, k - 1)
<1> DEFINE b == SubSeq(s, k + 1, Len(s))
<1>1. k \in Nat /\ Len(h) \in Nat /\ Len(s) \in Nat /\ 1 <= k /\ k <= Len(h)
  OBVIOUS
<1>2. a \in Seq(S) /\ Len(a) = k - 1 /\ \A i \in 1 .. k - 1 : a[i] = s[i]
  BY <1>1
<1>3. b \in Seq(S) /\ Len(b) = Len(h) + 1 - k /\ \A i \in 1 .. Len(h) + 1 - k : b[i] = s[i + k]
  BY <1>1
<1>4. Chat!RemoveAt(s, k) = a \o b
  BY DEF Chat!RemoveAt
<1> HIDE DEF a, b
<1>5. a \o b \in Seq(S) /\ Len(a \o b) = Len(h)
  BY <1>1, <1>2, <1>3
<1>6. ASSUME NEW i \in 1 .. Len(h) PROVE (a \o b)[i] = h[i]
  <2>1. CASE i < k
    <3>1. i \in 1 .. k - 1
      BY <1>1, <2>1
    <3> QED BY <1>1, <1>2, <1>3, <3>1
  <2>2. CASE i >= k
    <3>1. /\ i - k + 1 \in 1 .. Len(h) + 1 - k /\ i - k + 1 + k = i + 1 /\ i + 1 \in k + 1 .. Len(h) + 1
          /\ i + 1 - 1 = i /\ i - (k - 1) = i - k + 1
      BY <1>1, <2>2
    <3>2. (a \o b)[i] = b[i - (k - 1)]
      BY <1>1, <1>2, <1>3, <2>2
    <3>3. b[i - k + 1] = s[i - k + 1 + k]
      BY <1>3, <3>1
    <3>4. s[i + 1] = h[i + 1 - 1]
      BY <3>1
    <3> QED BY <3>1, <3>2, <3>3, <3>4
  <2>3. i < k \/ i >= k
    BY <1>1
  <2> QED BY <2>1, <2>2, <2>3
<1>7. PICK e \in Seq(S) : e = a \o b
  BY <1>5
<1>8. Len(e) = Len(h) /\ \A i \in 1 .. Len(e) : e[i] = h[i]
  BY <1>5, <1>6, <1>7
<1>9. e = h
  BY <1>8, SeqEqual
<1> QED BY <1>4, <1>7, <1>9

\* The note goes in among the turns and comes out again.
LEMMA NoteComesOut ==
  ASSUME NEW h \in Seq(ChatTurn), NEW m \in Chat!Message,
         \E i \in 1 .. Len(h) : h[i].role = "user" /\ h[i].of = m
  PROVE  Chat!Turns(Chat!Injected(h, m)) = h
<1> DEFINE k == CHOOSE i \in DOMAIN h : h[i].role = "user" /\ h[i].of = m
<1> DEFINE n == [role |-> "note", of |-> m]
<1> DEFINE s == Chat!InsertAt(h, k, n)
<1>1. k \in 1 .. Len(h) /\ DOMAIN h = 1 .. Len(h)
  OBVIOUS
<1>2. \A i \in 1 .. Len(h) : h[i].role # "note"
  <2>1. \A t \in ChatTurn : t.role # "note"
    BY DEF ChatTurn
  <2>2. \A i \in 1 .. Len(h) : h[i] \in ChatTurn
    OBVIOUS
  <2> QED BY <2>1, <2>2
<1>3. Chat!Injected(h, m) = s \/ Chat!Injected(h, m) = h
  BY DEF Chat!Injected
<1>4. Chat!Turns(h) = h
  BY <1>1, <1>2 DEF Chat!Turns, Chat!IsNote
<1>5. n.role = "note"
  OBVIOUS
<1> HIDE DEF k, n
<1> DEFINE S == ChatTurn \cup {n}
<1>6. h \in Seq(S) /\ n \in S
  <2>1. \A i \in 1 .. Len(h) : h[i] \in ChatTurn
    OBVIOUS
  <2> QED BY <2>1
<1> HIDE DEF S
<1>7. /\ s \in Seq(S) /\ Len(s) = Len(h) + 1 /\ s[k] = n
      /\ \A i \in 1 .. k - 1 : s[i] = h[i]
      /\ \A i \in k + 1 .. Len(h) + 1 : s[i] = h[i - 1]
  <2>1. PICK q \in 1 .. Len(h) : q = k
    BY <1>1
  <2>2. PICK e : e = Chat!InsertAt(h, q, n)
    OBVIOUS
  <2>3. /\ e \in Seq(S) /\ Len(e) = Len(h) + 1 /\ e[q] = n
        /\ \A i \in 1 .. q - 1 : e[i] = h[i]
        /\ \A i \in q + 1 .. Len(h) + 1 : e[i] = h[i - 1]
    BY <1>6, <2>2, PutIn, SMTT(60)
  <2>4. s = e
    BY <2>1, <2>2
  <2> QED BY <2>1, <2>3, <2>4
<1> HIDE DEF s
<1>8. DOMAIN s = 1 .. Len(h) + 1 /\ k \in DOMAIN s
  BY <1>1, <1>7
<1>9. \A i \in DOMAIN s : s[i].role = "note" <=> i = k
  <2> SUFFICES ASSUME NEW i \in 1 .. Len(h) + 1 PROVE s[i].role = "note" <=> i = k
    BY <1>8
  <2>1. i = k \/ i \in 1 .. k - 1 \/ (i \in k + 1 .. Len(h) + 1 /\ i - 1 \in 1 .. Len(h))
    BY <1>1
  <2>2. i \in 1 .. k - 1 => i \in 1 .. Len(h) /\ i # k
    BY <1>1
  <2>3. i \in k + 1 .. Len(h) + 1 => i # k
    BY <1>1
  <2> QED BY <1>2, <1>5, <1>7, <2>1, <2>2, <2>3
<1>10. \E i \in DOMAIN s : Chat!IsNote(s, i)
  BY <1>8, <1>9 DEF Chat!IsNote
<1>11. (CHOOSE i \in DOMAIN s : Chat!IsNote(s, i)) = k
  BY <1>8, <1>9 DEF Chat!IsNote
<1>12. Chat!Turns(s) = Chat!RemoveAt(s, k)
  BY <1>10, <1>11, Zenon DEF Chat!Turns
<1>13. Chat!RemoveAt(s, k) = h
  <2>1. PICK e \in Seq(S) : e = s
    BY <1>7
  <2>2. /\ Len(e) = Len(h) + 1 /\ \A i \in 1 .. k - 1 : e[i] = h[i]
        /\ \A i \in k + 1 .. Len(h) + 1 : e[i] = h[i - 1]
    BY <1>7, <2>1
  <2>3. Chat!RemoveAt(e, k) = h
    BY <1>1, <1>6, <2>2, TakeOut
  <2> QED BY <2>1, <2>3
<1> QED BY <1>3, <1>4, <1>12, <1>13

\* A context that is shown stays so when what follows is no context.
LEMMA ShownStays ==
  ASSUME NEW h \in Seq(ChatTurn), NEW v \in Nat, Chat!Shown(h, v), NEW t \in ChatTurn, t.role # "preamble"
  PROVE  Chat!Shown(Append(h, t), v)
<1>1. PICK i \in 1 .. Len(h) : Chat!Context(h, i, v) /\ \A j \in 1 .. Len(h) : j > i => h[j].role # "preamble"
  BY DEF Chat!Shown
<1>2. PICK g \in Seq(ChatTurn) : g = Append(h, t)
  <2>1. Append(h, t) \in Seq(ChatTurn)
    OBVIOUS
  <2> QED BY <2>1, Zenon
<1>3. Len(g) = Len(h) + 1 /\ g[Len(h) + 1] = t /\ \A j \in 1 .. Len(h) : g[j] = h[j]
  BY <1>2
<1>4. DOMAIN g = 1 .. Len(h) + 1 /\ i \in DOMAIN g /\ Len(h) \in Nat
  BY <1>3
<1>5. Chat!Context(g, i, v)
  BY <1>1, <1>3 DEF Chat!Context
<1>6. \A j \in DOMAIN g : j > i => g[j].role # "preamble"
  BY <1>1, <1>3, <1>4
<1>7. Chat!Shown(g, v)
  BY <1>4, <1>5, <1>6 DEF Chat!Shown
<1> QED BY <1>2, <1>7

LEMMA NewlyShown ==
  ASSUME NEW h \in Seq(ChatTurn), NEW v \in Nat, NEW t \in ChatTurn, t.role = "preamble", t.of = v
  PROVE  Chat!Shown(Append(h, t), v)
<1>1. PICK g \in Seq(ChatTurn) : g = Append(h, t)
  <2>1. Append(h, t) \in Seq(ChatTurn)
    OBVIOUS
  <2> QED BY <2>1, Zenon
<1>2. Len(g) = Len(h) + 1 /\ g[Len(h) + 1] = t /\ Len(h) \in Nat
  BY <1>1
<1>3. DOMAIN g = 1 .. Len(h) + 1 /\ Len(h) + 1 \in DOMAIN g
  BY <1>2
<1>4. Chat!Context(g, Len(h) + 1, v) /\ \A j \in DOMAIN g : ~(j > Len(h) + 1)
  BY <1>2, <1>3 DEF Chat!Context
<1>5. Chat!Shown(g, v)
  BY <1>3, <1>4 DEF Chat!Shown
<1> QED BY <1>1, <1>5

LEMMA DetailWith ==
  ASSUME NEW d \in Chat!Detail, NEW b \in BOOLEAN
  PROVE  [d EXCEPT !.error = b] \in Chat!Detail
BY DEF Chat!Detail

LEMMA ErrorSet ==
  ASSUME NEW d \in Chat!Detail
  PROVE  [d EXCEPT !.error = TRUE] \in Chat!Detail /\ [d EXCEPT !.error = FALSE] \in Chat!Detail
<1>1. PICK r \in BOOLEAN : r = TRUE
  OBVIOUS
<1>2. PICK q \in BOOLEAN : q = FALSE
  OBVIOUS
<1>3. [d EXCEPT !.error = r] \in Chat!Detail /\ [d EXCEPT !.error = q] \in Chat!Detail
  BY DetailWith
<1> QED BY <1>1, <1>2, <1>3, Zenon

LEMMA NoLocalsOfChat ==
  /\ Chat!NoLocals \in ChatLocals
  /\ [error |-> FALSE, subagent |-> TRUE] \in Chat!Detail /\ [error |-> FALSE, subagent |-> FALSE] \in Chat!Detail
<1>1. [error |-> FALSE, subagent |-> TRUE] \in Chat!Detail /\ [error |-> FALSE, subagent |-> FALSE] \in Chat!Detail
  BY DEF Chat!Detail
<1>2. PICK d \in Chat!Detail : d = [error |-> FALSE, subagent |-> TRUE]
  BY <1>1
<1>3. << >> \in Seq(ChatTurn)
  OBVIOUS
<1>4. [hist |-> << >>, det |-> d, spent |-> 0, max |-> 0, seen |-> 0] \in ChatLocals
  BY <1>3 DEF ChatLocals
<1> QED BY <1>1, <1>2, <1>4 DEF Chat!NoLocals

\* The exchange of one message goes on, or ends and lets the next begin.
OnTurn(m) == at[m] \in Busy \/ (at[m] = "wait" /\ m = locks[1])
Moves(m, label, l) ==
  /\ at' = [at EXCEPT ![m] = label] /\ locals' = [locals EXCEPT ![m] = l]
  /\ \/ label \in Busy /\ locks' = locks
     \/ label \in Chat!Ended /\ locks' = Tail(locks)

ChatRow ==
  /\ turns \in Seq(ChatTurn)
  /\ det \in Chat!Detail /\ spent \in Nat /\ max \in Nat /\ screen \in Nat /\ cancelling \in SUBSET Chat!Detail

LEMMA ExchangeKeeps ==
  ASSUME ChatInv, NEW m \in Chat!Message, OnTurn(m), NEW label, NEW l \in ChatLocals, Moves(m, label, l),
         ChatRow', Follows(label, l, turns', m), SentOK'
  PROVE  ChatInv'
<1>1. /\ locks \in Seq(Chat!Message) /\ at \in [Chat!Message -> {"idle", "wait"} \cup Busy \cup Chat!Ended]
      /\ locals \in [Chat!Message -> ChatLocals]
  BY DEF ChatInv, ChatTyped
<1>2. InChain(m) /\ m = locks[1] /\ locks # << >>
  <2>1. InChain(m) /\ m = locks[1]
    BY DEF OnTurn, ChatInv, Chain
  <2> QED BY <1>1, <2>1 DEF InChain
<1>3. /\ at' \in [Chat!Message -> {"idle", "wait"} \cup Busy \cup Chat!Ended]
      /\ locals' \in [Chat!Message -> ChatLocals]
      /\ at'[m] = label /\ locals'[m] = l
      /\ \A x \in Chat!Message \ {m} : at'[x] = at[x] /\ locals'[x] = locals[x]
  BY <1>1 DEF Moves
<1>4. \A x \in Chat!Message \ {m} : at[x] \notin Busy
  BY <1>2 DEF ChatInv, Chain
<1>5. CASE label \in Busy /\ locks' = locks
  <2>1. Chain'
    BY <1>2, <1>3, <1>4, <1>5 DEF ChatInv, Chain, InChain
  <2> QED BY <1>1, <1>5, <1>3, <1>4, <2>1 DEF ChatInv, ChatTyped, ChatRow, Exchanges, Follows, Busy
<1>6. CASE label \in Chat!Ended /\ locks' = Tail(locks)
  <2>1. label \notin Busy /\ label # "wait"
    BY <1>6 DEF Busy, Speaking, Chat!Ended
  <2>2. /\ Tail(locks) \in Seq(Chat!Message) /\ Len(Tail(locks)) = Len(locks) - 1
        /\ \A i \in 1 .. Len(locks) - 1 : Tail(locks)[i] = locks[i + 1]
    BY <1>1, <1>2
  <2>3. ASSUME NEW x \in Chat!Message \ {m}, InChain(x) PROVE InChain(x)'
    <3>1. PICK i \in 1 .. Len(locks) : locks[i] = x
      BY <2>3 DEF InChain
    <3>2. i # 1
      BY <1>2, <3>1
    <3>3. i - 1 \in 1 .. Len(locks) - 1 /\ i - 1 + 1 = i
      BY <3>2
    <3> QED BY <1>6, <2>2, <3>1, <3>3 DEF InChain
  <2>4. Chain'
    BY <1>3, <1>4, <2>1, <2>3 DEF ChatInv, Chain
  <2> QED BY <1>3, <1>4, <1>6, <2>1, <2>2, <2>4 DEF ChatInv, ChatTyped, ChatRow, Exchanges, Follows, Busy
<1> QED BY <1>5, <1>6 DEF Moves

\* What an exchange has read, and where it stands.
LEMMA LocalsOf ==
  ASSUME ChatInv, NEW m \in Chat!Message
  PROVE  /\ locals[m] \in ChatLocals /\ locals[m].hist \in Seq(ChatTurn) /\ locals[m].det \in Chat!Detail
         /\ locals[m].spent \in Nat /\ locals[m].max \in Nat /\ locals[m].seen \in Nat
         /\ Follows(at[m], locals[m], turns, m)
BY DEF ChatInv, ChatTyped, Exchanges, ChatLocals

LEMMA Throws ==
  ASSUME ChatInv, NEW m \in Chat!Message, Chat!Throw(m)
  PROVE  \E label \in {"report", "failed"}, l \in ChatLocals : Moves(m, label, l)
<1>1. CASE m \in Background
  BY <1>1, LocalsOf DEF Chat!Throw, Chat!Step, Chat!Goto, Moves, Busy
<1>2. CASE m \notin Background
  BY <1>2, NoLocalsOfChat DEF Chat!Throw, Chat!End, Chat!Goto, Moves, Chat!Ended
<1> QED BY <1>1, <1>2

\* The end of an exchange, however it ends: nothing is recorded.
LEMMA EndKeeps ==
  ASSUME ChatInv, NEW m \in Chat!Message, OnTurn(m), UNCHANGED <<turns, sent>>, ChatRow',
         Chat!Throw(m) \/ \E label \in {"answered", "failed"} : Chat!End(m, label)
  PROVE  ChatInv'
<1>1. PICK label \in {"report", "answered", "failed"}, l \in ChatLocals : Moves(m, label, l)
  <2>1. CASE Chat!Throw(m)
    BY <2>1, Throws
  <2>2. CASE \E label \in {"answered", "failed"} : Chat!End(m, label)
    BY <2>2, NoLocalsOfChat DEF Chat!End, Chat!Goto, Moves, Chat!Ended
  <2> QED BY <2>1, <2>2
<1>2. Follows(label, l, turns', m)
  BY <1>1 DEF Follows, Speaking
<1>3. SentOK'
  BY DEF ChatInv, SentOK, Chat!Turns, Chat!IsNote
<1> QED BY <1>1, <1>2, <1>3, ExchangeKeeps

-----------------------------------------------------------------------------
(***************************************************************************)
(* The steps of an exchange.                                               *)
(***************************************************************************)
\* The record is as it was, or has one turn more.
LEMMA SentStays ==
  ASSUME ChatInv, sent' = sent, turns' = turns \/ \E t \in ChatTurn : turns' = Append(turns, t)
  PROVE  SentOK' /\ turns' \in Seq(ChatTurn)
<1>1. PICK r : r = Chat!Turns(sent)
  OBVIOUS
<1>2. r \in Seq(ChatTurn) /\ Chat!IsPrefix(r, turns) /\ turns \in Seq(ChatTurn)
  BY <1>1 DEF ChatInv, ChatTyped, SentOK
<1>3. Chat!Turns(sent)' = r
  BY <1>1 DEF Chat!Turns, Chat!IsNote
<1>4. CASE turns' = turns
  BY <1>2, <1>3, <1>4 DEF SentOK
<1>5. ASSUME NEW t \in ChatTurn, turns' = Append(turns, t)
      PROVE  SentOK' /\ turns' \in Seq(ChatTurn)
  <2>1. PICK s \in Seq(ChatTurn) : s = turns
    BY <1>2
  <2>2. Chat!IsPrefix(r, Append(s, t)) /\ Append(s, t) \in Seq(ChatTurn)
    BY <1>2, <2>1, PrefixOfMore
  <2> QED BY <1>2, <1>3, <1>5, <2>1, <2>2 DEF SentOK
<1> QED BY <1>4, <1>5

\* The model is called with the record.
LEMMA CalledWith ==
  ASSUME ChatInv, NEW m \in Chat!Message, at[m] = "call", sent' = Chat!Injected(locals[m].hist, m),
         turns' = turns \/ \E t \in ChatTurn : turns' = Append(turns, t)
  PROVE  Chat!Turns(sent') = turns /\ SentOK' /\ turns' \in Seq(ChatTurn)
<1>1. PICK h \in Seq(ChatTurn) : h = locals[m].hist
  BY LocalsOf
<1>2. h = turns /\ \E i \in 1 .. Len(h) : h[i].role = "user" /\ h[i].of = m
  BY <1>1, LocalsOf DEF Follows, Speaking
<1>3. Chat!Turns(Chat!Injected(h, m)) = h
  BY <1>2, NoteComesOut
<1>4. PICK s : s = sent'
  OBVIOUS
<1>5. s = Chat!Injected(h, m)
  BY <1>1, <1>4
<1>6. Chat!Turns(s) = turns
  BY <1>2, <1>3, <1>5
<1>7. Chat!Turns(sent') = turns /\ Chat!Turns(sent)' = turns
  BY <1>4, <1>6 DEF Chat!Turns, Chat!IsNote
<1>8. Chat!IsPrefix(h, h)
  BY PrefixSelf
<1>9. CASE turns' = turns
  BY <1>2, <1>7, <1>8, <1>9 DEF SentOK
<1>10. ASSUME NEW t \in ChatTurn, turns' = Append(turns, t)
       PROVE  SentOK' /\ turns' \in Seq(ChatTurn)
  <2>1. Chat!IsPrefix(h, Append(h, t)) /\ Append(h, t) \in Seq(ChatTurn)
    BY <1>8, PrefixOfMore
  <2> QED BY <1>2, <1>7, <1>10, <2>1 DEF SentOK
<1> QED BY <1>7, <1>9, <1>10

LEMMA ChatRowStays ==
  ASSUME ChatInv, UNCHANGED <<det, spent, max, screen, cancelling>>, turns' \in Seq(ChatTurn)
  PROVE  ChatRow'
BY DEF ChatInv, ChatTyped, ChatRow

LEMMA PostKeeps ==
  ASSUME ChatInv, NEW m \in Chat!Message, Chat!Post(m)
  PROVE  ChatInv' /\ sent' = sent
<1>1. /\ at[m] = "idle" /\ at' = [at EXCEPT ![m] = "wait"] /\ locals' = [locals EXCEPT ![m] = locals[m]]
      /\ locks' = Append(locks, m)
      /\ UNCHANGED <<turns, sent, det, spent, max, screen, cancelling>>
  BY DEF Chat!Post, Chat!Step, Chat!Goto, Chat!row, Chat!model, Chat!operators
<1>2. /\ locks \in Seq(Chat!Message) /\ at \in [Chat!Message -> {"idle", "wait"} \cup Busy \cup Chat!Ended]
      /\ locals \in [Chat!Message -> ChatLocals]
  BY DEF ChatInv, ChatTyped
<1>3. /\ at' \in [Chat!Message -> {"idle", "wait"} \cup Busy \cup Chat!Ended] /\ locals' = locals
      /\ at'[m] = "wait" /\ \A x \in Chat!Message \ {m} : at'[x] = at[x]
  BY <1>1, <1>2
<1>4. /\ locks' \in Seq(Chat!Message) /\ Len(locks') = Len(locks) + 1 /\ locks'[Len(locks) + 1] = m
      /\ \A i \in 1 .. Len(locks) : locks'[i] = locks[i]
  BY <1>1, <1>2
<1>5. \A x \in Chat!Message : InChain(x) => InChain(x)' /\ locks'[1] = locks[1]
  BY <1>2, <1>4 DEF InChain
<1>6. InChain(m)'
  BY <1>2, <1>4 DEF InChain
<1>7. "wait" \notin Busy
  BY DEF Busy, Speaking
<1>8. Chain'
  BY <1>3, <1>5, <1>6, <1>7 DEF ChatInv, Chain
<1>9. Exchanges'
  BY <1>1, <1>3 DEF ChatInv, Exchanges, Follows, Speaking
<1>10. SentOK' /\ turns' \in Seq(ChatTurn)
  BY <1>1, SentStays
<1> QED BY <1>1, <1>3, <1>4, <1>8, <1>9, <1>10 DEF ChatInv, ChatTyped

LEMMA BeginKeeps ==
  ASSUME ChatInv, NEW m \in Chat!Message, Chat!Begin(m)
  PROVE  ChatInv' /\ sent' = sent
<1>1. OnTurn(m)
  BY DEF Chat!Begin, Chat!MayBegin, OnTurn, ChatInv, ChatTyped
<1>2. UNCHANGED <<turns, sent, det, spent, max, screen, cancelling>> /\ turns \in Seq(ChatTurn)
  BY DEF Chat!Begin, Chat!row, Chat!model, Chat!operators, ChatInv, ChatTyped
<1>3. SentOK' /\ ChatRow'
  BY <1>2, SentStays, ChatRowStays
<1>4. CASE state # "running"
  BY <1>1, <1>2, <1>3, <1>4, EndKeeps DEF Chat!Begin
<1>5. CASE state = "running"
  <2> DEFINE l == [locals[m] EXCEPT !.hist = turns, !.det = det, !.spent = spent, !.max = max]
  <2>1. l \in ChatLocals /\ l.hist = turns
    BY LocalsOf DEF ChatLocals, ChatInv, ChatTyped
  <2>2. PICK label \in {"over", "preamble"} : Chat!Goto(m, label, l) /\ locks' = locks
    BY <1>5 DEF Chat!Begin
  <2> HIDE DEF l
  <2>3. Moves(m, label, l)
    BY <2>2 DEF Moves, Chat!Goto, Busy, Speaking
  <2>4. Follows(label, l, turns', m)
    BY <1>2, <2>1, <2>2 DEF Follows, Speaking
  <2> QED BY <1>1, <1>2, <1>3, <2>1, <2>3, <2>4, ExchangeKeeps
<1> QED BY <1>4, <1>5

LEMMA PreambleKeeps ==
  ASSUME ChatInv, NEW m \in Chat!Message, Chat!Preamble(m)
  PROVE  ChatInv' /\ sent' = sent
<1> DEFINE t == [role |-> "preamble", of |-> screen]
<1> DEFINE l == [locals[m] EXCEPT !.seen = screen]
<1>1. OnTurn(m) /\ at[m] = "preamble"
  BY DEF Chat!Preamble, OnTurn, Busy, Speaking
<1>2. UNCHANGED <<locks, sent, det, spent, max, screen, cancelling>> /\ turns \in Seq(ChatTurn)
  BY DEF Chat!Preamble, Chat!row, Chat!operators, ChatInv, ChatTyped
<1>3. l \in ChatLocals /\ l.hist = turns /\ l.seen = screen /\ screen \in Nat
  <2>1. locals[m].hist = turns
    BY <1>1, LocalsOf DEF Follows, Speaking
  <2> QED BY <2>1, LocalsOf DEF ChatLocals, ChatInv, ChatTyped
<1>4. t \in ChatTurn /\ t.role = "preamble" /\ t.of = screen
  BY <1>3 DEF ChatTurn
<1>5. \/ Chat!Shown(l.hist, screen) /\ Chat!Goto(m, "user", l) /\ turns' = turns
      \/ turns' = Append(turns, t) /\ Chat!Goto(m, "user", [l EXCEPT !.hist = Append(l.hist, t)])
  BY DEF Chat!Preamble
<1> HIDE DEF t, l
<1>6. SentOK' /\ ChatRow'
  BY <1>2, <1>4, <1>5, SentStays, ChatRowStays
<1>7. CASE Chat!Shown(l.hist, screen) /\ Chat!Goto(m, "user", l) /\ turns' = turns
  <2>1. Moves(m, "user", l)
    BY <1>2, <1>7 DEF Moves, Chat!Goto, Busy, Speaking
  <2>2. Follows("user", l, turns', m)
    BY <1>3, <1>7 DEF Follows
  <2> QED BY <1>1, <1>2, <1>3, <1>6, <2>1, <2>2, ExchangeKeeps
<1>8. CASE turns' = Append(turns, t) /\ Chat!Goto(m, "user", [l EXCEPT !.hist = Append(l.hist, t)])
  <2>1. PICK h \in Seq(ChatTurn), v \in Nat : h = turns /\ v = screen
    BY <1>2, <1>3
  <2>2. Chat!Shown(Append(h, t), v) /\ Append(h, t) \in Seq(ChatTurn)
    BY <1>4, <2>1, NewlyShown
  <2>3. PICK k : k = [l EXCEPT !.hist = Append(l.hist, t)]
    OBVIOUS
  <2>4. k \in ChatLocals /\ k.hist = Append(h, t) /\ k.seen = v
    BY <1>3, <2>1, <2>2, <2>3 DEF ChatLocals
  <2>5. Moves(m, "user", k)
    BY <1>2, <1>8, <2>3 DEF Moves, Chat!Goto, Busy, Speaking
  <2>6. Follows("user", k, turns', m)
    BY <1>8, <2>1, <2>2, <2>4 DEF Follows
  <2> QED BY <1>1, <1>2, <1>6, <2>4, <2>5, <2>6, ExchangeKeeps
<1> QED BY <1>5, <1>7, <1>8

\* A turn that is recorded by who spoke before.
LEMMA RecordedKeeps ==
  ASSUME ChatInv, NEW m \in Chat!Message, at[m] \in {"user", "call", "tool"},
         NEW t \in ChatTurn, t.role # "preamble", at[m] = "user" => t.role = "user" /\ t.of = m,
         NEW label \in {"resolve", "call", "tool", "save"},
         NEW k \in ChatLocals, k.hist = Append(locals[m].hist, t), k.seen = locals[m].seen, Chat!Goto(m, label, k),
         turns' = Append(turns, t), SentOK', UNCHANGED <<locks, det, spent, max, screen, cancelling>>
  PROVE  ChatInv'
<1>1. PICK l : l = locals[m]
  OBVIOUS
<1>2. /\ l \in ChatLocals /\ l.hist \in Seq(ChatTurn) /\ l.seen \in Nat
      /\ l.hist = turns /\ Chat!Shown(l.hist, l.seen)
      /\ at[m] # "user" => \E i \in 1 .. Len(l.hist) : l.hist[i].role = "user" /\ l.hist[i].of = m
  BY <1>1, LocalsOf DEF Follows, Speaking
<1>3. PICK h \in Seq(ChatTurn), v \in Nat : h = l.hist /\ v = l.seen
  BY <1>2
<1>4. Append(h, t) \in Seq(ChatTurn)
  OBVIOUS
<1>5. k \in ChatLocals /\ k.hist = Append(h, t) /\ k.seen = v
  BY <1>1, <1>3
<1>6. Chat!Shown(Append(h, t), v)
  BY <1>2, <1>3, ShownStays
<1>7. \E i \in 1 .. Len(Append(h, t)) : Append(h, t)[i].role = "user" /\ Append(h, t)[i].of = m
  <2>1. Len(Append(h, t)) = Len(h) + 1 /\ Append(h, t)[Len(h) + 1] = t /\ \A i \in 1 .. Len(h) : Append(h, t)[i] = h[i]
    OBVIOUS
  <2>2. CASE at[m] = "user"
    <3>1. t.role = "user" /\ t.of = m /\ Len(h) + 1 \in 1 .. Len(Append(h, t))
      BY <2>1, <2>2
    <3> QED BY <2>1, <3>1
  <2>3. CASE at[m] # "user"
    <3>1. PICK i \in 1 .. Len(h) : h[i].role = "user" /\ h[i].of = m
      BY <1>2, <1>3, <2>3
    <3>2. i \in 1 .. Len(Append(h, t)) /\ Append(h, t)[i] = h[i]
      BY <2>1
    <3> QED BY <3>1, <3>2
  <2> QED BY <2>2, <2>3
<1>8. Follows(label, k, turns', m)
  BY <1>2, <1>3, <1>5, <1>6, <1>7 DEF Follows
<1>9. Moves(m, label, k) /\ OnTurn(m)
  BY DEF Moves, OnTurn, Chat!Goto, Busy, Speaking
<1>10. ChatRow'
  BY <1>2, <1>3, <1>4, ChatRowStays
<1> QED BY <1>5, <1>8, <1>9, <1>10, ExchangeKeeps

LEMMA TurnsKeep ==
  ASSUME ChatInv, NEW m \in Chat!Message, Chat!UserTurn(m) \/ Chat!ToolResult(m)
  PROVE  ChatInv' /\ sent' = sent
<1>1. PICK role \in {"user", "tool"}, label \in {"resolve", "call"} :
        /\ at[m] \in {"user", "tool"} /\ (at[m] = "user" => role = "user")
        /\ Chat!Recorded(m, [role |-> role, of |-> m], label)
        /\ UNCHANGED <<locks, sent, det, spent, max, screen, cancelling>>
  BY DEF Chat!UserTurn, Chat!ToolResult, Chat!row, Chat!operators
<1>2. PICK t : t = [role |-> role, of |-> m]
  OBVIOUS
<1>3. t \in ChatTurn /\ t.role = role /\ t.of = m /\ role # "preamble"
  BY <1>2, ChatAssumed DEF ChatTurn, Chat!Message, Chat!ConversationAssumption
<1>4. turns' = Append(turns, t) /\ Chat!Goto(m, label, [locals[m] EXCEPT !.hist = Append(locals[m].hist, t)])
  BY <1>1, <1>2 DEF Chat!Recorded
<1>5. SentOK'
  BY <1>1, <1>3, <1>4, SentStays
<1>6. PICK l \in ChatLocals : l = locals[m]
  BY LocalsOf
<1>7. PICK k : k = [l EXCEPT !.hist = Append(l.hist, t)]
  OBVIOUS
<1>8. k \in ChatLocals /\ k.hist = Append(locals[m].hist, t) /\ k.seen = locals[m].seen
  <2>1. Append(l.hist, t) \in Seq(ChatTurn)
    BY <1>3 DEF ChatLocals
  <2>2. PICK h \in Seq(ChatTurn) : h = Append(l.hist, t)
    BY <2>1
  <2>3. [l EXCEPT !.hist = h] \in ChatLocals /\ [l EXCEPT !.hist = h].hist = h /\ [l EXCEPT !.hist = h].seen = l.seen
    BY DEF ChatLocals
  <2> QED BY <1>6, <1>7, <2>2, <2>3
<1>9. Chat!Goto(m, label, k)
  BY <1>4, <1>6, <1>7
<1> QED BY <1>1, <1>3, <1>4, <1>5, <1>8, <1>9, RecordedKeeps

LEMMA CallKeeps ==
  ASSUME ChatInv, NEW m \in Chat!Message, Chat!Call(m)
  PROVE  ChatInv' /\ Chat!Turns(sent') = turns
<1>1. PICK role \in {"ask", "reply"}, c \in Cost :
        /\ turns' = Append(turns, [role |-> role, of |-> m])
        /\ Chat!Goto(m, IF role = "ask" THEN "tool" ELSE "save",
                     [locals[m] EXCEPT !.hist = Append(locals[m].hist, [role |-> role, of |-> m]),
                                       !.spent = locals[m].spent + c])
  BY Zenon DEF Chat!Call
<1>2. PICK t : t = [role |-> role, of |-> m]
  OBVIOUS
<1>3. t \in ChatTurn /\ t.role = role /\ role # "preamble"
  BY <1>2, ChatAssumed DEF ChatTurn, Chat!Message, Chat!ConversationAssumption
<1>4. PICK n \in Nat : n = locals[m].spent + c
  <2>1. c \in Nat /\ locals[m].spent \in Nat
    BY LocalsOf, ChatAssumed DEF Chat!ConversationAssumption
  <2> QED BY <2>1
<1>5. PICK label \in {"tool", "save"} : label = IF role = "ask" THEN "tool" ELSE "save"
  OBVIOUS
<1>6. /\ at[m] = "call" /\ sent' = Chat!Injected(locals[m].hist, m)
      /\ UNCHANGED <<locks, det, spent, max, screen, cancelling>>
  BY DEF Chat!Call, Chat!row, Chat!operators
<1>7. turns' = Append(turns, t)
  BY <1>1, <1>2
<1>8. PICK l \in ChatLocals : l = locals[m]
  BY LocalsOf
<1>9. PICK k : k = [l EXCEPT !.hist = Append(l.hist, t), !.spent = n]
  OBVIOUS
<1>10. k \in ChatLocals /\ k.hist = Append(locals[m].hist, t) /\ k.seen = locals[m].seen
  <2>1. Append(l.hist, t) \in Seq(ChatTurn)
    BY <1>3 DEF ChatLocals
  <2>2. PICK h \in Seq(ChatTurn) : h = Append(l.hist, t)
    BY <2>1
  <2>3. /\ [l EXCEPT !.hist = h, !.spent = n] \in ChatLocals
        /\ [l EXCEPT !.hist = h, !.spent = n].hist = h /\ [l EXCEPT !.hist = h, !.spent = n].seen = l.seen
    BY DEF ChatLocals
  <2> QED BY <1>8, <1>9, <2>2, <2>3
<1>11. Chat!Goto(m, label, k)
  BY <1>1, <1>2, <1>4, <1>5, <1>8, <1>9
<1>12. SentOK' /\ Chat!Turns(sent') = turns
  BY <1>3, <1>6, <1>7, CalledWith
<1> QED BY <1>3, <1>6, <1>7, <1>10, <1>11, <1>12, RecordedKeeps

\* Steps that record nothing and leave the context shown.
LEMMA StepKeeps ==
  ASSUME ChatInv, NEW m \in Chat!Message, at[m] \in Busy, NEW label \in Busy \ {"preamble", "user"},
         label \in Speaking => at[m] \in {"resolve", "call"},
         NEW l \in ChatLocals, Chat!Goto(m, label, l), l.hist = locals[m].hist, l.seen = locals[m].seen,
         SentOK', UNCHANGED <<turns, locks, det, spent, max, screen, cancelling>>
  PROVE  ChatInv'
<1>1. Moves(m, label, l) /\ OnTurn(m)
  BY DEF Moves, OnTurn, Chat!Goto
<1>2. ChatRow'
  BY ChatRowStays DEF ChatInv, ChatTyped
<1>3. Follows(label, l, turns', m)
  BY LocalsOf DEF Follows, Speaking
<1> QED BY <1>1, <1>2, <1>3, ExchangeKeeps

LEMMA ResolveKeeps ==
  ASSUME ChatInv, NEW m \in Chat!Message, Chat!Resolve(m)
  PROVE  ChatInv' /\ sent' = sent
<1>1. at[m] = "resolve" /\ UNCHANGED <<turns, sent, det, spent, max, screen, cancelling>>
  BY DEF Chat!Resolve, Chat!row, Chat!model, Chat!operators
<1>2. SentOK' /\ ChatRow'
  BY <1>1, SentStays, ChatRowStays
<1>3. "resolve" \in Busy /\ "call" \in Busy
  BY DEF Busy, Speaking
<1>4. CASE Chat!Step(m, "call") /\ locks' = locks
  BY <1>1, <1>2, <1>3, <1>4, LocalsOf, StepKeeps DEF Chat!Step
<1>5. CASE Chat!Throw(m)
  BY <1>1, <1>2, <1>3, <1>5, EndKeeps DEF OnTurn
<1> QED BY <1>1, <1>4, <1>5 DEF Chat!Resolve

LEMMA CallFailsKeeps ==
  ASSUME ChatInv, NEW m \in Chat!Message, Chat!CallFails(m)
  PROVE  ChatInv' /\ Chat!Turns(sent') = turns
<1>1. /\ at[m] = "call" /\ sent' = Chat!Injected(locals[m].hist, m) /\ Chat!Goto(m, "error", locals[m])
      /\ UNCHANGED <<turns, locks, det, spent, max, screen, cancelling>>
  BY DEF Chat!CallFails, Chat!row, Chat!operators, Chat!Step
<1>2. SentOK' /\ Chat!Turns(sent') = turns
  BY <1>1, CalledWith
<1>3. "call" \in Busy /\ "error" \in Busy /\ "error" \notin Speaking
  BY DEF Busy, Speaking
<1> QED BY <1>1, <1>2, <1>3, LocalsOf, StepKeeps

LEMMA ReadsKeep ==
  ASSUME ChatInv, NEW m \in Chat!Message, Chat!CallOver(m) \/ Chat!ReadFailed(m)
  PROVE  ChatInv' /\ sent' = sent
<1>1. /\ at[m] \in {"call", "report"}
      /\ UNCHANGED <<turns, locks, sent, det, spent, max, screen, cancelling>>
  BY DEF Chat!CallOver, Chat!ReadFailed, Chat!row, Chat!model, Chat!operators
<1>2. PICK d \in Chat!Detail, l \in ChatLocals : d = det /\ l = locals[m]
  BY LocalsOf DEF ChatInv, ChatTyped
<1>3. PICK label \in {"over", "record"}, k \in {l, [l EXCEPT !.det = d]} : Chat!Goto(m, label, k)
  BY <1>2 DEF Chat!CallOver, Chat!ReadFailed, Chat!Step
<1>4. k \in ChatLocals /\ k.hist = l.hist /\ k.seen = l.seen
  BY <1>2, <1>3 DEF ChatLocals
<1>5. SentOK'
  BY <1>1, SentStays
<1>6. at[m] \in Busy /\ label \in Busy \ {"preamble", "user"} /\ label \notin Speaking
  BY <1>1, <1>3 DEF Busy, Speaking
<1> QED BY <1>1, <1>2, <1>3, <1>4, <1>5, <1>6, StepKeeps

LEMMA SavesKeep ==
  ASSUME ChatInv, NEW m \in Chat!Message,
         Chat!Save(m) \/ Chat!SaveError(m) \/ Chat!SuspendForBudget(m) \/ Chat!RecordFailure(m)
  PROVE  ChatInv' /\ sent' = sent
<1>1. PICK l \in ChatLocals : l = locals[m]
  BY LocalsOf
<1>2. /\ at[m] \in {"save", "error", "over", "record"} /\ UNCHANGED <<turns, sent, screen, cancelling>>
      /\ (spent' = l.spent /\ max' = l.max) \/ UNCHANGED <<spent, max>>
      /\ det' \in {l.det, [l.det EXCEPT !.error = FALSE], [l.det EXCEPT !.error = TRUE]}
      /\ Chat!Throw(m) \/ \E label \in {"answered", "failed"} : Chat!End(m, label)
  BY <1>1 DEF Chat!Save, Chat!SaveError, Chat!SuspendForBudget, Chat!RecordFailure, Chat!FailureNoted,
              Chat!model, Chat!operators
<1>3. l.det \in Chat!Detail /\ l.spent \in Nat /\ l.max \in Nat
  BY DEF ChatLocals
<1>4. PICK d \in Chat!Detail : d = l.det
  BY <1>3
<1>5. det' \in Chat!Detail
  <2>1. [d EXCEPT !.error = FALSE] \in Chat!Detail /\ [d EXCEPT !.error = TRUE] \in Chat!Detail
    BY ErrorSet
  <2> QED BY <1>2, <1>3, <1>4, <2>1, Zenon
<1>6. ChatRow'
  BY <1>2, <1>3, <1>5 DEF ChatRow, ChatInv, ChatTyped
<1>7. OnTurn(m)
  BY <1>2 DEF OnTurn, Busy
<1> QED BY <1>2, <1>6, <1>7, EndKeeps

-----------------------------------------------------------------------------
(***************************************************************************)
(* The others, and the invariant.                                          *)
(***************************************************************************)
LEMMA OperatorsKeep ==
  ASSUME ChatInv, Chat!EditScreen \/ Chat!CancelRead \/ Chat!CancelWrite \/ Chat!Resume \/ Chat!Launch
                  \/ Chat!NoCircuit \/ UNCHANGED chatVars
  PROVE  ChatInv' /\ sent' = sent
<1>1. UNCHANGED <<turns, sent, locks, at, locals>>
  BY DEF Chat!EditScreen, Chat!CancelRead, Chat!CancelWrite, Chat!Resume, Chat!Launch, Chat!NoCircuit, chatVars,
         Chat!chain, Chat!model
<1>2. det \in Chat!Detail /\ max \in Nat /\ cancelling \in SUBSET Chat!Detail /\ MaxEdits \in Nat
  BY ChatAssumed DEF ChatInv, ChatTyped, Chat!ConversationAssumption
<1>3. ChatRow'
  <2>1. CASE Chat!EditScreen
    BY <1>1, <1>2, <2>1 DEF Chat!EditScreen, Chat!row, ChatRow, ChatInv, ChatTyped
  <2>2. CASE Chat!CancelRead
    BY <1>1, <1>2, <2>2 DEF Chat!CancelRead, Chat!row, ChatRow, ChatInv, ChatTyped
  <2>3. CASE Chat!CancelWrite
    BY <1>1, <1>2, <2>3 DEF Chat!CancelWrite, ChatRow, ChatInv, ChatTyped
  <2>4. CASE Chat!Resume
    BY <1>1, <1>2, <2>4, NoLocalsOfChat DEF Chat!Resume, ChatRow, ChatInv, ChatTyped
  <2>5. CASE Chat!Launch \/ UNCHANGED chatVars
    BY <1>1, <1>2, <2>5 DEF Chat!Launch, chatVars, ChatRow, ChatInv, ChatTyped
  <2>6. CASE Chat!NoCircuit
    BY <1>1, <1>2, <2>6, NoLocalsOfChat DEF Chat!NoCircuit, ChatRow, ChatInv, ChatTyped
  <2> QED BY <2>1, <2>2, <2>3, <2>4, <2>5, <2>6
<1>4. SentOK'
  BY <1>1, SentStays
<1>5. Chain' /\ Exchanges'
  BY <1>1 DEF ChatInv, Chain, InChain, Exchanges, Follows
<1> QED BY <1>1, <1>3, <1>4, <1>5 DEF ChatInv, ChatTyped, ChatRow

LEMMA RestartKeeps ==
  ASSUME ChatInv, Chat!Crash
  PROVE  ChatInv' /\ sent' = sent
<1>1. /\ UNCHANGED <<turns, sent, det, spent, max, screen>> /\ cancelling' = {} /\ locks' = << >>
      /\ at' = [m \in Chat!Message |-> IF at[m] \in {"idle"} \cup Chat!Ended THEN at[m] ELSE "lost"]
      /\ locals' = [m \in Chat!Message |-> Chat!NoLocals]
  BY DEF Chat!Crash, Chat!row, Chat!model
<1>2. at' \in [Chat!Message -> {"idle"} \cup Chat!Ended]
  BY <1>1 DEF Chat!Ended
<1>3. \A x \in {"idle"} \cup Chat!Ended : x \notin Busy /\ x # "wait" /\ x \notin Speaking
  BY DEF Busy, Speaking, Chat!Ended
<1>4. Chain' /\ Exchanges'
  BY <1>2, <1>3 DEF Chain, Exchanges, Follows
<1>5. SentOK'
  BY <1>1, SentStays
<1>6. locals' \in [Chat!Message -> ChatLocals] /\ locks' \in Seq(Chat!Message)
  BY <1>1, NoLocalsOfChat
<1>7. ChatTyped'
  BY <1>1, <1>2, <1>6 DEF ChatTyped, ChatInv
<1> QED BY <1>1, <1>4, <1>5, <1>7 DEF ChatInv

LEMMA ChatNext ==
  ASSUME ChatInv, Chat!Next \/ UNCHANGED chatVars
  PROVE  ChatInv' /\ (sent' = sent \/ Chat!Turns(sent') = turns)
<1>1. ASSUME NEW m \in Chat!Message, Chat!Post(m)
      PROVE  ChatInv' /\ sent' = sent
  BY <1>1, PostKeeps
<1>2. ASSUME NEW m \in Chat!Message, Chat!Exchange(m)
      PROVE  ChatInv' /\ (sent' = sent \/ Chat!Turns(sent') = turns)
  BY <1>2, BeginKeeps, PreambleKeeps, TurnsKeep, ResolveKeeps, CallKeeps, CallFailsKeeps, ReadsKeep, SavesKeep
     DEF Chat!Exchange
<1> QED BY <1>1, <1>2, OperatorsKeep, RestartKeeps DEF Chat!Next

LEMMA ChatInit == Chat!Init => ChatInv
<1> SUFFICES ASSUME Chat!Init PROVE ChatInv
  OBVIOUS
<1>1. /\ turns = << >> /\ sent = << >> /\ locks = << >> /\ cancelling = {} /\ spent = 0 /\ screen = 0
      /\ at = [m \in Chat!Message |-> "idle"] /\ locals = [m \in Chat!Message |-> Chat!NoLocals]
      /\ det = [error |-> FALSE, subagent |-> TRUE] /\ max \in Nat
  BY ChatAssumed DEF Chat!Init, Chat!ConversationAssumption
<1>2. ChatTyped
  BY <1>1, NoLocalsOfChat DEF ChatTyped
<1>3. Chain /\ Exchanges
  BY <1>1 DEF Chain, Exchanges, Follows, Busy, Speaking
<1>4. PICK s \in Seq(ChatTurn) : s = << >>
  <2>1. << >> \in Seq(ChatTurn)
    OBVIOUS
  <2> QED BY <2>1
<1>5. Chat!Turns(sent) = s
  BY <1>1, <1>4 DEF Chat!Turns, Chat!IsNote
<1>6. SentOK
  BY <1>1, <1>4, <1>5, PrefixSelf DEF SentOK
<1> QED BY <1>2, <1>3, <1>6 DEF ChatInv

LEMMA IntakeChat ==
  /\ IntakeInit => ChatInv
  /\ ChatInv /\ [IntakeNext]_IntakeVars => ChatInv' /\ (sent' = sent \/ Chat!Turns(sent') = turns)
<1>1. IntakeInit => ChatInv
  BY ChatInit DEF IntakeInit
<1>2. IntakeNext \/ UNCHANGED IntakeVars => Chat!Next \/ UNCHANGED chatVars
  BY DEF IntakeNext, IntakeVars
<1> QED BY <1>1, <1>2, ChatNext

\* A message is answered with the context its user has on the screen when its exchange begins, for
\* any number of messages, edits and restarts: no other exchange can record one meanwhile, and what
\* an exchange has of the record is the record (serialized(), postLocked()).
THEOREM ContextAlwaysCurrent == IntakeSpec => []ContextIsCurrent
<1>1. ChatInv => ContextIsCurrent
  BY DEF ChatInv, Exchanges, Follows, Speaking, ContextIsCurrent, Chat!ContextIsCurrent
<1> QED BY <1>1, IntakeChat, PTL DEF IntakeSpec

\* Of the recorded turns, what the model is called with extends what it was called with before, for
\* any messages, costs, notes, failures and restarts: nothing of the record is ever dropped or
\* rewritten, and an injected note comes out again where it went in (recordTurn(), injectKnowledge()).
THEOREM TurnsOnlyGrow == IntakeSpec => TurnsGrow
<1>1. ChatInv /\ (sent' = sent \/ Chat!Turns(sent') = turns) => [Chat!IsPrefix(Chat!Turns(sent), Chat!Turns(sent'))]_Chat!vars
  <2> SUFFICES ASSUME ChatInv, sent' = sent \/ Chat!Turns(sent') = turns
               PROVE  Chat!IsPrefix(Chat!Turns(sent), Chat!Turns(sent'))
    OBVIOUS
  <2>1. PICK r \in Seq(ChatTurn) : r = Chat!Turns(sent)
    BY DEF ChatInv, SentOK
  <2>2. Chat!IsPrefix(r, r) /\ Chat!IsPrefix(r, turns)
    BY <2>1, PrefixSelf DEF ChatInv, SentOK
  <2>3. PICK s : s = sent'
    OBVIOUS
  <2>4. Chat!Turns(s) = r \/ Chat!Turns(s) = turns
    BY <2>1, <2>3
  <2>5. Chat!IsPrefix(r, Chat!Turns(s))
    BY <2>2, <2>4
  <2> QED BY <2>1, <2>3, <2>5
<1> QED BY <1>1, IntakeChat, PTL DEF IntakeSpec, TurnsGrow, Chat!TurnsGrow
=============================================================================
