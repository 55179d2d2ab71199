------------------------------ MODULE TaskIntake ------------------------------
(***************************************************************************)
(* The tasks of the intake queue: TaskServiceImpl                          *)
(* (src/packages/server/src/intake/tasks.ts) with the status writes of the *)
(* run loops and operator calls.                                           *)
(*                                                                         *)
(* A status write is three statements: writeStatus() reads the task, the   *)
(* patch() it calls reads it again and then updates every property, so     *)
(* that two writers may overlap in any way.  Every other change of a task  *)
(* (promote, mark-reviewed, the tags of the duplicate search and of a      *)
(* cancelled run) is such a patch without the first read: a "touch".  What *)
(* a session does inside is the module Orchestrator's; here it is admitted,*)
(* hands its task to a handling circuit, parks, fails and completes.       *)
(***************************************************************************)
EXTENDS Naturals, Sequences, FiniteSets, SequencesExt

CONSTANTS
  Task, Session,
  Operator,     \* concurrent calls of the API
  Pass,         \* the dispatcher's pass over the queued tasks
  None,
  Blockers,     \* [Task -> SUBSET Task]: depends-on, and blocks the other way round
  Targeted,     \* tasks with a target_circuit: they bypass triage
  Ops,          \* bound: which operator calls are made
  KeepHistory,  \* the length to which status_history is cut
  MaxCalls, MaxCrash   \* bounds: operator calls, and crashes

Status == {"draft", "queued", "triaging", "active", "gated", "done", "rejected"}

ASSUME TaskAssumption ==
  /\ IsFiniteSet(Task) /\ Blockers \in [Task -> SUBSET Task]
  /\ Targeted \subseteq Task
  /\ {KeepHistory, MaxCalls, MaxCrash} \subseteq Nat /\ KeepHistory > 0
  /\ Pass \notin Session \cup Operator /\ Session \cap Operator = {}
  /\ None \notin Session \cup Operator \cup Task \cup Status

Thread == Session \cup Operator \cup {Pass}

VARIABLES
  node,     \* the task nodes: status and status_history
  gone,     \* tasks that are soft-deleted
  task, st, \* the sessions: their task, their state
  begun,    \* sessions with started_at
  handed,   \* sessions whose triage circuit has called a handling circuit
  pc, loc,  \* where each thread is, and its locals
  todo,     \* what is left of the rows of the pass
  calls, crashes,
  wasDone   \* history: the tasks that were done or deleted at some time

rows == <<node, gone, wasDone>>
sessions == <<task, st, begun, handed>>
bounds == <<calls, crashes>>
vars == <<rows, sessions, pc, loc, todo, bounds>>

Active == {"queued", "running", "gated", "error"}     \* ACTIVE_SESSION_STATES
Label == {"idle", "read", "merge", "write", "run", "others",
          "task", "active", "deps", "enqueue"}

\* A task that does not exist yet has status None.
Node == [status : Status \cup {None}, hist : Seq(Status \X Status)]

\* A write under way: the status it brings (None for a touch), the rows its two
\* reads found, and where the thread goes on.
Locals == [task : Task \cup {None}, to : Status \cup {None}, hist : Seq(Status \X Status),
           old : Node, then : Label]
NoNode == [status |-> None, hist |-> << >>]
NoLocals == [task |-> None, to |-> None, hist |-> << >>, old |-> NoNode, then |-> "idle"]

TypeOK ==
  /\ node \in [Task -> Node] /\ \A t \in Task : Len(node[t].hist) <= KeepHistory
  /\ gone \subseteq Task /\ wasDone \subseteq Task
  /\ task \in [Session -> Task \cup {None}]
  /\ st \in [Session -> Active \cup {"none", "completed", "cancelled"}]
  /\ begun \subseteq Session /\ handed \subseteq Session
  /\ pc \in [Thread -> Label] /\ loc \in [Thread -> Locals]
  /\ todo \in Seq(Task)
  /\ calls \in 0 .. MaxCalls /\ crashes \in 0 .. MaxCrash

Init ==
  /\ node = [t \in Task |-> NoNode] /\ gone = {} /\ wasDone = {}
  /\ task = [s \in Session |-> None] /\ st = [s \in Session |-> "none"]
  /\ begun = {} /\ handed = {}
  /\ pc = [th \in Thread |-> "idle"] /\ loc = [th \in Thread |-> NoLocals]
  /\ todo = << >>
  /\ calls = 0 /\ crashes = 0

Exists(t) == node[t].status # None /\ t \notin gone
Goto(th, label) == pc' = [pc EXCEPT ![th] = label]

-------------------------------------------------------------------------------
(***************************************************************************)
(* A write of a task: writeStatus() from its read on, or patch() alone.    *)
(***************************************************************************)
SetStatus(th, t, to, then) ==
  /\ Goto(th, "read")
  /\ loc' = [loc EXCEPT ![th] = [NoLocals EXCEPT !.task = t, !.to = to, !.then = then]]

Touch(th, t, then) ==
  /\ Goto(th, "merge")
  /\ loc' = [loc EXCEPT ![th] = [NoLocals EXCEPT !.task = t, !.then = then]]

Ended(th) == Goto(th, loc[th].then) /\ loc' = [loc EXCEPT ![th] = NoLocals]

\* What writeStatus() makes of the row it read: no entry for a status that is there.
NewHistory(n, to) ==
  IF n.status = to THEN n.hist
  ELSE LET h == Append(n.hist, <<n.status, to>>)
       IN  SubSeq(h, IF Len(h) > KeepHistory THEN Len(h) - KeepHistory + 1 ELSE 1, Len(h))

\* writeStatus(): the row is read, the history computed.  A node that is gone
\* ends the write; the callers log that or pass it on.
ReadStatus(th) ==
  LET t == loc[th].task IN
  /\ pc[th] = "read"
  /\ IF Exists(t)
     THEN /\ Goto(th, "merge")
          /\ loc' = [loc EXCEPT ![th].hist = NewHistory(node[t], loc[th].to)]
     ELSE Ended(th)
  /\ UNCHANGED <<rows, sessions, todo, bounds>>

\* patch(): the row is read again.
ReadNode(th) ==
  LET t == loc[th].task IN
  /\ pc[th] = "merge"
  /\ IF Exists(t)
     THEN Goto(th, "write") /\ loc' = [loc EXCEPT ![th].old = node[t]]
     ELSE Ended(th)
  /\ UNCHANGED <<rows, sessions, todo, bounds>>

\* Mutant: the row's history is written back beside the new status.
MergedHistory(old, to, hist) ==
  IF to = None THEN old ELSE [status |-> to, hist |-> old.hist]

\* patch(): every property is written, those of the row it read and the new ones.
Merged(old, to, hist) ==
  IF to = None THEN old ELSE [status |-> to, hist |-> hist]

WriteNode(th) ==
  LET l == loc[th] IN
  /\ pc[th] = "write"
  /\ node' = [node EXCEPT ![l.task] = Merged(l.old, l.to, l.hist)]
  /\ wasDone' = IF node'[l.task].status = "done" THEN wasDone \cup {l.task} ELSE wasDone
  /\ Ended(th) /\ UNCHANGED <<gone, sessions, todo, bounds>>

Write(th) == ReadStatus(th) \/ ReadNode(th) \/ WriteNode(th)

-------------------------------------------------------------------------------
(***************************************************************************)
(* Operator calls.  Each of them tests the status it reads first.          *)
(***************************************************************************)
Call(o, op) == op \in Ops /\ pc[o] = "idle" /\ calls < MaxCalls /\ calls' = calls + 1

\* create(): then the search for duplicates may tag the new node.
Create(o, t) ==
  /\ Call(o, "create") /\ node[t].status = None
  /\ \A b \in Blockers[t] : node[b].status # None    \* edges are to nodes that exist
  /\ \E status \in {"draft", "queued"} : node' = [node EXCEPT ![t].status = status]
  /\ Touch(o, t, "idle") \/ UNCHANGED <<pc, loc>>
  /\ UNCHANGED <<gone, wasDone, sessions, todo, crashes>>

Accept(o, t) ==
  /\ Call(o, "accept") /\ Exists(t) /\ node[t].status = "draft"
  /\ SetStatus(o, t, "queued", "idle")
  /\ UNCHANGED <<rows, sessions, todo, crashes>>

Reject(o, t) ==
  /\ Call(o, "reject") /\ Exists(t) /\ node[t].status \notin {"done", "rejected"}
  /\ SetStatus(o, t, "rejected", "idle")
  /\ UNCHANGED <<rows, sessions, todo, crashes>>

\* promote() and markReviewed(), of a task in any status.
Promote(o, t) ==
  /\ Call(o, "promote") /\ Exists(t)
  /\ Touch(o, t, "idle")
  /\ UNCHANGED <<rows, sessions, todo, crashes>>

\* discard(), and the archiving of drafts that nobody has changed for long.
SoftDelete(t) == gone' = gone \cup {t} /\ wasDone' = wasDone \cup {t} /\ UNCHANGED node

Discard(o, t) ==
  /\ Call(o, "discard") /\ Exists(t) /\ node[t].status = "draft"
  /\ SoftDelete(t) /\ UNCHANGED <<sessions, pc, loc, todo, crashes>>

Archive(t) ==
  /\ "archive" \in Ops /\ Exists(t) /\ node[t].status = "draft"
  /\ SoftDelete(t) /\ UNCHANGED <<sessions, pc, loc, todo, bounds>>

\* gateVerdict(): the session is queued, then the task's status is written.
Verdict(o, s) ==
  /\ Call(o, "verdict") /\ st[s] = "gated"
  /\ st' = [st EXCEPT ![s] = "queued"]
  /\ SetStatus(o, task[s], "active", "idle")
  /\ UNCHANGED <<rows, task, begun, handed, todo, crashes>>

Retry(o, s) ==
  /\ Call(o, "retry") /\ st[s] = "error"
  /\ st' = [st EXCEPT ![s] = "queued"]
  /\ UNCHANGED <<rows, task, begun, handed, pc, loc, todo, crashes>>

\* cancel(): the session is cancelled, then its task is tagged.
Cancel(o, s) ==
  /\ Call(o, "cancel") /\ st[s] \in Active
  /\ st' = [st EXCEPT ![s] = "cancelled"]
  /\ Touch(o, task[s], "idle")
  /\ UNCHANGED <<rows, task, begun, handed, todo, crashes>>

OnTask(o, t) == Create(o, t) \/ Accept(o, t) \/ Reject(o, t) \/ Promote(o, t) \/ Discard(o, t)
OnSession(o, s) == Verdict(o, s) \/ Retry(o, s) \/ Cancel(o, s)

-------------------------------------------------------------------------------
(***************************************************************************)
(* The pass of the dispatcher: dispatchQueued().                           *)
(***************************************************************************)
Queued == {t \in Task : Exists(t) /\ node[t].status = "queued"}

StartPass ==
  /\ pc[Pass] = "idle" /\ Queued # {}
  /\ todo' \in SetToSeqs(Queued)
  /\ Goto(Pass, "task")
  /\ UNCHANGED <<rows, sessions, loc, bounds>>

\* Mutant: a row that is not dispatched is looked at again.
SkipStays == Goto(Pass, "task") /\ UNCHANGED todo

\* The next row of the pass, or its end.
Next1 == IF Len(todo) > 1 THEN "task" ELSE "idle"
Skip == Goto(Pass, Next1) /\ todo' = Tail(todo)

ReadTask ==
  /\ pc[Pass] = "task"
  /\ IF Head(todo) \in Queued THEN Goto(Pass, "active") /\ UNCHANGED todo ELSE Skip
  /\ UNCHANGED <<rows, sessions, loc, bounds>>

\* Mutant: a session that waits for its slot does not count.
HasActiveStarted(t) == \E s \in Session : task[s] = t /\ st[s] \in Active \ {"queued"}

HasActive(t) == \E s \in Session : task[s] = t /\ st[s] \in Active

CheckActive ==
  /\ pc[Pass] = "active"
  /\ IF HasActive(Head(todo)) THEN Skip ELSE Goto(Pass, "deps") /\ UNCHANGED todo
  /\ UNCHANGED <<rows, sessions, loc, bounds>>

\* Mutant: a blocking task only has to be under way.
DependenciesTaken(t) == \A d \in Blockers[t] : Exists(d) => node[d].status # "queued"

DependenciesDone(t) == \A d \in Blockers[t] : Exists(d) => node[d].status = "done"

CheckDeps ==
  /\ pc[Pass] = "deps"
  /\ IF DependenciesDone(Head(todo)) THEN Goto(Pass, "enqueue") /\ UNCHANGED todo ELSE Skip
  /\ UNCHANGED <<rows, sessions, loc, bounds>>

\* enqueue(); a task that goes to triage says so at once.
Enqueue ==
  LET t == Head(todo) IN
  /\ pc[Pass] = "enqueue"
  /\ \E s \in Session :
       /\ st[s] = "none"
       /\ st' = [st EXCEPT ![s] = "queued"] /\ task' = [task EXCEPT ![s] = t]
  /\ todo' = Tail(todo)
  /\ IF t \in Targeted THEN Goto(Pass, Next1) /\ UNCHANGED loc
                       ELSE SetStatus(Pass, t, "triaging", Next1)
  /\ UNCHANGED <<rows, begun, handed, bounds>>

\* The circuit or the settings do not load, until somebody repairs them: the task
\* stays queued.
EnqueueFails ==
  /\ pc[Pass] = "enqueue" /\ "config" \in Ops
  /\ calls < MaxCalls /\ calls' = calls + 1
  /\ Skip /\ UNCHANGED <<rows, sessions, loc, crashes>>

Dispatch == StartPass \/ ReadTask \/ CheckActive \/ CheckDeps \/ Enqueue \/ EnqueueFails

-------------------------------------------------------------------------------
(***************************************************************************)
(* Sessions.                                                               *)
(***************************************************************************)
\* run(): the first run of a session writes its task's status.
Admit(s) ==
  /\ st[s] = "queued" /\ pc[s] = "idle"
  /\ st' = [st EXCEPT ![s] = "running"] /\ begun' = begun \cup {s}
  /\ IF s \in begun THEN Goto(s, "run") /\ UNCHANGED loc
     ELSE SetStatus(s, task[s], IF task[s] \in Targeted THEN "active" ELSE "triaging", "run")
  /\ UNCHANGED <<rows, task, handed, todo, bounds>>

\* A triage circuit calls a handling circuit, whose first run writes the status.
Hand(s) ==
  /\ pc[s] = "run" /\ st[s] = "running" /\ task[s] \notin Targeted /\ s \notin handed
  /\ handed' = handed \cup {s}
  /\ SetStatus(s, task[s], "active", "run")
  /\ UNCHANGED <<rows, task, st, begun, todo, bounds>>

\* runGate(): the session is suspended, then the task's status is written.
Park(s) ==
  /\ pc[s] = "run" /\ st[s] = "running"
  /\ st' = [st EXCEPT ![s] = "gated"]
  /\ SetStatus(s, task[s], "gated", "idle")
  /\ UNCHANGED <<rows, task, begun, handed, todo, bounds>>

Fail(s) ==
  /\ "retry" \in Ops /\ pc[s] = "run" /\ st[s] = "running"
  /\ st' = [st EXCEPT ![s] = "error"] /\ Goto(s, "idle")
  /\ UNCHANGED <<rows, task, begun, handed, loc, todo, bounds>>

\* complete(): the session is completed, ...
Complete(s) ==
  /\ pc[s] = "run" /\ st[s] = "running"
  /\ st' = [st EXCEPT ![s] = "completed"] /\ Goto(s, "others")
  /\ UNCHANGED <<rows, task, begun, handed, loc, todo, bounds>>

\* ... and its task is done unless another session is at work on it.
CloseTask(s) ==
  /\ pc[s] = "others"
  /\ IF HasActive(task[s]) THEN Goto(s, "idle") /\ UNCHANGED loc
                           ELSE SetStatus(s, task[s], "done", "idle")
  /\ UNCHANGED <<rows, sessions, todo, bounds>>

\* The loop of a cancelled session ends at its next look at the row.
Stop(s) ==
  /\ pc[s] = "run" /\ st[s] = "cancelled"
  /\ Goto(s, "idle") /\ UNCHANGED <<rows, sessions, loc, todo, bounds>>

Run(s) == Admit(s) \/ Hand(s) \/ Park(s) \/ Fail(s) \/ Complete(s) \/ CloseTask(s) \/ Stop(s)

\* A restart: recover() queues what was running; every write under way is lost.
Crash ==
  /\ crashes < MaxCrash /\ crashes' = crashes + 1
  /\ st' = [s \in Session |-> IF st[s] = "running" THEN "queued" ELSE st[s]]
  /\ pc' = [th \in Thread |-> "idle"] /\ loc' = [th \in Thread |-> NoLocals]
  /\ todo' = << >>
  /\ UNCHANGED <<rows, task, begun, handed, calls>>

Next ==
  \/ \E o \in Operator : (\E t \in Task : OnTask(o, t)) \/ (\E s \in Session : OnSession(o, s))
  \/ \E t \in Task : Archive(t)
  \/ \E th \in Thread : Write(th)
  \/ \E s \in Session : Run(s)
  \/ Dispatch \/ Crash

Spec == Init /\ [][Next]_vars

\* Statements are answered, a pass is repeated (the dispatcher's timer), its
\* sessions are admitted and come to an end.  Nobody has to call anything, no
\* circuit has to park or to call another, and the order of the rows, by
\* priority, is the same in every pass.
Fairness ==
  /\ \A th \in Thread : WF_vars(Write(th))
  /\ WF_vars(StartPass) /\ WF_vars(ReadTask \/ CheckActive \/ CheckDeps) /\ WF_vars(Enqueue)
  /\ \A s \in Session : WF_vars(Admit(s)) /\ WF_vars(Complete(s)) /\ WF_vars(CloseTask(s))
                        /\ WF_vars(Stop(s))

FairSpec == Spec /\ Fairness
-------------------------------------------------------------------------------
(***************************************************************************)
(* Properties.                                                             *)
(***************************************************************************)
\* Two sessions never work on one task: the pass looks for an active session a
\* few statements before it enqueues, and the task stays queued until the late
\* write of its status, or for a targeted task until its first run.
OneRun ==
  \A r, s \in Session : r # s /\ task[r] = task[s] => st[r] \notin Active \/ st[s] \notin Active

\* A session is enqueued only when every task that blocks its own was done, or
\* deleted, at some time.
DependenciesHonoured ==
  \A s \in Session : st[s] # "none" => Blockers[task[s]] \subseteq wasDone

\* However writes overlap, status_history is a chain that ends at the status the
\* task has, and empty only for the status it was created with; the age in the
\* queue that users see is read from it.
HistoryFits ==
  \A t \in Task :
    LET h == node[t].hist IN
    IF h = << >> THEN node[t].status \in {None, "draft", "queued"}
    ELSE h[Len(h)][2] = node[t].status /\ \A i \in 1 .. Len(h) - 1 : h[i][2] = h[i + 1][1]

\* A queued task that nothing blocks is taken up, rejected or archived.
SessionLeft == \E s \in Session : st[s] = "none"
Ready(t) == t \in Queued /\ DependenciesDone(t) /\ SessionLeft
Served == \A t \in Task : Ready(t) ~> ~Ready(t) \/ HasActive(t)
===============================================================================
