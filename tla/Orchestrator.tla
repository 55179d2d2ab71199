----------------------------- MODULE Orchestrator -----------------------------
(***************************************************************************)
(* The session orchestrator: OrchestratorImpl                              *)
(* (src/packages/server/src/orchestrator/orchestrator.ts).                 *)
(*                                                                         *)
(* One server process runs many asynchronous handlers over one Postgres    *)
(* database.  A handler is a thread here: one run loop per session, one    *)
(* thread per concurrent operator call (cancel, retry, resume, manual      *)
(* route, gate verdict) and one thread for the recovery pass at boot.  An  *)
(* action is what a thread does between two awaits after which another     *)
(* thread, or a crash, can make a difference; neighbouring awaits that     *)
(* nothing can distinguish are one action, and its comment says which.     *)
(***************************************************************************)
EXTENDS Naturals, Sequences, FiniteSets

CONSTANTS
  Session,        \* session ids, used and not yet used
  Root,           \* the sessions enqueued for a task or an API call
  Operator,       \* concurrent API calls
  Boot,           \* the recovery pass
  None,           \* null
  Step,           \* step ids of all circuits
  Done,           \* the target "$<exit>": the circuit's own exit
  Circuit,
  RootCircuit,    \* the circuit the roots run
  Entry,          \* [Circuit -> Step]
  Kind,           \* [Step -> {"llm", "code", "gate", "circuit"}]
  Exits,          \* [Step -> SUBSET exit names]
  Target,         \* [Step -> [exit name -> Step \cup {Done}]]
  ChildCircuit,   \* [Step -> Circuit], read for circuit steps
  MaxVisits,      \* max_visits
  MaxTries,       \* retry.max_attempts
  Ops,            \* which operator calls are made
  Faults,         \* which failures of the environment happen
  MaxCalls,       \* bound: operator calls in a behaviour
  MaxCrash        \* bound: process crashes in a behaviour

Thread == Session \cup Operator \cup {Boot}
ExitName == UNION {Exits[x] : x \in Step}

ASSUME ThreadsAssumption ==
  /\ IsFiniteSet(Session)
  /\ Root \subseteq Session
  /\ Session \cap Operator = {}
  /\ Boot \notin Session \cup Operator
  /\ None \notin Session \cup Operator \cup Step \cup ExitName
  /\ Done \notin Step

ASSUME CircuitAssumption ==
  /\ RootCircuit \in Circuit
  /\ Entry \in [Circuit -> Step]
  /\ Kind \in [Step -> {"llm", "code", "gate", "circuit"}]
  /\ \A x \in Step : Target[x] \in [Exits[x] -> Step \cup {Done}]
  /\ ChildCircuit \in [Step -> Circuit]

ASSUME BoundAssumption ==
  /\ MaxVisits \in Nat \ {0}
  /\ MaxTries \in Nat \ {0}
  /\ MaxCalls \in Nat
  /\ MaxCrash \in Nat

State == {"none", "queued", "running", "suspended-gate", "suspended-error",
          "completed", "cancelled"}
Live == {"queued", "running"}
Suspended == {"suspended-gate", "suspended-error"}
Terminal == {"completed", "cancelled"}

VARIABLES
  \* table sessions
  st,         \* state; "none" before the row exists
  det,        \* state_detail
  parent,     \* parent_session
  circ,       \* circuit_uid
  \* table session_events, kept as the fold rebuild() makes of it
  cur,        \* the cursor: the last step started or exited
  visits,     \* visits of each step
  attempts,   \* the highest attempt started of each step
  exits,      \* <<step, attempt, visit>> of each exited checkpoint event
  \* the other tables
  rows,       \* step_checkpoints: one record per (step, attempt)
  open,       \* need-input requests open on nodes: <<session, step, attempt>>
  \* the process
  pc,         \* where each thread is
  loc,        \* the locals of each thread
  mVisits,    \* ctx.visits of each run loop
  mAttempts,  \* ctx.maxAttempt of each run loop
  tx,         \* the transition() call a thread is in
  stack,      \* recursion of cancel and retry; the session a call is about
  lock,       \* gateLocks: the operator holding a session's gate
  phase,      \* "recover" until recover() has returned, then "up"
  todo,       \* sessions recover() has still to handle
  calls, crashes

sessionRows == <<st, det, parent, circ>>
log == <<cur, visits, attempts, exits>>
ctx == <<mVisits, mAttempts>>
boot == <<phase, todo, crashes>>
vars == <<sessionRows, log, rows, open, pc, loc, ctx, tx, stack, lock, boot, calls>>

(***************************************************************************)
(* Records.                                                                *)
(***************************************************************************)
Reason == {"none", "gate", "child-gated", "child-error", "child-cancelled",
           "exit-unmapped", "retries-exhausted", "max-visits-exceeded",
           "budget-exceeded", "config-error", "exit-output-invalid",
           "gate-no-artifacts", "cancelled", "resumed", "recovered"}
Detail == [why : Reason, kid : Session \cup {None},
           step : Step \cup {None}, att : Nat, visit : Nat]
Cursor == [step : Step \cup {None}, att : Nat, visit : Nat, kid : Session \cup {None},
           status : {"none", "running", "exited", "failed"}, exit : ExitName \cup {None}]
RowRec == [step : Step, att : Nat, status : {"running", "linked", "exited", "failed"}]
Locals == [step : Step \cup {None}, att : Nat, visit : Nat, tries : Nat,
           exit : ExitName \cup {None}, kid : Session \cup {None}, seen : State,
           reason : Reason, retry : BOOLEAN, reattach : BOOLEAN]
\* Where a thread is: in a transition(), in a run loop, in an operator call.
Returns == {"idle", "end", "done", "again", "position", "retry-queue"}
Label == Returns \cup
  {"check", "write", "settle", "dead",
   "assert", "work", "spawn", "link-row", "link-log", "wait", "gate", "complete",
   "exit-log", "exit-row",
   "cancel-write", "cancel-children", "cancel-next", "retry-read", "retry-child", "verdict"}
Call == [who : Session \cup {None}, to : State, det : Detail,
         wake : BOOLEAN, then : Returns]

Plain(why) == [why |-> why, kid |-> None, step |-> None, att |-> 0, visit |-> 0]
NoCursor == [step |-> None, att |-> 0, visit |-> 0, kid |-> None,
             status |-> "none", exit |-> None]
NoLocals == [step |-> None, att |-> 0, visit |-> 0, tries |-> 0, exit |-> None,
             kid |-> None, seen |-> "none", reason |-> "none",
             retry |-> FALSE, reattach |-> FALSE]
NoCall == [who |-> None, to |-> "none", det |-> Plain("none"),
           wake |-> FALSE, then |-> "idle"]
\* An empty Map, read with "?? 0".  (Mutant: read without.)
NoCountsUndefined == [x \in Step |-> None]
NoCounts == [x \in Step |-> 0]

Init ==
  /\ st = [s \in Session |-> IF s \in Root THEN "queued" ELSE "none"]
  /\ det = [s \in Session |-> Plain("none")]
  /\ parent = [s \in Session |-> None]
  /\ circ = [s \in Session |-> RootCircuit]
  /\ cur = [s \in Session |-> NoCursor]
  /\ visits = [s \in Session |-> NoCounts]
  /\ attempts = [s \in Session |-> NoCounts]
  /\ exits = [s \in Session |-> {}]
  /\ rows = [s \in Session |-> {}]
  /\ open = {}
  /\ pc = [t \in Thread |-> "idle"]
  /\ loc = [t \in Thread |-> NoLocals]
  /\ mVisits = [s \in Session |-> NoCounts]
  /\ mAttempts = [s \in Session |-> NoCounts]
  /\ tx = [t \in Thread |-> NoCall]
  /\ stack = [o \in Operator |-> << >>]
  /\ lock = [s \in Session |-> None]
  /\ phase = "up" /\ todo = {}
  /\ calls = 0 /\ crashes = 0

-------------------------------------------------------------------------------
(***************************************************************************)
(* transition(): read the row (a cancelled session raises                  *)
(* CancelledSignal), update it, wake the parent of a child that settled.   *)
(* The read and the update are two statements with an await between them;  *)
(* the update does not test what was read.                                 *)
(***************************************************************************)
Goto(t, label) == pc' = [pc EXCEPT ![t] = label]

Transition(t, s, to, d, then) ==
  /\ tx' = [tx EXCEPT ![t] = [who |-> s, to |-> to, det |-> d, wake |-> FALSE, then |-> then]]
  /\ Goto(t, "check")

\* Where a CancelledSignal lands: swallowed in a wake-up, else it ends the
\* run loop or the operator call quietly; nothing catches it in recover().
OnSignal(t) ==
  IF tx[t].wake THEN tx[t].then
  ELSE IF t \in Session THEN "end" ELSE IF t = Boot THEN "dead" ELSE "done"

TxCheck(t) ==
  /\ pc[t] = "check"
  /\ Goto(t, IF st[tx[t].who] = "cancelled" THEN OnSignal(t) ELSE "write")
  /\ UNCHANGED <<sessionRows, log, rows, open, loc, ctx, tx, stack, lock, boot, calls>>

\* A session whose new state wakes a parent parked behind it.
Wakes(s, to, d) ==
  /\ parent[s] # None
  /\ to \in {"completed", "suspended-error"} \/ (to = "queued" /\ d.why = "resumed")

TxWrite(t) ==
  LET c == tx[t] IN
  /\ pc[t] = "write"
  /\ st' = [st EXCEPT ![c.who] = c.to]
  /\ det' = [det EXCEPT ![c.who] = c.det]
  /\ Goto(t, IF Wakes(c.who, c.to, c.det) THEN "settle" ELSE c.then)
  /\ UNCHANGED <<parent, circ, log, rows, open, loc, ctx, tx, stack, lock, boot, calls>>

\* onChildSettled: a parent still parked behind this child is queued again,
\* through a transition() of its own that may wake the grandparent.
Settle(t) ==
  LET c == tx[t]
      p == parent[c.who]
  IN /\ pc[t] = "settle"
     /\ IF st[p] \in Suspended /\ det[p].kid = c.who
        THEN /\ tx' = [tx EXCEPT ![t] = [who |-> p, to |-> "queued", det |-> Plain("resumed"),
                                         wake |-> TRUE, then |-> c.then]]
             /\ Goto(t, "check")
        ELSE Goto(t, c.then) /\ UNCHANGED tx
     /\ UNCHANGED <<sessionRows, log, rows, open, loc, ctx, stack, lock, boot, calls>>

-------------------------------------------------------------------------------
(***************************************************************************)
(* The log as rebuild() folds it, and the checkpoint rows.                 *)
(***************************************************************************)
Larger(a, b) == IF a >= b THEN a ELSE b

\* The row of (x, a) after an upsert with status v.
Upsert(s, x, a, v) ==
  rows' = [rows EXCEPT ![s] = {r \in @ : r.step # x \/ r.att # a}
                                \cup {[step |-> x, att |-> a, status |-> v]}]

LogStarted(s, x, a, v) ==
  /\ visits' = [visits EXCEPT ![s][x] = Larger(@, v)]
  /\ attempts' = [attempts EXCEPT ![s][x] = Larger(@, a)]
  /\ cur' = [cur EXCEPT ![s] = [NoCursor EXCEPT !.step = x, !.att = a, !.visit = v, !.status = "running"]]
  /\ UNCHANGED exits

LogExited(s, x, a, v, e) ==
  /\ cur' = [cur EXCEPT ![s] = [NoCursor EXCEPT !.step = x, !.att = a, !.visit = v,
                                                !.status = "exited", !.exit = e]]
  /\ exits' = [exits EXCEPT ![s] = @ \cup {<<x, a, v>>}]
  /\ UNCHANGED <<visits, attempts>>

\* step-failed marks the cursor failed whenever it names the cursor's attempt,
\* an attempt that has exited included.
LogFailed(s, x, a) ==
  /\ cur' = IF cur[s].step = x /\ cur[s].att = a
            THEN [cur EXCEPT ![s].status = "failed"] ELSE cur
  /\ UNCHANGED <<visits, attempts, exits>>

-------------------------------------------------------------------------------
(***************************************************************************)
(* The run loop of session s.                                              *)
(***************************************************************************)
\* Mutant: run() without its test of LIVE_STATES.
AdmitAnyState(s) ==
  /\ phase = "up" /\ pc[s] = "idle" /\ st[s] # "none"
  /\ Transition(s, s, "running", Plain("none"), "position")
  /\ UNCHANGED <<sessionRows, log, rows, open, loc, ctx, stack, lock, boot, calls>>

\* The dispatcher launches run(s); run() reads the row and finds it live.
\* Capacity is the subject of Dispatcher; any queued, inactive session may go.
Admit(s) ==
  /\ phase = "up" /\ pc[s] = "idle" /\ st[s] = "queued"
  /\ Transition(s, s, "running", Plain("none"), "position")
  /\ UNCHANGED <<sessionRows, log, rows, open, loc, ctx, stack, lock, boot, calls>>

Suspend(s, why, kid) ==
  Transition(s, s, "suspended-error", [Plain(why) EXCEPT !.kid = kid], "end")

\* The top of runWithRetries: V and A are ctx.visits and ctx.maxAttempt.
Enter(s, x, visit, att, V, A, kid) ==
  /\ mVisits' = [mVisits EXCEPT ![s] = V]
  /\ mAttempts' = [mAttempts EXCEPT ![s] = [A EXCEPT ![x] = Larger(@, att)]]
  /\ loc' = [loc EXCEPT ![s] = [NoLocals EXCEPT !.step = x, !.visit = visit, !.att = att, !.tries = 1,
                                                !.kid = kid, !.reattach = (kid # None)]]
  /\ Goto(s, "assert")
  /\ UNCHANGED tx

\* Mutants: attempts numbered within a visit; one visit too many.
NewVisitFromOne(s, x, V, A) ==
  IF V[x] + 1 > MaxVisits
  THEN Suspend(s, "max-visits-exceeded", None) /\ UNCHANGED <<ctx, loc>>
  ELSE Enter(s, x, V[x] + 1, 1, [V EXCEPT ![x] = @ + 1], A, None)
NewVisitOffByOne(s, x, V, A) ==
  IF V[x] > MaxVisits
  THEN Suspend(s, "max-visits-exceeded", None) /\ UNCHANGED <<ctx, loc>>
  ELSE Enter(s, x, V[x] + 1, A[x] + 1, [V EXCEPT ![x] = @ + 1], A, None)

\* A visit more, unless that is too many.
NewVisit(s, x, V, A) ==
  IF V[x] + 1 > MaxVisits
  THEN Suspend(s, "max-visits-exceeded", None) /\ UNCHANGED <<ctx, loc>>
  ELSE Enter(s, x, V[x] + 1, A[x] + 1, [V EXCEPT ![x] = @ + 1], A, None)

\* route(), then the next turn of loop().
Follow(s, x, e, V, A) ==
  IF Target[x][e] = Done
  THEN Goto(s, "complete") /\ UNCHANGED <<ctx, loc, tx>>
  ELSE NewVisit(s, Target[x][e], V, A)

\* The interrupted circuit step goes back to the child it had, unless that was
\* cancelled.  (Mutant: it always starts another.)
NeverReattaches(s) == FALSE
Reattaches(s) ==
  Kind[cur[s].step] = "circuit" /\ cur[s].kid # None /\ st[cur[s].kid] # "cancelled"

\* execute(), from the configuration load to the first turn of loop(): the log
\* is read once and rebuilt into the position, then the child is read; what
\* others append to the log after that read is not seen.
Position(s) ==
  LET c == cur[s]
      x == c.step
      V == visits[s]
      A == attempts[s]
  IN /\ pc[s] = "position"
     /\ \/ /\ "config" \in Faults
           /\ Suspend(s, "config-error", None)
           /\ UNCHANGED <<ctx, loc>>
        \/ c.status = "none" /\ NewVisit(s, Entry[circ[s]], V, A)
        \/ c.status = "exited" /\ Follow(s, x, c.exit, V, A)
        \/ /\ c.status \in {"running", "failed"}
           /\ IF Reattaches(s)
              THEN Enter(s, x, c.visit, c.att, V, A, c.kid)
              ELSE Enter(s, x, c.visit, A[x] + 1, V, A, None)
     /\ UNCHANGED <<sessionRows, log, rows, open, stack, lock, boot, calls>>

\* assertNotCancelled, ensureBudget, and unless re-attaching the step-started
\* event with its row (a crash between the two leaves a cursor that resumes as
\* a recovered row does).
Start(s) ==
  LET l == loc[s] IN
  /\ pc[s] = "assert"
  /\ st[s] # "cancelled"
  /\ IF l.reattach
     THEN Goto(s, "wait") /\ UNCHANGED <<log, rows>>
     ELSE /\ LogStarted(s, l.step, l.att, l.visit)
          /\ Upsert(s, l.step, l.att, "running")
          /\ Goto(s, IF Kind[l.step] = "circuit" THEN "spawn"
                     ELSE IF Kind[l.step] = "gate" THEN "gate" ELSE "work")
  /\ UNCHANGED <<sessionRows, open, loc, ctx, tx, stack, lock, boot, calls>>

\* assertNotCancelled at the top of an attempt and between the turns of an
\* llm step raises CancelledSignal.
StopCancelled(s) ==
  /\ pc[s] = "assert" \/ (pc[s] = "work" /\ Kind[loc[s].step] = "llm")
  /\ st[s] = "cancelled"
  /\ Goto(s, "end")
  /\ UNCHANGED <<sessionRows, log, rows, open, loc, ctx, tx, stack, lock, boot, calls>>

\* The budget is gone before the attempt, during it, or for the child: the row
\* is marked failed, no step-failed event is written, the session suspends.
OverBudget(s) ==
  /\ "budget" \in Faults
  /\ pc[s] \in {"assert", "work", "spawn"}
  /\ pc[s] = "assert" => st[s] # "cancelled"
  /\ pc[s] = "work" => Kind[loc[s].step] = "llm"
  /\ Upsert(s, loc[s].step, loc[s].att, "failed")
  /\ Suspend(s, "budget-exceeded", None)
  /\ UNCHANGED <<sessionRows, log, open, loc, ctx, stack, lock, boot, calls>>

\* step-failed and the failed row (again one action), then another attempt or
\* suspension.  kid is what the failure's detail says of a child.
FailAttempt(s, retry, why, kid) ==
  LET l == loc[s]
      a == Larger(mAttempts[s][l.step], l.att) + 1
  IN /\ LogFailed(s, l.step, l.att)
     /\ Upsert(s, l.step, l.att, "failed")
     /\ IF retry /\ l.tries < MaxTries
        THEN /\ loc' = [loc EXCEPT ![s].att = a, ![s].tries = @ + 1,
                                   ![s].reattach = FALSE, ![s].kid = None]
             /\ mAttempts' = [mAttempts EXCEPT ![s][l.step] = a]
             /\ Goto(s, "assert")
             /\ UNCHANGED <<mVisits, tx>>
        ELSE /\ Suspend(s, IF retry THEN "retries-exhausted" ELSE why, IF retry THEN None ELSE kid)
             /\ UNCHANGED <<loc, ctx>>

\* An llm or a code step takes any declared exit; it, or the enqueueing of a
\* child, may fail (a model, tool, schema, reference or configuration error).
WorkExit(s) ==
  /\ pc[s] = "work"
  /\ \E e \in Exits[loc[s].step] : loc' = [loc EXCEPT ![s].exit = e]
  /\ Goto(s, "exit-log")
  /\ UNCHANGED <<sessionRows, log, rows, open, ctx, tx, stack, lock, boot, calls>>

WorkFail(s) ==
  /\ "fail" \in Faults
  /\ pc[s] \in {"work", "spawn"}
  /\ FailAttempt(s, TRUE, "none", None)
  /\ UNCHANGED <<sessionRows, open, stack, lock, boot, calls>>

\* runCircuitStep: enqueue the child, link it in the row, then in the log.
\* enqueue() does not read the state of the parent.
Spawn(s) ==
  /\ pc[s] = "spawn"
  /\ \E c \in Session :
       /\ st[c] = "none"
       /\ st' = [st EXCEPT ![c] = "queued"]
       /\ parent' = [parent EXCEPT ![c] = s]
       /\ circ' = [circ EXCEPT ![c] = ChildCircuit[loc[s].step]]
       /\ loc' = [loc EXCEPT ![s].kid = c]
  /\ Goto(s, "link-row")
  /\ UNCHANGED <<det, log, rows, open, ctx, tx, stack, lock, boot, calls>>

LinkRow(s) ==
  /\ pc[s] = "link-row"
  /\ Upsert(s, loc[s].step, loc[s].att, "linked")
  /\ Goto(s, "link-log")
  /\ UNCHANGED <<sessionRows, log, open, loc, ctx, tx, stack, lock, boot, calls>>

LinkLog(s) ==
  /\ pc[s] = "link-log"
  /\ cur' = IF cur[s].step = loc[s].step /\ cur[s].att = loc[s].att
            THEN [cur EXCEPT ![s].kid = loc[s].kid] ELSE cur
  /\ Goto(s, "wait")
  /\ UNCHANGED <<sessionRows, visits, attempts, exits, rows, open, loc, ctx, tx, stack, lock,
                 boot, calls>>

\* waitFor(child) returns, and the child completed: its exit maps to one of the
\* step's, or to none, which is not retryable; its output may fail a check.
WaitExit(s) ==
  /\ pc[s] = "wait"
  /\ st[loc[s].kid] = "completed"
  /\ \/ /\ \E e \in Exits[loc[s].step] : loc' = [loc EXCEPT ![s].exit = e]
        /\ Goto(s, "exit-log")
        /\ UNCHANGED <<log, rows, ctx, tx>>
     \/ "invalid" \in Faults /\ FailAttempt(s, FALSE, "exit-unmapped", loc[s].kid)
     \/ "fail" \in Faults /\ FailAttempt(s, TRUE, "none", None)
  /\ UNCHANGED <<sessionRows, open, stack, lock, boot, calls>>

\* ... was cancelled
WaitCancelled(s) ==
  /\ pc[s] = "wait"
  /\ st[loc[s].kid] = "cancelled"
  /\ FailAttempt(s, FALSE, "child-cancelled", loc[s].kid)
  /\ UNCHANGED <<sessionRows, open, stack, lock, boot, calls>>

\* Mutant: only a gated child is noticed.
WaitParkGateOnly(s) ==
  LET l == loc[s] IN
  /\ pc[s] = "wait"
  /\ st[l.kid] = "suspended-gate"
  /\ Transition(s, s, "suspended-gate", [why |-> "child-gated", kid |-> l.kid, step |-> l.step,
                                         att |-> l.att, visit |-> l.visit], "again")
  /\ loc' = [loc EXCEPT ![s].seen = st[l.kid]]
  /\ UNCHANGED <<sessionRows, log, rows, open, ctx, stack, lock, boot, calls>>

\* ... or suspended: the parent parks behind it.
WaitPark(s) ==
  LET k == loc[s].kid
      l == loc[s]
      park(to, why) == Transition(s, s, to, [why |-> why, kid |-> k, step |-> l.step,
                                             att |-> l.att, visit |-> l.visit], "again")
  IN /\ pc[s] = "wait"
     /\ \/ st[k] = "suspended-gate" /\ park("suspended-gate", "child-gated")
        \/ st[k] = "suspended-error" /\ park("suspended-error", "child-error")
     /\ loc' = [loc EXCEPT ![s].seen = st[k]]
     /\ UNCHANGED <<sessionRows, log, rows, open, ctx, stack, lock, boot, calls>>

\* After parking, the child is read once more: had it settled meanwhile, its
\* own wake-up saw the parent running.  (Mutant: it is not read.)
NotReadAgain(s) == FALSE
SettledMeanwhile(s) ==
  st[loc[s].kid] # loc[s].seen /\ st[loc[s].kid] \in {"completed", "suspended-error"}

ParkedAgain(s) ==
  /\ pc[s] = "again"
  /\ IF SettledMeanwhile(s)
     THEN /\ tx' = [tx EXCEPT ![s] = [NoCall EXCEPT !.who = loc[s].kid, !.then = "end"]]
          /\ Goto(s, "settle")
     ELSE Goto(s, "end") /\ UNCHANGED tx
  /\ UNCHANGED <<sessionRows, log, rows, open, loc, ctx, stack, lock, boot, calls>>

\* runGate: tag the artifacts (one request stands for them all), then suspend.
GateOpen(s) ==
  LET l == loc[s] IN
  /\ pc[s] = "gate"
  /\ open' = open \cup {<<s, l.step, l.att>>}
  /\ Transition(s, s, "suspended-gate", [why |-> "gate", kid |-> None, step |-> l.step,
                                         att |-> l.att, visit |-> l.visit], "end")
  /\ UNCHANGED <<sessionRows, log, rows, loc, ctx, stack, lock, boot, calls>>

GateEmpty(s) ==
  /\ "invalid" \in Faults
  /\ pc[s] = "gate"
  /\ FailAttempt(s, FALSE, "gate-no-artifacts", None)
  /\ UNCHANGED <<sessionRows, open, stack, lock, boot, calls>>

\* complete(): the session-completed event and the last transition.
Complete(s) ==
  /\ pc[s] = "complete"
  /\ \/ Transition(s, s, "completed", Plain("none"), "end")
     \/ "invalid" \in Faults /\ Suspend(s, "exit-output-invalid", None)
  /\ UNCHANGED <<sessionRows, log, rows, open, loc, ctx, stack, lock, boot, calls>>

\* run()'s finally: the loop leaves the active set and its locals are gone.
End(s) ==
  /\ pc[s] = "end"
  /\ Goto(s, "idle")
  /\ loc' = [loc EXCEPT ![s] = NoLocals]
  /\ tx' = [tx EXCEPT ![s] = NoCall]
  /\ mVisits' = [mVisits EXCEPT ![s] = NoCounts]
  /\ mAttempts' = [mAttempts EXCEPT ![s] = NoCounts]
  /\ UNCHANGED <<sessionRows, log, rows, open, stack, lock, boot, calls>>

-------------------------------------------------------------------------------
(***************************************************************************)
(* Recording an exit: the checkpoint event, then the row.  finishStep of a *)
(* run loop, resolveGate and manualRoute of an operator call.              *)
(***************************************************************************)
About(t) == IF t \in Session THEN t ELSE Head(stack[t])

ExitLog(t) ==
  LET l == loc[t] IN
  /\ pc[t] = "exit-log"
  /\ LogExited(About(t), l.step, l.att, l.visit, l.exit)
  /\ Goto(t, "exit-row")
  /\ UNCHANGED <<sessionRows, rows, open, loc, ctx, tx, stack, lock, boot, calls>>

ExitRow(t) ==
  LET l == loc[t]
      s == About(t)
  IN /\ pc[t] = "exit-row"
     /\ Upsert(s, l.step, l.att, "exited")
     /\ IF t \in Session
        THEN Follow(s, l.step, l.exit, mVisits[s], mAttempts[s])
        ELSE Transition(t, s, "queued", Plain("resumed"), "done") /\ UNCHANGED <<loc, ctx>>
     /\ UNCHANGED <<sessionRows, log, open, stack, lock, boot, calls>>

-------------------------------------------------------------------------------
(***************************************************************************)
(* Operator calls.  Each starts by reading the session and refusing the    *)
(* wrong state; refusals change nothing and are no step.                   *)
(***************************************************************************)
Accept(o, op, s) ==
  /\ op \in Ops
  /\ pc[o] = "idle"
  /\ calls < MaxCalls
  /\ calls' = calls + 1
  /\ stack' = [stack EXCEPT ![o] = <<s>>]

\* cancel: force the state, then cancel the children read after that, each
\* with its own subtree before its siblings.
Cancel(o, s) ==
  /\ Accept(o, "cancel", s)
  /\ st[s] \notin Terminal \cup {"none"}
  /\ Goto(o, "cancel-write")
  /\ UNCHANGED <<sessionRows, log, rows, open, loc, ctx, tx, lock, boot>>

CancelWrite(o) ==
  /\ pc[o] = "cancel-write"
  /\ st' = [st EXCEPT ![Head(stack[o])] = "cancelled"]
  /\ det' = [det EXCEPT ![Head(stack[o])] = Plain("cancelled")]
  /\ Goto(o, "cancel-children")
  /\ UNCHANGED <<parent, circ, log, rows, open, loc, ctx, tx, stack, lock, boot, calls>>

Orders(S) == {q \in [1..Cardinality(S) -> S] : \A i, j \in DOMAIN q : i # j => q[i] # q[j]}

CancelChildren(o) ==
  LET kids == {c \in Session : st[c] # "none" /\ parent[c] = Head(stack[o])} IN
  /\ pc[o] = "cancel-children"
  /\ \E q \in Orders(kids) : stack' = [stack EXCEPT ![o] = q \o Tail(@)]
  /\ Goto(o, "cancel-next")
  /\ UNCHANGED <<sessionRows, log, rows, open, loc, ctx, tx, lock, boot, calls>>

CancelNext(o) ==
  /\ pc[o] = "cancel-next"
  /\ IF stack[o] = << >> THEN Goto(o, "done") /\ UNCHANGED stack
     ELSE IF st[Head(stack[o])] \in Terminal
     THEN stack' = [stack EXCEPT ![o] = Tail(@)] /\ UNCHANGED pc
     ELSE Goto(o, "cancel-write") /\ UNCHANGED stack
  /\ UNCHANGED <<sessionRows, log, rows, open, loc, ctx, tx, lock, boot, calls>>

\* retry: refuse unless suspended-error; retry a suspended child first; queue.
Retry(o, s) ==
  /\ Accept(o, "retry", s)
  /\ st[s] = "suspended-error"
  /\ loc' = [loc EXCEPT ![o].kid = det[s].kid]
  /\ Goto(o, "retry-child")
  /\ UNCHANGED <<sessionRows, log, rows, open, ctx, tx, lock, boot>>

RetryRead(o) ==
  LET s == Head(stack[o]) IN
  /\ pc[o] = "retry-read"
  /\ IF st[s] = "suspended-error"
     THEN loc' = [loc EXCEPT ![o].kid = det[s].kid] /\ Goto(o, "retry-child")
     ELSE Goto(o, "done") /\ UNCHANGED loc
  /\ UNCHANGED <<sessionRows, log, rows, open, ctx, tx, stack, lock, boot, calls>>

RetryChild(o) ==
  LET k == loc[o].kid IN
  /\ pc[o] = "retry-child"
  /\ IF k # None /\ st[k] = "suspended-error"
     THEN stack' = [stack EXCEPT ![o] = <<k>> \o @] /\ Goto(o, "retry-read")
     ELSE Goto(o, "retry-queue") /\ UNCHANGED stack
  /\ UNCHANGED <<sessionRows, log, rows, open, loc, ctx, tx, lock, boot, calls>>

\* The row is queued; back in the caller, if any, the parent is queued too,
\* whatever its state has become.
RetryQueue(o) ==
  /\ pc[o] = "retry-queue"
  /\ IF stack[o] = << >>
     THEN Goto(o, "done") /\ UNCHANGED <<tx, stack>>
     ELSE /\ Transition(o, Head(stack[o]), "queued", Plain("resumed"), "retry-queue")
          /\ stack' = [stack EXCEPT ![o] = Tail(@)]
  /\ UNCHANGED <<sessionRows, log, rows, open, loc, ctx, lock, boot, calls>>

Resume(o, s) ==
  /\ Accept(o, "resume", s)
  /\ st[s] = "suspended-error"
  /\ Transition(o, s, "queued", Plain("resumed"), "done")
  /\ UNCHANGED <<sessionRows, log, rows, open, loc, ctx, lock, boot>>

\* manualRoute: the stuck step is the cursor's or, when that exited, the one it
\* led to, whose attempt number is then one no step-started event has used.
ManualRoute(o, s) ==
  LET c == cur[s]
      to == Target[c.step][c.exit]
      exited == c.status = "exited"
      x == IF exited THEN to ELSE c.step
  IN /\ Accept(o, "route", s)
     /\ st[s] = "suspended-error"
     /\ c.status # "none"
     /\ exited => to # Done
     /\ \E e \in Exits[x] :
          loc' = [loc EXCEPT ![o] =
                    [NoLocals EXCEPT !.step = x, !.exit = e,
                       !.att = IF exited THEN attempts[s][x] + 1 ELSE c.att,
                       !.visit = IF exited THEN Larger(visits[s][x], 1) ELSE c.visit]]
     /\ Goto(o, "exit-log")
     /\ UNCHANGED <<sessionRows, log, rows, open, ctx, tx, lock, boot>>

\* withGateLock: one verdict of a session at a time.  (Mutant: no lock.)
NoGateLock(s) == TRUE
GateFree(s) == lock[s] = None

\* gateVerdict, under the session's gate lock: the verdict of the gate's last
\* reviewer.
Verdict(o, s) ==
  LET d == det[s] IN
  /\ Accept(o, "verdict", s)
  /\ GateFree(s)
  /\ st[s] = "suspended-gate" /\ d.why = "gate"
  /\ <<s, d.step, d.att>> \in open
  /\ lock' = [lock EXCEPT ![s] = o]
  /\ \E e \in Exits[d.step] :
       loc' = [loc EXCEPT ![o] = [NoLocals EXCEPT !.step = d.step, !.att = d.att,
                                                  !.visit = d.visit, !.exit = e]]
  /\ Goto(o, "verdict")
  /\ UNCHANGED <<sessionRows, log, rows, open, ctx, tx, boot>>

\* Mutant: the lock covers the node's request only.
VerdictCloseUnlocks(o) ==
  /\ pc[o] = "verdict"
  /\ open' = open \ {<<About(o), loc[o].step, loc[o].att>>}
  /\ lock' = [lock EXCEPT ![About(o)] = None]
  /\ Goto(o, "exit-log")
  /\ UNCHANGED <<sessionRows, log, rows, loc, ctx, tx, stack, boot, calls>>

\* resolveNeedInput closes the request on its node; the session's own record
\* of the verdict comes later.
VerdictClose(o) ==
  /\ pc[o] = "verdict"
  /\ open' = open \ {<<About(o), loc[o].step, loc[o].att>>}
  /\ Goto(o, "exit-log")
  /\ UNCHANGED <<sessionRows, log, rows, loc, ctx, tx, stack, lock, boot, calls>>

\* The call returns or throws; a gate lock it held is released.
Return(o) ==
  /\ pc[o] = "done"
  /\ Goto(o, "idle")
  /\ stack' = [stack EXCEPT ![o] = << >>]
  /\ lock' = [s \in Session |-> IF lock[s] = o THEN None ELSE lock[s]]
  /\ loc' = [loc EXCEPT ![o] = NoLocals]
  /\ tx' = [tx EXCEPT ![o] = NoCall]
  /\ UNCHANGED <<sessionRows, log, rows, open, ctx, boot, calls>>

-------------------------------------------------------------------------------
(***************************************************************************)
(* The process: crash, recovery at boot.                                   *)
(***************************************************************************)
\* What recover() finds to put back.  (Mutant: nothing.)
NothingInterrupted == {}
Interrupted == {s \in Session : st[s] = "running"}

\* The process dies and starts again: only the database is left.  The server
\* listens before recover() runs, so operators may call at once; the
\* dispatcher starts after it.
Reboot ==
  /\ pc' = [t \in Thread |-> "idle"]
  /\ loc' = [t \in Thread |-> NoLocals]
  /\ tx' = [t \in Thread |-> NoCall]
  /\ mVisits' = [s \in Session |-> NoCounts]
  /\ mAttempts' = [s \in Session |-> NoCounts]
  /\ stack' = [o \in Operator |-> << >>]
  /\ lock' = [s \in Session |-> None]
  /\ phase' = "recover"
  /\ todo' = Interrupted
  /\ UNCHANGED <<sessionRows, log, rows, open, calls>>

Crash ==
  /\ crashes < MaxCrash
  /\ crashes' = crashes + 1
  /\ Reboot

\* A CancelledSignal out of recover() ends the process.
RecoverDies ==
  /\ pc[Boot] = "dead"
  /\ Reboot
  /\ UNCHANGED crashes

\* recover(), one session: running rows are failed, except a circuit step's
\* that has its child; each failed row is logged; the session is queued.
RecoverSession(s) ==
  LET broken == {r \in rows[s] : r.status = "running"} IN
  /\ phase = "recover" /\ pc[Boot] = "idle"
  /\ s \in todo
  /\ todo' = todo \ {s}
  /\ rows' = [rows EXCEPT ![s] = (@ \ broken) \cup {[r EXCEPT !.status = "failed"] : r \in broken}]
  /\ cur' = IF \E r \in broken : cur[s].step = r.step /\ cur[s].att = r.att
            THEN [cur EXCEPT ![s].status = "failed"] ELSE cur
  /\ Transition(Boot, s, "queued", Plain("recovered"), "idle")
  /\ UNCHANGED <<sessionRows, visits, attempts, exits, open, loc, ctx, stack, lock, phase,
                 crashes, calls>>

RecoverDone ==
  /\ phase = "recover" /\ pc[Boot] = "idle" /\ todo = {}
  /\ phase' = "up"
  /\ UNCHANGED <<sessionRows, log, rows, open, pc, loc, ctx, tx, stack, lock, todo, crashes,
                 calls>>

-------------------------------------------------------------------------------
Run(s) ==
  \/ Position(s) \/ Start(s) \/ StopCancelled(s) \/ OverBudget(s)
  \/ WorkExit(s) \/ WorkFail(s)
  \/ Spawn(s) \/ LinkRow(s) \/ LinkLog(s)
  \/ WaitExit(s) \/ WaitCancelled(s) \/ WaitPark(s) \/ ParkedAgain(s)
  \/ GateOpen(s) \/ GateEmpty(s) \/ Complete(s) \/ End(s)

Request(o) ==
  \E s \in Session :
    Cancel(o, s) \/ Retry(o, s) \/ Resume(o, s) \/ ManualRoute(o, s) \/ Verdict(o, s)

Serve(o) ==
  \/ CancelWrite(o) \/ CancelChildren(o) \/ CancelNext(o)
  \/ RetryRead(o) \/ RetryChild(o) \/ RetryQueue(o)
  \/ VerdictClose(o) \/ Return(o)

Shared(t) == TxCheck(t) \/ TxWrite(t) \/ Settle(t)
Recording(t) == ExitLog(t) \/ ExitRow(t)

Recover == RecoverDies \/ RecoverDone \/ \E s \in Session : RecoverSession(s)

Next ==
  \/ \E s \in Session : Admit(s) \/ Run(s)
  \/ \E o \in Operator : Request(o) \/ Serve(o)
  \/ \E t \in Thread : Shared(t)
  \/ \E t \in Session \cup Operator : Recording(t)
  \/ Recover \/ Crash

Spec == Init /\ [][Next]_vars

(***************************************************************************)
(* Fairness: a promise that can settle does.  A model or tool call returns *)
(* (turn limits and the sandbox's timeout end it), a statement sent to the *)
(* database completes, the dispatcher's interval timer keeps ticking.  No  *)
(* operator has to call.                                                   *)
(***************************************************************************)
Fairness ==
  /\ \A s \in Session : WF_vars(Admit(s) \/ Run(s) \/ Shared(s) \/ Recording(s))
  /\ \A o \in Operator : WF_vars(Serve(o) \/ Shared(o) \/ Recording(o))
  /\ WF_vars(Shared(Boot) \/ Recover)

FairSpec == Spec /\ Fairness

-------------------------------------------------------------------------------
(***************************************************************************)
(* Properties.                                                             *)
(***************************************************************************)
Counts == [Session -> [Step -> Nat]]

\* Every variable has its type: the tables', the run contexts', the threads'.
TypeOK ==
  /\ st \in [Session -> State]
  /\ det \in [Session -> Detail]
  /\ parent \in [Session -> Session \cup {None}]
  /\ circ \in [Session -> Circuit]
  /\ cur \in [Session -> Cursor]
  /\ visits \in Counts /\ attempts \in Counts
  /\ exits \in [Session -> SUBSET (Step \X Nat \X Nat)]
  /\ rows \in [Session -> SUBSET RowRec]
  /\ open \in SUBSET (Session \X Step \X Nat)
  /\ pc \in [Thread -> Label]
  /\ loc \in [Thread -> Locals]
  /\ mVisits \in Counts /\ mAttempts \in Counts
  /\ tx \in [Thread -> Call]
  /\ stack \in [Operator -> Seq(Session)]
  /\ lock \in [Session -> Operator \cup {None}]
  /\ phase \in {"recover", "up"} /\ todo \in SUBSET Session
  /\ calls \in Nat /\ crashes \in Nat

\* The attempt a loop is about to log as started is one the log does not have:
\* turns, executions and checkpoints of two runs of a step never share the key
\* (session, step, attempt).
AttemptFresh ==
  \A s \in Session : pc[s] = "assert" /\ ~loc[s].reattach
                        => loc[s].att > attempts[s][loc[s].step]

\* No step is entered more often than max_visits allows, whatever retries,
\* recoveries and re-attachments the session went through.
VisitBound ==
  \A s \in Session : \A x \in Step : visits[s][x] <= MaxVisits

\* A row that says running has a run loop working on it, or the recovery pass
\* has it still to do: no session is lost in the state nobody looks at.
RunningHasLoop ==
  \A s \in Session : st[s] = "running" =>
    \/ pc[s] \notin {"idle", "end"}
    \/ phase = "recover" /\ (s \in todo \/ (pc[Boot] # "idle" /\ tx[Boot].who = s))

\* The result of an attempt is recorded once, whatever crashes and however its
\* gate's reviewers, retries and cancellations overlap; and while the process keeps
\* running, no loop works through a visit whose result is recorded.  (A gate that is
\* queued from under its verdict is asked again, in another attempt of the visit; an
\* operator who routes by hand may record an attempt twice.)
ExitOnce ==
  \A t \in Session \cup Operator : pc[t] = "exit-log" =>
    \A e \in exits[About(t)] : e[1] = loc[t].step =>
      /\ e[2] # loc[t].att
      /\ t \in Session /\ crashes = 0 => e[3] # loc[t].visit

\* Some thread is about to queue p because its child k settled, or to look at k again.
WakePending(p, k) ==
  \/ /\ pc[p] = "again" \/ (pc[p] \in {"check", "write", "settle"} /\ tx[p].then = "again")
     /\ loc[p].kid = k /\ loc[p].seen # st[k]
  \/ \E t \in Thread :
       \/ pc[t] = "settle" /\ tx[t].who = k
       \/ pc[t] \in {"check", "write"} /\ tx[t].who = p /\ tx[t].to = "queued"

Parked(p) == st[p] \in Suspended /\ det[p].why \in {"child-gated", "child-error"}

\* While the process keeps running, a parent parked behind a child that has
\* completed is about to be woken (after a crash an operator has to).
NoLostWakeup ==
  crashes = 0 => \A p \in Session :
    Parked(p) /\ st[det[p].kid] = "completed" => WakePending(p, det[p].kid)

\* A sub-circuit visit has one child at work: no two children of a session,
\* started by its loop, are unfinished at once (a crash between the child's row
\* and the parent's log of it leaves one behind).
OneLiveChild ==
  crashes = 0 => \A c, d \in Session :
    c # d /\ parent[c] # None /\ parent[c] = parent[d]
      => st[c] \in Terminal \/ st[d] \in Terminal

\* A session waiting at its gate can be answered: the request is open, or the
\* call that answered it is still at work (a crash in the middle of that call
\* leaves the request answered and the session waiting).
GateAnswerable ==
  crashes = 0 => \A s \in Session :
    st[s] = "suspended-gate" /\ det[s].why = "gate" /\ lock[s] = None
      => <<s, det[s].step, det[s].att>> \in open

\* A finished session stays as it finished.
TerminalFinal ==
  [][\A s \in Session : st[s] \in Terminal => st'[s] = st[s]]_vars

\* Every step of the sessions' states is one the lifecycle allows.
Lifecycle == INSTANCE SessionLifecycle WITH state <- st, recovering <- (phase = "recover")
LifecycleSpec == Lifecycle!Spec

\* Whatever is queued or running comes to rest: suspended for a human, or finished.
ComesToRest ==
  \A s \in Session : st[s] \in Live ~> st[s] \notin Live
===============================================================================
