------------------------------ MODULE Dispatcher ------------------------------
(***************************************************************************)
(* Admission control: DispatcherImpl                                       *)
(* (src/packages/server/src/orchestrator/dispatcher.ts).                   *)
(*                                                                         *)
(* A pass reads the spend window, the running rows and the queue, one      *)
(* query at a time, and then admits in one synchronous loop.  Meanwhile    *)
(* runs start, spawn sub-circuits, suspend and return, operators resume    *)
(* and cancel, and each of them may ask for another pass.  What a run does *)
(* inside is the module Orchestrator's; here it is its effect on the row,  *)
(* on the queue and on the slots.  A session's id is its place in creation *)
(* order.                                                                  *)
(***************************************************************************)
EXTENDS Naturals, FiniteSets

CONSTANTS
  Session,
  None,
  Parent,       \* [Session -> Session \cup {None}]: who starts it as a sub-circuit
  Priority,     \* [Session -> Nat], 0 first; a sub-circuit inherits its parent's
  MaxRuns,      \* capacity.max_concurrent_runs
  ScanLimit,    \* SCAN_LIMIT
  MaxResume,    \* bound: sessions resumed or retried in a behaviour
  MaxStop       \* bound: stops and crashes of the process, and failed queries

ASSUME SessionAssumption ==
  /\ IsFiniteSet(Session) /\ Session \subseteq Nat
  /\ None \notin Session
  /\ Parent \in [Session -> Session \cup {None}]
  /\ Priority \in [Session -> Nat]
  /\ \A s \in Session : Parent[s] # None =>
       Parent[s] < s /\ Priority[s] = Priority[Parent[s]]

ASSUME CapacityAssumption ==
  MaxRuns \in Nat /\ ScanLimit \in Nat /\ MaxResume \in Nat /\ MaxStop \in Nat

VARIABLES
  \* the database
  state,    \* the state of each session; "suspended" stands for both suspensions
  broke,    \* sessions with spent_usd >= max_cost_usd
  ceiling,  \* the spend of the last hour has reached max_spend_usd_per_hour
  \* the runs in this process: inflight, and how far the run is
  run,
  \* the dispatcher
  stopped, pc, again,   \* "gave-up": idle after a pass that did not scan the queue
  live,     \* liveSet(): the sessions that hold or share a slot
  roots,    \* countRoots(live), and the slots this pass has given since
  scan,     \* what is left of nextQueued()'s rows
  resumes, stops

db == <<state, broke, ceiling>>
pass == <<live, roots, scan>>
bounds == <<resumes, stops>>
vars == <<db, run, stopped, pc, again, pass, bounds>>

State == {"none", "queued", "running", "suspended", "over"}
Live == {"queued", "running"}

TypeOK ==
  /\ state \in [Session -> State]
  /\ broke \subseteq Session
  /\ ceiling \in BOOLEAN
  /\ run \in [Session -> {"none", "launched", "executing", "returning"}]
  /\ stopped \in BOOLEAN /\ again \in BOOLEAN
  /\ pc \in {"idle", "gave-up", "read", "queue", "loop"}
  /\ live \subseteq Session /\ scan \subseteq Session /\ roots \in Nat
  /\ resumes \in 0 .. MaxResume /\ stops \in 0 .. MaxStop

Init ==
  /\ state = [s \in Session |-> "none"]
  /\ broke = {} /\ ceiling = FALSE
  /\ run = [s \in Session |-> "none"]
  /\ stopped = FALSE /\ pc = "idle" /\ again = FALSE
  /\ live = {} /\ roots = 0 /\ scan = {}
  /\ resumes = 0 /\ stops = 0

Inflight == {s \in Session : run[s] # "none"}
Queued == {s \in Session : state[s] = "queued"}

\* ORDER BY priority, created_at
Before(s, t) ==
  \/ Priority[s] < Priority[t]
  \/ Priority[s] = Priority[t] /\ s < t

\* nextQueued(SCAN_LIMIT)
NextQueued == {s \in Queued : Cardinality({t \in Queued : Before(t, s)}) < ScanLimit}

HasLiveParent(s, set) == Parent[s] # None /\ Parent[s] \in set

\* countRoots
CountRoots(set) == Cardinality({s \in set : ~HasLiveParent(s, set)})

\* A run blocks in waitFor() while a sub-circuit it started is queued or runs.
Waits(s) == \E c \in Session : Parent[c] = s /\ state[c] \in Live

\* The synchronous loop of a pass lets nothing else run.
Free == pc # "loop"

(***************************************************************************)
(* Asking for a pass.                                                      *)
(***************************************************************************)

\* Mutant: a request during a pass is dropped.
ScheduleIfIdle ==
  IF ~stopped /\ pc \in {"idle", "gave-up"} THEN pc' = "read" /\ again' = FALSE
  ELSE UNCHANGED <<pc, again>>

\* schedule(): start a pass, or have the one under way run again.
Schedule ==
  IF stopped THEN UNCHANGED <<pc, again>>
  ELSE IF pc \in {"idle", "gave-up"} THEN pc' = "read" /\ again' = FALSE
  ELSE again' = TRUE /\ UNCHANGED pc

\* Mutant: passes are asked for by events only.
NoTimer == FALSE

\* The interval of dispatch_interval_ms.
Timer ==
  /\ Free /\ ~stopped
  /\ Schedule
  /\ UNCHANGED <<db, run, stopped, pass, bounds>>

\* enqueue() of a top-level session: its row, then notifyQueued().
Enqueue(s) ==
  /\ Free
  /\ state[s] = "none" /\ Parent[s] = None
  /\ \A t \in Session : state[t] # "none" => t < s
  /\ state' = [state EXCEPT ![s] = "queued"]
  /\ Schedule
  /\ UNCHANGED <<broke, ceiling, run, stopped, pass, bounds>>

\* resume() raises the budget, retry() and a gate's verdict leave it as it is;
\* all of them end in a transition to queued, which notifies.
Resume(s) ==
  /\ Free
  /\ state[s] = "suspended" /\ resumes < MaxResume
  /\ state' = [state EXCEPT ![s] = "queued"]
  /\ broke' \in {broke, broke \ {s}}
  /\ resumes' = resumes + 1
  /\ Schedule
  /\ UNCHANGED <<ceiling, run, stopped, pass, stops>>

\* cancel(), of one session; the cascade is further cancels, one await apart.
Cancel(s) ==
  /\ Free
  /\ state[s] \in {"queued", "running", "suspended"}
  /\ state' = [state EXCEPT ![s] = "over"]
  /\ UNCHANGED <<broke, ceiling, run, stopped, pc, again, pass, bounds>>

(***************************************************************************)
(* A run, from launch() to the finally of its promise.                     *)
(***************************************************************************)

\* run(): a session that is no longer queued or running is left alone.
Start(s) ==
  /\ Free
  /\ run[s] = "launched"
  /\ \/ /\ state[s] \in Live
        /\ state' = [state EXCEPT ![s] = "running"]
        /\ run' = [run EXCEPT ![s] = "executing"]
     \/ /\ state[s] \notin Live
        /\ run' = [run EXCEPT ![s] = "returning"]
        /\ UNCHANGED state
  /\ UNCHANGED <<broke, ceiling, stopped, pc, again, pass, bounds>>

\* A circuit step enqueues its sub-circuit.
Spawn(s) ==
  /\ Free
  /\ run[s] = "executing" /\ ~Waits(s)
  /\ \E c \in Session :
       /\ Parent[c] = s /\ state[c] = "none"
       /\ \A t \in Session : state[t] # "none" => t < c
       /\ state' = [state EXCEPT ![c] = "queued"]
  /\ Schedule
  /\ UNCHANGED <<broke, ceiling, run, stopped, pass, bounds>>

\* The run suspends, completes or finds itself cancelled; it may have spent
\* its own budget or the hour's.
Finish(s) ==
  /\ Free
  /\ run[s] = "executing" /\ ~Waits(s)
  /\ run' = [run EXCEPT ![s] = "returning"]
  /\ \/ /\ state[s] = "running"
        /\ \E end \in {"suspended", "over"} : state' = [state EXCEPT ![s] = end]
     \/ state[s] # "running" /\ UNCHANGED state
  /\ broke' \in {broke, broke \cup {s}}
  /\ ceiling' \in {ceiling, TRUE}
  /\ UNCHANGED <<stopped, pc, again, pass, bounds>>

\* The finally blocks of run() and launch(): the slot is free, and asks.
Return(s) ==
  /\ Free
  /\ run[s] = "returning"
  /\ run' = [run EXCEPT ![s] = "none"]
  /\ Schedule
  /\ UNCHANGED <<db, stopped, pass, bounds>>

\* The spend of the last hour falls as the hour moves on.
WindowMoves ==
  /\ ceiling /\ ceiling' = FALSE
  /\ UNCHANGED <<state, broke, run, stopped, pc, again, pass, bounds>>

(***************************************************************************)
(* A pass.                                                                 *)
(***************************************************************************)

\* tick(): run again when asked to meanwhile.
PassReturns(how) ==
  IF again /\ ~stopped
  THEN pc' = "read" /\ again' = FALSE
  ELSE pc' = how /\ UNCHANGED again

\* The spend window, and the first half of liveSet(): the running rows.
ReadRunning ==
  /\ pc = "read"
  /\ \/ ceiling /\ PassReturns("gave-up") /\ UNCHANGED live
     \/ /\ ~ceiling
        /\ live' = {s \in Session : state[s] = "running"}
        /\ pc' = "queue" /\ UNCHANGED again
  /\ UNCHANGED <<db, run, stopped, roots, scan, bounds>>

\* Mutant: a launch whose row is not running yet is not counted.
LiveRows(rows) == rows

\* liveSet()
LiveSet(rows) == rows \cup Inflight

\* The other half, the launches in flight by then; and the queue.
ReadQueue ==
  /\ pc = "queue"
  /\ live' = LiveSet(live)
  /\ roots' = CountRoots(live')
  /\ scan' = NextQueued
  /\ pc' = "loop"
  /\ UNCHANGED <<db, run, stopped, again, bounds>>

First(s) == s \in scan /\ \A t \in scan \ {s} : Before(s, t)

Borrows(s) == HasLiveParent(s, live \cup Inflight)

\* One row of the queue: launched, or left queued.
Admit(s) ==
  /\ pc = "loop" /\ ~stopped /\ First(s)
  /\ scan' = scan \ {s}
  /\ \/ /\ s \notin Inflight
        /\ Borrows(s) \/ roots < MaxRuns
        /\ s \notin broke
        /\ run' = [run EXCEPT ![s] = "launched"]
        /\ live' = live \cup {s}
        /\ roots' = IF Borrows(s) THEN roots ELSE roots + 1
     \/ /\ \/ s \in Inflight
           \/ ~Borrows(s) /\ roots >= MaxRuns
           \/ s \in broke
        /\ UNCHANGED <<run, live, roots>>
  /\ UNCHANGED <<db, stopped, pc, again, bounds>>

Scanned ==
  /\ pc = "loop" /\ (scan = {} \/ stopped)
  /\ scan' = {} /\ live' = {} /\ roots' = 0
  /\ PassReturns("idle")
  /\ UNCHANGED <<db, run, stopped, bounds>>

\* A query of the pass throws: tick()'s finally, and no other pass.
PassFails ==
  /\ pc \in {"read", "queue"} /\ stops < MaxStop
  /\ stops' = stops + 1
  /\ pc' = "gave-up"
  /\ live' = {} /\ roots' = 0
  /\ UNCHANGED <<db, run, stopped, again, scan, resumes>>

(***************************************************************************)
(* The process.                                                            *)
(***************************************************************************)

\* stop(): no new pass; what is in flight is waited for, for a while.
Stop ==
  /\ Free /\ ~stopped /\ stops < MaxStop
  /\ stops' = stops + 1
  /\ stopped' = TRUE
  /\ UNCHANGED <<db, run, pc, again, pass, resumes>>

\* The process ends and starts again: recover() puts back what was running,
\* start() asks for a first pass.
Restart ==
  /\ stopped
  /\ state' = [s \in Session |-> IF state[s] = "running" THEN "queued" ELSE state[s]]
  /\ run' = [s \in Session |-> "none"]
  /\ stopped' = FALSE /\ pc' = "read" /\ again' = FALSE
  /\ live' = {} /\ roots' = 0 /\ scan' = {}
  /\ UNCHANGED <<broke, ceiling, bounds>>

Runs(s) == Start(s) \/ Finish(s) \/ Return(s)

Pass ==
  \/ ReadRunning \/ ReadQueue \/ Scanned
  \/ \E s \in Session : Admit(s)

Next ==
  \/ Pass \/ PassFails \/ Timer \/ WindowMoves \/ Stop \/ Restart
  \/ \E s \in Session :
       Enqueue(s) \/ Resume(s) \/ Cancel(s) \/ Spawn(s) \/ Runs(s)

Spec == Init /\ [][Next]_vars

\* Runs return, the hour moves on, the interval fires and a stopped process is
\* started again.  The event loop serves the callbacks of a run between two
\* passes, however often passes follow each other: strong fairness.
Fairness ==
  /\ WF_vars(Pass) /\ WF_vars(Timer) /\ WF_vars(WindowMoves) /\ WF_vars(Restart)
  /\ \A s \in Session : SF_vars(Runs(s))
FairSpec == Spec /\ Fairness

(***************************************************************************)
(* Properties.                                                             *)
(***************************************************************************)

\* The session at the top of a chain of sub-circuits.
Top[s \in Session] == IF Parent[s] = None THEN s ELSE Top[Parent[s]]

\* The runs in flight belong to at most MaxRuns top-level sessions, although a
\* pass counts slots from reads it made earlier, sub-circuits are admitted
\* without one, and parents leave while their sub-circuits still run.
WithinCapacity == Cardinality({Top[s] : s \in Inflight}) <= MaxRuns

\* Nothing to admit is overlooked: when no pass is under way, and the last one
\* did not give up, a session of the scanned queue is either running still,
\* or out of budget, or there is no slot for it.
NothingOverlooked ==
  (pc = "idle" /\ ~stopped) =>
    \A s \in NextQueued :
      \/ s \in Inflight
      \/ s \in broke
      \/ ~HasLiveParent(s, Inflight) /\ Cardinality(Inflight) >= MaxRuns

\* A queued session with budget left is admitted (or cancelled), unless another
\* run waits for a session that has none: dispatcher.ts skips that one for good.
Stuck == \E s \in broke : state[s] = "queued"
Admitted ==
  \A s \in Session :
    (state[s] = "queued" /\ s \notin broke) ~> (state[s] # "queued" \/ Stuck)
===============================================================================
