------------------------------ MODULE EvalRuns ------------------------------
(***************************************************************************)
(* One eval run (evals/service.ts): its fixtures are enqueued as sessions, *)
(* a pool of workers waits for each to settle and scores it, dimension by  *)
(* dimension and then the aggregate row '*'; the run ends with a summary.  *)
(* A session may wait at a gate for days, so the run outlives the process: *)
(* recover() goes on with the fixtures that have no aggregate row.  A      *)
(* judge may record a score of its own over MCP (recordScore()).           *)
(***************************************************************************)
EXTENDS Integers, FiniteSets

CONSTANTS
  Fixture,
  Dim,            \* the rubric's dimensions
  Value,          \* the values a dimension may get
  Workers,        \* the pool's size (d.concurrency)
  Judge,          \* the callers of recordScore()
  WhileRunning,   \* whether they call before the run has ended
  None,
  MaxRecords,     \* bound: calls of recordScore()
  MaxRestarts      \* bound: stops and restarts of the server

VARIABLES
  status,     \* eval_runs.status
  sessions,   \* summary.sessions: the fixtures whose session the row knows
  errs,       \* summary.errors
  summary,    \* the aggregates the summary was computed from
  rows,       \* eval_results by fixture and dimension
  star,       \* eval_results of dimension '*': the values it was built from
  session,    \* the fixtures' sessions
  proc,       \* where the process is with the run
  queue,      \* the fixtures it has to enqueue, or to score
  mine,       \* the fixtures it has enqueued
  failed,     \* the errors it will write
  stage,      \* what a worker does with a fixture
  read,       \* what finish() has read of the results
  stopped,
  rec,        \* the recordScore() calls under way
  calls, restarts,
  torn        \* whether a crash cut a recordScore() short

durable == <<status, sessions, errs, summary, rows, star>>
process == <<proc, queue, mine, failed, stage, read, stopped>>
vars == <<durable, session, process, rec, calls, restarts, torn>>

Idle == [at |-> "idle"]
Unread == [f \in {} |-> None]
NoRow == [d \in Dim |-> None]

TypeOK ==
  /\ status \in {"none", "running", "completed", "failed"} /\ sessions \subseteq Fixture /\ errs \subseteq Fixture
  /\ \A f \in Fixture : rows[f] \in [Dim -> Value \cup {None}] /\ (star[f] = None \/ DOMAIN star[f] = Dim)
  /\ session \in [Fixture -> {"none", "live", "gate", "done", "failed"}]
  /\ proc \in {"off", "enqueue", "score", "finish"} /\ queue \subseteq Fixture /\ failed \subseteq Fixture
  /\ Cardinality({f \in Fixture : stage[f].at # "idle"}) <= Workers

Init ==
  /\ status = "none" /\ sessions = {} /\ errs = {} /\ summary = Unread
  /\ rows = [f \in Fixture |-> NoRow] /\ star = [f \in Fixture |-> None]
  /\ session = [f \in Fixture |-> "none"]
  /\ proc = "off" /\ queue = {} /\ mine = {} /\ failed = {} /\ stage = [f \in Fixture |-> Idle]
  /\ read = None /\ stopped = FALSE
  /\ rec = [j \in Judge |-> Idle] /\ calls = 0 /\ restarts = 0 /\ torn = FALSE

\* No value, and no row of values, is the absence of one.
EvalAssumption == None \notin Value /\ None \notin [Dim -> Value \cup {None}]

\* ---------------------------------------------------------------- the run

Start ==
  /\ status = "none" /\ ~stopped
  /\ status' = "running" /\ proc' = "enqueue" /\ queue' = Fixture
  /\ UNCHANGED <<sessions, errs, summary, rows, star, session, mine, failed, stage, read, stopped, rec, calls, restarts, torn>>

\* execute(): each fixture gets a session, or an error.
Enqueue(f) ==
  /\ proc = "enqueue" /\ f \in queue
  /\ queue' = queue \ {f}
  /\ \/ session' = [session EXCEPT ![f] = "live"] /\ mine' = mine \cup {f} /\ UNCHANGED failed
     \/ failed' = failed \cup {f} /\ UNCHANGED <<session, mine>>
  /\ UNCHANGED <<durable, proc, stage, read, stopped, rec, calls, restarts, torn>>

\* mergeSummary({sessions}).
SaveSessions ==
  /\ proc = "enqueue" /\ queue = {}
  /\ sessions' = mine /\ queue' = mine /\ proc' = "score"
  /\ UNCHANGED <<status, errs, summary, rows, star, session, mine, failed, stage, read, stopped, rec, calls, restarts, torn>>

\* pool(): a free worker takes the next fixture.
Take(f) ==
  /\ proc = "score" /\ f \in queue /\ stage[f] = Idle
  /\ Cardinality({g \in Fixture : stage[g].at # "idle"}) < Workers
  /\ queue' = queue \ {f}
  /\ stage' = [stage EXCEPT ![f] = [at |-> "wait"]]
  /\ UNCHANGED <<durable, session, proc, mine, failed, read, stopped, rec, calls, restarts, torn>>

Settled == {"done", "failed"}

\* awaitSettled(), outcomeOf(): the dimensions' values; a session that did not complete gets none.
Outcome(f) ==
  /\ stage[f].at = "wait" /\ session[f] \in Settled
  /\ \E v \in [Dim -> Value] :
       /\ session[f] # "done" => \A d \in Dim : v[d] = CHOOSE x \in Value : TRUE
       /\ stage' = [stage EXCEPT ![f] = [at |-> "write", vals |-> v, left |-> Dim]]
  /\ UNCHANGED <<durable, session, proc, queue, mine, failed, read, stopped, rec, calls, restarts, torn>>

\* The service stops while the session waits at its gate: the fixture stays unscored.
LeaveGated(f) ==
  /\ stopped /\ stage[f].at = "wait" /\ session[f] = "gate"
  /\ stage' = [stage EXCEPT ![f] = Idle]
  /\ UNCHANGED <<durable, session, proc, queue, mine, failed, read, stopped, rec, calls, restarts, torn>>

\* upsertResult() of one dimension.
WriteRow(f) ==
  /\ stage[f].at = "write"
  /\ \E d \in stage[f].left :
       /\ rows' = [rows EXCEPT ![f][d] = stage[f].vals[d]]
       /\ stage' = [stage EXCEPT ![f].left = @ \ {d}]
  /\ UNCHANGED <<status, sessions, errs, summary, star, session, proc, queue, mine, failed, read, stopped, rec, calls, restarts, torn>>

\* upsertResult() of '*': the fixture counts as scored.
WriteStar(f) ==
  /\ stage[f].at = "write" /\ stage[f].left = {}
  /\ star' = [star EXCEPT ![f] = stage[f].vals]
  /\ stage' = [stage EXCEPT ![f] = Idle]
  /\ UNCHANGED <<status, sessions, errs, summary, rows, session, proc, queue, mine, failed, read, stopped, rec, calls, restarts, torn>>

\* A statement or the judge's session fails: the error is kept, unless the service is stopping.
ScoringFails(f) ==
  /\ stage[f].at = "write"
  /\ failed' = IF stopped THEN failed ELSE failed \cup {f}
  /\ stage' = [stage EXCEPT ![f] = Idle]
  /\ UNCHANGED <<durable, session, proc, queue, mine, read, stopped, rec, calls, restarts, torn>>

Stars == [f \in {g \in Fixture : star[g] # None} |-> star[f]]
PoolDone == proc = "score" /\ queue = {} /\ \A f \in Fixture : stage[f] = Idle

\* finish(): the results are read, ...
ReadResults ==
  /\ PoolDone /\ ~stopped
  /\ read' = Stars /\ proc' = "finish"
  /\ UNCHANGED <<durable, session, queue, mine, failed, stage, stopped, rec, calls, restarts, torn>>

\* ... the summary is merged into the row, and the status follows from how many were scored.
Finish ==
  /\ proc = "finish"
  /\ summary' = read /\ errs' = failed
  /\ status' = IF DOMAIN read = {} THEN "failed" ELSE "completed"
  /\ proc' = "off" /\ read' = None
  /\ UNCHANGED <<sessions, rows, star, session, queue, mine, failed, stage, stopped, rec, calls, restarts, torn>>

\* ------------------------------------------------------- stops and restarts

Stop ==
  /\ ~stopped /\ restarts < MaxRestarts /\ stopped' = TRUE
  /\ UNCHANGED <<durable, session, proc, queue, mine, failed, stage, read, rec, calls, restarts, torn>>

\* Mutant: what has a row of any dimension is taken for scored.
AnyRow == {f \in Fixture : star[f] # None \/ rows[f] # NoRow}
Done == {f \in Fixture : star[f] # None}

\* Mutant: a run without sessions in its summary is left alone.
HasSessions == status = "running" /\ sessions # {}
Resumable == status = "running"

\* The process ends, crashed or stopped, and the next one's recover() takes the run up if it is running.
Restart ==
  /\ restarts < MaxRestarts /\ restarts' = restarts + 1 /\ stopped' = FALSE
  /\ stage' = [f \in Fixture |-> Idle] /\ failed' = {} /\ mine' = sessions /\ read' = None
  /\ rec' = [j \in Judge |-> Idle] /\ torn' = (torn \/ \E j \in Judge : rec[j] # Idle)
  /\ IF Resumable THEN proc' = "score" /\ queue' = sessions \ Done
                  ELSE proc' = "off" /\ queue' = {}
  /\ UNCHANGED <<durable, session, calls>>

\* ------------------------------------------------------------- recordScore()

\* The fixture must have a session in the summary or a row (sessionForFixture).
Known(f) == f \in sessions \/ star[f] # None \/ rows[f] # NoRow

Record(j, f) ==
  /\ rec[j] = Idle /\ calls < MaxRecords /\ Known(f)
  /\ WhileRunning \/ status \in {"completed", "failed"}
  /\ \E d \in Dim, v \in Value : rows' = [rows EXCEPT ![f][d] = v]
  /\ rec' = [rec EXCEPT ![j] = [at |-> "read", f |-> f]]
  /\ calls' = calls + 1
  /\ UNCHANGED <<status, sessions, errs, summary, star, session, process, restarts, torn>>

RecordRead(j) ==
  /\ rec[j].at = "read"
  /\ rec' = [rec EXCEPT ![j] = [at |-> "star", f |-> @.f, vals |-> rows[@.f]]]
  /\ UNCHANGED <<durable, session, process, calls, restarts, torn>>

\* Mutant: the aggregate stays as the run computed it.
OldStar(j) == star[rec[j].f]
NewStar(j) == rec[j].vals

RecordStar(j) ==
  /\ rec[j].at = "star"
  /\ star' = [star EXCEPT ![rec[j].f] = NewStar(j)]
  /\ rec' = [rec EXCEPT ![j] = [at |-> "recompute"]]
  /\ UNCHANGED <<status, sessions, errs, summary, rows, session, process, calls, restarts, torn>>

RecordRecompute(j) ==
  /\ rec[j].at = "recompute"
  /\ rec' = [rec EXCEPT ![j] = [at |-> "merge", stars |-> Stars]]
  /\ UNCHANGED <<durable, session, process, calls, restarts, torn>>

RecordMerge(j) ==
  /\ rec[j].at = "merge"
  /\ summary' = rec[j].stars /\ rec' = [rec EXCEPT ![j] = Idle]
  /\ UNCHANGED <<status, sessions, errs, rows, star, session, process, calls, restarts, torn>>

\* ------------------------------------------------- the orchestrator's sessions

Gate(f) == session[f] = "live" /\ session' = [session EXCEPT ![f] = "gate"] /\ UNCHANGED <<durable, process, rec, calls, restarts, torn>>
Rest(f) ==
  /\ session[f] \in {"live", "gate"}
  /\ session' \in {[session EXCEPT ![f] = "done"], [session EXCEPT ![f] = "failed"]}
  /\ UNCHANGED <<durable, process, rec, calls, restarts, torn>>

Run == \/ SaveSessions \/ ReadResults \/ Finish
       \/ \E f \in Fixture : Enqueue(f) \/ Take(f) \/ LeaveGated(f) \/ WriteRow(f) \/ WriteStar(f) \/ ScoringFails(f)
Recording == \E j \in Judge : RecordRead(j) \/ RecordStar(j) \/ RecordRecompute(j) \/ RecordMerge(j)

Next ==
  \/ Start \/ Run \/ Stop \/ Restart \/ Recording
  \/ \E f \in Fixture : Outcome(f) \/ Gate(f) \/ Rest(f) \/ \E j \in Judge : Record(j, f)

Spec == Init /\ [][Next]_vars

\* A running process goes on, a stopped one is started again, a session comes to rest (Orchestrator's
\* ComesToRest, with reviewers who answer its gates).
Fair ==
  /\ WF_vars(Run) /\ WF_vars(stopped /\ Restart)
  /\ \A f \in Fixture : WF_vars(Outcome(f)) /\ WF_vars(Rest(f))
LiveSpec == Spec /\ Fair

\* -------------------------------------------------------------- properties

Ended == status \in {"completed", "failed"}

\* A run that was started ends, whatever was enqueued, stopped, crashed or failed to score in between
\* (execute, recover, finish).
RunEnds == status = "running" ~> Ended

\* Every fixture whose session the run knows ends scored on every dimension or listed as an error,
\* however often the process that scored it was replaced (recover's done, scoreQueued's errors).
Accounted ==
  Ended => \A f \in sessions : f \in errs \/ (star[f] # None /\ \A d \in Dim : rows[f][d] # None)

\* When nothing is under way and no crash cut a recordScore() short, the aggregate rows are those of the
\* dimensions' rows and the summary is that of the aggregates (scoreFixture, recordScore, recomputeSummary).
ScoresFit ==
  Ended /\ proc = "off" /\ ~torn /\ (\A j \in Judge : rec[j] = Idle) =>
    /\ summary = Stars
    /\ \A f \in Fixture : star[f] # None => star[f] = rows[f]
=============================================================================
