------------------------------- MODULE MCServices -------------------------------
(* Services beside the orchestrator: the configuration's proposals, the eval   *)
(* runs and the mirrors of repositories.  They share no state, so a behaviour  *)
(* is one of one of them.                                                      *)
EXTENDS Mirrors

CONSTANTS Proposal, Hunk, FileOf, Val, Strict, Loose, MaxCommits, MaxCrashes,
          Fixture, Dim, Value, Workers, Judge, WhileRunning, MaxRecords, MaxRestarts

VARIABLES commits, main, branch, row, job, crashes, refused,
          status, sessions, errs, summary, rows, star, session, proc, queue, mine, failed,
          stage, read, stopped, rec, calls, restarts, torn,
          side    \* the service at work

Config == INSTANCE ConfigProposals
Evals == INSTANCE EvalRuns

ASSUME ConfigAssumed == Config!ConfigAssumption
ASSUME EvalsAssumed == Evals!EvalAssumption

configVars == <<commits, main, branch, row, job, crashes, refused>>
evalVars == <<status, sessions, errs, summary, rows, star, session, proc, queue, mine, failed,
              stage, read, stopped, rec, calls, restarts, torn>>
serviceVars == <<vars, configVars, evalVars, side>>

\* The remotes are alike: the others' behaviours are not told apart by the one configured.
ServicesInit ==
  /\ Init /\ Config!Init /\ Evals!Init /\ side \in {"config", "evals", "mirrors"}
  /\ conf = CHOOSE r \in Remote : TRUE

ServicesNext ==
  /\ UNCHANGED side
  /\ \/ side = "mirrors" /\ Next /\ UNCHANGED <<configVars, evalVars>>
     \/ side = "config" /\ Config!Next /\ UNCHANGED <<vars, evalVars>>
     \/ side = "evals" /\ Evals!Next /\ UNCHANGED <<vars, configVars>>

\* What a service at rest may do by itself is only asked of the one at work.
ServicesSpec ==
  /\ ServicesInit /\ [][ServicesNext]_serviceVars
  /\ Config!Fair /\ Evals!Fair
  /\ WF_vars(side = "mirrors" /\ Reconcile)
  /\ WF_vars(side = "mirrors" /\ Applies)
  /\ WF_vars(\E m \in 1 .. Len(mirror) : Fetches(m))
  /\ SF_vars(CurrentFetch)

\* Of the eval runs: a run ends, its fixtures are accounted for, its scores fit together.
RunEnds == Evals!RunEnds
Accounted == Evals!Accounted
ScoresFit == Evals!ScoresFit

\* Of the proposals: main is valid and indexed, merges undo nothing, a proposal can be closed.
MainSound == Config!MainSound
OthersKept == Config!OthersKept
Closable == Config!Closable

\* Of the mirrors: a repository that stays configured is cloned in the end (see UpToDate).
Cloned == <>[](side = "mirrors" => UpToDate)

\* Two hunks of one file that must not both be changed, and a third in another file.
MCHunk == {"a1", "a2", "b"}
MCFileOf == [h \in MCHunk |-> IF h = "b" THEN "B" ELSE "A"]
MCVal == [h \in MCHunk |-> IF h = "b" THEN {0, 1, 2} ELSE {0, 1}]
MCTree == {t \in [MCHunk -> 0 .. 2] : \A h \in MCHunk : t[h] \in MCVal[h]}
MCStrict == {t \in MCTree : t["a1"] + t["a2"] < 2}
\* A branch may hold one tree that main may not.
MCLoose == MCStrict \cup {[h \in MCHunk |-> 1]}
=================================================================================
