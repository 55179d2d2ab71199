------------------------------- MODULE MCSession -------------------------------
(* What a session at work goes through beside its own run loop: its gate, the  *)
(* journal of its tools and the notes they edit.  They share no state, so a    *)
(* behaviour is one of one of them.                                            *)
EXTENDS MCOrchestrator

CONSTANTS Outer, Nested, Tool, Cost, Ceiling, Asked, MaxIndex, MaxNested, MaxRetry, MaxRestarts,
          t1, t2,
          Words, Compactor, Svc, NoteOps, MaxTyped, MaxCalled, MaxSweeps, MaxAges, MaxReloads

VARIABLES row, call, attempt, next, retries, nested, restarts,
          doc, chain, updates, seq, revs, th, held, edit, typed, called, swept, ages, reloads,
          side    \* the component at work

Journal == INSTANCE ToolJournal
Note == INSTANCE NoteHistory

ASSUME JournalAssumed == Journal!JournalAssumption

journalVars == <<row, call, attempt, next, retries, nested, restarts>>
noteVars == <<doc, chain, updates, seq, revs, th, held, edit, typed, called, swept, ages, reloads>>
sessionVars == <<vars, journalVars, noteVars, side>>

SessionInit == Init /\ Journal!Init /\ Note!Init /\ side \in {"gate", "journal", "note"}

SessionNext ==
  /\ UNCHANGED side
  /\ \/ side = "gate" /\ Next /\ UNCHANGED <<journalVars, noteVars>>
     \/ side = "journal" /\ Journal!Next /\ UNCHANGED <<vars, noteVars>>
     \/ side = "note" /\ Note!Next /\ UNCHANGED <<vars, journalVars>>

SessionSpec == SessionInit /\ [][SessionNext]_sessionVars

\* Of the journal.
RowsSettle == Journal!RowsSettle
OverrunBounded == Journal!OverrunBounded
JournalStable == Journal!JournalStable

\* Of the note.
LoadsBack == Note!LoadsBack
EditKeepsOthers == Note!EditKeepsOthers

\* Of the note, at most three of: a change typed, two operations and a crash.
FewChanges == typed + called + reloads <= 3

\* Two tools of different costs; a step that asks for one of them.
MCTool == {t1, t2}
MCCost == t1 :> 1 @@ t2 :> 2
MCAsked == [i \in 0 .. MaxIndex |-> MCTool]

\* The calls tool code makes are alike, and so are the operators.
MCSymmetry == Permutations(Nested) \cup Permutations(Operator)
================================================================================
