-------------------------------- MODULE MCCalls --------------------------------
(* Operators at work on a session by itself or, when they have one call less,  *)
(* on a session that runs another as a sub-circuit.                            *)
EXTENDS MCOrchestrator

\* One call counts as made.
Pair == INSTANCE Orchestrator WITH RootCircuit <- "shell", calls <- calls - 1

CallsInit ==
  \/ Init
  \/ calls = 1 /\ Pair!Init

\* The operators are alike.
MCOperators == Permutations(Operator)

CallsSpec == CallsInit /\ [][Next]_vars
================================================================================
