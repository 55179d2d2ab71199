----------------------------- MODULE MCDispatcher -----------------------------
(* Sessions for TLC: 1 and 2 are top-level, 3 is a sub-circuit of 1 and 4 one *)
(* of 3.                                                                      *)
EXTENDS Dispatcher, TLC

MCParent == [s \in Session |-> CASE s = 3 -> 1 [] s = 4 -> 3 [] OTHER -> None]
MCPriority == [s \in Session |-> 2]
===============================================================================
