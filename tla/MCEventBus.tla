------------------------------ MODULE MCEventBus ------------------------------
(* The event bus with one webhook and one client of its stream. *)
EXTENDS EventBus, TLC
===============================================================================
