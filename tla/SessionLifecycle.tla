--------------------------- MODULE SessionLifecycle ---------------------------
(***************************************************************************)
(* What the orchestrator promises of a session's state, whatever goes on   *)
(* inside a run: "queued -> running -> (suspended-gate | suspended-error | *)
(* completed | cancelled)", a suspended run goes back to queued, a run the *)
(* server lost is queued again when it recovers, and a finished session    *)
(* never moves (specs/02-sessions-orchestrator.md, section 2).             *)
(***************************************************************************)
CONSTANTS Session, Root

VARIABLES
  state,        \* [Session -> state of the session]
  recovering    \* the server is putting back what its predecessor lost

Finished == {"completed", "cancelled"}

Init ==
  /\ state = [s \in Session |-> IF s \in Root THEN "queued" ELSE "none"]
  /\ recovering = FALSE

Move(s, from, to) ==
  /\ state[s] \in from
  /\ state' = [state EXCEPT ![s] = to]
  /\ UNCHANGED recovering

Enqueue(s) == Move(s, {"none"}, "queued")
Admit(s) == Move(s, {"queued"}, "running")
Rest(s) == \E to \in {"suspended-gate", "suspended-error", "completed"} : Move(s, {"running"}, to)
Requeue(s) == Move(s, {"suspended-gate", "suspended-error"}, "queued")
Recover(s) == recovering /\ Move(s, {"running"}, "queued")
Cancel(s) == Move(s, {"queued", "running", "suspended-gate", "suspended-error"}, "cancelled")

Restart == recovering' \in BOOLEAN /\ UNCHANGED state

Next ==
  \/ \E s \in Session : Enqueue(s) \/ Admit(s) \/ Rest(s) \/ Requeue(s) \/ Recover(s) \/ Cancel(s)
  \/ Restart

Spec == Init /\ [][Next]_<<state, recovering>>
===============================================================================
