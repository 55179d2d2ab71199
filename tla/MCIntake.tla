-------------------------------- MODULE MCIntake --------------------------------
(* The intake package: the queue of tasks, with two tasks of which the second  *)
(* waits for the first and the first is targeted, and a chat.  They share no   *)
(* state (a chat files its tasks as any user does), so a behaviour is one of   *)
(* the one or of the other.                                                    *)
EXTENDS TaskIntake

CONSTANTS t1, t2
MCTask == {t1, t2}
MCBlockers == [t \in MCTask |-> IF t = t2 THEN {t1} ELSE {}]
MCTargeted == {t1}

CONSTANTS MaxMessages, Background, Noted, Cost, ChatOps, MaxBudget, MaxEdits

VARIABLES state, det, spent, max, turns, locks, at, locals, cancelling, launched,
          screen, sent, paid, used, restarts,
          side    \* the part of the package at work

Chat == INSTANCE Conversations
          WITH st <- state, pc <- at, loc <- locals, calls <- used, crashes <- restarts,
               Ops <- ChatOps
ASSUME ChatAssumed == Chat!ConversationAssumption

chatVars == <<state, det, spent, max, turns, locks, at, locals, cancelling, launched,
              screen, sent, paid, used, restarts>>
IntakeVars == <<vars, chatVars, side>>

IntakeInit == Init /\ Chat!Init /\ side \in {"tasks", "chat"}

IntakeNext ==
  /\ UNCHANGED side
  /\ \/ side = "tasks" /\ Next /\ UNCHANGED chatVars
     \/ side = "chat" /\ Chat!Next /\ UNCHANGED vars

IntakeSpec == IntakeInit /\ [][IntakeNext]_IntakeVars /\ Fairness

\* Of the chat: the turns the model is called with only ever grow, the context is
\* that on the screen.
TurnsGrow == Chat!TurnsGrow
ContextIsCurrent == Chat!ContextIsCurrent
=================================================================================
