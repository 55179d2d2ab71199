----------------------------- MODULE Conversations -----------------------------
(***************************************************************************)
(* One chat with a subagent: ConversationServiceImpl                       *)
(* (src/packages/server/src/intake/conversations.ts).  Messages are queued *)
(* on a promise chain; each is an exchange: the context on the screen is   *)
(* recorded when it has changed, then the message, then the replies and    *)
(* tool results of runConversation() (subagents/runtime.ts).  The session  *)
(* row is read at the start of an exchange and written at its end, and     *)
(* cancel(), resume() and the dispatcher (orchestrator/) write it too.     *)
(***************************************************************************)
EXTENDS Naturals, Sequences, FiniteSets, SequencesExt

CONSTANTS
  MaxMessages,  \* bound: messages that users post, numbered as they are accepted
  Background,   \* those accepted with an answer to follow: submit(), the others post()
  Cost,         \* what a reply of the model may cost
  Noted,        \* the messages whose text the context rule of a knowledge note matches
  Ops,          \* bound: which operator calls are made
  MaxBudget,    \* max_cost_usd of the session at its start
  MaxEdits, MaxCalls, MaxCrash   \* bounds: edits of what is on the screen, operator calls, crashes

ConversationAssumption ==
  /\ Cost \subseteq Nat \ {0} /\ IsFiniteSet(Cost) /\ Cost # {}
  /\ Background \subseteq Nat /\ Noted \subseteq Nat
  /\ {MaxMessages, MaxBudget, MaxEdits, MaxCalls, MaxCrash} \subseteq Nat

VARIABLES
  st,         \* the session's state
  det,        \* state_detail: is there a last_error, is the subagent still named
  spent, max, \* the budget
  turns,      \* the recorded turns of the session
  locks,      \* the promise chain: messages that wait, the first is being answered
  pc, loc,    \* where each message's exchange is, and its locals
  cancelling, \* the details that calls of cancel() have read
  launched,   \* the orchestrator has taken the session for a queued run
  screen,     \* what the user has open: the version of the definition or draft
  sent,       \* history: the messages of the last call of the model
  paid,       \* what the recorded turns have cost
  calls, crashes

Message == 1 .. MaxMessages

row == <<st, det, spent, max>>
chain == <<locks, pc, loc>>
model == <<turns, sent, paid>>
operators == <<cancelling, launched, screen, calls>>
vars == <<row, chain, model, operators, crashes>>

Turn == [role : {"preamble"}, of : Nat] \cup [role : {"user", "ask", "tool", "reply", "note"}, of : Message]
Detail == [error : BOOLEAN, subagent : BOOLEAN]
Answering == {"preamble", "user", "call", "tool", "save", "error", "over", "report", "record"}
Ended == {"answered", "failed", "lost"}

NoLocals == [hist |-> << >>, det |-> [error |-> FALSE, subagent |-> TRUE],
             spent |-> 0, max |-> 0, seen |-> 0]

Init ==
  /\ st = "running" /\ det = [error |-> FALSE, subagent |-> TRUE]
  /\ spent = 0 /\ max = MaxBudget
  /\ turns = << >> /\ sent = << >> /\ paid = 0
  /\ locks = << >> /\ pc = [m \in Message |-> "idle"] /\ loc = [m \in Message |-> NoLocals]
  /\ cancelling = {} /\ launched = FALSE /\ screen = 0
  /\ calls = 0 /\ crashes = 0

-------------------------------------------------------------------------------
Goto(m, label, l) == pc' = [pc EXCEPT ![m] = label] /\ loc' = [loc EXCEPT ![m] = l]
Step(m, label) == Goto(m, label, loc[m])

\* serialized(), finally: the next message may begin.
End(m, label) ==
  /\ Goto(m, label, NoLocals)
  /\ locks' = Tail(locks)

\* postLocked() throws: a message that was accepted in the background leaves its
\* error on the session, the others give it to the caller.
Throw(m) == IF m \in Background THEN Step(m, "report") /\ UNCHANGED locks ELSE End(m, "failed")

Exhausted(b) == b.spent >= b.max

\* post(), and submit(), which answers at once and takes only a running session.
Post(m) ==
  /\ pc[m] = "idle" /\ \A k \in 1 .. m - 1 : pc[k] # "idle"
  /\ m \in Background => st = "running"
  /\ Step(m, "wait")
  /\ locks' = Append(locks, m)
  /\ UNCHANGED <<row, model, operators, crashes>>

\* Mutant: exchanges are not queued.
Anyone(m) == pc[m] = "wait"

MayBegin(m) == pc[m] = "wait" /\ m = Head(locks)

\* postLocked(): the session and its turns are read.
Begin(m) ==
  /\ MayBegin(m)
  /\ IF st # "running" THEN Throw(m)
     ELSE /\ Goto(m, IF spent >= max THEN "over" ELSE "preamble",
                  [loc[m] EXCEPT !.hist = turns, !.det = det, !.spent = spent, !.max = max])
          /\ UNCHANGED locks
  /\ UNCHANGED <<row, model, operators, crashes>>

Recorded(m, t, label) ==
  /\ turns' = Append(turns, t)
  /\ Goto(m, label, [loc[m] EXCEPT !.hist = Append(loc[m].hist, t)])

\* A context on record.
Context(hist, i, v) == hist[i].role = "preamble" /\ hist[i].of = v

\* Mutant: the context is compared with the one given first.
OldestShown(hist, v) ==
  \E i \in DOMAIN hist : Context(hist, i, v) /\ \A j \in 1 .. i - 1 : hist[j].role # "preamble"

\* The context is on record, and nothing later replaces it.
Shown(hist, v) ==
  \E i \in DOMAIN hist : Context(hist, i, v) /\ \A j \in DOMAIN hist : j > i => hist[j].role # "preamble"

Preamble(m) ==
  LET t == [role |-> "preamble", of |-> screen]
      l == [loc[m] EXCEPT !.seen = screen] IN
  /\ pc[m] = "preamble"
  /\ IF Shown(l.hist, screen) THEN Goto(m, "user", l) /\ UNCHANGED turns
     ELSE turns' = Append(turns, t) /\ Goto(m, "user", [l EXCEPT !.hist = Append(l.hist, t)])
  /\ UNCHANGED <<row, locks, sent, paid, operators, crashes>>

\* The message is recorded, and its subagent resolved at the present commit.
UserTurn(m) ==
  /\ pc[m] = "user" /\ Recorded(m, [role |-> "user", of |-> m], "resolve")
  /\ UNCHANGED <<row, locks, sent, paid, operators, crashes>>

Resolve(m) ==
  /\ pc[m] = "resolve"
  /\ \/ loc[m].det.subagent /\ Step(m, "call") /\ UNCHANGED locks
     \/ ("config" \in Ops \/ ~loc[m].det.subagent) /\ Throw(m)
  /\ UNCHANGED <<row, model, operators, crashes>>

\* checkBudget()
OverBudget(l) == Exhausted(l)

\* injectKnowledge(): a matching note goes just before the message that is answered, and is not
\* a turn of the record that the next exchange starts from (historyMessages() skips those).
Injected(hist, m) ==
  LET at == CHOOSE i \in DOMAIN hist : hist[i].role = "user" /\ hist[i].of = m IN
  IF \E i \in DOMAIN hist : hist[i].role = "user" /\ hist[i].of \in Noted
  THEN InsertAt(hist, at, [role |-> "note", of |-> m])
  ELSE hist

\* The model is called with everything recorded; it replies, or asks for a tool.
Call(m) ==
  /\ pc[m] = "call" /\ ~OverBudget(loc[m])
  /\ sent' = Injected(loc[m].hist, m)
  /\ \E role \in {"ask", "reply"}, c \in Cost :
       LET t == [role |-> role, of |-> m] IN
       /\ turns' = Append(turns, t) /\ paid' = paid + c
       /\ Goto(m, IF role = "ask" THEN "tool" ELSE "save",
               [loc[m] EXCEPT !.hist = Append(loc[m].hist, t), !.spent = loc[m].spent + c])
  /\ UNCHANGED <<row, locks, operators, crashes>>

\* The provider refuses or fails, for good: nothing was recorded.
CallFails(m) ==
  /\ pc[m] = "call" /\ ~OverBudget(loc[m])
  /\ sent' = Injected(loc[m].hist, m) /\ Step(m, "error")
  /\ UNCHANGED <<row, locks, turns, paid, operators, crashes>>

CallOver(m) ==
  /\ pc[m] = "call" /\ OverBudget(loc[m]) /\ Step(m, "over")
  /\ UNCHANGED <<row, locks, model, operators, crashes>>

ToolResult(m) ==
  /\ pc[m] = "tool" /\ Recorded(m, [role |-> "tool", of |-> m], "call")
  /\ UNCHANGED <<row, locks, sent, paid, operators, crashes>>

\* The end of an exchange: budget and detail are written, the state only when
\* the budget is spent, and then whatever it has become; the budget is the one read at its start.
Save(m) ==
  LET l == loc[m] IN
  /\ pc[m] = "save"
  /\ spent' = l.spent /\ max' = l.max /\ det' = [l.det EXCEPT !.error = FALSE]
  /\ st' = IF Exhausted(l) THEN "suspended" ELSE st
  /\ End(m, "answered")
  /\ UNCHANGED <<model, operators, crashes>>

\* catch: the spend is kept, the error noted.
SaveError(m) ==
  LET l == loc[m] IN
  /\ pc[m] = "error"
  /\ spent' = l.spent /\ max' = l.max /\ det' = [l.det EXCEPT !.error = TRUE]
  /\ Throw(m)
  /\ UNCHANGED <<st, model, operators, crashes>>

\* suspendForBudget(), then the error is thrown.
SuspendForBudget(m) ==
  LET l == loc[m] IN
  /\ pc[m] = "over"
  /\ st' = "suspended" /\ spent' = l.spent /\ max' = l.max /\ det' = l.det
  /\ Throw(m)
  /\ UNCHANGED <<model, operators, crashes>>

\* recordFailure(): the row is read ...
ReadFailed(m) ==
  /\ pc[m] = "report" /\ Goto(m, "record", [loc[m] EXCEPT !.det = det])
  /\ UNCHANGED <<row, locks, model, operators, crashes>>

FailureNoted(d) == [d EXCEPT !.error = TRUE]

\* ... and its detail written with the error.
RecordFailure(m) ==
  /\ pc[m] = "record" /\ det' = FailureNoted(loc[m].det)
  /\ End(m, "failed")
  /\ UNCHANGED <<st, spent, max, model, operators, crashes>>

Exchange(m) ==
  \/ Begin(m) \/ Preamble(m) \/ UserTurn(m) \/ Resolve(m)
  \/ Call(m) \/ CallFails(m) \/ CallOver(m) \/ ToolResult(m)
  \/ Save(m) \/ SaveError(m) \/ SuspendForBudget(m) \/ ReadFailed(m) \/ RecordFailure(m)

-------------------------------------------------------------------------------
(***************************************************************************)
(* The user at work elsewhere, operators, the orchestrator.                *)
(***************************************************************************)
OperatorCall(op) == op \in Ops /\ calls < MaxCalls /\ calls' = calls + 1

EditScreen ==
  /\ \E v \in 0 .. MaxEdits : v # screen /\ screen' = v
  /\ OperatorCall("edit")
  /\ UNCHANGED <<row, chain, model, cancelling, launched, crashes>>

\* cancel(): the detail that was read is kept, with what the cancellation adds.
CancelRead ==
  /\ OperatorCall("cancel") /\ st # "cancelled"
  /\ cancelling' = cancelling \cup {det}
  /\ UNCHANGED <<row, chain, model, launched, screen, crashes>>

CancelWrite ==
  /\ \E d \in cancelling : det' = d /\ cancelling' = cancelling \ {d}
  /\ st' = "cancelled"
  /\ UNCHANGED <<spent, max, chain, model, launched, screen, calls, crashes>>

\* resume() with a higher budget: the session is queued, and preserve() drops
\* what a chat keeps in its detail.
Resume ==
  /\ OperatorCall("resume") /\ st = "suspended"
  /\ max' = max + 1 /\ max' > paid
  /\ st' = "queued" /\ det' = [error |-> FALSE, subagent |-> FALSE]
  /\ UNCHANGED <<spent, chain, model, cancelling, launched, screen, crashes>>

\* The queue does not look at a session's kind: a chat is run like a circuit, ...
Launch ==
  /\ st = "queued" /\ max > spent
  /\ st' = "running" /\ launched' = TRUE
  /\ UNCHANGED <<det, spent, max, chain, model, cancelling, screen, calls, crashes>>

\* ... and has no circuit to load.
NoCircuit ==
  /\ launched /\ launched' = FALSE
  /\ IF st = "cancelled" THEN UNCHANGED <<st, det>>
     ELSE st' = "suspended" /\ det' = [error |-> FALSE, subagent |-> FALSE]
  /\ UNCHANGED <<spent, max, chain, model, cancelling, screen, calls, crashes>>

\* A restart: the chain is gone; chats stay as they are.
Crash ==
  /\ crashes < MaxCrash /\ crashes' = crashes + 1
  /\ locks' = << >>
  /\ pc' = [m \in Message |-> IF pc[m] \in {"idle"} \cup Ended THEN pc[m] ELSE "lost"]
  /\ loc' = [m \in Message |-> NoLocals]
  /\ cancelling' = {} /\ launched' = FALSE
  /\ UNCHANGED <<row, model, screen, calls>>

Next ==
  \/ \E m \in Message : Post(m) \/ Exchange(m)
  \/ EditScreen \/ CancelRead \/ CancelWrite \/ Resume \/ Launch \/ NoCircuit \/ Crash

Spec == Init /\ [][Next]_vars
-------------------------------------------------------------------------------
(***************************************************************************)
(* Properties.                                                             *)
(***************************************************************************)
TypeOK ==
  /\ st \in {"queued", "running", "suspended", "cancelled"} /\ det \in Detail
  /\ spent \in Nat /\ max \in Nat /\ paid \in Nat
  /\ turns \in Seq(Turn) /\ sent \in Seq(Turn)
  /\ locks \in Seq(Message)
  /\ pc \in [Message -> {"idle", "wait", "resolve"} \cup Answering \cup Ended]
  /\ cancelling \subseteq Detail /\ screen \in 0 .. MaxEdits

\* What the model was called with, without the note: there is one at most.
IsNote(history, i) == history[i].role = "note"
Turns(history) ==
  IF \E i \in DOMAIN history : IsNote(history, i)
  THEN RemoveAt(history, CHOOSE i \in DOMAIN history : IsNote(history, i)) ELSE history

\* Of the recorded turns, what the model is called with extends what it was called with before, over
\* the messages of several users, failures and restarts (serialized(), recordTurn()).
TurnsGrow == [][IsPrefix(Turns(sent), Turns(sent'))]_vars

\* "the history the model sees only ever grows" (conversations.ts:195): so does all that it is
\* called with, injected notes included, so that a cached prefix of the prompt stays valid.
HistoryGrows == [][IsPrefix(sent, sent')]_vars

\* A message is answered with the context its user had on the screen: the last
\* preamble before it is the one that was current when its exchange began.
ContextIsCurrent ==
  \A m \in Message : pc[m] \in {"call", "tool"} => Shown(loc[m].hist, loc[m].seen)
===============================================================================
