------------------------------ MODULE ToolJournal ------------------------------
(***************************************************************************)
(* The execution journal of tools: ToolboxImpl.invoke and ToolJournal      *)
(* (src/packages/server/src/toolbox/toolbox.ts, journal.ts), for one       *)
(* session that is in one step.                                            *)
(*                                                                         *)
(* The run loop calls tools one after the other, each under a key made of  *)
(* the attempt and the index of the call.  The code of a running tool may  *)
(* call tools in turn (run_tool), one or several at once; such a call goes *)
(* over the API, where the caller's token names the step as                *)
(* "<step>#<attempt>" and nothing gives an attempt or an index, so its key *)
(* has the defaults 1 and 0.  A crash loses the calls in flight and starts *)
(* a new attempt.                                                          *)
(***************************************************************************)
EXTENDS Naturals, FiniteSets, FiniteSetsExt

CONSTANTS
  Outer,        \* the run loop's call
  Nested,       \* calls that tool code makes at a time
  None,
  Tool,
  Cost,         \* [Tool -> Nat]: limits.max_cost_units
  Ceiling,      \* defaults.max_tool_cost_units
  Asked,        \* [index -> tools the step may ask for by index]
  MaxIndex,     \* bound: calls of one attempt, less one
  MaxNested,    \* bound: nested calls of one behaviour
  MaxRetry,     \* retry.max_attempts, less one
  MaxRestarts   \* bound: crashes

Thread == {Outer} \cup Nested

JournalAssumption ==
  /\ Outer \notin Nested /\ IsFiniteSet(Nested)
  /\ None \notin Tool /\ IsFiniteSet(Tool)
  /\ Cost \in [Tool -> Nat]
  /\ Asked \in [0 .. MaxIndex -> SUBSET Tool]
  /\ {Ceiling, MaxIndex, MaxNested, MaxRetry, MaxRestarts} \subseteq Nat

MaxAttempt == 1 + MaxRetry + MaxRestarts

\* step_id, attempt, call_index; 0 is the step itself and n is "<step>#n".
Key == (0 .. MaxAttempt) \X (1 .. MaxAttempt) \X (0 .. MaxIndex)

VARIABLES
  row,      \* table tool_executions
  call,     \* the invoke() each thread is in
  attempt, next, retries,   \* the run loop: attempt, index of the next call, retries made
  nested,   \* nested calls made
  restarts

vars == <<row, call, attempt, next, retries, nested, restarts>>
loop == <<attempt, next, retries>>

NoRow == [status |-> "none", tool |-> None, cost |-> 0]
NoCall == [pc |-> "idle", key |-> <<0, 1, 0>>, tool |-> None]

TypeOK ==
  /\ row \in [Key -> [status : {"none", "running", "completed", "failed"},
                      tool : Tool \cup {None}, cost : Nat]]
  /\ call \in [Thread -> [pc : {"idle", "lookup", "begin", "mint", "run", "complete", "fail",
                                "recheck"},
                          key : Key, tool : Tool \cup {None}]]
  /\ attempt \in 1 .. MaxAttempt /\ next \in 0 .. MaxIndex + 1
  /\ retries \in 0 .. MaxRetry /\ nested \in 0 .. MaxNested /\ restarts \in 0 .. MaxRestarts

Init ==
  /\ row = [k \in Key |-> NoRow]
  /\ call = [t \in Thread |-> NoCall]
  /\ attempt = 1 /\ next = 0 /\ retries = 0 /\ nested = 0 /\ restarts = 0

(***************************************************************************)
(* Who calls, under which key.                                             *)
(***************************************************************************)

\* executionKey, of a call of the run loop and of a call of tool code.
OuterKey == <<0, attempt, next>>

\* Mutant: the token names the step without its attempt.
PlainStepKey == <<0, 1, 0>>
NestedKey == <<attempt, 1, 0>>

InvokeOuter ==
  /\ call[Outer].pc = "idle" /\ next <= MaxIndex
  /\ \E a \in Asked[next] :
       call' = [call EXCEPT ![Outer] = [pc |-> "lookup", key |-> OuterKey, tool |-> a]]
  /\ next' = next + 1
  /\ UNCHANGED <<row, attempt, retries, nested, restarts>>

InvokeNested(t) ==
  /\ call[Outer].pc = "run" /\ call[t].pc = "idle" /\ nested < MaxNested
  /\ \E a \in Tool :
       call' = [call EXCEPT ![t] = [pc |-> "lookup", key |-> NestedKey, tool |-> a]]
  /\ nested' = nested + 1
  /\ UNCHANGED <<row, loop, restarts>>

(***************************************************************************)
(* invoke().                                                               *)
(***************************************************************************)

Goto(t, label) == call' = [call EXCEPT ![t].pc = label]
Leave(t) == call' = [call EXCEPT ![t] = NoCall]

\* sessionCostUnits
Spent == MapThenSumSet(LAMBDA k : row[k].cost,
                       {k \in Key : row[k].status = "completed"})

\* Mutant: the call is weighed without what was spent.
AffordableAlone(a) == Cost[a] <= Ceiling
Affordable(a) == Spent + Cost[a] <= Ceiling

\* A completed row answers the call, or refuses one of another input; else the ceiling decides.
Lookup(t) ==
  /\ call[t].pc = "lookup"
  /\ IF row[call[t].key].status = "completed" \/ ~Affordable(call[t].tool) THEN Leave(t) ELSE Goto(t, "begin")
  /\ UNCHANGED <<row, loop, nested, restarts>>

\* begin(): insert, or reset the row on conflict.
Begin(t) ==
  /\ call[t].pc = "begin"
  /\ row' = [row EXCEPT ![call[t].key] =
               [status |-> "running", tool |-> call[t].tool, cost |-> 0]]
  /\ Goto(t, "mint")
  /\ UNCHANGED <<loop, nested, restarts>>

\* The caller's token and the egress allowlist may fail, by an error of the
\* program's own ("recheck") or by another.
Mint(t) ==
  /\ call[t].pc = "mint"
  /\ \E label \in {"run", "fail", "recheck"} : Goto(t, label)
  /\ UNCHANGED <<row, loop, nested, restarts>>

\* The tool gives an output, or errs, or is killed.
Run(t) ==
  /\ call[t].pc = "run"
  /\ Goto(t, "complete") \/ Goto(t, "fail")
  /\ UNCHANGED <<row, loop, nested, restarts>>

\* complete()
Complete(t) ==
  LET k == call[t].key
      a == call[t].tool
  IN /\ call[t].pc = "complete"
     /\ row' = [row EXCEPT ![k].status = "completed", ![k].cost = Cost[a]]
     /\ Leave(t)
     /\ UNCHANGED <<loop, nested, restarts>>

\* Mutant: an error leaves the row.
NotJournaled(k) == row

\* fail(): whatever the row says by now.
JournalFailure(k) == [row EXCEPT ![k].status = "failed"]

Fail(t) ==
  /\ call[t].pc = "fail"
  /\ row' = JournalFailure(call[t].key)
  /\ Leave(t)
  /\ UNCHANGED <<loop, nested, restarts>>

\* The last catch of invoke() fails the row only where it still says "running".
Recheck(t) ==
  /\ call[t].pc = "recheck"
  /\ IF row[call[t].key].status = "running" THEN Goto(t, "fail") ELSE Leave(t)
  /\ UNCHANGED <<row, loop, nested, restarts>>

(***************************************************************************)
(* The run loop's attempts.                                                *)
(***************************************************************************)

\* A failed attempt is retried: runWithRetries.
Retry ==
  /\ call[Outer].pc = "idle" /\ next > 0 /\ retries < MaxRetry
  /\ attempt' = attempt + 1 /\ next' = 0 /\ retries' = retries + 1
  /\ UNCHANGED <<row, call, nested, restarts>>

\* The process dies; recover() fails the attempt and the step runs again.
Crash ==
  /\ restarts < MaxRestarts
  /\ restarts' = restarts + 1
  /\ call' = [t \in Thread |-> NoCall]
  /\ attempt' = attempt + 1 /\ next' = 0
  /\ UNCHANGED <<row, retries, nested>>

Invoke(t) == Lookup(t) \/ Begin(t) \/ Mint(t) \/ Run(t) \/ Complete(t) \/ Fail(t)
             \/ Recheck(t)

Next ==
  \/ InvokeOuter \/ Retry \/ Crash
  \/ \E t \in Nested : InvokeNested(t)
  \/ \E t \in Thread : Invoke(t)

Spec == Init /\ [][Next]_vars

(***************************************************************************)
(* Properties.                                                             *)
(***************************************************************************)

\* What the journal has recorded of a completed call of the run loop stays as it
\* is, whatever calls of tool code run beside it: begin() resets the row of its
\* key, and only their keys keep the two apart.
JournalStable ==
  [][\A k \in Key :
       k[1] = 0 /\ row[k].status = "completed" => row'[k] = row[k]]_vars

\* A row says "running" only while a call works on it, or after a crash.
RowsSettle ==
  \A k \in Key :
    row[k].status = "running" =>
      \/ \E t \in Thread : call[t].key = k /\ call[t].pc \in {"mint", "run", "complete", "fail", "recheck"}
      \/ restarts > 0

\* The session's tool budget is read before a call and charged after it: calls
\* under way are not counted, and the ceiling is passed by at most their cost.
OverrunBounded == Spent <= Ceiling + Cardinality(Nested) * Max({0} \cup {Cost[x] : x \in Tool})
===============================================================================
