---------------------------- MODULE SessionProofs ----------------------------
(***************************************************************************)
(* What a session's tool calls and notes leave behind: JournalStable,       *)
(* RowsSettle and OverrunBounded of ToolJournal, EditKeepsOthers and        *)
(* LoadsBack of NoteHistory, for any tools, calls, retries and restarts,    *)
(* and for any texts, compactions and operations on the note.  The          *)
(* component at work makes its own steps while the others rest, so that an  *)
(* invariant of one is one of the whole.                                    *)
(***************************************************************************)
EXTENDS MCSession, FiniteSetTheorems, WellFoundedInduction, TLAPS

-------------------------------------------------------------------------------
(***************************************************************************)
(* The journal.  A key of the run loop names no step of an attempt, a key   *)
(* of tool code does, so that only the run loop's call writes the former:   *)
(* what it found not completed is not completed until it completes it.      *)
(***************************************************************************)
Row == [status : {"none", "running", "completed", "failed"}, tool : Tool \cup {None}, cost : Nat]
Working == {"mint", "run", "complete", "fail", "recheck"}
Invocation == [pc : {"idle", "lookup", "begin"} \cup Working, key : Journal!Key, tool : Tool \cup {None}]

JournalTyped ==
  /\ row \in [Journal!Key -> Row]
  /\ call \in [Journal!Thread -> Invocation]
  /\ \A t \in Journal!Thread : call[t].pc # "idle" => call[t].tool \in Tool
  /\ attempt = 1 + retries + restarts /\ next \in 0 .. MaxIndex + 1
  /\ retries \in 0 .. MaxRetry /\ restarts \in 0 .. MaxRestarts

\* Whose keys are whose, and what the run loop's call has seen.
OwnKeys ==
  /\ \A t \in Nested : call[t].pc # "idle" => call[t].key[1] # 0
  /\ call[Outer].pc # "idle" => call[Outer].key[1] = 0
  /\ call[Outer].pc \in {"begin"} \cup Working => row[call[Outer].key].status # "completed"

JournalInv == JournalTyped /\ OwnKeys /\ RowsSettle

LEMMA JournalBounds ==
  /\ Outer \notin Nested /\ MaxIndex \in Nat /\ MaxRetry \in Nat /\ MaxRestarts \in Nat
  /\ Cost \in [Tool -> Nat] /\ \A i \in 0 .. MaxIndex : Asked[i] \subseteq Tool
  /\ Outer \in Journal!Thread /\ Nested \subseteq Journal!Thread
  /\ \A t \in Journal!Thread : t = Outer \/ t \in Nested
BY JournalAssumed DEF Journal!JournalAssumption, Journal!Thread

\* The keys that calls are given.
LEMMA KeysType ==
  ASSUME JournalTyped
  PROVE  /\ next <= MaxIndex => Journal!OuterKey \in Journal!Key
         /\ Journal!NestedKey \in Journal!Key /\ Journal!NestedKey[1] # 0
         /\ <<0, 1, 0>> \in Journal!Key /\ Journal!OuterKey[1] = 0
<1>1. attempt \in 1 .. Journal!MaxAttempt /\ 1 \in 1 .. Journal!MaxAttempt /\ 0 \in 0 .. MaxIndex
  BY JournalBounds DEF JournalTyped, Journal!MaxAttempt
<1>2. next <= MaxIndex => next \in 0 .. MaxIndex
  BY JournalBounds DEF JournalTyped
<1>3. Journal!MaxAttempt \in Nat
  BY JournalBounds DEF Journal!MaxAttempt
<1> QED BY <1>1, <1>2, <1>3 DEF Journal!Key, Journal!OuterKey, Journal!NestedKey

LEMMA JournalInit == Journal!Init => JournalInv
<1> SUFFICES ASSUME Journal!Init PROVE JournalInv
  OBVIOUS
<1>1. /\ row = [k \in Journal!Key |-> Journal!NoRow] /\ call = [t \in Journal!Thread |-> Journal!NoCall]
      /\ attempt = 1 /\ next = 0 /\ retries = 0 /\ restarts = 0
  BY DEF Journal!Init
<1>2. <<0, 1, 0>> \in Journal!Key
  BY JournalBounds DEF Journal!Key, Journal!MaxAttempt
<1>3. Journal!NoCall \in Invocation /\ Journal!NoCall.pc = "idle" /\ Journal!NoRow \in Row /\ Journal!NoRow.status = "none"
  BY <1>2 DEF Journal!NoCall, Journal!NoRow, Invocation, Row
<1>4. JournalTyped
  BY <1>1, <1>3, JournalBounds DEF JournalTyped
<1>5. OwnKeys
  BY <1>1, <1>3, JournalBounds DEF OwnKeys, Working
<1>6. RowsSettle
  BY <1>1, <1>3 DEF RowsSettle, Journal!RowsSettle
<1> QED BY <1>4, <1>5, <1>6 DEF JournalInv

\* A call moves on, or leaves; the rest stays.
LEMMA CallMoves ==
  ASSUME JournalTyped, NEW t \in Journal!Thread, NEW c \in Invocation, call' = [call EXCEPT ![t] = c],
         c.pc # "idle" => c.tool \in Tool, row' \in [Journal!Key -> Row],
         attempt' = attempt, retries' = retries, restarts' = restarts, next' \in 0 .. MaxIndex + 1
  PROVE  /\ JournalTyped' /\ call'[t] = c
         /\ \A u \in Journal!Thread \ {t} : call'[u] = call[u]
BY DEF JournalTyped

LEMMA OuterKeeps == ASSUME JournalInv, Journal!InvokeOuter PROVE JournalInv'
<1>1. PICK a \in Asked[next] : call' = [call EXCEPT ![Outer] = [pc |-> "lookup", key |-> Journal!OuterKey, tool |-> a]]
  BY DEF Journal!InvokeOuter
<1> DEFINE c == [pc |-> "lookup", key |-> Journal!OuterKey, tool |-> a]
<1>2. /\ call[Outer].pc = "idle" /\ next <= MaxIndex /\ next' = next + 1
      /\ row' = row /\ attempt' = attempt /\ retries' = retries /\ restarts' = restarts
  BY DEF Journal!InvokeOuter
<1>3. next \in 0 .. MaxIndex /\ next' \in 0 .. MaxIndex + 1 /\ a \in Tool
  BY <1>2, JournalBounds DEF JournalInv, JournalTyped
<1>4. c \in Invocation /\ c.tool \in Tool /\ c.pc = "lookup" /\ c.key[1] = 0
  BY <1>2, <1>3, KeysType DEF JournalInv, Invocation
<1>5. call' = [call EXCEPT ![Outer] = c]
  BY <1>1
<1> HIDE DEF c
<1>6. /\ JournalTyped' /\ call'[Outer] = c /\ \A u \in Journal!Thread \ {Outer} : call'[u] = call[u]
  BY <1>2, <1>3, <1>4, <1>5, CallMoves, JournalBounds DEF JournalInv, JournalTyped
<1>7. OwnKeys'
  BY <1>2, <1>4, <1>6, JournalBounds DEF JournalInv, OwnKeys, Working
<1>8. RowsSettle'
  BY <1>2, <1>6 DEF JournalInv, RowsSettle, Journal!RowsSettle
<1> QED BY <1>6, <1>7, <1>8 DEF JournalInv

LEMMA NestedKeeps == ASSUME JournalInv, NEW t \in Nested, Journal!InvokeNested(t) PROVE JournalInv'
<1>1. PICK a \in Tool : call' = [call EXCEPT ![t] = [pc |-> "lookup", key |-> Journal!NestedKey, tool |-> a]]
  BY DEF Journal!InvokeNested
<1> DEFINE c == [pc |-> "lookup", key |-> Journal!NestedKey, tool |-> a]
<1>2. /\ call[t].pc = "idle" /\ row' = row /\ next' = next
      /\ attempt' = attempt /\ retries' = retries /\ restarts' = restarts
  BY DEF Journal!InvokeNested, Journal!loop
<1>3. c \in Invocation /\ c.tool \in Tool /\ c.pc = "lookup" /\ c.key[1] # 0
  BY KeysType DEF JournalInv, Invocation
<1>4. call' = [call EXCEPT ![t] = c]
  BY <1>1
<1> HIDE DEF c
<1>5. /\ JournalTyped' /\ call'[t] = c /\ \A u \in Journal!Thread \ {t} : call'[u] = call[u]
  BY <1>2, <1>3, <1>4, CallMoves, JournalBounds DEF JournalInv, JournalTyped
<1>6. OwnKeys'
  BY <1>2, <1>3, <1>5, JournalBounds DEF JournalInv, OwnKeys
<1>7. RowsSettle'
  BY <1>2, <1>5 DEF JournalInv, RowsSettle, Journal!RowsSettle
<1> QED BY <1>5, <1>6, <1>7 DEF JournalInv

\* What a step of invoke() does: it writes at most the row of its own key.
Moves(t, c) ==
  LET k == call[t].key IN
  /\ call[t].pc # "idle" /\ call' = [call EXCEPT ![t] = c]
  /\ c.pc # "idle" => c.tool = call[t].tool /\ c.tool \in Tool /\ c.key = k
  /\ UNCHANGED <<attempt, next, retries, nested, restarts>>
  /\ row' \in [Journal!Key -> Row] /\ \A q \in Journal!Key \ {k} : row'[q] = row[q]
  /\ \/ call[t].pc = "lookup" /\ row' = row /\ c.pc = "idle"
     \/ /\ call[t].pc = "lookup" /\ row' = row /\ c.pc = "begin"
        /\ row[k].status # "completed" /\ Journal!Affordable(call[t].tool)
     \/ call[t].pc = "begin" /\ row'[k].status = "running" /\ c.pc = "mint"
     \/ call[t].pc \in Working /\ row' = row /\ c.pc \in Working
     \/ call[t].pc \in Working /\ row' = row /\ c.pc = "idle" /\ row[k].status # "running"
     \/ /\ call[t].pc \in Working /\ row'[k].status \in {"completed", "failed"} /\ c.pc = "idle"
        /\ (row'[k].status = "completed" => row'[k].cost = Cost[call[t].tool])

LEMMA InvokeShape ==
  ASSUME JournalInv, NEW t \in Journal!Thread, Journal!Invoke(t)
  PROVE  \E c \in Invocation : Moves(t, c)
<1> DEFINE k == call[t].key
<1>1. /\ k \in Journal!Key /\ call[t] \in Invocation /\ row[k] \in Row /\ row \in [Journal!Key -> Row]
      /\ call[t].pc # "idle" => call[t].tool \in Tool
  BY DEF JournalInv, JournalTyped, Invocation
<1>2. Journal!NoCall \in Invocation /\ Journal!NoCall.pc = "idle"
  BY KeysType DEF Journal!NoCall, Invocation, JournalInv
<1>3. \A label \in {"begin"} \cup Working :
        LET c == [call[t] EXCEPT !.pc = label] IN
        c \in Invocation /\ c.pc = label /\ c.key = k /\ c.tool = call[t].tool
  BY <1>1 DEF Invocation
<1>4. UNCHANGED <<attempt, next, retries, nested, restarts>>
  BY DEF Journal!Invoke, Journal!Lookup, Journal!Begin, Journal!Mint, Journal!Run, Journal!Complete, Journal!Fail,
         Journal!Recheck, Journal!loop
<1>5. ASSUME NEW label \in {"begin"} \cup Working, call' = [call EXCEPT ![t].pc = label]
      PROVE  \E c \in Invocation : /\ call' = [call EXCEPT ![t] = c] /\ c.pc = label /\ c.key = k /\ c.tool = call[t].tool
  <2>1. call' = [call EXCEPT ![t] = [call[t] EXCEPT !.pc = label]]
    BY <1>5
  <2> QED BY <1>3, <2>1
<1>6. CASE Journal!Lookup(t)
  <2>1. call[t].pc = "lookup" /\ row' = row
    BY <1>6 DEF Journal!Lookup
  <2>2. CASE call' = [call EXCEPT ![t] = Journal!NoCall]
    BY <1>1, <1>2, <1>4, <2>1, <2>2 DEF Moves
  <2>3. CASE row[k].status # "completed" /\ Journal!Affordable(call[t].tool) /\ call' = [call EXCEPT ![t].pc = "begin"]
    <3>1. PICK c \in Invocation : call' = [call EXCEPT ![t] = c] /\ c.pc = "begin" /\ c.key = k /\ c.tool = call[t].tool
      BY <1>5, <2>3
    <3> QED BY <1>1, <1>4, <2>1, <2>3, <3>1 DEF Moves
  <2> QED BY <1>6, <2>2, <2>3 DEF Journal!Lookup, Journal!Leave, Journal!Goto
<1>7. CASE Journal!Begin(t)
  <2> DEFINE r == [status |-> "running", tool |-> call[t].tool, cost |-> 0]
  <2>1. call[t].pc = "begin" /\ row' = [row EXCEPT ![k] = r] /\ call' = [call EXCEPT ![t].pc = "mint"]
    BY <1>7 DEF Journal!Begin, Journal!Goto
  <2>2. r \in Row /\ r.status = "running"
    BY <1>1, <2>1 DEF Row
  <2> HIDE DEF r
  <2>3. PICK c \in Invocation : call' = [call EXCEPT ![t] = c] /\ c.pc = "mint" /\ c.key = k /\ c.tool = call[t].tool
    BY <1>5, <2>1 DEF Working
  <2>4. row' \in [Journal!Key -> Row] /\ row'[k] = r /\ \A q \in Journal!Key \ {k} : row'[q] = row[q]
    BY <1>1, <2>1, <2>2
  <2> QED BY <1>1, <1>4, <2>1, <2>2, <2>3, <2>4 DEF Moves
<1>8. CASE Journal!Mint(t) \/ Journal!Run(t)
  <2>1. call[t].pc \in Working /\ row' = row
    BY <1>8 DEF Journal!Mint, Journal!Run, Working
  <2>2. PICK label \in Working : call' = [call EXCEPT ![t].pc = label]
    BY <1>8 DEF Journal!Mint, Journal!Run, Journal!Goto, Working
  <2>3. PICK c \in Invocation : call' = [call EXCEPT ![t] = c] /\ c.pc = label /\ c.key = k /\ c.tool = call[t].tool
    BY <1>5, <2>2
  <2> QED BY <1>1, <1>4, <2>1, <2>3 DEF Moves, Working
<1>9. CASE Journal!Recheck(t)
  <2>1. call[t].pc \in Working /\ row' = row
    BY <1>9 DEF Journal!Recheck, Working
  <2>2. CASE call' = [call EXCEPT ![t] = Journal!NoCall] /\ row[k].status # "running"
    BY <1>1, <1>2, <1>4, <2>1, <2>2 DEF Moves, Working
  <2>3. CASE call' = [call EXCEPT ![t].pc = "fail"]
    <3>1. PICK c \in Invocation : call' = [call EXCEPT ![t] = c] /\ c.pc = "fail" /\ c.key = k /\ c.tool = call[t].tool
      BY <1>5, <2>3 DEF Working
    <3> QED BY <1>1, <1>4, <2>1, <3>1 DEF Moves, Working
  <2> QED BY <1>9, <2>2, <2>3 DEF Journal!Recheck, Journal!Leave, Journal!Goto
<1>10. CASE Journal!Complete(t) \/ Journal!Fail(t)
  <2>1. call[t].pc \in Working /\ call' = [call EXCEPT ![t] = Journal!NoCall] /\ call[t].tool \in Tool
    BY <1>1, <1>10 DEF Journal!Complete, Journal!Fail, Working, Journal!Leave
  <2>2. PICK r \in Row : /\ row' = [row EXCEPT ![k] = r] /\ r.status \in {"completed", "failed"}
                         /\ r.status = "completed" => r.cost = Cost[call[t].tool]
    <3>1. CASE Journal!Complete(t)
      <4> DEFINE r == [row[k] EXCEPT !.status = "completed", !.cost = Cost[call[t].tool]]
      <4>1. row' = [row EXCEPT ![k] = r]
        BY <1>1, <3>1 DEF Journal!Complete
      <4>2. r \in Row /\ r.status = "completed" /\ r.cost = Cost[call[t].tool]
        BY <1>1, <2>1, JournalBounds DEF Row
      <4> QED BY <4>1, <4>2
    <3>2. CASE Journal!Fail(t)
      <4> DEFINE r == [row[k] EXCEPT !.status = "failed"]
      <4>1. row' = [row EXCEPT ![k] = r]
        BY <1>1, <3>2 DEF Journal!Fail, Journal!JournalFailure
      <4>2. r \in Row /\ r.status = "failed"
        BY <1>1 DEF Row
      <4> QED BY <4>1, <4>2
    <3> QED BY <1>10, <3>1, <3>2
  <2>3. row' = [row EXCEPT ![k] = r]
    BY <2>2
  <2>4. row' \in [Journal!Key -> Row] /\ row'[k] = r /\ \A q \in Journal!Key \ {k} : row'[q] = row[q]
    BY <1>1, <2>3
  <2>5. row'[k].status \in {"completed", "failed"} /\ (row'[k].status = "completed" => row'[k].cost = Cost[call[t].tool])
    BY <2>2, <2>4
  <2> QED BY <1>1, <1>2, <1>4, <2>1, <2>4, <2>5 DEF Moves, Working
<1> QED BY <1>6, <1>7, <1>8, <1>9, <1>10 DEF Journal!Invoke

LEMMA InvokeKeeps == ASSUME JournalInv, NEW t \in Journal!Thread, Journal!Invoke(t) PROVE JournalInv'
<1>1. PICK c \in Invocation : Moves(t, c)
  BY InvokeShape
<1> DEFINE k == call[t].key
<1>2. /\ call' = [call EXCEPT ![t] = c] /\ (c.pc # "idle" => c.tool \in Tool /\ c.key = k)
      /\ call[t].pc # "idle" /\ UNCHANGED <<attempt, next, retries, nested, restarts>>
      /\ row' \in [Journal!Key -> Row] /\ \A q \in Journal!Key \ {k} : row'[q] = row[q]
  BY <1>1 DEF Moves
<1>3. /\ JournalTyped' /\ call'[t] = c /\ \A u \in Journal!Thread \ {t} : call'[u] = call[u]
  BY <1>2, CallMoves DEF JournalInv, JournalTyped
<1>4. \A u \in Journal!Thread : call[u].key \in Journal!Key
  BY DEF JournalInv, JournalTyped, Invocation
<1>5. RowsSettle'
  <2> SUFFICES ASSUME NEW q \in Journal!Key, row'[q].status = "running", ~(restarts > 0)
               PROVE  \E u \in Journal!Thread : call'[u].key = q /\ call'[u].pc \in Working
    BY <1>2 DEF RowsSettle, Journal!RowsSettle, Working
  <2>1. ASSUME row'[q] = row[q]
        PROVE  \E u \in Journal!Thread : call[u].key = q /\ call[u].pc \in Working
    BY <2>1 DEF JournalInv, RowsSettle, Journal!RowsSettle, Working
  <2>2. CASE q # k
    <3>1. PICK u \in Journal!Thread : call[u].key = q /\ call[u].pc \in Working
      BY <1>2, <2>1, <2>2
    <3>2. u # t
      BY <2>2, <3>1
    <3> QED BY <1>3, <3>1, <3>2
  <2>3. CASE q = k
    <3>1. CASE c.pc \in Working
      BY <1>2, <1>3, <2>3, <3>1 DEF Working
    <3>2. CASE c.pc \notin Working
      <4>1. row' = row /\ (call[t].pc \in Working => row[k].status # "running")
        BY <1>1, <2>3, <3>2 DEF Moves, Working
      <4>2. PICK u \in Journal!Thread : call[u].key = q /\ call[u].pc \in Working
        BY <2>1, <4>1
      <4>3. u # t
        BY <2>3, <4>1, <4>2
      <4> QED BY <1>3, <4>2, <4>3
    <3> QED BY <3>1, <3>2
  <2> QED BY <2>2, <2>3
<1>6. OwnKeys'
  <2>1. /\ \A u \in Nested : call'[u].pc # "idle" => call'[u].key[1] # 0
        /\ call'[Outer].pc # "idle" => call'[Outer].key[1] = 0
    BY <1>2, <1>3, JournalBounds DEF JournalInv, OwnKeys
  <2>2. ASSUME t # Outer, call'[Outer].pc \in {"begin"} \cup Working PROVE row'[call'[Outer].key].status # "completed"
    <3>1. call'[Outer] = call[Outer] /\ t \in Nested
      BY <1>3, <2>2, JournalBounds
    <3> QED BY <1>2, <1>4, <2>2, <3>1, JournalBounds DEF JournalInv, OwnKeys, Working
  <2>3. ASSUME t = Outer, call'[Outer].pc \in {"begin"} \cup Working PROVE row'[call'[Outer].key].status # "completed"
    <3>1. c.key = k /\ c.pc \in {"begin"} \cup Working
      BY <1>2, <1>3, <2>3 DEF Working
    <3>2. row'[k].status # "completed"
      BY <1>1, <2>3, <3>1 DEF Moves, Working, JournalInv, OwnKeys
    <3> QED BY <1>3, <2>3, <3>1, <3>2
  <2> QED BY <2>1, <2>2, <2>3 DEF OwnKeys
<1> QED BY <1>3, <1>5, <1>6 DEF JournalInv

LEMMA TurnsKeep == ASSUME JournalInv, Journal!Retry \/ Journal!Crash PROVE JournalInv'
<1>1. CASE Journal!Retry
  <2>1. /\ attempt' = attempt + 1 /\ next' = 0 /\ retries' = retries + 1 /\ retries < MaxRetry
        /\ UNCHANGED <<row, call, restarts>>
    BY <1>1 DEF Journal!Retry
  <2>2. JournalTyped'
    BY <2>1, JournalBounds DEF JournalInv, JournalTyped
  <2> QED BY <2>1, <2>2 DEF JournalInv, OwnKeys, RowsSettle, Journal!RowsSettle
<1>2. CASE Journal!Crash
  <2>1. /\ attempt' = attempt + 1 /\ next' = 0 /\ restarts' = restarts + 1 /\ restarts < MaxRestarts
        /\ call' = [t \in Journal!Thread |-> Journal!NoCall] /\ UNCHANGED <<row, retries>>
    BY <1>2 DEF Journal!Crash
  <2>2. Journal!NoCall \in Invocation /\ Journal!NoCall.pc = "idle"
    BY KeysType DEF Journal!NoCall, Invocation, JournalInv
  <2>3. JournalTyped'
    BY <2>1, <2>2, JournalBounds DEF JournalInv, JournalTyped
  <2>4. OwnKeys'
    BY <2>1, <2>2, JournalBounds DEF OwnKeys, Working
  <2>5. RowsSettle'
    BY <2>1, JournalBounds DEF JournalInv, JournalTyped, RowsSettle, Journal!RowsSettle
  <2> QED BY <2>3, <2>4, <2>5 DEF JournalInv
<1> QED BY <1>1, <1>2

LEMMA JournalNext == JournalInv /\ [Journal!Next]_journalVars => JournalInv'
<1> SUFFICES ASSUME JournalInv, [Journal!Next]_journalVars PROVE JournalInv'
  OBVIOUS
<1>1. CASE UNCHANGED journalVars
  BY <1>1 DEF journalVars, JournalInv, JournalTyped, OwnKeys, RowsSettle, Journal!RowsSettle
<1>2. CASE Journal!Next
  BY <1>2, OuterKeeps, NestedKeeps, InvokeKeeps, TurnsKeep DEF Journal!Next
<1> QED BY <1>1, <1>2

\* A completed row of the run loop is written by no step.
LEMMA CompletedStays ==
  ASSUME JournalInv, [Journal!Next]_journalVars, NEW k \in Journal!Key, k[1] = 0, row[k].status = "completed"
  PROVE  row'[k] = row[k]
<1>1. CASE row' = row
  BY <1>1
<1>2. ASSUME NEW t \in Journal!Thread, Journal!Invoke(t) PROVE row'[k] = row[k]
  <2>1. PICK c \in Invocation : Moves(t, c)
    BY <1>2, InvokeShape
  <2>2. CASE call[t].key # k
    BY <2>1, <2>2 DEF Moves
  <2>3. CASE call[t].key = k /\ call[t].pc = "lookup"
    BY <2>1, <2>3 DEF Moves, Working
  <2>4. CASE call[t].key = k /\ call[t].pc \in {"begin"} \cup Working
    BY <2>4, JournalBounds DEF JournalInv, OwnKeys, Working
  <2>5. call[t].pc \in {"lookup", "begin"} \cup Working
    BY <2>1 DEF Moves, JournalInv, JournalTyped, Invocation
  <2> QED BY <2>2, <2>3, <2>4, <2>5
<1>3. CASE Journal!InvokeOuter \/ Journal!Retry \/ Journal!Crash \/ \E t \in Nested : Journal!InvokeNested(t)
  BY <1>1, <1>3 DEF Journal!InvokeOuter, Journal!Retry, Journal!Crash, Journal!InvokeNested
<1> QED BY <1>1, <1>2, <1>3 DEF Journal!Next, journalVars

-------------------------------------------------------------------------------
(***************************************************************************)
(* Sums.  MapThenSumSet() adds up in an order of its own; what it comes to  *)
(* does not depend on it.  Induction is over the number of elements: a set  *)
(* of finite sets has a smallest.                                           *)
(***************************************************************************)
LEMMA LeastNumber ==
  ASSUME NEW S \in SUBSET Nat, S # {}
  PROVE  \E m \in S : \A n \in S : m <= n
<1> DEFINE R == OpToRel(<, Nat)
<1>1. IsWellFoundedOn(R, Nat)
  BY NatLessThanWellFounded
<1>2. \A x, y \in Nat : x < y => <<x, y>> \in R
  BY Zenon DEF OpToRel
<1> HIDE DEF R
<1>3. PICK m \in S : \A n \in S : ~(<<n, m>> \in R)
  BY <1>1, WFMin
<1>4. ASSUME NEW n \in S PROVE m <= n
  <2>1. m \in Nat /\ n \in Nat /\ ~(n < m)
    BY <1>2, <1>3
  <2> QED BY <2>1
<1> QED BY <1>4

LEMMA SmallestSet ==
  ASSUME NEW K, IsFiniteSet(K), NEW B \in SUBSET (SUBSET K), B # {}
  PROVE  /\ \A T \in B : IsFiniteSet(T) /\ Cardinality(T) \in Nat
         /\ \E T \in B : \A U \in B : Cardinality(T) <= Cardinality(U)
<1>1. \A T \in B : IsFiniteSet(T) /\ Cardinality(T) \in Nat
  BY FS_Subset, FS_CardinalityType
<1>2. PICK N : N = {Cardinality(T) : T \in B}
  OBVIOUS
<1>3. N \in SUBSET Nat /\ N # {}
  BY <1>1, <1>2
<1>4. \E m \in N : \A n \in N : m <= n
  BY <1>3, LeastNumber
<1> QED BY <1>1, <1>2, <1>4

First(T) == CHOOSE x \in T : TRUE
Sum(f, r, T) == IF T = {} THEN 0 ELSE f[First(T)] + r[T \ {First(T)}]

\* r gives the sums of f over the subsets of K, or over those of fewer than n elements.
SumsBelow(f, K, n, r) ==
  DOMAIN r = SUBSET K /\ \A T \in SUBSET K : Cardinality(T) < n => r[T] = Sum(f, r, T)
Sums(f, K, r) == \A T \in SUBSET K : r[T] \in Nat /\ r[T] = Sum(f, r, T)

\* r adds up f over S; f and g are the same on S.
Adds(f, S, r) == \A T \in SUBSET S : r[T] = Sum(f, r, T)
Alike(f, g, S) == \A x \in S : f[x] = g[x]

LEMMA FirstIn == ASSUME NEW T, T # {} PROVE First(T) \in T
BY DEF First

LEMMA SumsUpTo ==
  ASSUME NEW K, IsFiniteSet(K), NEW f, NEW n \in Nat
  PROVE  \E r : SumsBelow(f, K, n, r)
<1> DEFINE S == {k \in 0 .. n : ~\E r : SumsBelow(f, K, k, r)}
<1> SUFFICES ASSUME S # {} PROVE FALSE
  OBVIOUS
<1>0. \A T \in SUBSET K : IsFiniteSet(T) /\ Cardinality(T) \in Nat
  BY FS_Subset, FS_CardinalityType
<1>1. PICK m \in S : \A k \in S : m <= k
  <2>1. S \in SUBSET Nat
    OBVIOUS
  <2> HIDE DEF S
  <2> QED BY <2>1, LeastNumber
<1>2. CASE m = 0
  <2>1. SumsBelow(f, K, 0, [T \in SUBSET K |-> 0])
    BY <1>0 DEF SumsBelow
  <2> QED BY <1>1, <1>2, <2>1
<1>3. CASE m # 0
  <2>1. m \in Nat /\ m - 1 \in 0 .. n /\ ~(m <= m - 1)
    BY <1>1, <1>3
  <2>2. PICK r : SumsBelow(f, K, m - 1, r)
    BY <1>1, <2>1
  <2>3. PICK q : q = [T \in SUBSET K |-> IF Cardinality(T) = m - 1 THEN Sum(f, r, T) ELSE r[T]]
    OBVIOUS
  <2>4. ASSUME NEW T \in SUBSET K, Cardinality(T) < m PROVE q[T] = Sum(f, q, T)
    <3>1. q[T] = Sum(f, r, T)
      <4>1. CASE Cardinality(T) = m - 1
        BY <2>3, <4>1
      <4>2. CASE Cardinality(T) # m - 1
        <5>1. Cardinality(T) < m - 1
          BY <1>0, <2>1, <2>4, <4>2
        <5>2. q[T] = r[T]
          BY <2>3, <4>2
        <5> QED BY <2>2, <5>1, <5>2 DEF SumsBelow
      <4> QED BY <4>1, <4>2
    <3>2. ASSUME T # {} PROVE q[T \ {First(T)}] = r[T \ {First(T)}]
      <4>1. PICK x : x = First(T)
        OBVIOUS
      <4>2. x \in T
        BY <3>2, <4>1, FirstIn
      <4>3. T \ {x} \in SUBSET K /\ Cardinality(T \ {x}) = Cardinality(T) - 1
        BY <1>0, <4>2, FS_RemoveElement
      <4>4. Cardinality(T \ {x}) # m - 1
        BY <1>0, <2>1, <2>4, <4>3
      <4> QED BY <2>3, <4>1, <4>3, <4>4
    <3> QED BY <3>1, <3>2 DEF Sum
  <2>5. SumsBelow(f, K, m, q)
    BY <2>3, <2>4 DEF SumsBelow
  <2> QED BY <1>1, <2>5
<1> QED BY <1>2, <1>3

LEMMA SumsExist ==
  ASSUME NEW K, IsFiniteSet(K), NEW f \in [K -> Nat]
  PROVE  \E r : Sums(f, K, r)
<1>1. Cardinality(K) \in Nat /\ \A T \in SUBSET K : IsFiniteSet(T) /\ Cardinality(T) \in Nat /\ Cardinality(T) <= Cardinality(K)
  BY FS_Subset, FS_CardinalityType
<1>2. PICK n \in Nat : n = Cardinality(K) + 1
  BY <1>1
<1>3. PICK r : SumsBelow(f, K, n, r)
  BY SumsUpTo
<1>4. \A T \in SUBSET K : r[T] = Sum(f, r, T)
  BY <1>1, <1>2, <1>3 DEF SumsBelow
<1>5. PICK B : B = {T \in SUBSET K : r[T] \notin Nat}
  OBVIOUS
<1>6. B = {}
  <2> SUFFICES ASSUME B # {} PROVE FALSE
    OBVIOUS
  <2>1. PICK T \in B : \A U \in B : Cardinality(T) <= Cardinality(U)
    BY <1>5, SmallestSet
  <2>2. T \in SUBSET K /\ r[T] \notin Nat /\ r[T] = Sum(f, r, T)
    BY <1>4, <1>5, <2>1
  <2>3. T # {}
    BY <2>2 DEF Sum
  <2>4. PICK x \in T : x = First(T)
    BY <2>3, FirstIn
  <2>5. T \ {x} \in SUBSET K /\ Cardinality(T \ {x}) = Cardinality(T) - 1
    BY <1>1, <2>2, FS_RemoveElement
  <2>6. r[T \ {x}] \in Nat
    BY <1>1, <1>5, <2>1, <2>2, <2>5
  <2>7. r[T] = f[x] + r[T \ {x}] /\ f[x] \in Nat
    BY <2>2, <2>3, <2>4 DEF Sum
  <2> QED BY <2>2, <2>6, <2>7
<1> QED BY <1>4, <1>5, <1>6 DEF Sums

\* Any element may be taken out first.
LEMMA SumTakes ==
  ASSUME NEW K, IsFiniteSet(K), NEW f \in [K -> Nat], NEW r, Sums(f, K, r), NEW S \in SUBSET K, NEW y \in S
  PROVE  r[S] = f[y] + r[S \ {y}]
<1>1. PICK B : B = {T \in SUBSET K : \E x \in T : r[T] # f[x] + r[T \ {x}]}
  OBVIOUS
<1> SUFFICES ASSUME B # {} PROVE FALSE
  BY <1>1
<1>2. PICK T \in B : \A U \in B : Cardinality(T) <= Cardinality(U)
  BY <1>1, SmallestSet
<1>3. PICK x \in T : r[T] # f[x] + r[T \ {x}]
  BY <1>1
<1>4. PICK c \in T : c = First(T)
  BY <1>3, FirstIn
<1>5. T \in SUBSET K /\ IsFiniteSet(T) /\ Cardinality(T) \in Nat
  BY <1>1, FS_Subset, FS_CardinalityType
<1>6. r[T] = f[c] + r[T \ {c}] /\ x # c
  BY <1>3, <1>4, <1>5 DEF Sums, Sum
<1>7. ASSUME NEW z \in T, NEW w \in T, z # w PROVE r[T \ {z}] = f[w] + r[(T \ {z}) \ {w}]
  <2>1. Cardinality(T \ {z}) = Cardinality(T) - 1 /\ T \ {z} \in SUBSET K /\ w \in T \ {z}
    BY <1>5, <1>7, FS_RemoveElement
  <2>2. T \ {z} \notin B
    BY <1>2, <1>5, <2>1
  <2> QED BY <1>1, <2>1, <2>2
<1>8. (T \ {c}) \ {x} = (T \ {x}) \ {c}
  OBVIOUS
<1>9. PICK rest : rest = r[(T \ {c}) \ {x}]
  OBVIOUS
<1>10. r[T \ {c}] = f[x] + rest /\ r[T \ {x}] = f[c] + rest
  BY <1>6, <1>7, <1>8, <1>9
<1>11. f[x] \in Nat /\ f[c] \in Nat /\ rest \in Nat
  BY <1>5, <1>9 DEF Sums
<1> QED BY <1>3, <1>6, <1>10, <1>11

\* The sum over S is that of what f is on S.
LEMMA SumsAgree ==
  ASSUME NEW K, IsFiniteSet(K), NEW f, NEW g, NEW r, NEW q, NEW S \in SUBSET K,
         Adds(f, S, r), Adds(g, S, q), Alike(f, g, S)
  PROVE  r[S] = q[S]
<1>1. PICK B : B = {T \in SUBSET S : r[T] # q[T]}
  OBVIOUS
<1> SUFFICES ASSUME B # {} PROVE FALSE
  BY <1>1
<1>2. B \in SUBSET (SUBSET K)
  BY <1>1
<1>3. PICK T \in B : \A U \in B : Cardinality(T) <= Cardinality(U)
  BY <1>2, SmallestSet
<1>4. T \in SUBSET S /\ r[T] # q[T] /\ IsFiniteSet(T) /\ Cardinality(T) \in Nat
  BY <1>1, FS_Subset, FS_CardinalityType
<1>5. T # {}
  BY <1>4 DEF Sum, Adds
<1>6. PICK x \in T : x = First(T)
  BY <1>5, FirstIn
<1>7. T \ {x} \in SUBSET S /\ Cardinality(T \ {x}) = Cardinality(T) - 1
  BY <1>4, FS_RemoveElement
<1>8. r[T \ {x}] = q[T \ {x}]
  BY <1>1, <1>3, <1>4, <1>7
<1> QED BY <1>4, <1>5, <1>6, <1>8 DEF Sum, Adds, Alike

-------------------------------------------------------------------------------
(***************************************************************************)
(* The session's budget.  A call is let in where what was spent and its own *)
(* cost are within the ceiling; what the others under way will add is at    *)
(* most the dearest tool's cost each.                                       *)
(***************************************************************************)
Charged(rw) == {k \in Journal!Key : rw[k].status = "completed"}
Costs(rw) == [k \in Journal!Key |-> rw[k].cost]
SpentIn(rw) == Journal!MapThenSumSet(LAMBDA k : rw[k].cost, Charged(rw))

LEMMA SpentNow == Journal!Spent = SpentIn(row) /\ Journal!Spent' = SpentIn(row')
BY DEF Journal!Spent, SpentIn, Charged, Journal!MapThenSumSet, Journal!MapThenFoldSet

LEMMA KeysFinite == IsFiniteSet(Journal!Key)
<1>1. PICK n \in Nat : n = Journal!MaxAttempt
  BY JournalBounds DEF Journal!MaxAttempt
<1>2. IsFiniteSet(0 .. n) /\ IsFiniteSet(1 .. n) /\ IsFiniteSet(0 .. MaxIndex)
  <2>1. ASSUME NEW a \in Nat, NEW b \in Nat PROVE IsFiniteSet(a .. b)
    <3>1. a \in Int /\ b \in Int
      OBVIOUS
    <3> QED BY ONLY <3>1, FS_Interval
  <2>2. MaxIndex \in Nat
    BY JournalBounds
  <2> QED BY ONLY <2>1, <2>2, n \in Nat
<1>3. PICK A, B, C : A = 0 .. n /\ B = 1 .. n /\ C = 0 .. MaxIndex
  OBVIOUS
<1>4. IsFiniteSet((A \X B) \X C)
  BY <1>2, <1>3, FS_Product
<1>5. PICK f : f = [p \in (A \X B) \X C |-> <<p[1][1], p[1][2], p[2]>>]
  OBVIOUS
<1>6. f \in Surjection((A \X B) \X C, A \X B \X C)
  <2>1. \A p \in (A \X B) \X C : f[p] \in A \X B \X C
    BY <1>5
  <2>2. ASSUME NEW q \in A \X B \X C PROVE \E p \in (A \X B) \X C : f[p] = q
    <3>1. PICK a \in A, b \in B, c \in C : q = <<a, b, c>>
      OBVIOUS
    <3>2. <<<<a, b>>, c>> \in (A \X B) \X C /\ f[<<<<a, b>>, c>>] = q
      BY <1>5, <3>1
    <3> QED BY <3>2
  <2> QED BY <1>5, <2>1, <2>2 DEF Surjection
<1>7. IsFiniteSet(A \X B \X C)
  BY <1>4, <1>6, FS_Surjection
<1> QED BY <1>1, <1>3, <1>7 DEF Journal!Key

LEMMA SpentIs ==
  ASSUME NEW rw, NEW r, Sums(Costs(rw), Journal!Key, r)
  PROVE  SpentIn(rw) = r[Charged(rw)]
<1> DEFINE Made(q, S) == q = [s \in SUBSET S |-> IF s = {} THEN 0
                                                 ELSE rw[CHOOSE x \in s : TRUE].cost + q[s \ {CHOOSE x \in s : TRUE}]]
<1>1. PICK S : S = Charged(rw)
  OBVIOUS
<1>2. S \in SUBSET Journal!Key
  BY <1>1 DEF Charged
<1>3. ASSUME NEW T \in SUBSET S, T # {} PROVE rw[First(T)].cost = Costs(rw)[First(T)]
  BY <1>2, <1>3, FirstIn DEF Costs
<1>4. \E q : Made(q, S)
  <2>1. PICK h : h = [T \in SUBSET S |-> IF T = {} THEN 0 ELSE rw[First(T)].cost + r[T \ {First(T)}]]
    OBVIOUS
  <2>2. ASSUME NEW T \in SUBSET S PROVE h[T] = r[T]
    <3>1. r[T] = Sum(Costs(rw), r, T)
      BY <1>2 DEF Sums
    <3> QED BY <1>3, <2>1, <3>1 DEF Sum
  <2>3. ASSUME NEW T \in SUBSET S
        PROVE  (IF T = {} THEN 0 ELSE rw[First(T)].cost + r[T \ {First(T)}])
                 = (IF T = {} THEN 0 ELSE rw[First(T)].cost + h[T \ {First(T)}])
    <3>1. h[T \ {First(T)}] = r[T \ {First(T)}]
      BY <2>2
    <3> QED BY <3>1
  <2>4. h = [T \in SUBSET S |-> IF T = {} THEN 0 ELSE rw[First(T)].cost + h[T \ {First(T)}]]
    BY <2>1, <2>3, Zenon
  <2>5. Made(h, S)
    BY <2>4, Zenon DEF First
  <2> QED BY <2>5
<1>5. PICK q : q = CHOOSE x : Made(x, S)
  OBVIOUS
<1>6. Made(q, S)
  BY <1>4, <1>5, Zenon
<1>7. SpentIn(rw) = q[S]
  BY <1>1, <1>5 DEF SpentIn, Journal!MapThenSumSet, Journal!MapThenFoldSet
<1>8. ASSUME NEW T \in SUBSET S PROVE q[T] = Sum(Costs(rw), q, T)
  BY <1>3, <1>6 DEF Sum, First
<1>9. PICK K, f : K = Journal!Key /\ f = Costs(rw)
  OBVIOUS
<1>10. IsFiniteSet(K) /\ S \in SUBSET K /\ Adds(f, S, q) /\ Adds(f, S, r) /\ Alike(f, f, S)
  BY <1>2, <1>8, <1>9, KeysFinite DEF Sums, Adds, Alike
<1>11. q[S] = r[S]
  BY <1>10, SumsAgree
<1> QED BY <1>1, <1>7, <1>11

\* A row that is written adds its cost if it is completed, and at most takes away what it had.
LEMMA SpentGrows ==
  ASSUME NEW rw \in [Journal!Key -> Row], NEW new \in [Journal!Key -> Row], NEW k \in Journal!Key,
         \A q \in Journal!Key \ {k} : new[q] = rw[q]
  PROVE  /\ SpentIn(rw) \in Nat /\ SpentIn(new) \in Nat
         /\ SpentIn(new) <= SpentIn(rw) + (IF new[k].status = "completed" THEN new[k].cost ELSE 0)
<1>1. PICK K, f, g : K = Journal!Key /\ f = Costs(rw) /\ g = Costs(new)
  OBVIOUS
<1>2. IsFiniteSet(K) /\ k \in K /\ f \in [K -> Nat] /\ g \in [K -> Nat] /\ \A x \in K \ {k} : f[x] = g[x]
  BY <1>1, KeysFinite DEF Costs, Row
<1>3. PICK r, q : Sums(f, K, r) /\ Sums(g, K, q)
  BY <1>2, SumsExist
<1>4. PICK S, T : S = Charged(rw) /\ T = Charged(new)
  OBVIOUS
<1>5. S \in SUBSET K /\ T \in SUBSET K /\ S \ {k} = T \ {k}
  BY <1>1, <1>4 DEF Charged
<1>6. PICK U \in SUBSET K : U = S \ {k}
  BY <1>5
<1>7. r[U] = q[U]
  <2>1. Alike(f, g, U)
    BY <1>2, <1>6 DEF Alike
  <2>2. Adds(f, U, r) /\ Adds(g, U, q)
    BY <1>3 DEF Sums, Adds
  <2> QED BY <1>2, <2>1, <2>2, SumsAgree
<1>8. r[S] = r[U] \/ r[S] = f[k] + r[U]
  <2>1. CASE k \in S
    <3>1. IsFiniteSet(K) /\ f \in [K -> Nat] /\ S \in SUBSET K
      BY <1>2, <1>5
    <3>2. r[S] = f[k] + r[S \ {k}]
      BY <1>3, <2>1, <3>1, SumTakes
    <3> QED BY <1>6, <3>2
  <2>2. CASE k \notin S
    <3>1. U = S
      BY <1>6, <2>2
    <3> QED BY <3>1
  <2> QED BY <2>1, <2>2
<1>9. q[T] = (IF k \in T THEN g[k] + q[U] ELSE q[U])
  <2>1. CASE k \in T
    <3>1. IsFiniteSet(K) /\ g \in [K -> Nat] /\ T \in SUBSET K
      BY <1>2, <1>5
    <3>2. q[T] = g[k] + q[T \ {k}]
      BY <1>3, <2>1, <3>1, SumTakes
    <3> QED BY <1>5, <1>6, <2>1, <3>2
  <2>2. CASE k \notin T
    <3>1. U = T
      BY <1>5, <1>6, <2>2
    <3> QED BY <2>2, <3>1
  <2> QED BY <2>1, <2>2
<1>10. SpentIn(rw) = r[S] /\ SpentIn(new) = q[T]
  BY <1>1, <1>3, <1>4, SpentIs
<1>11. /\ g[k] = new[k].cost /\ g[k] \in Nat /\ f[k] \in Nat /\ r[U] \in Nat
       /\ k \in T <=> new[k].status = "completed"
  BY <1>1, <1>2, <1>3, <1>4 DEF Costs, Charged, Sums
<1> QED BY <1>7, <1>8, <1>9, <1>10, <1>11

LEMMA SpentFirst == Journal!Init => Journal!Spent = 0
<1> SUFFICES ASSUME Journal!Init PROVE Journal!Spent = 0
  OBVIOUS
<1>1. row = [k \in Journal!Key |-> Journal!NoRow]
  BY DEF Journal!Init
<1>2. Charged(row) = {} /\ Costs(row) \in [Journal!Key -> Nat]
  BY <1>1 DEF Charged, Costs, Journal!NoRow
<1>3. PICK r : Sums(Costs(row), Journal!Key, r)
  BY <1>2, KeysFinite, SumsExist
<1>4. r[{}] = 0
  BY <1>3 DEF Sums, Sum
<1>5. PICK rw : rw = row
  OBVIOUS
<1>6. SpentIn(rw) = r[Charged(rw)]
  BY <1>3, <1>5, SpentIs
<1>7. Journal!Spent = SpentIn(row)
  BY SpentNow
<1>8. PICK S : S = Charged(row)
  OBVIOUS
<1>9. SpentIn(row) = r[S] /\ S = {}
  BY <1>2, <1>5, <1>6, <1>8, Zenon
<1> QED BY <1>4, <1>7, <1>9

\* The dearest tool.
Dearest == Journal!Max({0} \cup {Cost[x] : x \in Tool})

LEMMA DearestIs == Dearest \in Nat /\ \A x \in Tool : Cost[x] \in Nat /\ Cost[x] <= Dearest
<1>1. IsFiniteSet(Tool) /\ Cost \in [Tool -> Nat]
  BY JournalAssumed DEF Journal!JournalAssumption, Journal!IsFiniteSet, IsFiniteSet
<1>2. PICK C : C = {Cost[x] : x \in Tool}
  OBVIOUS
<1>3. IsFiniteSet(C)
  <2>1. Cost \in Surjection(Tool, C)
    BY <1>1, <1>2 DEF Surjection
  <2> QED BY <1>1, <2>1, FS_Surjection
<1>4. PICK S : S = {0} \cup C
  OBVIOUS
<1>5. IsFiniteSet(S) /\ S \in SUBSET Nat /\ 0 \in S
  <2>1. S = C \cup {0}
    BY <1>4
  <2>2. IsFiniteSet(S)
    BY <1>3, <2>1, FS_AddElement
  <2> QED BY <1>1, <1>2, <2>1, <2>2
\* Fewest of S are above it.
<1>6. PICK B : B = {T \in SUBSET S : \E x \in S : T = {y \in S : y > x}}
  OBVIOUS
<1>7. B # {}
  <2>1. PICK V : V = {y \in S : y > 0}
    OBVIOUS
  <2>2. V \in SUBSET S /\ \E x \in S : V = {y \in S : y > x}
    BY <1>5, <2>1
  <2> QED BY <1>6, <2>2
<1>8. PICK T \in B : \A U \in B : Cardinality(T) <= Cardinality(U)
  BY <1>5, <1>6, <1>7, SmallestSet
<1>9. PICK m \in S : T = {y \in S : y > m}
  BY <1>6
<1>10. T = {}
  <2> SUFFICES ASSUME NEW z \in T PROVE FALSE
    OBVIOUS
  <2>1. PICK U : U = {y \in S : y > z}
    OBVIOUS
  <2>2. U \in B
    BY <1>6, <1>9, <2>1
  <2>3. U \in SUBSET T /\ z \notin U
    <3>1. z \in Nat /\ m \in Nat /\ z > m /\ \A y \in U : y \in Nat /\ y \in S /\ y > z
      BY <1>5, <1>9, <2>1
    <3>2. ~(z > z) /\ \A y \in U : y > m
      BY <3>1
    <3> QED BY <1>9, <2>1, <3>1, <3>2
  <2>4. IsFiniteSet(T) /\ Cardinality(T) \in Nat
    BY <1>5, <1>6, FS_Subset, FS_CardinalityType
  <2>5. Cardinality(U) \in Nat /\ Cardinality(U) <= Cardinality(T) /\ Cardinality(U) # Cardinality(T)
    BY <2>3, <2>4, FS_Subset, FS_CardinalityType
  <2> QED BY <1>8, <2>2, <2>4, <2>5
<1>11. \A y \in S : m >= y
  BY <1>5, <1>9, <1>10
<1>12. Journal!Max(S) \in S /\ \A y \in S : Journal!Max(S) >= y
  BY <1>11 DEF Journal!Max
<1>13. Dearest = Journal!Max(S)
  BY <1>2, <1>4 DEF Dearest
<1> QED BY <1>1, <1>2, <1>4, <1>5, <1>12, <1>13

LEMMA SpentType == ASSUME JournalTyped PROVE Journal!Spent \in Nat
<1>1. PICK rw, k : rw = row /\ k = <<0, 1, 0>>
  OBVIOUS
<1>2. rw \in [Journal!Key -> Row] /\ k \in Journal!Key
  BY <1>1, KeysType DEF JournalTyped
<1>3. SpentIn(rw) \in Nat
  BY <1>2, SpentGrows
<1>4. Journal!Spent = SpentIn(row)
  BY SpentNow
<1> QED BY <1>1, <1>3, <1>4

LEMMA SpentMoves ==
  ASSUME row \in [Journal!Key -> Row], row' \in [Journal!Key -> Row], NEW k \in Journal!Key,
         \A q \in Journal!Key \ {k} : row'[q] = row[q]
  PROVE  /\ Journal!Spent \in Nat /\ Journal!Spent' \in Nat
         /\ Journal!Spent' <= Journal!Spent + (IF row'[k].status = "completed" THEN row'[k].cost ELSE 0)
<1>1. PICK rw, new : rw = row /\ new = row'
  OBVIOUS
<1>2. rw \in [Journal!Key -> Row] /\ new \in [Journal!Key -> Row] /\ \A q \in Journal!Key \ {k} : new[q] = rw[q]
  BY <1>1
<1>3. /\ SpentIn(rw) \in Nat /\ SpentIn(new) \in Nat
      /\ SpentIn(new) <= SpentIn(rw) + (IF new[k].status = "completed" THEN new[k].cost ELSE 0)
  BY <1>2, SpentGrows
<1> QED BY <1>1, <1>3, SpentNow

-------------------------------------------------------------------------------
(***************************************************************************)
(* The ceiling.  The invariant keeps in mind who was let in last: what was  *)
(* spent by then and its cost were within the ceiling, and each other call  *)
(* under way adds at most the dearest cost.                                 *)
(***************************************************************************)
Roof == Ceiling + Cardinality(Nested) * Dearest
Admitted(c) == {t \in Journal!Thread : c[t].pc \in {"begin"} \cup Working}
Within(s, A, c) ==
  \/ s + Cardinality(A) * Dearest <= Roof
  \/ \E t \in A : s + Cost[c[t].tool] + (Cardinality(A) - 1) * Dearest <= Roof

BudgetInv == Within(Journal!Spent, Admitted(call), call)

LEMMA Times ==
  ASSUME NEW n \in Nat, NEW m \in Nat, NEW d \in Nat
  PROVE  /\ n * d \in Nat /\ (n + 1) * d = n * d + d /\ 0 * d = 0
         /\ n <= m => n * d <= m * d
<1>1. n * d \in Nat /\ (n + 1) * d = n * d + d /\ 0 * d = 0
  OBVIOUS
<1>2. ASSUME n <= m PROVE n * d <= m * d
  <2>1. PICK e \in Nat : m = n + e
    <3>1. m - n \in Nat /\ m = n + (m - n)
      BY <1>2
    <3> QED BY <3>1
  <2>2. m * d = n * d + e * d /\ n * d \in Nat /\ e * d \in Nat
    BY <2>1
  <2> QED BY <2>2
<1> QED BY <1>1, <1>2

LEMMA ThreadsAre ==
  /\ IsFiniteSet(Journal!Thread) /\ Cardinality(Nested) \in Nat
  /\ Cardinality(Journal!Thread) = Cardinality(Nested) + 1
  /\ Ceiling \in Nat /\ Roof \in Nat
<1>1. IsFiniteSet(Nested) /\ Outer \notin Nested /\ Ceiling \in Nat
  BY JournalAssumed DEF Journal!JournalAssumption, Journal!IsFiniteSet, IsFiniteSet
<1>2. Cardinality(Nested) \in Nat
  BY <1>1, FS_CardinalityType
<1>3. Journal!Thread = Nested \cup {Outer}
  BY DEF Journal!Thread
<1>4. IsFiniteSet(Journal!Thread) /\ Cardinality(Journal!Thread) = Cardinality(Nested) + 1
  BY <1>1, <1>2, <1>3, FS_AddElement
<1>5. Cardinality(Nested) * Dearest \in Nat
  BY <1>2, DearestIs, Times
<1> QED BY <1>1, <1>2, <1>4, <1>5 DEF Roof

LEMMA Counted ==
  ASSUME NEW A \in SUBSET Journal!Thread
  PROVE  IsFiniteSet(A) /\ Cardinality(A) \in Nat /\ Cardinality(A) <= Cardinality(Nested) + 1
BY ThreadsAre, FS_Subset, FS_CardinalityType

\* One that is let in.
LEMMA WithinJoins ==
  ASSUME NEW s \in Nat, NEW A \in SUBSET Journal!Thread, NEW t \in Journal!Thread \ A, NEW c, c[t].tool \in Tool,
         s + Cost[c[t].tool] <= Ceiling
  PROVE  Within(s, A \cup {t}, c)
<1>1. PICK B : B = A \cup {t}
  OBVIOUS
<1>2. PICK n, m, d, x : n = Cardinality(A) /\ m = Cardinality(Nested) /\ d = Dearest /\ x = Cost[c[t].tool]
  OBVIOUS
<1>3. B \in SUBSET Journal!Thread /\ Cardinality(B) = n + 1 /\ n \in Nat /\ m \in Nat /\ n <= m
  <2>1. B \in SUBSET Journal!Thread /\ Cardinality(B) = n + 1
    BY <1>1, <1>2, Counted, FS_AddElement
  <2>2. n \in Nat /\ m \in Nat /\ Cardinality(B) <= m + 1
    BY <1>2, <2>1, Counted, ThreadsAre
  <2> QED BY <2>1, <2>2
<1>4. d \in Nat /\ x \in Nat /\ Ceiling \in Nat /\ Roof = Ceiling + m * d
  BY <1>2, DearestIs, ThreadsAre DEF Roof
<1>5. PICK a \in Nat, b \in Nat : a = n * d /\ b = m * d /\ a <= b
  BY <1>3, <1>4, Times
<1>6. s + x + a <= Roof
  BY <1>2, <1>4, <1>5
<1>7. (Cardinality(B) - 1) * Dearest = a /\ t \in B
  <2>1. Cardinality(B) - 1 = n
    BY <1>3
  <2> QED BY <1>1, <1>2, <1>5, <2>1
<1>8. Within(s, B, c)
  BY <1>2, <1>6, <1>7 DEF Within
<1> QED BY <1>1, <1>8

\* Nobody joins or leaves.
LEMMA WithinStays ==
  ASSUME NEW s \in Nat, NEW w \in Nat, w <= s, NEW A \in SUBSET Journal!Thread, NEW c, NEW d,
         \A t \in A : c[t].tool \in Tool /\ d[t].tool = c[t].tool, Within(s, A, c)
  PROVE  Within(w, A, d)
<1>1. PICK a, b : a = Cardinality(A) * Dearest /\ b = (Cardinality(A) - 1) * Dearest
  OBVIOUS
<1>2. Roof \in Nat /\ a \in Nat
  BY <1>1, ThreadsAre, Counted, DearestIs, Times
<1>3. CASE s + a <= Roof
  BY <1>1, <1>2, <1>3 DEF Within
<1>4. ASSUME NEW t \in A, s + Cost[c[t].tool] + b <= Roof PROVE Within(w, A, d)
  <2>1. Cardinality(A) # 0
    BY Counted, FS_EmptySet
  <2>2. Cardinality(A) - 1 \in Nat
    BY <2>1, Counted
  <2>3. b \in Nat
    BY <1>1, <2>2, DearestIs, Times
  <2>4. Cost[c[t].tool] \in Nat
    BY DearestIs
  <2>5. w + Cost[c[t].tool] + b <= Roof
    BY <1>2, <1>4, <2>3, <2>4
  <2> QED BY <1>1, <2>5 DEF Within
<1> QED BY <1>1, <1>3, <1>4 DEF Within

\* One that is done has added its cost at most.
LEMMA WithinLeaves ==
  ASSUME NEW s \in Nat, NEW w \in Nat, NEW A \in SUBSET Journal!Thread, NEW c, NEW d, NEW t \in A,
         w <= s + Cost[c[t].tool], \A u \in A : c[u].tool \in Tool,
         \A u \in A \ {t} : d[u].tool = c[u].tool, Within(s, A, c)
  PROVE  Within(w, A \ {t}, d)
<1>1. PICK B, n, D, x : B = A \ {t} /\ n = Cardinality(B) /\ D = Dearest /\ x = Cost[c[t].tool]
  OBVIOUS
<1>2. n \in Nat /\ Cardinality(A) = n + 1 /\ D \in Nat /\ x \in Nat /\ x <= D /\ Roof \in Nat
  <2>1. B \in SUBSET Journal!Thread
    BY <1>1
  <2>2. n \in Nat /\ Cardinality(A) \in Nat /\ n = Cardinality(A) - 1
    BY <1>1, <2>1, Counted, FS_RemoveElement
  <2> QED BY <1>1, <2>2, DearestIs, ThreadsAre
<1>3. PICK a \in Nat : a = n * D
  BY <1>2, Times
<1>4. Cardinality(A) * Dearest = a + D /\ (Cardinality(A) - 1) * Dearest = a
  <2>1. Cardinality(A) - 1 = n
    BY <1>2
  <2> QED BY <1>1, <1>2, <1>3, <2>1, Times
<1>5. CASE s + (a + D) <= Roof
  <2>1. w + a <= Roof
    BY <1>1, <1>2, <1>3, <1>5
  <2> QED BY <1>1, <1>3, <2>1 DEF Within
<1>6. ASSUME NEW u \in A, s + Cost[c[u].tool] + a <= Roof PROVE Within(w, B, d)
  <2>1. PICK y \in Nat : y = Cost[c[u].tool] /\ y <= D
    BY <1>1, DearestIs
  <2>2. CASE u = t
    <3>1. w + a <= Roof
      BY <1>1, <1>2, <1>3, <1>6, <2>2
    <3> QED BY <1>1, <1>3, <3>1 DEF Within
  <2>3. CASE u # t
    <3>1. u \in B /\ n # 0
      <4>1. u \in B /\ IsFiniteSet(B)
        BY <1>1, <2>3, Counted
      <4> QED BY <1>1, <4>1, FS_EmptySet
    <3>2. PICK m \in Nat : n = m + 1
      <4>1. n - 1 \in Nat /\ n = (n - 1) + 1
        BY <1>2, <3>1
      <4> QED BY <4>1
    <3>3. PICK b \in Nat : b = m * D /\ a = b + D /\ (Cardinality(B) - 1) * Dearest = b
      <4>1. m * D \in Nat /\ n * D = m * D + D
        BY <1>2, <3>2, Times
      <4>2. n - 1 = m
        BY <3>2
      <4> QED BY <1>1, <1>3, <4>1, <4>2
    <3>4. w + y + b <= Roof
      BY <1>1, <1>2, <1>6, <2>1, <3>3
    <3>5. w + Cost[d[u].tool] + (Cardinality(B) - 1) * Dearest <= Roof
      BY <1>1, <2>1, <3>1, <3>3, <3>4
    <3> QED BY <3>1, <3>5 DEF Within
  <2> QED BY <2>2, <2>3
<1> QED BY <1>1, <1>4, <1>5, <1>6 DEF Within

\* What was spent alone.
LEMMA WithinRoof ==
  ASSUME NEW s \in Nat, NEW A \in SUBSET Journal!Thread, NEW c, \A t \in A : c[t].tool \in Tool, Within(s, A, c)
  PROVE  s <= Roof /\ \A d : Within(s, {}, d)
<1>1. s <= Roof
  <2>1. Cardinality(A) \in Nat /\ Cardinality(A) * Dearest \in Nat /\ Roof \in Nat
    BY Counted, DearestIs, ThreadsAre, Times
  <2>2. ASSUME NEW t \in A, s + Cost[c[t].tool] + (Cardinality(A) - 1) * Dearest <= Roof PROVE s <= Roof
    <3>1. Cardinality(A) # 0
      BY Counted, FS_EmptySet
    <3>2. Cardinality(A) - 1 \in Nat
      BY <2>1, <3>1
    <3>3. PICK a \in Nat, x \in Nat : a = (Cardinality(A) - 1) * Dearest /\ x = Cost[c[t].tool]
      BY <3>2, DearestIs, Times
    <3> QED BY <2>1, <2>2, <3>3
  <2>3. ASSUME s + Cardinality(A) * Dearest <= Roof PROVE s <= Roof
    BY <2>1, <2>3
  <2> QED BY <2>2, <2>3 DEF Within
<1>2. Cardinality({}) * Dearest = 0
  BY FS_EmptySet, DearestIs, Times
<1>3. s + Cardinality({}) * Dearest = s
  BY <1>2
<1> QED BY <1>1, <1>3 DEF Within

LEMMA AdmittedAre ==
  ASSUME JournalInv
  PROVE  /\ Admitted(call) \in SUBSET Journal!Thread /\ Journal!Spent \in Nat
         /\ \A t \in Admitted(call) : call[t].tool \in Tool
BY SpentType DEF JournalInv, JournalTyped, Admitted, Working

LEMMA BudgetInit == Journal!Init => BudgetInv
<1> SUFFICES ASSUME Journal!Init PROVE BudgetInv
  OBVIOUS
<1>1. Journal!Spent = 0 /\ JournalInv
  BY SpentFirst, JournalInit
<1>2. Admitted(call) = {}
  BY DEF Journal!Init, Journal!NoCall, Admitted, Working
<1>3. Cardinality({}) * Dearest = 0
  BY FS_EmptySet, DearestIs, Times
<1>4. 0 + Cardinality({}) * Dearest <= Roof
  BY <1>3, ThreadsAre
<1> QED BY <1>1, <1>2, <1>4 DEF BudgetInv, Within

\* Nobody is let in, nobody is done, and nothing more is spent.
LEMMA BudgetStays ==
  ASSUME JournalInv, BudgetInv, Admitted(call') = Admitted(call), Journal!Spent' \in Nat, Journal!Spent' <= Journal!Spent,
         \A t \in Admitted(call) : call'[t].tool = call[t].tool
  PROVE  BudgetInv'
<1>1. PICK s, w, A, c, d : s = Journal!Spent /\ w = Journal!Spent' /\ A = Admitted(call) /\ c = call /\ d = call'
  OBVIOUS
<1>2. /\ s \in Nat /\ w \in Nat /\ w <= s /\ A \in SUBSET Journal!Thread /\ Within(s, A, c)
      /\ \A t \in A : c[t].tool \in Tool /\ d[t].tool = c[t].tool
  BY <1>1, AdmittedAre DEF BudgetInv
<1>3. Within(w, A, d)
  BY <1>2, WithinStays
<1> QED BY <1>1, <1>3 DEF BudgetInv

LEMMA InvokeWithin ==
  ASSUME JournalInv, BudgetInv, NEW t \in Journal!Thread, Journal!Invoke(t)
  PROVE  BudgetInv'
<1>1. PICK c \in Invocation : Moves(t, c)
  BY InvokeShape
<1> DEFINE k == call[t].key
<1>2. /\ call' = [call EXCEPT ![t] = c] /\ call[t].pc # "idle"
      /\ row' \in [Journal!Key -> Row] /\ \A q \in Journal!Key \ {k} : row'[q] = row[q]
      /\ c.pc # "idle" => c.tool = call[t].tool
  BY <1>1 DEF Moves
<1>3. /\ call'[t] = c /\ \A u \in Journal!Thread \ {t} : call'[u] = call[u]
      /\ k \in Journal!Key /\ row \in [Journal!Key -> Row] /\ call[t].tool \in Tool
  BY <1>2 DEF JournalInv, JournalTyped, Invocation
<1>4. /\ Journal!Spent \in Nat /\ Journal!Spent' \in Nat
      /\ Journal!Spent' <= Journal!Spent + (IF row'[k].status = "completed" THEN row'[k].cost ELSE 0)
  BY <1>2, <1>3, SpentMoves
<1>5. row' = row => Journal!Spent' = Journal!Spent
  BY SpentNow
<1>6. /\ t \in Admitted(call) <=> call[t].pc \in {"begin"} \cup Working
      /\ t \in Admitted(call') <=> c.pc \in {"begin"} \cup Working
      /\ \A u \in Journal!Thread \ {t} : u \in Admitted(call') <=> u \in Admitted(call)
      /\ Admitted(call) \subseteq Journal!Thread /\ Admitted(call') \subseteq Journal!Thread
  BY <1>3 DEF Admitted
\* The call goes on as it was.
<1>7. ASSUME t \in Admitted(call) <=> t \in Admitted(call'), t \in Admitted(call) => c.pc # "idle",
             Journal!Spent' <= Journal!Spent
      PROVE  BudgetInv'
  <2>1. Admitted(call') = Admitted(call)
    BY <1>6, <1>7
  <2>2. \A u \in Admitted(call) : call'[u].tool = call[u].tool
    BY <1>2, <1>3, <1>6, <1>7
  <2> QED BY <1>4, <1>7, <2>1, <2>2, BudgetStays
\* The call is done.
<1>8. ASSUME t \in Admitted(call), t \notin Admitted(call'), Journal!Spent' <= Journal!Spent + Cost[call[t].tool]
      PROVE  BudgetInv'
  <2>1. PICK s, w, A, x, y : s = Journal!Spent /\ w = Journal!Spent' /\ A = Admitted(call) /\ x = call /\ y = call'
    OBVIOUS
  <2>2. /\ s \in Nat /\ w \in Nat /\ A \in SUBSET Journal!Thread /\ t \in A /\ w <= s + Cost[x[t].tool]
        /\ \A u \in A : x[u].tool \in Tool
    BY <1>4, <1>8, <2>1, AdmittedAre
  <2>3. Within(s, A, x) /\ \A u \in A \ {t} : y[u].tool = x[u].tool
    BY <1>3, <1>6, <2>1 DEF BudgetInv
  <2>4. Within(w, A \ {t}, y)
    BY <2>2, <2>3, WithinLeaves
  <2>5. Admitted(call') = A \ {t}
    BY <1>6, <1>8, <2>1
  <2> QED BY <2>1, <2>4, <2>5 DEF BudgetInv
\* The call is let in.
<1>9. ASSUME t \notin Admitted(call), t \in Admitted(call'), row' = row, c.pc # "idle", Journal!Affordable(call[t].tool)
      PROVE  BudgetInv'
  <2>1. PICK s, A, y : s = Journal!Spent /\ A = Admitted(call) /\ y = call'
    OBVIOUS
  <2>2. s \in Nat /\ A \in SUBSET Journal!Thread /\ t \in Journal!Thread \ A /\ y[t].tool \in Tool
    BY <1>2, <1>3, <1>4, <1>9, <2>1, AdmittedAre
  <2>3. s + Cost[y[t].tool] <= Ceiling
    BY <1>2, <1>3, <1>9, <2>1 DEF Journal!Affordable
  <2>4. Within(s, A \cup {t}, y)
    BY <2>2, <2>3, WithinJoins
  <2>5. Admitted(call') = A \cup {t}
    BY <1>6, <1>9, <2>1
  <2> QED BY <1>5, <1>9, <2>1, <2>4, <2>5 DEF BudgetInv
<1>10. Cost[call[t].tool] \in Nat
  BY <1>3, DearestIs
<1>11. CASE call[t].pc = "lookup" /\ row' = row /\ c.pc = "idle"
  BY <1>4, <1>5, <1>6, <1>7, <1>11 DEF Working
<1>12. CASE call[t].pc = "lookup" /\ row' = row /\ c.pc = "begin" /\ Journal!Affordable(call[t].tool)
  BY <1>6, <1>9, <1>12 DEF Working
<1>13. CASE call[t].pc = "begin" /\ row'[k].status = "running" /\ c.pc = "mint"
  <2>1. Journal!Spent' <= Journal!Spent
    BY <1>4, <1>13
  <2> QED BY <1>6, <1>7, <1>13, <2>1 DEF Working
<1>14. CASE call[t].pc \in Working /\ row' = row /\ c.pc \in Working
  BY <1>4, <1>5, <1>6, <1>7, <1>14 DEF Working
<1>15. CASE call[t].pc \in Working /\ row' = row /\ c.pc = "idle"
  <2>1. Journal!Spent' <= Journal!Spent + Cost[call[t].tool]
    BY <1>4, <1>5, <1>10, <1>15
  <2> QED BY <1>6, <1>8, <1>15, <2>1 DEF Working
<1>16. CASE /\ call[t].pc \in Working /\ row'[k].status \in {"completed", "failed"} /\ c.pc = "idle"
            /\ (row'[k].status = "completed" => row'[k].cost = Cost[call[t].tool])
  <2>1. Journal!Spent' <= Journal!Spent + Cost[call[t].tool]
    BY <1>4, <1>10, <1>16
  <2> QED BY <1>6, <1>8, <1>16, <2>1 DEF Working
<1> QED BY <1>1, <1>11, <1>12, <1>13, <1>14, <1>15, <1>16 DEF Moves

LEMMA BudgetNext == JournalInv /\ BudgetInv /\ [Journal!Next]_journalVars => BudgetInv'
<1> SUFFICES ASSUME JournalInv, BudgetInv, [Journal!Next]_journalVars PROVE BudgetInv'
  OBVIOUS
<1>1. row' = row => Journal!Spent' = Journal!Spent
  BY SpentNow
<1>2. Journal!Spent \in Nat /\ DOMAIN call = Journal!Thread
  BY AdmittedAre DEF JournalInv, JournalTyped
<1>3. ASSUME row' = row, call' = call PROVE BudgetInv'
  BY <1>1, <1>3 DEF BudgetInv
\* A call that begins has not been let in yet.
<1>4. ASSUME row' = row, NEW t \in Journal!Thread, NEW c, call[t].pc = "idle", c.pc = "lookup", call' = [call EXCEPT ![t] = c]
      PROVE  BudgetInv'
  <2>1. call'[t] = c /\ \A u \in Journal!Thread \ {t} : call'[u] = call[u]
    BY <1>2, <1>4
  <2>2. Admitted(call') = Admitted(call) /\ t \notin Admitted(call) /\ Admitted(call) \subseteq Journal!Thread
    BY <1>4, <2>1 DEF Admitted, Working
  <2>3. \A u \in Admitted(call) : call'[u].tool = call[u].tool
    BY <2>1, <2>2
  <2>4. Journal!Spent' \in Nat /\ Journal!Spent' <= Journal!Spent
    BY <1>1, <1>2, <1>4
  <2> QED BY <2>2, <2>3, <2>4, BudgetStays
<1>5. CASE Journal!InvokeOuter
  <2>1. PICK a : call' = [call EXCEPT ![Outer] = [pc |-> "lookup", key |-> Journal!OuterKey, tool |-> a]]
    BY <1>5 DEF Journal!InvokeOuter
  <2>2. row' = row /\ call[Outer].pc = "idle"
    BY <1>5 DEF Journal!InvokeOuter
  <2> QED BY <1>4, <2>1, <2>2, JournalBounds
<1>6. ASSUME NEW t \in Nested, Journal!InvokeNested(t) PROVE BudgetInv'
  <2>1. PICK a : call' = [call EXCEPT ![t] = [pc |-> "lookup", key |-> Journal!NestedKey, tool |-> a]]
    BY <1>6 DEF Journal!InvokeNested
  <2>2. row' = row /\ call[t].pc = "idle"
    BY <1>6 DEF Journal!InvokeNested
  <2> QED BY <1>4, <2>1, <2>2, JournalBounds
<1>7. CASE Journal!Crash
  <2>1. row' = row /\ call' = [t \in Journal!Thread |-> Journal!NoCall]
    BY <1>7 DEF Journal!Crash
  <2>2. Admitted(call') = {}
    BY <2>1 DEF Admitted, Journal!NoCall, Working
  <2>3. PICK s, A, c : s = Journal!Spent /\ A = Admitted(call) /\ c = call
    OBVIOUS
  <2>4. s \in Nat /\ A \in SUBSET Journal!Thread /\ (\A t \in A : c[t].tool \in Tool) /\ Within(s, A, c)
    BY <2>3, AdmittedAre DEF BudgetInv
  <2>5. \A d : Within(s, {}, d)
    BY <2>4, WithinRoof
  <2> QED BY <1>1, <2>1, <2>2, <2>3, <2>5 DEF BudgetInv
<1>8. CASE Journal!Retry \/ UNCHANGED journalVars
  BY <1>3, <1>8 DEF Journal!Retry, journalVars
<1> QED BY <1>5, <1>6, <1>7, <1>8, InvokeWithin DEF Journal!Next

LEMMA BudgetHolds == JournalInv /\ BudgetInv => OverrunBounded
<1> SUFFICES ASSUME JournalInv, BudgetInv PROVE OverrunBounded
  OBVIOUS
<1>1. PICK s, A, c : s = Journal!Spent /\ A = Admitted(call) /\ c = call
  OBVIOUS
<1>2. s \in Nat /\ A \in SUBSET Journal!Thread /\ (\A t \in A : c[t].tool \in Tool) /\ Within(s, A, c)
  BY <1>1, AdmittedAre DEF BudgetInv
<1>3. s <= Roof
  BY <1>2, WithinRoof
<1>4. Journal!Cardinality(Nested) = Cardinality(Nested)
  BY DEF Journal!Cardinality, Cardinality
<1> QED BY <1>1, <1>3, <1>4 DEF OverrunBounded, Journal!OverrunBounded, Roof, Dearest

-------------------------------------------------------------------------------
(***************************************************************************)
(* The note.  An AI's edit is planned once, against the state of the        *)
(* revision that was read, and then travels through the log's flush and the *)
(* cutting of a revision before it is merged.  A revision's text stays what *)
(* it was when it was cut, and so does the text of its state, also where a  *)
(* later state of the same text replaces it.                                *)
(***************************************************************************)
Fields == {"op", "pc", "label", "snap", "rev", "head", "upto", "upd"}
RevFields == {"ins", "del", "kept", "text", "blocks", "labels", "by", "old"}

WellFormed(x) == IF x.pc = "idle" THEN x = Note!Idle ELSE DOMAIN x = Fields /\ x.op # "none"

\* A snapshot that is about to become the state of a revision has the revision's text.
Fits(x, rv) ==
  /\ x.pc \in {"insert", "label", "upgrade"} => x.head \in 1 .. Len(rv)
  /\ x.pc \in {"label", "upgrade"} => rv[x.head].text = Note!Text(x.snap)

\* An edit under way takes out only what stands in the text that was read.
PlannedFrom(x, text) ==
  x.op = "edit" => /\ x.pc = "apply" => x.label = "pre-ai-edit"
                   /\ x.label = "pre-ai-edit" => \A i \in x.upd.del : i[1] \in text

\* A revision's state reads as the revision does.
TextsOf(blocks) == {b[1] : b \in blocks}
Revisions(rv) ==
  /\ \E S : rv \in Seq(S)
  /\ \A r \in 1 .. Len(rv) : /\ DOMAIN rv[r] = RevFields /\ rv[r].text = TextsOf(rv[r].blocks)
                             /\ rv[r].kept => Note!Text([ins |-> rv[r].ins, del |-> rv[r].del]) = rv[r].text

NoteInv ==
  /\ DOMAIN th = Note!Thread
  /\ \A t \in Note!Thread : WellFormed(th[t]) /\ Fits(th[t], revs) /\ (t # Svc => th[t].op \in {"none", "compact"})
  /\ Revisions(revs) /\ held.rev \in 1 .. Len(revs)
  /\ PlannedFrom(th[Svc], revs[held.rev].text)

\* Revisions are added, and keep their texts.
Longer(rv, new) == Len(rv) <= Len(new) /\ \A r \in 1 .. Len(rv) : new[r].text = rv[r].text

LEMMA NoteThreads == Svc \in Note!Thread /\ Compactor \subseteq Note!Thread
BY DEF Note!Thread

LEMMA BlocksText == ASSUME NEW d PROVE TextsOf(Note!Blocks(d)) = Note!Text(d)
<1> DEFINE n(w) == Note!Cardinality({i \in d.ins \ d.del : i[1] = w})
<1>1. ASSUME NEW w, NEW k PROVE <<w, k>>[1] = w
  OBVIOUS
<1>2. \A b \in Note!Blocks(d) : b[1] \in Note!Text(d)
  BY Zenon, <1>1 DEF Note!Blocks
<1>3. \A w \in Note!Text(d) : <<w, n(w)>> \in Note!Blocks(d) /\ <<w, n(w)>>[1] = w
  BY Zenon, <1>1 DEF Note!Blocks
<1> QED BY Zenon, <1>2, <1>3 DEF TextsOf

LEMMA RevisionsLen == ASSUME NEW rv, Revisions(rv) PROVE Len(rv) \in Nat
BY DEF Revisions

LEMMA NoteInit == Note!Init => NoteInv
<1> SUFFICES ASSUME Note!Init PROVE NoteInv
  OBVIOUS
<1> DEFINE row0 == [ins |-> doc.ins, del |-> {}, kept |-> TRUE, text |-> Note!Text(doc), blocks |-> Note!Blocks(doc), labels |-> {"publish"}, by |-> "other", old |-> FALSE]
<1>1. /\ revs = <<row0>> /\ th = [t \in Note!Thread |-> Note!Idle] /\ held.rev = 1 /\ doc.del = {}
  BY DEF Note!Init
<1>2. revs \in Seq({row0}) /\ Len(revs) = 1 /\ revs[1] = row0
  BY <1>1
<1>3. DOMAIN row0 = RevFields /\ row0.text = TextsOf(row0.blocks) /\ Note!Text([ins |-> row0.ins, del |-> row0.del]) = row0.text
  BY <1>1, BlocksText DEF RevFields, Note!Text
<1> HIDE DEF row0
<1>4. \A r \in 1 .. Len(revs) : r = 1
  BY <1>2
<1>5. Revisions(revs)
  BY <1>2, <1>3, <1>4 DEF Revisions
<1>6. Note!Idle.pc = "idle" /\ Note!Idle.op = "none"
  BY DEF Note!Idle
<1> QED BY <1>1, <1>2, <1>5, <1>6, NoteThreads DEF NoteInv, WellFormed, Fits, PlannedFrom

\* One thread moves; revisions are added and keep their texts.
LEMMA NoteStep ==
  ASSUME NoteInv, NEW t \in Note!Thread, NEW x, th' = [th EXCEPT ![t] = x],
         Revisions(revs'), Longer(revs, revs'), WellFormed(x), Fits(x, revs'),
         t # Svc => x.op \in {"none", "compact"},
         held'.rev \in 1 .. Len(revs'), held' = held \/ (t = Svc /\ x.op # "edit"),
         t = Svc => PlannedFrom(x, revs[held.rev].text)
  PROVE  NoteInv'
<1>1. /\ DOMAIN th' = Note!Thread /\ th'[t] = x /\ \A u \in Note!Thread \ {t} : th'[u] = th[u]
  BY DEF NoteInv
<1>2. Len(revs) \in Nat /\ Len(revs') \in Nat
  BY RevisionsLen DEF NoteInv
<1>3. \A u \in Note!Thread : Fits(th'[u], revs')
  <2> SUFFICES ASSUME NEW u \in Note!Thread, u # t PROVE Fits(th[u], revs')
    BY <1>1
  <2> QED BY <1>2 DEF NoteInv, Fits, Longer
<1>4. PlannedFrom(th'[Svc], revs'[held'.rev].text)
  <2>1. CASE t = Svc
    BY <1>1, <2>1 DEF PlannedFrom, NoteInv, Longer
  <2>2. CASE t # Svc
    BY <1>1, <2>2, NoteThreads DEF PlannedFrom, NoteInv, Longer
  <2> QED BY <2>1, <2>2
<1> QED BY <1>1, <1>3, <1>4 DEF NoteInv

\* The revisions as they are.
LEMMA SameRevs == ASSUME NoteInv, UNCHANGED revs PROVE Revisions(revs') /\ Longer(revs, revs')
BY RevisionsLen DEF NoteInv, Longer

\* A thread goes on with what it has: any label but those that carry a snapshot's revision.
LEMMA GotoKeeps ==
  ASSUME NoteInv, NEW t \in Note!Thread, th[t].pc # "idle", UNCHANGED <<revs, held>>,
         NEW pc1 \in {"look", "capture", "max", "drop", "before", "prune"}, Note!Goto(t, pc1)
  PROVE  NoteInv'
<1> DEFINE x == [th[t] EXCEPT !.pc = pc1]
<1>1. th' = [th EXCEPT ![t] = x]
  BY DEF Note!Goto
<1>2. /\ x.pc = pc1 /\ x.op = th[t].op /\ x.label = th[t].label /\ x.upd = th[t].upd /\ DOMAIN x = Fields /\ x.op # "none"
  BY DEF NoteInv, WellFormed, Fields
<1> HIDE DEF x
<1>3. WellFormed(x) /\ Fits(x, revs')
  BY <1>2 DEF WellFormed, Fits
<1> QED BY <1>1, <1>2, <1>3, SameRevs, NoteStep DEF NoteInv, PlannedFrom

LEMMA WorkFields ==
  ASSUME NEW op, NEW pc1, NEW label
  PROVE  /\ DOMAIN Note!Work(op, pc1, label) = Fields
         /\ Note!Work(op, pc1, label).op = op /\ Note!Work(op, pc1, label).pc = pc1 /\ Note!Work(op, pc1, label).label = label
BY DEF Note!Work, Fields

LEMMA CutKeeps ==
  ASSUME NoteInv, NEW t \in Note!Thread, th[t].pc # "idle", Revisions(revs'), Longer(revs, revs'),
         NEW r \in 1 .. Len(revs'), Note!Cut(t, r)
  PROVE  NoteInv'
<1> DEFINE x == Note!Then(t, r)
<1>1. th' = [th EXCEPT ![t] = x]
  BY DEF Note!Cut
<1>2. DOMAIN th[t] = Fields /\ th[t].op # "none"
  BY DEF NoteInv, WellFormed
<1>3. Note!Idle.pc = "idle" /\ Note!Idle.op = "none"
  BY DEF Note!Idle
<1>4. \/ x = Note!Idle
      \/ /\ DOMAIN x = Fields /\ x.op = th[t].op /\ x.label = th[t].label /\ x.upd = th[t].upd
         /\ x.pc \in {"prune", "apply"} /\ (x.op = "edit" => x.label = "pre-ai-edit")
  BY <1>2 DEF Note!Then, Fields
<1> HIDE DEF x
<1>5. WellFormed(x) /\ Fits(x, revs') /\ (t # Svc => x.op \in {"none", "compact"})
  BY <1>2, <1>3, <1>4 DEF WellFormed, Fits, NoteInv
<1>6. held' = held \/ (t = Svc /\ x.op # "edit" /\ held'.rev = r)
  <2>1. th[t].op = "read" => t = Svc
    BY DEF NoteInv
  <2>2. held' = held \/ (th[t].op = "read" /\ held' = [rev |-> r, text |-> Note!Text(th[t].snap)])
    BY DEF Note!Cut, Note!Holds
  <2> QED BY <1>3, <1>4, <2>1, <2>2
<1>7. held'.rev \in 1 .. Len(revs')
  BY <1>6, RevisionsLen DEF NoteInv, Longer
<1>8. t = Svc => PlannedFrom(x, revs[held.rev].text)
  BY <1>3, <1>4 DEF NoteInv, PlannedFrom
<1> QED BY <1>1, <1>5, <1>6, <1>7, <1>8, NoteStep

LEMMA CaptureKeeps == ASSUME NoteInv, NEW t \in Note!Thread, Note!Capture(t) \/ Note!Before(t) \/ Note!Latest(t) PROVE NoteInv'
<1>1. th[t].pc \in {"capture", "before", "latest"} /\ UNCHANGED <<revs, held>> /\ DOMAIN th[t] = Fields /\ th[t].op # "none"
  BY DEF Note!Capture, Note!Before, Note!Latest, Note!store, NoteInv, WellFormed
<1>2. PICK x : /\ th' = [th EXCEPT ![t] = x] /\ DOMAIN x = Fields /\ x.op = th[t].op /\ x.label = th[t].label /\ x.upd = th[t].upd
               /\ \/ x.pc \in {"before", "latest"}
                  \/ /\ x.pc \in {"insert", "label"} /\ x.head = Len(revs)
                     /\ x.pc = "label" => revs[x.head].text = Note!Text(x.snap)
  <2>1. CASE Note!Capture(t)
    <3> DEFINE x == [th[t] EXCEPT !.pc = "before", !.snap = doc]
    <3>1. th' = [th EXCEPT ![t] = x]
      BY <2>1 DEF Note!Capture
    <3>2. DOMAIN x = Fields /\ x.op = th[t].op /\ x.label = th[t].label /\ x.upd = th[t].upd /\ x.pc = "before"
      BY <1>1 DEF Fields
    <3> HIDE DEF x
    <3> QED BY <3>1, <3>2
  <2>2. CASE Note!Before(t)
    <3> DEFINE x == [th[t] EXCEPT !.pc = "latest", !.rev = Len(revs)]
    <3>1. th' = [th EXCEPT ![t] = x]
      BY <2>2 DEF Note!Before
    <3>2. DOMAIN x = Fields /\ x.op = th[t].op /\ x.label = th[t].label /\ x.upd = th[t].upd /\ x.pc = "latest"
      BY <1>1 DEF Fields
    <3> HIDE DEF x
    <3> QED BY <3>1, <3>2
  <2>3. CASE Note!Latest(t)
    <3> DEFINE pc1 == IF revs[Len(revs)].blocks = Note!Blocks(th[t].snap) THEN "label" ELSE "insert"
    <3> DEFINE x == [th[t] EXCEPT !.pc = pc1, !.head = Len(revs)]
    <3>1. th' = [th EXCEPT ![t] = x]
      BY <2>3 DEF Note!Latest
    <3>2. /\ DOMAIN x = Fields /\ x.op = th[t].op /\ x.label = th[t].label /\ x.upd = th[t].upd /\ x.pc = pc1
          /\ x.head = Len(revs) /\ x.snap = th[t].snap
      BY <1>1 DEF Fields
    <3> HIDE DEF x
    <3>3. pc1 = "label" => revs[Len(revs)].text = Note!Text(th[t].snap)
      <4>1. Len(revs) \in 1 .. Len(revs)
        BY RevisionsLen DEF NoteInv
      <4> QED BY <4>1, BlocksText DEF NoteInv, Revisions
    <3> QED BY <3>1, <3>2, <3>3
  <2> QED BY <2>1, <2>2, <2>3
<1>3. Len(revs) \in 1 .. Len(revs)
  BY RevisionsLen DEF NoteInv
<1>4. WellFormed(x) /\ Fits(x, revs')
  BY <1>1, <1>2, <1>3 DEF WellFormed, Fits
<1>5. t = Svc => PlannedFrom(x, revs[held.rev].text)
  BY <1>1, <1>2 DEF NoteInv, PlannedFrom
<1> QED BY <1>1, <1>2, <1>4, <1>5, SameRevs, NoteStep DEF NoteInv

\* A row is appended, or one row is changed and keeps its text.
LEMMA AppendedRow ==
  ASSUME NoteInv, NEW r, revs' = Append(revs, r), DOMAIN r = RevFields, r.text = TextsOf(r.blocks),
         r.kept => Note!Text([ins |-> r.ins, del |-> r.del]) = r.text
  PROVE  Revisions(revs') /\ Longer(revs, revs') /\ Len(revs') \in 1 .. Len(revs')
<1>1. PICK S : revs \in Seq(S)
  BY DEF NoteInv, Revisions
<1>2. revs \in Seq(S \cup {r}) /\ Len(revs) \in Nat
  BY <1>1
<1>3. revs' \in Seq(S \cup {r}) /\ Len(revs') = Len(revs) + 1 /\ revs'[Len(revs) + 1] = r
      /\ \A i \in 1 .. Len(revs) : revs'[i] = revs[i]
  BY <1>2
<1>4. \A i \in 1 .. Len(revs') : i \in 1 .. Len(revs) \/ i = Len(revs) + 1
  BY <1>2, <1>3
<1>5. Revisions(revs')
  BY <1>3, <1>4 DEF NoteInv, Revisions
<1> QED BY <1>2, <1>3, <1>5 DEF Longer

LEMMA ChangedRows ==
  ASSUME NoteInv, revs' = [i \in 1 .. Len(revs) |-> revs'[i]],
         \A i \in 1 .. Len(revs) :
           /\ DOMAIN revs'[i] = RevFields /\ revs'[i].text = revs[i].text /\ revs'[i].blocks = revs[i].blocks
           /\ \/ revs'[i].ins = revs[i].ins /\ revs'[i].del = revs[i].del /\ (revs'[i].kept => revs[i].kept)
              \/ Note!Text([ins |-> revs'[i].ins, del |-> revs'[i].del]) = revs[i].text
  PROVE  Revisions(revs') /\ Longer(revs, revs') /\ Len(revs') = Len(revs)
<1>1. Len(revs) \in Nat
  BY RevisionsLen DEF NoteInv
<1> DEFINE S == {revs'[i] : i \in 1 .. Len(revs)}
<1>2. revs' \in Seq(S) /\ Len(revs') = Len(revs)
  <2>1. revs' \in [1 .. Len(revs) -> S]
    OBVIOUS
  <2> HIDE DEF S
  <2> QED BY <1>1, <2>1
<1> HIDE DEF S
<1>3. \A i \in 1 .. Len(revs) : revs'[i].kept => Note!Text([ins |-> revs'[i].ins, del |-> revs'[i].del]) = revs'[i].text
  <2> SUFFICES ASSUME NEW i \in 1 .. Len(revs), revs'[i].kept
               PROVE  Note!Text([ins |-> revs'[i].ins, del |-> revs'[i].del]) = revs'[i].text
    OBVIOUS
  <2>1. CASE Note!Text([ins |-> revs'[i].ins, del |-> revs'[i].del]) = revs[i].text
    BY <2>1
  <2>2. CASE revs'[i].ins = revs[i].ins /\ revs'[i].del = revs[i].del /\ revs[i].kept
    <3>1. Note!Text([ins |-> revs[i].ins, del |-> revs[i].del]) = revs[i].text
      BY <2>2 DEF NoteInv, Revisions
    <3> QED BY <2>2, <3>1
  <2> QED BY <2>1, <2>2
<1>4. Revisions(revs')
  <2>1. \A i \in 1 .. Len(revs') : DOMAIN revs'[i] = RevFields /\ revs'[i].text = TextsOf(revs'[i].blocks)
    BY <1>2 DEF NoteInv, Revisions
  <2> QED BY Zenon, <1>2, <1>3, <2>1 DEF Revisions
<1>5. Len(revs) <= Len(revs')
  BY <1>1, <1>2
<1>6. \A i \in 1 .. Len(revs) : revs'[i].text = revs[i].text
  OBVIOUS
<1> QED BY Zenon, <1>2, <1>4, <1>5, <1>6 DEF Longer

LEMMA InsertKeeps == ASSUME NoteInv, NEW t \in Note!Thread, Note!Insert(t) PROVE NoteInv'
<1>1. th[t].pc = "insert" /\ th[t].pc # "idle"
  BY DEF Note!Insert
<1>2. CASE th' = [th EXCEPT ![t] = Note!Idle] /\ UNCHANGED <<revs, held>>
  <2>1. Note!Idle.pc = "idle" /\ Note!Idle.op = "none"
    BY DEF Note!Idle
  <2>2. WellFormed(Note!Idle) /\ Fits(Note!Idle, revs') /\ PlannedFrom(Note!Idle, revs[held.rev].text)
    BY <2>1 DEF WellFormed, Fits, PlannedFrom
  <2> QED BY <1>2, <2>1, <2>2, SameRevs, NoteStep DEF NoteInv
<1>3. CASE ~(th' = [th EXCEPT ![t] = Note!Idle] /\ UNCHANGED <<revs, held>>)
  <2> DEFINE s == th[t].snap
  <2> DEFINE r == [ins |-> s.ins, del |-> s.del, kept |-> TRUE, text |-> Note!Text(s), blocks |-> Note!Blocks(s),
                   labels |-> {th[t].label}, by |-> IF th[t].op = "compact" THEN "compaction" ELSE "other", old |-> FALSE]
  <2>1. revs' = Append(revs, r) /\ Note!Cut(t, Len(revs'))
    BY <1>3 DEF Note!Insert
  <2>2. DOMAIN r = RevFields /\ r.text = TextsOf(r.blocks) /\ Note!Text([ins |-> r.ins, del |-> r.del]) = r.text
    BY BlocksText DEF RevFields, Note!Text
  <2> HIDE DEF r
  <2>3. Revisions(revs') /\ Longer(revs, revs') /\ Len(revs') \in 1 .. Len(revs')
    BY <2>1, <2>2, AppendedRow
  <2>4. PICK n \in 1 .. Len(revs') : n = Len(revs')
    BY <2>3
  <2>5. Note!Cut(t, n)
    BY <2>1, <2>4
  <2> QED BY <1>1, <2>3, <2>4, <2>5, CutKeeps
<1> QED BY <1>2, <1>3

LEMMA LabelKeeps == ASSUME NoteInv, NEW t \in Note!Thread, Note!Label(t) PROVE NoteInv'
<1> DEFINE h == th[t].head
<1> DEFINE r == [revs[h] EXCEPT !.labels = revs[h].labels \cup {th[t].label}]
<1>1. th[t].pc = "label" /\ h \in 1 .. Len(revs) /\ DOMAIN th[t] = Fields /\ th[t].op # "none" /\ revs' = [revs EXCEPT ![h] = r]
  BY DEF Note!Label, NoteInv, Fits, WellFormed
<1>2. /\ DOMAIN revs[h] = RevFields /\ DOMAIN revs = 1 .. Len(revs)
  <2>1. DOMAIN revs[h] = RevFields /\ \E S : revs \in Seq(S)
    BY <1>1 DEF NoteInv, Revisions
  <2> QED BY <2>1
<1>3. /\ DOMAIN r = RevFields /\ r.text = revs[h].text /\ r.blocks = revs[h].blocks
      /\ r.ins = revs[h].ins /\ r.del = revs[h].del /\ r.kept = revs[h].kept
  BY <1>2 DEF RevFields
<1> HIDE DEF r, h
<1>4. Revisions(revs') /\ Longer(revs, revs') /\ Len(revs') = Len(revs)
  <2>1. revs' = [i \in 1 .. Len(revs) |-> revs'[i]] /\ revs'[h] = r /\ \A i \in 1 .. Len(revs) : i # h => revs'[i] = revs[i]
    BY <1>1, <1>2
  <2>2. \A i \in 1 .. Len(revs) : DOMAIN revs[i] = RevFields
    BY DEF NoteInv, Revisions
  <2> QED BY <1>3, <2>1, <2>2, ChangedRows
<1>5. CASE Note!Goto(t, "upgrade") /\ UNCHANGED held
  <2> DEFINE x == [th[t] EXCEPT !.pc = "upgrade"]
  <2>1. th' = [th EXCEPT ![t] = x]
    BY <1>5 DEF Note!Goto
  <2>2. /\ x.pc = "upgrade" /\ x.op = th[t].op /\ x.label = th[t].label /\ x.upd = th[t].upd /\ DOMAIN x = Fields /\ x.op # "none"
        /\ x.head = h /\ x.snap = th[t].snap
    BY <1>1 DEF Fields, h
  <2> HIDE DEF x
  <2>3. revs[h].text = Note!Text(x.snap)
    BY <1>1, <2>2 DEF NoteInv, Fits, h
  <2>4. WellFormed(x) /\ Fits(x, revs')
    BY <1>1, <1>4, <2>2, <2>3 DEF WellFormed, Fits, Longer
  <2>5. held'.rev \in 1 .. Len(revs')
    BY <1>4, <1>5 DEF NoteInv
  <2> QED BY <1>1, <1>4, <1>5, <2>1, <2>2, <2>4, <2>5, NoteStep DEF NoteInv, PlannedFrom
<1>6. CASE Note!Cut(t, h)
  BY <1>1, <1>4, <1>6, CutKeeps
<1> QED BY <1>5, <1>6 DEF Note!Label, h

LEMMA UpgradeKeeps == ASSUME NoteInv, NEW t \in Note!Thread, Note!Upgrade(t) PROVE NoteInv'
<1> DEFINE h == th[t].head
<1> DEFINE r == [revs[h] EXCEPT !.ins = th[t].snap.ins, !.del = th[t].snap.del, !.kept = TRUE]
<1>1. /\ th[t].pc = "upgrade" /\ h \in 1 .. Len(revs) /\ revs' = [revs EXCEPT ![h] = r] /\ Note!Cut(t, h)
      /\ revs[h].text = Note!Text(th[t].snap)
  BY DEF Note!Upgrade, NoteInv, Fits
<1>2. /\ DOMAIN revs[h] = RevFields /\ DOMAIN revs = 1 .. Len(revs)
  <2>1. DOMAIN revs[h] = RevFields /\ \E S : revs \in Seq(S)
    BY <1>1 DEF NoteInv, Revisions
  <2> QED BY <2>1
<1>3. /\ DOMAIN r = RevFields /\ r.text = revs[h].text /\ r.blocks = revs[h].blocks
      /\ r.ins = th[t].snap.ins /\ r.del = th[t].snap.del
  BY <1>2 DEF RevFields
<1> HIDE DEF r, h
<1>4. Note!Text([ins |-> r.ins, del |-> r.del]) = revs[h].text
  BY <1>1, <1>3 DEF Note!Text
<1>5. Revisions(revs') /\ Longer(revs, revs') /\ Len(revs') = Len(revs)
  <2>1. revs' = [i \in 1 .. Len(revs) |-> revs'[i]] /\ revs'[h] = r /\ \A i \in 1 .. Len(revs) : i # h => revs'[i] = revs[i]
    BY <1>1, <1>2
  <2>2. \A i \in 1 .. Len(revs) : DOMAIN revs[i] = RevFields
    BY DEF NoteInv, Revisions
  <2> QED BY <1>3, <1>4, <2>1, <2>2, ChangedRows
<1> QED BY <1>1, <1>5, CutKeeps

LEMMA WorkKeeps ==
  ASSUME NoteInv, NEW t \in Note!Thread, UNCHANGED <<revs, held>>, NEW x, th' = [th EXCEPT ![t] = x],
         DOMAIN x = Fields, x.op # "none", x.pc \in {"flush", "apply", "stored", "look"}, t # Svc => x.op = "compact",
         x.op = "edit" /\ x.pc = "apply" => x.label = "pre-ai-edit",
         x.op = "edit" /\ x.label = "pre-ai-edit" => \A i \in x.upd.del : i[1] \in revs[held.rev].text
  PROVE  NoteInv'
<1>1. WellFormed(x) /\ Fits(x, revs')
  BY DEF WellFormed, Fits
<1>2. PlannedFrom(x, revs[held.rev].text)
  BY DEF PlannedFrom
<1>3. held'.rev \in 1 .. Len(revs')
  BY DEF NoteInv
<1> QED BY <1>1, <1>2, <1>3, SameRevs, NoteStep

LEMMA CallKeeps ==
  ASSUME NoteInv, UNCHANGED <<revs, held>>, NEW op \in {"read", "edit", "revert", "restore"}, NEW upd, Note!Call(op, upd),
         op = "edit" => \A i \in upd.del : i[1] \in revs[held.rev].text
  PROVE  NoteInv'
<1> DEFINE x == [Note!Work(op, "flush", Note!Labels[op]) EXCEPT !.upd = upd]
<1>1. th' = [th EXCEPT ![Svc] = x]
  BY DEF Note!Call
<1>2. DOMAIN x = Fields /\ x.op = op /\ x.pc = "flush" /\ x.upd = upd
  BY WorkFields DEF Fields
<1> HIDE DEF x
<1> QED BY <1>1, <1>2, WorkKeeps, NoteThreads

LEMMA CallsKeep ==
  ASSUME NoteInv, Note!ReadNote \/ Note!ProposeEdit \/ Note!RevertAiEdit \/ Note!Restore
  PROVE  NoteInv'
<1>1. UNCHANGED <<revs, held>>
  BY DEF Note!ReadNote, Note!ProposeEdit, Note!RevertAiEdit, Note!Restore, Note!Call, Note!store
<1>2. CASE Note!ReadNote \/ Note!RevertAiEdit \/ Note!Restore
  BY <1>1, <1>2, CallKeeps DEF Note!ReadNote, Note!RevertAiEdit, Note!Restore
<1>3. CASE Note!ProposeEdit
  <2>1. PICK text : Note!Call("edit", Note!OntoBase(text))
    BY <1>3 DEF Note!ProposeEdit
  <2>2. revs[held.rev].kept /\ Note!Text([ins |-> revs[held.rev].ins, del |-> revs[held.rev].del]) = revs[held.rev].text
    BY <1>3 DEF Note!ProposeEdit, NoteInv, Revisions
  <2>3. \A i \in Note!OntoBase(text).del : i[1] \in Note!Text([ins |-> revs[held.rev].ins, del |-> revs[held.rev].del])
    BY DEF Note!OntoBase, Note!Reconcile, Note!Plan, Note!State, Note!Text
  <2>4. PICK upd : upd = Note!OntoBase(text)
    OBVIOUS
  <2> QED BY <1>1, <2>1, <2>2, <2>3, <2>4, CallKeeps
<1> QED BY <1>2, <1>3

LEMMA CompactionKeeps ==
  ASSUME NoteInv, NEW t \in Compactor, Note!Compact(t) \/ Note!MaxSeq(t) \/ Note!Prune(t) \/ Note!Drop(t)
  PROVE  NoteInv'
<1>1. t \in Note!Thread
  BY NoteThreads
<1>2. CASE Note!Compact(t)
  <2> DEFINE x == Note!Work("compact", "flush", "compaction")
  <2>1. th' = [th EXCEPT ![t] = x] /\ UNCHANGED <<revs, held>>
    BY <1>2 DEF Note!Compact, Note!store
  <2>2. DOMAIN x = Fields /\ x.op = "compact" /\ x.pc = "flush"
    BY WorkFields
  <2> HIDE DEF x
  <2> QED BY <1>1, <2>1, <2>2, WorkKeeps
<1>3. CASE Note!MaxSeq(t)
  <2> DEFINE x == [th[t] EXCEPT !.pc = "capture", !.upto = seq]
  <2>1. th' = [th EXCEPT ![t] = x] /\ UNCHANGED <<revs, held>> /\ th[t].pc = "max"
    BY <1>3 DEF Note!MaxSeq, Note!store
  <2>2. /\ x.pc = "capture" /\ x.op = th[t].op /\ x.label = th[t].label /\ x.upd = th[t].upd /\ DOMAIN x = Fields /\ x.op # "none"
    BY <1>1, <2>1 DEF NoteInv, WellFormed, Fields
  <2> HIDE DEF x
  <2>3. WellFormed(x) /\ Fits(x, revs')
    BY <2>2 DEF WellFormed, Fits
  <2> QED BY <1>1, <2>1, <2>2, <2>3, SameRevs, NoteStep DEF NoteInv, PlannedFrom
<1>4. CASE Note!Prune(t)
  BY <1>1, <1>4, GotoKeeps DEF Note!Prune
<1>5. CASE Note!Drop(t)
  <2>1. /\ revs' = [r \in 1 .. Len(revs) |-> IF r \in Note!Dropped(t) THEN [revs[r] EXCEPT !.kept = FALSE] ELSE revs[r]]
        /\ th' = [th EXCEPT ![t] = Note!Idle] /\ held' = held
    BY <1>5 DEF Note!Drop
  <2>2. \A r \in 1 .. Len(revs) : DOMAIN revs[r] = RevFields
    BY DEF NoteInv, Revisions
  <2>3. \A r \in 1 .. Len(revs) :
          /\ DOMAIN revs'[r] = RevFields /\ revs'[r].text = revs[r].text /\ revs'[r].blocks = revs[r].blocks
          /\ revs'[r].ins = revs[r].ins /\ revs'[r].del = revs[r].del /\ (revs'[r].kept => revs[r].kept)
    BY <2>1, <2>2 DEF RevFields
  <2>4. revs' = [r \in 1 .. Len(revs) |-> revs'[r]]
    BY <2>1
  <2>5. Revisions(revs') /\ Longer(revs, revs') /\ Len(revs') = Len(revs)
    BY <2>3, <2>4, ChangedRows
  <2>6. Note!Idle.pc = "idle" /\ Note!Idle.op = "none"
    BY DEF Note!Idle
  <2>7. WellFormed(Note!Idle) /\ Fits(Note!Idle, revs') /\ PlannedFrom(Note!Idle, revs[held.rev].text)
    BY <2>6 DEF WellFormed, Fits, PlannedFrom
  <2>8. held'.rev \in 1 .. Len(revs')
    BY <2>1, <2>5 DEF NoteInv
  <2> QED BY <1>1, <2>1, <2>5, <2>6, <2>7, <2>8, NoteStep
<1> QED BY <1>2, <1>3, <1>4, <1>5

LEMMA FlushKeeps == ASSUME NoteInv, NEW t \in Note!Thread, Note!Flush(t) PROVE NoteInv'
<1>1. th[t].pc # "idle" /\ UNCHANGED <<revs, held>>
  BY DEF Note!Flush, Note!store
<1>2. PICK pc1 \in {"capture", "max", "look"} : Note!Goto(t, pc1)
  BY DEF Note!Flush
<1> QED BY <1>1, <1>2, GotoKeeps

LEMMA ReadKeeps == ASSUME NoteInv, Note!ReadBase PROVE NoteInv'
<1>1. th[Svc].op = "read" /\ th[Svc].pc = "look" /\ revs' = revs
  BY DEF Note!ReadBase, Note!store
<1>2. CASE Note!Goto(Svc, "capture") /\ UNCHANGED held
  BY <1>1, <1>2, GotoKeeps, NoteThreads
<1>3. CASE held' = [rev |-> Len(revs), text |-> Note!Text(doc)] /\ th' = [th EXCEPT ![Svc] = Note!Idle]
  <2>1. Note!Idle.pc = "idle" /\ Note!Idle.op = "none"
    BY DEF Note!Idle
  <2>2. WellFormed(Note!Idle) /\ Fits(Note!Idle, revs') /\ PlannedFrom(Note!Idle, revs[held.rev].text)
    BY <2>1 DEF WellFormed, Fits, PlannedFrom
  <2>3. held'.rev \in 1 .. Len(revs')
    BY <1>1, <1>3, RevisionsLen DEF NoteInv
  <2> QED BY <1>1, <1>3, <2>1, <2>2, <2>3, SameRevs, NoteStep, NoteThreads
<1> QED BY <1>2, <1>3 DEF Note!ReadBase

LEMMA WriteKeeps == ASSUME NoteInv, Note!Apply \/ Note!TakeBack \/ Note!PutBack PROVE NoteInv'
<1>1. /\ UNCHANGED <<revs, held>> /\ th[Svc].pc \in {"apply", "look"}
      /\ DOMAIN th[Svc] = Fields /\ th[Svc].op # "none"
  BY NoteThreads DEF Note!Apply, Note!TakeBack, Note!PutBack, Note!store, NoteInv, WellFormed
<1>2. CASE Note!Apply
  <2> DEFINE x == Note!Work(th[Svc].op, "stored", IF th[Svc].op = "edit" THEN "compaction" ELSE th[Svc].label)
  <2>1. th' = [th EXCEPT ![Svc] = x]
    BY <1>2 DEF Note!Apply
  <2>2. DOMAIN x = Fields /\ x.op = th[Svc].op /\ x.pc = "stored" /\ (x.op = "edit" => x.label = "compaction")
    BY WorkFields
  <2> HIDE DEF x
  <2> QED BY <1>1, <2>1, <2>2, WorkKeeps, NoteThreads
<1>3. ASSUME NEW upd, th' = [th EXCEPT ![Svc] = [th[Svc] EXCEPT !.pc = "apply", !.upd = upd]],
             th[Svc].op \in {"revert", "restore"}
      PROVE  NoteInv'
  <2> DEFINE x == [th[Svc] EXCEPT !.pc = "apply", !.upd = upd]
  <2>1. DOMAIN x = Fields /\ x.op = th[Svc].op /\ x.pc = "apply"
    BY <1>1 DEF Fields
  <2>2. th' = [th EXCEPT ![Svc] = x]
    BY <1>3
  <2> HIDE DEF x
  <2> QED BY <1>1, <1>3, <2>1, <2>2, WorkKeeps, NoteThreads
<1>4. CASE Note!TakeBack
  BY <1>3, <1>4 DEF Note!TakeBack
<1>5. CASE Note!PutBack
  BY <1>3, <1>5 DEF Note!PutBack
<1> QED BY <1>2, <1>4, <1>5

LEMMA TimeKeeps == ASSUME NoteInv, Note!Age \/ Note!Crash PROVE NoteInv'
<1>0. Note!Idle.pc = "idle" /\ Note!Idle.op = "none"
  BY DEF Note!Idle
<1>1. CASE Note!Crash
  <2>1. UNCHANGED <<revs, held>> /\ th' = [t \in Note!Thread |-> Note!Idle]
    BY <1>1 DEF Note!Crash, Note!store
  <2> QED BY <1>0, <2>1, NoteThreads DEF NoteInv, WellFormed, Fits, PlannedFrom
<1>2. CASE Note!Age
  <2>1. /\ revs' = [r \in 1 .. Len(revs) |-> [revs[r] EXCEPT !.old = TRUE]] /\ UNCHANGED <<th, held>>
        /\ \A t \in Note!Thread : th[t] = Note!Idle
    BY <1>2 DEF Note!Age
  <2>2. \A r \in 1 .. Len(revs) : DOMAIN revs[r] = RevFields
    BY DEF NoteInv, Revisions
  <2>3. \A r \in 1 .. Len(revs) :
          /\ DOMAIN revs'[r] = RevFields /\ revs'[r].text = revs[r].text /\ revs'[r].blocks = revs[r].blocks
          /\ revs'[r].ins = revs[r].ins /\ revs'[r].del = revs[r].del /\ (revs'[r].kept => revs[r].kept)
    BY <2>1, <2>2 DEF RevFields
  <2>4. revs' = [r \in 1 .. Len(revs) |-> revs'[r]]
    BY <2>1
  <2>5. Revisions(revs') /\ Longer(revs, revs') /\ Len(revs') = Len(revs)
    BY <2>3, <2>4, ChangedRows
  <2> QED BY <1>0, <2>1, <2>5, NoteThreads DEF NoteInv, WellFormed, Fits, PlannedFrom
<1> QED BY <1>1, <1>2

LEMMA NoteNext == NoteInv /\ [Note!Next]_noteVars => NoteInv'
<1> SUFFICES ASSUME NoteInv, [Note!Next]_noteVars PROVE NoteInv'
  OBVIOUS
<1>1. CASE UNCHANGED <<revs, th, held>>
  BY <1>1 DEF NoteInv
<1>2. CASE Note!Type \/ Note!Persist
  BY <1>1, <1>2 DEF Note!Type, Note!Persist, Note!store
<1>3. CASE Note!Next
  BY <1>2, <1>3, CallsKeep, ReadKeeps, WriteKeeps, TimeKeeps, CompactionKeeps, CaptureKeeps, InsertKeeps, LabelKeeps,
     UpgradeKeeps, FlushKeeps DEF Note!Next, Note!Cutting
<1> QED BY <1>1, <1>3 DEF noteVars

\* What the merged edit takes out of the text stood in the text that was read.
LEMMA EditTakesOut ==
  ASSUME NoteInv, [Note!Next]_noteVars, th[Svc].op = "edit", th[Svc].pc = "apply", th'[Svc].pc = "stored",
         held.text = revs[held.rev].text
  PROVE  Note!Text(doc) \ Note!Text(doc') \subseteq held.text
<1>1. CASE doc' = doc
  BY <1>1
<1>2. CASE doc' # doc
  <2>1. ~Note!Type
    BY DEF Note!Type
  <2>2. ~Note!Crash
    BY NoteThreads DEF Note!Crash, Note!Idle
  <2>3. Note!Apply
    BY <1>2, <2>1, <2>2 DEF Note!Next, noteVars, Note!Cutting, Note!Persist, Note!ReadNote, Note!ReadBase, Note!ProposeEdit,
       Note!RevertAiEdit, Note!TakeBack, Note!Restore, Note!PutBack, Note!Age, Note!Compact, Note!MaxSeq, Note!Prune, Note!Drop,
       Note!Capture, Note!Before, Note!Latest, Note!Insert, Note!Label, Note!Upgrade, Note!Flush, Note!Call
  <2>4. doc' = Note!Merge(doc, th[Svc].upd)
    BY <2>3 DEF Note!Apply, Note!Update
  <2>5. \A i \in th[Svc].upd.del : i[1] \in held.text
    BY DEF NoteInv, PlannedFrom
  <2> QED BY <2>4, <2>5 DEF Note!Text, Note!Merge
<1> QED BY <1>1, <1>2

-------------------------------------------------------------------------------
(***************************************************************************)
(* What a restart loads.  The last revision has its state, and with the log *)
(* and what is on its way to it that state makes up the document; so does   *)
(* every snapshot that is about to become one.  What is old enough to be    *)
(* pruned is in every snapshot, as a snapshot is not cut for longer than    *)
(* the window, and where a thread prunes it is in the last revision: where  *)
(* no row was added or brought up to date, the row has the items of the     *)
(* snapshot and its text, and so the same deletions.                        *)
(***************************************************************************)
Part(d, e) == d.ins \subseteq e.ins /\ d.del \subseteq e.del
DocOf(d) == [ins |-> d.ins, del |-> d.del]

Log == Note!Fold({u.upd : u \in updates})
Way == Note!Fold({chain[i] : i \in 1 .. Len(chain)})
Aged == Note!Fold({u.upd : u \in {v \in updates : v.old}})

\* With the log and what is on its way to it, d makes up the document.
Behind(d) == Part(doc, Note!Merge(d, Note!Merge(Log, Way)))
Sound(d) == Part(d, doc) /\ d.del \subseteq d.ins

Snapping == {"before", "latest", "insert", "label", "upgrade"}
StateIn(rv, r) == [ins |-> rv[r].ins, del |-> rv[r].del]
States == {StateIn(revs, r) : r \in 1 .. Len(revs)} \cup {DocOf(th[t].snap) : t \in {u \in Note!Thread : th[u].pc \in Snapping}}

DocInv ==
  /\ doc = DocOf(doc) /\ doc.del \subseteq doc.ins /\ IsFiniteSet(doc.ins)
  /\ \A u \in updates : DOMAIN u = {"seq", "upd", "old"} /\ Part(u.upd, doc)
  /\ \E S : chain \in Seq(S)
  /\ \A i \in 1 .. Len(chain) : Part(chain[i], doc)

\* The states of a document are the earlier and the later ones.
StateInv ==
  /\ \A d \in States : Sound(d)
  /\ \A d, e \in States : Part(d, e) \/ Part(e, d)

RowsInv ==
  /\ Len(revs) >= 1 /\ revs[Len(revs)].kept /\ Behind(StateIn(revs, Len(revs)))
  /\ \A r \in 1 .. Len(revs) : IsFiniteSet(revs[r].text) /\ revs[r].blocks = Note!Blocks(StateIn(revs, r))

\* The last edit has its revision.
EditIn(rv) == DOMAIN edit = {"pre", "since"} /\ edit.pre \in 1 .. Len(rv)
ReadInv ==
  /\ IsFiniteSet(held.text)
  /\ edit # None => EditIn(revs)

Planned(u) == u.del \subseteq doc.ins /\ IsFiniteSet(u.ins)

\* What a thread has found out and remembers still holds.
Stands(x, rv) ==
  /\ x.pc # "idle" => Planned(x.upd)
  /\ x.op = "revert" => EditIn(rv)
  /\ x.pc \in Snapping => Behind(x.snap) /\ Part(Aged, x.snap)
  /\ x.pc \in Snapping \ {"before"} =>
       x.rev \in 1 .. Len(rv) /\ \A r \in x.rev + 1 .. Len(rv) : Part(Aged, StateIn(rv, r))
  /\ x.pc \in {"insert", "label", "upgrade"} => x.head \in x.rev .. Len(rv)
  /\ x.pc \in {"label", "upgrade"} => rv[x.head].blocks = Note!Blocks(x.snap)
  /\ x.pc = "upgrade" => x.head = x.rev
  /\ x.pc = "prune" => Part(Aged, StateIn(rv, Len(rv)))
  /\ x.pc \in {"prune", "drop"} \/ (x.pc = "apply" /\ x.op = "edit") => x.rev \in 1 .. Len(rv)

LoadInv ==
  /\ DocInv /\ StateInv /\ RowsInv /\ ReadInv
  /\ \A t \in Note!Thread : Stands(th[t], revs)

\* --------------------------------------------------- documents and their texts
LEMMA PartOf ==
  /\ \A d : Part(d, d) /\ Part(DocOf(d), d) /\ Part(d, DocOf(d))
  /\ \A d, e, f : Part(d, e) /\ Part(e, f) => Part(d, f)
BY DEF Part, DocOf

LEMMA FoldParts ==
  ASSUME NEW S, NEW d
  PROVE  /\ (\A u \in S : Part(u, d)) => Part(Note!Fold(S), d)
         /\ \A u \in S : Part(u, Note!Fold(S))
BY DEF Part, Note!Fold

LEMMA SameBlocks == ASSUME NEW d, NEW e, d.ins = e.ins, d.del = e.del PROVE Note!Blocks(d) = Note!Blocks(e)
BY DEF Note!Blocks, Note!Text

LEMMA TextFinite == ASSUME NEW d, IsFiniteSet(d.ins) PROVE IsFiniteSet(Note!Text(d))
<1> DEFINE L == d.ins \ d.del
<1>1. IsFiniteSet(L)
  BY FS_Subset
<1>2. Note!Text(d) = {i[1] : i \in L}
  BY DEF Note!Text
<1> HIDE DEF L
<1>3. IsFiniteSet({i[1] : i \in L})
  <2> DEFINE f == [i \in L |-> i[1]]
  <2>1. f \in Surjection(L, {i[1] : i \in L})
    BY DEF Surjection
  <2> HIDE DEF f
  <2> QED BY <1>1, <2>1, FS_Surjection
<1> QED BY <1>2, <1>3

LEMMA CopiesFinite == ASSUME NEW S, IsFiniteSet(S) PROVE IsFiniteSet(Note!Copies(S))
<1> DEFINE n(w) == 1 + Note!Cardinality({i \in doc.ins : i[1] = w})
<1> DEFINE f == [w \in S |-> <<w, n(w)>>]
<1>1. Note!Copies(S) = {<<w, n(w)>> : w \in S}
  BY DEF Note!Copies
<1>2. f \in Surjection(S, {<<w, n(w)>> : w \in S})
  BY DEF Surjection
<1> HIDE DEF f
<1>3. IsFiniteSet({<<w, n(w)>> : w \in S})
  BY <1>2, FS_Surjection
<1> QED BY <1>1, <1>3

LEMMA BlocksCount ==
  ASSUME NEW c, NEW w, NEW k
  PROVE  <<w, k>> \in Note!Blocks(c) <=> w \in Note!Text(c) /\ k = Note!Cardinality({i \in c.ins \ c.del : i[1] = w})
<1> DEFINE n(v) == Note!Cardinality({i \in c.ins \ c.del : i[1] = v})
<1>1. ASSUME NEW v, NEW m, <<w, k>> = <<v, m>> PROVE w = v /\ k = m
  BY <1>1
<1>2. <<w, k>> \in Note!Blocks(c) <=> \E v \in Note!Text(c) : <<w, k>> = <<v, n(v)>>
  BY Zenon DEF Note!Blocks
<1>3. ASSUME NEW v, <<w, k>> = <<v, n(v)>> PROVE w = v /\ k = n(w)
  <2> HIDE DEF n
  <2> QED BY Zenon, <1>1, <1>3
<1> HIDE DEF n
<1>4. <<w, k>> \in Note!Blocks(c) <=> w \in Note!Text(c) /\ k = n(w)
  BY Zenon, <1>2, <1>3
<1> QED BY <1>4 DEF n

\* Of two states with the same items, one of them earlier, the text tells the deletions apart.
LEMMA SameDeletions ==
  ASSUME NEW d, NEW e, d.ins = e.ins, IsFiniteSet(d.ins), d.del \subseteq d.ins, e.del \subseteq d.ins,
         d.del \subseteq e.del, Note!Blocks(d) = Note!Blocks(e)
  PROVE  d.del = e.del
<1> SUFFICES ASSUME NEW j \in e.del, j \notin d.del PROVE FALSE
  OBVIOUS
<1>1. PICK w : w = j[1]
  OBVIOUS
<1> DEFINE D == {i \in d.ins \ d.del : i[1] = w}
<1> DEFINE F == {i \in e.ins \ e.del : i[1] = w}
<1>2. F \subseteq D /\ j \in D /\ j \notin F
  BY <1>1
<1>3. IsFiniteSet(D)
  <2>1. D \subseteq d.ins
    OBVIOUS
  <2> HIDE DEF D
  <2> QED BY <2>1, FS_Subset
<1>4. Note!Cardinality(D) = Note!Cardinality(F)
  <2>1. w \in Note!Text(d)
    BY <1>1, <1>2 DEF Note!Text
  <2>2. ASSUME NEW k
        PROVE  /\ <<w, k>> \in Note!Blocks(d) <=> k = Note!Cardinality(D)
               /\ <<w, k>> \in Note!Blocks(e) => k = Note!Cardinality(F)
    <3>1. <<w, k>> \in Note!Blocks(d) <=> w \in Note!Text(d) /\ k = Note!Cardinality({i \in d.ins \ d.del : i[1] = w})
      BY BlocksCount
    <3>2. <<w, k>> \in Note!Blocks(e) <=> w \in Note!Text(e) /\ k = Note!Cardinality({i \in e.ins \ e.del : i[1] = w})
      BY BlocksCount
    <3> QED BY <2>1, <3>1, <3>2
  <2> HIDE DEF D, F
  <2>3. PICK k : k = Note!Cardinality(D)
    OBVIOUS
  <2>4. <<w, k>> \in Note!Blocks(e)
    BY <2>2, <2>3
  <2> QED BY <2>2, <2>3, <2>4
<1>5. Note!Cardinality(D) = Cardinality(D) /\ Note!Cardinality(F) = Cardinality(F)
  BY DEF Note!Cardinality, Cardinality
<1> HIDE DEF D, F
<1> QED BY <1>2, <1>3, <1>4, <1>5, FS_Subset

LEMMA LoadInit == Note!Init => LoadInv
<1> SUFFICES ASSUME Note!Init PROVE LoadInv
  OBVIOUS
<1> DEFINE i0 == <<Note!First, 1>>
<1>1. /\ doc = [ins |-> {i0}, del |-> {}] /\ chain = <<>> /\ updates = {[seq |-> 1, upd |-> doc, old |-> FALSE]}
      /\ Len(revs) = 1 /\ revs[1].ins = doc.ins /\ revs[1].del = {} /\ revs[1].kept = TRUE
      /\ revs[1].text = Note!Text(doc) /\ revs[1].blocks = Note!Blocks(doc)
      /\ th = [t \in Note!Thread |-> Note!Idle] /\ held.text = {Note!First} /\ edit = None
  BY DEF Note!Init
<1>2. IsFiniteSet({i0}) /\ IsFiniteSet({Note!First})
  BY FS_Singleton
<1> HIDE DEF i0
<1>3. Note!Idle.pc = "idle" /\ Note!Idle.op = "none"
  BY DEF Note!Idle
<1>4. doc.ins = {i0} /\ doc.del = {} /\ doc = DocOf(doc) /\ StateIn(revs, 1) = doc
  BY <1>1 DEF DocOf, StateIn
<1>5. DocInv
  <2>1. \E S : chain \in Seq(S)
    BY <1>1
  <2> QED BY <1>1, <1>2, <1>4, <2>1 DEF DocInv, Part
<1>6. \A r \in 1 .. Len(revs) : r = 1
  BY <1>1
<1>7. \A d \in States : d = doc
  <2>1. \A u \in Note!Thread : th[u].pc \notin Snapping
    BY <1>1, <1>3 DEF Snapping
  <2> QED BY <1>4, <1>6, <2>1 DEF States
<1>8. StateInv
  BY <1>4, <1>7 DEF StateInv, Sound, Part
<1>9. Behind(doc)
  BY DEF Behind, Part, Note!Merge
<1>10. IsFiniteSet(Note!Text(doc))
  BY <1>2, <1>4, TextFinite
<1>11. RowsInv
  <2>0. Len(revs) = 1 /\ StateIn(revs, 1) = doc
    BY <1>1, <1>4
  <2>1. Len(revs) >= 1 /\ revs[Len(revs)].kept /\ Behind(StateIn(revs, Len(revs)))
    <3>1. Behind(StateIn(revs, 1))
      BY <1>9, <2>0 DEF Behind
    <3> QED BY <1>1, <2>0, <3>1
  <2>2. revs[1].blocks = Note!Blocks(StateIn(revs, 1))
    <3>1. revs[1].blocks = Note!Blocks(doc)
      BY <1>1
    <3>2. Note!Blocks(doc) = Note!Blocks(StateIn(revs, 1))
      BY <1>4, SameBlocks DEF StateIn
    <3> QED BY Zenon, <3>1, <3>2
  <2>3. revs[1].text = Note!Text(doc) /\ IsFiniteSet(revs[1].text)
    BY <1>1, <1>10
  <2> QED BY <1>6, <2>1, <2>2, <2>3 DEF RowsInv
<1>12. ReadInv
  BY <1>1, <1>2 DEF ReadInv
<1>13. \A t \in Note!Thread : Stands(th[t], revs)
  BY <1>1, <1>3 DEF Stands, Snapping
<1> QED BY <1>5, <1>8, <1>11, <1>12, <1>13 DEF LoadInv

\* ------------------------------------------------------------------ one step
\* A thread moves, and the document and its log stay: rows keep their states, or get the thread's snapshot.
LEMMA StepLoads ==
  ASSUME NoteInv, LoadInv, UNCHANGED <<doc, chain, updates, edit>>,
         NEW t \in Note!Thread, NEW x, th' = [th EXCEPT ![t] = x],
         Len(revs) <= Len(revs'), Len(revs') \in Nat, revs'[Len(revs')].kept,
         \A r \in 1 .. Len(revs') :
           \/ /\ r \in 1 .. Len(revs) /\ revs'[r].text = revs[r].text /\ revs'[r].blocks = revs[r].blocks
              /\ StateIn(revs', r) = StateIn(revs, r)
           \/ /\ th[t].pc \in {"insert", "upgrade"} /\ StateIn(revs', r) = DocOf(th[t].snap)
              /\ IsFiniteSet(revs'[r].text) /\ revs'[r].blocks = Note!Blocks(th[t].snap)
              /\ r \in 1 .. Len(revs) => revs'[r].blocks = revs[r].blocks,
         Stands(x, revs'), IsFiniteSet(held'.text),
         x.pc \in Snapping => x.snap = doc \/ (th[t].pc \in Snapping /\ x.snap = th[t].snap)
  PROVE  LoadInv'
<1>1. /\ Len(revs) \in Nat /\ DOMAIN th = Note!Thread
  BY RevisionsLen DEF NoteInv
<1>2. th'[t] = x /\ \A u \in Note!Thread \ {t} : th'[u] = th[u]
  BY <1>1
<1>3. th[t].pc \in Snapping => Behind(th[t].snap) /\ Part(Aged, th[t].snap)
  BY DEF LoadInv, Stands
<1>4. Behind(th[t].snap) <=> Behind(DocOf(th[t].snap))
  BY DEF Behind, Part, DocOf, Note!Merge
<1>5. \A r \in 1 .. Len(revs') :
        \/ r \in 1 .. Len(revs) /\ StateIn(revs', r) = StateIn(revs, r)
        \/ /\ Behind(StateIn(revs', r)) /\ Part(Aged, StateIn(revs', r)) /\ DocOf(th[t].snap) \in States
           /\ StateIn(revs', r) = DocOf(th[t].snap)
  BY <1>3, <1>4 DEF States, Snapping, Part, DocOf
<1>6. DocInv' /\ ReadInv' /\ (\A d : Behind(d)' <=> Behind(d)) /\ Aged' = Aged
  BY <1>1 DEF LoadInv, DocInv, ReadInv, EditIn, Behind, Log, Way, Aged
<1>7. \A d \in States' : d \in States \/ d = DocOf(doc)
  <2>1. \A r \in 1 .. Len(revs') : StateIn(revs', r) \in States
    BY <1>5 DEF States
  <2>2. \A u \in Note!Thread : th'[u].pc \in Snapping => DocOf(th'[u].snap) \in States \cup {DocOf(doc)}
    BY <1>2 DEF States
  <2> QED BY <2>1, <2>2 DEF States
<1>8. \A d \in States : Sound(d) /\ Part(d, DocOf(doc))
  BY DEF LoadInv, StateInv, Sound, Part, DocOf
<1>9. StateInv'
  <2>1. \A d \in States' : Sound(d)
    BY <1>7, <1>8 DEF LoadInv, DocInv, Sound, Part, DocOf
  <2>2. ASSUME NEW d \in States', NEW e \in States' PROVE Part(d, e) \/ Part(e, d)
    BY <1>7, <1>8, PartOf DEF LoadInv, StateInv
  <2>3. \A d : Sound(d)' <=> Sound(d)
    BY DEF Sound
  <2> QED BY <2>1, <2>2, <2>3 DEF StateInv
<1>10. RowsInv'
  <2>1. Len(revs') >= 1 /\ Len(revs') \in 1 .. Len(revs')
    BY <1>1 DEF LoadInv, RowsInv
  <2>2. Behind(StateIn(revs', Len(revs')))
    <3>1. CASE StateIn(revs', Len(revs')) = StateIn(revs, Len(revs')) /\ Len(revs') \in 1 .. Len(revs)
      <4>1. Len(revs') = Len(revs)
        BY <1>1, <3>1
      <4> QED BY <3>1, <4>1 DEF LoadInv, RowsInv
    <3> QED BY <1>5, <2>1, <3>1
  <2>3. \A r \in 1 .. Len(revs') : IsFiniteSet(revs'[r].text) /\ revs'[r].blocks = Note!Blocks(StateIn(revs', r))
    <3> SUFFICES ASSUME NEW r \in 1 .. Len(revs')
                 PROVE  IsFiniteSet(revs'[r].text) /\ revs'[r].blocks = Note!Blocks(StateIn(revs', r))
      OBVIOUS
    <3>1. Note!Blocks(DocOf(th[t].snap)) = Note!Blocks(th[t].snap)
      BY SameBlocks DEF DocOf
    <3> QED BY <3>1 DEF LoadInv, RowsInv
  <2> QED BY <1>6, <2>1, <2>2, <2>3 DEF RowsInv
<1>11. \A u \in Note!Thread : Stands(th'[u], revs')
  <2> SUFFICES ASSUME NEW u \in Note!Thread, u # t PROVE Stands(th[u], revs')
    BY <1>2
  <2>1. Stands(th[u], revs) /\ Fits(th[u], revs)
    BY DEF LoadInv, NoteInv
  <2>2. \A r \in 1 .. Len(revs') : Part(Aged, StateIn(revs', r)) \/ (r \in 1 .. Len(revs) /\ StateIn(revs', r) = StateIn(revs, r))
    BY <1>5
  <2>3. th[u].pc = "prune" => Part(Aged, StateIn(revs', Len(revs')))
    <3>1. Len(revs') \in 1 .. Len(revs')
      BY <1>1 DEF LoadInv, RowsInv
    <3>2. Len(revs') \in 1 .. Len(revs) => Len(revs') = Len(revs)
      BY <1>1
    <3> QED BY <2>1, <2>2, <3>1, <3>2 DEF Stands
  <2>4. \A r \in 1 .. Len(revs) : revs'[r].blocks = revs[r].blocks
    BY <1>1
  <2>5. th[u].pc \in {"insert", "label", "upgrade"} => th[u].head \in 1 .. Len(revs)
    BY <2>1 DEF Fits
  <2>6. /\ th[u].pc \in {"insert", "label", "upgrade"} => th[u].head \in th[u].rev .. Len(revs')
        /\ th[u].pc \in {"label", "upgrade"} => revs'[th[u].head].blocks = Note!Blocks(th[u].snap)
    BY <1>1, <2>1, <2>4, <2>5 DEF Stands, Snapping
  <2>7. th[u].pc \in Snapping \ {"before"} =>
          th[u].rev \in 1 .. Len(revs') /\ \A r \in th[u].rev + 1 .. Len(revs') : Part(Aged, StateIn(revs', r))
    <3> SUFFICES ASSUME th[u].pc \in Snapping \ {"before"}
                 PROVE  th[u].rev \in 1 .. Len(revs') /\ \A r \in th[u].rev + 1 .. Len(revs') : Part(Aged, StateIn(revs', r))
      OBVIOUS
    <3>1. th[u].rev \in 1 .. Len(revs) /\ \A r \in th[u].rev + 1 .. Len(revs) : Part(Aged, StateIn(revs, r))
      BY <2>1 DEF Stands
    <3>2. ASSUME NEW r \in th[u].rev + 1 .. Len(revs') PROVE Part(Aged, StateIn(revs', r))
      <4>1. r \in 1 .. Len(revs')
        BY <1>1, <3>1
      <4>2. r \in 1 .. Len(revs) => r \in th[u].rev + 1 .. Len(revs)
        BY <1>1, <3>1
      <4> QED BY <2>2, <3>1, <4>1, <4>2
    <3> QED BY <1>1, <3>1, <3>2
  <2>8. th[u].pc \in {"prune", "drop"} \/ (th[u].pc = "apply" /\ th[u].op = "edit") => th[u].rev \in 1 .. Len(revs')
    BY <1>1, <2>1 DEF Stands
  <2>9. EditIn(revs) => EditIn(revs')
    BY <1>1 DEF EditIn
  <2> QED BY <2>1, <2>3, <2>6, <2>7, <2>8, <2>9 DEF Stands
<1>12. \A u \in Note!Thread : Stands(th[u], revs)'
  <2> SUFFICES ASSUME NEW u \in Note!Thread PROVE Stands(th[u], revs)'
    OBVIOUS
  <2>1. Stands(th'[u], revs')
    BY <1>11
  <2> QED BY <1>6, <2>1 DEF Stands, Planned, EditIn
<1> QED BY <1>6, <1>9, <1>10, <1>12 DEF LoadInv

\* The rows stay.
LEMMA MoveLoads ==
  ASSUME NoteInv, LoadInv, UNCHANGED <<doc, chain, updates, revs, edit>>,
         NEW t \in Note!Thread, NEW x, th' = [th EXCEPT ![t] = x], Stands(x, revs), IsFiniteSet(held'.text),
         x.pc \in Snapping => x.snap = doc \/ (th[t].pc \in Snapping /\ x.snap = th[t].snap)
  PROVE  LoadInv'
<1>1. Len(revs') \in Nat /\ Len(revs) <= Len(revs') /\ revs'[Len(revs')].kept
  BY RevisionsLen DEF NoteInv, LoadInv, RowsInv
<1>2. \A r \in 1 .. Len(revs') : /\ r \in 1 .. Len(revs) /\ revs'[r].text = revs[r].text /\ revs'[r].blocks = revs[r].blocks
                                 /\ StateIn(revs', r) = StateIn(revs, r)
  BY DEF StateIn
<1>3. Stands(x, revs')
  OBVIOUS
<1> QED BY <1>1, <1>2, <1>3, StepLoads

LEMMA HeldFinite == ASSUME LoadInv PROVE IsFiniteSet(held.text)
BY DEF LoadInv, ReadInv

LEMMA SnapSound ==
  ASSUME LoadInv, NEW t \in Note!Thread, th[t].pc \in Snapping
  PROVE  Sound(th[t].snap) /\ DocOf(th[t].snap) \in States /\ IsFiniteSet(Note!Text(th[t].snap))
<1>1. DocOf(th[t].snap) \in States
  BY DEF States
<1>2. Sound(th[t].snap)
  BY <1>1 DEF LoadInv, StateInv, Sound, Part, DocOf
<1>3. IsFiniteSet(th[t].snap.ins)
  BY <1>2, FS_Subset DEF LoadInv, DocInv, Sound, Part
<1> QED BY <1>1, <1>2, <1>3, TextFinite

LEMMA AgedInDoc == ASSUME LoadInv PROVE Part(Aged, doc) /\ Part(Log, doc) /\ Part(Way, doc) /\ Behind(doc)
<1>1. \A u \in updates : Part(u.upd, doc)
  BY DEF LoadInv, DocInv
<1>2. \A u \in {v.upd : v \in updates} : Part(u, doc)
  BY <1>1
<1>3. \A u \in {v.upd : v \in {w \in updates : w.old}} : Part(u, doc)
  BY <1>1
<1>4. \A u \in {chain[i] : i \in 1 .. Len(chain)} : Part(u, doc)
  BY DEF LoadInv, DocInv
<1>5. Behind(doc)
  BY DEF Behind, Part, Note!Merge
<1> QED BY <1>2, <1>3, <1>4, <1>5, FoldParts DEF Aged, Log, Way

\* To a step at which nothing but the planned update is remembered.
LEMMA GotoLoads ==
  ASSUME NoteInv, LoadInv, UNCHANGED <<doc, chain, updates, revs, edit, held>>, NEW t \in Note!Thread, th[t].pc # "idle",
         NEW x, th' = [th EXCEPT ![t] = x], x.upd = th[t].upd, x.op = th[t].op, x.pc \in {"look", "capture", "max"}
  PROVE  LoadInv'
<1>1. Stands(x, revs)
  BY DEF LoadInv, Stands, Snapping
<1>2. x.pc \notin Snapping
  BY DEF Snapping
<1> QED BY <1>1, <1>2, HeldFinite, MoveLoads

LEMMA IdleLoads ==
  ASSUME NoteInv, LoadInv, UNCHANGED <<doc, chain, updates, revs, edit>>, NEW t \in Note!Thread,
         th' = [th EXCEPT ![t] = Note!Idle], IsFiniteSet(held'.text)
  PROVE  LoadInv'
<1>1. Note!Idle.pc = "idle" /\ Note!Idle.op = "none"
  BY DEF Note!Idle
<1>2. Stands(Note!Idle, revs) /\ Note!Idle.pc \notin Snapping
  BY <1>1 DEF Stands, Snapping
<1> QED BY <1>2, MoveLoads

LEMMA CaptureLoads ==
  ASSUME NoteInv, LoadInv, NEW t \in Note!Thread, Note!Capture(t) \/ Note!Before(t) \/ Note!Latest(t)
  PROVE  LoadInv'
<1>1. /\ UNCHANGED <<doc, chain, updates, revs, edit, held>> /\ DOMAIN th[t] = Fields /\ Stands(th[t], revs)
      /\ th[t].pc # "idle" /\ IsFiniteSet(held'.text)
  BY HeldFinite DEF Note!Capture, Note!Before, Note!Latest, Note!store, NoteInv, WellFormed, LoadInv
<1>2. Len(revs) \in 1 .. Len(revs)
  BY RevisionsLen DEF NoteInv, LoadInv, RowsInv
<1>3. CASE Note!Capture(t)
  <2> DEFINE x == [th[t] EXCEPT !.pc = "before", !.snap = doc]
  <2>1. th' = [th EXCEPT ![t] = x]
    BY <1>3 DEF Note!Capture
  <2>2. x.pc = "before" /\ x.snap = doc /\ x.upd = th[t].upd /\ x.op = th[t].op
    BY <1>1 DEF Fields
  <2> HIDE DEF x
  <2>3. Stands(x, revs)
    BY <1>1, <2>2, AgedInDoc DEF Stands, Snapping
  <2> QED BY <1>1, <2>1, <2>2, <2>3, MoveLoads
<1>4. CASE Note!Before(t)
  <2> DEFINE x == [th[t] EXCEPT !.pc = "latest", !.rev = Len(revs)]
  <2>1. th' = [th EXCEPT ![t] = x] /\ th[t].pc = "before"
    BY <1>4 DEF Note!Before
  <2>2. x.pc = "latest" /\ x.snap = th[t].snap /\ x.upd = th[t].upd /\ x.op = th[t].op /\ x.rev = Len(revs)
    BY <1>1 DEF Fields
  <2> HIDE DEF x
  <2>3. \A r \in x.rev + 1 .. Len(revs) : FALSE
    BY <1>2, <2>2
  <2>4. Stands(x, revs)
    BY <1>1, <1>2, <2>1, <2>2, <2>3 DEF Stands, Snapping
  <2>5. th[t].pc \in Snapping
    BY <2>1 DEF Snapping
  <2> QED BY <1>1, <2>1, <2>2, <2>4, <2>5, MoveLoads
<1>5. CASE Note!Latest(t)
  <2> DEFINE pc1 == IF revs[Len(revs)].blocks = Note!Blocks(th[t].snap) THEN "label" ELSE "insert"
  <2> DEFINE x == [th[t] EXCEPT !.pc = pc1, !.head = Len(revs)]
  <2>1. th' = [th EXCEPT ![t] = x] /\ th[t].pc = "latest"
    BY <1>5 DEF Note!Latest
  <2>2. x.pc = pc1 /\ x.snap = th[t].snap /\ x.upd = th[t].upd /\ x.op = th[t].op /\ x.rev = th[t].rev /\ x.head = Len(revs)
    BY <1>1 DEF Fields
  <2> HIDE DEF x
  <2>3. th[t].rev \in 1 .. Len(revs)
    BY <1>1, <2>1 DEF Stands, Snapping
  <2>4. x.head \in x.rev .. Len(revs)
    BY <1>2, <2>2, <2>3
  <2>5. th[t].pc \in Snapping \ {"before"}
    BY <2>1 DEF Snapping
  <2>6. x.pc \in {"label", "insert"} /\ (x.pc = "label" => revs[x.head].blocks = Note!Blocks(x.snap))
    BY <2>2
  <2>7. Stands(x, revs)
    BY <1>1, <2>2, <2>4, <2>5, <2>6 DEF Stands, Snapping
  <2> QED BY <1>1, <2>1, <2>2, <2>5, <2>7, MoveLoads
<1> QED BY <1>3, <1>4, <1>5

\* A revision is cut: what is old enough to be pruned is in the last one.
LEMMA CutStands ==
  ASSUME NoteInv, LoadInv, NEW t \in Note!Thread, th[t].pc \in Snapping, NEW r \in 1 .. Len(revs'), Note!Cut(t, r),
         UNCHANGED edit, Len(revs) \in Nat, Len(revs') \in Nat, Len(revs) <= Len(revs'), Part(Aged, StateIn(revs', Len(revs')))
  PROVE  \E x : /\ th' = [th EXCEPT ![t] = x] /\ Stands(x, revs') /\ x.pc \notin Snapping
                /\ IsFiniteSet(held'.text)
<1> DEFINE x == Note!Then(t, r)
<1>1. th' = [th EXCEPT ![t] = x]
  BY DEF Note!Cut
<1>2. DOMAIN th[t] = Fields /\ th[t].op # "none" /\ Planned(th[t].upd)
  BY DEF NoteInv, WellFormed, LoadInv, Stands, Snapping
<1>3. Note!Idle.pc = "idle" /\ Note!Idle.op = "none"
  BY DEF Note!Idle
<1>4. \/ x = Note!Idle
      \/ x.rev = r /\ x.upd = th[t].upd /\ x.op = th[t].op /\ x.pc \in {"prune", "apply"}
  BY <1>2 DEF Note!Then, Fields
<1> HIDE DEF x
<1>5. EditIn(revs) => EditIn(revs')
  BY DEF EditIn
<1>6. Stands(x, revs') /\ x.pc \notin Snapping
  BY <1>2, <1>3, <1>4, <1>5 DEF LoadInv, Stands, Snapping
<1>7. IsFiniteSet(held'.text)
  <2>1. held' = held \/ held' = [rev |-> r, text |-> Note!Text(th[t].snap)]
    BY DEF Note!Cut, Note!Holds
  <2> QED BY <2>1, HeldFinite, SnapSound
<1> QED BY <1>1, <1>6, <1>7

LEMMA InsertLoads == ASSUME NoteInv, LoadInv, NEW t \in Note!Thread, Note!Insert(t) PROVE LoadInv'
<1>1. UNCHANGED <<doc, chain, updates, edit>> /\ th[t].pc = "insert" /\ th[t].pc \in Snapping /\ Stands(th[t], revs)
  BY DEF Note!Insert, Snapping, LoadInv
<1>2. CASE th' = [th EXCEPT ![t] = Note!Idle] /\ UNCHANGED <<revs, held>>
  BY <1>1, <1>2, IdleLoads, HeldFinite
<1>3. CASE ~(th' = [th EXCEPT ![t] = Note!Idle] /\ UNCHANGED <<revs, held>>)
  <2> DEFINE s == th[t].snap
  <2> DEFINE row1 == [ins |-> s.ins, del |-> s.del, kept |-> TRUE, text |-> Note!Text(s), blocks |-> Note!Blocks(s),
                      labels |-> {th[t].label}, by |-> IF th[t].op = "compact" THEN "compaction" ELSE "other", old |-> FALSE]
  <2>1. revs' = Append(revs, row1) /\ Note!Cut(t, Len(revs'))
    BY <1>3 DEF Note!Insert
  <2>2. /\ row1.ins = s.ins /\ row1.del = s.del /\ row1.kept = TRUE /\ row1.text = Note!Text(s) /\ row1.blocks = Note!Blocks(s)
    OBVIOUS
  <2> HIDE DEF row1
  <2>3. PICK S : revs \in Seq(S)
    BY DEF NoteInv, Revisions
  <2>4. /\ Len(revs) \in Nat /\ Len(revs') = Len(revs) + 1 /\ revs'[Len(revs) + 1] = row1
        /\ \A i \in 1 .. Len(revs) : revs'[i] = revs[i]
    <3>1. revs \in Seq(S \cup {row1})
      BY <2>3
    <3> QED BY <2>1, <3>1
  <2>5. StateIn(revs', Len(revs')) = DocOf(s)
    BY <2>2, <2>4 DEF StateIn, DocOf
  <2>6. \A r \in 1 .. Len(revs') :
           \/ /\ r \in 1 .. Len(revs) /\ revs'[r].text = revs[r].text /\ revs'[r].blocks = revs[r].blocks
              /\ StateIn(revs', r) = StateIn(revs, r)
           \/ /\ th[t].pc \in {"insert", "upgrade"} /\ StateIn(revs', r) = DocOf(th[t].snap)
              /\ IsFiniteSet(revs'[r].text) /\ revs'[r].blocks = Note!Blocks(th[t].snap)
              /\ r \in 1 .. Len(revs) => revs'[r].blocks = revs[r].blocks
    <3> SUFFICES ASSUME NEW r \in 1 .. Len(revs'), r \notin 1 .. Len(revs)
                 PROVE  /\ StateIn(revs', r) = DocOf(th[t].snap)
                        /\ IsFiniteSet(revs'[r].text) /\ revs'[r].blocks = Note!Blocks(th[t].snap)
      BY <1>1, <2>4 DEF StateIn
    <3>1. r = Len(revs')
      BY <2>4
    <3> QED BY <1>1, <2>2, <2>4, <2>5, <3>1, SnapSound
  <2>7. Part(Aged, StateIn(revs', Len(revs')))
    BY <1>1, <2>5 DEF Stands, Part, DocOf
  <2>8. PICK n \in 1 .. Len(revs') : n = Len(revs') /\ Note!Cut(t, n)
    BY <2>1, <2>4
  <2>9. PICK x : /\ th' = [th EXCEPT ![t] = x] /\ Stands(x, revs') /\ x.pc \notin Snapping
                 /\ IsFiniteSet(held'.text)
    BY <1>1, <2>4, <2>7, <2>8, CutStands
  <2>10. Len(revs) <= Len(revs') /\ Len(revs') \in Nat /\ revs'[Len(revs')].kept
    BY <2>2, <2>4
  <2> QED BY <1>1, <2>6, <2>9, <2>10, StepLoads
<1> QED BY <1>2, <1>3

\* One row changes.
LEMMA RowLoads ==
  ASSUME NoteInv, LoadInv, NEW h \in 1 .. Len(revs), NEW row1, revs' = [revs EXCEPT ![h] = row1]
  PROVE  /\ Len(revs') = Len(revs) /\ Len(revs) \in 1 .. Len(revs) /\ Len(revs) \in Nat /\ DOMAIN revs[h] = RevFields
         /\ revs'[h] = row1 /\ \A i \in 1 .. Len(revs) : i # h => revs'[i] = revs[i]
<1>1. PICK S : revs \in Seq(S)
  BY DEF NoteInv, Revisions
<1>2. revs \in Seq(S \cup {row1})
  BY <1>1
<1>3. Len(revs) \in Nat /\ DOMAIN revs = 1 .. Len(revs) /\ Len(revs') = Len(revs)
  BY <1>2
<1>4. Len(revs) >= 1 /\ DOMAIN revs[h] = RevFields
  BY DEF NoteInv, Revisions, LoadInv, RowsInv
<1> QED BY <1>3, <1>4

LEMMA LabelLoads == ASSUME NoteInv, LoadInv, NEW t \in Note!Thread, Note!Label(t) PROVE LoadInv'
<1> DEFINE h == th[t].head
<1> DEFINE row1 == [revs[h] EXCEPT !.labels = revs[h].labels \cup {th[t].label}]
<1>1. /\ UNCHANGED <<doc, chain, updates, edit>> /\ th[t].pc = "label" /\ th[t].pc \in Snapping /\ Stands(th[t], revs)
      /\ h \in 1 .. Len(revs) /\ DOMAIN th[t] = Fields
  BY DEF Note!Label, Snapping, LoadInv, NoteInv, Fits, WellFormed
<1>2. revs' = [revs EXCEPT ![h] = row1]
  BY <1>1 DEF Note!Label
<1>3. DOMAIN revs[h] = RevFields
  BY <1>1 DEF NoteInv, Revisions
<1>4. /\ row1.text = revs[h].text /\ row1.blocks = revs[h].blocks /\ row1.kept = revs[h].kept
      /\ row1.ins = revs[h].ins /\ row1.del = revs[h].del
  BY <1>3 DEF RevFields
<1> HIDE DEF row1
<1>5. /\ Len(revs') = Len(revs) /\ Len(revs) \in 1 .. Len(revs) /\ Len(revs) \in Nat
      /\ revs'[h] = row1 /\ \A i \in 1 .. Len(revs) : i # h => revs'[i] = revs[i]
  BY <1>1, <1>2, RowLoads
<1>6. \A r \in 1 .. Len(revs') : /\ r \in 1 .. Len(revs) /\ revs'[r].text = revs[r].text /\ revs'[r].blocks = revs[r].blocks
                                 /\ StateIn(revs', r) = StateIn(revs, r) /\ revs'[r].kept = revs[r].kept
  BY <1>4, <1>5 DEF StateIn
<1>7. Len(revs) <= Len(revs') /\ Len(revs') \in Nat /\ revs'[Len(revs')].kept
  BY <1>5, <1>6 DEF LoadInv, RowsInv
<1>8. CASE Note!Goto(t, "upgrade") /\ UNCHANGED held /\ h = th[t].rev
  <2> DEFINE x == [th[t] EXCEPT !.pc = "upgrade"]
  <2>1. th' = [th EXCEPT ![t] = x]
    BY <1>8 DEF Note!Goto
  <2>2. x.pc = "upgrade" /\ x.snap = th[t].snap /\ x.upd = th[t].upd /\ x.op = th[t].op /\ x.rev = th[t].rev /\ x.head = h
    BY <1>1 DEF Fields
  <2> HIDE DEF x
  <2>3. th[t].rev \in 1 .. Len(revs) /\ (\A r \in th[t].rev + 1 .. Len(revs) : Part(Aged, StateIn(revs, r)))
        /\ revs[h].blocks = Note!Blocks(th[t].snap)
    BY <1>1 DEF Stands, Snapping
  <2>4. \A r \in th[t].rev + 1 .. Len(revs) : r \in 1 .. Len(revs')
    BY <1>5, <2>3
  <2>5. \A r \in th[t].rev + 1 .. Len(revs') : Part(Aged, StateIn(revs', r))
    BY <1>5, <1>6, <2>3, <2>4
  <2>6. h \in h .. Len(revs')
    BY <1>1, <1>5
  <2>7. revs'[h].blocks = Note!Blocks(th[t].snap)
    BY <1>1, <1>5, <1>6, <2>3
  <2>8. EditIn(revs) => EditIn(revs')
    BY <1>5 DEF EditIn
  <2>9. Stands(x, revs')
    BY <1>1, <1>5, <1>8, <2>8, <2>2, <2>3, <2>5, <2>6, <2>7 DEF Stands, Snapping
  <2> QED BY <1>1, <1>6, <1>7, <1>8, <2>1, <2>2, <2>9, HeldFinite, StepLoads
<1>9. CASE Note!Cut(t, h) /\ ~(h = th[t].rev /\ ~(revs[h].kept /\ revs[h].ins = th[t].snap.ins))
  <2>1. Part(Aged, StateIn(revs, Len(revs)))
    <3>1. /\ th[t].rev \in 1 .. Len(revs) /\ (\A r \in th[t].rev + 1 .. Len(revs) : Part(Aged, StateIn(revs, r)))
          /\ h \in th[t].rev .. Len(revs) /\ Part(Aged, th[t].snap) /\ revs[h].blocks = Note!Blocks(th[t].snap)
      BY <1>1 DEF Stands, Snapping
    <3>2. CASE th[t].rev < Len(revs)
      <4>1. Len(revs) \in th[t].rev + 1 .. Len(revs)
        BY <1>5, <3>1, <3>2
      <4> QED BY <3>1, <4>1
    <3>3. CASE th[t].rev = Len(revs)
      <4> DEFINE d == StateIn(revs, h)
      <4> DEFINE e == DocOf(th[t].snap)
      <4>1. h = Len(revs) /\ h = th[t].rev
        BY <1>5, <3>1, <3>3
      <4>2. d.ins = e.ins
        BY <1>9, <4>1 DEF StateIn, DocOf
      <4>3. d \in States /\ e \in States
        BY <1>1, SnapSound DEF States
      <4>4. Sound(d) /\ Sound(e) /\ (Part(d, e) \/ Part(e, d))
        BY <4>3 DEF LoadInv, StateInv
      <4>5. Note!Blocks(d) = Note!Blocks(e)
        <5>1. Note!Blocks(d) = revs[h].blocks
          BY <1>1 DEF LoadInv, RowsInv
        <5>2. Note!Blocks(e) = Note!Blocks(th[t].snap)
          BY SameBlocks DEF DocOf
        <5>3. revs[h].blocks = Note!Blocks(th[t].snap)
          BY <3>1
        <5> HIDE DEF d, e
        <5> QED BY Zenon, <5>1, <5>2, <5>3
      <4> HIDE DEF d, e
      <4>6. IsFiniteSet(d.ins) /\ IsFiniteSet(e.ins)
        BY <4>4, FS_Subset DEF Sound, Part, LoadInv, DocInv
      <4>7. PICK d1, e1 : d1 = d /\ e1 = e
        OBVIOUS
      <4>8. d1.del = e1.del
        <5>1. CASE d1.del \subseteq e1.del
          BY <4>2, <4>4, <4>5, <4>6, <4>7, <5>1, SameDeletions DEF Sound
        <5>2. CASE e1.del \subseteq d1.del
          BY <4>2, <4>4, <4>5, <4>6, <4>7, <5>2, SameDeletions DEF Sound
        <5> QED BY <4>4, <4>7, <5>1, <5>2 DEF Part
      <4>9. Part(Aged, e)
        BY <3>1 DEF e, Part, DocOf
      <4> QED BY <4>1, <4>2, <4>7, <4>8, <4>9 DEF d, Part
    <3> QED BY <1>5, <3>1, <3>2, <3>3
  <2>2. Part(Aged, StateIn(revs', Len(revs')))
    BY <1>5, <1>6, <2>1
  <2>3. PICK n \in 1 .. Len(revs') : n = h /\ Note!Cut(t, n)
    BY <1>1, <1>5, <1>9
  <2>4. PICK x : /\ th' = [th EXCEPT ![t] = x] /\ Stands(x, revs') /\ x.pc \notin Snapping
                 /\ IsFiniteSet(held'.text)
    BY <1>1, <1>5, <1>7, <2>2, <2>3, CutStands
  <2> QED BY <1>1, <1>6, <1>7, <2>4, StepLoads
<1> QED BY <1>8, <1>9 DEF Note!Label, h

LEMMA UpgradeLoads == ASSUME NoteInv, LoadInv, NEW t \in Note!Thread, Note!Upgrade(t) PROVE LoadInv'
<1> DEFINE h == th[t].head
<1> DEFINE s == th[t].snap
<1> DEFINE row1 == [revs[h] EXCEPT !.ins = s.ins, !.del = s.del, !.kept = TRUE]
<1>1. /\ UNCHANGED <<doc, chain, updates, edit>> /\ th[t].pc = "upgrade" /\ th[t].pc \in Snapping /\ Stands(th[t], revs)
      /\ h \in 1 .. Len(revs)
  BY DEF Note!Upgrade, Snapping, LoadInv, NoteInv, Fits
<1>2. revs' = [revs EXCEPT ![h] = row1] /\ Note!Cut(t, h)
  BY <1>1 DEF Note!Upgrade
<1>3. DOMAIN revs[h] = RevFields
  BY <1>1 DEF NoteInv, Revisions
<1>4. row1.text = revs[h].text /\ row1.blocks = revs[h].blocks /\ row1.kept = TRUE /\ row1.ins = s.ins /\ row1.del = s.del
  BY <1>3 DEF RevFields
<1> HIDE DEF row1
<1>5. /\ Len(revs') = Len(revs) /\ Len(revs) \in 1 .. Len(revs) /\ Len(revs) \in Nat
      /\ revs'[h] = row1 /\ \A i \in 1 .. Len(revs) : i # h => revs'[i] = revs[i]
  BY <1>1, <1>2, RowLoads
<1>6. /\ revs[h].blocks = Note!Blocks(s) /\ th[t].rev = h /\ Part(Aged, s)
      /\ \A r \in h + 1 .. Len(revs) : Part(Aged, StateIn(revs, r))
  BY <1>1 DEF Stands, Snapping
<1>7. StateIn(revs', h) = DocOf(s) /\ \A i \in 1 .. Len(revs) : i # h => StateIn(revs', i) = StateIn(revs, i)
  BY <1>4, <1>5 DEF StateIn, DocOf
<1>8. \A r \in 1 .. Len(revs') :
         \/ /\ r \in 1 .. Len(revs) /\ revs'[r].text = revs[r].text /\ revs'[r].blocks = revs[r].blocks
            /\ StateIn(revs', r) = StateIn(revs, r)
         \/ /\ th[t].pc \in {"insert", "upgrade"} /\ StateIn(revs', r) = DocOf(th[t].snap)
            /\ IsFiniteSet(revs'[r].text) /\ revs'[r].blocks = Note!Blocks(th[t].snap)
            /\ r \in 1 .. Len(revs) => revs'[r].blocks = revs[r].blocks
  <2>1. IsFiniteSet(revs[h].text)
    BY <1>1 DEF LoadInv, RowsInv
  <2> QED BY <1>1, <1>4, <1>5, <1>6, <1>7, <2>1
<1>9. Len(revs) <= Len(revs') /\ Len(revs') \in Nat /\ revs'[Len(revs')].kept
  BY <1>4, <1>5 DEF LoadInv, RowsInv
<1>10. Part(Aged, StateIn(revs', Len(revs')))
  <2>1. CASE h = Len(revs)
    BY <1>5, <1>6, <1>7, <2>1 DEF Part, DocOf
  <2>2. CASE h # Len(revs)
    <3>1. Len(revs) \in h + 1 .. Len(revs)
      BY <1>1, <1>5, <2>2
    <3> QED BY <1>5, <1>6, <1>7, <2>2, <3>1
  <2> QED BY <2>1, <2>2
<1>11. PICK n \in 1 .. Len(revs') : n = h /\ Note!Cut(t, n)
  BY <1>1, <1>2, <1>5
<1>12. PICK x : /\ th' = [th EXCEPT ![t] = x] /\ Stands(x, revs') /\ x.pc \notin Snapping
                /\ IsFiniteSet(held'.text)
  BY <1>1, <1>5, <1>9, <1>10, <1>11, CutStands
<1> QED BY <1>1, <1>8, <1>9, <1>12, StepLoads

LEMMA EmptyPlanned == Planned(Note!Empty)
<1>1. Note!Empty.ins = {} /\ Note!Empty.del = {}
  BY DEF Note!Empty
<1> QED BY <1>1, FS_EmptySet DEF Planned

LEMMA ReconcilePlanned ==
  ASSUME NEW base, base.ins \subseteq doc.ins, NEW text, IsFiniteSet(text)
  PROVE  Planned(Note!Reconcile(base, text))
<1> DEFINE add == text \ Note!Text(base)
<1>1. IsFiniteSet(add)
  BY FS_Subset
<1>2. IsFiniteSet(Note!Copies(add))
  BY <1>1, CopiesFinite
<1>3. Note!Reconcile(base, text) = [ins |-> Note!Copies(add), del |-> {i \in base.ins \ base.del : i[1] \notin text}]
  BY DEF Note!Reconcile, Note!Plan
<1> HIDE DEF add
<1> QED BY <1>2, <1>3 DEF Planned

LEMMA StateInDoc == ASSUME LoadInv, NEW r \in 1 .. Len(revs) PROVE StateIn(revs, r).ins \subseteq doc.ins
<1>1. StateIn(revs, r) \in States
  BY DEF States
<1> QED BY <1>1 DEF LoadInv, StateInv, Sound, Part

LEMMA DropLoads == ASSUME NoteInv, LoadInv, NEW t \in Compactor, Note!Drop(t) PROVE LoadInv'
<1>1. t \in Note!Thread /\ UNCHANGED <<doc, chain, updates, edit, held>> /\ th[t].pc = "drop" /\ th' = [th EXCEPT ![t] = Note!Idle]
  BY NoteThreads DEF Note!Drop
<1>2. revs' = [r \in 1 .. Len(revs) |-> IF r \in Note!Dropped(t) THEN [revs[r] EXCEPT !.kept = FALSE] ELSE revs[r]]
  BY DEF Note!Drop
<1>3. Len(revs) \in Nat /\ Len(revs) \in 1 .. Len(revs) /\ th[t].rev \in 1 .. Len(revs)
  BY <1>1, RevisionsLen DEF NoteInv, LoadInv, RowsInv, Stands
<1>4. Len(revs) \notin Note!Dropped(t)
  BY <1>3 DEF Note!Dropped
<1>5. \A r \in 1 .. Len(revs) : DOMAIN revs[r] = RevFields
  BY DEF NoteInv, Revisions
<1>6. \A r \in 1 .. Len(revs) : /\ revs'[r].text = revs[r].text /\ revs'[r].blocks = revs[r].blocks
                                /\ StateIn(revs', r) = StateIn(revs, r)
  BY <1>2, <1>5 DEF RevFields, StateIn
<1>7. revs'[Len(revs)] = revs[Len(revs)]
  BY <1>2, <1>3, <1>4
<1>8. Len(revs') = Len(revs)
  BY <1>2, <1>3
<1>9. Note!Idle.pc = "idle" /\ Note!Idle.op = "none"
  BY DEF Note!Idle
<1>10. Stands(Note!Idle, revs') /\ Note!Idle.pc \notin Snapping
  BY <1>9 DEF Stands, Snapping
<1>11. revs'[Len(revs')].kept
  BY <1>7, <1>8 DEF LoadInv, RowsInv
<1>12. IsFiniteSet(held'.text) /\ UNCHANGED <<doc, chain, updates, edit>> /\ Len(revs') \in Nat /\ Len(revs) <= Len(revs')
  BY <1>1, <1>3, <1>8, HeldFinite
<1> QED BY <1>1, <1>6, <1>8, <1>10, <1>11, <1>12, StepLoads

LEMMA CompactLoads ==
  ASSUME NoteInv, LoadInv, NEW t \in Compactor, Note!Compact(t) \/ Note!MaxSeq(t)
  PROVE  LoadInv'
<1>1. t \in Note!Thread /\ UNCHANGED <<doc, chain, updates, revs, edit, held>>
  BY NoteThreads DEF Note!Compact, Note!MaxSeq, Note!store
<1>2. CASE Note!Compact(t)
  <2> DEFINE x == Note!Work("compact", "flush", "compaction")
  <2>1. th' = [th EXCEPT ![t] = x]
    BY <1>2 DEF Note!Compact
  <2>2. x.pc = "flush" /\ x.upd = Note!Empty /\ x.op = "compact"
    BY DEF Note!Work
  <2> HIDE DEF x
  <2>3. Stands(x, revs) /\ x.pc \notin Snapping
    BY <2>2, EmptyPlanned DEF Stands, Snapping
  <2> QED BY <1>1, <2>1, <2>3, HeldFinite, MoveLoads
<1>3. CASE Note!MaxSeq(t)
  <2> DEFINE x == [th[t] EXCEPT !.pc = "capture", !.upto = seq]
  <2>1. th' = [th EXCEPT ![t] = x] /\ th[t].pc = "max"
    BY <1>3 DEF Note!MaxSeq
  <2>2. x.pc = "capture" /\ x.upd = th[t].upd /\ x.op = th[t].op
    BY <1>1, <2>1 DEF NoteInv, WellFormed, Fields
  <2> HIDE DEF x
  <2> QED BY <1>1, <2>1, <2>2, GotoLoads
<1> QED BY <1>2, <1>3

LEMMA FlushLoads == ASSUME NoteInv, LoadInv, NEW t \in Note!Thread, Note!Flush(t) PROVE LoadInv'
<1>1. th[t].pc # "idle" /\ UNCHANGED <<doc, chain, updates, revs, edit, held>>
  BY DEF Note!Flush, Note!store
<1>2. PICK pc1 \in {"capture", "max", "look"} : Note!Goto(t, pc1)
  BY DEF Note!Flush
<1> DEFINE x == [th[t] EXCEPT !.pc = pc1]
<1>3. th' = [th EXCEPT ![t] = x]
  BY <1>2 DEF Note!Goto
<1>4. x.pc = pc1 /\ x.upd = th[t].upd /\ x.op = th[t].op
  BY <1>1 DEF NoteInv, WellFormed, Fields
<1> HIDE DEF x
<1> QED BY <1>1, <1>3, <1>4, GotoLoads

LEMMA ReadLoads == ASSUME NoteInv, LoadInv, Note!ReadBase PROVE LoadInv'
<1>1. Svc \in Note!Thread /\ th[Svc].pc = "look" /\ UNCHANGED <<doc, chain, updates, revs, edit>>
  BY NoteThreads DEF Note!ReadBase, Note!store
<1>2. CASE Note!Goto(Svc, "capture") /\ UNCHANGED held
  <2> DEFINE x == [th[Svc] EXCEPT !.pc = "capture"]
  <2>1. th' = [th EXCEPT ![Svc] = x]
    BY <1>2 DEF Note!Goto
  <2>2. x.pc = "capture" /\ x.upd = th[Svc].upd /\ x.op = th[Svc].op
    BY <1>1 DEF NoteInv, WellFormed, Fields
  <2> HIDE DEF x
  <2> QED BY <1>1, <1>2, <2>1, <2>2, GotoLoads
<1>3. CASE held' = [rev |-> Len(revs), text |-> Note!Text(doc)] /\ th' = [th EXCEPT ![Svc] = Note!Idle]
  <2>1. IsFiniteSet(Note!Text(doc))
    BY TextFinite DEF LoadInv, DocInv
  <2>2. held'.text = Note!Text(doc)
    BY <1>3
  <2> QED BY <1>1, <1>3, <2>1, <2>2, IdleLoads
<1> QED BY <1>2, <1>3 DEF Note!ReadBase

LEMMA CallLoads ==
  ASSUME NoteInv, LoadInv, UNCHANGED <<doc, chain, updates, revs, edit, held>>, NEW op, NEW upd, Note!Call(op, upd), Planned(upd),
         op = "revert" => EditIn(revs)
  PROVE  LoadInv'
<1> DEFINE x == [Note!Work(op, "flush", Note!Labels[op]) EXCEPT !.upd = upd]
<1>1. th' = [th EXCEPT ![Svc] = x]
  BY DEF Note!Call
<1>2. x.pc = "flush" /\ x.upd = upd /\ x.op = op
  BY DEF Note!Work
<1> HIDE DEF x
<1>3. Stands(x, revs) /\ x.pc \notin Snapping
  BY <1>2 DEF Stands, Snapping
<1> QED BY <1>1, <1>3, NoteThreads, HeldFinite, MoveLoads

LEMMA CallsLoad ==
  ASSUME NoteInv, LoadInv, Note!ReadNote \/ Note!ProposeEdit \/ Note!RevertAiEdit \/ Note!Restore
  PROVE  LoadInv'
<1>1. UNCHANGED <<doc, chain, updates, revs, edit, held>>
  BY DEF Note!ReadNote, Note!ProposeEdit, Note!RevertAiEdit, Note!Restore, Note!Call, Note!store
<1>2. CASE Note!ReadNote \/ Note!RevertAiEdit \/ Note!Restore
  BY <1>1, <1>2, EmptyPlanned, CallLoads DEF Note!ReadNote, Note!RevertAiEdit, Note!Restore, LoadInv, ReadInv
<1>3. CASE Note!ProposeEdit
  <2>1. PICK w : Note!Call("edit", Note!OntoBase(IF w \in held.text THEN held.text \ {w} ELSE held.text \cup {w}))
    BY <1>3 DEF Note!ProposeEdit
  <2>2. PICK text : text = IF w \in held.text THEN held.text \ {w} ELSE held.text \cup {w}
    OBVIOUS
  <2>3. IsFiniteSet(text)
    <3>1. IsFiniteSet(held.text \ {w})
      BY HeldFinite, FS_Subset
    <3>2. IsFiniteSet(held.text \cup {w})
      BY HeldFinite, FS_AddElement
    <3> QED BY <2>2, <3>1, <3>2
  <2>4. held.rev \in 1 .. Len(revs) /\ Note!State(held.rev) = StateIn(revs, held.rev)
    BY DEF NoteInv, Note!State, StateIn
  <2>5. Note!State(held.rev).ins \subseteq doc.ins
    BY <2>4, StateInDoc
  <2>6. PICK upd : upd = Note!OntoBase(text)
    OBVIOUS
  <2>7. Planned(upd)
    BY <2>3, <2>5, <2>6, ReconcilePlanned DEF Note!OntoBase
  <2> QED BY <1>1, <2>1, <2>2, <2>6, <2>7, CallLoads
<1> QED BY <1>2, <1>3

\* Of the revisions that may be the AI's result, the first is one of them.
LEMMA ResultIs ==
  ASSUME LoadInv, NoteInv, NEW pre \in 1 .. Len(revs), Note!Result(pre) # None
  PROVE  Note!Result(pre) \in 1 .. Len(revs)
<1> DEFINE own == {r \in pre + 1 .. Len(revs) : r <= pre + 4 /\ revs[r].by = "other"}
<1>1. own # {} /\ Note!Result(pre) = CHOOSE r \in own : \A q \in own : r <= q
  BY DEF Note!Result
<1>2. Len(revs) \in Nat
  BY RevisionsLen DEF NoteInv
<1>3. own \subseteq Nat
  BY <1>2
<1>4. \A r \in own : r \in 1 .. Len(revs)
  BY <1>2
<1> HIDE DEF own
<1>5. \E r \in own : \A q \in own : r <= q
  BY <1>1, <1>3, LeastNumber
<1> QED BY <1>1, <1>4, <1>5

LEMMA PlanLoads == ASSUME NoteInv, LoadInv, Note!TakeBack \/ Note!PutBack PROVE LoadInv'
<1>1. UNCHANGED <<doc, chain, updates, revs, edit, held>> /\ th[Svc].pc = "look" /\ Svc \in Note!Thread /\ DOMAIN th[Svc] = Fields
      /\ th[Svc].op \in {"revert", "restore"}
  BY NoteThreads DEF Note!TakeBack, Note!PutBack, Note!store, NoteInv, WellFormed
<1>2. ASSUME NEW base, base.ins \subseteq doc.ins, NEW text, IsFiniteSet(text),
             th' = [th EXCEPT ![Svc] = [th[Svc] EXCEPT !.pc = "apply", !.upd = Note!Reconcile(base, text)]]
      PROVE  LoadInv'
  <2>1. PICK upd : upd = Note!Reconcile(base, text) /\ Planned(upd)
    BY <1>2, ReconcilePlanned
  <2> DEFINE x == [th[Svc] EXCEPT !.pc = "apply", !.upd = upd]
  <2>2. x.pc = "apply" /\ x.upd = upd /\ x.op = th[Svc].op
    BY <1>1 DEF Fields
  <2>3. th' = [th EXCEPT ![Svc] = x]
    BY <1>2, <2>1
  <2> HIDE DEF x
  <2>4. th[Svc].op = "revert" => EditIn(revs)
    BY <1>1 DEF LoadInv, Stands
  <2>5. Stands(x, revs) /\ x.pc \notin Snapping
    BY <1>1, <2>1, <2>2, <2>4 DEF Stands, Snapping
  <2> QED BY <1>1, <2>3, <2>5, HeldFinite, MoveLoads
<1>3. CASE Note!TakeBack
  <2> DEFINE r == Note!Result(edit.pre)
  <2> DEFINE base == IF r # None /\ revs[r].kept THEN Note!State(r) ELSE doc
  <2>1. th' = [th EXCEPT ![Svc] = [th[Svc] EXCEPT !.pc = "apply", !.upd = Note!Reconcile(base, revs[edit.pre].text)]]
    BY <1>3 DEF Note!TakeBack
  <2>2. edit.pre \in 1 .. Len(revs)
    BY <1>1, <1>3 DEF Note!TakeBack, LoadInv, Stands, EditIn
  <2>3. base.ins \subseteq doc.ins
    <3>1. CASE r # None
      <4>1. r \in 1 .. Len(revs)
        BY <2>2, <3>1, ResultIs
      <4> QED BY <4>1, StateInDoc DEF Note!State, StateIn
    <3> QED BY <3>1
  <2>4. IsFiniteSet(revs[edit.pre].text)
    BY <2>2 DEF LoadInv, RowsInv
  <2> HIDE DEF base
  <2> QED BY <1>2, <2>1, <2>3, <2>4
<1>4. CASE Note!PutBack
  <2>1. PICK r \in 1 .. Len(revs) :
          th' = [th EXCEPT ![Svc] = [th[Svc] EXCEPT !.pc = "apply", !.upd = Note!Reconcile(doc, revs[r].text)]]
    BY <1>4 DEF Note!PutBack
  <2>2. IsFiniteSet(revs[r].text)
    BY DEF LoadInv, RowsInv
  <2> QED BY <1>2, <2>1, <2>2
<1> QED BY <1>3, <1>4

\* The log, or the document with what is on its way to it, changes; the rows stay.
LEMMA LogLoads ==
  ASSUME NoteInv, LoadInv, UNCHANGED revs, DocInv', ReadInv', Part(doc, doc'), Part(Aged', Aged),
         \A d : Behind(d) /\ Part(Aged, d) => Behind(d)', Behind(StateIn(revs, Len(revs)))',
         EditIn(revs) => EditIn(revs)',
         \A u \in Note!Thread :
           \/ th'[u] = th[u]
           \/ /\ th'[u].pc \notin Snapping \cup {"prune", "apply"}
              /\ th'[u].pc # "idle" => Planned(th[u].upd)'
              /\ th'[u].pc = "drop" => th'[u].rev \in 1 .. Len(revs)
              /\ th'[u].op = "revert" => EditIn(revs)
  PROVE  LoadInv'
<1>1. States' \subseteq States /\ \A r : StateIn(revs, r)' = StateIn(revs, r)
  BY DEF States, StateIn
<1>2. StateInv'
  <2>1. \A d : Sound(d) => Sound(d)'
    BY DEF Sound, Part
  <2> QED BY <1>1, <2>1 DEF LoadInv, StateInv
<1>3. RowsInv'
  BY <1>1 DEF LoadInv, RowsInv
<1>4. \A u \in Note!Thread : Stands(th[u], revs)'
  <2> SUFFICES ASSUME NEW u \in Note!Thread PROVE Stands(th[u], revs)'
    OBVIOUS
  <2>1. CASE th'[u] = th[u]
    <3> DEFINE x == th[u]
    <3>1. Stands(x, revs)
      BY DEF LoadInv
    <3>2. x.pc # "idle" => Planned(x.upd)'
      BY <2>1, <3>1 DEF Stands, Planned, Part
    <3>3. x.pc \in Snapping => Behind(x.snap)' /\ Part(Aged', x.snap)
      BY <2>1, <3>1, PartOf DEF Stands
    <3>4. x.pc \in Snapping \ {"before"} =>
            x.rev \in 1 .. Len(revs) /\ \A r \in x.rev + 1 .. Len(revs) : Part(Aged', StateIn(revs, r))
      BY <3>1, PartOf DEF Stands
    <3>5. x.pc = "prune" => Part(Aged', StateIn(revs, Len(revs)))
      BY <3>1, PartOf DEF Stands
    <3>6. PICK y : y = th[u] /\ y = th'[u]
      BY <2>1
    <3> HIDE DEF x
    <3>7. /\ y.pc # "idle" => Planned(y.upd)'
          /\ y.pc \in Snapping => Behind(y.snap)' /\ Part(Aged', y.snap)
          /\ y.pc \in Snapping \ {"before"} =>
               y.rev \in 1 .. Len(revs) /\ \A r \in y.rev + 1 .. Len(revs) : Part(Aged', StateIn(revs, r))
          /\ y.pc = "prune" => Part(Aged', StateIn(revs, Len(revs)))
          /\ Stands(y, revs)
      BY <2>1, <3>1, <3>2, <3>3, <3>4, <3>5, <3>6 DEF x, Planned, Behind
    <3>8. Stands(y, revs)'
      BY <1>1, <3>7 DEF Stands
    <3> QED BY <3>6, <3>8 DEF Stands, Planned, Behind
  <2>2. CASE th'[u] # th[u]
    BY <2>2 DEF Stands, Snapping
  <2> QED BY <2>1, <2>2
<1> QED BY <1>2, <1>3, <1>4 DEF LoadInv

LEMMA InFold ==
  ASSUME NEW U, NEW c
  PROVE  /\ \A u \in U : Part(u.upd, Note!Fold({v.upd : v \in U}))
         /\ \A i \in 1 .. Len(c) : Part(c[i], Note!Fold({c[j] : j \in 1 .. Len(c)}))
         /\ \A d : (\A u \in U : Part(u.upd, d)) => Part(Note!Fold({v.upd : v \in U}), d)
         /\ \A d : (\A i \in 1 .. Len(c) : Part(c[i], d)) => Part(Note!Fold({c[j] : j \in 1 .. Len(c)}), d)
<1>1. /\ \A u \in U : u.upd \in {v.upd : v \in U}
      /\ \A i \in 1 .. Len(c) : c[i] \in {c[j] : j \in 1 .. Len(c)}
      /\ \A e \in {v.upd : v \in U} : \E u \in U : e = u.upd
      /\ \A e \in {c[j] : j \in 1 .. Len(c)} : \E i \in 1 .. Len(c) : e = c[i]
  OBVIOUS
<1>2. /\ \A u \in U : Part(u.upd, Note!Fold({v.upd : v \in U}))
      /\ \A i \in 1 .. Len(c) : Part(c[i], Note!Fold({c[j] : j \in 1 .. Len(c)}))
  BY <1>1, FoldParts
<1>3. ASSUME NEW d, \A u \in U : Part(u.upd, d) PROVE Part(Note!Fold({v.upd : v \in U}), d)
  BY <1>1, <1>3, FoldParts
<1>4. ASSUME NEW d, \A i \in 1 .. Len(c) : Part(c[i], d) PROVE Part(Note!Fold({c[j] : j \in 1 .. Len(c)}), d)
  BY <1>1, <1>4, FoldParts
<1> QED BY <1>2, <1>3, <1>4

LEMMA MergeParts ==
  /\ \A d, e : Part(d, Note!Merge(d, e)) /\ Part(e, Note!Merge(d, e))
  /\ \A d, e, f : Part(d, f) /\ Part(e, f) => Part(Note!Merge(d, e), f)
BY DEF Part, Note!Merge

\* The document grows by what is on its way to the log.
LEMMA UpdateLoads ==
  ASSUME NoteInv, NoteInv', LoadInv, NEW u, Planned(u), Note!Update(u), UNCHANGED <<updates, revs>>
  PROVE  /\ DocInv' /\ Part(doc, doc') /\ Aged' = Aged
         /\ \A d : Behind(d) => Behind(d)'
<1>1. doc' = [ins |-> doc.ins \cup u.ins, del |-> doc.del \cup u.del] /\ chain' = Append(chain, u)
  BY DEF Note!Update, Note!Merge
<1>2. IsFiniteSet(doc.ins \cup u.ins)
  BY FS_Union DEF LoadInv, DocInv, Planned
<1>3. Part(doc, doc') /\ Part(u, doc') /\ doc' = DocOf(doc)' /\ doc'.del \subseteq doc'.ins /\ IsFiniteSet(doc'.ins)
  BY <1>1, <1>2 DEF Part, DocOf, LoadInv, DocInv, Planned
<1>4. /\ \E S : chain' \in Seq(S)
      /\ \A i \in 1 .. Len(chain') : chain'[i] = u \/ (i \in 1 .. Len(chain) /\ chain'[i] = chain[i])
      /\ \A i \in 1 .. Len(chain) : i \in 1 .. Len(chain') /\ chain'[i] = chain[i]
      /\ Len(chain') \in 1 .. Len(chain') /\ chain'[Len(chain')] = u
  <2>1. PICK S : chain \in Seq(S)
    BY DEF LoadInv, DocInv
  <2>2. chain \in Seq(S \cup {u})
    BY <2>1
  <2>3. chain' \in Seq(S \cup {u})
    BY <1>1, <2>2
  <2> QED BY <1>1, <2>2, <2>3
<1>5. DocInv'
  <2>1. \A i \in 1 .. Len(chain') : Part(chain'[i], doc')
    BY <1>3, <1>4, PartOf DEF LoadInv, DocInv
  <2>2. \A v \in updates : DOMAIN v = {"seq", "upd", "old"} /\ Part(v.upd, doc')
    BY <1>3, PartOf DEF LoadInv, DocInv
  <2> QED BY <1>3, <1>4, <2>1, <2>2 DEF DocInv
<1>6. Part(Way, Way') /\ Part(u, Way')
  <2>1. \A i \in 1 .. Len(chain') : Part(chain'[i], Way')
    BY InFold DEF Way
  <2>2. \A i \in 1 .. Len(chain) : Part(chain[i], Way')
    BY <1>4, <2>1
  <2>3. Part(Way, Way')
    <3>1. PICK d : d = Way'
      OBVIOUS
    <3>2. \A i \in 1 .. Len(chain) : Part(chain[i], d)
      BY <2>2, <3>1
    <3> QED BY <3>1, <3>2, InFold DEF Way
  <2> QED BY <1>4, <2>1, <2>3
<1>7. Aged' = Aged /\ Log' = Log
  BY DEF Aged, Log
<1>8. ASSUME NEW d, Behind(d) PROVE Behind(d)'
  <2>1. Part(doc, Note!Merge(d, Note!Merge(Log, Way)))
    BY <1>8 DEF Behind
  <2>2. Part(doc', Note!Merge(d, Note!Merge(Log, Way')))
    BY <1>1, <1>6, <2>1 DEF Part, Note!Merge
  <2> QED BY <1>7, <2>2 DEF Behind
<1> QED BY <1>3, <1>5, <1>7, <1>8

LEMMA TypeLoads == ASSUME NoteInv, NoteInv', LoadInv, Note!Type PROVE LoadInv'
<1>1. UNCHANGED <<updates, revs, th, held>>
  BY DEF Note!Type, Note!store
<1>2. PICK u : Note!Update(u) /\ Planned(u)
  <2>1. CASE \E w \in Words : Note!Update([ins |-> Note!Copies({w}), del |-> {}])
    <3>1. PICK w : Note!Update([ins |-> Note!Copies({w}), del |-> {}])
      BY <2>1
    <3>2. IsFiniteSet(Note!Copies({w}))
      BY FS_Singleton, CopiesFinite
    <3> QED BY <3>1, <3>2 DEF Planned
  <2>2. CASE \E w : Note!Update([ins |-> {}, del |-> {i \in doc.ins \ doc.del : i[1] = w}])
    <3>1. PICK w : Note!Update([ins |-> {}, del |-> {i \in doc.ins \ doc.del : i[1] = w}])
      BY <2>2
    <3>2. Planned([ins |-> {}, del |-> {i \in doc.ins \ doc.del : i[1] = w}])
      BY FS_EmptySet DEF Planned
    <3> QED BY <3>1, <3>2
  <2> QED BY <2>1, <2>2 DEF Note!Type
<1>3. DocInv' /\ Part(doc, doc') /\ Aged' = Aged /\ \A d : Behind(d) => Behind(d)'
  BY <1>1, <1>2, UpdateLoads
<1>4. (EditIn(revs) => EditIn(revs)') /\ ReadInv'
  <2>1. \/ edit' = edit
        \/ edit # None /\ \E S : edit' = [edit EXCEPT !.since = S]
    BY DEF Note!Type
  <2>2. EditIn(revs) => EditIn(revs)'
    BY <1>1, <2>1 DEF EditIn
  <2> QED BY <1>1, <2>1, <2>2 DEF LoadInv, ReadInv
<1>5. Behind(StateIn(revs, Len(revs)))'
  <2>1. Behind(StateIn(revs, Len(revs)))
    BY DEF LoadInv, RowsInv
  <2>2. PICK d : d = StateIn(revs, Len(revs))
    OBVIOUS
  <2> QED BY <1>1, <1>3, <2>1, <2>2 DEF Behind, StateIn
<1>6. Part(Aged', Aged)
  BY <1>3, PartOf
<1> QED BY <1>1, <1>3, <1>4, <1>5, <1>6, LogLoads

LEMMA ApplyLoads == ASSUME NoteInv, NoteInv', LoadInv, Note!Apply PROVE LoadInv'
<1>1. /\ UNCHANGED <<updates, revs, held>> /\ Svc \in Note!Thread /\ th[Svc].pc = "apply" /\ Note!Update(th[Svc].upd)
      /\ Stands(th[Svc], revs)
  BY NoteThreads DEF Note!Apply, Note!store, LoadInv
<1>2. PICK u : u = th[Svc].upd /\ Planned(u)
  BY <1>1 DEF Stands
<1>3. DocInv' /\ Part(doc, doc') /\ Aged' = Aged /\ \A d : Behind(d) => Behind(d)'
  BY <1>1, <1>2, UpdateLoads
<1>4. (EditIn(revs) => EditIn(revs)') /\ ReadInv'
  <2>1. \/ edit' = edit
        \/ edit' = [pre |-> th[Svc].rev, since |-> {}] /\ th[Svc].rev \in 1 .. Len(revs)
    BY <1>1 DEF Note!Apply, Stands
  <2>2. CASE edit' = edit
    BY <1>1, <2>2 DEF EditIn, LoadInv, ReadInv
  <2>3. CASE edit' = [pre |-> th[Svc].rev, since |-> {}] /\ th[Svc].rev \in 1 .. Len(revs)
    <3>1. EditIn(revs)'
      BY <1>1, <2>3 DEF EditIn
    <3> QED BY <1>1, <3>1 DEF LoadInv, ReadInv
  <2> QED BY <2>1, <2>2, <2>3
<1>5. Behind(StateIn(revs, Len(revs)))'
  <2>1. Behind(StateIn(revs, Len(revs)))
    BY DEF LoadInv, RowsInv
  <2>2. PICK d : d = StateIn(revs, Len(revs))
    OBVIOUS
  <2> QED BY <1>1, <1>3, <2>1, <2>2 DEF Behind, StateIn
<1> DEFINE x == Note!Work(th[Svc].op, "stored", IF th[Svc].op = "edit" THEN "compaction" ELSE th[Svc].label)
<1>6. th' = [th EXCEPT ![Svc] = x]
  BY DEF Note!Apply
<1>7. x.pc = "stored" /\ x.upd = Note!Empty /\ x.op = th[Svc].op
  BY DEF Note!Work
<1> HIDE DEF x
<1>8. DOMAIN th = Note!Thread
  BY DEF NoteInv
<1>9. \A v \in Note!Thread :
        \/ th'[v] = th[v]
        \/ /\ th'[v].pc \notin Snapping \cup {"prune", "apply"}
           /\ th'[v].pc # "idle" => Planned(th[v].upd)'
           /\ th'[v].pc = "drop" => th'[v].rev \in 1 .. Len(revs)
           /\ th'[v].op = "revert" => EditIn(revs)
  <2> SUFFICES ASSUME NEW v \in Note!Thread, v = Svc
               PROVE /\ th'[v].pc \notin Snapping \cup {"prune", "apply"}
                     /\ th'[v].pc # "idle" => Planned(th[v].upd)'
                     /\ th'[v].pc = "drop" => th'[v].rev \in 1 .. Len(revs)
                     /\ th'[v].op = "revert" => EditIn(revs)
    BY <1>6, <1>8
  <2>1. th'[v] = x
    BY <1>6, <1>8
  <2>2. Planned(th[v].upd)'
    BY <1>3, <1>7, <2>1, EmptyPlanned DEF Planned, Part
  <2> QED BY <1>1, <1>7, <2>1, <2>2 DEF Stands, Snapping
<1>10. Part(Aged', Aged)
  BY <1>3, PartOf
<1> QED BY <1>1, <1>3, <1>4, <1>5, <1>9, <1>10, LogLoads

\* Where neither the document nor the edit changes.
LEMMA SameDocLoads ==
  ASSUME NoteInv, LoadInv, UNCHANGED <<doc, revs, edit, held>>, DocInv', Part(Aged', Aged),
         \A d : Behind(d) /\ Part(Aged, d) => Behind(d)', Behind(StateIn(revs, Len(revs)))',
         \A u \in Note!Thread :
           \/ th'[u] = th[u]
           \/ /\ th'[u].pc \notin Snapping \cup {"prune", "apply"}
              /\ th'[u].pc # "idle" => Planned(th[u].upd)'
              /\ th'[u].pc = "drop" => th'[u].rev \in 1 .. Len(revs)
              /\ th'[u].op = "revert" => EditIn(revs)
  PROVE  LoadInv'
<1>1. (EditIn(revs) => EditIn(revs)') /\ ReadInv' /\ Part(doc, doc')
  BY PartOf DEF EditIn, LoadInv, ReadInv
<1> QED BY <1>1, LogLoads

\* An update gets from its way into the log.
LEMMA PersistLoads == ASSUME NoteInv, LoadInv, Note!Persist PROVE LoadInv'
<1>1. /\ chain # <<>> /\ chain' = Tail(chain) /\ UNCHANGED <<doc, revs, th, held, edit>>
      /\ updates' = updates \cup {[seq |-> seq + 1, upd |-> Head(chain), old |-> FALSE]}
  BY DEF Note!Persist
<1> DEFINE u0 == [seq |-> seq + 1, upd |-> Head(chain), old |-> FALSE]
<1>2. DOMAIN u0 = {"seq", "upd", "old"} /\ u0.upd = Head(chain) /\ u0.old = FALSE /\ updates' = updates \cup {u0}
  BY <1>1
<1> HIDE DEF u0
<1>3. /\ \E S : chain' \in Seq(S)
      /\ 1 \in 1 .. Len(chain) /\ Head(chain) = chain[1]
      /\ \A i \in 1 .. Len(chain') : i + 1 \in 1 .. Len(chain) /\ chain'[i] = chain[i + 1]
      /\ \A i \in 1 .. Len(chain) : i = 1 \/ (i - 1 \in 1 .. Len(chain') /\ chain'[i - 1] = chain[i])
  <2>1. PICK S : chain \in Seq(S)
    BY DEF LoadInv, DocInv
  <2>2. chain' \in Seq(S) /\ Len(chain') = Len(chain) - 1 /\ Len(chain) \in Nat /\ Len(chain) # 0
    BY <1>1, <2>1
  <2>3. \A i \in 1 .. Len(chain') : chain'[i] = chain[i + 1]
    BY <1>1, <2>1, <2>2
  <2> QED BY <1>1, <2>1, <2>2, <2>3
<1>4. DocInv'
  <2>1. Part(u0.upd, doc) /\ \A i \in 1 .. Len(chain') : Part(chain'[i], doc)
    BY <1>2, <1>3 DEF LoadInv, DocInv
  <2>2. \A u \in updates' : DOMAIN u = {"seq", "upd", "old"} /\ Part(u.upd, doc)
    BY <1>2, <2>1 DEF LoadInv, DocInv
  <2> QED BY <1>1, <1>3, <2>1, <2>2, Zenon DEF LoadInv, DocInv, DocOf
<1>5. Aged' = Aged
  <2>1. {v \in updates' : v.old} = {v \in updates : v.old}
    BY <1>2
  <2> QED BY <2>1 DEF Aged
<1>6. Part(Note!Merge(Log, Way), Note!Merge(Log', Way'))
  <2> DEFINE m == Note!Merge(Log', Way')
  <2>1. Part(Log', m) /\ Part(Way', m)
    BY MergeParts
  <2>2. (\A u \in updates' : Part(u.upd, Log')) /\ (\A i \in 1 .. Len(chain') : Part(chain'[i], Way'))
    BY InFold DEF Log, Way
  <2>3. \A u \in updates : Part(u.upd, m)
    BY <1>2, <2>1, <2>2, PartOf
  <2>4. \A i \in 1 .. Len(chain) : Part(chain[i], m)
    <3> SUFFICES ASSUME NEW i \in 1 .. Len(chain) PROVE Part(chain[i], m)
      OBVIOUS
    <3>1. CASE i = 1
      <4>1. Part(u0.upd, Log')
        BY <1>2, <2>2
      <4> QED BY <1>2, <1>3, <2>1, <3>1, <4>1, PartOf
    <3>2. CASE i # 1
      BY <1>3, <2>1, <2>2, <3>2, PartOf
    <3> QED BY <3>1, <3>2
  <2> HIDE DEF m
  <2>5. PICK n : n = m
    OBVIOUS
  <2>6. Part(Log, n) /\ Part(Way, n)
    BY <2>3, <2>4, <2>5, InFold DEF Log, Way
  <2> QED BY <2>5, <2>6, MergeParts DEF m
<1>7. ASSUME NEW d, Behind(d) PROVE Behind(d)'
  <2>1. Part(doc, Note!Merge(d, Note!Merge(Log, Way)))
    BY <1>7 DEF Behind
  <2>2. Part(doc, Note!Merge(d, Note!Merge(Log', Way')))
    BY <1>6, <2>1 DEF Part, Note!Merge
  <2> QED BY <1>1, <2>2 DEF Behind
<1>8. Behind(StateIn(revs, Len(revs)))'
  <2>1. PICK d : d = StateIn(revs, Len(revs))
    OBVIOUS
  <2>2. Behind(d)'
    BY <1>7, <2>1 DEF LoadInv, RowsInv
  <2> QED BY <1>1, <2>1, <2>2 DEF Behind, StateIn
<1>9. Part(Aged', Aged) /\ UNCHANGED <<doc, revs, edit, held>>
  BY <1>1, <1>5, PartOf
<1>10. \A u \in Note!Thread : th'[u] = th[u]
  BY <1>1
<1> QED BY <1>4, <1>7, <1>8, <1>9, <1>10, SameDocLoads

\* What is pruned is in the last revision and in every snapshot.
LEMMA PruneLoads == ASSUME NoteInv, LoadInv, NEW t \in Compactor, Note!Prune(t) PROVE LoadInv'
<1>1. /\ t \in Note!Thread /\ th[t].pc = "prune" /\ UNCHANGED <<doc, chain, revs, held, edit>>
      /\ updates' = updates \ Note!Pruned(t) /\ th' = [th EXCEPT ![t].pc = "drop"]
  BY NoteThreads DEF Note!Prune, Note!Goto
<1>2. Stands(th[t], revs) /\ Part(Aged, StateIn(revs, Len(revs))) /\ th[t].rev \in 1 .. Len(revs) /\ Planned(th[t].upd)
  BY <1>1 DEF LoadInv, Stands
<1>3. DocInv'
  <2>1. updates' \subseteq updates
    BY <1>1
  <2> QED BY <1>1, <2>1, Zenon DEF LoadInv, DocInv, DocOf
<1>4. updates' \subseteq updates /\ (\A u \in updates : u \in updates' \/ u.old)
  BY <1>1 DEF Note!Pruned
<1>5. Part(Aged', Aged)
  <2> DEFINE S == {v \in updates : v.old}
  <2> DEFINE T == {v \in updates' : v.old}
  <2>1. T \subseteq S
    BY <1>4
  <2>2. Aged = Note!Fold({u.upd : u \in S}) /\ Aged' = Note!Fold({u.upd : u \in T})
    BY DEF Aged
  <2>3. \A u \in T : Part(u.upd, Aged)
    <3>1. \A u \in S : Part(u.upd, Note!Fold({v.upd : v \in S}))
      BY InFold
    <3> HIDE DEF S, T
    <3> QED BY <2>1, <2>2, <3>1
  <2> HIDE DEF S, T
  <2>4. Part(Note!Fold({u.upd : u \in T}), Aged)
    BY <2>3, InFold
  <2> QED BY <2>2, <2>4
<1>6. ASSUME NEW d, Behind(d), Part(Aged, d) PROVE Behind(d)'
  <2> DEFINE m == Note!Merge(d, Note!Merge(Log', Way))
  <2>1. Part(d, m) /\ Part(Log', m) /\ Part(Way, m)
    BY MergeParts, PartOf
  <2>2. \A u \in updates : Part(u.upd, m)
    <3> SUFFICES ASSUME NEW u \in updates PROVE Part(u.upd, m)
      OBVIOUS
    <3>1. CASE u.old
      <4> DEFINE S == {v \in updates : v.old}
      <4>1. u \in S
        BY <3>1
      <4>2. Part(u.upd, Note!Fold({v.upd : v \in S}))
        <5> HIDE DEF S
        <5> QED BY <4>1, InFold
      <4>3. Part(u.upd, Aged)
        BY <4>2 DEF Aged
      <4> QED BY <1>6, <2>1, <4>3, PartOf
    <3>2. CASE u \in updates'
      <4>1. Part(u.upd, Log')
        BY <3>2, InFold DEF Log
      <4> QED BY <2>1, <4>1, PartOf
    <3> QED BY <1>4, <3>1, <3>2
  <2> HIDE DEF m
  <2>3. PICK n : n = m
    OBVIOUS
  <2>4. Part(Log, n)
    BY <2>2, <2>3, InFold DEF Log
  <2>5. Part(Note!Merge(d, Note!Merge(Log, Way)), m)
    BY <2>1, <2>3, <2>4, MergeParts
  <2>6. Part(doc, m)
    BY <1>6, <2>5, PartOf DEF Behind
  <2>7. Way' = Way
    BY <1>1 DEF Way
  <2> QED BY <1>1, <2>6, <2>7 DEF Behind, m
<1>7. Behind(StateIn(revs, Len(revs)))'
  <2>1. PICK d : d = StateIn(revs, Len(revs))
    OBVIOUS
  <2>2. Behind(d)'
    BY <1>2, <1>6, <2>1 DEF LoadInv, RowsInv
  <2> QED BY <1>1, <2>1, <2>2 DEF Behind, StateIn
<1>8. /\ th'[t].pc = "drop" /\ th'[t].rev = th[t].rev /\ th'[t].op = th[t].op /\ th'[t].upd = th[t].upd
      /\ \A u \in Note!Thread \ {t} : th'[u] = th[u]
  <2>1. DOMAIN th = Note!Thread /\ WellFormed(th[t])
    BY <1>1 DEF NoteInv
  <2> QED BY <1>1, <2>1 DEF WellFormed, Fields
<1>9. \A u \in Note!Thread :
        \/ th'[u] = th[u]
        \/ /\ th'[u].pc \notin Snapping \cup {"prune", "apply"}
           /\ th'[u].pc # "idle" => Planned(th[u].upd)'
           /\ th'[u].pc = "drop" => th'[u].rev \in 1 .. Len(revs)
           /\ th'[u].op = "revert" => EditIn(revs)
  <2>1. th[t].op = "revert" => EditIn(revs)
    BY <1>2 DEF Stands
  <2>2. Planned(th[t].upd)'
    <3>1. PICK y : y = th[t].upd
      OBVIOUS
    <3>2. Planned(y) /\ y = th'[t].upd
      BY <1>2, <1>8, <3>1
    <3>3. Planned(y)'
      BY <1>1, <3>2 DEF Planned
    <3> QED BY <3>2, <3>3 DEF Planned
  <2> QED BY <1>2, <1>8, <2>1, <2>2 DEF Snapping
<1> QED BY <1>1, <1>3, <1>5, <1>6, <1>7, <1>9, SameDocLoads

\* Everything grows older, with nothing under way.
LEMMA AgeLoads == ASSUME NoteInv, LoadInv, Note!Age PROVE LoadInv'
<1>1. /\ UNCHANGED <<doc, chain, edit, held, th>> /\ updates' = {[u EXCEPT !.old = TRUE] : u \in updates}
      /\ revs' = [r \in 1 .. Len(revs) |-> [revs[r] EXCEPT !.old = TRUE]]
      /\ \A t \in Note!Thread : th[t] = Note!Idle
  BY DEF Note!Age
<1>2. Len(revs) \in Nat /\ Len(revs) >= 1
  BY RevisionsLen DEF NoteInv, LoadInv, RowsInv
<1>3. Len(revs') = Len(revs)
  BY <1>1, <1>2
<1>4. \A r \in 1 .. Len(revs) :
        /\ StateIn(revs', r) = StateIn(revs, r) /\ revs'[r].kept = revs[r].kept
        /\ revs'[r].text = revs[r].text /\ revs'[r].blocks = revs[r].blocks
  <2>1. \A r \in 1 .. Len(revs) : DOMAIN revs[r] = RevFields
    BY DEF NoteInv, Revisions
  <2> QED BY <1>1, <2>1 DEF RevFields, StateIn
<1>5. /\ \A v \in updates' : \E u \in updates : DOMAIN v = DOMAIN u /\ v.upd = u.upd
      /\ \A u \in updates : \E v \in updates' : v.upd = u.upd
  <2>1. \A u \in updates : LET v == [u EXCEPT !.old = TRUE] IN v \in updates' /\ DOMAIN v = DOMAIN u /\ v.upd = u.upd
    BY <1>1 DEF LoadInv, DocInv
  <2>2. \A v \in updates' : \E u \in updates : v = [u EXCEPT !.old = TRUE]
    BY <1>1
  <2> QED BY <2>1, <2>2
<1>6. Log' = Log /\ Way' = Way
  <2>1. {u.upd : u \in updates'} = {u.upd : u \in updates}
    BY <1>5
  <2> QED BY <1>1, <2>1 DEF Log, Way
<1>7. DocInv'
  <2>1. \A v \in updates' : DOMAIN v = {"seq", "upd", "old"} /\ Part(v.upd, doc)
    BY <1>5 DEF LoadInv, DocInv
  <2> QED BY <1>1, <2>1, Zenon DEF LoadInv, DocInv, DocOf
<1>8. Note!Idle.pc = "idle" /\ Note!Idle.op = "none"
  BY DEF Note!Idle
<1>9. States' \subseteq States
  <2>1. \A t \in Note!Thread : th[t].pc \notin Snapping /\ th'[t].pc \notin Snapping
    BY <1>1, <1>8 DEF Snapping
  <2>2. States' = {StateIn(revs', r) : r \in 1 .. Len(revs')}
    BY <2>1 DEF States
  <2>3. \A r \in 1 .. Len(revs') : StateIn(revs', r) \in {StateIn(revs, q) : q \in 1 .. Len(revs)}
    BY <1>3, <1>4
  <2> QED BY <2>2, <2>3 DEF States
<1>10. StateInv'
  <2>1. \A d : Sound(d) => Sound(d)'
    BY <1>1 DEF Sound
  <2> QED BY <1>9, <2>1 DEF LoadInv, StateInv
<1>11. RowsInv'
  <2>1. Len(revs) \in 1 .. Len(revs)
    BY <1>2
  <2>2. revs'[Len(revs')].kept
    BY <1>3, <1>4, <2>1 DEF LoadInv, RowsInv
  <2>3. Behind(StateIn(revs, Len(revs)))'
    <3>1. PICK d : d = StateIn(revs, Len(revs))
      OBVIOUS
    <3>2. Behind(d) /\ d = StateIn(revs', Len(revs'))
      BY <1>3, <1>4, <2>1, <3>1 DEF LoadInv, RowsInv
    <3>3. Behind(d)'
      BY <1>1, <1>6, <3>2 DEF Behind
    <3> QED BY <3>2, <3>3 DEF StateIn, Behind
  <2>4. \A r \in 1 .. Len(revs) : IsFiniteSet(revs'[r].text) /\ revs'[r].blocks = Note!Blocks(StateIn(revs', r))
    BY <1>4 DEF LoadInv, RowsInv
  <2>5. \A r \in 1 .. Len(revs') : IsFiniteSet(revs'[r].text) /\ revs'[r].blocks = Note!Blocks(StateIn(revs', r))
    BY <1>3, <2>4
  <2> QED BY <1>2, <1>3, <2>2, <2>3, <2>5 DEF RowsInv
<1>12. ReadInv'
  BY <1>1, <1>3 DEF LoadInv, ReadInv, EditIn
<1>13. \A t \in Note!Thread : Stands(th[t], revs)'
  BY <1>1, <1>8 DEF Stands, Snapping
<1> QED BY <1>7, <1>10, <1>11, <1>12, <1>13 DEF LoadInv

\* The last revision is the latest that has a state.
LEMMA LoadsBackHolds ==
  ASSUME NoteInv, LoadInv
  PROVE  Note!LoadsBack /\ (chain = <<>> => Note!Load = doc)
<1> DEFINE l == Len(revs)
<1>1. l \in Nat /\ l \in Note!Kept /\ (\A q \in Note!Kept : q \in Nat /\ q <= l)
  BY RevisionsLen DEF NoteInv, LoadInv, RowsInv, Note!Kept
<1> HIDE DEF l
<1>2. (CHOOSE r \in Note!Kept : \A q \in Note!Kept : q <= r) = l
  <2> DEFINE k == CHOOSE r \in Note!Kept : \A q \in Note!Kept : q <= r
  <2>1. k \in Note!Kept /\ \A q \in Note!Kept : q <= k
    BY <1>1, Zenon
  <2> HIDE DEF k
  <2>2. k <= l /\ l <= k /\ k \in Nat
    BY <1>1, <2>1
  <2>3. k = l
    BY <1>1, <2>2
  <2> QED BY <2>3 DEF k
<1>3. Note!Load = Note!Merge(StateIn(revs, l), Log)
  BY <1>2 DEF Note!Load, Note!State, StateIn, Log
<1>4. Sound(StateIn(revs, l)) /\ Behind(StateIn(revs, l)) /\ Part(Log, doc) /\ Part(Way, doc)
  <2>1. l \in 1 .. Len(revs)
    BY <1>1 DEF Note!Kept
  <2>2. StateIn(revs, l) \in States
    BY <2>1 DEF States
  <2> QED BY <2>2, AgedInDoc DEF LoadInv, StateInv, RowsInv, l
<1>5. PICK d : d = StateIn(revs, l)
  OBVIOUS
<1>6. Note!Merge(Note!Merge(d, Log), Way) = doc
  <2>1. Part(d, doc) /\ Part(doc, Note!Merge(d, Note!Merge(Log, Way)))
    BY <1>4, <1>5 DEF Sound, Behind
  <2>2. doc = [ins |-> doc.ins, del |-> doc.del]
    BY DEF LoadInv, DocInv, DocOf
  <2>3. /\ doc.ins = d.ins \cup Log.ins \cup Way.ins
        /\ doc.del = d.del \cup Log.del \cup Way.del
    BY <1>4, <2>1 DEF Part, Note!Merge
  <2>4. Note!Merge(Note!Merge(d, Log), Way) = [ins |-> d.ins \cup Log.ins \cup Way.ins, del |-> d.del \cup Log.del \cup Way.del]
    BY DEF Note!Merge
  <2> QED BY <2>2, <2>3, <2>4
<1>7. Note!LoadsBack
  BY <1>3, <1>5, <1>6 DEF Note!LoadsBack, Way
<1>8. ASSUME chain = <<>> PROVE Note!Load = doc
  <2>1. Way = Note!Empty
    <3>1. {chain[i] : i \in 1 .. Len(chain)} = {}
      BY <1>8
    <3> QED BY <3>1 DEF Way, Note!Fold, Note!Empty
  <2>2. Note!Merge(Note!Merge(d, Log), Way) = Note!Merge(d, Log)
    BY <2>1 DEF Note!Merge, Note!Empty
  <2> QED BY <1>3, <1>5, <1>6, <2>2
<1> QED BY <1>7, <1>8

\* A crash with nothing on its way to the log loads what was in memory.
LEMMA CrashLoads == ASSUME NoteInv, LoadInv, Note!Crash, chain = <<>> PROVE LoadInv'
<1>1. UNCHANGED <<doc, chain, updates, revs, held, edit>> /\ th' = [t \in Note!Thread |-> Note!Idle]
  BY LoadsBackHolds DEF Note!Crash, Note!store
<1>2. Note!Idle.pc = "idle" /\ Note!Idle.op = "none"
  BY DEF Note!Idle
<1>3. Log' = Log /\ Way' = Way /\ Aged' = Aged
  BY <1>1 DEF Log, Way, Aged
<1>4. DocInv'
  BY <1>1, Zenon DEF LoadInv, DocInv, DocOf
<1>5. \A d : Behind(d) => Behind(d)'
  BY <1>1, <1>3 DEF Behind
<1>6. Behind(StateIn(revs, Len(revs)))'
  <2>1. PICK d : d = StateIn(revs, Len(revs))
    OBVIOUS
  <2>2. Behind(d)'
    BY <1>5, <2>1 DEF LoadInv, RowsInv
  <2> QED BY <1>1, <2>1, <2>2 DEF Behind, StateIn
<1>7. \A u \in Note!Thread : th'[u].pc = "idle" /\ th'[u].op = "none"
  BY <1>1, <1>2
<1>8. \A u \in Note!Thread :
        \/ th'[u] = th[u]
        \/ /\ th'[u].pc \notin Snapping \cup {"prune", "apply"}
           /\ th'[u].pc # "idle" => Planned(th[u].upd)'
           /\ th'[u].pc = "drop" => th'[u].rev \in 1 .. Len(revs)
           /\ th'[u].op = "revert" => EditIn(revs)
  BY <1>7 DEF Snapping
<1>9. Part(Aged', Aged)
  BY <1>3, PartOf
<1> QED BY <1>1, <1>4, <1>5, <1>6, <1>8, <1>9, SameDocLoads

LEMMA LoadNext ==
  ASSUME NoteInv, NoteInv', LoadInv, [Note!Next]_noteVars, [Note!Crash => chain = <<>>]_noteVars
  PROVE  LoadInv'
<1>1. CASE UNCHANGED noteVars
  <2>1. UNCHANGED <<doc, chain, updates, revs, held, edit, th>>
    BY <1>1 DEF noteVars
  <2>2. Log' = Log /\ Way' = Way /\ Aged' = Aged
    BY <2>1 DEF Log, Way, Aged
  <2>3. DocInv'
    BY <2>1, Zenon DEF LoadInv, DocInv, DocOf
  <2>4. \A d : Behind(d) => Behind(d)'
    BY <2>1, <2>2 DEF Behind
  <2>5. Behind(StateIn(revs, Len(revs)))'
    <3>1. PICK d : d = StateIn(revs, Len(revs))
      OBVIOUS
    <3>2. Behind(d)'
      BY <2>4, <3>1 DEF LoadInv, RowsInv
    <3> QED BY <2>1, <3>1, <3>2 DEF Behind, StateIn
  <2>6. Part(Aged', Aged) /\ \A u \in Note!Thread : th'[u] = th[u]
    BY <2>1, <2>2, PartOf
  <2> QED BY <2>1, <2>3, <2>4, <2>5, <2>6, SameDocLoads
<1>2. CASE Note!Crash /\ ~UNCHANGED noteVars
  BY <1>2, CrashLoads
<1>3. CASE Note!Type \/ Note!Apply \/ Note!Persist \/ Note!Age
  BY <1>3, TypeLoads, ApplyLoads, PersistLoads, AgeLoads
<1>4. CASE Note!ReadNote \/ Note!ProposeEdit \/ Note!RevertAiEdit \/ Note!Restore
  BY <1>4, CallsLoad
<1>5. CASE Note!ReadBase \/ Note!TakeBack \/ Note!PutBack
  BY <1>5, ReadLoads, PlanLoads
<1>6. CASE \E t \in Compactor : Note!Compact(t) \/ Note!MaxSeq(t) \/ Note!Prune(t) \/ Note!Drop(t)
  BY <1>6, CompactLoads, PruneLoads, DropLoads
<1>7. CASE \E t \in Note!Thread : Note!Cutting(t) \/ Note!Flush(t)
  BY <1>7, CaptureLoads, InsertLoads, LabelLoads, UpgradeLoads, FlushLoads DEF Note!Cutting
<1> QED BY <1>1, <1>2, <1>3, <1>4, <1>5, <1>6, <1>7, Zenon DEF Note!Next

-------------------------------------------------------------------------------
\* The journal's steps are those of the session, and while another component is at work it rests.
LEMMA SessionSteps ==
  ASSUME [SessionNext]_sessionVars
  PROVE  /\ [Journal!Next]_journalVars /\ [Note!Next]_noteVars
BY DEF SessionNext, sessionVars, journalVars, noteVars

\* A row of the journal says "running" only while a call works on it or after a crash, also where
\* calls of tool code share a key (ToolboxImpl.invoke).
THEOREM RowsAreSettled == SessionSpec => []RowsSettle
<1>1. SessionInit => JournalInv
  BY JournalInit DEF SessionInit
<1>2. JournalInv /\ [SessionNext]_sessionVars => JournalInv'
  BY JournalNext, SessionSteps
<1>3. JournalInv => RowsSettle
  BY DEF JournalInv
<1> QED BY <1>1, <1>2, <1>3, PTL DEF SessionSpec

\* The ceiling on a session's tools, which is read before a call and charged after it, is passed by no
\* more than what the other calls under way cost, over every failure, retry and restart (invoke,
\* sessionCostUnits).
THEOREM OverrunIsBounded == SessionSpec => []OverrunBounded
<1>1. SessionInit => JournalInv /\ BudgetInv
  BY JournalInit, BudgetInit DEF SessionInit
<1>2. JournalInv /\ BudgetInv /\ [SessionNext]_sessionVars => JournalInv' /\ BudgetInv'
  BY JournalNext, BudgetNext, SessionSteps
<1> QED BY <1>1, <1>2, BudgetHolds, PTL DEF SessionSpec

\* What the journal has of a completed call of the run loop stays as it is, over every retry and
\* restart and whatever tool code calls beside it (executionKey, ToolJournal.begin and fail).
THEOREM CompletedRowsStay == SessionSpec => JournalStable
<1>1. SessionInit => JournalInv
  BY JournalInit DEF SessionInit
<1>2. JournalInv /\ [SessionNext]_sessionVars => JournalInv'
  BY JournalNext, SessionSteps
<1>3. JournalInv /\ [SessionNext]_sessionVars =>
        [\A k \in Journal!Key : k[1] = 0 /\ row[k].status = "completed" => row'[k] = row[k]]_Journal!vars
  BY CompletedStays, SessionSteps
<1> QED BY <1>1, <1>2, <1>3, PTL DEF SessionSpec, JournalStable, Journal!JournalStable

\* An AI's edit takes nothing out of a note that the AI had not been given to read, whatever people
\* typed, compaction cut and restarts lost between the read and the merge (proposeEdit).
THEOREM EditsKeepOthers == SessionSpec => EditKeepsOthers
<1>1. SessionInit => NoteInv
  BY NoteInit DEF SessionInit
<1>2. NoteInv /\ [SessionNext]_sessionVars => NoteInv'
  BY NoteNext, SessionSteps
<1>3. NoteInv /\ [SessionNext]_sessionVars =>
        [th[Svc].op = "edit" /\ th[Svc].pc = "apply" /\ th'[Svc].pc = "stored" /\ held.text = revs[held.rev].text
           => Note!Text(doc) \ Note!Text(doc') \subseteq held.text]_Note!vars
  BY EditTakesOut, SessionSteps
<1> QED BY <1>1, <1>2, <1>3, PTL DEF SessionSpec, EditKeepsOthers, Note!EditKeepsOthers

\* No crash takes an update with it that was still on its way to the log.
NothingLost == [][Note!Crash => chain = <<>>]_noteVars

\* What a restart would load, with the updates still on their way, is what is in memory, whatever
\* reads, edits, reverts, compaction and pruning were under way, in any number and order, as long as
\* the crashes before it took no update with them (load, cutSnapshot, cutRevision, compactOne).
THEOREM RestartsLoadBack == SessionSpec /\ NothingLost => []LoadsBack
<1>1. SessionInit => NoteInv /\ LoadInv
  BY NoteInit, LoadInit DEF SessionInit
<1>2. NoteInv /\ [SessionNext]_sessionVars => NoteInv'
  BY NoteNext, SessionSteps
<1>3. NoteInv /\ NoteInv' /\ LoadInv /\ [SessionNext]_sessionVars /\ [Note!Crash => chain = <<>>]_noteVars => LoadInv'
  BY LoadNext, SessionSteps
<1>4. NoteInv /\ LoadInv => LoadsBack
  BY LoadsBackHolds DEF LoadsBack
<1> QED BY <1>1, <1>2, <1>3, <1>4, PTL DEF SessionSpec, NothingLost
===============================================================================
