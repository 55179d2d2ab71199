------------------------------ MODULE BusProofs ------------------------------
(***************************************************************************)
(* AcceptedOnce and ExactlyOnce of EventBus, for any webhooks, events and  *)
(* numbers of passes.                                                      *)
(*                                                                         *)
(* A pass posts from the rows it read at its start, and a row is updated   *)
(* after the answer.  That no accepted delivery is posted again rests on   *)
(* `inflight`, which lets one pass run at a time and no prune beside it,   *)
(* so that a row in the hands of a pass stays pending and in no other's.   *)
(* A crash between answer and update is what costs one more POST.          *)
(*                                                                         *)
(* That a client gets each event once rests on the order of subscribing    *)
(* and reading: what the replay owes is in the outbox until it is read,    *)
(* what is announced meanwhile is held, and the flush sends both through   *)
(* the filter of duplicates.                                               *)
(***************************************************************************)
EXTENDS EventBus, FiniteSetTheorems, WellFoundedInduction, TLAPS

Row == [status : {"none", "pending", "delivered", "failed"}, tries : Nat, due : BOOLEAN]
Job == [d : Delivery, tries : Nat, stored : BOOLEAN]
Work == [pc : {"idle", "next", "ok", "err"}, hooks : SUBSET Hook, todo : SUBSET Job,
         at : Delivery \cup {None}, tries : Nat]

Typed ==
  /\ pub \in [Event -> [pc : {"none", "insert", "enqueue", "done", "lost"}, todo : SUBSET Hook]]
  /\ hooks \subseteq Hook
  /\ row \in [Delivery -> Row] /\ pass \in [Pass -> Work]
  /\ crashes \in Nat /\ accepted \in [Delivery -> Nat]

\* A row that is still to be made has been posted by nobody.
Unmade(d) == pub[d[1]].pc \in {"none", "insert"} \/ d[2] \in pub[d[1]].todo
Fresh == \A d \in Delivery : Unmade(d) => row[d].status = "none" /\ accepted[d] = 0

\* One pass at a time.
OnePass == \A p, q \in Pass : p # q => pass[p].pc = "idle" \/ pass[q].pc = "idle"

\* What a pass has in hand is pending, once, and not accepted but for the row whose
\* answer it has.
InHand(p) ==
  /\ pass[p].pc = "idle" => pass[p].todo = {}
  /\ \A x \in pass[p].todo : row[x.d].status = "pending" /\ accepted[x.d] <= crashes
  /\ \A x, y \in pass[p].todo : x.d = y.d => x = y
  /\ pass[p].pc \in {"ok", "err"} =>
       /\ pass[p].at \in Delivery /\ row[pass[p].at].status = "pending"
       /\ \A x \in pass[p].todo : x.d # pass[p].at
  /\ pass[p].pc = "err" => accepted[pass[p].at] <= crashes

Answered(d) == \E p \in Pass : pass[p].pc = "ok" /\ pass[p].at = d

\* A pending row that nobody has the answer of was not accepted since the last crash.
Pending == \A d \in Delivery : row[d].status = "pending" => Answered(d) \/ accepted[d] <= crashes

BusInv == Typed /\ Fresh /\ OnePass /\ (\A p \in Pass : InHand(p)) /\ Pending /\ AcceptedOnce

LEMMA IdleType == Idle \in Work /\ NoRow \in Row
BY DEF Idle, Work, NoRow, Row

LEMMA BusInit == Init => BusInv
<1> SUFFICES ASSUME Init PROVE BusInv
  OBVIOUS
<1>1. Typed
  BY IdleType DEF Init, Typed
<1>2. Fresh
  BY DEF Init, Fresh, Unmade, NoRow, Delivery
<1>3. OnePass /\ (\A p \in Pass : InHand(p)) /\ Pending /\ AcceptedOnce
  BY DEF Init, OnePass, InHand, Pending, AcceptedOnce, Idle, NoRow
<1> QED BY <1>1, <1>2, <1>3 DEF BusInv

\* Steps that touch neither rows nor passes nor POSTs.
LEMMA Aside ==
  ASSUME BusInv, UNCHANGED <<row, pass, accepted, crashes>>, Typed', Fresh'
  PROVE  BusInv'
BY DEF BusInv, OnePass, InHand, Pending, AcceptedOnce, Answered

LEMMA PublishKeeps ==
  ASSUME BusInv, NEW e \in Event, Mint(e) \/ Insert(e) \/ Publish(e)
  PROVE  BusInv'
<1>1. UNCHANGED <<row, pass, accepted, crashes, hooks>>
  BY DEF Mint, Insert, Publish, bounds
<1>2. Typed /\ Fresh
  BY DEF BusInv
<1>3. PICK r \in [pc : {"none", "insert", "enqueue", "done", "lost"}, todo : SUBSET Hook] :
        /\ pub' = [pub EXCEPT ![e] = r]
        /\ pub[e].pc \in {"none", "insert"} \/ r.todo = pub[e].todo
        /\ r.pc \in {"none", "insert"} => pub[e].pc = "none"
  <2>1. pub[e] \in [pc : {"none", "insert", "enqueue", "done", "lost"}, todo : SUBSET Hook]
    BY <1>2 DEF Typed
  <2>2. CASE Mint(e)
    <3>1. [pub[e] EXCEPT !.pc = "insert"] \in [pc : {"none", "insert", "enqueue", "done", "lost"}, todo : SUBSET Hook]
      BY <2>1
    <3>2. pub' = [pub EXCEPT ![e] = [pub[e] EXCEPT !.pc = "insert"]] /\ pub[e].pc = "none"
      BY <2>2 DEF Mint
    <3> QED BY <3>1, <3>2
  <2>3. CASE Insert(e)
    BY <1>2, <2>3 DEF Insert, Typed
  <2>4. CASE Publish(e)
    <3> DEFINE r == [pub[e] EXCEPT !.pc = "done"]
    <3>1. r \in [pc : {"none", "insert", "enqueue", "done", "lost"}, todo : SUBSET Hook]
          /\ r.todo = pub[e].todo /\ r.pc = "done"
      BY <2>1
    <3>2. pub' = [pub EXCEPT ![e] = r]
      BY <2>4 DEF Publish
    <3> QED BY <3>1, <3>2
  <2> QED BY <2>2, <2>3, <2>4
<1>4. /\ pub' \in [Event -> [pc : {"none", "insert", "enqueue", "done", "lost"}, todo : SUBSET Hook]]
      /\ pub'[e] = r /\ \A f \in Event \ {e} : pub'[f] = pub[f]
  BY <1>2, <1>3 DEF Typed
<1>5. Typed'
  BY <1>1, <1>2, <1>4 DEF Typed
<1>6. \A d \in Delivery : Unmade(d)' => Unmade(d)
  <2> SUFFICES ASSUME NEW d \in Delivery, Unmade(d)' PROVE Unmade(d)
    OBVIOUS
  <2>1. d[1] \in Event
    BY DEF Delivery
  <2>2. CASE d[1] = e
    BY <1>3, <1>4, <2>2 DEF Unmade
  <2>3. CASE d[1] # e
    BY <1>4, <2>1, <2>3 DEF Unmade
  <2> QED BY <2>2, <2>3
<1>7. Fresh'
  BY <1>1, <1>2, <1>6 DEF Fresh
<1> QED BY <1>1, <1>5, <1>7, Aside

LEMMA AsideKeeps ==
  ASSUME BusInv, \/ \E h \in Hook : Unconfigure(h)
                 \/ Connect \/ ReadOutbox \/ Flush \/ Disconnect
                 \/ UNCHANGED vars
  PROVE  BusInv'
<1>1. UNCHANGED <<pub, row, pass, accepted, crashes>> /\ hooks' \subseteq hooks
  BY DEF Unconfigure, Connect, ReadOutbox, Flush, Disconnect, vars, bounds
<1>2. Typed' /\ Fresh'
  BY <1>1 DEF BusInv, Typed, Fresh, Unmade
<1> QED BY <1>1, <1>2, Aside

LEMMA EnqueueKeeps ==
  ASSUME BusInv, NEW e \in Event, NEW h \in Hook, Enqueue(e, h)
  PROVE  BusInv'
<1> DEFINE c == <<e, h>>
<1>1. /\ Typed /\ c \in Delivery /\ h \in pub[e].todo /\ pub[e].pc = "enqueue"
      /\ row[c].status = "none" /\ accepted[c] = 0
      /\ UNCHANGED <<hooks, pass, accepted, crashes>>
  BY DEF BusInv, Fresh, Unmade, Enqueue, Delivery, bounds
<1>2. /\ pub' \in [Event -> [pc : {"none", "insert", "enqueue", "done", "lost"}, todo : SUBSET Hook]]
      /\ pub'[e].pc = "enqueue" /\ pub'[e].todo = pub[e].todo \ {h}
      /\ \A f \in Event \ {e} : pub'[f] = pub[f]
  BY <1>1 DEF Enqueue, Typed
<1>3. /\ row' \in [Delivery -> Row] /\ row'[c].status = "pending"
      /\ \A d \in Delivery \ {c} : row'[d] = row[d]
  BY <1>1 DEF Enqueue, Typed, Row
<1>4. Typed'
  BY <1>1, <1>2, <1>3 DEF Typed
<1>5. Fresh'
  <2> SUFFICES ASSUME NEW d \in Delivery, Unmade(d)' PROVE d # c /\ Unmade(d)
    BY <1>1, <1>3 DEF BusInv, Fresh
  <2>1. d = <<d[1], d[2]>> /\ d[1] \in Event /\ d[2] \in Hook
    BY DEF Delivery
  <2>2. d # c
    BY <1>2 DEF Unmade
  <2>3. Unmade(d)
    BY <1>2, <2>1, <2>2 DEF Unmade
  <2> QED BY <2>2, <2>3
<1> HIDE DEF c
<1>6. OnePass' /\ AcceptedOnce'
  BY <1>1 DEF BusInv, OnePass, AcceptedOnce
<1>7. \A p \in Pass : InHand(p)'
  <2> SUFFICES ASSUME NEW p \in Pass PROVE InHand(p)'
    OBVIOUS
  <2>1. InHand(p) /\ pass[p] \in Work /\ pass'[p] = pass[p]
    BY <1>1 DEF BusInv, Typed
  <2>2. \A x \in pass[p].todo : x.d \in Delivery /\ row'[x.d] = row[x.d]
    BY <1>1, <1>3, <2>1 DEF InHand, Work, Job
  <2>3. pass[p].pc \in {"ok", "err"} => row'[pass[p].at] = row[pass[p].at]
    BY <1>1, <1>3, <2>1 DEF InHand
  <2> QED BY <1>1, <2>1, <2>2, <2>3 DEF InHand
<1>8. Pending'
  BY <1>1, <1>3 DEF BusInv, Pending, Answered, Typed
<1> QED BY <1>4, <1>5, <1>6, <1>7, <1>8 DEF BusInv

\* ---------------------------------------------------------------- deliveries

LEMMA BackoffKeeps ==
  ASSUME BusInv, NEW c \in Delivery, BackoffEnds(c)
  PROVE  BusInv'
<1>1. /\ Typed /\ UNCHANGED <<pub, hooks, pass, accepted, crashes>>
      /\ row' = [row EXCEPT ![c].due = TRUE]
  BY DEF BusInv, BackoffEnds, bounds
<1>2. row' \in [Delivery -> Row] /\ \A d \in Delivery : row'[d].status = row[d].status
  BY <1>1 DEF Typed, Row
<1>3. Typed' /\ Fresh'
  BY <1>1, <1>2 DEF BusInv, Typed, Fresh, Unmade
<1>4. OnePass' /\ AcceptedOnce' /\ Pending'
  BY <1>1, <1>2 DEF BusInv, OnePass, AcceptedOnce, Pending, Answered
<1>5. \A p \in Pass : InHand(p)'
  <2> SUFFICES ASSUME NEW p \in Pass PROVE InHand(p)'
    OBVIOUS
  <2>1. InHand(p) /\ pass[p] \in Work /\ \A x \in pass[p].todo : x.d \in Delivery
    BY <1>1 DEF BusInv, Typed, Work, Job
  <2> QED BY <1>1, <1>2, <2>1 DEF InHand
<1> QED BY <1>3, <1>4, <1>5 DEF BusInv

LEMMA StartKeeps ==
  ASSUME BusInv, NEW p \in Pass, StartPass(p)
  PROVE  BusInv'
<1> DEFINE due == {d \in Delivery : row[d].status = "pending" /\ row[d].due}
<1> DEFINE jobs == {[d |-> d, tries |-> row[d].tries, stored |-> d[1] \in outbox] : d \in due}
<1> DEFINE w == [Idle EXCEPT !.pc = "next", !.hooks = hooks, !.todo = jobs]
<1>1. /\ Typed /\ UNCHANGED <<pub, hooks, row, accepted, crashes>>
      /\ pass' = [pass EXCEPT ![p] = w] /\ \A q \in Pass : pass[q].pc = "idle"
  BY DEF BusInv, StartPass, MayTick, bounds
<1>2. /\ jobs \subseteq Job /\ \A x \in jobs : row[x.d].status = "pending"
      /\ \A x, y \in jobs : x.d = y.d => x = y
  <2> DEFINE job(d) == [d |-> d, tries |-> row[d].tries, stored |-> d[1] \in outbox]
  <2>1. \A d \in Delivery : row[d].tries \in Nat
    BY <1>1 DEF Typed, Row
  <2>2. \A d \in due : job(d) \in Job /\ job(d).d = d /\ row[d].status = "pending"
    BY <2>1 DEF Job
  <2>3. jobs = {job(d) : d \in due}
    OBVIOUS
  <2> HIDE DEF job, jobs
  <2> QED BY <2>2, <2>3
<1> HIDE DEF jobs
<1>3. w \in Work /\ w.pc = "next" /\ w.todo = jobs
  BY <1>1, <1>2, IdleType DEF Typed, Work, Idle
<1> HIDE DEF w
<1>4. pass' \in [Pass -> Work] /\ pass'[p] = w /\ \A q \in Pass \ {p} : pass'[q] = pass[q]
  BY <1>1, <1>3 DEF Typed
<1>5. \A d \in Delivery : row[d].status = "pending" => accepted[d] <= crashes
  BY <1>1 DEF BusInv, Pending, Answered
<1>6. Typed' /\ Fresh' /\ AcceptedOnce'
  BY <1>1, <1>4 DEF BusInv, Typed, Fresh, Unmade, AcceptedOnce
<1>7. OnePass' /\ Pending'
  BY <1>1, <1>4, <1>5 DEF OnePass, Pending
<1>8. \A q \in Pass : InHand(q)'
  <2>1. InHand(p)'
    BY <1>1, <1>2, <1>3, <1>4, <1>5 DEF InHand, Job
  <2>2. ASSUME NEW q \in Pass \ {p} PROVE InHand(q)'
    BY <1>1, <1>4, <2>2 DEF BusInv, InHand
  <2> QED BY <2>1, <2>2
<1> QED BY <1>6, <1>7, <1>8 DEF BusInv

\* The others are idle while a pass goes on.
LEMMA OthersIdle ==
  ASSUME BusInv, NEW p \in Pass, pass[p].pc # "idle", NEW w \in Work, pass' = [pass EXCEPT ![p] = w]
  PROVE  /\ pass' \in [Pass -> Work] /\ pass'[p] = w
         /\ \A q \in Pass \ {p} : pass'[q] = pass[q] /\ pass[q].pc = "idle"
         /\ OnePass' /\ \A q \in Pass \ {p} : InHand(q)'
<1>1. /\ pass' \in [Pass -> Work] /\ pass'[p] = w
      /\ \A q \in Pass \ {p} : pass'[q] = pass[q] /\ pass[q].pc = "idle"
  BY DEF BusInv, Typed, OnePass
<1>2. OnePass'
  BY <1>1 DEF OnePass
<1>3. ASSUME NEW q \in Pass \ {p} PROVE InHand(q)'
  BY <1>1, <1>3 DEF BusInv, InHand
<1> QED BY <1>1, <1>2, <1>3

LEMMA GiveUpKeeps ==
  ASSUME BusInv, NEW p \in Pass, NEW x \in pass[p].todo, GiveUp(p, x)
  PROVE  BusInv'
<1> DEFINE w == [pass[p] EXCEPT !.todo = @ \ {x}]
<1>1. /\ Typed /\ InHand(p) /\ pass[p] \in Work /\ pass[p].pc = "next" /\ x.d \in Delivery
      /\ UNCHANGED <<pub, hooks, accepted, crashes>> /\ row' = [row EXCEPT ![x.d].status = "failed"]
      /\ pass' = [pass EXCEPT ![p] = w]
  BY DEF BusInv, Typed, Work, Job, GiveUp, bounds
<1>2. w \in Work /\ w.pc = "next" /\ w.todo = pass[p].todo \ {x}
  BY <1>1 DEF Work
<1> HIDE DEF w
<1>3. /\ row' \in [Delivery -> Row] /\ row'[x.d].status = "failed"
      /\ \A d \in Delivery \ {x.d} : row'[d] = row[d]
  BY <1>1 DEF Typed, Row
<1>4. /\ pass' \in [Pass -> Work] /\ pass'[p] = w
      /\ \A q \in Pass \ {p} : pass'[q] = pass[q] /\ pass[q].pc = "idle"
      /\ OnePass' /\ \A q \in Pass \ {p} : InHand(q)'
  BY <1>1, <1>2, OthersIdle
<1>5. row[x.d].status = "pending"
  BY <1>1 DEF InHand
<1>6. Typed' /\ AcceptedOnce'
  BY <1>1, <1>3, <1>4 DEF BusInv, Typed, AcceptedOnce
<1>7. Fresh'
  BY <1>1, <1>3, <1>5 DEF BusInv, Fresh, Unmade
<1>8. InHand(p)'
  <2>1. \A y \in w.todo : y.d \in Delivery /\ y.d # x.d
    BY <1>1, <1>2 DEF InHand, Work, Job
  <2> QED BY <1>1, <1>2, <1>3, <1>4, <2>1 DEF InHand
<1>9. Pending'
  <2>1. \A q \in Pass : pass[q].pc # "ok"
    BY <1>1, <1>4
  <2> QED BY <1>1, <1>3, <2>1 DEF BusInv, Pending, Answered
<1> QED BY <1>4, <1>6, <1>7, <1>8, <1>9 DEF BusInv

LEMMA PostKeeps ==
  ASSUME BusInv, NEW p \in Pass, NEW x \in pass[p].todo, Post(p, x)
  PROVE  BusInv'
<1>1. /\ Typed /\ InHand(p) /\ pass[p] \in Work /\ pass[p].pc = "next"
      /\ x.d \in Delivery /\ x.tries \in Nat
      /\ UNCHANGED <<pub, hooks, row, crashes>>
  BY DEF BusInv, Typed, Work, Job, Post, bounds
<1>2. PICK answer \in {"ok", "err"} :
        /\ accepted' = IF answer = "ok" THEN [accepted EXCEPT ![x.d] = @ + 1] ELSE accepted
        /\ pass' = [pass EXCEPT ![p].pc = answer, ![p].todo = @ \ {x},
                                ![p].at = x.d, ![p].tries = x.tries]
  BY DEF Post
<1> DEFINE w == [pass[p] EXCEPT !.pc = answer, !.todo = @ \ {x}, !.at = x.d, !.tries = x.tries]
<1>3. /\ w \in Work /\ w.pc = answer /\ w.todo = pass[p].todo \ {x} /\ w.at = x.d
      /\ pass' = [pass EXCEPT ![p] = w]
  <2>1. w \in Work /\ w.pc = answer /\ w.todo = pass[p].todo \ {x} /\ w.at = x.d
    BY <1>1 DEF Work
  <2>2. pass' = [pass EXCEPT ![p] = w]
    BY <1>2
  <2> QED BY <2>1, <2>2
<1> HIDE DEF w
<1>4. /\ pass' \in [Pass -> Work] /\ pass'[p] = w
      /\ \A q \in Pass \ {p} : pass'[q] = pass[q] /\ pass[q].pc = "idle"
      /\ OnePass' /\ \A q \in Pass \ {p} : InHand(q)'
  <2>1. w \in Work /\ pass[p].pc # "idle" /\ pass' = [pass EXCEPT ![p] = w]
    BY <1>1, <1>3
  <2>2. /\ pass' \in [Pass -> Work] /\ pass'[p] = w
        /\ \A q \in Pass \ {p} : pass'[q] = pass[q] /\ pass[q].pc = "idle"
        /\ OnePass' /\ \A q \in Pass \ {p} : InHand(q)'
    BY <2>1, OthersIdle
  <2> QED BY <2>2
<1>5. /\ accepted' \in [Delivery -> Nat]
      /\ \A d \in Delivery \ {x.d} : accepted'[d] = accepted[d]
      /\ accepted'[x.d] = IF answer = "ok" THEN accepted[x.d] + 1 ELSE accepted[x.d]
  BY <1>1, <1>2 DEF Typed
<1>6. row[x.d].status = "pending" /\ accepted[x.d] <= crashes /\ accepted[x.d] \in Nat /\ crashes \in Nat
  BY <1>1 DEF InHand, Typed
<1>7. Typed' /\ Fresh'
  BY <1>1, <1>4, <1>5, <1>6 DEF BusInv, Typed, Fresh, Unmade
<1>8. AcceptedOnce'
  BY <1>1, <1>5, <1>6 DEF BusInv, AcceptedOnce
<1>9. InHand(p)'
  <2>1. \A y \in w.todo : y.d \in Delivery /\ y.d # x.d
    BY <1>1, <1>3 DEF InHand, Work, Job
  <2> QED BY <1>1, <1>3, <1>4, <1>5, <1>6, <2>1 DEF InHand
<1>10. Pending'
  <2> SUFFICES ASSUME NEW d \in Delivery, row[d].status = "pending"
               PROVE  Answered(d)' \/ accepted'[d] <= crashes
    BY <1>1 DEF Pending
  <2>1. CASE d = x.d /\ answer = "ok"
    BY <1>3, <1>4, <2>1 DEF Answered
  <2>2. CASE d = x.d /\ answer = "err"
    BY <1>5, <1>6, <2>2
  <2>3. CASE d # x.d
    <3>1. ~Answered(d)
      BY <1>1, <1>4 DEF Answered
    <3> QED BY <1>5, <2>3, <3>1 DEF BusInv, Pending
  <2> QED BY <2>1, <2>2, <2>3
<1> QED BY <1>4, <1>7, <1>8, <1>9, <1>10 DEF BusInv

\* The row of the delivery at hand is updated.
LEMMA UpdateKeeps ==
  ASSUME BusInv, NEW p \in Pass, Delivered(p) \/ Fail(p)
  PROVE  BusInv'
<1> DEFINE c == pass[p].at
<1> DEFINE w == [pass[p] EXCEPT !.pc = "next", !.at = None, !.tries = 0]
<1>1. /\ Typed /\ InHand(p) /\ pass[p] \in Work /\ pass[p].pc \in {"ok", "err"}
      /\ c \in Delivery /\ row[c].status = "pending" /\ row[c] \in Row
      /\ UNCHANGED <<pub, hooks, accepted, crashes>> /\ pass' = [pass EXCEPT ![p] = w]
  BY DEF BusInv, Typed, InHand, Delivered, Fail, bounds
<1>2. w \in Work /\ w.pc = "next" /\ w.todo = pass[p].todo
  BY <1>1 DEF Work
<1>3. PICK r \in Row : row' = [row EXCEPT ![c] = r] /\ (r.status = "pending" => pass[p].pc = "err")
  <2>1. CASE Delivered(p)
    <3> DEFINE r == [row[c] EXCEPT !.status = "delivered", !.tries = @ + 1]
    <3>1. r \in Row /\ r.status = "delivered"
      <4>1. row[c].tries + 1 \in Nat
        BY <1>1 DEF Row
      <4> QED BY <1>1, <4>1 DEF Row
    <3>2. row' = [row EXCEPT ![c] = r]
      BY <2>1 DEF Delivered
    <3> QED BY <3>1, <3>2
  <2>2. CASE Fail(p)
    <3> DEFINE n == pass[p].tries + 1
    <3> DEFINE r == [status |-> IF NoMore(n) THEN "failed" ELSE row[c].status, tries |-> n, due |-> NoMore(n)]
    <3>1. pass[p].tries \in Nat /\ NoMore(n) \in BOOLEAN
      BY <1>1 DEF Work, NoMore
    <3>2. r \in Row
      BY <1>1, <3>1 DEF Row
    <3>3. row' = [row EXCEPT ![c] = r] /\ pass[p].pc = "err"
      BY <2>2 DEF Fail
    <3> QED BY <3>2, <3>3
  <2> QED BY <1>1, <2>1, <2>2
<1>4. /\ row' \in [Delivery -> Row] /\ row'[c] = r /\ \A d \in Delivery \ {c} : row'[d] = row[d]
  BY <1>1, <1>3 DEF Typed
<1>5. c \in Delivery /\ \A y \in pass[p].todo : y.d \in Delivery /\ y.d # c
  BY <1>1 DEF InHand, Work, Job
<1> HIDE DEF w
<1>6. /\ pass' \in [Pass -> Work] /\ pass'[p] = w
      /\ \A q \in Pass \ {p} : pass'[q] = pass[q] /\ pass[q].pc = "idle"
      /\ OnePass' /\ \A q \in Pass \ {p} : InHand(q)'
  BY <1>1, <1>2, OthersIdle
<1>7. Typed' /\ AcceptedOnce'
  BY <1>1, <1>4, <1>6 DEF BusInv, Typed, AcceptedOnce
<1>8. Fresh'
  BY <1>1, <1>4 DEF BusInv, Fresh, Unmade
<1>9. InHand(p)'
  BY <1>1, <1>2, <1>4, <1>5, <1>6 DEF InHand
<1>10. Pending'
  <2> SUFFICES ASSUME NEW d \in Delivery, row'[d].status = "pending" PROVE accepted[d] <= crashes
    BY <1>1 DEF Pending
  <2>1. CASE d = c
    BY <1>1, <1>3, <1>4, <2>1 DEF InHand
  <2>2. CASE d # c
    <3>1. ~Answered(d) /\ row[d].status = "pending"
      BY <1>4, <1>6, <2>2 DEF Answered
    <3> QED BY <3>1 DEF BusInv, Pending
  <2> QED BY <2>1, <2>2
<1> QED BY <1>6, <1>7, <1>8, <1>9, <1>10 DEF BusInv

LEMMA EndKeeps ==
  ASSUME BusInv, NEW p \in Pass, EndPass(p)
  PROVE  BusInv'
<1>1. /\ Typed /\ InHand(p) /\ pass[p].pc = "next" /\ pass' = [pass EXCEPT ![p] = Idle]
      /\ UNCHANGED <<pub, hooks, row, accepted, crashes>>
  BY DEF BusInv, EndPass, Ended, bounds
<1>2. /\ pass' \in [Pass -> Work] /\ pass'[p] = Idle
      /\ \A q \in Pass \ {p} : pass'[q] = pass[q] /\ pass[q].pc = "idle"
      /\ OnePass' /\ \A q \in Pass \ {p} : InHand(q)'
  BY <1>1, IdleType, OthersIdle
<1>3. Idle.pc = "idle" /\ Idle.todo = {}
  BY DEF Idle
<1>4. InHand(p)'
  BY <1>2, <1>3 DEF InHand
<1>5. Typed' /\ Fresh' /\ AcceptedOnce'
  BY <1>1, <1>2 DEF BusInv, Typed, Fresh, Unmade, AcceptedOnce
<1>6. Pending'
  BY <1>1, <1>2 DEF BusInv, Pending, Answered
<1> QED BY <1>2, <1>4, <1>5, <1>6 DEF BusInv

LEMMA PruneKeeps ==
  ASSUME BusInv, NEW e \in Event, Prune(e)
  PROVE  BusInv'
<1>1. /\ Typed /\ \A p \in Pass : pass[p].pc = "idle"
      /\ UNCHANGED <<pub, hooks, pass, accepted, crashes>>
      /\ row' = [d \in Delivery |-> IF d[1] = e /\ row[d].status # "pending" THEN NoRow ELSE row[d]]
  BY DEF BusInv, Prune, MayTick
<1>2. row' \in [Delivery -> Row]
  BY <1>1, IdleType DEF Typed
<1>3. \A d \in Delivery : row'[d].status = "none" \/ row'[d] = row[d]
  BY <1>1 DEF NoRow
<1>4. Typed' /\ AcceptedOnce' /\ OnePass'
  BY <1>1, <1>2 DEF BusInv, Typed, AcceptedOnce, OnePass
<1>5. Fresh' /\ Pending'
  BY <1>1, <1>3 DEF BusInv, Fresh, Unmade, Pending, Answered
<1>6. \A p \in Pass : InHand(p)'
  BY <1>1 DEF BusInv, InHand
<1> QED BY <1>4, <1>5, <1>6 DEF BusInv

LEMMA CrashKeeps == ASSUME BusInv, Crash PROVE BusInv'
<1>1. /\ Typed /\ UNCHANGED <<hooks, row, accepted>> /\ crashes' = crashes + 1
      /\ pass' = [p \in Pass |-> Idle]
      /\ pub' = [e \in Event |-> IF pub[e].pc \in {"insert", "enqueue"}
                                 THEN [pc |-> "lost", todo |-> {}] ELSE pub[e]]
  BY DEF BusInv, Crash
<1>2. Typed'
  BY <1>1, IdleType DEF Typed
<1>3. crashes \in Nat /\ \A d \in Delivery : accepted[d] \in Nat /\ accepted[d] <= crashes'
  BY <1>1 DEF BusInv, AcceptedOnce, Typed
<1>4. Fresh'
  <2> SUFFICES ASSUME NEW d \in Delivery, Unmade(d)' PROVE Unmade(d)
    BY <1>1 DEF BusInv, Fresh
  <2>1. d[1] \in Event
    BY DEF Delivery
  <2> QED BY <1>1, <2>1 DEF Unmade
<1>5. AcceptedOnce' /\ Pending'
  BY <1>1, <1>3 DEF AcceptedOnce, Pending
<1>6. OnePass' /\ \A p \in Pass : InHand(p)'
  BY <1>1 DEF OnePass, InHand, Idle
<1> QED BY <1>2, <1>4, <1>5, <1>6 DEF BusInv

LEMMA BusNext == BusInv /\ [Next]_vars => BusInv'
<1> SUFFICES ASSUME BusInv, [Next]_vars PROVE BusInv'
  OBVIOUS
<1>1. CASE \E e \in Event : Mint(e) \/ Insert(e) \/ Publish(e) \/ Prune(e)
  BY <1>1, PublishKeeps, PruneKeeps
<1>2. CASE \E e \in Event, h \in Hook : Enqueue(e, h)
  BY <1>2, EnqueueKeeps
<1>3. CASE \E d \in Delivery : BackoffEnds(d)
  BY <1>3, BackoffKeeps
<1>4. CASE \E p \in Pass : StartPass(p) \/ Deliver(p)
  BY <1>4, StartKeeps, GiveUpKeeps, PostKeeps, UpdateKeeps, EndKeeps DEF Deliver
<1>5. CASE (\E h \in Hook : Unconfigure(h)) \/ Connect \/ ReadOutbox \/ Flush \/ Disconnect \/ UNCHANGED vars
  BY <1>5, AsideKeeps
<1> QED BY <1>1, <1>2, <1>3, <1>4, <1>5, CrashKeeps DEF Next

\* A delivery whose success the program saw is posted again only after a crash, for any webhooks,
\* events, retries and prunes (deliverDue, deliverOne, tick).
THEOREM AcceptedOnceEach == Spec => []AcceptedOnce
<1>1. Init => BusInv BY BusInit
<1>2. BusInv /\ [Next]_vars => BusInv' BY BusNext
<1>3. BusInv => AcceptedOnce BY DEF BusInv
<1> QED BY <1>1, <1>2, <1>3, PTL DEF Spec

-------------------------------------------------------------------------------
(***************************************************************************)
(* ExactlyOnce, as long as one replay brings all that the client has       *)
(* missed.  What a replay owes is in the outbox until it is read, and      *)
(* what is announced meanwhile is held; the flush then sends both.         *)
(***************************************************************************)
Missed == {e \in outbox : e > cursor}
Fits == Cardinality(Missed) <= ReplayMax

Distinct(s) == \A i, j \in 1 .. Len(s) : s[i] = s[j] => i = j

LEMMA LeastNumber ==
  ASSUME NEW S \in SUBSET Nat, S # {}
  PROVE  \E m \in S : \A n \in S : m <= n
<1> DEFINE R == OpToRel(<, Nat)
<1>1. IsWellFoundedOn(R, Nat)
  BY NatLessThanWellFounded
<1>2. \A x, y \in Nat : x < y => <<x, y>> \in R
  BY Zenon DEF OpToRel
<1> HIDE DEF R
<1>3. PICK m \in S : \A n \in S : ~(<<n, m>> \in R)
  BY <1>1, WFMin
<1>4. ASSUME NEW n \in S PROVE m <= n
  <2>1. m \in Nat /\ n \in Nat /\ ~(n < m)
    BY <1>2, <1>3
  <2> QED BY <2>1
<1> QED BY <1>4

\* How many of S are no later than e.
Rank(S, e) == Cardinality({f \in S : f <= e})

\* A set of events has one of each rank, from the first to its number of events.
LEMMA Ranks ==
  ASSUME NEW S \in SUBSET Event
  PROVE  /\ IsFiniteSet(S) /\ Cardinality(S) \in Nat /\ Cardinality(S) <= MaxEvents
         /\ \A e \in S : Rank(S, e) \in 1 .. Cardinality(S)
         /\ \A e, d \in S : Rank(S, e) = Rank(S, d) => e = d
         /\ \A i \in 1 .. Cardinality(S) : \E e \in S : Rank(S, e) = i
<1>0. MaxEvents \in Nat /\ S \subseteq Nat
  BY BusAssumption DEF Event
<1>1. IsFiniteSet(S) /\ Cardinality(S) \in Nat /\ Cardinality(S) <= MaxEvents
  <2>1. IsFiniteSet(Event) /\ Cardinality(Event) = MaxEvents
    BY <1>0, FS_Interval DEF Event
  <2> QED BY <2>1, FS_Subset, FS_CardinalityType
<1>2. ASSUME NEW e \in S
      PROVE  IsFiniteSet({f \in S : f <= e}) /\ Cardinality({f \in S : f <= e}) \in 1 .. Cardinality(S)
  <2>1. PICK U : U = {f \in S : f <= e}
    OBVIOUS
  <2>2. U \in SUBSET S /\ e \in U
    BY <1>0, <2>1
  <2>3. IsFiniteSet(U) /\ Cardinality(U) \in Nat /\ Cardinality(U) <= Cardinality(S) /\ Cardinality(U) # 0
    BY <1>1, <2>2, FS_Subset, FS_CardinalityType, FS_EmptySet
  <2> QED BY <1>1, <2>1, <2>3
<1>3. ASSUME NEW e \in S, NEW d \in S, e < d
      PROVE  Cardinality({f \in S : f <= e}) # Cardinality({f \in S : f <= d})
  <2>1. PICK U, V : U = {f \in S : f <= e} /\ V = {f \in S : f <= d}
    OBVIOUS
  <2>2. U \in SUBSET V /\ d \in V /\ d \notin U
    <3>1. e \in Nat /\ d \in Nat /\ \A f \in S : f \in Nat
      BY <1>0
    <3>2. \A f \in U : f \in S /\ f <= d
      BY <1>3, <2>1, <3>1
    <3>3. d <= d /\ ~(d <= e)
      BY <1>3, <3>1
    <3> QED BY <2>1, <3>2, <3>3
  <2>3. IsFiniteSet(V)
    BY <1>2, <2>1
  <2>4. Cardinality(U) # Cardinality(V)
    BY <2>2, <2>3, FS_Subset
  <2> QED BY <2>1, <2>4
<1>4. \A e, d \in S : Cardinality({f \in S : f <= e}) = Cardinality({f \in S : f <= d}) => e = d
  BY <1>0, <1>3
<1>5. ASSUME NEW i \in 1 .. Cardinality(S) PROVE \E e \in S : Cardinality({f \in S : f <= e}) = i
  <2>1. PICK T : T = 1 .. Cardinality(S)
    OBVIOUS
  <2>2. IsFiniteSet(T) /\ Cardinality(T) = Cardinality(S)
    BY <1>1, <2>1, FS_Interval
  <2>3. PICK rank : rank = [e \in S |-> Cardinality({f \in S : f <= e})]
    OBVIOUS
  <2>4. rank \in Injection(S, T)
    BY <1>2, <1>4, <2>1, <2>3 DEF Injection, IsInjective
  <2>5. rank \in Surjection(S, T)
    BY <2>2, <2>4, FS_Injection
  <2> QED BY <2>1, <2>3, <2>5 DEF Surjection
<1> QED BY <1>1, <1>2, <1>4, <1>5 DEF Rank

LEMMA ReplayBrings ==
  ASSUME outbox \subseteq Event, Fits
  PROVE  Replay(cursor) \in Seq(Event) /\ ToSet(Replay(cursor)) = Missed
<1>1. PICK S : S = Missed
  OBVIOUS
<1>2. S \in SUBSET Event /\ Cardinality(S) <= ReplayMax /\ ReplayMax \in Nat
  BY <1>1, BusAssumption DEF Missed, Fits
<1>3. PICK n : n = Cardinality(S)
  OBVIOUS
<1>4. n \in Nat /\ n = (IF Cardinality(S) < ReplayMax THEN Cardinality(S) ELSE ReplayMax)
  BY <1>2, <1>3, Ranks
<1>5. PICK r : r = [i \in 1 .. n |-> CHOOSE e \in S : Rank(S, e) = i]
  OBVIOUS
<1>6. Replay(cursor) = r
  BY <1>1, <1>4, <1>5 DEF Replay, Missed, Rank
<1>7. ASSUME NEW i \in 1 .. n PROVE r[i] \in S /\ Rank(S, r[i]) = i
  <2>1. \E e \in S : Rank(S, e) = i
    BY <1>2, <1>3, Ranks
  <2>2. r[i] = CHOOSE e \in S : Rank(S, e) = i
    BY <1>5
  <2> QED BY <2>1, <2>2
<1>8. ASSUME NEW e \in S PROVE \E i \in 1 .. n : r[i] = e
  <2>1. Rank(S, e) \in 1 .. n
    BY <1>2, <1>3, Ranks
  <2>2. r[Rank(S, e)] \in S /\ Rank(S, r[Rank(S, e)]) = Rank(S, e)
    BY <1>7, <2>1
  <2>3. r[Rank(S, e)] = e
    BY <1>2, <2>2, Ranks
  <2> QED BY <2>1, <2>3
<1>9. r \in Seq(Event) /\ DOMAIN r = 1 .. n
  <2>1. \A i \in 1 .. n : r[i] \in Event
    BY <1>2, <1>7
  <2>2. r \in [1 .. n -> Event] /\ DOMAIN r = 1 .. n
    BY <1>5, <2>1
  <2> QED BY <1>4, <2>2
<1> QED BY <1>1, <1>6, <1>7, <1>8, <1>9 DEF ToSet

\* send() adds what this connection did not send.
LEMMA SendOne ==
  ASSUME NEW g \in Seq(Event), Distinct(g), NEW e \in Event
  PROVE  Sent(g, e) \in Seq(Event) /\ Distinct(Sent(g, e)) /\ ToSet(Sent(g, e)) = ToSet(g) \cup {e}
<1>1. CASE e \in ToSet(g)
  BY <1>1 DEF Sent
<1>2. CASE e \notin ToSet(g)
  <2>1. PICK h : h = Append(g, e)
    OBVIOUS
  <2>2. /\ h \in Seq(Event) /\ Len(h) = Len(g) + 1 /\ h[Len(g) + 1] = e /\ Len(g) \in Nat
        /\ \A i \in 1 .. Len(g) : h[i] = g[i]
    BY <2>1
  <2>3. \A i \in 1 .. Len(g) : g[i] # e
    BY <1>2 DEF ToSet
  <2>4. Distinct(h)
    <3> SUFFICES ASSUME NEW i \in 1 .. Len(h), NEW j \in 1 .. Len(h), h[i] = h[j] PROVE i = j
      BY DEF Distinct
    <3>1. i \in 1 .. Len(g) \/ i = Len(g) + 1
      BY <2>2
    <3>2. j \in 1 .. Len(g) \/ j = Len(g) + 1
      BY <2>2
    <3> QED BY <2>2, <2>3, <3>1, <3>2 DEF Distinct
  <2>5. DOMAIN h = 1 .. Len(g) + 1 /\ DOMAIN g = 1 .. Len(g)
    BY <2>2
  <2>6. ToSet(h) = ToSet(g) \cup {e}
    <3>1. ASSUME NEW x \in ToSet(h) PROVE x \in ToSet(g) \cup {e}
      <4>1. PICK i \in 1 .. Len(g) + 1 : x = h[i]
        BY <2>5 DEF ToSet
      <4>2. i \in 1 .. Len(g) \/ i = Len(g) + 1
        BY <2>2
      <4> QED BY <2>2, <2>5, <4>1, <4>2 DEF ToSet
    <3>2. ASSUME NEW x \in ToSet(g) \cup {e} PROVE x \in ToSet(h)
      <4>1. CASE x = e
        <5>1. Len(g) + 1 \in 1 .. Len(g) + 1
          BY <2>2
        <5> QED BY <2>2, <2>5, <4>1, <5>1 DEF ToSet
      <4>2. CASE x \in ToSet(g)
        <5>1. PICK i \in 1 .. Len(g) : x = g[i]
          BY <2>5, <4>2 DEF ToSet
        <5>2. i \in 1 .. Len(g) + 1
          BY <2>2
        <5> QED BY <2>2, <2>5, <5>1, <5>2 DEF ToSet
      <4> QED BY <4>1, <4>2
    <3> QED BY <3>1, <3>2
  <2> QED BY <1>2, <2>1, <2>2, <2>4, <2>6 DEF Sent
<1> QED BY <1>1, <1>2

LEMMA Largest ==
  ASSUME NEW n \in Nat, NEW T \in SUBSET (1 .. n), T # {}
  PROVE  Max(T) \in T /\ \A y \in T : y <= Max(T)
<1> DEFINE U == {u \in Nat : \A y \in T : y <= u}
<1>1. U \in SUBSET Nat /\ n \in U
  OBVIOUS
<1>2. PICK m \in U : \A u \in U : m <= u
  BY <1>1, LeastNumber
<1>3. m \in T
  <2> SUFFICES ASSUME m \notin T PROVE FALSE
    OBVIOUS
  <2>1. m \in Nat /\ \A y \in T : y \in Nat /\ y >= 1 /\ y <= m /\ y # m
    BY <1>2
  <2>2. PICK y \in T : TRUE
    OBVIOUS
  <2>3. m - 1 \in Nat /\ \A z \in T : z <= m - 1
    BY <2>1, <2>2
  <2> QED BY <1>2, <2>1, <2>3
<1>4. \A y \in T : m >= y
  BY <1>2
<1>5. Max(T) \in T /\ \A y \in T : Max(T) >= y
  BY <1>3, <1>4 DEF Max
<1> QED BY <1>5

\* What FoldLeft() makes of the first numbers, by the equation that defines it.
Folds(g, s, r, T) == IF T = {} THEN g ELSE Sent(r[T \ {Max(T)}], s[Max(T)])
FoldsBelow(g, s, k, r) ==
  DOMAIN r = SUBSET DOMAIN s /\ \A T \in SUBSET DOMAIN s : Cardinality(T) < k => r[T] = Folds(g, s, r, T)

LEMMA FoldsUpTo ==
  ASSUME NEW g, NEW s \in Seq(Event), NEW k \in Nat
  PROVE  \E r : FoldsBelow(g, s, k, r)
<1> DEFINE S == {n \in Nat : ~\E r : FoldsBelow(g, s, n, r)}
<1> SUFFICES ASSUME S # {} PROVE FALSE
  OBVIOUS
<1>0. Len(s) \in Nat /\ DOMAIN s = 1 .. Len(s) /\ IsFiniteSet(DOMAIN s)
  <2>1. Len(s) \in Nat /\ DOMAIN s = 1 .. Len(s)
    OBVIOUS
  <2> QED BY <2>1, FS_Interval
<1>1. S \in SUBSET Nat
  OBVIOUS
<1>2. PICK m \in S : \A n \in S : m <= n
  BY <1>1, LeastNumber
<1>3. CASE m = 0
  <2>1. \A T \in SUBSET DOMAIN s : ~(Cardinality(T) < 0)
    BY <1>0, FS_Subset, FS_CardinalityType
  <2>2. FoldsBelow(g, s, 0, [T \in SUBSET DOMAIN s |-> g])
    BY <2>1 DEF FoldsBelow
  <2> QED BY <1>2, <1>3, <2>2
<1>4. CASE m # 0
  <2>1. m \in Nat /\ m - 1 \in Nat /\ m - 1 \notin S
    BY <1>2, <1>4
  <2>2. PICK r : FoldsBelow(g, s, m - 1, r)
    BY <2>1
  <2>3. PICK q : q = [T \in SUBSET DOMAIN s |-> IF Cardinality(T) = m - 1 THEN Folds(g, s, r, T) ELSE r[T]]
    OBVIOUS
  <2>4. ASSUME NEW T \in SUBSET DOMAIN s, Cardinality(T) < m PROVE q[T] = Folds(g, s, q, T)
    <3>1. IsFiniteSet(T) /\ Cardinality(T) \in Nat
      BY <1>0, FS_Subset, FS_CardinalityType
    <3>2. q[T] = Folds(g, s, r, T)
      <4>1. CASE Cardinality(T) = m - 1
        BY <2>3, <4>1
      <4>2. CASE Cardinality(T) # m - 1
        <5>1. Cardinality(T) < m - 1
          BY <2>1, <2>4, <3>1, <4>2
        <5>2. q[T] = r[T]
          BY <2>3, <4>2
        <5> QED BY <2>2, <5>1, <5>2 DEF FoldsBelow
      <4> QED BY <4>1, <4>2
    <3>3. T # {} => q[T \ {Max(T)}] = r[T \ {Max(T)}]
      <4> SUFFICES ASSUME T # {} PROVE q[T \ {Max(T)}] = r[T \ {Max(T)}]
        OBVIOUS
      <4>1. PICK x : x = Max(T)
        OBVIOUS
      <4>2. x \in T
        BY <1>0, <4>1, Largest
      <4>3. T \ {x} \in SUBSET DOMAIN s /\ Cardinality(T \ {x}) = Cardinality(T) - 1
        BY <3>1, <4>2, FS_RemoveElement
      <4>4. Cardinality(T \ {x}) # m - 1
        BY <2>1, <2>4, <3>1, <4>3
      <4> QED BY <2>3, <4>1, <4>3, <4>4
    <3> QED BY <3>2, <3>3 DEF Folds
  <2>5. FoldsBelow(g, s, m, q)
    BY <2>3, <2>4 DEF FoldsBelow
  <2> QED BY <1>2, <2>5
<1> QED BY <1>3, <1>4

LEMMA FoldIs ==
  ASSUME NEW g, NEW s \in Seq(Event)
  PROVE  \E r : /\ \A T \in SUBSET DOMAIN s : r[T] = Folds(g, s, r, T)
                /\ FoldLeft(Sent, g, s) = r[DOMAIN s]
<1> DEFINE Made(r) == r = [T \in SUBSET DOMAIN s |-> IF T = {} THEN g ELSE Sent(r[T \ {Max(T)}], s[Max(T)])]
<1>0. Len(s) \in Nat /\ DOMAIN s = 1 .. Len(s)
  OBVIOUS
<1>1. PICK m \in Nat : m = Len(s) + 1
  BY <1>0
<1>2. PICK r : FoldsBelow(g, s, m, r)
  BY FoldsUpTo
<1>3. ASSUME NEW T \in SUBSET DOMAIN s PROVE r[T] = Folds(g, s, r, T)
  <2>1. IsFiniteSet(DOMAIN s) /\ Cardinality(DOMAIN s) = Len(s)
    <3>1. PICK n \in Nat : n = Len(s)
      BY <1>0
    <3>2. IsFiniteSet(1 .. n) /\ Cardinality(1 .. n) = n
      BY FS_Interval
    <3> QED BY <1>0, <3>1, <3>2
  <2>2. Cardinality(T) \in Nat /\ Cardinality(T) <= Len(s)
    BY <2>1, FS_Subset, FS_CardinalityType
  <2> QED BY <1>0, <1>1, <1>2, <2>2 DEF FoldsBelow
<1>4. \E x : Made(x)
  <2>1. PICK h : h = [T \in SUBSET DOMAIN s |-> IF T = {} THEN g ELSE Sent(r[T \ {Max(T)}], s[Max(T)])]
    OBVIOUS
  <2>2. ASSUME NEW T \in SUBSET DOMAIN s PROVE h[T] = r[T]
    BY <1>3, <2>1 DEF Folds
  <2>3. ASSUME NEW T \in SUBSET DOMAIN s
        PROVE  (IF T = {} THEN g ELSE Sent(r[T \ {Max(T)}], s[Max(T)]))
                 = (IF T = {} THEN g ELSE Sent(h[T \ {Max(T)}], s[Max(T)]))
    <3>1. h[T \ {Max(T)}] = r[T \ {Max(T)}]
      BY <2>2
    <3> QED BY <3>1
  <2>4. Made(h)
    BY <2>1, <2>3, Zenon
  <2> QED BY <2>4
<1>5. PICK q : q = CHOOSE x : Made(x)
  OBVIOUS
<1>6. Made(q)
  BY <1>4, <1>5, Zenon
<1>7. FoldLeft(Sent, g, s) = q[DOMAIN s]
  BY <1>5 DEF FoldLeft, MapThenFoldSet
<1>8. \A T \in SUBSET DOMAIN s : q[T] = Folds(g, s, q, T)
  BY <1>6 DEF Folds
<1> QED BY <1>7, <1>8

LEMMA SendAll ==
  ASSUME NEW g \in Seq(Event), Distinct(g), NEW s \in Seq(Event)
  PROVE  /\ FoldLeft(Sent, g, s) \in Seq(Event) /\ Distinct(FoldLeft(Sent, g, s))
         /\ ToSet(FoldLeft(Sent, g, s)) = ToSet(g) \cup ToSet(s)
<1>1. PICK r : /\ \A T \in SUBSET DOMAIN s : r[T] = Folds(g, s, r, T)
               /\ FoldLeft(Sent, g, s) = r[DOMAIN s]
  BY FoldIs
<1>2. PICK n \in Nat : n = Len(s) /\ DOMAIN s = 1 .. n
  OBVIOUS
<1> DEFINE Sends(k) == /\ r[1 .. k] \in Seq(Event) /\ Distinct(r[1 .. k])
                       /\ ToSet(r[1 .. k]) = ToSet(g) \cup {s[i] : i \in 1 .. k}
           S == {k \in 0 .. n : ~Sends(k)}
<1>3. S = {}
  <2> SUFFICES ASSUME S # {} PROVE FALSE
    OBVIOUS
  <2>1. S \in SUBSET Nat
    OBVIOUS
  <2>2. PICK m \in S : \A k \in S : m <= k
    BY <2>1, LeastNumber
  <2>3. CASE m = 0
    <3>1. r[{}] = g
      BY <1>1 DEF Folds
    <3>2. 1 .. 0 = {}
      OBVIOUS
    <3> QED BY <2>2, <2>3, <3>1, <3>2
  <2>4. CASE m # 0
    <3>1. m \in 1 .. n /\ m - 1 \in 0 .. n /\ m - 1 < m
      BY <2>2, <2>4
    <3>2. PICK h : h = r[1 .. m - 1]
      OBVIOUS
    <3>3. h \in Seq(Event) /\ Distinct(h) /\ ToSet(h) = ToSet(g) \cup {s[i] : i \in 1 .. m - 1}
      BY <2>2, <3>1, <3>2
    <3>4. PICK T : T = 1 .. m
      OBVIOUS
    <3>5. T \in SUBSET (1 .. n) /\ m \in T /\ T # {} /\ T \ {m} = 1 .. m - 1
      <4> HIDE DEF S
      <4>1. T \in SUBSET (1 .. n) /\ m \in T
        BY <3>1, <3>4
      <4>2. \A i \in T \ {m} : i \in 1 .. m - 1
        BY <3>1, <3>4
      <4>3. \A i \in 1 .. m - 1 : i \in T \ {m}
        BY <3>1, <3>4
      <4> QED BY <4>1, <4>2, <4>3
    <3>6. Max(T) = m
      <4>1. Max(T) \in T /\ \A y \in T : y <= Max(T)
        BY <3>5, Largest
      <4> QED BY <3>1, <3>4, <3>5, <4>1
    <3>7. r[T] = Sent(h, s[m])
      <4>1. r[T] = Sent(r[T \ {Max(T)}], s[Max(T)])
        BY <1>1, <1>2, <3>5 DEF Folds
      <4> QED BY <3>2, <3>5, <3>6, <4>1
    <3>8. s[m] \in Event
      BY <1>2, <3>1
    <3>9. r[T] \in Seq(Event) /\ Distinct(r[T]) /\ ToSet(r[T]) = ToSet(h) \cup {s[m]}
      <4>1. PICK e \in Event : e = s[m]
        BY <3>8
      <4>2. Sent(h, e) \in Seq(Event) /\ Distinct(Sent(h, e)) /\ ToSet(Sent(h, e)) = ToSet(h) \cup {e}
        BY <3>3, SendOne
      <4> QED BY <3>7, <4>1, <4>2
    <3>10. {s[i] : i \in 1 .. m} = {s[i] : i \in 1 .. m - 1} \cup {s[m]}
      <4>1. \A i \in 1 .. m : i \in 1 .. m - 1 \/ i = m
        BY <3>1
      <4>2. \A i \in 1 .. m - 1 : i \in 1 .. m
        BY <3>1
      <4> QED BY <3>4, <3>5, <4>1, <4>2
    <3> QED BY <2>2, <3>3, <3>4, <3>9, <3>10
  <2> QED BY <2>3, <2>4
<1>4. Sends(n)
  BY <1>2, <1>3
<1>5. ToSet(s) = {s[i] : i \in 1 .. n}
  BY <1>2 DEF ToSet
<1> QED BY <1>1, <1>2, <1>4, <1>5

LEMMA Joined ==
  ASSUME NEW s \in Seq(Event), NEW t \in Seq(Event)
  PROVE  s \o t \in Seq(Event) /\ ToSet(s \o t) = ToSet(s) \cup ToSet(t)
<1>1. PICK h : h = s \o t
  OBVIOUS
<1>2. PICK m, n \in Nat : m = Len(s) /\ n = Len(t) /\ DOMAIN s = 1 .. m /\ DOMAIN t = 1 .. n /\ DOMAIN h = 1 .. m + n
  BY <1>1
<1>3. h \in Seq(Event) /\ (\A i \in 1 .. m : h[i] = s[i]) /\ \A i \in 1 .. n : h[m + i] = t[i]
  BY <1>1, <1>2
<1>4. ToSet(h) \subseteq ToSet(s) \cup ToSet(t)
  <2> SUFFICES ASSUME NEW i \in 1 .. m + n PROVE h[i] \in ToSet(s) \cup ToSet(t)
    BY <1>2 DEF ToSet
  <2>1. CASE i <= m
    BY <1>2, <1>3, <2>1 DEF ToSet
  <2>2. CASE i > m
    <3>1. i - m \in 1 .. n /\ m + (i - m) = i
      BY <1>2, <2>2
    <3>2. h[i] = t[i - m]
      BY <1>3, <3>1
    <3> QED BY <1>2, <3>1, <3>2 DEF ToSet
  <2> QED BY <1>2, <2>1, <2>2
<1>5. ToSet(s) \cup ToSet(t) \subseteq ToSet(h)
  <2>1. (\A i \in 1 .. m : i \in 1 .. m + n) /\ \A i \in 1 .. n : m + i \in 1 .. m + n
    BY <1>2
  <2>2. \A i \in 1 .. m : s[i] \in ToSet(h)
    BY <1>2, <1>3, <2>1 DEF ToSet
  <2>3. ASSUME NEW i \in 1 .. n PROVE t[i] \in ToSet(h)
    <3>1. t[i] = h[m + i] /\ m + i \in DOMAIN h
      BY <1>2, <1>3, <2>1
    <3> QED BY <3>1 DEF ToSet
  <2> QED BY <1>2, <2>2, <2>3 DEF ToSet
<1> QED BY <1>1, <1>3, <1>4, <1>5

StreamInv ==
  /\ outbox \subseteq Event /\ owed \subseteq Event
  /\ held \in Seq(Event) /\ missed \in Seq(Event)
  /\ got \in Seq(Event) /\ Distinct(got)
  /\ conn \in {"off", "hold", "read", "live"}
  /\ conn = "hold" => owed \subseteq Missed \cup ToSet(held)
  /\ conn = "read" => owed \subseteq ToSet(missed) \cup ToSet(held)
  /\ conn = "live" => owed \subseteq ToSet(got)

LEMMA Ends ==
  /\ <<>> \in Seq(Event) /\ Distinct(<<>>) /\ ToSet(<<>>) = {}
  /\ \A s \in Seq(Event) : \A e \in Event : Append(s, e) \in Seq(Event) /\ ToSet(Append(s, e)) = ToSet(s) \cup {e}
<1>1. <<>> \in Seq(Event) /\ Distinct(<<>>) /\ ToSet(<<>>) = {}
  BY DEF Distinct, ToSet
<1>2. ASSUME NEW s \in Seq(Event), NEW e \in Event
      PROVE  Append(s, e) \in Seq(Event) /\ ToSet(Append(s, e)) = ToSet(s) \cup {e}
  <2>1. PICK h : h = Append(s, e)
    OBVIOUS
  <2>2. PICK n \in Nat : n = Len(s) /\ DOMAIN s = 1 .. n /\ DOMAIN h = 1 .. n + 1
    BY <2>1
  <2>3. h \in Seq(Event) /\ h[n + 1] = e /\ \A i \in 1 .. n : h[i] = s[i]
    BY <2>1, <2>2
  <2>4. ToSet(h) \subseteq ToSet(s) \cup {e}
    <3>1. \A i \in 1 .. n + 1 : i \in 1 .. n \/ i = n + 1
      OBVIOUS
    <3> QED BY <2>2, <2>3, <3>1 DEF ToSet
  <2>5. ToSet(s) \cup {e} \subseteq ToSet(h)
    <3>1. n + 1 \in 1 .. n + 1 /\ \A i \in 1 .. n : i \in 1 .. n + 1
      OBVIOUS
    <3> QED BY <2>2, <2>3, <3>1 DEF ToSet
  <2> QED BY <2>1, <2>3, <2>4, <2>5
<1> QED BY <1>1, <1>2

LEMMA StreamInit == Init => StreamInv
BY Ends DEF Init, StreamInv

LEMMA StreamNext == StreamInv /\ Fits /\ [Next]_vars => StreamInv'
<1> SUFFICES ASSUME StreamInv, Fits, [Next]_vars PROVE StreamInv'
  OBVIOUS
\* What the stream does not see, but that the outbox may grow.
<1>1. ASSUME UNCHANGED client, outbox \subseteq outbox', outbox' \subseteq Event PROVE StreamInv'
  BY <1>1 DEF client, StreamInv, Missed
<1>2. ASSUME NEW e \in Event, Publish(e) PROVE StreamInv'
  <2>1. UNCHANGED <<outbox, conn, cursor, missed>> /\ Announce(e)
    BY <1>2 DEF Publish
  <2>2. CASE conn = "off"
    BY <2>1, <2>2 DEF Announce, StreamInv
  <2>3. CASE conn \in {"hold", "read"}
    BY <2>1, <2>3, Ends DEF Announce, StreamInv, Missed
  <2>4. CASE conn = "live"
    BY <2>1, <2>4, SendOne DEF Announce, StreamInv
  <2> QED BY <2>2, <2>3, <2>4 DEF StreamInv
<1>3. ASSUME NEW e \in Event, Prune(e) PROVE StreamInv'
  <2>1. /\ outbox' = outbox \ {e} /\ owed' = owed \ {e}
        /\ UNCHANGED <<conn, cursor, held, missed, got>>
    BY <1>3 DEF Prune
  <2> QED BY <2>1 DEF StreamInv, Missed
<1>4. CASE Connect
  <2>1. Replay(cursor) \in Seq(Event) /\ ToSet(Replay(cursor)) = Missed
    BY ReplayBrings DEF StreamInv
  <2>2. /\ UNCHANGED <<outbox, cursor>> /\ conn' = StreamStart /\ got' = <<>> /\ held' = <<>> /\ missed' = <<>>
        /\ owed' = IF cursor = 0 THEN {} ELSE Missed
    BY <1>4, <2>1 DEF Connect
  <2>3. Missed' = Missed /\ Missed \subseteq Event
    BY <2>2 DEF Missed, StreamInv
  <2> QED BY <2>2, <2>3, Ends DEF StreamStart, StreamInv
<1>5. CASE ReadOutbox
  <2>1. Replay(cursor) \in Seq(Event) /\ ToSet(Replay(cursor)) = Missed
    BY ReplayBrings DEF StreamInv
  <2> QED BY <1>5, <2>1 DEF ReadOutbox, StreamInv
<1>6. CASE Flush
  <2>1. /\ conn = "read" /\ conn' = "live" /\ held' = <<>> /\ missed' = <<>>
        /\ got' = FoldLeft(Sent, got, missed \o held) /\ UNCHANGED <<outbox, owed, cursor>>
    BY <1>6 DEF Flush
  <2>2. missed \o held \in Seq(Event) /\ ToSet(missed \o held) = ToSet(missed) \cup ToSet(held)
    <3>1. missed \in Seq(Event) /\ held \in Seq(Event)
      BY DEF StreamInv
    <3> QED BY <3>1, Joined
  <2>3. got' \in Seq(Event) /\ Distinct(got') /\ ToSet(got') = ToSet(got) \cup ToSet(missed \o held)
    BY <2>1, <2>2, SendAll DEF StreamInv
  <2> QED BY <2>1, <2>2, <2>3, Ends DEF StreamInv
<1>7. CASE Disconnect \/ Crash
  <2>1. UNCHANGED outbox /\ Hangup
    BY <1>7 DEF Disconnect, Crash
  <2> QED BY <2>1, Ends DEF Hangup, StreamInv
<1>8. CASE \E e \in Event : Mint(e) \/ Insert(e)
  BY <1>1, <1>8 DEF Mint, Insert, client, StreamInv
<1>9. CASE \/ \E e \in Event, h \in Hook : Enqueue(e, h)
           \/ \E d \in Delivery : BackoffEnds(d)
           \/ \E p \in Pass : StartPass(p) \/ Deliver(p)
           \/ \E h \in Hook : Unconfigure(h)
           \/ UNCHANGED vars
  <2>1. UNCHANGED <<client, outbox>>
    BY <1>9 DEF Enqueue, BackoffEnds, StartPass, Deliver, Delivered, Fail, EndPass, GiveUp, Post, Unconfigure, vars, client
  <2> QED BY <1>1, <2>1 DEF StreamInv
<1> QED BY <1>2, <1>3, <1>4, <1>5, <1>6, <1>7, <1>8, <1>9 DEF Next

\* A connection that has caught up has brought each event once that it owes, if none of its replays is
\* cut off (events.ts, replay of bus.ts).
THEOREM NoGapNoDuplicate == Spec /\ []Fits => []ExactlyOnce
<1>1. StreamInv => ExactlyOnce
  BY DEF StreamInv, Distinct, ExactlyOnce
<1> QED BY StreamInit, StreamNext, <1>1, PTL DEF Spec

\* None is cut off where no more events are published than one replay brings.
THEOREM OneReplayIsEnough == MaxEvents <= ReplayMax => (Spec => []ExactlyOnce)
<1> SUFFICES ASSUME MaxEvents <= ReplayMax PROVE Spec => []ExactlyOnce
  OBVIOUS
<1> DEFINE Stored == outbox \subseteq Event
<1>1. Init => Stored
  BY DEF Init
<1>2. Stored /\ [Next]_vars => Stored'
  BY DEF Next, Mint, Insert, Publish, Prune, Enqueue, BackoffEnds, StartPass, Deliver, Delivered, Fail, EndPass,
         GiveUp, Post, Unconfigure, Connect, ReadOutbox, Flush, Disconnect, Crash, vars
<1>3. Stored => Fits
  <2> SUFFICES ASSUME outbox \subseteq Event PROVE Fits
    OBVIOUS
  <2>1. PICK S : S = Missed
    OBVIOUS
  <2>2. S \in SUBSET Event
    BY <2>1 DEF Missed
  <2>3. Cardinality(S) \in Nat /\ Cardinality(S) <= MaxEvents /\ MaxEvents \in Nat /\ ReplayMax \in Nat
    BY <2>2, Ranks, BusAssumption
  <2> QED BY <2>1, <2>3 DEF Fits
<1> HIDE DEF Stored
<1> QED BY <1>1, <1>2, <1>3, NoGapNoDuplicate, PTL DEF Spec
==============================================================================
