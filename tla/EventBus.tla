------------------------------- MODULE EventBus -------------------------------
(***************************************************************************)
(* The event bus (src/packages/server/src/events/bus.ts) with one consumer *)
(* of its stream (src/packages/server/src/api/events.ts).                  *)
(*                                                                         *)
(* publish() mints an id, inserts the event in the outbox, inserts one     *)
(* delivery row per webhook and then calls the subscribers; publishers run *)
(* concurrently, so events are inserted and announced in any order of      *)
(* their ids.  A timer delivers due rows by POST, one pass at a time.  A   *)
(* stream client that reconnects names the last id it received: the events *)
(* announced while the outbox is read are held and follow the replay.      *)
(***************************************************************************)
EXTENDS Naturals, FiniteSets, FiniteSetsExt, Sequences, SequencesExt

CONSTANTS
  Hook,          \* the configured webhooks, each of which wants every event
  None,
  Pass,          \* numbers of the delivery passes that could run at a time
  MaxAttempts,   \* WEBHOOK_MAX_ATTEMPTS
  ReplayMax,     \* REPLAY_MAX
  MaxEvents,     \* bound: events published
  MaxConnect,    \* bound: connections of the client
  MaxUpset       \* bound: crashes, webhooks removed, settings that fail to load, prunes

\* Events are numbered as their ids are ordered: by the time they were minted.
Event == 1 .. MaxEvents
Delivery == Event \X Hook

ASSUME BusAssumption ==
  /\ MaxAttempts \in Nat \ {0} /\ ReplayMax \in Nat \ {0}
  /\ {MaxEvents, MaxConnect, MaxUpset} \subseteq Nat
  /\ IsFiniteSet(Hook) /\ Pass \subseteq Nat /\ None \notin Delivery

VARIABLES
  pub,       \* where publish() of each event is, and the webhooks it has still to enqueue
  outbox,    \* table event_outbox
  row,       \* table webhook_deliveries
  hooks,     \* settings().webhooks
  pass,      \* delivery passes
  conn, cursor, held, missed, got,   \* the client: connection, last id received
             \* before it, events held back, outbox as read, events received
  crashes, connects, faults,
  \* history
  posted,    \* POSTs of each delivery
  accepted,  \* POSTs whose success the program saw
  owed       \* what the connection has to bring

vars == <<pub, outbox, row, hooks, pass, conn, cursor, held, missed, got,
          crashes, connects, faults, posted, accepted, owed>>
client == <<conn, cursor, held, missed, got, connects, owed>>
bounds == <<crashes, faults>>

NoRow == [status |-> "none", tries |-> 0, due |-> FALSE]
Idle == [pc |-> "idle", hooks |-> {}, todo |-> {}, at |-> None, tries |-> 0]

Due == [d : Delivery, tries : 0 .. MaxAttempts, stored : BOOLEAN]

TypeOK ==
  /\ pub \in [Event -> [pc : {"none", "insert", "enqueue", "done", "lost"},
                        todo : SUBSET Hook]]
  /\ outbox \subseteq Event
  /\ row \in [Delivery -> [status : {"none", "pending", "delivered", "failed"},
                           tries : 0 .. MaxAttempts, due : BOOLEAN]]
  /\ hooks \subseteq Hook
  /\ \A p \in Pass :
       /\ pass[p].pc \in {"idle", "next", "ok", "err"}
       /\ pass[p].todo \subseteq Due /\ pass[p].hooks \subseteq Hook
       /\ pass[p].at \in Delivery \cup {None} /\ pass[p].tries \in 0 .. MaxAttempts
  /\ conn \in {"off", "hold", "read", "live"} /\ cursor \in 0 .. MaxEvents
  /\ held \in Seq(Event) /\ missed \in Seq(Event) /\ got \in Seq(Event)
  /\ owed \subseteq Event
  /\ crashes \in 0 .. MaxUpset /\ connects \in 0 .. MaxConnect /\ faults \in 0 .. MaxUpset
  /\ posted \in [Delivery -> Nat] /\ accepted \in [Delivery -> Nat]

Init ==
  /\ pub = [e \in Event |-> [pc |-> "none", todo |-> {}]] /\ outbox = {}
  /\ row = [d \in Delivery |-> NoRow] /\ hooks = Hook
  /\ pass = [p \in Pass |-> Idle]
  /\ conn = "off" /\ cursor = 0 /\ held = <<>> /\ missed = <<>> /\ got = <<>>
  /\ crashes = 0 /\ connects = 0 /\ faults = 0
  /\ posted = [d \in Delivery |-> 0] /\ accepted = [d \in Delivery |-> 0]
  /\ owed = {}

Upset == crashes + faults < MaxUpset

(***************************************************************************)
(* publish()                                                               *)
(***************************************************************************)

\* mintEventId
Mint(e) ==
  /\ pub[e].pc = "none" /\ \A f \in 1 .. e - 1 : pub[f].pc # "none"
  /\ pub' = [pub EXCEPT ![e].pc = "insert"]
  /\ UNCHANGED <<outbox, row, hooks, pass, client, bounds, posted, accepted>>

\* The outbox; and the settings, which may fail to load.
Insert(e) ==
  /\ pub[e].pc = "insert"
  /\ outbox' = outbox \cup {e}
  /\ \/ /\ pub' = [pub EXCEPT ![e] = [pc |-> "enqueue", todo |-> hooks]]
        /\ UNCHANGED faults
     \/ /\ Upset /\ faults' = faults + 1
        /\ pub' = [pub EXCEPT ![e] = [pc |-> "enqueue", todo |-> {}]]
  /\ UNCHANGED <<row, hooks, pass, client, crashes, posted, accepted>>

\* enqueueWebhooks, one row at a time.
Enqueue(e, h) ==
  /\ pub[e].pc = "enqueue" /\ h \in pub[e].todo
  /\ pub' = [pub EXCEPT ![e].todo = @ \ {h}]
  /\ row' = [row EXCEPT ![<<e, h>>] = [status |-> "pending", tries |-> 0, due |-> TRUE]]
  /\ UNCHANGED <<outbox, hooks, pass, client, bounds, posted, accepted>>

\* send(), which drops what this connection sent before.
Sent(sent, e) == IF e \in ToSet(sent) THEN sent ELSE Append(sent, e)

\* The subscribers are called: the stream sends the event or holds it.
Announce(e) ==
  /\ owed' = IF conn = "off" THEN owed ELSE owed \cup {e}
  /\ held' = IF conn \in {"hold", "read"} THEN Append(held, e) ELSE held
  /\ got' = IF conn = "live" THEN Sent(got, e) ELSE got

\* publish() calls the subscribers and returns.
Publish(e) ==
  /\ pub[e].pc = "enqueue" /\ pub[e].todo = {}
  /\ pub' = [pub EXCEPT ![e].pc = "done"]
  /\ Announce(e)
  /\ UNCHANGED <<outbox, row, hooks, pass, conn, cursor, missed, connects, bounds,
                 posted, accepted>>

(***************************************************************************)
(* Webhook delivery.                                                       *)
(***************************************************************************)

\* Backing off ends: next_attempt_at <= now().
BackoffEnds(d) ==
  /\ row[d].status = "pending" /\ ~row[d].due
  /\ row' = [row EXCEPT ![d].due = TRUE]
  /\ UNCHANGED <<pub, outbox, hooks, pass, client, bounds, posted, accepted>>

\* Mutant: the timer starts a pass whether or not one is under way.
Unguarded == TRUE

\* `inflight`, which deliveries and prunes share.
MayTick == \A p \in Pass : pass[p].pc = "idle"

\* deliverDue: the due rows, read with their events; and the webhooks.
StartPass(p) ==
  LET due == {d \in Delivery : row[d].status = "pending" /\ row[d].due}
  IN /\ MayTick /\ due # {}
     /\ pass[p].pc = "idle" /\ \A q \in Pass : q < p => pass[q].pc # "idle"
     /\ pass' = [pass EXCEPT ![p] =
          [Idle EXCEPT !.pc = "next", !.hooks = hooks,
                       !.todo = {[d |-> d, tries |-> row[d].tries,
                                  stored |-> d[1] \in outbox] : d \in due}]]
     /\ UNCHANGED <<pub, outbox, row, hooks, client, bounds, posted, accepted>>

\* deliverOne, of a row that has no one to go to or nothing to bring.
GiveUp(p, x) ==
  /\ pass[p].pc = "next" /\ x \in pass[p].todo
  /\ x.d[2] \notin pass[p].hooks \/ ~x.stored
  /\ row' = [row EXCEPT ![x.d].status = "failed"]
  /\ pass' = [pass EXCEPT ![p].todo = @ \ {x}]
  /\ UNCHANGED <<pub, outbox, hooks, client, bounds, posted, accepted>>

\* deliverOne: the POST and its answer, which an error or a timeout may lose.
\* Without the secret to sign it, the attempt fails before the POST.
Post(p, x) ==
  /\ pass[p].pc = "next" /\ x \in pass[p].todo
  /\ x.d[2] \in pass[p].hooks /\ x.stored
  /\ \E sent \in BOOLEAN, answer \in {"ok", "err"} :
       /\ ~sent => answer = "err"
       /\ posted' = IF sent THEN [posted EXCEPT ![x.d] = @ + 1] ELSE posted
       /\ accepted' = IF answer = "ok" THEN [accepted EXCEPT ![x.d] = @ + 1] ELSE accepted
       /\ pass' = [pass EXCEPT ![p].pc = answer, ![p].todo = @ \ {x},
                               ![p].at = x.d, ![p].tries = x.tries]
  /\ UNCHANGED <<pub, outbox, row, hooks, client, bounds>>

Delivered(p) ==
  /\ pass[p].pc = "ok"
  /\ row' = [row EXCEPT ![pass[p].at].status = "delivered", ![pass[p].at].tries = @ + 1]
  /\ pass' = [pass EXCEPT ![p].pc = "next", ![p].at = None, ![p].tries = 0]
  /\ UNCHANGED <<pub, outbox, hooks, client, bounds, posted, accepted>>

NoMore(tries) == tries >= MaxAttempts

\* fail(), which counts from what the pass has read.
Fail(p) ==
  LET d == pass[p].at
      tries == pass[p].tries + 1
  IN /\ pass[p].pc = "err"
     /\ row' = [row EXCEPT ![d] =
                  [status |-> IF NoMore(tries) THEN "failed" ELSE row[d].status,
                   tries |-> tries, due |-> NoMore(tries)]]
     /\ pass' = [pass EXCEPT ![p].pc = "next", ![p].at = None, ![p].tries = 0]
     /\ UNCHANGED <<pub, outbox, hooks, client, bounds, posted, accepted>>

\* Mutant: `inflight` is not cleared.
Stuck(p) == pass[p]

\* tick()'s finally.
Ended(p) == Idle

EndPass(p) ==
  /\ pass[p].pc = "next" /\ pass[p].todo = {}
  /\ pass' = [pass EXCEPT ![p] = Ended(p)]
  /\ UNCHANGED <<pub, outbox, row, hooks, client, bounds, posted, accepted>>

\* prune(): an event's retention is over, and that of its settled deliveries.
Prune(e) ==
  /\ MayTick /\ Upset
  /\ e \in outbox /\ pub[e].pc \in {"done", "lost"}
  /\ outbox' = outbox \ {e} /\ owed' = owed \ {e}
  /\ row' = [d \in Delivery |-> IF d[1] = e /\ row[d].status # "pending"
                                THEN NoRow ELSE row[d]]
  /\ faults' = faults + 1
  /\ UNCHANGED <<pub, hooks, pass, conn, cursor, held, missed, got, crashes, connects,
                 posted, accepted>>

\* A webhook leaves the configuration.
Unconfigure(h) ==
  /\ Upset /\ h \in hooks
  /\ hooks' = hooks \ {h} /\ faults' = faults + 1
  /\ UNCHANGED <<pub, outbox, row, pass, client, crashes, posted, accepted>>

(***************************************************************************)
(* The stream.                                                             *)
(***************************************************************************)

\* replay(after): the events after an id, oldest first, no more than so many.
Replay(after) ==
  LET later == {e \in outbox : e > after}
      n     == IF Cardinality(later) < ReplayMax THEN Cardinality(later) ELSE ReplayMax
  IN  [i \in 1 .. n |-> CHOOSE e \in later : Cardinality({f \in later : f <= e}) = i]

\* Mutant: events are not held while the outbox is read.
StreamUnheld == "live"

\* The stream subscribes, and holds what is announced if it has to replay.
StreamStart == IF cursor = 0 THEN "live" ELSE "hold"

Connect ==
  /\ conn = "off" /\ connects < MaxConnect
  /\ conn' = StreamStart /\ got' = <<>> /\ held' = <<>> /\ missed' = <<>>
  /\ owed' = IF cursor = 0 THEN {} ELSE ToSet(Replay(cursor))
  /\ connects' = connects + 1
  /\ UNCHANGED <<pub, outbox, row, hooks, pass, cursor, bounds, posted, accepted>>

ReadOutbox ==
  /\ conn = "hold"
  /\ missed' = Replay(cursor) /\ conn' = "read"
  /\ UNCHANGED <<pub, outbox, row, hooks, pass, cursor, held, got, connects, owed, bounds,
                 posted, accepted>>

\* What was missed, then what was held.
Flush ==
  /\ conn = "read"
  /\ got' = FoldLeft(Sent, got, missed \o held)
  /\ conn' = "live" /\ held' = <<>> /\ missed' = <<>>
  /\ UNCHANGED <<pub, outbox, row, hooks, pass, cursor, connects, owed, bounds, posted,
                 accepted>>

\* The connection ends: the client keeps the last id it received.
Hangup ==
  /\ conn' = "off" /\ held' = <<>> /\ missed' = <<>> /\ got' = <<>> /\ owed' = {}
  /\ cursor' = IF got = <<>> THEN cursor ELSE Last(got)
  /\ UNCHANGED connects

Disconnect ==
  /\ conn # "off" /\ Hangup
  /\ UNCHANGED <<pub, outbox, row, hooks, pass, bounds, posted, accepted>>

(***************************************************************************)
(* The process stops or dies: publishers stop where they are.              *)
(***************************************************************************)
Crash ==
  /\ Upset
  /\ crashes' = crashes + 1
  /\ pub' = [e \in Event |-> IF pub[e].pc \in {"insert", "enqueue"}
                             THEN [pc |-> "lost", todo |-> {}] ELSE pub[e]]
  /\ pass' = [p \in Pass |-> Idle]
  /\ Hangup
  /\ UNCHANGED <<outbox, row, hooks, faults, posted, accepted>>

Deliver(p) ==
  \/ Delivered(p) \/ Fail(p) \/ EndPass(p)
  \/ \E x \in pass[p].todo : GiveUp(p, x) \/ Post(p, x)

Next ==
  \/ \E e \in Event : Mint(e) \/ Insert(e) \/ Publish(e) \/ Prune(e)
  \/ \E e \in Event, h \in Hook : Enqueue(e, h)
  \/ \E d \in Delivery : BackoffEnds(d)
  \/ \E p \in Pass : StartPass(p) \/ Deliver(p)
  \/ \E h \in Hook : Unconfigure(h)
  \/ Connect \/ ReadOutbox \/ Flush \/ Disconnect \/ Crash

Spec == Init /\ [][Next]_vars

\* The timer fires, a pass goes on (each POST has its timeout), time passes.
Fairness ==
  /\ WF_vars(\E p \in Pass : StartPass(p))
  /\ \A p \in Pass : WF_vars(Deliver(p))
  /\ \A d \in Delivery : WF_vars(BackoffEnds(d))
FairSpec == Spec /\ Fairness

(***************************************************************************)
(* Properties.                                                             *)
(***************************************************************************)

\* A connection that has caught up has brought every event that the outbox held
\* after the client's last id and every event announced since it subscribed, and none
\* of them twice: none falls between the replay and the stream, where they overlap.
ExactlyOnce ==
  /\ conn = "live" => owed \subseteq ToSet(got)
  /\ \A i, j \in 1 .. Len(got) : got[i] = got[j] => i = j

\* A delivery whose success the program saw is not repeated, but after a crash
\* that came before the row was updated.
AcceptedOnce == \A d \in Delivery : accepted[d] <= 1 + crashes

\* Every row that was enqueued is settled: delivered, given up, or pruned.
Settles == \A d \in Delivery : row[d].status = "pending" ~> row[d].status # "pending"
===============================================================================
