----------------------------- MODULE NoteHistory -----------------------------
(***************************************************************************)
(* One Note: its shared document in memory, the log of its updates and its *)
(* revisions.  Editors change the document over their sockets and every    *)
(* update is appended to the log behind them (knowledge/sync.ts); the      *)
(* service's operations run one at a time behind the note's lock           *)
(* (knowledge/service.ts); compaction cuts a revision, prunes the log and  *)
(* drops old states without that lock.  A restart loads the latest         *)
(* revision that still has a state, and the log.                           *)
(*                                                                         *)
(* A document is the items inserted and the items deleted, and documents   *)
(* merge by union; an item is a text and the number of its copy.  A state  *)
(* vector counts insertions only.  "old" is: older than                    *)
(* base_revision_retention_hours.                                          *)
(***************************************************************************)
EXTENDS Integers, Sequences, FiniteSets

CONSTANTS
  Words,        \* the texts a block may have
  Compactor,    \* runs of compactOne() at a time
  Svc,          \* the service's operation that holds the lock
  None,
  NoteOps,      \* the operations called
  MaxTyped,     \* bound: changes typed in by people
  MaxCalled,    \* bound: operations called
  MaxSweeps,    \* bound: runs of compactOne()
  MaxAges,      \* bound: times that everything becomes older than the window
  MaxReloads    \* bound: crashes and reloads

Thread == {Svc} \cup Compactor
Item == Words \X (1 .. 3)
Empty == [ins |-> {}, del |-> {}]
Idle == [op |-> "none", pc |-> "idle"]

VARIABLES
  doc,      \* the document in memory
  chain,    \* updates on their way to the log
  updates,  \* yjs_updates
  seq,      \* the last seq given
  revs,     \* node_revisions
  th,       \* what each thread does
  held,     \* the read an AI edits from: the revision and its text
  edit,     \* the last AI edit applied: its pre-ai-edit revision and what people typed in since
  typed, called, swept, ages, reloads

vars == <<doc, chain, updates, seq, revs, th, held, edit, typed, called, swept, ages, reloads>>
store == <<updates, seq, revs>>
bounds == <<typed, called, swept, ages, reloads>>

Text(d) == {i[1] : i \in d.ins \ d.del}
\* The texts and how often each stands in the document: what the content hash of a revision tells apart.
Blocks(d) == {<<w, Cardinality({i \in d.ins \ d.del : i[1] = w})>> : w \in Text(d)}
Merge(d, e) == [ins |-> d.ins \cup e.ins, del |-> d.del \cup e.del]
Fold(ups) == [ins |-> UNION {u.ins : u \in ups}, del |-> UNION {u.del : u \in ups}]
State(r) == [ins |-> revs[r].ins, del |-> revs[r].del]
Kept == {r \in 1 .. Len(revs) : revs[r].kept}

\* load(): the latest state there is and the log.
Load == LET r == CHOOSE r \in Kept : \A q \in Kept : q <= r
        IN Merge(State(r), Fold({u.upd : u \in updates}))

\* A new copy of each text, none like those of the document.
Copies(words) == {<<w, 1 + Cardinality({i \in doc.ins : i[1] = w})>> : w \in words}

\* planBlockOps(): the texts to add and the items to take out, to make base read as text does.
Plan(base, text) == [add |-> text \ Text(base), drop |-> {i \in base.ins \ base.del : i[1] \notin text}]

\* reconcile(): the same as an update relative to base.
Reconcile(base, text) == LET p == Plan(base, text) IN [ins |-> Copies(p.add), del |-> p.drop]

TypeOK ==
  /\ doc.ins \subseteq Item /\ doc.del \subseteq Item
  /\ \A u \in updates : u.seq \in 1 .. seq /\ u.upd.ins \subseteq Item
  /\ Kept # {} /\ \A r \in 1 .. Len(revs) : revs[r].text \subseteq Words /\ revs[r].by \in {"compaction", "other"}
  /\ \A t \in Thread : th[t].pc \in {"idle", "flush", "max", "look", "apply", "stored", "capture", "before",
                                     "latest", "insert", "label", "upgrade", "prune", "drop"}

First == CHOOSE w \in Words : TRUE
Init ==
  /\ doc = [ins |-> {<<First, 1>>}, del |-> {}]
  /\ chain = <<>> /\ seq = 1 /\ updates = {[seq |-> 1, upd |-> doc, old |-> FALSE]}
  /\ revs = <<[ins |-> doc.ins, del |-> {}, kept |-> TRUE, text |-> Text(doc), blocks |-> Blocks(doc), labels |-> {"publish"},
               by |-> "other", old |-> FALSE]>>
  /\ th = [t \in Thread |-> Idle]
  /\ held = [rev |-> 1, text |-> {First}] /\ edit = None
  /\ typed = 0 /\ called = 0 /\ swept = 0 /\ ages = 0 /\ reloads = 0

\* ---------------------------------------------------- the document and its log

\* An update of the document: merged in memory, its INSERT queued.
Update(u) == doc' = Merge(doc, u) /\ chain' = Append(chain, u)

\* A person adds a block or takes one out.
Type ==
  /\ typed < MaxTyped /\ typed' = typed + 1
  /\ \/ \E w \in Words \ Text(doc) :
          /\ Update([ins |-> Copies({w}), del |-> {}])
          /\ edit' = IF edit = None THEN None ELSE [edit EXCEPT !.since = @ \cup {w}]
     \/ \E w \in Text(doc) :
          /\ Update([ins |-> {}, del |-> {i \in doc.ins \ doc.del : i[1] = w}])
          /\ edit' = IF edit = None THEN None ELSE [edit EXCEPT !.since = @ \ {w}]
  /\ UNCHANGED <<store, th, held, called, swept, ages, reloads>>

Persist ==
  /\ chain # <<>>
  /\ chain' = Tail(chain) /\ seq' = seq + 1
  /\ updates' = updates \cup {[seq |-> seq + 1, upd |-> Head(chain), old |-> FALSE]}
  /\ UNCHANGED <<doc, revs, th, held, edit, bounds>>

\* ------------------------------------------------------------------ snapshots

\* What a thread does once its revision r is cut.
Then(t, r) ==
  CASE th[t].op = "compact"                      -> [th[t] EXCEPT !.pc = "prune", !.rev = r, !.snap = Empty, !.head = 0]
    [] th[t].op = "edit" /\ th[t].label = "pre-ai-edit" -> [th[t] EXCEPT !.pc = "apply", !.rev = r, !.snap = Empty, !.head = 0]
    [] OTHER                                     -> Idle
Goto(t, pc) == th' = [th EXCEPT ![t].pc = pc]

\* Of read_note: the AI holds the revision and its text.
Holds(t, r, text) ==
  held' = IF th[t].op = "read" THEN [rev |-> r, text |-> text] ELSE held
Cut(t, r) == th' = [th EXCEPT ![t] = Then(t, r)] /\ Holds(t, r, Text(th[t].snap))

\* cutSnapshot(): the document is encoded at once, ...
Capture(t) ==
  /\ th[t].pc = "capture"
  /\ th' = [th EXCEPT ![t].pc = "before", ![t].snap = doc]
  /\ UNCHANGED <<doc, chain, store, held, edit, bounds>>

\* ... then the head's number is read, ...
Before(t) ==
  /\ th[t].pc = "before"
  /\ th' = [th EXCEPT ![t].pc = "latest", ![t].rev = Len(revs)]
  /\ UNCHANGED <<doc, chain, store, held, edit, bounds>>

\* ... and cutRevision() compares the text with the latest revision's.
Latest(t) ==
  /\ th[t].pc = "latest"
  /\ th' = [th EXCEPT ![t].pc = IF revs[Len(revs)].blocks = Blocks(th[t].snap) THEN "label" ELSE "insert",
                      ![t].head = Len(revs)]
  /\ UNCHANGED <<doc, chain, store, held, edit, bounds>>

\* Another text: a new row, unless its number is taken by now.
Insert(t) ==
  LET s == th[t].snap IN
  /\ th[t].pc = "insert"
  /\ IF Len(revs) = th[t].head
       THEN /\ revs' = Append(revs, [ins |-> s.ins, del |-> s.del, kept |-> TRUE, text |-> Text(s), blocks |-> Blocks(s),
                                     labels |-> {th[t].label}, by |-> IF th[t].op = "compact" THEN "compaction" ELSE "other", old |-> FALSE])
            /\ Cut(t, Len(revs'))
       ELSE th' = [th EXCEPT ![t] = Idle] /\ UNCHANGED <<revs, held>>
  /\ UNCHANGED <<doc, chain, updates, seq, edit, bounds>>

\* The same text: the label is added to the row, and its state brought up to date where no
\* revision was cut since the head's number was read.
Label(t) ==
  LET h == th[t].head IN
  /\ th[t].pc = "label"
  /\ revs' = [revs EXCEPT ![h].labels = @ \cup {th[t].label}]
  /\ IF h = th[t].rev /\ ~(revs[h].kept /\ revs[h].ins = th[t].snap.ins)
       THEN Goto(t, "upgrade") /\ UNCHANGED held
       ELSE Cut(t, h)
  /\ UNCHANGED <<doc, chain, updates, seq, edit, bounds>>

Upgrade(t) ==
  LET h == th[t].head IN
  /\ th[t].pc = "upgrade"
  /\ revs' = [revs EXCEPT ![h].ins = th[t].snap.ins, ![h].del = th[t].snap.del, ![h].kept = TRUE]
  /\ Cut(t, h)
  /\ UNCHANGED <<doc, chain, updates, seq, edit, bounds>>

\* ----------------------------------------------------------------- compaction

Work(op, pc, label) == [op |-> op, pc |-> pc, label |-> label, snap |-> Empty, rev |-> 0, head |-> 0, upto |-> 0, upd |-> Empty]

\* The label of the revision an operation cuts first.
Labels == [read |-> "compaction", edit |-> "pre-ai-edit", revert |-> "publish", restore |-> "publish"]

\* compactOne(): over the threshold, or forced.
Compact(t) ==
  /\ th[t] = Idle /\ swept < MaxSweeps /\ swept' = swept + 1
  /\ th' = [th EXCEPT ![t] = Work("compact", "flush", "compaction")]
  /\ UNCHANGED <<doc, chain, store, held, edit, typed, called, ages, reloads>>

\* flush(): what was on its way to the log is there.
Flush(t) ==
  /\ th[t].pc \in {"flush", "stored"} /\ chain = <<>>
  /\ Goto(t, CASE th[t].pc = "stored" \/ th[t].op = "edit" -> "capture"
              [] th[t].op = "compact" -> "max"
              [] OTHER -> "look")
  /\ UNCHANGED <<doc, chain, store, held, edit, bounds>>

MaxSeq(t) ==
  /\ th[t].pc = "max"
  /\ th' = [th EXCEPT ![t].pc = "capture", ![t].upto = seq]
  /\ UNCHANGED <<doc, chain, store, held, edit, bounds>>

\* Mutant: whatever is in the revision goes.
PrunedAll(t) == {u \in updates : u.seq <= th[t].upto}
Pruned(t) == {u \in updates : u.seq <= th[t].upto /\ u.old}

Prune(t) ==
  /\ th[t].pc = "prune"
  /\ updates' = updates \ Pruned(t)
  /\ Goto(t, "drop")
  /\ UNCHANGED <<doc, chain, seq, revs, held, edit, bounds>>

AfterPreEdit(r) == r > 1 /\ "pre-ai-edit" \in revs[r - 1].labels

Dropped(t) == {r \in 1 .. th[t].rev - 1 : revs[r].labels = {"compaction"} /\ revs[r].old /\ ~AfterPreEdit(r)}

Drop(t) ==
  /\ th[t].pc = "drop"
  /\ revs' = [r \in 1 .. Len(revs) |-> IF r \in Dropped(t) THEN [revs[r] EXCEPT !.kept = FALSE] ELSE revs[r]]
  /\ th' = [th EXCEPT ![t] = Idle]
  /\ UNCHANGED <<doc, chain, updates, seq, held, edit, bounds>>

\* ------------------------------------------------- operations behind the lock

\* Each begins with liveDoc(), which waits for the log.
Call(op, upd) ==
  /\ th[Svc] = Idle /\ op \in NoteOps /\ called < MaxCalled /\ called' = called + 1
  /\ th' = [th EXCEPT ![Svc] = [Work(op, "flush", Labels[op]) EXCEPT !.upd = upd]]
  /\ UNCHANGED <<doc, chain, store, held, edit, typed, swept, ages, reloads>>

ReadNote == Call("read", Empty)

\* ensureBaseRevision(): the latest revision when its vector is the document's, else a new one.
ReadBase ==
  LET l == Len(revs) IN
  /\ th[Svc].op = "read" /\ th[Svc].pc = "look"
  /\ IF revs[l].kept /\ revs[l].ins = doc.ins
       THEN /\ held' = [rev |-> l, text |-> Text(doc)]
            /\ th' = [th EXCEPT ![Svc] = Idle]
       ELSE Goto(Svc, "capture") /\ UNCHANGED held
  /\ UNCHANGED <<doc, chain, store, edit, bounds>>

\* Mutant: the revised text is compared with the document as it is now.
OntoLive(text) == Reconcile(doc, text)
OntoBase(text) == Reconcile(State(held.rev), text)

\* proposeEdit(): a block more or less than was read; base-revision-too-old without the state.
ProposeEdit ==
  /\ revs[held.rev].kept
  /\ \E w \in Words : Call("edit", OntoBase(IF w \in held.text THEN held.text \ {w} ELSE held.text \cup {w}))

\* The delta is merged into the document; the result's revision is cut once it is in the log.
Apply ==
  /\ th[Svc].pc = "apply"
  /\ Update(th[Svc].upd)
  /\ th' = [th EXCEPT ![Svc] = Work(@.op, "stored", IF @.op = "edit" THEN "compaction" ELSE @.label)]
  /\ edit' = IF th[Svc].op = "edit" THEN [pre |-> th[Svc].rev, since |-> {}] ELSE edit
  /\ UNCHANGED <<store, held, bounds>>

\* The AI's result: the revision after pre, past those that compaction cut in between.
Result(pre) ==
  LET own == {r \in pre + 1 .. Len(revs) : r <= pre + 4 /\ revs[r].by = "other"} IN
  IF own = {} THEN None ELSE CHOOSE r \in own : \A q \in own : r <= q

RevertAiEdit == edit # None /\ Call("revert", Empty)

\* revertAiEdit(): what leads from the result back to the text of before.
TakeBack ==
  LET r == Result(edit.pre)
      base == IF r # None /\ revs[r].kept THEN State(r) ELSE doc
  IN /\ th[Svc].op = "revert" /\ th[Svc].pc = "look"
     /\ th' = [th EXCEPT ![Svc] = [@ EXCEPT !.pc = "apply", !.upd = Reconcile(base, revs[edit.pre].text)]]
     /\ UNCHANGED <<doc, chain, store, held, edit, bounds>>

Restore == Call("restore", Empty)

\* replaceBody(), restoreRevision(): the document made to read as an older revision.
PutBack ==
  /\ th[Svc].op = "restore" /\ th[Svc].pc = "look"
  /\ \E r \in 1 .. Len(revs) :
       th' = [th EXCEPT ![Svc] = [@ EXCEPT !.pc = "apply", !.upd = Reconcile(doc, revs[r].text)]]
  /\ UNCHANGED <<doc, chain, store, held, edit, bounds>>

\* ------------------------------------------------------------ time and crashes

\* Everything becomes older than the window, which no operation lasts for.
Age ==
  /\ ages < MaxAges /\ ages' = ages + 1
  /\ \A t \in Thread : th[t] = Idle
  /\ chain = <<>>
  /\ updates' = {[u EXCEPT !.old = TRUE] : u \in updates}
  /\ revs' = [r \in 1 .. Len(revs) |-> [revs[r] EXCEPT !.old = TRUE]]
  /\ UNCHANGED <<doc, chain, seq, th, held, edit, typed, called, swept, reloads>>

Crash ==
  /\ reloads < MaxReloads /\ reloads' = reloads + 1
  /\ doc' = Load /\ chain' = <<>>
  /\ th' = [t \in Thread |-> Idle]
  /\ UNCHANGED <<store, held, edit, typed, called, swept, ages>>

Cutting(t) == Capture(t) \/ Before(t) \/ Latest(t) \/ Insert(t) \/ Label(t) \/ Upgrade(t)

Next ==
  \/ Type \/ Persist \/ ReadNote \/ ReadBase \/ ProposeEdit \/ Apply \/ RevertAiEdit \/ TakeBack \/ Restore \/ PutBack
  \/ Age \/ Crash
  \/ \E t \in Compactor : Compact(t) \/ MaxSeq(t) \/ Prune(t) \/ Drop(t)
  \/ \E t \in Thread : Cutting(t) \/ Flush(t)

Spec == Init /\ [][Next]_vars

\* ----------------------------------------------------------------- properties

\* What a restart would load, with the updates still on their way, is what is in memory: no revision that
\* an older snapshot replaces, no update pruned and no state dropped takes anything away (load, cutSnapshot, compactOne).
LoadsBack == Merge(Load, Fold({chain[i] : i \in 1 .. Len(chain)})) = doc

\* An AI's edit takes out nothing that the AI had not been given to read, whatever was
\* written in the meantime (proposeEdit reconciles with the revision that was read).
EditKeepsOthers ==
  [][th[Svc].op = "edit" /\ th[Svc].pc = "apply" /\ th'[Svc].pc = "stored" /\ held.text = revs[held.rev].text
       => Text(doc) \ Text(doc') \subseteq held.text]_vars

\* knowledge/service.ts:373-374 says of revertAiEdit(): "only the AI's blocks are reverted and later human
\* edits survive".
LaterEditsSurvive ==
  [][th[Svc].op = "revert" /\ th[Svc].pc = "apply" /\ th'[Svc].pc = "stored"
       => edit.since \cap Text(doc) \subseteq Text(doc')]_vars
===============================================================================
