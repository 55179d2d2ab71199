------------------------------ MODULE Mirrors ------------------------------
(***************************************************************************)
(* The mirror of one configured repository (mirrors/service.ts): reconcile *)
(* brings the objects in memory in line with breadboard.yaml every minute, *)
(* one at a time; an object has at most one fetch under way, which the     *)
(* reconcile that dropped it may not wait for.  The directory on disk is   *)
(* that of the name, whatever remote it was cloned from.                   *)
(*                                                                         *)
(* A commit is the remote it came from.                                    *)
(***************************************************************************)
EXTENDS Integers, Sequences

CONSTANTS
  Remote,       \* urls and branches: what mirrorKey() tells apart
  None,
  MaxChanges,   \* bound: changes of breadboard.yaml
  MaxReboots    \* bound: crashes of the server

VARIABLES
  conf,      \* breadboard.yaml: a remote, "disabled", or "absent"
  mirror,    \* the mirror objects made: remote, head and where their fetch is
  cur,       \* the one in the map, 0 if there is none
  recon,     \* where reconcile() is, and the configuration it read
  disk,      \* the clone: whether there is one, what its branch is at, and state.json
  changes, reboots,
  loose      \* whether an object was dropped while it was fetching

vars == <<conf, mirror, cur, recon, disk, changes, reboots, loose>>

Resting == [pc |-> "idle", want |-> "absent", old |-> 0]
NoClone == [repo |-> FALSE, ref |-> None, state |-> None]

TypeOK ==
  /\ conf \in Remote \cup {"disabled", "absent"} /\ cur \in 0 .. Len(mirror)
  /\ \A m \in 1 .. Len(mirror) :
       mirror[m].key \in Remote /\ mirror[m].head \in Remote \cup {None}
         /\ mirror[m].fetch \in {"idle", "repo", "git", "parse", "save"}
  /\ recon.pc \in {"idle", "apply", "discard", "load", "stray"}
  /\ disk.ref \in Remote \cup {None} /\ disk.state \in Remote \cup {None}

Init ==
  /\ conf \in Remote /\ mirror = <<>> /\ cur = 0 /\ recon = Resting /\ disk = NoClone
  /\ changes = 0 /\ reboots = 0 /\ loose = FALSE

Fetching(m) == m # 0 /\ mirror[m].fetch # "idle"
At(pc) == recon' = [recon EXCEPT !.pc = pc]

Configure ==
  /\ changes < MaxChanges /\ changes' = changes + 1
  /\ conf' \in (Remote \cup {"disabled", "absent"}) \ {conf}
  /\ UNCHANGED <<mirror, cur, recon, disk, reboots, loose>>

\* ------------------------------------------------------------------ reconcile

\* The settings are awaited; a second call joins the one under way.
Reconcile ==
  /\ recon.pc = "idle"
  /\ recon' = [pc |-> "apply", want |-> conf, old |-> 0]
  /\ UNCHANGED <<conf, mirror, cur, disk, changes, reboots, loose>>

\* Disabled, or no longer listed: out of the map at once, whatever it is doing.
DropIt ==
  /\ recon.pc = "apply" /\ recon.want \in {"disabled", "absent"}
  /\ cur' = 0 /\ loose' = (loose \/ Fetching(cur))
  /\ At("stray")
  /\ UNCHANGED <<conf, mirror, disk, changes, reboots>>

\* removeStray(): what is not listed and has its state file is deleted.
Stray ==
  /\ recon.pc = "stray"
  /\ disk' = IF recon.want = "absent" /\ disk.repo /\ disk.state # None THEN NoClone ELSE disk
  /\ recon' = Resting
  /\ UNCHANGED <<conf, mirror, cur, changes, reboots, loose>>

Matches == cur # 0 /\ mirror[cur].key = recon.want

\* Another remote: the object leaves the map and is discarded; none: it is loaded.
Change ==
  /\ recon.pc = "apply" /\ recon.want \in Remote /\ ~Matches
  /\ cur' = 0
  /\ recon' = [recon EXCEPT !.pc = IF cur = 0 THEN "load" ELSE "discard", !.old = cur]
  /\ UNCHANGED <<conf, mirror, disk, changes, reboots, loose>>

\* Mutant: the directory goes while a fetch writes to it.
AtOnce(m) == TRUE
FetchEnded(m) == ~Fetching(m)

\* discard(): waits for the fetch.
Discard ==
  /\ recon.pc = "discard" /\ FetchEnded(recon.old)
  /\ disk' = NoClone
  /\ At("load")
  /\ UNCHANGED <<conf, mirror, cur, changes, reboots, loose>>

OwnClone(key) == disk.state \in {None, key}

\* load(): a clone of another remote is deleted, else its branch is the head; without one it is fetched.
LoadIt ==
  /\ recon.pc = "load"
  /\ LET head == IF OwnClone(recon.want) THEN disk.ref ELSE None IN
       /\ mirror' = Append(mirror, [key |-> recon.want, head |-> head, fetch |-> IF head = None THEN "repo" ELSE "idle"])
       /\ disk' = IF OwnClone(recon.want) THEN disk ELSE NoClone
  /\ cur' = Len(mirror')
  /\ At("stray")
  /\ UNCHANGED <<conf, changes, reboots, loose>>

\* Mutant: a clone that failed is left to the callers.
NeverTried(m) == FALSE
NotReady(m) == mirror[m].head = None

\* The configured one: fetched when it has no head, nothing is under way and an attempt is due.
Keep ==
  /\ recon.pc = "apply" /\ Matches
  /\ mirror' = IF NotReady(cur) /\ ~Fetching(cur) THEN [mirror EXCEPT ![cur].fetch = "repo"] ELSE mirror
  /\ At("stray")
  /\ UNCHANGED <<conf, cur, disk, changes, reboots, loose>>

\* ---------------------------------------------------------------------- fetch

\* freshness(): a caller without a pinned commit refreshes the mirror when that is due.
Refresh ==
  /\ cur # 0 /\ ~Fetching(cur)
  /\ mirror' = [mirror EXCEPT ![cur].fetch = "repo"]
  /\ UNCHANGED <<conf, cur, recon, disk, changes, reboots, loose>>

Goes(m, step) == mirror' = [mirror EXCEPT ![m].fetch = step]

\* ensureRepo(): git init where there is no clone.
EnsureRepo(m) ==
  /\ mirror[m].fetch = "repo"
  /\ disk' = IF disk.repo THEN disk ELSE [disk EXCEPT !.repo = TRUE, !.ref = None]
  /\ Goes(m, "git")
  /\ UNCHANGED <<conf, cur, recon, changes, reboots, loose>>

\* git fetch moves the branch, in the directory as it is by then.
GitFetch(m) ==
  /\ mirror[m].fetch = "git" /\ disk.repo
  /\ disk' = [disk EXCEPT !.ref = mirror[m].key]
  /\ Goes(m, "parse")
  /\ UNCHANGED <<conf, cur, recon, changes, reboots, loose>>

\* It fails or times out.
GitFails(m) ==
  /\ mirror[m].fetch = "git"
  /\ Goes(m, "save")
  /\ UNCHANGED <<conf, cur, recon, disk, changes, reboots, loose>>

\* git rev-parse: the head is what the branch is at.
RevParse(m) ==
  /\ mirror[m].fetch = "parse"
  /\ mirror' = [mirror EXCEPT ![m].head = IF disk.ref = None THEN @ ELSE disk.ref, ![m].fetch = "save"]
  /\ UNCHANGED <<conf, cur, recon, disk, changes, reboots, loose>>

\* saveState(): state.json names the remote the object was made for.
SaveState(m) ==
  /\ mirror[m].fetch = "save"
  /\ disk' = [disk EXCEPT !.state = mirror[m].key]
  /\ Goes(m, "idle")
  /\ UNCHANGED <<conf, cur, recon, changes, reboots, loose>>

Crash ==
  /\ reboots < MaxReboots /\ reboots' = reboots + 1
  /\ loose' = (loose \/ \E m \in 1 .. Len(mirror) : Fetching(m))
  /\ mirror' = <<>> /\ cur' = 0 /\ recon' = Resting
  /\ UNCHANGED <<conf, disk, changes>>

Applies == DropIt \/ Stray \/ Change \/ Discard \/ LoadIt \/ Keep
Fetches(m) == EnsureRepo(m) \/ GitFetch(m) \/ GitFails(m) \/ RevParse(m) \/ SaveState(m)

Next == Configure \/ Reconcile \/ Applies \/ Refresh \/ Crash \/ \E m \in 1 .. Len(mirror) : Fetches(m)

Spec == Init /\ [][Next]_vars

\* The timer ticks, what was begun goes on, and a remote that is fetched again and again answers once.
CurrentFetch == cur # 0 /\ GitFetch(cur)
Fair ==
  /\ WF_vars(Reconcile) /\ WF_vars(Applies)
  /\ WF_vars(\E m \in 1 .. Len(mirror) : Fetches(m))
  /\ SF_vars(CurrentFetch)
LiveSpec == Spec /\ Fair

\* ----------------------------------------------------------------- properties

\* What the mirror answers from is of the remote it is configured with, through changes of the
\* remote, failed clones and restarts (discard, load, mirrorKey).
OwnRemote == ~loose /\ cur # 0 => mirror[cur].head \in {None, mirror[cur].key}

\* Once the configuration is left alone, a configured repository is cloned in the end and stays in the
\* map, whatever failed and whatever objects of before still write to its directory (reconcile, fetch).
UpToDate == conf \in Remote => cur # 0 /\ mirror[cur].key = conf /\ mirror[cur].head # None
=============================================================================
