---------------------------- MODULE ServiceProofs ----------------------------
(***************************************************************************)
(* Mirrors: OwnRemote; configuration: MainSound and OthersKept; evals:     *)
(* Accounted and ScoresFit.                                                *)
(***************************************************************************)
EXTENDS MCServices, TLAPS

-----------------------------------------------------------------------------
(***************************************************************************)
(* Mirrors.  The object that may write to the directory is the one in the  *)
(* map or the one that reconcile() is waiting for; what the branch is at   *)
(* came from that object's remote, and once its fetch has ended the state  *)
(* file says so, which is what load() trusts after a restart.              *)
(***************************************************************************)

Object == [key : Remote, head : Remote \cup {None}, fetch : {"idle", "repo", "git", "parse", "save"}]

Typed ==
  /\ mirror \in Seq(Object)
  /\ cur \in Nat /\ cur <= Len(mirror)
  /\ recon \in [pc : {"idle", "apply", "discard", "load", "stray"},
                want : Remote \cup {"disabled", "absent"}, old : Nat]
  /\ recon.old <= Len(mirror)
  /\ disk \in [repo : BOOLEAN, ref : Remote \cup {None}, state : Remote \cup {None}]
  /\ conf \in Remote \cup {"disabled", "absent"} /\ loose \in BOOLEAN

\* The object the directory belongs to.
Owner == IF recon.pc = "discard" THEN recon.old ELSE cur

\* While reconcile() discards or loads there is no object in the map.
MapEmpty ==
  /\ recon.pc \in {"discard", "load"} => cur = 0 /\ recon.want \in Remote
  /\ recon.pc = "discard" => recon.old # 0

OnlyOwnerFetches == \A m \in 1 .. Len(mirror) : Fetching(m) => m = Owner

OwnersClone == Owner # 0 =>
  /\ disk.ref \in {None, mirror[Owner].key}
  /\ mirror[Owner].head \in {None, mirror[Owner].key}

StateIsTrue == ~Fetching(Owner) => disk.ref \in {None, disk.state}

MirrorInv == Typed /\ MapEmpty /\ (~loose => OnlyOwnerFetches /\ OwnersClone /\ StateIsTrue)

LEMMA LenIsNat == ASSUME mirror \in Seq(Object) PROVE Len(mirror) \in Nat /\ 0 <= Len(mirror)
OBVIOUS

\* The invariant says what OwnRemote says.
LEMMA MirrorInvImplies == MirrorInv => OwnRemote
<1> SUFFICES ASSUME MirrorInv, ~loose, cur # 0 PROVE mirror[cur].head \in {None, mirror[cur].key}
  BY DEF OwnRemote
<1>1. Owner = cur
  BY DEF MirrorInv, MapEmpty, Owner
<1> QED BY <1>1 DEF MirrorInv, OwnersClone

LEMMA MirrorInit == Init => MirrorInv
<1> SUFFICES ASSUME Init PROVE MirrorInv
  OBVIOUS
<1>1. Len(mirror) = 0 /\ mirror \in Seq(Object)
  BY DEF Init
<1>2. Typed
  <2>1. recon \in [pc : {"idle", "apply", "discard", "load", "stray"},
                   want : Remote \cup {"disabled", "absent"}, old : Nat] /\ recon.old = 0
    BY DEF Init, Resting
  <2>2. disk \in [repo : BOOLEAN, ref : Remote \cup {None}, state : Remote \cup {None}]
    BY DEF Init, NoClone
  <2>3. cur \in Nat /\ cur <= Len(mirror) /\ recon.old <= Len(mirror)
    BY <1>1, <2>1 DEF Init
  <2>4. conf \in Remote \cup {"disabled", "absent"} /\ loose \in BOOLEAN
    BY DEF Init
  <2> QED BY <1>1, <2>1, <2>2, <2>3, <2>4 DEF Typed
<1>3. MapEmpty /\ OnlyOwnerFetches /\ OwnersClone /\ StateIsTrue
  BY <1>1 DEF Init, MapEmpty, OnlyOwnerFetches, OwnersClone, StateIsTrue, Owner, Resting, NoClone
<1> QED BY <1>2, <1>3 DEF MirrorInv

\* One object whose fetch goes on or is begun.
LEMMA FetchStep ==
  ASSUME mirror \in Seq(Object), NEW m \in 1 .. Len(mirror), NEW f \in {"idle", "repo", "git", "parse", "save"},
         mirror' = [mirror EXCEPT ![m].fetch = f]
  PROVE  /\ mirror' \in Seq(Object) /\ Len(mirror') = Len(mirror)
         /\ \A n \in 1 .. Len(mirror) : mirror'[n].key = mirror[n].key /\ mirror'[n].head = mirror[n].head
         /\ mirror'[m].fetch = f
         /\ \A n \in 1 .. Len(mirror) : n # m => mirror'[n] = mirror[n]
<1> DEFINE o == [mirror[m] EXCEPT !.fetch = f]
<1>1. mirror[m] \in Object
  OBVIOUS
<1>2. o \in Object /\ o.key = mirror[m].key /\ o.head = mirror[m].head /\ o.fetch = f
  BY <1>1 DEF Object
<1>3. mirror' = [mirror EXCEPT ![m] = o]
  OBVIOUS
<1> HIDE DEF o
<1>4. mirror' \in Seq(Object) /\ Len(mirror') = Len(mirror) /\ mirror'[m] = o
  BY <1>2, <1>3
<1>5. \A n \in 1 .. Len(mirror) : n # m => mirror'[n] = mirror[n]
  BY <1>3
<1> QED BY <1>2, <1>4, <1>5

-------------------------------------------------------------------------------
(***************************************************************************)
(* Reconcile.                                                              *)
(***************************************************************************)
LEMMA ConfigureStep == ASSUME MirrorInv, Configure PROVE MirrorInv'
BY LenIsNat DEF MirrorInv, Configure, Typed, MapEmpty, OnlyOwnerFetches, OwnersClone, StateIsTrue, Owner, Fetching

LEMMA ReconcileStep == ASSUME MirrorInv, Reconcile PROVE MirrorInv'
BY LenIsNat DEF MirrorInv, Reconcile, Typed, MapEmpty, OnlyOwnerFetches, OwnersClone, StateIsTrue, Owner, Fetching

LEMMA DropItStep == ASSUME MirrorInv, DropIt PROVE MirrorInv'
BY LenIsNat DEF MirrorInv, DropIt, At, Typed, MapEmpty, OnlyOwnerFetches, OwnersClone, StateIsTrue, Owner, Fetching

LEMMA StrayStep == ASSUME MirrorInv, Stray PROVE MirrorInv'
BY LenIsNat DEF MirrorInv, Stray, Resting, NoClone, Typed, MapEmpty, OnlyOwnerFetches, OwnersClone, StateIsTrue,
       Owner, Fetching

LEMMA ChangeStep == ASSUME MirrorInv, Change PROVE MirrorInv'
BY LenIsNat DEF MirrorInv, Change, Matches, Typed, MapEmpty, OnlyOwnerFetches, OwnersClone, StateIsTrue, Owner, Fetching

LEMMA DiscardStep == ASSUME MirrorInv, Discard PROVE MirrorInv'
BY LenIsNat DEF MirrorInv, Discard, FetchEnded, At, NoClone, Typed, MapEmpty, OnlyOwnerFetches, OwnersClone,
       StateIsTrue, Owner, Fetching

\* The clone on disk is taken over only when the state file names the remote.
LEMMA LoadStep == ASSUME MirrorInv, LoadIt PROVE MirrorInv'
<1> DEFINE head == IF OwnClone(recon.want) THEN disk.ref ELSE None
<1> DEFINE o == [key |-> recon.want, head |-> head, fetch |-> IF head = None THEN "repo" ELSE "idle"]
<1> DEFINE n == Len(mirror) + 1
<1>1. recon.pc = "load" /\ cur = 0 /\ Owner = 0 /\ recon.want \in Remote
  BY DEF LoadIt, MirrorInv, MapEmpty, Owner
<1>2. /\ disk'.ref \in {None, head} /\ disk' \in [repo : BOOLEAN, ref : Remote \cup {None}, state : Remote \cup {None}]
      /\ head \in Remote \cup {None}
  BY DEF LoadIt, NoClone, MirrorInv, Typed
<1>3. ~loose => head \in {None, recon.want} /\ disk'.ref \in {None, disk'.state}
  BY <1>1 DEF LoadIt, NoClone, OwnClone, MirrorInv, Typed, StateIsTrue, Fetching
<1>4. o \in Object
  BY <1>1, <1>2 DEF Object
<1>5. mirror' = Append(mirror, o)
  BY DEF LoadIt
<1> HIDE DEF o, head
<1>6. /\ mirror' \in Seq(Object) /\ Len(mirror') = n /\ mirror'[n] = o
      /\ \A m \in 1 .. Len(mirror) : mirror'[m] = mirror[m]
  BY <1>4, <1>5 DEF MirrorInv, Typed
<1>7. cur' = n /\ recon' = [recon EXCEPT !.pc = "stray"] /\ UNCHANGED <<conf, loose>>
  BY <1>6 DEF LoadIt, At
<1>8. Owner' = n
  BY <1>7 DEF Owner, MirrorInv, Typed
<1>9. Typed' /\ MapEmpty'
  BY <1>2, <1>6, <1>7 DEF MirrorInv, Typed, MapEmpty
<1>10. ASSUME ~loose PROVE OnlyOwnerFetches' /\ OwnersClone' /\ StateIsTrue'
  <2>1. OnlyOwnerFetches'
    BY <1>1, <1>6, <1>8, <1>10 DEF MirrorInv, Typed, OnlyOwnerFetches, Fetching
  <2>2. OwnersClone'
    BY <1>2, <1>3, <1>6, <1>8, <1>10 DEF OwnersClone, o
  <2>3. StateIsTrue'
    BY <1>3, <1>10 DEF StateIsTrue
  <2> QED BY <2>1, <2>2, <2>3
<1> QED BY <1>7, <1>9, <1>10 DEF MirrorInv

\* Of a step that only begins or continues the owner's fetch, or that of an object dropped while loose.
LEMMA FetchInv ==
  ASSUME MirrorInv, NEW m \in 1 .. Len(mirror), NEW f \in {"repo", "git", "parse", "save"},
         mirror' = [mirror EXCEPT ![m].fetch = f], Fetching(m) \/ m = cur,
         UNCHANGED <<conf, cur, loose>>,
         recon' = recon \/ (recon.pc # "discard" /\ cur # 0 /\ recon' = [recon EXCEPT !.pc = "stray"]),
         disk' \in [repo : BOOLEAN, ref : Remote \cup {None}, state : Remote \cup {None}],
         disk'.ref \in {None, disk.ref, mirror[m].key}
  PROVE  MirrorInv'
<1>1. /\ mirror' \in Seq(Object) /\ Len(mirror') = Len(mirror)
      /\ \A n \in 1 .. Len(mirror) : mirror'[n].key = mirror[n].key /\ mirror'[n].head = mirror[n].head
      /\ mirror'[m].fetch = f
      /\ \A n \in 1 .. Len(mirror) : n # m => mirror'[n] = mirror[n]
  BY FetchStep DEF MirrorInv, Typed
<1>2. Owner' = Owner /\ Owner \in Nat /\ Owner <= Len(mirror)
  BY DEF Owner, MirrorInv, Typed
<1>3. Typed' /\ MapEmpty'
  BY <1>1 DEF MirrorInv, Typed, MapEmpty
<1>4. ASSUME ~loose PROVE OnlyOwnerFetches' /\ OwnersClone' /\ StateIsTrue'
  <2>1. m = Owner
    BY <1>4 DEF MirrorInv, OnlyOwnerFetches, Owner, MapEmpty, Fetching
  <2>2. Fetching(Owner)' /\ OnlyOwnerFetches'
    BY <1>1, <1>2, <1>4, <2>1 DEF MirrorInv, OnlyOwnerFetches, Fetching
  <2>3. OwnersClone'
    BY <1>1, <1>2, <1>4, <2>1 DEF MirrorInv, OwnersClone
  <2> QED BY <2>2, <2>3 DEF StateIsTrue
<1> QED BY <1>3, <1>4 DEF MirrorInv

LEMMA KeepStep == ASSUME MirrorInv, Keep PROVE MirrorInv'
<1>1. CASE UNCHANGED mirror
  BY <1>1 DEF MirrorInv, Keep, At, Typed, MapEmpty, OnlyOwnerFetches, OwnersClone, StateIsTrue, Owner, Fetching
<1>2. CASE mirror' = [mirror EXCEPT ![cur].fetch = "repo"]
  <2>1. cur \in 1 .. Len(mirror) /\ recon' = [recon EXCEPT !.pc = "stray"] /\ recon.pc = "apply"
    BY DEF Keep, At, Matches, MirrorInv, Typed
  <2>2. /\ UNCHANGED <<conf, cur, loose, disk>> /\ cur # 0
        /\ disk \in [repo : BOOLEAN, ref : Remote \cup {None}, state : Remote \cup {None}]
    BY <2>1 DEF Keep, MirrorInv, Typed
  <2> QED BY <1>2, <2>1, <2>2, FetchInv
<1> QED BY <1>1, <1>2 DEF Keep

-------------------------------------------------------------------------------
(***************************************************************************)
(* Fetches.                                                                *)
(***************************************************************************)
LEMMA RefreshStep == ASSUME MirrorInv, Refresh PROVE MirrorInv'
<1>1. cur \in 1 .. Len(mirror)
  BY DEF Refresh, MirrorInv, Typed
<1> QED BY <1>1, FetchInv DEF Refresh, MirrorInv, Typed

LEMMA EnsureRepoStep == ASSUME MirrorInv, NEW m \in 1 .. Len(mirror), EnsureRepo(m) PROVE MirrorInv'
<1>1. Fetching(m) /\ mirror' = [mirror EXCEPT ![m].fetch = "git"]
  BY DEF EnsureRepo, Fetching, Goes
<1>2. /\ disk' \in [repo : BOOLEAN, ref : Remote \cup {None}, state : Remote \cup {None}]
      /\ disk'.ref \in {None, disk.ref}
  BY DEF EnsureRepo, MirrorInv, Typed
<1> QED BY <1>1, <1>2, FetchInv DEF EnsureRepo

LEMMA GitFetchStep == ASSUME MirrorInv, NEW m \in 1 .. Len(mirror), GitFetch(m) PROVE MirrorInv'
<1>1. Fetching(m) /\ mirror' = [mirror EXCEPT ![m].fetch = "parse"]
  BY DEF GitFetch, Fetching, Goes
<1>2. mirror[m] \in Object
  BY DEF MirrorInv, Typed
<1>3. /\ disk' \in [repo : BOOLEAN, ref : Remote \cup {None}, state : Remote \cup {None}]
      /\ disk'.ref = mirror[m].key
  BY <1>2 DEF GitFetch, MirrorInv, Typed, Object
<1> QED BY <1>1, <1>3, FetchInv DEF GitFetch

LEMMA GitFailsStep == ASSUME MirrorInv, NEW m \in 1 .. Len(mirror), GitFails(m) PROVE MirrorInv'
<1>1. Fetching(m) /\ mirror' = [mirror EXCEPT ![m].fetch = "save"]
  BY DEF GitFails, Fetching, Goes
<1> QED BY <1>1, FetchInv DEF GitFails, MirrorInv, Typed

LEMMA RevParseStep == ASSUME MirrorInv, NEW m \in 1 .. Len(mirror), RevParse(m) PROVE MirrorInv'
<1> DEFINE head == IF disk.ref = None THEN mirror[m].head ELSE disk.ref
<1>1. mirror[m] \in Object /\ mirror \in Seq(Object) /\ disk.ref \in Remote \cup {None}
  BY DEF MirrorInv, Typed
<1>2. mirror[m] \in Object /\ mirror \in Seq(Object) /\ head \in Remote \cup {None}
  BY <1>1 DEF Object
<1>3. mirror' = [mirror EXCEPT ![m] = [@ EXCEPT !.head = head, !.fetch = "save"]]
  BY <1>2 DEF RevParse, Object
<1> HIDE DEF head
<1> DEFINE o == [mirror[m] EXCEPT !.head = head, !.fetch = "save"]
<1>4. o \in Object
  BY <1>2 DEF Object
<1>5. mirror' = [mirror EXCEPT ![m] = o]
  BY <1>3
<1> HIDE DEF o
<1>6. /\ mirror' \in Seq(Object) /\ Len(mirror') = Len(mirror) /\ mirror'[m] = o
      /\ \A n \in 1 .. Len(mirror) : n # m => mirror'[n] = mirror[n]
  BY <1>2, <1>4, <1>5
<1>7. UNCHANGED <<conf, cur, recon, disk, loose>> /\ Owner' = Owner /\ Owner \in Nat /\ Owner <= Len(mirror)
  BY DEF RevParse, Owner, MirrorInv, Typed
<1>8. Typed' /\ MapEmpty'
  BY <1>6, <1>7 DEF MirrorInv, Typed, MapEmpty
<1>9. ASSUME ~loose PROVE OnlyOwnerFetches' /\ OwnersClone' /\ StateIsTrue'
  <2>1. m = Owner
    BY <1>9 DEF MirrorInv, OnlyOwnerFetches, RevParse, Fetching
  <2>2. mirror'[m].key = mirror[m].key /\ mirror'[m].head = head /\ mirror'[m].fetch = "save"
    BY <1>2, <1>6 DEF o, Object
  <2>3. Fetching(Owner)' /\ OnlyOwnerFetches'
    BY <1>6, <1>7, <1>9, <2>1, <2>2 DEF MirrorInv, OnlyOwnerFetches, Fetching
  <2>4. OwnersClone'
    BY <1>6, <1>7, <1>9, <2>1, <2>2 DEF MirrorInv, OwnersClone, head
  <2> QED BY <2>3, <2>4 DEF StateIsTrue
<1> QED BY <1>7, <1>8, <1>9 DEF MirrorInv

\* The end of a fetch: from now on the state file speaks for the clone.
LEMMA SaveStateStep == ASSUME MirrorInv, NEW m \in 1 .. Len(mirror), SaveState(m) PROVE MirrorInv'
<1>1. mirror[m] \in Object /\ mirror' = [mirror EXCEPT ![m].fetch = "idle"]
  BY DEF MirrorInv, Typed, SaveState, Goes
<1>2. /\ mirror' \in Seq(Object) /\ Len(mirror') = Len(mirror)
      /\ \A n \in 1 .. Len(mirror) : mirror'[n].key = mirror[n].key /\ mirror'[n].head = mirror[n].head
      /\ mirror'[m].fetch = "idle"
      /\ \A n \in 1 .. Len(mirror) : n # m => mirror'[n] = mirror[n]
  BY <1>1, FetchStep DEF MirrorInv, Typed
<1>3. /\ UNCHANGED <<conf, cur, recon, loose>> /\ Owner' = Owner /\ Owner \in Nat /\ Owner <= Len(mirror)
      /\ disk' = [disk EXCEPT !.state = mirror[m].key]
  BY DEF SaveState, Owner, MirrorInv, Typed
<1>4. Typed' /\ MapEmpty'
  BY <1>1, <1>2, <1>3 DEF MirrorInv, Typed, MapEmpty, Object
<1>5. ASSUME ~loose PROVE OnlyOwnerFetches' /\ OwnersClone' /\ StateIsTrue'
  <2>1. m = Owner
    BY <1>5 DEF MirrorInv, OnlyOwnerFetches, SaveState, Fetching
  <2>2. OnlyOwnerFetches'
    BY <1>2, <1>3, <1>5 DEF MirrorInv, OnlyOwnerFetches, Fetching
  <2>3. OwnersClone' /\ StateIsTrue'
    BY <1>2, <1>3, <1>5, <2>1 DEF MirrorInv, Typed, OwnersClone, StateIsTrue
  <2> QED BY <2>2, <2>3
<1> QED BY <1>3, <1>4, <1>5 DEF MirrorInv

\* What is lost while it fetches makes the mirror loose.
LEMMA CrashStep == ASSUME MirrorInv, Crash PROVE MirrorInv'
<1>1. Typed' /\ MapEmpty' /\ Owner' = 0 /\ Len(mirror') = 0
  BY DEF Crash, Resting, MirrorInv, Typed, MapEmpty, Owner
<1>2. ASSUME ~loose' PROVE OnlyOwnerFetches' /\ OwnersClone' /\ StateIsTrue'
  <2>1. ~loose /\ \A m \in 1 .. Len(mirror) : ~Fetching(m)
    BY <1>2 DEF Crash
  <2>2. ~Fetching(Owner)
    BY <2>1 DEF MirrorInv, Typed, Owner, Fetching
  <2> QED BY <1>1, <2>1, <2>2 DEF Crash, MirrorInv, OnlyOwnerFetches, OwnersClone, StateIsTrue, Fetching
<1> QED BY <1>1, <1>2 DEF MirrorInv

LEMMA MirrorNext == MirrorInv /\ [Next]_vars => MirrorInv'
<1> SUFFICES ASSUME MirrorInv, [Next]_vars PROVE MirrorInv'
  OBVIOUS
<1>1. CASE Configure BY <1>1, ConfigureStep
<1>2. CASE Reconcile BY <1>2, ReconcileStep
<1>3. CASE Applies
  BY <1>3, DropItStep, StrayStep, ChangeStep, DiscardStep, LoadStep, KeepStep DEF Applies
<1>4. CASE Refresh BY <1>4, RefreshStep
<1>5. CASE Crash BY <1>5, CrashStep
<1>6. CASE \E m \in 1 .. Len(mirror) : Fetches(m)
  BY <1>6, EnsureRepoStep, GitFetchStep, GitFailsStep, RevParseStep, SaveStateStep DEF Fetches
<1>7. CASE UNCHANGED vars
  BY <1>7 DEF vars, MirrorInv, Typed, MapEmpty, OnlyOwnerFetches, OwnersClone, StateIsTrue, Owner, Fetching
<1> QED BY <1>1, <1>2, <1>3, <1>4, <1>5, <1>6, <1>7 DEF Next

\* Every object, the clone and reconcile() keep their types.
LEMMA TypedImplies == MirrorInv => TypeOK
<1> SUFFICES ASSUME MirrorInv PROVE TypeOK
  OBVIOUS
<1>1. \A m \in 1 .. Len(mirror) : mirror[m] \in Object
  BY DEF MirrorInv, Typed
<1>2. Len(mirror) \in Nat /\ cur \in 0 .. Len(mirror)
  BY LenIsNat DEF MirrorInv, Typed
<1> QED BY <1>1, <1>2 DEF MirrorInv, Typed, TypeOK, Object

THEOREM MirrorTyping == Spec => []TypeOK
<1>1. Init => MirrorInv BY MirrorInit
<1>2. MirrorInv /\ [Next]_vars => MirrorInv' BY MirrorNext
<1>3. MirrorInv => TypeOK BY TypedImplies
<1> QED BY <1>1, <1>2, <1>3, PTL DEF Spec

\* A mirror answers from the remote it is configured with, for any remotes, changes of the
\* configuration and restarts, unless an object was dropped while it fetched (discard, load, state.json).
THEOREM OwnRemoteAlways == Spec => []OwnRemote
<1>1. Init => MirrorInv BY MirrorInit
<1>2. MirrorInv /\ [Next]_vars => MirrorInv' BY MirrorNext
<1>3. MirrorInv => OwnRemote BY MirrorInvImplies
<1> QED BY <1>1, <1>2, <1>3, PTL DEF Spec

-------------------------------------------------------------------------------
(***************************************************************************)
(* The configuration: MainSound and OthersKept.  Between the steps of a    *)
(* write main may be unsound; what the write remembers, the head before    *)
(* it, is sound, and either the merged tree is checked or it is that of    *)
(* the branch, which was.  The commits of a branch since its base are on   *)
(* no other branch and not on main, so that what git takes for the merge   *)
(* base is the base the proposal was made on.                              *)
(***************************************************************************)
Trees == [Hunk -> UNION {Val[h] : h \in Hunk}]
Commit == [tree : Trees, index : Trees, par : SUBSET Nat, rev : BOOLEAN, anc : SUBSET Nat]
Proposed == [status : {"none", "draft", "open", "merged", "discarded"}, base : Nat, head : Nat, merged : Nat]
Writing == [op : {"none", "draft", "open", "amend", "discard", "merge", "revert"},
            step : {"idle", "check", "row", "prune"}, p : Proposal \cup {None}, was : Nat, made : Nat]
Anc(c) == commits[c].anc

History ==
  /\ commits \in Seq(Commit) /\ main \in 1 .. Len(commits)
  /\ \A c \in 1 .. Len(commits) :
       /\ Anc(c) \subseteq 1 .. c /\ c \in Anc(c) /\ \A d \in Anc(c) : Anc(d) \subseteq Anc(c)
       /\ commits[c].par \subseteq Anc(c)

Heads ==
  /\ branch \in [Proposal -> Nat] /\ \A p \in Proposal : branch[p] <= Len(commits)
  /\ row \in [Proposal -> Proposed] /\ \A p \in Proposal : row[p].base <= Len(commits) /\ row[p].head <= Len(commits)
  /\ \A p \in Proposal : row[p].status \in {"draft", "open"} => row[p].base # 0 /\ row[p].head # 0
  /\ refused \subseteq Proposal /\ crashes \in Nat

Merging(p) == job.op = "merge" /\ job.p = p
Making(p) == job.step = "row" /\ job.op \in {"draft", "open"} /\ job.p = p

Jobs ==
  /\ job \in Writing /\ job.was <= Len(commits) /\ job.made <= Len(commits)
  /\ job.step = "idle" => job = Config!NoJob
  /\ job.step = "check" =>
       /\ job.op \in {"merge", "revert"} /\ job.was \in Anc(main)
       /\ job.op = "merge" => job.p \in Proposal /\ branch[job.p] # 0
  /\ job.step = "row" =>
       /\ job.p \in Proposal /\ job.op \in {"draft", "open", "amend", "discard", "merge"}
       /\ job.op \in {"draft", "open"} => job.was # 0 /\ branch[job.p] # 0
       /\ job.op \in {"draft", "open", "amend"} => job.made # 0
       /\ job.op = "discard" => branch[job.p] = 0
       /\ job.op = "amend" => row[job.p].status \in {"draft", "open"}
  /\ job.step = "prune" => job.op = "merge" /\ job.p \in Proposal /\ row[job.p].status = "merged"

Sound(c) ==
  /\ (\A d \in Anc(c) : ~commits[d].rev) => commits[c].tree \in Strict
  /\ commits[c].index = commits[c].tree

MainInv ==
  IF job.step = "check"
  THEN /\ Sound(job.was)
       /\ job.op = "merge" => commits[branch[job.p]].tree \in Strict
       /\ job.op = "revert" => commits[main].rev
  ELSE Sound(main)

\* A proposal's base, and that its branch shares with the others what the base has.
Base(p) == IF Making(p) THEN job.was ELSE row[p].base
Apart(p) ==
  /\ Base(p) \in Anc(main) /\ Base(p) \in Anc(branch[p])
  /\ \A c \in Anc(branch[p]) \ Anc(Base(p)) :
       c \notin Anc(main) /\ \A q \in Proposal \ {p} : branch[q] # 0 => c \notin Anc(branch[q])

Branches ==
  \A p \in Proposal :
    /\ row[p].status \in {"draft", "open"} /\ ~(job.op = "discard" /\ job.p = p) => branch[p] # 0
    /\ p \notin refused /\ branch[p] # 0 /\ ~Merging(p) =>
         (Making(p) \/ row[p].status \in {"draft", "open"}) /\ Apart(p)

ConfigInv == History /\ Heads /\ Jobs /\ (crashes = 0 => MainInv /\ Branches)

\* One more commit, of which the rest of the history is unchanged.
LEMMA OneMore ==
  ASSUME History, NEW c \in Commit, c.anc \subseteq 1 .. Len(commits) + 1, Len(commits) + 1 \in c.anc, c.par \subseteq c.anc,
         \A e \in c.anc : e # Len(commits) + 1 => Anc(e) \subseteq c.anc,
         commits' = Append(commits, c), main' \in 1 .. Len(commits) + 1
  PROVE  /\ History' /\ Len(commits') = Len(commits) + 1 /\ Len(commits) \in Nat
         /\ \A d \in 1 .. Len(commits) : commits'[d] = commits[d]
         /\ commits'[Len(commits) + 1] = c
<1> DEFINE n == Len(commits)
<1>1. /\ commits \in Seq(Commit) /\ n \in Nat
      /\ \A d \in 1 .. n : /\ Anc(d) \subseteq 1 .. d /\ d \in Anc(d) /\ \A e \in Anc(d) : Anc(e) \subseteq Anc(d)
                          /\ commits[d].par \subseteq Anc(d)
  BY DEF History
<1>2. /\ commits' \in Seq(Commit) /\ Len(commits') = n + 1 /\ commits'[n + 1] = c
      /\ \A d \in 1 .. n : commits'[d] = commits[d]
  BY <1>1
<1>3. ASSUME NEW d \in 1 .. n + 1
      PROVE  /\ Anc(d)' \subseteq 1 .. d /\ d \in Anc(d)' /\ \A e \in Anc(d)' : Anc(e)' \subseteq Anc(d)'
             /\ commits'[d].par \subseteq Anc(d)'
  <2>1. CASE d \in 1 .. n
    BY <1>1, <1>2, <2>1 DEF Anc
  <2>2. CASE d = n + 1
    <3>1. Anc(d)' = c.anc
      BY <1>2, <2>2 DEF Anc
    <3>2. \A e \in 1 .. n : Anc(e)' = Anc(e)
      BY <1>2 DEF Anc
    <3>3. ASSUME NEW e \in c.anc PROVE Anc(e)' \subseteq c.anc
      <4>1. CASE e = n + 1
        BY <3>1, <2>2, <4>1
      <4>2. CASE e # n + 1
        <5>1. e \in 1 .. n
          BY <1>1, <4>2
        <5> QED BY <3>2, <4>2, <5>1
      <4> QED BY <4>1, <4>2
    <3> QED BY <1>2, <2>2, <3>1, <3>3
  <2> QED BY <1>1, <2>1, <2>2
<1> QED BY <1>1, <1>2, <1>3 DEF History

\* The commits of a new one on the parents ps.
LEMMA OnParents ==
  ASSUME History, NEW ps \in SUBSET (1 .. Len(commits)), NEW t \in Trees, NEW i \in Trees, NEW r \in BOOLEAN,
         NEW c, c = [tree |-> t, index |-> i, par |-> ps, rev |-> r,
                     anc |-> {Len(commits) + 1} \cup UNION {Anc(d) : d \in ps}]
  PROVE  /\ c \in Commit /\ c.anc \subseteq 1 .. Len(commits) + 1 /\ Len(commits) + 1 \in c.anc /\ c.par \subseteq c.anc
         /\ \A e \in c.anc : e # Len(commits) + 1 => Anc(e) \subseteq c.anc
<1>1. /\ Len(commits) \in Nat
      /\ \A d \in 1 .. Len(commits) : Anc(d) \subseteq 1 .. d /\ d \in Anc(d) /\ \A e \in Anc(d) : Anc(e) \subseteq Anc(d)
  BY DEF History
<1>2. c.anc \subseteq 1 .. Len(commits) + 1 /\ Len(commits) + 1 \in c.anc
  BY <1>1
<1>3. c \in Commit
  BY <1>1, <1>2 DEF Commit
<1>4. ASSUME NEW e \in c.anc, e # Len(commits) + 1 PROVE Anc(e) \subseteq c.anc
  <2>1. PICK f \in ps : e \in Anc(f)
    BY <1>4
  <2>2. Anc(e) \subseteq Anc(f)
    BY <1>1, <2>1
  <2> QED BY <2>1, <2>2
<1>5. c.par \subseteq c.anc
  BY <1>1
<1> QED BY <1>2, <1>3, <1>4, <1>5

\* The history of before is that of after.
LEMMA Before ==
  ASSUME History, \A d \in 1 .. Len(commits) : commits'[d] = commits[d]
  PROVE  \A d \in 1 .. Len(commits) : Anc(d)' = Anc(d) /\ (Sound(d) => Sound(d)')
<1> SUFFICES ASSUME NEW d \in 1 .. Len(commits) PROVE Anc(d)' = Anc(d) /\ (Sound(d) => Sound(d)')
  OBVIOUS
<1>1. commits'[d] = commits[d] /\ Anc(d) \subseteq 1 .. d /\ Len(commits) \in Nat
  BY DEF History
<1>2. \A e \in Anc(d) : commits'[e] = commits[e]
  BY <1>1
<1> QED BY <1>1, <1>2 DEF Anc, Sound

\* Main takes a new commit, a branch, or both; the other branches stay apart from it.
LEMMA MainGrows ==
  ASSUME History, Heads, Branches, UNCHANGED <<branch, row>>, refused \subseteq refused',
         \A d \in 1 .. Len(commits) : commits'[d] = commits[d],
         NEW Q \in SUBSET Proposal, \A q \in Q : branch[q] # 0,
         Anc(main)' \subseteq {Len(commits) + 1} \cup Anc(main) \cup UNION {Anc(branch[q]) : q \in Q},
         Anc(main) \subseteq Anc(main)', job.op # "discard",
         \A p \in Proposal : p \notin refused' /\ branch[p] # 0 /\ ~Merging(p)' =>
            ~Merging(p) /\ p \notin Q /\ ~Making(p) /\ ~Making(p)'
  PROVE  Branches'
<1>1. \A d \in 1 .. Len(commits) : Anc(d)' = Anc(d)
  BY Before
<1>2. Len(commits) \in Nat /\ \A c \in 1 .. Len(commits) : Anc(c) \subseteq 1 .. c
  BY DEF History
<1>3. \A p \in Proposal : branch[p] # 0 => branch[p] \in 1 .. Len(commits) /\ Anc(branch[p])' = Anc(branch[p])
  BY <1>1, <1>2 DEF Heads
<1> SUFFICES ASSUME NEW p \in Proposal
             PROVE  /\ row[p].status \in {"draft", "open"} /\ ~(job'.op = "discard" /\ job'.p = p) => branch[p] # 0
                    /\ p \notin refused' /\ branch[p] # 0 /\ ~Merging(p)' =>
                         (Making(p)' \/ row[p].status \in {"draft", "open"}) /\ Apart(p)'
  BY DEF Branches
<1>4. ASSUME p \notin refused', branch[p] # 0, ~Merging(p)'
      PROVE  (Making(p)' \/ row[p].status \in {"draft", "open"}) /\ Apart(p)'
  <2>1. p \notin refused /\ ~Merging(p) /\ p \notin Q /\ ~Making(p) /\ ~Making(p)'
    BY <1>4
  <2>2. row[p].status \in {"draft", "open"} /\ Apart(p)
    BY <1>4, <2>1 DEF Branches
  <2>3. Base(p) = row[p].base /\ Base(p)' = row[p].base
    BY <2>1 DEF Base
  <2>4. row[p].base \in 1 .. Len(commits) /\ Anc(row[p].base)' = Anc(row[p].base)
    BY <1>1, <1>2, <2>2 DEF Heads, Proposed
  <2>5. Apart(p)'
    <3>1. row[p].base \in Anc(main)' /\ row[p].base \in Anc(branch[p])'
      BY <1>3, <1>4, <2>2, <2>3 DEF Apart
    <3>2. ASSUME NEW c \in Anc(branch[p])' \ Anc(row[p].base)'
          PROVE  c \notin Anc(main)' /\ \A r \in Proposal \ {p} : branch[r] # 0 => c \notin Anc(branch[r])'
      <4>1. c \in Anc(branch[p]) \ Anc(row[p].base) /\ c \in 1 .. Len(commits)
        BY <1>2, <1>3, <1>4, <2>4, <3>2
      <4>2. c \notin Anc(main) /\ \A r \in Proposal \ {p} : branch[r] # 0 => c \notin Anc(branch[r])
        BY <2>2, <2>3, <4>1 DEF Apart
      <4> QED BY <1>2, <1>3, <2>1, <4>1, <4>2
    <3> QED BY <2>3, <3>1, <3>2 DEF Apart
  <2> QED BY <2>2, <2>5
<1>5. row[p].status \in {"draft", "open"} => branch[p] # 0
  BY DEF Branches
<1> QED BY <1>4, <1>5

LEMMA ConfigInit == Config!Init => ConfigInv
<1> SUFFICES ASSUME Config!Init PROVE ConfigInv
  OBVIOUS
<1>1. /\ main = 1 /\ branch = [p \in Proposal |-> 0] /\ crashes = 0 /\ refused = {}
      /\ row = [p \in Proposal |-> Config!NoRow] /\ job = Config!NoJob
      /\ commits = <<[tree |-> Config!Seed, index |-> Config!Seed, par |-> {}, rev |-> FALSE, anc |-> {1}]>>
  BY DEF Config!Init, Config!NoCommit
<1>2. Config!Seed \in Strict /\ Config!Seed \in Trees
  BY ConfigAssumed DEF Config!ConfigAssumption, Config!Tree, Trees
<1>3. [tree |-> Config!Seed, index |-> Config!Seed, par |-> {}, rev |-> FALSE, anc |-> {1}] \in Commit
  BY <1>2 DEF Commit
<1>4. commits \in Seq(Commit) /\ Len(commits) = 1 /\ Anc(1) = {1} /\ commits[1].tree = Config!Seed /\ commits[1].index = Config!Seed
  BY <1>1, <1>3 DEF Anc
<1>5. History
  BY <1>1, <1>4 DEF History
<1>6. Heads
  BY <1>1, <1>4 DEF Heads, Config!NoRow, Proposed, Config!NoCommit
<1>7. Jobs
  BY <1>1, <1>4 DEF Jobs, Config!NoJob, Writing, Config!NoCommit
<1>8. MainInv
  BY <1>1, <1>2, <1>4 DEF MainInv, Sound, Config!NoJob
<1>9. Branches
  BY <1>1 DEF Branches, Config!NoRow
<1> QED BY <1>5, <1>6, <1>7, <1>8, <1>9 DEF ConfigInv

\* A file's change is one of trees, and so is what it makes of one.
LEMMA EditMakes ==
  ASSUME NEW t \in Trees, NEW e \in Config!Edits(t), NEW s \in Trees
  PROVE  Config!Apply(s, e) \in Trees
<1>1. PICK h \in Hunk : \E v \in Val[h] : e = Config!Edit(t, h, v)
  BY DEF Config!Edits
<1>2. e.body \in Trees
  BY <1>1 DEF Config!Edit, Trees
<1> QED BY <1>2 DEF Config!Apply, Trees

\* The commit that CommitOnMain and RevertOnMain make.
LEMMA OnMain ==
  ASSUME History, NEW t \in Trees, NEW i \in Trees, NEW ps \in SUBSET (1 .. Len(commits)), main \in ps,
         NEW r \in BOOLEAN,
         commits' = Append(commits, [tree |-> t, index |-> i, par |-> ps, rev |-> r,
                                     anc |-> {Len(commits) + 1} \cup UNION {Anc(d) : d \in ps}]),
         main' = Len(commits) + 1
  PROVE  /\ History' /\ Len(commits') = Len(commits) + 1 /\ Len(commits) \in Nat
         /\ \A d \in 1 .. Len(commits) : commits'[d] = commits[d]
         /\ commits'[main'].tree = t /\ commits'[main'].index = i /\ commits'[main'].rev = r
         /\ Anc(main)' = {Len(commits) + 1} \cup UNION {Anc(d) : d \in ps}
         /\ Anc(main) \subseteq Anc(main)' /\ main' \in Anc(main)' /\ main \in Anc(main)
<1>0. PICK c : c = [tree |-> t, index |-> i, par |-> ps, rev |-> r,
                    anc |-> {Len(commits) + 1} \cup UNION {Anc(d) : d \in ps}]
  OBVIOUS
<1>1. main' \in 1 .. Len(commits) + 1 /\ main \in Anc(main)
  BY DEF History
<1>4. /\ c \in Commit /\ c.anc \subseteq 1 .. Len(commits) + 1 /\ Len(commits) + 1 \in c.anc /\ c.par \subseteq c.anc
      /\ \A e \in c.anc : e # Len(commits) + 1 => Anc(e) \subseteq c.anc
  BY <1>0, OnParents
<1>2. /\ History' /\ Len(commits') = Len(commits) + 1 /\ Len(commits) \in Nat
      /\ \A d \in 1 .. Len(commits) : commits'[d] = commits[d]
      /\ commits'[Len(commits) + 1] = c
  BY <1>0, <1>1, <1>4, OneMore
<1>3. Anc(main)' = c.anc
  BY <1>2 DEF Anc
<1> QED BY <1>0, <1>1, <1>2, <1>3

LEMMA CommitType ==
  ASSUME History, NEW c \in 1 .. Len(commits)
  PROVE  /\ commits[c].tree \in Trees /\ commits[c].index \in Trees /\ commits[c].rev \in BOOLEAN
         /\ {c} \in SUBSET (1 .. Len(commits)) /\ c \in Nat /\ c # 0
<1>1. commits[c] \in Commit /\ Len(commits) \in Nat
  BY DEF History
<1> QED BY <1>1 DEF Commit

\* A repository that only grows leaves the rows and the branches what they are.
LEMMA HeadsStay ==
  ASSUME Heads, Len(commits) \in Nat, Len(commits') \in Nat, Len(commits) <= Len(commits'),
         UNCHANGED <<branch, row>>, refused' \in SUBSET Proposal, crashes' \in Nat
  PROVE  Heads'
<1>1. \A p \in Proposal : row[p].base \in Nat /\ row[p].head \in Nat /\ branch[p] \in Nat
  BY DEF Heads, Proposed
<1>2. \A p \in Proposal : row[p].base <= Len(commits') /\ row[p].head <= Len(commits') /\ branch[p] <= Len(commits')
  BY <1>1 DEF Heads
<1> QED BY <1>2 DEF Heads

LEMMA JobsAtRest == ASSUME job' = Config!NoJob, Len(commits') \in Nat PROVE Jobs'
<1>1. job' \in Writing /\ job'.was = 0 /\ job'.made = 0 /\ job'.step = "idle"
  BY DEF Config!NoJob, Config!NoCommit, Writing
<1> QED BY <1>1 DEF Jobs

LEMMA CommitDirectStep == ASSUME ConfigInv, Config!CommitDirect PROVE ConfigInv'
<1>1. PICK e \in Config!Edits(commits[main].tree) :
        /\ Config!Apply(commits[main].tree, e) \in Strict
        /\ Config!CommitOnMain(Config!Apply(commits[main].tree, e), Config!Apply(commits[main].tree, e), {main})
  BY DEF Config!CommitDirect, Config!TreeAt
<1>2. PICK t : t = Config!Apply(commits[main].tree, e)
  OBVIOUS
<1>3. /\ History /\ Heads /\ Jobs /\ commits[main].tree \in Trees
      /\ {main} \in SUBSET (1 .. Len(commits)) /\ main \in {main}
  <2>1. History /\ Heads /\ Jobs /\ main \in 1 .. Len(commits)
    BY DEF ConfigInv, History
  <2> QED BY <2>1, CommitType
<1>4. t \in Trees /\ t \in Strict
  BY <1>1, <1>2, <1>3, EditMakes
<1>5. /\ commits' = Append(commits, [tree |-> t, index |-> t, par |-> {main}, rev |-> FALSE,
                                     anc |-> {Len(commits) + 1} \cup UNION {Anc(d) : d \in {main}}])
      /\ main' = Len(commits) + 1
  BY <1>1, <1>2 DEF Config!CommitOnMain, Config!NewCommit, Config!Next1, Config!Ancestors, Anc
<1>6. /\ History' /\ Len(commits') = Len(commits) + 1 /\ Len(commits) \in Nat
      /\ \A d \in 1 .. Len(commits) : commits'[d] = commits[d]
      /\ commits'[main'].tree = t /\ commits'[main'].index = t
      /\ Anc(main)' = {Len(commits) + 1} \cup UNION {Anc(d) : d \in {main}}
      /\ Anc(main) \subseteq Anc(main)' /\ main' \in Anc(main)'
  BY <1>3, <1>4, <1>5, OnMain
<1>7. UNCHANGED <<branch, row, job, crashes, refused>> /\ job.step = "idle" /\ job = Config!NoJob
  BY <1>3 DEF Config!CommitDirect, Config!Idle, Jobs
<1>8. Heads' /\ Jobs'
  <2>1. Len(commits') \in Nat /\ Len(commits) <= Len(commits')
    BY <1>6
  <2>2. refused' \in SUBSET Proposal /\ crashes' \in Nat
    BY <1>3, <1>7 DEF Heads
  <2> QED BY <1>3, <1>6, <1>7, <2>1, <2>2, HeadsStay, JobsAtRest
<1>9. MainInv'
  BY <1>4, <1>6, <1>7 DEF MainInv, Sound
<1>10. ASSUME crashes = 0 PROVE Branches'
  <2>0. PICK Q \in SUBSET Proposal : Q = {}
    OBVIOUS
  <2>1. /\ Anc(main)' \subseteq {Len(commits) + 1} \cup Anc(main) \cup UNION {Anc(branch[q]) : q \in Q}
        /\ \A q \in Q : branch[q] # 0
        /\ UNCHANGED <<branch, row>> /\ refused \subseteq refused'
    BY <1>6, <1>7, <2>0
  <2>2. \A p \in Proposal : ~Merging(p) /\ p \notin Q /\ ~Making(p) /\ ~Making(p)'
    BY <1>7, <2>0 DEF Merging, Making, Config!NoJob
  <2>3. Branches /\ job.op # "discard"
    BY <1>7, <1>10 DEF ConfigInv, Config!NoJob
  <2> QED BY <1>3, <1>6, <1>7, <2>1, <2>2, <2>3, MainGrows
<1> QED BY <1>6, <1>7, <1>8, <1>9, <1>10 DEF ConfigInv

\* A branch takes a new commit, on a commit of main or on its own head.
LEMMA BranchGrows ==
  ASSUME History, Heads, Branches, job = Config!NoJob, UNCHANGED <<main, row, refused>>,
         \A d \in 1 .. Len(commits) : commits'[d] = commits[d],
         NEW n \in Nat, n = Len(commits) + 1, NEW p \in Proposal, branch' = [branch EXCEPT ![p] = n],
         NEW b \in 1 .. Len(commits), Anc(n)' = {n} \cup Anc(b),
         \/ b \in Anc(main) /\ Making(p)' /\ job'.was = b
         \/ b = branch[p] /\ job'.op = "amend",
         job'.p = p, job'.op \notin {"merge", "discard"}
  PROVE  Branches'
<1>1. \A d \in 1 .. Len(commits) : Anc(d)' = Anc(d)
  BY Before
<1>2. /\ Len(commits) \in Nat /\ main \in 1 .. Len(commits)
      /\ \A c \in 1 .. Len(commits) : Anc(c) \subseteq 1 .. c /\ c \in Anc(c) /\ \A d \in Anc(c) : Anc(d) \subseteq Anc(c)
  BY DEF History
<1>3. \A q \in Proposal : branch[q] # 0 => branch[q] \in 1 .. Len(commits)
  BY <1>2 DEF Heads
<1>4. branch'[p] = n /\ \A q \in Proposal \ {p} : branch'[q] = branch[q]
  BY DEF Heads
<1>10. Anc(branch[p])' = Anc(n)' /\ \A q \in Proposal \ {p} : branch[q] # 0 => Anc(branch[q])' = Anc(branch[q])
  BY <1>1, <1>3, <1>4 DEF Anc
<1>5. \A q \in Proposal : ~Merging(q) /\ ~Making(q) /\ ~Merging(q)' /\ (q # p => ~Making(q)')
  BY DEF Config!NoJob, Merging, Making
<1>6. Anc(main)' = Anc(main) /\ n \notin Anc(main) /\ n \notin Anc(b)
  BY <1>1, <1>2
<1>7. ASSUME NEW q \in Proposal \ {p}, q \notin refused, branch[q] # 0
      PROVE  row[q].status \in {"draft", "open"} /\ Apart(q)'
  <2>1. row[q].status \in {"draft", "open"} /\ Apart(q) /\ Base(q) = row[q].base /\ Base(q)' = row[q].base
    BY <1>5, <1>7 DEF Branches, Base
  <2>2. row[q].base \in 1 .. Len(commits) /\ Anc(row[q].base)' = Anc(row[q].base)
    BY <1>1, <1>2, <2>1 DEF Heads, Proposed
  <2>3. Anc(branch[q])' = Anc(branch[q]) /\ branch'[q] = branch[q] /\ Anc(branch[q]) \subseteq 1 .. Len(commits)
    BY <1>2, <1>3, <1>4, <1>7, <1>10
  <2>4. ASSUME NEW c \in Anc(branch[q]) \ Anc(row[q].base)
        PROVE  c \notin Anc(main) /\ c \notin Anc(n)' /\ \A r \in Proposal \ {q, p} : branch[r] # 0 => c \notin Anc(branch[r])
    <3>1. c \notin Anc(main) /\ \A r \in Proposal \ {q} : branch[r] # 0 => c \notin Anc(branch[r])
      BY <2>1, <2>4 DEF Apart
    <3>2. c # n
      BY <1>2, <2>3, <2>4
    <3>3. c \notin Anc(b)
      <4>1. CASE b \in Anc(main)
        BY <1>2, <3>1, <4>1
      <4>2. CASE b = branch[p]
        BY <1>2, <1>7, <3>1, <4>2
      <4> QED BY <4>1, <4>2
    <3> QED BY <3>1, <3>2, <3>3
  <2>5. \A c \in Anc(branch[q]) \ Anc(row[q].base) : \A r \in Proposal \ {q} : branch'[r] # 0 => c \notin Anc(branch[r])'
    BY <1>4, <1>10, <2>4
  <2>6. Apart(q)'
    BY <1>6, <2>1, <2>2, <2>3, <2>4, <2>5 DEF Apart
  <2> QED BY <2>1, <2>6
<1>8. ASSUME p \notin refused
      PROVE  (Making(p)' \/ row[p].status \in {"draft", "open"}) /\ Apart(p)'
  <2>1. CASE b \in Anc(main) /\ Making(p)' /\ job'.was = b
    <3>1. Base(p)' = b /\ Anc(b)' = Anc(b)
      BY <1>1, <2>1 DEF Base
    <3>2. \A c \in Anc(n)' \ Anc(b)' : c = n
      BY <3>1
    <3>3. \A r \in Proposal \ {p} : branch'[r] # 0 => n \notin Anc(branch[r])'
      BY <1>2, <1>3, <1>4, <1>10
    <3> QED BY <1>2, <1>4, <1>6, <1>10, <2>1, <3>1, <3>2, <3>3 DEF Apart
  <2>2. CASE b = branch[p] /\ job'.op = "amend"
    <3>1. row[p].status \in {"draft", "open"} /\ Apart(p) /\ Base(p) = row[p].base /\ Base(p)' = row[p].base
      BY <1>2, <1>5, <1>8, <2>2 DEF Branches, Base, Making
    <3>2. row[p].base \in 1 .. Len(commits) /\ Anc(row[p].base)' = Anc(row[p].base)
      BY <1>1, <1>2, <3>1 DEF Heads, Proposed
    <3>3. ASSUME NEW c \in Anc(n)' \ Anc(row[p].base)
          PROVE  c \notin Anc(main) /\ \A r \in Proposal \ {p} : branch[r] # 0 => c \notin Anc(branch[r])
      <4>1. CASE c = n
        BY <1>2, <1>3, <1>6, <4>1
      <4>2. CASE c \in Anc(b)
        BY <2>2, <3>1, <3>3, <4>2 DEF Apart
      <4> QED BY <3>3, <4>1, <4>2
    <3>4. row[p].base \in Anc(n)'
      BY <2>2, <3>1 DEF Apart
    <3>5. \A c \in Anc(n)' \ Anc(row[p].base) : \A r \in Proposal \ {p} : branch'[r] # 0 => c \notin Anc(branch[r])'
      BY <1>4, <1>10, <3>3
    <3> QED BY <1>4, <1>6, <1>10, <3>1, <3>2, <3>3, <3>4, <3>5 DEF Apart
  <2> QED BY <2>1, <2>2
<1>9. n # 0 /\ \A q \in Proposal \ {p} : row[q].status \in {"draft", "open"} => branch[q] # 0
  BY <1>2 DEF Branches, Config!NoJob
<1> QED BY <1>4, <1>5, <1>7, <1>8, <1>9 DEF Branches

LEMMA ProposeStep ==
  ASSUME ConfigInv, NEW p \in Proposal, NEW s \in {"draft", "open"}, Config!Propose(p, s)
  PROVE  ConfigInv'
<1>1. PICK b \in Anc(main) : \E e \in Config!Edits(commits[b].tree) :
        /\ commits' = Append(commits, Config!NewCommit(Config!Apply(commits[b].tree, e), commits[b].index, {b}))
        /\ Config!Await(s, "row", p, b, Config!Next1)
  BY DEF Config!Propose, Config!TreeAt, Config!Ancestors, Anc
<1>2. PICK e \in Config!Edits(commits[b].tree) :
        /\ commits' = Append(commits, Config!NewCommit(Config!Apply(commits[b].tree, e), commits[b].index, {b}))
        /\ Config!Await(s, "row", p, b, Config!Next1)
  BY <1>1
<1>3. PICK t : t = Config!Apply(commits[b].tree, e)
  OBVIOUS
<1>4. PICK i : i = commits[b].index
  OBVIOUS
<1>5. History /\ Heads /\ Jobs /\ job = Config!NoJob
  BY DEF ConfigInv, Jobs, Config!Propose, Config!Idle
<1>6. Len(commits) \in Nat /\ main \in 1 .. Len(commits) /\ b \in 1 .. Len(commits)
  BY <1>5 DEF History
<1>7. /\ commits[b].tree \in Trees /\ i \in Trees /\ t \in Trees /\ {b} \in SUBSET (1 .. Len(commits))
      /\ b \in Nat /\ b # 0
  BY <1>3, <1>4, <1>5, <1>6, CommitType, EditMakes
<1>8. PICK n \in Nat : n = Len(commits) + 1
  BY <1>6
<1>9. PICK c : c = [tree |-> t, index |-> i, par |-> {b}, rev |-> FALSE,
                    anc |-> {Len(commits) + 1} \cup UNION {Anc(d) : d \in {b}}]
  OBVIOUS
<1>10. commits' = Append(commits, c)
  BY <1>2, <1>3, <1>4, <1>9 DEF Config!NewCommit, Config!Next1, Config!Ancestors, Anc
<1>11. /\ main' = main /\ row' = row /\ crashes' = crashes /\ refused' = refused
       /\ branch' = [branch EXCEPT ![p] = n]
       /\ job' = [op |-> s, step |-> "row", p |-> p, was |-> b, made |-> n]
  BY <1>2, <1>8 DEF Config!Propose, Config!Await, Config!Next1
<1>12. /\ History' /\ Len(commits') = Len(commits) + 1
       /\ \A d \in 1 .. Len(commits) : commits'[d] = commits[d]
       /\ commits'[Len(commits) + 1] = c
  <2>1. main' \in 1 .. Len(commits) + 1 /\ FALSE \in BOOLEAN
    BY <1>6, <1>11
  <2>2. /\ c \in Commit /\ c.anc \subseteq 1 .. Len(commits) + 1 /\ Len(commits) + 1 \in c.anc /\ c.par \subseteq c.anc
        /\ \A e1 \in c.anc : e1 # Len(commits) + 1 => Anc(e1) \subseteq c.anc
    BY <1>5, <1>7, <1>9, <2>1, OnParents
  <2> QED BY <1>5, <1>10, <2>1, <2>2, OneMore
<1>13. Heads'
  <2>1. branch' \in [Proposal -> Nat] /\ \A q \in Proposal : branch'[q] <= Len(commits')
    BY <1>5, <1>6, <1>8, <1>11, <1>12 DEF Heads
  <2>2. \A q \in Proposal : row[q].base <= Len(commits') /\ row[q].head <= Len(commits')
    BY <1>5, <1>6, <1>12 DEF Heads, Proposed
  <2> QED BY <1>5, <1>11, <2>1, <2>2 DEF Heads
<1>14. Jobs'
  <2>1. branch'[p] # 0
    BY <1>5, <1>6, <1>8, <1>11 DEF Heads
  <2> QED BY <1>5, <1>6, <1>7, <1>8, <1>11, <1>12, <2>1 DEF Jobs, Writing
<1>15. ASSUME crashes = 0 PROVE MainInv' /\ Branches'
  <2>1. MainInv /\ Branches
    BY <1>15 DEF ConfigInv
  <2>2. MainInv'
    BY <1>5, <1>6, <1>11, <1>12, <2>1, Before DEF MainInv, Config!NoJob
  <2>3. Anc(n)' = {n} \cup Anc(b)
    BY <1>8, <1>9, <1>12 DEF Anc
  <2>4. b \in Anc(main) /\ Making(p)' /\ job'.was = b /\ job'.p = p /\ job'.op \notin {"merge", "discard"}
    BY <1>11 DEF Making
  <2>5. Branches'
    BY <1>5, <1>6, <1>8, <1>11, <1>12, <2>1, <2>3, <2>4, BranchGrows
  <2> QED BY <2>2, <2>5
<1> QED BY <1>11, <1>12, <1>13, <1>14, <1>15 DEF ConfigInv

LEMMA AmendStep == ASSUME ConfigInv, NEW p \in Proposal, Config!Amend(p) PROVE ConfigInv'
<1>1. PICK b : b = Config!Tip(p)
  OBVIOUS
<1>2. PICK e \in Config!Edits(commits[row[p].head].tree) :
        commits' = Append(commits, Config!NewCommit(Config!Apply(commits[b].tree, e), commits[b].index, {b}))
  BY <1>1 DEF Config!Amend, Config!TreeAt
<1>3. PICK t : t = Config!Apply(commits[b].tree, e)
  OBVIOUS
<1>4. PICK i : i = commits[b].index
  OBVIOUS
<1>5. History /\ Heads /\ Jobs /\ job = Config!NoJob /\ row[p].status \in {"draft", "open"}
  BY DEF ConfigInv, Jobs, Config!Amend, Config!Idle, Config!Live
<1>6. /\ Len(commits) \in Nat /\ main \in 1 .. Len(commits) /\ b \in 1 .. Len(commits)
      /\ row[p].head \in 1 .. Len(commits)
      /\ branch[p] # 0 => b = branch[p]
  BY <1>1, <1>5 DEF History, Heads, Proposed, Config!Tip, Config!NoCommit
<1>7. /\ commits[b].tree \in Trees /\ commits[row[p].head].tree \in Trees /\ i \in Trees
      /\ {b} \in SUBSET (1 .. Len(commits))
  BY <1>4, <1>5, <1>6, CommitType
<1>8. t \in Trees
  BY <1>3, <1>7, EditMakes
<1>9. PICK n \in Nat : n = Len(commits) + 1
  BY <1>6
<1>10. PICK c : c = [tree |-> t, index |-> i, par |-> {b}, rev |-> FALSE,
                     anc |-> {Len(commits) + 1} \cup UNION {Anc(d) : d \in {b}}]
  OBVIOUS
<1>11. commits' = Append(commits, c)
  BY <1>2, <1>3, <1>4, <1>10 DEF Config!NewCommit, Config!Next1, Config!Ancestors, Anc
<1>12. /\ main' = main /\ row' = row /\ crashes' = crashes /\ refused' = refused
       /\ branch' = [branch EXCEPT ![p] = n]
       /\ job' = [op |-> "amend", step |-> "row", p |-> p, was |-> 0, made |-> n]
  BY <1>9 DEF Config!Amend, Config!Await, Config!Next1, Config!NoCommit
<1>13. /\ History' /\ Len(commits') = Len(commits) + 1
       /\ \A d \in 1 .. Len(commits) : commits'[d] = commits[d]
       /\ commits'[Len(commits) + 1] = c
  <2>1. main' \in 1 .. Len(commits) + 1 /\ FALSE \in BOOLEAN
    BY <1>6, <1>12
  <2>2. /\ c \in Commit /\ c.anc \subseteq 1 .. Len(commits) + 1 /\ Len(commits) + 1 \in c.anc /\ c.par \subseteq c.anc
        /\ \A e1 \in c.anc : e1 # Len(commits) + 1 => Anc(e1) \subseteq c.anc
    BY <1>5, <1>7, <1>8, <1>10, <2>1, OnParents
  <2> QED BY <1>5, <1>11, <2>1, <2>2, OneMore
<1>14. Heads'
  BY <1>5, <1>6, <1>9, <1>12, <1>13 DEF Heads, Proposed
<1>15. Jobs'
  BY <1>5, <1>6, <1>9, <1>12, <1>13 DEF Jobs, Writing
<1>16. ASSUME crashes = 0 PROVE MainInv' /\ Branches'
  <2>1. MainInv /\ Branches
    BY <1>16 DEF ConfigInv
  <2>2. MainInv'
    BY <1>5, <1>6, <1>12, <1>13, <2>1, Before DEF MainInv, Config!NoJob
  <2>3. Anc(n)' = {n} \cup Anc(b)
    BY <1>9, <1>10, <1>13 DEF Anc
  <2>4. b = branch[p] /\ job'.op = "amend" /\ job'.p = p /\ job'.op \notin {"merge", "discard"}
    BY <1>5, <1>6, <1>12, <2>1 DEF Branches, Config!NoJob
  <2>5. Branches'
    BY <1>5, <1>6, <1>9, <1>12, <1>13, <2>1, <2>3, <2>4, BranchGrows
  <2> QED BY <2>2, <2>5
<1> QED BY <1>12, <1>13, <1>14, <1>15, <1>16 DEF ConfigInv

LEMMA SubmitStep == ASSUME ConfigInv, NEW p \in Proposal, Config!Submit(p) PROVE ConfigInv'
<1>1. /\ UNCHANGED <<crashes, refused, commits, main, branch, job>> /\ job = Config!NoJob
      /\ row[p].status = "draft" /\ row' = [row EXCEPT ![p].status = "open"]
      /\ History /\ Heads /\ Jobs
  BY DEF ConfigInv, Jobs, Config!Submit, Config!Idle
<1>2. /\ row' \in [Proposal -> Proposed] /\ row'[p].status = "open"
      /\ \A q \in Proposal : /\ row'[q].base = row[q].base /\ row'[q].head = row[q].head
                             /\ q # p => row'[q] = row[q]
  BY <1>1 DEF Heads, Proposed
<1>3. \A q \in Proposal : row'[q].status \in {"draft", "open"} <=> row[q].status \in {"draft", "open"}
  BY <1>1, <1>2
<1>4. History' /\ Heads'
  BY <1>1, <1>2, <1>3 DEF History, Anc, Heads
<1>5. Jobs'
  BY <1>1, <1>4, JobsAtRest DEF History
<1>6. ASSUME crashes = 0 PROVE MainInv' /\ Branches'
  <2>1. MainInv'
    BY <1>1, <1>6 DEF ConfigInv, MainInv, Sound, Anc
  <2>2. \A q \in Proposal : Apart(q) => Apart(q)'
    BY <1>1, <1>2 DEF Apart, Base, Making, Anc
  <2>3. Branches'
    BY <1>1, <1>3, <1>6, <2>2 DEF ConfigInv, Branches, Making, Merging
  <2> QED BY <2>1, <2>3
<1> QED BY <1>1, <1>4, <1>5, <1>6 DEF ConfigInv

LEMMA DiscardProposalStep == ASSUME ConfigInv, NEW p \in Proposal, Config!Discard(p) PROVE ConfigInv'
<1>1. /\ UNCHANGED <<crashes, refused, commits, main, row>> /\ job = Config!NoJob
      /\ branch' = [branch EXCEPT ![p] = 0]
      /\ job' = [op |-> "discard", step |-> "row", p |-> p, was |-> 0, made |-> 0]
      /\ History /\ Heads /\ Jobs
  BY DEF ConfigInv, Jobs, Config!Discard, Config!Idle, Config!Await, Config!NoCommit
<1>2. /\ branch' \in [Proposal -> Nat] /\ branch'[p] = 0 /\ \A q \in Proposal \ {p} : branch'[q] = branch[q]
      /\ Len(commits) \in Nat
  BY <1>1 DEF Heads, History
<1>3. History' /\ Heads'
  BY <1>1, <1>2 DEF History, Anc, Heads
<1>4. Jobs'
  BY <1>1, <1>2 DEF Jobs, Writing
<1>5. ASSUME crashes = 0 PROVE MainInv' /\ Branches'
  <2>1. MainInv'
    BY <1>1, <1>5 DEF ConfigInv, MainInv, Sound, Anc, Config!NoJob
  <2>2. \A q \in Proposal \ {p} : branch[q] # 0 /\ Apart(q) => Apart(q)'
    BY <1>1, <1>2 DEF Apart, Base, Making, Anc, Config!NoJob
  <2>3. Branches'
    BY <1>1, <1>2, <1>5, <2>2 DEF ConfigInv, Branches, Making, Merging, Config!NoJob
  <2> QED BY <2>1, <2>3
<1> QED BY <1>1, <1>3, <1>4, <1>5 DEF ConfigInv

\* What git takes for the base of the merge is the base the proposal was made on.
LEMMA MergeBaseIs ==
  ASSUME History, NEW a \in 1 .. Len(commits), NEW h \in 1 .. Len(commits), NEW b \in 1 .. Len(commits),
         b \in Anc(a), b \in Anc(h), \A c \in Anc(h) \ Anc(b) : c \notin Anc(a)
  PROVE  Config!MergeBase(a, h) = b /\ (a \in Anc(h) => a = b)
<1>1. /\ Len(commits) \in Nat
      /\ \A c \in 1 .. Len(commits) : Anc(c) \subseteq 1 .. c /\ c \in Anc(c)
  BY DEF History
<1>2. \A c \in Anc(a) \cap Anc(h) : c \in 1 .. b
  BY <1>1
<1>3. b \in Anc(a) \cap Anc(h) /\ \A d \in Anc(a) \cap Anc(h) : d <= b
  BY <1>1, <1>2
<1>4. \A c \in Anc(a) \cap Anc(h) : (\A d \in Anc(a) \cap Anc(h) : d <= c) => c = b
  BY <1>1, <1>2, <1>3
<1>5. Config!MergeBase(a, h) = b
  BY <1>3, <1>4 DEF Config!MergeBase, Config!Ancestors, Anc
<1>6. a \in Anc(h) => a = b
  BY <1>1, <1>2
<1> QED BY <1>5, <1>6

\* Main with one more commit, or a head that was there: what is left of History to show.
LEMMA MovesOn ==
  ASSUME History, commits' = commits, main' \in 1 .. Len(commits)
  PROVE  History' /\ \A c \in 1 .. Len(commits) : Anc(c)' = Anc(c) /\ (Sound(c) => Sound(c)')
<1>1. \A c : Anc(c)' = Anc(c)
  BY DEF Anc
<1>2. History'
  BY <1>1 DEF History
<1> QED BY <1>2, Before

LEMMA MergesTrees ==
  ASSUME NEW b, NEW s \in Trees, NEW t \in Trees
  PROVE  Config!ThreeWay(b, s, t) \in Trees
BY DEF Config!ThreeWay, Trees

\* What every one of the merge's three outcomes leaves.
LEMMA MergeGitMakes ==
  ASSUME ConfigInv, NEW p \in Proposal, branch[p] # 0, Config!MergeGit(p)
  PROVE  /\ History' /\ Len(commits') \in Nat /\ Len(commits) <= Len(commits')
         /\ \A d \in 1 .. Len(commits) : commits'[d] = commits[d]
         /\ Anc(main)' \subseteq {Len(commits) + 1} \cup Anc(main) \cup Anc(branch[p])
         /\ Anc(main) \subseteq Anc(main)' /\ main \in Anc(main)'
<1>1. /\ History /\ Len(commits) \in Nat /\ main \in 1 .. Len(commits) /\ branch[p] \in 1 .. Len(commits)
      /\ \A c \in 1 .. Len(commits) : Anc(c) \subseteq 1 .. c /\ c \in Anc(c) /\ \A d \in Anc(c) : Anc(d) \subseteq Anc(c)
  BY DEF ConfigInv, History, Heads
<1>2. CASE UNCHANGED <<commits, main>>
  <2>1. Anc(main)' = Anc(main) /\ History'
    BY <1>1, <1>2, MovesOn
  <2> QED BY <1>1, <1>2, <2>1
<1>3. CASE main \in Anc(branch[p]) /\ main' = branch[p] /\ commits' = commits
  <2>1. Anc(main)' = Anc(branch[p]) /\ History'
    BY <1>1, <1>3, MovesOn DEF Anc
  <2> QED BY <1>1, <1>3, <2>1
<1>4. ASSUME NEW b, b = Config!MergeBase(main, branch[p]),
             Config!CommitOnMain(Config!ThreeWay(commits[b].tree, commits[main].tree, commits[branch[p]].tree),
                                 Config!ThreeWay(commits[b].index, commits[main].index, commits[branch[p]].index),
                                 {main, branch[p]})
      PROVE  /\ History' /\ Len(commits') \in Nat /\ Len(commits) <= Len(commits')
             /\ \A d \in 1 .. Len(commits) : commits'[d] = commits[d]
             /\ Anc(main)' \subseteq {Len(commits) + 1} \cup Anc(main) \cup Anc(branch[p])
             /\ Anc(main) \subseteq Anc(main)' /\ main \in Anc(main)'
  <2>1. PICK t : t = Config!ThreeWay(commits[b].tree, commits[main].tree, commits[branch[p]].tree)
    OBVIOUS
  <2>2. PICK i : i = Config!ThreeWay(commits[b].index, commits[main].index, commits[branch[p]].index)
    OBVIOUS
  <2>3. PICK ps : ps = {main, branch[p]}
    OBVIOUS
  <2>4. t \in Trees /\ i \in Trees
    BY <1>1, <2>1, <2>2, CommitType, MergesTrees
  <2>5. /\ commits' = Append(commits, [tree |-> t, index |-> i, par |-> ps, rev |-> FALSE,
                                       anc |-> {Len(commits) + 1} \cup UNION {Anc(d) : d \in ps}])
        /\ main' = Len(commits) + 1
    BY <1>4, <2>1, <2>2, <2>3 DEF Config!CommitOnMain, Config!NewCommit, Config!Next1, Config!Ancestors, Anc
  <2>6. ps \in SUBSET (1 .. Len(commits)) /\ main \in ps /\ FALSE \in BOOLEAN
    BY <1>1, <2>3
  <2>7. /\ History' /\ Len(commits') = Len(commits) + 1 /\ Len(commits) \in Nat
        /\ \A d \in 1 .. Len(commits) : commits'[d] = commits[d]
        /\ Anc(main)' = {Len(commits) + 1} \cup UNION {Anc(d) : d \in ps}
        /\ Anc(main) \subseteq Anc(main)' /\ main \in Anc(main)
    BY <1>1, <2>4, <2>5, <2>6, OnMain
  <2> QED BY <2>3, <2>7
<1> QED BY <1>2, <1>3, <1>4 DEF Config!MergeGit, Config!TreeAt, Config!Ancestors, Anc

LEMMA MergeStep == ASSUME ConfigInv, NEW p \in Proposal, Config!Merge(p) PROVE ConfigInv'
<1>1. /\ History /\ Heads /\ Jobs /\ job = Config!NoJob /\ branch[p] # 0
      /\ commits[branch[p]].tree \in Strict
  BY DEF ConfigInv, Jobs, Config!Merge, Config!Idle, Config!NoCommit, Config!HeadPasses, Config!TreeAt
<1>2. /\ UNCHANGED <<branch, row, crashes, refused>>
      /\ job' = [op |-> "merge", step |-> "check", p |-> p, was |-> main, made |-> 0]
  BY DEF Config!Merge, Config!Await, Config!NoCommit
<1>3. /\ History' /\ Len(commits') \in Nat /\ Len(commits) <= Len(commits')
      /\ \A d \in 1 .. Len(commits) : commits'[d] = commits[d]
      /\ Anc(main)' \subseteq {Len(commits) + 1} \cup Anc(main) \cup Anc(branch[p])
      /\ Anc(main) \subseteq Anc(main)' /\ main \in Anc(main)'
  BY <1>1, MergeGitMakes DEF Config!Merge
<1>4. main \in 1 .. Len(commits) /\ branch[p] \in 1 .. Len(commits) /\ Len(commits) \in Nat
  BY <1>1 DEF History, Heads
<1>5. Heads'
  BY <1>1, <1>2, <1>3, <1>4, HeadsStay DEF Heads
<1>6. Jobs'
  BY <1>1, <1>2, <1>3, <1>4 DEF Jobs, Writing
<1>7. ASSUME crashes = 0 PROVE MainInv' /\ Branches'
  <2>1. Sound(main) /\ Branches
    BY <1>1, <1>7 DEF ConfigInv, MainInv, Config!NoJob
  <2>2. PICK m : m = main
    OBVIOUS
  <2>3. Sound(m)' /\ job'.was = m
    BY <1>1, <1>2, <1>3, <1>4, <2>1, <2>2, Before
  <2>4. commits'[branch'[p]].tree \in Strict
    BY <1>1, <1>2, <1>3, <1>4
  <2>5. MainInv'
    BY <1>2, <2>3, <2>4 DEF MainInv
  <2>6. PICK Q \in SUBSET Proposal : Q = {p}
    OBVIOUS
  <2>7. /\ Anc(main)' \subseteq {Len(commits) + 1} \cup Anc(main) \cup UNION {Anc(branch[q]) : q \in Q}
        /\ \A q \in Q : branch[q] # 0
    BY <1>1, <1>3, <2>6
  <2>8. /\ UNCHANGED <<branch, row>> /\ refused \subseteq refused' /\ job.op # "discard"
        /\ \A q \in Proposal : q \notin refused' /\ branch[q] # 0 /\ ~Merging(q)' =>
             ~Merging(q) /\ q \notin Q /\ ~Making(q) /\ ~Making(q)'
    BY <1>1, <1>2, <2>6 DEF Merging, Making, Config!NoJob
  <2>9. Branches'
    BY <1>1, <1>3, <2>1, <2>7, <2>8, MainGrows
  <2> QED BY <2>5, <2>9
<1> QED BY <1>2, <1>3, <1>5, <1>6, <1>7 DEF ConfigInv

\* A revert leaves a head of which it is known that it may be anything.
LEMMA RevertStep == ASSUME ConfigInv, Config!Revert PROVE ConfigInv'
<1>1. /\ History /\ Heads /\ Jobs /\ job = Config!NoJob /\ main \in 1 .. Len(commits) /\ main \in Anc(main)
      /\ UNCHANGED <<branch, row, crashes, refused>>
      /\ job' = [op |-> "revert", step |-> "check", p |-> None, was |-> main, made |-> 0]
  BY DEF ConfigInv, History, Jobs, Config!Revert, Config!Idle, Config!Await, Config!NoCommit
<1>2. PICK t \in Trees, i \in Trees : Config!RevertOnMain(t, i)
  <2>1. PICK to \in 1 .. Len(commits) :
          \/ \E f \in {FileOf[h] : h \in Hunk} :
               Config!RevertOnMain(Config!Replay(commits[main].tree, {f}, commits[to].tree), commits[main].index)
          \/ \E up \in commits[to].par :
               /\ commits[to].par = {up}
               /\ Config!RevertOnMain(Config!ThreeWay(commits[to].tree, commits[main].tree, commits[up].tree),
                                      Config!ThreeWay(commits[to].index, commits[main].index, commits[up].index))
    BY DEF Config!Revert, Config!TreeAt
  <2>2. /\ commits[to].tree \in Trees /\ commits[main].tree \in Trees /\ commits[main].index \in Trees
    BY <1>1, CommitType
  <2>3. CASE \E f \in {FileOf[h] : h \in Hunk} :
               Config!RevertOnMain(Config!Replay(commits[main].tree, {f}, commits[to].tree), commits[main].index)
    <3>1. \A f : Config!Replay(commits[main].tree, {f}, commits[to].tree) \in Trees
      BY <2>2 DEF Config!Replay, Trees
    <3>2. PICK f : Config!RevertOnMain(Config!Replay(commits[main].tree, {f}, commits[to].tree), commits[main].index)
      BY <2>3
    <3>3. PICK t : t = Config!Replay(commits[main].tree, {f}, commits[to].tree)
      OBVIOUS
    <3>4. Config!RevertOnMain(t, commits[main].index) /\ t \in Trees
      BY <3>1, <3>2, <3>3
    <3> QED BY <2>2, <3>4
  <2>4. ASSUME NEW up \in commits[to].par, commits[to].par = {up},
               Config!RevertOnMain(Config!ThreeWay(commits[to].tree, commits[main].tree, commits[up].tree),
                                   Config!ThreeWay(commits[to].index, commits[main].index, commits[up].index))
        PROVE  \E t \in Trees, i \in Trees : Config!RevertOnMain(t, i)
    <3>1. up \in 1 .. Len(commits)
      BY <1>1 DEF History
    <3>2. commits[up].tree \in Trees /\ commits[up].index \in Trees
      BY <1>1, <3>1, CommitType
    <3>3. PICK t : t = Config!ThreeWay(commits[to].tree, commits[main].tree, commits[up].tree)
      OBVIOUS
    <3>4. PICK i : i = Config!ThreeWay(commits[to].index, commits[main].index, commits[up].index)
      OBVIOUS
    <3>5. t \in Trees /\ i \in Trees
      BY <2>2, <3>2, <3>3, <3>4, MergesTrees
    <3>6. Config!RevertOnMain(t, i)
      BY <2>4, <3>3, <3>4
    <3> QED BY <3>5, <3>6
  <2> QED BY <2>1, <2>3, <2>4
<1>3. PICK ps : ps = {main}
  OBVIOUS
<1>4. /\ commits' = Append(commits, [tree |-> t, index |-> i, par |-> ps, rev |-> TRUE,
                                     anc |-> {Len(commits) + 1} \cup UNION {Anc(d) : d \in ps}])
      /\ main' = Len(commits) + 1
  <2>1. PICK x : x = {Len(commits) + 1} \cup UNION {Anc(d) : d \in ps}
    OBVIOUS
  <2>2. PICK c : c = Config!NewCommit(t, i, ps)
    OBVIOUS
  <2>3. commits' = Append(commits, [c EXCEPT !.rev = TRUE]) /\ main' = Len(commits) + 1
    BY <1>2, <1>3, <2>2 DEF Config!RevertOnMain, Config!Next1
  <2>4. c = [tree |-> t, index |-> i, par |-> ps, rev |-> FALSE, anc |-> x]
    BY <2>1, <2>2 DEF Config!NewCommit, Config!Next1, Config!Ancestors, Anc
  <2>5. [c EXCEPT !.rev = TRUE] = [tree |-> t, index |-> i, par |-> ps, rev |-> TRUE, anc |-> x]
    <3>1. PICK r : r = TRUE
      OBVIOUS
    <3>2. [c EXCEPT !.rev = r] = [tree |-> t, index |-> i, par |-> ps, rev |-> r, anc |-> x]
      BY <2>4
    <3> QED BY <3>1, <3>2
  <2> QED BY <2>1, <2>3, <2>5
<1>5. ps \in SUBSET (1 .. Len(commits)) /\ main \in ps /\ TRUE \in BOOLEAN
  BY <1>1, <1>3
<1>6. /\ History' /\ Len(commits') = Len(commits) + 1 /\ Len(commits) \in Nat
      /\ \A d \in 1 .. Len(commits) : commits'[d] = commits[d]
      /\ commits'[main'].rev
      /\ Anc(main)' = {Len(commits) + 1} \cup UNION {Anc(d) : d \in ps}
      /\ Anc(main) \subseteq Anc(main)' /\ main \in Anc(main)
  BY <1>1, <1>2, <1>4, <1>5, OnMain
<1>7. Heads'
  <2>1. Len(commits') \in Nat /\ Len(commits) <= Len(commits') /\ refused' \in SUBSET Proposal /\ crashes' \in Nat
    BY <1>1, <1>6 DEF Heads
  <2> QED BY <1>1, <1>6, <2>1, HeadsStay
<1>8. Jobs'
  <2>1. main \in Anc(main)' /\ main <= Len(commits') /\ 0 <= Len(commits') /\ main \in Nat
    BY <1>1, <1>6
  <2> QED BY <1>1, <2>1 DEF Jobs, Writing
<1>9. ASSUME crashes = 0 PROVE MainInv' /\ Branches'
  <2>1. Sound(main) /\ Branches
    BY <1>1, <1>9 DEF ConfigInv, MainInv, Config!NoJob
  <2>2. PICK m : m = main
    OBVIOUS
  <2>3. Sound(m)' /\ job'.was = m
    BY <1>1, <1>6, <2>1, <2>2, Before
  <2>4. MainInv'
    BY <1>1, <1>6, <2>3 DEF MainInv
  <2>5. PICK Q \in SUBSET Proposal : Q = {}
    OBVIOUS
  <2>6. /\ Anc(main)' \subseteq {Len(commits) + 1} \cup Anc(main) \cup UNION {Anc(branch[q]) : q \in Q}
        /\ \A q \in Q : branch[q] # 0
    BY <1>3, <1>6, <2>5
  <2>7. /\ UNCHANGED <<branch, row>> /\ refused \subseteq refused' /\ job.op # "discard"
        /\ \A q \in Proposal : ~Merging(q) /\ q \notin Q /\ ~Making(q) /\ ~Making(q)'
    BY <1>1, <2>5 DEF Merging, Making, Config!NoJob
  <2>8. Branches'
    BY <1>1, <1>6, <2>1, <2>6, <2>7, MainGrows
  <2> QED BY <2>4, <2>8
<1> QED BY <1>1, <1>6, <1>7, <1>8, <1>9 DEF ConfigInv

\* The merged tree is refused: main has the tree of before again, in a further commit.
LEMMA RollBackStep == ASSUME ConfigInv, Config!RollBack PROVE ConfigInv'
<1>1. /\ History /\ Heads /\ Jobs /\ job.step = "check" /\ job.op = "merge" /\ job.was \in Anc(main)
      /\ UNCHANGED <<branch, row, crashes>> /\ job' = Config!NoJob /\ refused' = refused \cup {job.p}
      /\ main \in 1 .. Len(commits) /\ main \in Anc(main) /\ job.p \in Proposal
  BY DEF ConfigInv, History, Jobs, Config!RollBack, Config!MergedBadly
<1>2. job.was \in 1 .. Len(commits) /\ Anc(job.was) \subseteq Anc(main)
  BY <1>1 DEF History
<1>3. PICK t : t = commits[job.was].tree
  OBVIOUS
<1>4. PICK i : i = commits[job.was].index
  OBVIOUS
<1>5. PICK ps : ps = {main}
  OBVIOUS
<1>6. t \in Trees /\ i \in Trees
  BY <1>1, <1>2, <1>3, <1>4, CommitType
<1>7. /\ commits' = Append(commits, [tree |-> t, index |-> i, par |-> ps, rev |-> FALSE,
                                     anc |-> {Len(commits) + 1} \cup UNION {Anc(d) : d \in ps}])
      /\ main' = Len(commits) + 1
  BY <1>3, <1>4, <1>5
  DEF Config!RollBack, Config!TreeAt, Config!CommitOnMain, Config!NewCommit, Config!Next1, Config!Ancestors, Anc
<1>8. ps \in SUBSET (1 .. Len(commits)) /\ main \in ps /\ FALSE \in BOOLEAN
  BY <1>1, <1>5
<1>9. /\ History' /\ Len(commits') = Len(commits) + 1 /\ Len(commits) \in Nat
      /\ \A d \in 1 .. Len(commits) : commits'[d] = commits[d]
      /\ commits'[main'].tree = t /\ commits'[main'].index = i
      /\ Anc(main)' = {Len(commits) + 1} \cup UNION {Anc(d) : d \in ps}
      /\ Anc(main) \subseteq Anc(main)'
  BY <1>1, <1>6, <1>7, <1>8, OnMain
<1>10. Heads' /\ Jobs'
  <2>1. Len(commits') \in Nat /\ Len(commits) <= Len(commits') /\ refused' \in SUBSET Proposal /\ crashes' \in Nat
    BY <1>1, <1>9 DEF Heads
  <2> QED BY <1>1, <1>9, <2>1, HeadsStay, JobsAtRest
<1>11. ASSUME crashes = 0 PROVE MainInv' /\ Branches'
  <2>1. Sound(job.was) /\ Branches
    BY <1>1, <1>11 DEF ConfigInv, MainInv
  <2>2. i = t
    BY <1>3, <1>4, <2>1 DEF Sound
  <2>3. ASSUME \A d \in Anc(main)' : ~commits'[d].rev PROVE t \in Strict
    <3>1. \A d \in Anc(job.was) : d \in 1 .. Len(commits) /\ d \in Anc(main)'
      BY <1>1, <1>2, <1>9 DEF History
    <3>2. \A d \in Anc(job.was) : ~commits[d].rev
      BY <1>9, <2>3, <3>1
    <3> QED BY <1>3, <2>1, <3>2 DEF Sound
  <2>4. MainInv'
    BY <1>1, <1>9, <2>2, <2>3 DEF MainInv, Sound, Config!NoJob
  <2>5. PICK Q \in SUBSET Proposal : Q = {}
    OBVIOUS
  <2>6. /\ Anc(main)' \subseteq {Len(commits) + 1} \cup Anc(main) \cup UNION {Anc(branch[q]) : q \in Q}
        /\ \A q \in Q : branch[q] # 0
    BY <1>5, <1>9, <2>5
  <2>7. /\ UNCHANGED <<branch, row>> /\ refused \subseteq refused' /\ job.op # "discard"
        /\ \A q \in Proposal : q \notin refused' => ~Merging(q) /\ q \notin Q /\ ~Making(q) /\ ~Making(q)'
    BY <1>1, <2>5 DEF Merging, Making, Config!NoJob
  <2>8. Branches'
    BY <1>1, <1>9, <2>1, <2>6, <2>7, MainGrows
  <2> QED BY <2>4, <2>8
<1> QED BY <1>1, <1>9, <1>10, <1>11 DEF ConfigInv

\* INDEX.md is brought up to date; what was merged is valid by now, or a revert is in it.
LEMMA ReindexStep == ASSUME ConfigInv, Config!Reindex PROVE ConfigInv'
<1>1. /\ History /\ Heads /\ Jobs /\ job.step = "check" /\ job.op \in {"merge", "revert"} /\ job \in Writing
      /\ UNCHANGED <<branch, row, crashes, refused>>
      /\ main \in 1 .. Len(commits) /\ main \in Anc(main) /\ Len(commits) \in Nat
  BY DEF ConfigInv, History, Jobs, Config!Reindex
<1>2. /\ job.op = "merge" => job' = [job EXCEPT !.step = "row"] /\ job.p \in Proposal
      /\ job.op = "revert" => job' = Config!NoJob
  BY <1>1 DEF Config!Reindex, Jobs
<1>3. /\ History' /\ Len(commits') \in Nat /\ Len(commits) <= Len(commits')
      /\ \A d \in 1 .. Len(commits) : commits'[d] = commits[d]
      /\ commits'[main'].tree = commits[main].tree /\ commits'[main'].index = commits[main].tree
      /\ Anc(main)' \subseteq {Len(commits) + 1} \cup Anc(main)
      /\ Anc(main) \subseteq Anc(main)'
  <2>1. CASE commits[main].index = commits[main].tree /\ UNCHANGED <<commits, main>>
    <3>1. History' /\ Anc(main)' = Anc(main)
      BY <1>1, <2>1, MovesOn
    <3> QED BY <1>1, <2>1, <3>1
  <2>2. CASE Config!CommitOnMain(commits[main].tree, commits[main].tree, {main})
    <3>1. PICK t : t = commits[main].tree
      OBVIOUS
    <3>2. PICK ps : ps = {main}
      OBVIOUS
    <3>3. /\ commits' = Append(commits, [tree |-> t, index |-> t, par |-> ps, rev |-> FALSE,
                                         anc |-> {Len(commits) + 1} \cup UNION {Anc(d) : d \in ps}])
          /\ main' = Len(commits) + 1
      BY <2>2, <3>1, <3>2 DEF Config!CommitOnMain, Config!NewCommit, Config!Next1, Config!Ancestors, Anc
    <3>4. t \in Trees /\ ps \in SUBSET (1 .. Len(commits)) /\ main \in ps /\ FALSE \in BOOLEAN
      BY <1>1, <3>1, <3>2, CommitType
    <3>5. /\ History' /\ Len(commits') = Len(commits) + 1 /\ Len(commits) \in Nat
          /\ \A d \in 1 .. Len(commits) : commits'[d] = commits[d]
          /\ commits'[main'].tree = t /\ commits'[main'].index = t
          /\ Anc(main)' = {Len(commits) + 1} \cup UNION {Anc(d) : d \in ps}
          /\ Anc(main) \subseteq Anc(main)'
      BY <1>1, <3>3, <3>4, OnMain
    <3> QED BY <3>1, <3>2, <3>5
  <2> QED BY <2>1, <2>2 DEF Config!Reindex, Config!IndexIsCurrent, Config!TreeAt
<1>4. Heads'
  BY <1>1, <1>3, HeadsStay DEF Heads
<1>5. Jobs'
  <2>1. CASE job.op = "merge"
    <3>1. /\ job' \in Writing /\ job'.step = "row" /\ job'.op = "merge" /\ job'.p \in Proposal
          /\ job'.was = job.was /\ job'.made = job.made
      BY <1>1, <1>2, <2>1 DEF Writing
    <3>2. job'.was <= Len(commits') /\ job'.made <= Len(commits')
      BY <1>1, <1>3, <3>1 DEF Jobs, Writing
    <3> QED BY <3>1, <3>2 DEF Jobs
  <2>2. CASE job.op = "revert"
    BY <1>2, <1>3, <2>2, JobsAtRest
  <2> QED BY <1>1, <2>1, <2>2
<1>6. ASSUME crashes = 0 PROVE MainInv' /\ Branches'
  <2>1. MainInv /\ Branches
    BY <1>6 DEF ConfigInv
  <2>2. ASSUME \A d \in Anc(main)' : ~commits'[d].rev PROVE commits[main].tree \in Strict
    <3>1. ~commits[main].rev
      BY <1>1, <1>3, <2>2
    <3>2. job.op = "merge" /\ commits[branch[job.p]].tree \in Strict
      BY <1>1, <2>1, <3>1 DEF MainInv
    <3>3. main = branch[job.p] \/ commits[main].tree \in Strict
      BY <3>2 DEF Config!Reindex, Config!MergedBadly, Config!TreeAt
    <3> QED BY <3>2, <3>3
  <2>3. Sound(main)'
    BY <1>3, <2>2 DEF Sound
  <2>4. job'.step # "check" /\ job'.op # "discard" /\ job.op # "discard" /\ (\A p \in Proposal : ~Making(p) /\ ~Making(p)')
        /\ \A p \in Proposal : Merging(p)' <=> Merging(p)
    BY <1>1, <1>2 DEF Writing, Config!NoJob, Making, Merging
  <2>5. MainInv'
    BY <2>3, <2>4 DEF MainInv
  <2>6. PICK Q \in SUBSET Proposal : Q = {}
    OBVIOUS
  <2>7. /\ Anc(main)' \subseteq {Len(commits) + 1} \cup Anc(main) \cup UNION {Anc(branch[q]) : q \in Q}
        /\ \A q \in Q : branch[q] # 0
    BY <1>3, <2>6
  <2>8. \A q \in Proposal : ~Merging(q)' => ~Merging(q) /\ q \notin Q /\ ~Making(q) /\ ~Making(q)'
    BY <2>4, <2>6
  <2>9. UNCHANGED <<branch, row>> /\ refused \subseteq refused'
    BY <1>1
  <2>10. Branches'
    BY <1>1, <1>3, <2>1, <2>4, <2>7, <2>8, <2>9, MainGrows
  <2> QED BY <2>5, <2>10
<1> QED BY <1>1, <1>3, <1>4, <1>5, <1>6 DEF ConfigInv

\* What a write's UPDATE makes of the row.
LEMMA RowWritten ==
  ASSUME History, Heads, Jobs, Config!WriteRow, NEW p, p = job.p
  PROVE  /\ p \in Proposal /\ row' \in [Proposal -> Proposed] /\ \A q \in Proposal \ {p} : row'[q] = row[q]
         /\ job.op \in {"draft", "open"} =>
              row'[p].status = job.op /\ row'[p].base = job.was /\ row'[p].head = job.made
         /\ job.op = "amend" =>
              row'[p].status = row[p].status /\ row'[p].base = row[p].base /\ row'[p].head = job.made
         /\ job.op = "discard" =>
              row'[p].status = "discarded" /\ row'[p].base = row[p].base /\ row'[p].head = row[p].head
         /\ job.op = "merge" =>
              row'[p].status = "merged" /\ row'[p].base = row[p].base /\ row'[p].head = row[p].head
<1>1. /\ p \in Proposal /\ job.op \in {"draft", "open", "amend", "discard", "merge"} /\ row[p] \in Proposed
      /\ row \in [Proposal -> Proposed] /\ job.was \in Nat /\ job.made \in Nat /\ main \in Nat
  BY DEF History, Jobs, Heads, Config!WriteRow, Writing
<1> DEFINE r == CASE job.op \in {"draft", "open"} -> [status |-> job.op, base |-> job.was, head |-> job.made, merged |-> 0]
                  [] job.op = "amend"   -> [row[p] EXCEPT !.head = job.made]
                  [] job.op = "discard" -> [row[p] EXCEPT !.status = "discarded"]
                  [] job.op = "merge"   -> [row[p] EXCEPT !.status = "merged", !.merged = main]
<1>2. row' = [row EXCEPT ![p] = r]
  BY <1>1 DEF Config!WriteRow, Config!Live, Config!NoCommit
<1> HIDE DEF r
<1>3. r \in Proposed => row' \in [Proposal -> Proposed] /\ row'[p] = r /\ \A q \in Proposal \ {p} : row'[q] = row[q]
  BY <1>1, <1>2
<1>4. CASE job.op \in {"draft", "open"}
  <2>1. r = [status |-> job.op, base |-> job.was, head |-> job.made, merged |-> 0]
    BY <1>4 DEF r
  <2> QED BY <1>1, <1>3, <1>4, <2>1 DEF Proposed
<1>5. CASE job.op = "amend"
  <2>1. r = [row[p] EXCEPT !.head = job.made]
    BY <1>5 DEF r
  <2> QED BY <1>1, <1>3, <1>5, <2>1 DEF Proposed
<1>6. CASE job.op = "discard"
  <2>1. r = [row[p] EXCEPT !.status = "discarded"]
    BY <1>6 DEF r
  <2> QED BY <1>1, <1>3, <1>6, <2>1 DEF Proposed
<1>7. CASE job.op = "merge"
  <2>1. r = [row[p] EXCEPT !.status = "merged", !.merged = main]
    BY <1>7 DEF r
  <2> QED BY <1>1, <1>3, <1>7, <2>1 DEF Proposed
<1> QED BY <1>1, <1>4, <1>5, <1>6, <1>7

LEMMA WriteRowStep == ASSUME ConfigInv, Config!WriteRow PROVE ConfigInv'
<1>1. /\ History /\ Heads /\ Jobs /\ job.step = "row" /\ UNCHANGED <<crashes, refused, commits, main, branch>>
      /\ job \in Writing /\ job.op \in {"draft", "open", "amend", "discard", "merge"} /\ Len(commits) \in Nat
      /\ job.was \in Nat /\ job.made \in Nat /\ job.was <= Len(commits) /\ job.made <= Len(commits)
  BY DEF ConfigInv, History, Jobs, Writing, Config!WriteRow
<1>2. PICK p : p = job.p
  OBVIOUS
<1>3. /\ p \in Proposal /\ row' \in [Proposal -> Proposed] /\ \A q \in Proposal \ {p} : row'[q] = row[q]
      /\ job.op \in {"draft", "open"} =>
           row'[p].status = job.op /\ row'[p].base = job.was /\ row'[p].head = job.made
      /\ job.op = "amend" =>
           row'[p].status = row[p].status /\ row'[p].base = row[p].base /\ row'[p].head = job.made
      /\ job.op = "discard" =>
           row'[p].status = "discarded" /\ row'[p].base = row[p].base /\ row'[p].head = row[p].head
      /\ job.op = "merge" =>
           row'[p].status = "merged" /\ row'[p].base = row[p].base /\ row'[p].head = row[p].head
  BY <1>1, <1>2, RowWritten
<1>4. /\ job.op \in {"draft", "open"} => job.was # 0 /\ job.made # 0 /\ branch[p] # 0
      /\ job.op = "amend" => job.made # 0 /\ row[p].status \in {"draft", "open"}
      /\ job.op = "discard" => branch[p] = 0
  BY <1>1, <1>2 DEF Jobs
<1>5. History' /\ (\A c : Anc(c)' = Anc(c))
  BY <1>1 DEF History, Anc
<1>6. Heads'
  <2>1. row[p].base \in Nat /\ row[p].base <= Len(commits) /\ row[p].head <= Len(commits)
        /\ (row[p].status \in {"draft", "open"} => row[p].base # 0)
    BY <1>1, <1>3 DEF Heads, Proposed
  <2>2. /\ row'[p].base <= Len(commits) /\ row'[p].head <= Len(commits)
        /\ row'[p].status \in {"draft", "open"} => row'[p].base # 0 /\ row'[p].head # 0
    BY <1>1, <1>3, <1>4, <2>1
  <2> QED BY <1>1, <1>3, <2>2 DEF Heads
<1>7. /\ job.op = "merge" => job' = [job EXCEPT !.step = "prune"]
      /\ job.op # "merge" => job' = Config!NoJob
  BY DEF Config!WriteRow
<1>8. Jobs'
  <2>1. CASE job.op = "merge"
    <3>1. /\ job' \in Writing /\ job'.step = "prune" /\ job'.op = "merge" /\ job'.p = p
          /\ job'.was = job.was /\ job'.made = job.made
      BY <1>1, <1>2, <1>7, <2>1 DEF Writing
    <3> QED BY <1>1, <1>3, <2>1, <3>1 DEF Jobs
  <2>2. CASE job.op # "merge"
    BY <1>1, <1>7, <2>2, JobsAtRest
  <2> QED BY <2>1, <2>2
<1>9. ASSUME crashes = 0 PROVE MainInv' /\ Branches'
  <2>1. MainInv /\ Branches
    BY <1>9 DEF ConfigInv
  <2>2. job'.step # "check" /\ job'.op # "discard" /\ (\A q \in Proposal : ~Making(q)')
        /\ (\A q \in Proposal : Merging(q)' <=> Merging(q)) /\ \A q \in Proposal \ {p} : ~Merging(q) /\ ~Making(q)
    BY <1>1, <1>2, <1>7 DEF Writing, Config!NoJob, Making, Merging
  <2>3. MainInv'
    BY <1>1, <2>1, <2>2 DEF MainInv, Sound, Anc
  <2>4. \A q \in Proposal \ {p} : Apart(q) => Apart(q)'
    BY <1>1, <1>3, <1>5, <2>2 DEF Apart, Base
  <2>5. ASSUME ~Merging(p), branch[p] # 0, p \notin refused PROVE row'[p].status \in {"draft", "open"} /\ Apart(p)'
    <3>1. job.op \in {"draft", "open", "amend"}
      BY <1>1, <1>2, <1>4, <2>5 DEF Merging
    <3>2. row'[p].status \in {"draft", "open"}
      BY <1>3, <1>4, <3>1
    <3>3. Base(p)' = Base(p)
      BY <1>1, <1>2, <1>3, <2>2, <3>1 DEF Base, Making
    <3>4. Apart(p)
      BY <1>3, <2>1, <2>5 DEF Branches
    <3> QED BY <1>1, <1>5, <3>2, <3>3, <3>4 DEF Apart
  <2>6. row'[p].status \in {"draft", "open"} => branch[p] # 0
    BY <1>1, <1>2, <1>3, <1>4, <2>1 DEF Branches
  <2>7. ASSUME NEW q \in Proposal \ {p}
        PROVE  /\ row'[q].status \in {"draft", "open"} => branch[q] # 0
               /\ q \notin refused /\ branch[q] # 0 => row'[q].status \in {"draft", "open"} /\ Apart(q)'
    BY <1>2, <1>3, <2>1, <2>2, <2>4 DEF Branches
  <2>8. Branches'
    BY <1>1, <2>2, <2>5, <2>6, <2>7 DEF Branches
  <2> QED BY <2>3, <2>8
<1> QED BY <1>1, <1>5, <1>6, <1>8, <1>9 DEF ConfigInv

LEMMA PruneStep == ASSUME ConfigInv, Config!Prune PROVE ConfigInv'
<1>1. /\ History /\ Heads /\ Jobs /\ job.step = "prune" /\ job.op = "merge" /\ job.p \in Proposal
      /\ row[job.p].status = "merged" /\ job' = Config!NoJob
      /\ UNCHANGED <<crashes, refused, commits, main, row>>
      /\ branch' = [branch EXCEPT ![job.p] = 0]
  BY DEF ConfigInv, Jobs, Config!Prune, Config!NoCommit
<1>2. PICK p : p = job.p
  OBVIOUS
<1>3. /\ branch' \in [Proposal -> Nat] /\ branch'[p] = 0 /\ \A q \in Proposal \ {p} : branch'[q] = branch[q]
      /\ Len(commits) \in Nat
  BY <1>1, <1>2 DEF Heads, History
<1>4. History' /\ Heads' /\ (\A c : Anc(c)' = Anc(c))
  BY <1>1, <1>2, <1>3 DEF History, Anc, Heads
<1>5. Jobs'
  BY <1>1, <1>3, JobsAtRest
<1>6. ASSUME crashes = 0 PROVE MainInv' /\ Branches'
  <2>1. MainInv /\ Branches
    BY <1>6 DEF ConfigInv
  <2>2. MainInv'
    BY <1>1, <2>1 DEF MainInv, Sound, Anc, Config!NoJob
  <2>3. \A q \in Proposal : ~Making(q) /\ ~Making(q)' /\ ~Merging(q)' /\ (q # p => ~Merging(q))
    BY <1>1, <1>2 DEF Making, Merging, Config!NoJob
  <2>4. \A q \in Proposal \ {p} : Apart(q) => Apart(q)'
    BY <1>1, <1>3, <1>4, <2>3 DEF Apart, Base
  <2>5. Branches'
    BY <1>1, <1>2, <1>3, <2>1, <2>3, <2>4 DEF Branches, Config!NoJob
  <2> QED BY <2>2, <2>5
<1> QED BY <1>1, <1>4, <1>5, <1>6 DEF ConfigInv

LEMMA ConfigCrashStep == ASSUME ConfigInv, Config!Crash PROVE ConfigInv'
<1>1. /\ History /\ Heads /\ Jobs /\ job' = Config!NoJob /\ crashes' = crashes + 1
      /\ UNCHANGED <<commits, main, branch, row, refused>> /\ crashes \in Nat /\ Len(commits) \in Nat
  BY DEF ConfigInv, History, Heads, Config!Crash
<1>2. History' /\ Heads' /\ Jobs' /\ crashes' # 0
  BY <1>1, JobsAtRest DEF History, Heads, Anc
<1> QED BY <1>2 DEF ConfigInv

LEMMA ConfigNext == ConfigInv /\ [Config!Next]_configVars => ConfigInv'
<1> SUFFICES ASSUME ConfigInv, [Config!Next]_configVars PROVE ConfigInv'
  OBVIOUS
<1>1. CASE Config!CommitDirect BY <1>1, CommitDirectStep
<1>2. CASE Config!Revert BY <1>2, RevertStep
<1>3. CASE Config!Work
  BY <1>3, RollBackStep, ReindexStep, WriteRowStep, PruneStep DEF Config!Work
<1>4. CASE Config!Crash BY <1>4, ConfigCrashStep
<1>5. CASE \E p \in Proposal : Config!Propose(p, "draft") \/ Config!Propose(p, "open")
  BY <1>5, ProposeStep
<1>6. CASE \E p \in Proposal : Config!Amend(p) \/ Config!Submit(p)
  BY <1>6, AmendStep, SubmitStep
<1>7. CASE \E p \in Proposal : Config!Discard(p) \/ Config!Merge(p)
  BY <1>7, DiscardProposalStep, MergeStep
<1>8. CASE UNCHANGED configVars
  BY <1>8 DEF configVars, ConfigInv, History, Heads, Jobs, MainInv, Branches, Sound, Anc, Merging, Making, Apart, Base
<1> QED BY <1>1, <1>2, <1>3, <1>4, <1>5, <1>6, <1>7, <1>8 DEF Config!Next

LEMMA ServicesRun == ConfigInv /\ [ServicesNext]_serviceVars => ConfigInv'
<1> SUFFICES ASSUME ConfigInv, [ServicesNext]_serviceVars PROVE ConfigInv'
  OBVIOUS
<1>1. [Config!Next]_configVars
  BY DEF ServicesNext, serviceVars
<1> QED BY <1>1, ConfigNext

\* In a process that did not crash main is valid between two writes, for every sequence of direct
\* commits, merges and amendments, unless a revert is in it, and INDEX.md lists what is in it.
LEMMA ConfigInvImplies == ConfigInv => MainSound
<1> SUFFICES ASSUME ConfigInv, job.step = "idle", crashes = 0
             PROVE  /\ (\A c \in Anc(main) : ~commits[c].rev) => commits[main].tree \in Strict
                    /\ commits[main].index = commits[main].tree
  BY DEF MainSound, Config!MainSound, Config!Undisturbed, Config!Idle, Config!Ancestors, Config!TreeAt, Anc
<1> QED BY DEF ConfigInv, MainInv, Sound

THEOREM MainIsSound == ServicesSpec => []MainSound
<1>1. ServicesInit => ConfigInv BY ConfigInit DEF ServicesInit
<1>2. ConfigInv /\ [ServicesNext]_serviceVars => ConfigInv' BY ServicesRun
<1>3. ConfigInv => MainSound BY ConfigInvImplies
<1> QED BY <1>1, <1>2, <1>3, PTL DEF ServicesSpec

\* No write takes a commit out of main's history.
LEMMA CommitKeeps ==
  ASSUME History, NEW t, NEW i, Config!CommitOnMain(t, i, {main}) \/ Config!RevertOnMain(t, i)
  PROVE  main \in Anc(main)'
<1>1. main \in Anc(main) /\ Len(commits) \in Nat /\ commits \in Seq(Commit)
  BY DEF History
<1>2. PICK x : x = {Len(commits) + 1} \cup UNION {Anc(d) : d \in {main}}
  OBVIOUS
<1>3. PICK c : c = Config!NewCommit(t, i, {main})
  OBVIOUS
<1>4. PICK r : r = TRUE
  OBVIOUS
<1>5. c = [tree |-> t, index |-> i, par |-> {main}, rev |-> FALSE, anc |-> x]
  BY <1>2, <1>3 DEF Config!NewCommit, Config!Next1, Config!Ancestors, Anc
<1>6. main \in x /\ c.anc = x /\ [c EXCEPT !.rev = r].anc = x
  BY <1>1, <1>2, <1>5
<1>7. main' = Len(commits) + 1 /\ (commits' = Append(commits, c) \/ commits' = Append(commits, [c EXCEPT !.rev = r]))
  BY <1>3, <1>4 DEF Config!CommitOnMain, Config!RevertOnMain, Config!Next1
<1>8. PICK d : d.anc = x /\ commits' = Append(commits, d)
  BY <1>6, <1>7
<1>9. commits'[Len(commits) + 1] = d
  BY <1>1, <1>8
<1> QED BY <1>6, <1>7, <1>8, <1>9 DEF Anc

LEMMA MainStays == ASSUME History, main' = main, commits' = commits \/ \E c : commits' = Append(commits, c)
                   PROVE  main \in Anc(main)'
<1>1. commits' = commits \/ \E c : commits' = Append(commits, c)
  OBVIOUS
<1>2. main \in 1 .. Len(commits) /\ main \in Anc(main) /\ Len(commits) \in Nat /\ commits \in Seq(Commit)
  BY DEF History
<1>3. commits'[main] = commits[main]
  BY <1>1, <1>2
<1> QED BY <1>2, <1>3 DEF Anc

LEMMA MainGoesOn == ConfigInv /\ [Config!Next]_configVars => main \in Anc(main)'
<1> SUFFICES ASSUME ConfigInv, [Config!Next]_configVars PROVE main \in Anc(main)'
  OBVIOUS
<1>1. History
  BY DEF ConfigInv
<1>2. CASE Config!CommitDirect \/ Config!RollBack
  BY <1>1, <1>2, CommitKeeps DEF Config!CommitDirect, Config!RollBack
<1>3. CASE Config!Reindex
  BY <1>1, <1>3, CommitKeeps, MainStays DEF Config!Reindex
<1>4. CASE Config!Revert
  BY <1>1, <1>4, CommitKeeps DEF Config!Revert
<1>5. CASE Config!WriteRow \/ Config!Prune \/ Config!Crash \/ UNCHANGED configVars
  BY <1>1, <1>5, MainStays DEF Config!WriteRow, Config!Prune, Config!Crash, configVars
<1>6. ASSUME NEW p \in Proposal, Config!Propose(p, "draft") \/ Config!Propose(p, "open") \/ Config!Amend(p)
      PROVE  main \in Anc(main)'
  BY <1>1, <1>6, MainStays DEF Config!Propose, Config!Amend
<1>7. ASSUME NEW p \in Proposal, Config!Submit(p) \/ Config!Discard(p)
      PROVE  main \in Anc(main)'
  BY <1>1, <1>7, MainStays DEF Config!Submit, Config!Discard
<1>8. ASSUME NEW p \in Proposal, Config!Merge(p)
      PROVE  main \in Anc(main)'
  BY <1>8, MergeGitMakes DEF Config!Merge, Config!NoCommit
<1> QED BY <1>2, <1>3, <1>4, <1>5, <1>6, <1>7, <1>8 DEF Config!Next, Config!Work

\* Where a branch left a hunk as it was at its base, a merge leaves it as it is on main.
LEMMA MergeKeeps ==
  ASSUME ConfigInv, NEW p \in Proposal \ refused, Config!Merge(p), crashes = 0, NEW h \in Hunk,
         commits[branch[p]].tree[h] = commits[row[p].base].tree[h]
  PROVE  commits'[main'].tree[h] = commits[main].tree[h]
<1>1. PICK b : b = row[p].base
  OBVIOUS
<1>2. PICK k : k = branch[p]
  OBVIOUS
<1>3. /\ History /\ Heads /\ job = Config!NoJob /\ branch[p] # 0 /\ Config!MergeGit(p)
      /\ row[p].status = "open" /\ Branches /\ Len(commits) \in Nat /\ main \in 1 .. Len(commits)
      /\ commits \in Seq(Commit)
  BY DEF ConfigInv, Jobs, Config!Merge, Config!Idle, Config!NoCommit, History
<1>4. k \in 1 .. Len(commits) /\ b \in 1 .. Len(commits)
  BY <1>1, <1>2, <1>3 DEF Heads, Proposed
<1>5. /\ b \in Anc(main) /\ b \in Anc(k)
      /\ \A c \in Anc(k) \ Anc(b) : c \notin Anc(main)
  <2>1. ~Merging(p) /\ ~Making(p)
    BY <1>3 DEF Merging, Making, Config!NoJob
  <2>2. Apart(p) /\ Base(p) = b
    BY <1>1, <1>3, <2>1 DEF Branches, Base
  <2> QED BY <1>2, <2>2 DEF Apart
<1>6. Config!MergeBase(main, k) = b /\ (main \in Anc(k) => main = b)
  BY <1>3, <1>4, <1>5, MergeBaseIs
<1>7. CASE UNCHANGED <<commits, main>>
  BY <1>7
<1>8. CASE main \in Anc(k) /\ main' = k /\ commits' = commits
  BY <1>1, <1>2, <1>6, <1>8
<1>9. CASE Config!CommitOnMain(Config!ThreeWay(commits[b].tree, commits[main].tree, commits[k].tree),
                               Config!ThreeWay(commits[b].index, commits[main].index, commits[k].index),
                               {main, k})
  <2>1. PICK t : t = Config!ThreeWay(commits[b].tree, commits[main].tree, commits[k].tree)
    OBVIOUS
  <2>2. PICK c : c = Config!NewCommit(t, Config!ThreeWay(commits[b].index, commits[main].index, commits[k].index), {main, k})
    OBVIOUS
  <2>3. c.tree = t
    BY <2>2 DEF Config!NewCommit
  <2>4. commits' = Append(commits, c) /\ main' = Len(commits) + 1
    BY <1>9, <2>1, <2>2 DEF Config!CommitOnMain, Config!Next1
  <2>5. commits'[main'] = c
    BY <1>3, <2>4
  <2>6. t[h] = commits[main].tree[h]
    BY <1>1, <1>2, <2>1 DEF Config!ThreeWay
  <2> QED BY <2>3, <2>5, <2>6
<1> QED BY <1>2, <1>3, <1>6, <1>7, <1>8, <1>9 DEF Config!MergeGit, Config!TreeAt, Config!Ancestors, Anc

LEMMA OthersStep ==
  ConfigInv /\ [ServicesNext]_serviceVars =>
    [/\ main \in commits'[main'].anc
     /\ \A p \in Proposal \ refused : Config!Undisturbed /\ job'.op = "merge" /\ job'.p = p =>
          \A h \in Hunk : Config!TreeAt(branch[p])[h] = Config!TreeAt(row[p].base)[h] =>
             commits'[main'].tree[h] = Config!TreeAt(main)[h]]_Config!vars
<1> SUFFICES ASSUME ConfigInv, [ServicesNext]_serviceVars
             PROVE  /\ main \in commits'[main'].anc
                    /\ \A p \in Proposal \ refused : Config!Undisturbed /\ job'.op = "merge" /\ job'.p = p =>
                         \A h \in Hunk : commits[branch[p]].tree[h] = commits[row[p].base].tree[h] =>
                            commits'[main'].tree[h] = commits[main].tree[h]
  BY DEF Config!TreeAt
<1>1. [Config!Next]_configVars
  BY DEF ServicesNext, serviceVars
<1>2. main \in commits'[main'].anc
  BY <1>1, MainGoesOn DEF Anc
<1>3. ASSUME NEW p \in Proposal \ refused, Config!Undisturbed, job'.op = "merge", job'.p = p
      PROVE  Config!Merge(p)
  <2>1. job = Config!NoJob /\ crashes = 0
    BY <1>3 DEF Config!Undisturbed, Config!Idle, ConfigInv, Jobs
  <2>2. job'.op # job.op /\ Config!Next
    BY <1>1, <1>3, <2>1 DEF Config!NoJob, configVars
  <2>3. \A q \in Proposal : Config!Merge(q) => q = p
    BY <1>3 DEF Config!Merge, Config!Await
  <2>4. ~Config!Work /\ ~Config!CommitDirect /\ ~Config!Revert /\ ~Config!Crash
    BY <1>3, <2>1 DEF Config!Work, Config!RollBack, Config!Reindex, Config!WriteRow, Config!Prune, Config!CommitDirect,
         Config!Revert, Config!Await, Config!Crash, Config!NoJob
  <2>5. ASSUME NEW q \in Proposal
        PROVE  /\ ~Config!Propose(q, "draft") /\ ~Config!Propose(q, "open") /\ ~Config!Amend(q)
               /\ ~Config!Submit(q) /\ ~Config!Discard(q)
    <3>1. ASSUME NEW s \in {"draft", "open"}, Config!Propose(q, s) PROVE FALSE
      <4>1. PICK b : Config!Await(s, "row", q, b, Config!Next1)
        BY <3>1 DEF Config!Propose
      <4> QED BY <1>3, <4>1 DEF Config!Await
    <3>2. ~Config!Amend(q) /\ ~Config!Discard(q)
      BY <1>3 DEF Config!Amend, Config!Discard, Config!Await
    <3>3. ~Config!Submit(q)
      BY <1>3, <2>1 DEF Config!Submit, Config!NoJob
    <3> QED BY <3>1, <3>2, <3>3
  <2> QED BY <2>2, <2>3, <2>4, <2>5 DEF Config!Next
<1>4. ASSUME NEW p \in Proposal \ refused, Config!Undisturbed, job'.op = "merge", job'.p = p, NEW h \in Hunk,
             commits[branch[p]].tree[h] = commits[row[p].base].tree[h]
      PROVE  commits'[main'].tree[h] = commits[main].tree[h]
  BY <1>3, <1>4, MergeKeeps DEF Config!Undisturbed
<1> QED BY <1>2, <1>4

\* A merge undoes nothing that others changed on main since the proposal's base, and no write takes a
\* commit out of main's history, for any repository, hunks and proposals: the commits of a branch
\* since its base are on no other branch and not on main, so that git merges over that very base.
THEOREM OthersAreKept == ServicesSpec => OthersKept
<1>1. ServicesInit => ConfigInv BY ConfigInit DEF ServicesInit
<1>2. ConfigInv /\ [ServicesNext]_serviceVars => ConfigInv' BY ServicesRun
<1> QED BY <1>1, <1>2, OthersStep, PTL DEF ServicesSpec, OthersKept, Config!OthersKept

-------------------------------------------------------------------------------
(***************************************************************************)
(* The eval runs: Accounted and ScoresFit, when scores are recorded after  *)
(* the run.  While it runs only the workers write, and each fixture has at *)
(* most one: a fixture in the queue or with a worker has no aggregate row, *)
(* and one that has is scored on every dimension as its aggregate says, so *)
(* that recover() may leave it out.  A fixture that is neither was written *)
(* to the errors, or the service is stopping and finish() does not run.    *)
(***************************************************************************)
Scores == [Dim -> Value \cup {None}]
Stages == [at : {"idle", "wait"}] \cup [at : {"write"}, vals : [Dim -> Value], left : SUBSET Dim]
Recordings == [at : {"idle", "recompute"}] \cup [at : {"read"}, f : Fixture]
              \cup [at : {"star"}, f : Fixture, vals : Scores]
              \cup [at : {"merge"}, stars : UNION {[F -> Scores] : F \in SUBSET Fixture}]

EvalTyped ==
  /\ status \in {"none", "running", "completed", "failed"} /\ sessions \in SUBSET Fixture /\ errs \in SUBSET Fixture
  /\ rows \in [Fixture -> Scores] /\ star \in [Fixture -> Scores \cup {None}]
  /\ proc \in {"off", "enqueue", "score", "finish"} /\ stage \in [Fixture -> Stages]
  /\ queue \in SUBSET Fixture /\ mine \in SUBSET Fixture /\ failed \in SUBSET Fixture
  /\ rec \in [Judge -> Recordings] /\ torn \in BOOLEAN /\ stopped \in BOOLEAN

Over == status \in {"completed", "failed"}
Scored(f) == star[f] # None /\ star[f] = rows[f] /\ \A d \in Dim : rows[f][d] # None

\* The process works on the run while the row says so, the workers in its second part.
Phases ==
  /\ proc # "off" <=> status = "running"
  /\ proc # "score" => \A f \in Fixture : stage[f].at = "idle"
  /\ proc = "enqueue" \/ status = "none" => \A f \in Fixture : star[f] = None
  /\ proc = "finish" => queue = {} /\ read = Evals!Stars
  /\ ~Over => \A j \in Judge : rec[j].at = "idle"

\* What the workers have of a fixture.
Working ==
  /\ status = "running" => \A f \in Fixture : star[f] # None => Scored(f)
  /\ proc = "score" => \A f \in Fixture : f \in queue \/ stage[f].at # "idle" => star[f] = None
  /\ \A f \in Fixture : stage[f].at # "idle" => f \notin queue
  /\ \A f \in Fixture : stage[f].at = "write" => \A d \in Dim \ stage[f].left : rows[f][d] = stage[f].vals[d]

Followed ==
  /\ proc = "score" => \A f \in sessions : f \in queue \/ stage[f].at # "idle" \/ f \in failed \/ star[f] # None \/ stopped
  /\ proc = "finish" => \A f \in sessions : f \in failed \/ star[f] # None
  /\ Over => \A f \in sessions : f \in errs \/ (star[f] # None /\ \A d \in Dim : rows[f][d] # None)

\* What a recorder has written and read is what is there, when there is one at a time.
Recorded ==
  Over /\ ~torn =>
    /\ (\A j \in Judge : rec[j].at = "idle") => summary = Evals!Stars
    /\ \A j \in Judge : rec[j].at = "merge" => rec[j].stars = Evals!Stars
    /\ \A j \in Judge : rec[j].at = "star" => rec[j].vals = rows[rec[j].f]
    /\ \A f \in Fixture : star[f] # None /\ (\A j \in Judge : rec[j].at \in {"read", "star"} => rec[j].f # f) =>
         star[f] = rows[f]

EvalInv == EvalTyped /\ Phases /\ Working /\ Followed
FitInv == (\A i, j \in Judge : i = j) => Recorded

LEMMA NoScores == None \notin Value /\ None \notin Scores
BY EvalsAssumed DEF Evals!EvalAssumption, Scores

LEMMA StageIs ==
  ASSUME NEW s \in Stages
  PROVE  /\ s.at \in {"idle", "wait", "write"} /\ (s.at = "idle" <=> s = Evals!Idle)
         /\ s.at = "write" => s.vals \in [Dim -> Value] /\ s.left \in SUBSET Dim
                              /\ s = [at |-> "write", vals |-> s.vals, left |-> s.left]
BY DEF Stages, Evals!Idle

LEMMA RecordingIs ==
  ASSUME NEW r \in Recordings
  PROVE  /\ r.at \in {"idle", "recompute", "read", "star", "merge"} /\ (r.at = "idle" <=> r = Evals!Idle)
         /\ r.at \in {"read", "star"} => r.f \in Fixture
         /\ r.at = "star" => r.vals \in Scores
BY DEF Recordings, Evals!Idle

LEMMA StarsAre == EvalTyped => Evals!Stars \in UNION {[F -> Scores] : F \in SUBSET Fixture}
<1> SUFFICES ASSUME EvalTyped PROVE Evals!Stars \in UNION {[F -> Scores] : F \in SUBSET Fixture}
  OBVIOUS
<1> DEFINE G == {g \in Fixture : star[g] # None}
<1>1. \A f \in G : star[f] \in Scores
  BY DEF EvalTyped
<1>2. Evals!Stars \in [G -> Scores]
  BY <1>1 DEF Evals!Stars
<1>3. G \in SUBSET Fixture
  OBVIOUS
<1> QED BY <1>2, <1>3

LEMMA EvalInit == Evals!Init => EvalInv /\ Recorded
<1> SUFFICES ASSUME Evals!Init PROVE EvalInv /\ Recorded
  OBVIOUS
<1>1. [at |-> "idle"] \in Stages /\ [at |-> "idle"] \in Recordings /\ [d \in Dim |-> None] \in Scores
  BY DEF Stages, Recordings, Scores
<1>2. EvalTyped
  BY <1>1 DEF Evals!Init, EvalTyped, Evals!NoRow, Evals!Idle
<1>3. Phases /\ Working /\ Followed /\ Recorded
  BY DEF Evals!Init, Phases, Working, Followed, Recorded, Over, Evals!Idle
<1> QED BY <1>2, <1>3 DEF EvalInv

LEMMA StartStep == ASSUME EvalInv, Evals!Start PROVE EvalInv'
<1>1. EvalTyped'
  BY DEF EvalInv, EvalTyped, Evals!Start
<1>2. Phases'
  BY DEF EvalInv, Phases, Over, Evals!Start
<1>3. Working' /\ Followed'
  BY DEF EvalInv, Phases, Working, Followed, Scored, Over, Evals!Start
<1> QED BY <1>1, <1>2, <1>3 DEF EvalInv

LEMMA EnqueueStep == ASSUME EvalInv, NEW f \in Fixture, Evals!Enqueue(f) PROVE EvalInv'
<1>1. EvalTyped'
  BY DEF EvalInv, EvalTyped, Evals!Enqueue, Evals!durable
<1>2. Phases'
  BY DEF EvalInv, Phases, Over, Evals!Enqueue, Evals!durable, Evals!Stars
<1>3. Working' /\ Followed'
  BY DEF EvalInv, Phases, Working, Followed, Scored, Over, Evals!Enqueue, Evals!durable
<1> QED BY <1>1, <1>2, <1>3 DEF EvalInv

LEMMA SaveSessionsStep == ASSUME EvalInv, Evals!SaveSessions PROVE EvalInv'
<1>1. EvalTyped'
  BY DEF EvalInv, EvalTyped, Evals!SaveSessions
<1>2. Phases'
  BY DEF EvalInv, Phases, Over, Evals!SaveSessions
<1>3. Working' /\ Followed'
  BY DEF EvalInv, EvalTyped, Phases, Working, Followed, Scored, Over, Evals!SaveSessions
<1> QED BY <1>1, <1>2, <1>3 DEF EvalInv

\* A worker goes on with one fixture, or with the next.
LEMMA StageStep ==
  ASSUME EvalInv, NEW f \in Fixture, NEW s \in Stages, proc = "score",
         stage' = [stage EXCEPT ![f] = s], queue' \in {queue, queue \ {f}},
         UNCHANGED <<status, sessions, errs, summary, star, proc, mine, read, stopped, rec, torn>>,
         rows' \in [Fixture -> Scores], \A g \in Fixture \ {f} : rows'[g] = rows[g],
         failed' \in SUBSET Fixture, failed \subseteq failed',
         star[f] = None, s.at # "idle" => f \notin queue',
         s.at = "idle" => f \in queue' \/ f \in failed' \/ stopped,
         s.at = "write" => \A d \in Dim \ s.left : rows'[f][d] = s.vals[d]
  PROVE  EvalInv'
<1>1. EvalTyped'
  BY DEF EvalInv, EvalTyped
<1>2. stage'[f] = s /\ \A g \in Fixture \ {f} : stage'[g] = stage[g]
  BY DEF EvalInv, EvalTyped
<1>3. status = "running"
  BY DEF EvalInv, Phases
<1>4. Phases'
  BY <1>3 DEF EvalInv, Phases, Over
<1>5. Working'
  <2>1. \A g \in Fixture : star[g] # None => g # f /\ Scored(g)
    BY <1>3 DEF EvalInv, Working
  <2>2. \A g \in Fixture : star[g] # None => Scored(g)'
    BY <2>1 DEF Scored
  <2>3. \A g \in Fixture : g \in queue' \/ stage'[g].at # "idle" => star[g] = None
    BY <1>2 DEF EvalInv, Working
  <2>4. \A g \in Fixture : stage'[g].at # "idle" => g \notin queue'
    BY <1>2 DEF EvalInv, Working
  <2>5. \A g \in Fixture : stage'[g].at = "write" => \A d \in Dim \ stage'[g].left : rows'[g][d] = stage'[g].vals[d]
    BY <1>2 DEF EvalInv, Working
  <2> QED BY <1>3, <2>2, <2>3, <2>4, <2>5 DEF Working
<1>6. Followed'
  BY <1>2, <1>3 DEF EvalInv, EvalTyped, Followed, Over
<1> QED BY <1>1, <1>4, <1>5, <1>6 DEF EvalInv

LEMMA TakeStep == ASSUME EvalInv, NEW f \in Fixture, Evals!Take(f) PROVE EvalInv'
<1>1. [at |-> "wait"] \in Stages
  BY DEF Stages
<1>2. star[f] = None /\ proc = "score"
  BY DEF EvalInv, Working, Evals!Take
<1>3. rows \in [Fixture -> Scores] /\ failed \in SUBSET Fixture
  BY DEF EvalInv, EvalTyped
<1> QED BY <1>1, <1>2, <1>3, StageStep DEF Evals!Take, Evals!durable

LEMMA AtWork == ASSUME EvalInv, NEW f \in Fixture, stage[f].at # "idle"
                PROVE  /\ proc = "score" /\ star[f] = None /\ f \notin queue /\ stage[f] \in Stages
                       /\ rows \in [Fixture -> Scores] /\ failed \in SUBSET Fixture /\ status = "running"
BY DEF EvalInv, EvalTyped, Phases, Working

LEMMA OutcomeStep == ASSUME EvalInv, NEW f \in Fixture, Evals!Outcome(f) PROVE EvalInv'
<1>1. PICK v \in [Dim -> Value] : stage' = [stage EXCEPT ![f] = [at |-> "write", vals |-> v, left |-> Dim]]
  BY DEF Evals!Outcome
<1>2. [at |-> "write", vals |-> v, left |-> Dim] \in Stages
  BY DEF Stages
<1>3. /\ stage[f].at # "idle"
      /\ UNCHANGED <<status, sessions, errs, summary, rows, star, proc, queue, mine, failed, read, stopped, rec, torn>>
  BY DEF Evals!Outcome, Evals!durable
<1> QED BY <1>1, <1>2, <1>3, AtWork, StageStep

LEMMA LeaveGatedStep == ASSUME EvalInv, NEW f \in Fixture, Evals!LeaveGated(f) PROVE EvalInv'
<1>1. /\ stage[f].at # "idle" /\ stopped /\ stage' = [stage EXCEPT ![f] = Evals!Idle]
      /\ UNCHANGED <<status, sessions, errs, summary, rows, star, proc, queue, mine, failed, read, stopped, rec, torn>>
  BY DEF Evals!LeaveGated, Evals!durable
<1>2. Evals!Idle \in Stages /\ Evals!Idle.at = "idle"
  BY DEF Stages, Evals!Idle
<1> QED BY <1>1, <1>2, AtWork, StageStep

LEMMA ScoringFailsStep == ASSUME EvalInv, NEW f \in Fixture, Evals!ScoringFails(f) PROVE EvalInv'
<1>1. /\ stage[f].at # "idle" /\ stage' = [stage EXCEPT ![f] = Evals!Idle]
      /\ failed' = IF stopped THEN failed ELSE failed \cup {f}
      /\ UNCHANGED <<status, sessions, errs, summary, rows, star, proc, queue, mine, read, stopped, rec, torn>>
  BY DEF Evals!ScoringFails, Evals!durable
<1>2. Evals!Idle \in Stages /\ Evals!Idle.at = "idle"
  BY DEF Stages, Evals!Idle
<1>3. failed' \in SUBSET Fixture /\ failed \subseteq failed' /\ (f \in failed' \/ stopped)
  BY <1>1, AtWork
<1> QED BY <1>1, <1>2, <1>3, AtWork, StageStep

LEMMA EvalWriteRowStep == ASSUME EvalInv, NEW f \in Fixture, Evals!WriteRow(f) PROVE EvalInv'
<1>1. PICK d \in stage[f].left : /\ rows' = [rows EXCEPT ![f][d] = stage[f].vals[d]]
                                 /\ stage' = [stage EXCEPT ![f].left = @ \ {d}]
  BY DEF Evals!WriteRow
<1>2. PICK s : s = stage[f]
  OBVIOUS
<1>3. /\ s.at = "write" /\ s \in Stages
      /\ UNCHANGED <<status, sessions, errs, summary, star, proc, queue, mine, failed, read, stopped, rec, torn>>
  BY <1>2, AtWork DEF Evals!WriteRow
<1>4. s.vals \in [Dim -> Value] /\ s.left \in SUBSET Dim /\ s = [at |-> "write", vals |-> s.vals, left |-> s.left]
  BY <1>3, StageIs
<1>5. PICK t : t = [at |-> "write", vals |-> s.vals, left |-> s.left \ {d}]
  OBVIOUS
<1>6. t \in Stages /\ t.at = "write" /\ t.vals = s.vals /\ t.left = s.left \ {d} /\ stage' = [stage EXCEPT ![f] = t]
  <2>1. t \in Stages /\ t.at = "write" /\ t.vals = s.vals /\ t.left = s.left \ {d}
    BY <1>4, <1>5 DEF Stages
  <2>2. [s EXCEPT !.left = s.left \ {d}] = t
    BY <1>4, <1>5
  <2>3. stage' = [stage EXCEPT ![f] = [s EXCEPT !.left = s.left \ {d}]]
    BY <1>1, <1>2
  <2> QED BY <2>1, <2>2, <2>3
<1>7. PICK x \in Value : x = s.vals[d]
  BY <1>1, <1>2, <1>4
<1>8. /\ rows' \in [Fixture -> Scores] /\ \A g \in Fixture \ {f} : rows'[g] = rows[g]
      /\ rows'[f][d] = x /\ \A e \in Dim \ {d} : rows'[f][e] = rows[f][e]
  <2>1. rows' = [rows EXCEPT ![f][d] = x] /\ d \in Dim
    BY <1>1, <1>2, <1>4, <1>7
  <2> QED BY <1>2, <1>3, <2>1, AtWork DEF Scores
<1>9. \A e \in Dim \ t.left : rows'[f][e] = t.vals[e]
  BY <1>2, <1>3, <1>6, <1>7, <1>8 DEF EvalInv, Working
<1> QED BY <1>2, <1>3, <1>6, <1>8, <1>9, AtWork, StageStep

LEMMA WriteStarStep == ASSUME EvalInv, NEW f \in Fixture, Evals!WriteStar(f) PROVE EvalInv'
<1>1. PICK v : v = stage[f].vals
  OBVIOUS
<1>2. /\ stage[f].at = "write" /\ stage[f].left = {} /\ star' = [star EXCEPT ![f] = v]
      /\ stage' = [stage EXCEPT ![f] = Evals!Idle]
      /\ UNCHANGED <<status, sessions, errs, summary, rows, proc, queue, mine, failed, read, stopped, rec, torn>>
  BY <1>1 DEF Evals!WriteStar
<1>3. /\ proc = "score" /\ star[f] = None /\ f \notin queue /\ stage[f] \in Stages /\ status = "running"
      /\ EvalTyped
  BY <1>2, AtWork DEF EvalInv
<1>4. v \in [Dim -> Value] /\ v \in Scores /\ v # None
  BY <1>1, <1>2, <1>3, StageIs, NoScores DEF Scores
<1>5. Evals!Idle \in Stages /\ Evals!Idle.at = "idle"
  BY DEF Stages, Evals!Idle
<1>6. rows[f] = v
  <2>1. rows[f] \in Scores /\ \A d \in Dim : rows[f][d] = v[d]
    BY <1>1, <1>2, <1>3 DEF EvalInv, EvalTyped, Working
  <2> QED BY <1>4, <2>1 DEF Scores
<1>7. /\ EvalTyped' /\ star'[f] = v /\ stage'[f].at = "idle"
      /\ \A g \in Fixture \ {f} : star'[g] = star[g] /\ stage'[g] = stage[g]
  BY <1>2, <1>3, <1>4, <1>5 DEF EvalTyped
<1>8. Phases'
  BY <1>2, <1>3 DEF EvalInv, Phases, Over
<1>9. Working'
  <2>1. Scored(f)'
    BY <1>2, <1>4, <1>6, <1>7, NoScores DEF Scored
  <2>2. \A g \in Fixture \ {f} : star[g] # None => Scored(g)'
    BY <1>2, <1>3, <1>7 DEF EvalInv, Working, Scored
  <2>3. \A g \in Fixture : g \in queue' \/ stage'[g].at # "idle" => star'[g] = None
    BY <1>2, <1>3, <1>7 DEF EvalInv, Working
  <2> QED BY <1>2, <1>7, <2>1, <2>2, <2>3 DEF EvalInv, Working
<1>10. Followed'
  BY <1>2, <1>3, <1>4, <1>7 DEF EvalInv, EvalTyped, Followed, Over
<1> QED BY <1>7, <1>8, <1>9, <1>10 DEF EvalInv

LEMMA ReadResultsStep == ASSUME EvalInv, Evals!ReadResults PROVE EvalInv'
<1>1. EvalTyped'
  BY DEF EvalInv, EvalTyped, Evals!ReadResults, Evals!durable
<1>2. /\ UNCHANGED <<status, sessions, errs, summary, rows, star, queue, mine, failed, stage, stopped, rec, torn>>
      /\ proc = "score" /\ queue = {} /\ ~stopped /\ \A f \in Fixture : stage[f] = Evals!Idle
      /\ read' = Evals!Stars /\ proc' = "finish"
  BY DEF Evals!ReadResults, Evals!PoolDone, Evals!durable
<1>3. \A f \in Fixture : stage[f].at = "idle"
  BY <1>2 DEF Evals!Idle
<1>4. Phases'
  BY <1>2, <1>3 DEF EvalInv, Phases, Over, Evals!Stars
<1>5. Working' /\ Followed'
  BY <1>2, <1>3 DEF EvalInv, EvalTyped, Phases, Working, Followed, Scored, Over
<1> QED BY <1>1, <1>4, <1>5 DEF EvalInv

LEMMA FinishStep == ASSUME EvalInv, Evals!Finish PROVE EvalInv' /\ Recorded'
<1>1. EvalTyped'
  BY DEF EvalInv, EvalTyped, Evals!Finish
<1>2. /\ UNCHANGED <<sessions, rows, star, queue, mine, failed, stage, stopped, rec, torn>>
      /\ proc = "finish" /\ proc' = "off" /\ summary' = read /\ errs' = failed /\ status' \in {"completed", "failed"}
  BY DEF Evals!Finish
<1>3. status = "running" /\ read = Evals!Stars /\ (\A j \in Judge : rec[j].at = "idle") /\ Evals!Stars' = Evals!Stars
  BY <1>2 DEF EvalInv, Phases, Over, Evals!Stars
<1>4. Phases'
  BY <1>2 DEF EvalInv, Phases, Over
<1>5. \A f \in Fixture : star[f] # None => Scored(f)
  BY <1>3 DEF EvalInv, Working
<1>6. Working' /\ Followed'
  BY <1>2, <1>5 DEF EvalInv, EvalTyped, Working, Followed, Scored, Over
<1>7. Recorded'
  BY <1>2, <1>3, <1>5 DEF Recorded, Scored
<1> QED BY <1>1, <1>4, <1>6, <1>7 DEF EvalInv

LEMMA StopStep == ASSUME EvalInv, Evals!Stop PROVE EvalInv'
<1>1. EvalTyped'
  BY DEF EvalInv, EvalTyped, Evals!Stop, Evals!durable
<1>2. Phases'
  BY DEF EvalInv, Phases, Over, Evals!Stop, Evals!durable, Evals!Stars
<1>3. Working' /\ Followed'
  BY DEF EvalInv, EvalTyped, Working, Followed, Scored, Over, Evals!Stop, Evals!durable
<1> QED BY <1>1, <1>2, <1>3 DEF EvalInv

\* The next process leaves out what is scored, which is scored on every dimension.
LEMMA RestartStep == ASSUME EvalInv, Evals!Restart PROVE EvalInv' /\ (Recorded => Recorded')
<1>1. /\ UNCHANGED <<status, sessions, errs, summary, rows, star>> /\ stopped' = FALSE
      /\ stage' = [f \in Fixture |-> Evals!Idle] /\ failed' = {} /\ mine' = sessions
      /\ rec' = [j \in Judge |-> Evals!Idle] /\ torn' = (torn \/ \E j \in Judge : rec[j] # Evals!Idle)
      /\ IF status = "running" THEN proc' = "score" /\ queue' = sessions \ Evals!Done
                               ELSE proc' = "off" /\ queue' = {}
  BY DEF Evals!Restart, Evals!Resumable, Evals!durable
<1>2. Evals!Idle \in Stages /\ Evals!Idle \in Recordings /\ Evals!Idle.at = "idle"
  BY DEF Stages, Recordings, Evals!Idle
<1>3. EvalTyped /\ sessions \in SUBSET Fixture /\ queue' \in SUBSET Fixture
  BY <1>1 DEF EvalInv, EvalTyped
<1>4. stage' \in [Fixture -> Stages] /\ \A f \in Fixture : stage'[f].at = "idle"
  BY <1>1, <1>2
<1>5. rec' \in [Judge -> Recordings] /\ \A j \in Judge : rec'[j].at = "idle"
  BY <1>1, <1>2
<1>6. proc' \in {"off", "score"} /\ (proc' = "score" <=> status = "running") /\ torn' \in BOOLEAN
  BY <1>1
<1>7. EvalTyped'
  BY <1>1, <1>3, <1>4, <1>5, <1>6 DEF EvalTyped
<1>8. Phases'
  BY <1>1, <1>4, <1>5, <1>6 DEF EvalInv, Phases, Over
<1>9. proc' = "score" => \A f \in Fixture : (f \in queue' => star[f] = None) /\ (f \in sessions => f \in queue' \/ star[f] # None)
  BY <1>1 DEF Evals!Done
<1>10. Working' /\ Followed'
  <2>1. Working'
    BY <1>1, <1>4, <1>9 DEF EvalInv, Working, Scored
  <2>2. Followed'
    BY <1>1, <1>3, <1>6, <1>9 DEF EvalInv, Followed, Over
  <2> QED BY <2>1, <2>2
<1>11. ASSUME Recorded PROVE Recorded'
  <2>1. ASSUME Over, ~torn' PROVE ~torn /\ \A j \in Judge : rec[j].at = "idle"
    <3>1. ~torn /\ \A j \in Judge : rec[j] = Evals!Idle
      BY <1>1, <2>1
    <3> QED BY <1>2, <3>1
  <2>2. Evals!Stars' = Evals!Stars /\ (Over' <=> Over)
    BY <1>1 DEF Evals!Stars, Over
  <2> QED BY <1>1, <1>5, <1>11, <2>1, <2>2 DEF Recorded
<1> QED BY <1>7, <1>8, <1>10, <1>11 DEF EvalInv

\* A step of the orchestrator's sessions.
LEMMA SessionOnly ==
  ASSUME EvalInv, UNCHANGED <<status, sessions, errs, summary, rows, star, proc, queue, mine, failed, stage, read, stopped, rec, torn>>
  PROVE  EvalInv' /\ (Recorded => Recorded')
<1>1. EvalTyped' /\ Phases'
  BY DEF EvalInv, EvalTyped, Phases, Over, Evals!Stars
<1>2. Working' /\ Followed'
  BY DEF EvalInv, Working, Followed, Scored, Over
<1>3. Recorded => Recorded'
  BY DEF Recorded, Over, Evals!Stars
<1> QED BY <1>1, <1>2, <1>3 DEF EvalInv

-------------------------------------------------------------------------------
(***************************************************************************)
(* Scores recorded after the run.                                          *)
(***************************************************************************)
\* A recorder's step after the run: it takes no score away.
LEMMA RecorderStep ==
  ASSUME EvalInv, Over, NEW j \in Judge, NEW r \in Recordings, rec' = [rec EXCEPT ![j] = r],
         UNCHANGED <<status, sessions, errs, proc, queue, mine, failed, stage, read, stopped, torn>>,
         rows' \in [Fixture -> Scores], star' \in [Fixture -> Scores \cup {None}],
         \A f \in Fixture : star[f] # None => star'[f] # None,
         \A f \in Fixture : \A d \in Dim : rows[f][d] # None => rows'[f][d] # None
  PROVE  EvalInv'
<1>1. EvalTyped'
  BY DEF EvalInv, EvalTyped
<1>2. proc = "off" /\ \A f \in Fixture : stage[f].at = "idle"
  BY DEF EvalInv, EvalTyped, Phases, Over
<1>3. Phases'
  BY <1>2 DEF EvalInv, Phases, Over
<1>4. Working' /\ Followed'
  BY <1>2 DEF EvalInv, EvalTyped, Working, Followed, Over
<1> QED BY <1>1, <1>3, <1>4 DEF EvalInv

LEMMA WhenOver ==
  ASSUME EvalInv, NEW j \in Judge, rec[j].at # "idle" \/ status \in {"completed", "failed"}
  PROVE  /\ Over /\ EvalTyped /\ rec \in [Judge -> Recordings] /\ rec[j] \in Recordings
         /\ rows \in [Fixture -> Scores] /\ star \in [Fixture -> Scores \cup {None}]
BY DEF EvalInv, EvalTyped, Phases, Over

LEMMA RecordStep ==
  ASSUME EvalInv, ~WhileRunning, NEW j \in Judge, NEW f \in Fixture, Evals!Record(j, f)
  PROVE  EvalInv' /\ (FitInv => FitInv')
<1>1. PICK d \in Dim, v \in Value : rows' = [rows EXCEPT ![f][d] = v]
  BY DEF Evals!Record
<1>2. PICK r : r = [at |-> "read", f |-> f]
  OBVIOUS
<1>3. /\ rec[j] = Evals!Idle /\ status \in {"completed", "failed"} /\ rec' = [rec EXCEPT ![j] = r]
      /\ UNCHANGED <<status, sessions, errs, summary, star, proc, queue, mine, failed, stage, read, stopped, torn>>
  BY <1>2 DEF Evals!Record, Evals!process
<1>4. r \in Recordings /\ r.at = "read" /\ r.f = f
  BY <1>2 DEF Recordings
<1>5. /\ Over /\ rec \in [Judge -> Recordings] /\ rows \in [Fixture -> Scores]
      /\ star \in [Fixture -> Scores \cup {None}]
  BY <1>3, WhenOver
<1>6. /\ rows' \in [Fixture -> Scores] /\ \A g \in Fixture \ {f} : rows'[g] = rows[g]
      /\ rows'[f][d] = v /\ \A e \in Dim \ {d} : rows'[f][e] = rows[f][e]
  BY <1>1, <1>5 DEF Scores
<1>7. \A g \in Fixture : \A e \in Dim : rows[g][e] # None => rows'[g][e] # None
  BY <1>6, NoScores
<1>8. EvalInv'
  BY <1>3, <1>4, <1>5, <1>6, <1>7, RecorderStep
<1>9. ASSUME FitInv, \A i, k \in Judge : i = k PROVE Recorded'
  <2>1. Recorded /\ (\A k \in Judge : rec[k].at = "idle" /\ rec'[k] = r) /\ (Over' <=> Over)
    BY <1>3, <1>5, <1>9 DEF FitInv, Over, Evals!Idle
  <2>2. ~torn => \A g \in Fixture : star[g] # None => star[g] = rows[g]
    BY <1>5, <2>1 DEF Recorded
  <2>3. ~torn => \A g \in Fixture \ {f} : star'[g] # None => star'[g] = rows'[g]
    BY <1>3, <1>6, <2>2
  <2> QED BY <1>3, <1>4, <2>1, <2>3 DEF Recorded
<1> QED BY <1>8, <1>9 DEF FitInv

LEMMA RecordReadStep ==
  ASSUME EvalInv, NEW j \in Judge, Evals!RecordRead(j)
  PROVE  EvalInv' /\ (FitInv => FitInv')
<1>1. PICK f : f = rec[j].f
  OBVIOUS
<1>2. PICK r : r = [at |-> "star", f |-> f, vals |-> rows[f]]
  OBVIOUS
<1>3. /\ rec[j].at = "read" /\ rec' = [rec EXCEPT ![j] = r]
      /\ UNCHANGED <<status, sessions, errs, summary, rows, star, proc, queue, mine, failed, stage, read, stopped, torn>>
  BY <1>1, <1>2 DEF Evals!RecordRead, Evals!process, Evals!durable
<1>4. /\ Over /\ rec \in [Judge -> Recordings] /\ rows \in [Fixture -> Scores] /\ rec[j] \in Recordings
      /\ star \in [Fixture -> Scores \cup {None}]
  BY <1>3, WhenOver
<1>5. f \in Fixture
  BY <1>1, <1>3, <1>4, RecordingIs
<1>6. r \in Recordings /\ r.at = "star" /\ r.f = f /\ r.vals = rows[f]
  BY <1>2, <1>4, <1>5 DEF Recordings
<1>7. EvalInv'
  BY <1>3, <1>4, <1>6, RecorderStep
<1>8. ASSUME FitInv, \A i, k \in Judge : i = k PROVE Recorded'
  <2>1. Recorded /\ (\A k \in Judge : k = j /\ rec'[k] = r) /\ (Over' <=> Over) /\ Evals!Stars' = Evals!Stars
    BY <1>3, <1>4, <1>8 DEF FitInv, Over, Evals!Stars
  <2>2. ~torn => \A g \in Fixture \ {f} : star[g] # None => star[g] = rows[g]
    BY <1>1, <1>4, <2>1 DEF Recorded
  <2> QED BY <1>3, <1>6, <2>1, <2>2 DEF Recorded
<1> QED BY <1>7, <1>8 DEF FitInv

LEMMA RecordStarStep ==
  ASSUME EvalInv, NEW j \in Judge, Evals!RecordStar(j)
  PROVE  EvalInv' /\ (FitInv => FitInv')
<1>1. PICK f : f = rec[j].f
  OBVIOUS
<1>2. PICK v : v = rec[j].vals
  OBVIOUS
<1>3. PICK r : r = [at |-> "recompute"]
  OBVIOUS
<1>4. /\ rec[j].at = "star" /\ star' = [star EXCEPT ![f] = v] /\ rec' = [rec EXCEPT ![j] = r]
      /\ UNCHANGED <<status, sessions, errs, summary, rows, proc, queue, mine, failed, stage, read, stopped, torn>>
  BY <1>1, <1>2, <1>3 DEF Evals!RecordStar, Evals!NewStar, Evals!process
<1>5. /\ Over /\ rec \in [Judge -> Recordings] /\ rows \in [Fixture -> Scores] /\ rec[j] \in Recordings
      /\ star \in [Fixture -> Scores \cup {None}]
  BY <1>4, WhenOver
<1>6. f \in Fixture /\ v \in Scores /\ v # None
  BY <1>1, <1>2, <1>4, <1>5, RecordingIs, NoScores
<1>7. r \in Recordings /\ r.at = "recompute"
  BY <1>3 DEF Recordings
<1>8. /\ star' \in [Fixture -> Scores \cup {None}] /\ star'[f] = v
      /\ \A g \in Fixture \ {f} : star'[g] = star[g]
  BY <1>4, <1>5, <1>6
<1>9. \A g \in Fixture : star[g] # None => star'[g] # None
  BY <1>6, <1>8
<1>10. EvalInv'
  BY <1>4, <1>5, <1>7, <1>8, <1>9, RecorderStep
<1>11. ASSUME FitInv, \A i, k \in Judge : i = k PROVE Recorded'
  <2>1. Recorded /\ (\A k \in Judge : k = j /\ rec'[k] = r) /\ (Over' <=> Over)
    BY <1>4, <1>5, <1>11 DEF FitInv, Over
  <2>2. ~torn => rows[f] = v /\ \A g \in Fixture \ {f} : star[g] # None => star[g] = rows[g]
    BY <1>1, <1>2, <1>4, <1>5, <2>1 DEF Recorded
  <2>3. ~torn => \A g \in Fixture : star'[g] # None => star'[g] = rows[g]
    BY <1>8, <2>2
  <2> QED BY <1>4, <1>7, <2>1, <2>3 DEF Recorded
<1> QED BY <1>10, <1>11 DEF FitInv

LEMMA RecordRecomputeStep ==
  ASSUME EvalInv, NEW j \in Judge, Evals!RecordRecompute(j)
  PROVE  EvalInv' /\ (FitInv => FitInv')
<1>1. PICK s : s = Evals!Stars
  OBVIOUS
<1>2. PICK r : r = [at |-> "merge", stars |-> s]
  OBVIOUS
<1>3. /\ rec[j].at = "recompute" /\ rec' = [rec EXCEPT ![j] = r]
      /\ UNCHANGED <<status, sessions, errs, summary, rows, star, proc, queue, mine, failed, stage, read, stopped, torn>>
  BY <1>1, <1>2 DEF Evals!RecordRecompute, Evals!process, Evals!durable
<1>4. /\ Over /\ rec \in [Judge -> Recordings] /\ rows \in [Fixture -> Scores] /\ EvalTyped
      /\ star \in [Fixture -> Scores \cup {None}]
  BY <1>3, WhenOver
<1>5. r \in Recordings /\ r.at = "merge" /\ r.stars = s
  BY <1>1, <1>2, <1>4, StarsAre DEF Recordings
<1>6. EvalInv'
  BY <1>3, <1>4, <1>5, RecorderStep
<1>7. ASSUME FitInv, \A i, k \in Judge : i = k PROVE Recorded'
  <2>1. Recorded /\ (\A k \in Judge : k = j /\ rec'[k] = r) /\ (Over' <=> Over) /\ Evals!Stars' = s
    BY <1>1, <1>3, <1>4, <1>7 DEF FitInv, Over, Evals!Stars
  <2>2. ~torn => \A g \in Fixture : star[g] # None => star[g] = rows[g]
    BY <1>3, <1>4, <2>1 DEF Recorded
  <2> QED BY <1>3, <1>5, <2>1, <2>2 DEF Recorded
<1> QED BY <1>6, <1>7 DEF FitInv

LEMMA RecordMergeStep ==
  ASSUME EvalInv, NEW j \in Judge, Evals!RecordMerge(j)
  PROVE  EvalInv' /\ (FitInv => FitInv')
<1>1. /\ rec[j].at = "merge" /\ summary' = rec[j].stars /\ rec' = [rec EXCEPT ![j] = Evals!Idle]
      /\ UNCHANGED <<status, sessions, errs, rows, star, proc, queue, mine, failed, stage, read, stopped, torn>>
  BY DEF Evals!RecordMerge, Evals!process
<1>2. /\ Over /\ rec \in [Judge -> Recordings] /\ rows \in [Fixture -> Scores]
      /\ star \in [Fixture -> Scores \cup {None}]
  BY <1>1, WhenOver
<1>3. Evals!Idle \in Recordings /\ Evals!Idle.at = "idle"
  BY DEF Recordings, Evals!Idle
<1>4. EvalInv'
  BY <1>1, <1>2, <1>3, RecorderStep
<1>5. ASSUME FitInv, \A i, k \in Judge : i = k PROVE Recorded'
  <2>1. /\ Recorded /\ (\A k \in Judge : k = j /\ rec'[k] = Evals!Idle) /\ (Over' <=> Over)
        /\ Evals!Stars' = Evals!Stars
    BY <1>1, <1>2, <1>5 DEF FitInv, Over, Evals!Stars
  <2>2. ~torn => summary' = Evals!Stars /\ \A g \in Fixture : star[g] # None => star[g] = rows[g]
    BY <1>1, <1>2, <2>1 DEF Recorded
  <2> QED BY <1>1, <1>3, <2>1, <2>2 DEF Recorded
<1> QED BY <1>4, <1>5 DEF FitInv

\* While the run goes on there is nothing to agree on.
LEMMA NotOver == ASSUME EvalInv', status' \notin {"completed", "failed"} PROVE FitInv'
BY DEF FitInv, Recorded, Over

LEMMA EvalNext ==
  ASSUME ~WhileRunning, EvalInv, FitInv, [Evals!Next]_evalVars
  PROVE  EvalInv' /\ FitInv'
<1>1. CASE Evals!Start
  <2>1. status' = "running"
    BY <1>1 DEF Evals!Start
  <2> QED BY <1>1, <2>1, StartStep, NotOver
<1>2. CASE Evals!SaveSessions
  <2>1. status' = "running"
    BY <1>2 DEF Evals!SaveSessions, EvalInv, Phases
  <2> QED BY <1>2, <2>1, SaveSessionsStep, NotOver
<1>3. CASE Evals!ReadResults
  <2>1. status' = "running"
    BY <1>3 DEF Evals!ReadResults, Evals!PoolDone, Evals!durable, EvalInv, Phases
  <2> QED BY <1>3, <2>1, ReadResultsStep, NotOver
<1>4. CASE Evals!Finish
  BY <1>4, FinishStep DEF FitInv
<1>5. ASSUME NEW f \in Fixture, Evals!Enqueue(f) \/ Evals!Take(f) PROVE EvalInv' /\ FitInv'
  <2>1. status' = "running"
    BY <1>5 DEF Evals!Enqueue, Evals!Take, Evals!durable, EvalInv, Phases
  <2> QED BY <1>5, <2>1, EnqueueStep, TakeStep, NotOver
<1>6. ASSUME NEW f \in Fixture,
             Evals!Outcome(f) \/ Evals!LeaveGated(f) \/ Evals!WriteRow(f) \/ Evals!WriteStar(f) \/ Evals!ScoringFails(f)
      PROVE  EvalInv' /\ FitInv'
  <2>1. stage[f].at # "idle" /\ status' = status
    BY <1>6 DEF Evals!Outcome, Evals!LeaveGated, Evals!WriteRow, Evals!WriteStar, Evals!ScoringFails, Evals!durable
  <2>2. status' = "running"
    BY <2>1, AtWork
  <2> QED BY <1>6, <2>2, OutcomeStep, LeaveGatedStep, EvalWriteRowStep, WriteStarStep, ScoringFailsStep, NotOver
<1>7. CASE Evals!Stop
  <2>1. Recorded => Recorded'
    BY <1>7 DEF Evals!Stop, Evals!durable, Recorded, Over, Evals!Stars
  <2> QED BY <1>7, <2>1, StopStep DEF FitInv
<1>8. CASE Evals!Restart
  BY <1>8, RestartStep DEF FitInv
<1>9. ASSUME NEW j \in Judge, NEW f \in Fixture, Evals!Record(j, f) PROVE EvalInv' /\ FitInv'
  BY <1>9, RecordStep
<1>10. CASE Evals!Recording
  BY <1>10, RecordReadStep, RecordStarStep, RecordRecomputeStep, RecordMergeStep DEF Evals!Recording
<1>11. ASSUME NEW f \in Fixture, Evals!Gate(f) \/ Evals!Rest(f) PROVE EvalInv' /\ FitInv'
  BY <1>11, SessionOnly DEF Evals!Gate, Evals!Rest, Evals!durable, Evals!process, FitInv
<1>12. CASE UNCHANGED evalVars
  BY <1>12, SessionOnly DEF evalVars, FitInv
<1> QED BY <1>1, <1>2, <1>3, <1>4, <1>5, <1>6, <1>7, <1>8, <1>9, <1>10, <1>11, <1>12 DEF Evals!Next, Evals!Run

LEMMA EvalInvImplies ==
  ASSUME EvalInv PROVE Accounted /\ (FitInv /\ (\A i, j \in Judge : i = j) => ScoresFit)
<1>1. Accounted
  BY DEF EvalInv, Followed, Over, Accounted, Evals!Accounted, Evals!Ended
<1>2. ASSUME FitInv, \A i, j \in Judge : i = j PROVE ScoresFit
  <2> SUFFICES ASSUME Over, ~torn, \A j \in Judge : rec[j] = Evals!Idle
               PROVE  summary = Evals!Stars /\ \A f \in Fixture : star[f] # None => star[f] = rows[f]
    BY DEF ScoresFit, Evals!ScoresFit, Evals!Ended, Over
  <2>1. \A j \in Judge : rec[j].at = "idle"
    BY DEF Evals!Idle
  <2> QED BY <1>2, <2>1 DEF FitInv, Recorded
<1> QED BY <1>1, <1>2

LEMMA ServicesEval ==
  ASSUME ~WhileRunning
  PROVE  /\ ServicesInit => EvalInv /\ FitInv
         /\ EvalInv /\ FitInv /\ [ServicesNext]_serviceVars => (EvalInv /\ FitInv)'
<1>1. ServicesInit => EvalInv /\ FitInv
  BY EvalInit DEF ServicesInit, FitInv
<1>2. [ServicesNext]_serviceVars => [Evals!Next]_evalVars
  BY DEF ServicesNext, serviceVars
<1> QED BY <1>1, <1>2, EvalNext

\* When scores are recorded after the run only, an ended run has each fixture whose session it knows
\* scored on every dimension or among its errors, for any fixtures, workers, stops and crashes.
THEOREM FixturesAccounted == ~WhileRunning /\ ServicesSpec => []Accounted
<1> SUFFICES ASSUME ~WhileRunning PROVE ServicesSpec => []Accounted
  OBVIOUS
<1>1. ServicesInit => EvalInv /\ FitInv BY ServicesEval
<1>2. EvalInv /\ FitInv /\ [ServicesNext]_serviceVars => (EvalInv /\ FitInv)' BY ServicesEval
<1>3. EvalInv /\ FitInv => Accounted BY EvalInvImplies
<1> QED BY <1>1, <1>2, <1>3, PTL DEF ServicesSpec

\* When moreover one caller records at a time, rows, aggregates and summary of an ended run agree
\* whenever nothing is under way and no crash cut a call short (recordScore, recomputeSummary).
THEOREM ScoresAgree == ~WhileRunning /\ (\A i, j \in Judge : i = j) /\ ServicesSpec => []ScoresFit
<1> SUFFICES ASSUME ~WhileRunning, \A i, j \in Judge : i = j PROVE ServicesSpec => []ScoresFit
  OBVIOUS
<1>1. ServicesInit => EvalInv /\ FitInv BY ServicesEval
<1>2. EvalInv /\ FitInv /\ [ServicesNext]_serviceVars => (EvalInv /\ FitInv)' BY ServicesEval
<1>3. EvalInv /\ FitInv => ScoresFit BY EvalInvImplies
<1> QED BY <1>1, <1>2, <1>3, PTL DEF ServicesSpec
=============================================================================
