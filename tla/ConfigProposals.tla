-------------------------- MODULE ConfigProposals --------------------------
(***************************************************************************)
(* The configuration service over its git repository: direct commits,      *)
(* reverts, and proposals that are drafted, amended, submitted, discarded  *)
(* or merged.  ConfigServiceImpl (config/service.ts) runs one write at a   *)
(* time behind its mutex; each write is several steps, as the git commands *)
(* and the UPDATE of the proposal's row are awaited one after the other,   *)
(* and a crash may fall between any two.                                   *)
(*                                                                         *)
(* A tree is a value for each hunk, a hunk belongs to a file.  A change    *)
(* replaces a whole file (config/repo.ts buildTree), git merges by hunk.   *)
(***************************************************************************)
EXTENDS Integers, Sequences, FiniteSets

CONSTANTS
  Proposal,    \* the proposals that may be made
  Hunk,        \* the places of the tree that git merges separately
  FileOf,      \* the file of each hunk
  Val,         \* the contents each hunk may have, 0 the seed's
  None,
  Strict,      \* the trees that pass validation on main
  Loose,       \* the trees that pass it on another branch: unreachable steps only warn there
  MaxCommits,  \* bound: commits in the repository
  MaxCrashes   \* bound: crashes of the server

Tree == {t \in [Hunk -> UNION {Val[h] : h \in Hunk}] : \A h \in Hunk : t[h] \in Val[h]}
NoCommit == 0
Live == {"draft", "open"}
NoRow == [status |-> "none", base |-> NoCommit, head |-> NoCommit, merged |-> NoCommit]
NoJob == [op |-> "none", step |-> "idle", p |-> None, was |-> NoCommit, made |-> NoCommit]

VARIABLES
  commits,  \* the repository: tree, INDEX.md, parents, ancestors (itself included), made by a revert or not
  main,     \* the head of main
  branch,   \* the head of each proposal's branch, NoCommit where there is none
  row,      \* config_proposals
  job,      \* the write that holds the mutex, and its next step
  crashes,
  refused   \* the proposals whose merge was rolled back (history)

vars == <<commits, main, branch, row, job, crashes, refused>>

TreeAt(c) == commits[c].tree
Ancestors(c) == commits[c].anc
Idle == job.step = "idle"
Room(n) == Len(commits) + n <= MaxCommits
Next1 == Len(commits) + 1

\* A commit of tree t with INDEX.md i on the parents ps.
NewCommit(t, i, ps) ==
  [tree |-> t, index |-> i, par |-> ps, rev |-> FALSE, anc |-> {Next1} \cup UNION {Ancestors(c) : c \in ps}]

\* The whole file of hunk h with that hunk at v and the rest as in t: one FileChange.
Edit(t, h, v) == [file |-> FileOf[h], body |-> [t EXCEPT ![h] = v]]
Edits(t) == UNION {{Edit(t, h, v) : v \in Val[h] \ {t[h]}} : h \in Hunk}
Apply(t, e) == [h \in Hunk |-> IF FileOf[h] = e.file THEN e.body[h] ELSE t[h]]

\* The files in which two trees differ, and t with those files taken from s.
Changed(s, t) == {FileOf[h] : h \in {g \in Hunk : s[g] # t[g]}}
Replay(t, files, s) == [h \in Hunk |-> IF FileOf[h] \in files THEN s[h] ELSE t[h]]

\* Mutant: the files the branch changed are taken over whole.
WholeFiles(b, ours, theirs) == Replay(ours, Changed(b, theirs), theirs)

\* The merge by hunks of ours and theirs with base b.
Clash(b, ours, theirs) == \E h \in Hunk : ours[h] # b[h] /\ theirs[h] # b[h] /\ ours[h] # theirs[h]
ThreeWay(b, ours, theirs) == [h \in Hunk |-> IF theirs[h] = b[h] THEN ours[h] ELSE theirs[h]]

MergeBase(a, b) == LET common == Ancestors(a) \cap Ancestors(b)
                   IN CHOOSE c \in common : \A d \in common : d <= c

TypeOK ==
  /\ \A c \in 1..Len(commits) :
       /\ commits[c].tree \in Tree /\ commits[c].index \in Tree
       /\ commits[c].anc \subseteq 1..c /\ c \in commits[c].anc /\ commits[c].par \subseteq commits[c].anc
  /\ main \in 1..Len(commits)
  /\ branch \in [Proposal -> 0..Len(commits)]
  /\ row \in [Proposal -> [status : {"none", "draft", "open", "merged", "discarded"},
                           base : 0..Len(commits), head : 0..Len(commits), merged : 0..Len(commits)]]
  /\ job.step \in {"idle", "check", "row", "prune"}
  /\ crashes \in 0..MaxCrashes /\ refused \subseteq Proposal

Seed == [h \in Hunk |-> 0]

\* What the repository is seeded with is valid.
ConfigAssumption == Seed \in Strict /\ Strict \subseteq Tree

Init ==
  /\ commits = <<[tree |-> Seed, index |-> Seed, par |-> {}, rev |-> FALSE, anc |-> {1}]>>
  /\ main = 1 /\ branch = [p \in Proposal |-> NoCommit] /\ row = [p \in Proposal |-> NoRow]
  /\ job = NoJob /\ crashes = 0 /\ refused = {}

Await(op, step, p, was, made) == job' = [op |-> op, step |-> step, p |-> p, was |-> was, made |-> made]
CommitOnMain(t, i, ps) ==
  /\ commits' = Append(commits, NewCommit(t, i, ps))
  /\ main' = Next1
RevertOnMain(t, i) ==
  /\ commits' = Append(commits, [NewCommit(t, i, {main}) EXCEPT !.rev = TRUE])
  /\ main' = Next1

\* -------------------------------------------------------------- the writes

\* commitDirect(): validated over main as it is now, INDEX.md in the same commit.
CommitDirect ==
  /\ Idle /\ Room(1)
  /\ \E e \in Edits(TreeAt(main)) :
       LET t == Apply(TreeAt(main), e) IN t \in Strict /\ CommitOnMain(t, t, {main})
  /\ UNCHANGED <<branch, row, job, crashes, refused>>

\* propose(): a branch off main, or off an older commit of main, then the row.
Propose(p, status) ==
  /\ Idle /\ Room(1) /\ row[p] = NoRow /\ branch[p] = NoCommit
  /\ \E base \in Ancestors(main) : \E e \in Edits(TreeAt(base)) :
       /\ Apply(TreeAt(base), e) \in Loose
       /\ commits' = Append(commits, NewCommit(Apply(TreeAt(base), e), commits[base].index, {base}))
       /\ Await(status, "row", p, base, Next1)
  /\ branch' = [branch EXCEPT ![p] = Next1]
  /\ UNCHANGED <<main, row, crashes, refused>>

\* The branch the commit goes on: created from main when it does not exist (commitUnlocked).
Tip(p) == IF branch[p] = NoCommit THEN main ELSE branch[p]

\* amendProposal(): validated over the row's head, committed on the branch.
Amend(p) ==
  /\ Idle /\ Room(1) /\ row[p].status \in Live
  /\ \E e \in Edits(TreeAt(row[p].head)) :
       /\ Apply(TreeAt(row[p].head), e) \in Loose
       /\ commits' = Append(commits, NewCommit(Apply(TreeAt(Tip(p)), e), commits[Tip(p)].index, {Tip(p)}))
  /\ branch' = [branch EXCEPT ![p] = Next1]
  /\ Await("amend", "row", p, NoCommit, Next1)
  /\ UNCHANGED <<main, row, crashes, refused>>

Submit(p) ==
  /\ Idle /\ row[p].status = "draft"
  /\ row' = [row EXCEPT ![p].status = "open"]
  /\ UNCHANGED <<crashes, refused, commits, main, branch, job>>

\* Mutant: deleteBranch() fails when there is no such branch.
HasBranch(p) == row[p].status \in Live /\ branch[p] # NoCommit
MayDiscard(p) == row[p].status \in Live

\* discardProposal(): the branch goes first, then the row says so.
Discard(p) ==
  /\ Idle /\ MayDiscard(p)
  /\ branch' = [branch EXCEPT ![p] = NoCommit]
  /\ Await("discard", "row", p, NoCommit, NoCommit)
  /\ UNCHANGED <<crashes, refused, commits, main, row>>

\* mergeProposal(), the checks: the branch's tree, then its files over the present main.
HeadPasses(p) == TreeAt(branch[p]) \in Strict
ReplayPasses(p) ==
  main \in {row[p].base, branch[p]}
    \/ Replay(TreeAt(main), Changed(TreeAt(row[p].base), TreeAt(branch[p])), TreeAt(branch[p])) \in Strict

\* repo.merge(): nothing to do, a fast-forward, or a merge commit.
MergeGit(p) ==
  LET head == branch[p]  b == MergeBase(main, head)
  IN \/ /\ head \in Ancestors(main)
        /\ UNCHANGED <<commits, main>>
     \/ /\ head \notin Ancestors(main) /\ main \in Ancestors(head)
        /\ main' = head /\ UNCHANGED commits
     \/ /\ head \notin Ancestors(main) /\ main \notin Ancestors(head)
        /\ ~Clash(TreeAt(b), TreeAt(main), TreeAt(head))
        /\ CommitOnMain(ThreeWay(TreeAt(b), TreeAt(main), TreeAt(head)),
                        ThreeWay(commits[b].index, commits[main].index, commits[head].index),
                        {main, head})

Merge(p) ==
  /\ Idle /\ Room(2) /\ row[p].status = "open" /\ branch[p] # NoCommit
  /\ HeadPasses(p) /\ ReplayPasses(p)
  /\ MergeGit(p)
  /\ Await("merge", "check", p, main, NoCommit)
  /\ UNCHANGED <<branch, row, crashes, refused>>

\* repo.revert(): main with one file as another commit has it, or with a commit undone.
Revert ==
  /\ Idle /\ Room(2)
  /\ \E to \in 1..Len(commits) :
       \/ \E f \in {FileOf[h] : h \in Hunk} :
            RevertOnMain(Replay(TreeAt(main), {f}, TreeAt(to)), commits[main].index)
       \/ \E up \in commits[to].par :
            /\ commits[to].par = {up}
            /\ ~Clash(TreeAt(to), TreeAt(main), TreeAt(up))
            /\ ~Clash(commits[to].index, commits[main].index, commits[up].index)
            /\ RevertOnMain(ThreeWay(TreeAt(to), TreeAt(main), TreeAt(up)),
                            ThreeWay(commits[to].index, commits[main].index, commits[up].index))
  /\ Await("revert", "check", None, main, NoCommit)
  /\ UNCHANGED <<branch, row, crashes, refused>>

\* Mutant: the merged tree is not checked.
NeverBadly == FALSE

\* The merged tree is validated when it is not the branch's own.
MergedBadly == job.op = "merge" /\ main # branch[job.p] /\ TreeAt(main) \notin Strict

\* restoreTree(): a further commit with the tree of before, and the merge is refused.
RollBack ==
  /\ job.step = "check" /\ MergedBadly
  /\ CommitOnMain(TreeAt(job.was), commits[job.was].index, {main})
  /\ job' = NoJob /\ refused' = refused \cup {job.p}
  /\ UNCHANGED <<branch, row, crashes>>

IndexIsCurrent(c) == commits[c].index = TreeAt(c)

\* regenerateIndex(): one more commit when INDEX.md is stale.
Reindex ==
  /\ job.step = "check" /\ ~MergedBadly
  /\ IF IndexIsCurrent(main) THEN UNCHANGED <<commits, main>>
                             ELSE CommitOnMain(TreeAt(main), TreeAt(main), {main})
  /\ job' = IF job.op = "merge" THEN [job EXCEPT !.step = "row"] ELSE NoJob
  /\ UNCHANGED <<branch, row, crashes, refused>>

\* The INSERT or UPDATE of the proposal's row.
WriteRow ==
  /\ job.step = "row"
  /\ row' = [row EXCEPT ![job.p] =
       CASE job.op \in Live     -> [status |-> job.op, base |-> job.was, head |-> job.made, merged |-> NoCommit]
         [] job.op = "amend"    -> [@ EXCEPT !.head = job.made]
         [] job.op = "discard"  -> [@ EXCEPT !.status = "discarded"]
         [] job.op = "merge"  -> [@ EXCEPT !.status = "merged", !.merged = main]]
  /\ job' = IF job.op = "merge" THEN [job EXCEPT !.step = "prune"] ELSE NoJob
  /\ UNCHANGED <<crashes, refused, commits, main, branch>>

\* deleteBranch() of a merged proposal.
Prune ==
  /\ job.step = "prune"
  /\ branch' = [branch EXCEPT ![job.p] = NoCommit] /\ job' = NoJob
  /\ UNCHANGED <<crashes, refused, commits, main, row>>

Crash ==
  /\ crashes < MaxCrashes /\ crashes' = crashes + 1
  /\ job' = NoJob
  /\ UNCHANGED <<commits, main, branch, row, refused>>

Work == RollBack \/ Reindex \/ WriteRow \/ Prune

Next ==
  \/ CommitDirect \/ Revert \/ Work \/ Crash
  \/ \E p \in Proposal : Propose(p, "draft") \/ Propose(p, "open") \/ Amend(p) \/ Submit(p) \/ Discard(p) \/ Merge(p)

Spec == Init /\ [][Next]_vars
\* Every await of the write returns; whoever opened a proposal decides on it.
Fair == WF_vars(Work) /\ \A p \in Proposal : SF_vars(Discard(p))
LiveSpec == Spec /\ Fair

\* -------------------------------------------------------------- properties

\* Between two writes, in a process that did not crash.
Undisturbed == Idle /\ crashes = 0

\* The tree on main passes validation, whatever was merged into whatever (mergeProposal's three
\* checks: the head, its files over main, the merged tree), and INDEX.md lists what is in it (indexChange,
\* regenerateIndex).  A revert may break the first: revert() only logs what validation says.
MainSound ==
  Undisturbed =>
    /\ (\A c \in Ancestors(main) : ~commits[c].rev) => TreeAt(main) \in Strict
    /\ commits[main].index = TreeAt(main)

\* A merge undoes nothing that others changed on main: where the branch left a hunk as it was at its
\* base, main keeps its own, although changes are whole files; and no write drops a commit of main.
\* A merge that was rolled back leaves the branch's commits in main's history: git takes its next
\* merge for what was changed since, which may undo what others changed alike.
OthersKept ==
  [][/\ main \in commits'[main'].anc
     /\ \A p \in Proposal \ refused : Undisturbed /\ job'.op = "merge" /\ job'.p = p =>
          \A h \in Hunk : TreeAt(branch[p])[h] = TreeAt(row[p].base)[h] =>
             commits'[main'].tree[h] = TreeAt(main)[h]]_vars

\* Every proposal can be closed, whatever crashed in between (discardProposal).
Closable == \A p \in Proposal : row[p].status \in Live ~> row[p].status \in {"merged", "discarded"}
=============================================================================
