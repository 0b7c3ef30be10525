----------------------------- MODULE GitHistory -----------------------------
(* The git history behind a workspace branch, as far as git_service.py and  *)
(* file_service.py look at it. A tree gives each file a version. A branch   *)
(* is the sequence of the commits on top of the upstream commit it was      *)
(* created from, and a commit is named by the branch that ends in it: two   *)
(* commits with the same content and the same history are one, and its      *)
(* ancestors are its prefixes. Branches are linear: the service makes no    *)
(* merge commit (git_service.py:366).                                       *)
EXTENDS Integers, Sequences, SequencesExt, FiniteSets

CONSTANTS
  Files,          \* the paths of the workspace
  MaxVersion,     \* bound: contents written to files
  MaxCommits      \* bound: commits made by the user or on GitHub

ASSUME HistoryAssumption ==
  /\ Files # {}
  /\ MaxVersion \in Nat
  /\ MaxCommits \in Nat

\* A path that is missing is a version like any other. Version 0 is what the
\* upstream commit holds.
Versions == 0..MaxVersion

Trees == [Files -> Versions]

\* A commit's author and message (src: replaying it keeps them) and its tree.
Commits == [src : 1..MaxCommits, tree : Trees]

Branches == Seq(Commits)

UpstreamTree == [f \in Files |-> 0]

TreeOf(branch) == IF branch = <<>> THEN UpstreamTree ELSE branch[Len(branch)].tree

Srcs(branch) == { branch[i].src : i \in 1..Len(branch) }

\* Every version a file had somewhere on the branch.
VersionsOf(branch, f) == { branch[i].tree[f] : i \in 1..Len(branch) } \union {0}

\* The branch ends in the commit, or descends from it.
Reaches(branch, commit) == branch = commit \/ IsPrefix(commit, branch)

\* How many commits of branch are ancestors of a tip.
Shared(branch, tip) ==
  LET common == { n \in 0..Len(branch) : n <= Len(tip) /\ \A i \in 1..n : branch[i] = tip[i] }
  IN  CHOOSE n \in common : \A m \in common : m <= n

\* repo.ahead_behind(branch, tip)
Ahead(branch, tip) == Len(branch) - Shared(branch, tip)
Behind(branch, tip) == Len(tip) - Shared(branch, tip)

\* A remote-tracking reference: the tip it names and the tips in its reflog.
NoRef == [tip |-> <<>>, seen |-> {}]
Refs == [tip : Branches, seen : SUBSET Branches]

\* What a fetch or a push does to the reference.
Moved(ref, tip) == [tip |-> tip, seen |-> ref.seen \union {tip}]

\* The first commits of head that the fork branch has or had.
EverOnOrigin(head, ref) ==
  LET counts == { Shared(head, tip) : tip \in ref.seen \union {ref.tip} }
  IN  CHOOSE n \in counts : \A m \in counts : m <= n

\* _unpushed_commits: the local commits the fork branch never had ...
Unpushed(head, ref) == SubSeq(head, EverOnOrigin(head, ref) + 1, Len(head))

\* ... and whether head also holds commits it had but dropped.
Rewritten(head, ref) == Shared(head, ref.tip) < EverOnOrigin(head, ref)

\* Mutant: a file changed on both sides is taken as committed here.
OverridingConflictOn(f, base, ours, theirs) == FALSE

\* repo.merge_trees(base, ours, theirs), where two changes of one file conflict,
\* whichever hunks they touch.
ConflictOn(f, base, ours, theirs) ==
  theirs[f] # base[f] /\ ours[f] # base[f] /\ ours[f] # theirs[f]

MergeTrees(base, ours, theirs) ==
  [f \in Files |-> IF theirs[f] = base[f] THEN ours[f] ELSE theirs[f]]

Conflicts(base, ours, theirs) == { f \in Files : ConflictOn(f, base, ours, theirs) }

\* One commit is cherry-picked onto what has been replayed so far, unless that
\* ended in a conflict; base is the tree of its parent.
Pick(done, base, commit) ==
  LET tree == MergeTrees(base, TreeOf(done.tip), commit.tree)
      conflicts == Conflicts(base, TreeOf(done.tip), commit.tree)
  IN  IF done.conflicts # {} THEN done
      ELSE IF conflicts # {} THEN [done EXCEPT !.conflicts = conflicts]
      ELSE IF tree = TreeOf(done.tip) THEN done
      ELSE [done EXCEPT !.tip = Append(@, [src |-> commit.src, tree |-> tree])]

\* _replay: the commits of head after the first n, cherry-picked one by one
\* onto a tip. A commit that changes nothing there is skipped. The files of the
\* first conflict end it.
Replay(head, n, onto) ==
  LET replayed[i \in n..Len(head)] ==
        IF i = n THEN [tip |-> onto, conflicts |-> {}]
        ELSE Pick(replayed[i - 1], TreeOf(SubSeq(head, 1, i - 1)), head[i])
  IN  replayed[Len(head)]

-----------------------------------------------------------------------------
(* What histories have in common.                                           *)

\* Versions are numbered as they are made: along a branch a file only gets
\* higher ones.
Rising(branch) ==
  \A f \in Files : \A i, j \in 1..Len(branch) :
    i <= j => branch[i].tree[f] <= branch[j].tree[f]

\* A commit that both branches hold has the same history on both.
SamePlace(a, b) ==
  \A i \in 1..Len(a), j \in 1..Len(b) :
    a[i].src = b[j].src => i = j /\ \A k \in 1..i : a[k] = b[k]
=============================================================================
