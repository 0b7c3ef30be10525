--------------------------- MODULE GitSyncProofs ----------------------------
(* The clone and its branch on GitHub: the properties of GitSync, for any   *)
(* number of files, versions, commits and changes made by others. The       *)
(* operators on histories come first, with the replay, whose result is      *)
(* shown by induction over the commits; then the histories the clone and    *)
(* GitHub hold together; then each step, first for what it does to the      *)
(* data, then for what the operation in progress relies on.                 *)
EXTENDS GitSync, SequenceTheorems, WellFoundedInduction, TLAPS

-----------------------------------------------------------------------------
(* Induction.                                                               *)

\* A set that holds 0, and with each number the next one, holds every number: there
\* is no least number that it lacks.
LEMMA Induction ==
  ASSUME NEW S, 0 \in S, \A n \in Nat : n \in S => n + 1 \in S
  PROVE  \A n \in Nat : n \in S
<1> DEFINE T == Nat \ S
           R == OpToRel(<, Nat)
<1> SUFFICES ASSUME T # {} PROVE FALSE
  OBVIOUS
<1>1. IsWellFoundedOn(R, Nat)
  BY NatLessThanWellFounded
<1>2. \A x \in Nat, y \in Nat : <<x, y>> \in R <=> x < y
  BY DEF OpToRel
<1> HIDE DEF R
<1>3. T \subseteq Nat
  OBVIOUS
<1>4. PICK m \in T : \A y \in T : ~ (<<y, m>> \in R)
  BY <1>1, <1>3, WFMin
<1>5. m # 0 /\ m - 1 \in Nat
  OBVIOUS
<1>6. m - 1 \in T
  BY <1>5
<1>7. <<m - 1, m>> \in R
  BY <1>2, <1>3, <1>5
<1>8. QED
  BY <1>4, <1>6, <1>7

\* Numbers that are bounded have a greatest.
LEMMA Greatest ==
  ASSUME NEW C \in SUBSET Nat, C # {}, NEW bound \in Nat, \A c \in C : c <= bound
  PROVE  \E n \in C : \A m \in C : m <= n
<1> DEFINE S == { b \in Nat : \A D \in SUBSET C : D # {} /\ (\A d \in D : d <= b)
                                => \E n \in D : \A m \in D : m <= n }
<1>1. 0 \in S
  <2> SUFFICES ASSUME NEW D \in SUBSET C, D # {}, \A d \in D : d <= 0
               PROVE  \E n \in D : \A m \in D : m <= n
    OBVIOUS
  <2>1. PICK n \in D : TRUE
    OBVIOUS
  <2>2. \A m \in D : m <= n
    BY <2>1
  <2>3. QED
    BY <2>1, <2>2
<1>2. ASSUME NEW b \in Nat, b \in S PROVE b + 1 \in S
  <2> SUFFICES ASSUME NEW D \in SUBSET C, D # {}, \A d \in D : d <= b + 1
               PROVE  \E n \in D : \A m \in D : m <= n
    OBVIOUS
  <2>1. CASE b + 1 \in D
    BY <2>1
  <2>2. CASE b + 1 \notin D
    <3>1. \A d \in D : d <= b
      BY <2>2
    <3>2. QED
      BY <3>1, <1>2
  <2>3. QED
    BY <2>1, <2>2
<1> HIDE DEF S
<1>3. bound \in S
  BY <1>1, <1>2, Induction
<1>4. QED
  BY <1>3 DEF S

-----------------------------------------------------------------------------
(* Branches.                                                                *)

\* The parts of a commit, and what they are made of.
LEMMA TreeFacts ==
  /\ UpstreamTree \in Trees
  /\ \A c \in Commits : c.src \in 1..MaxCommits /\ c.tree \in Trees
  /\ \A src \in 1..MaxCommits, tree \in Trees : [src |-> src, tree |-> tree] \in Commits
  /\ \A tree \in Trees, f \in Files : tree[f] \in Versions /\ tree[f] \in Nat
  /\ 0 \in Versions
BY HistoryAssumption DEF UpstreamTree, Trees, Versions, Commits

\* The length, the commits and the tree of a branch.
LEMMA BranchFacts ==
  ASSUME NEW b \in Branches
  PROVE  /\ Len(b) \in Nat
         /\ \A i \in 1..Len(b) : b[i] \in Commits /\ b[i].tree \in Trees /\ b[i].src \in 1..MaxCommits
         /\ b = <<>> <=> Len(b) = 0
         /\ TreeOf(b) \in Trees
<1>1. Len(b) \in Nat /\ \A i \in 1..Len(b) : b[i] \in Commits
  BY LenProperties, ElementOfSeq DEF Branches
<1>2. b = <<>> <=> Len(b) = 0
  BY EmptySeq DEF Branches
<1>3. TreeOf(b) \in Trees
  BY <1>1, <1>2, TreeFacts DEF TreeOf
<1>4. QED
  BY <1>1, <1>2, <1>3, TreeFacts

\* Before the first commit.
LEMMA EmptyBranch == <<>> \in Branches /\ Len(<<>>) = 0
BY EmptySeq DEF Branches

\* The first n commits of a branch are a branch.
LEMMA PrefixFacts ==
  ASSUME NEW b \in Branches, NEW n \in 0..Len(b)
  PROVE  /\ SubSeq(b, 1, n) \in Branches
         /\ Len(SubSeq(b, 1, n)) = n
         /\ \A i \in 1..n : SubSeq(b, 1, n)[i] = b[i]
         /\ TreeOf(SubSeq(b, 1, n)) = IF n = 0 THEN UpstreamTree ELSE b[n].tree
<1> DEFINE p == SubSeq(b, 1, n)
<1>1. Len(b) \in Nat /\ \A i \in 1..Len(b) : b[i] \in Commits
  BY BranchFacts
<1>2. /\ p \in Seq(Commits) /\ Len(p) = IF 1 <= n THEN n - 1 + 1 ELSE 0
      /\ \A i \in 1..n - 1 + 1 : p[i] = b[1 + i - 1]
  <2>1. 1 \in Int /\ n \in Int /\ \A i \in 1..n : b[i] \in Commits
    BY <1>1
  <2>2. QED
    BY <2>1, SubSeqProperties
<1>3. p \in Branches /\ Len(p) = n /\ \A i \in 1..n : p[i] = b[i]
  BY <1>1, <1>2 DEF Branches
<1>4. p = <<>> <=> n = 0
  BY <1>3, BranchFacts
<1> HIDE DEF p
<1>5. TreeOf(p) = IF n = 0 THEN UpstreamTree ELSE b[n].tree
  BY <1>1, <1>3, <1>4 DEF TreeOf
<1>6. QED
  BY <1>3, <1>5 DEF p

\* Prefixes, of the community modules, for branches.
LEMMA PrefixesFacts ==
  ASSUME NEW b \in Branches
  PROVE  /\ b \in Prefixes(b) /\ <<>> \in Prefixes(b)
         /\ \A p \in Prefixes(b) : /\ p \in Branches /\ Len(p) <= Len(b)
                                   /\ \A i \in 1..Len(p) : p[i] = b[i]
         /\ \A n \in 0..Len(b) : SubSeq(b, 1, n) \in Prefixes(b)
<1>1. Len(b) \in Nat
  BY BranchFacts
<1>2. SubSeq(b, 1, Len(b)) = b
  BY SubSeqFull DEF Branches
<1>3. SubSeq(b, 1, 0) = <<>>
  BY SubSeqEmpty
<1>4. \A p \in Prefixes(b) : \E n \in 0..Len(b) : p = SubSeq(b, 1, n)
  BY DEF Prefixes
<1>5. \A n \in 0..Len(b) : SubSeq(b, 1, n) \in Prefixes(b)
  BY DEF Prefixes
<1>6. ASSUME NEW p \in Prefixes(b)
      PROVE  p \in Branches /\ Len(p) <= Len(b) /\ \A i \in 1..Len(p) : p[i] = b[i]
  <2>1. PICK n \in 0..Len(b) : p = SubSeq(b, 1, n)
    BY <1>4
  <2>2. p \in Branches /\ Len(p) = n /\ \A i \in 1..n : p[i] = b[i]
    BY <2>1, PrefixFacts
  <2>3. QED
    BY <1>1, <2>2
<1>7. b \in Prefixes(b)
  <2>1. Len(b) \in 0..Len(b)
    BY <1>1
  <2>2. QED
    BY <1>2, <1>5, <2>1, Zenon
<1>8. <<>> \in Prefixes(b)
  <2>1. 0 \in 0..Len(b)
    BY <1>1
  <2>2. QED
    BY <1>3, <1>5, <2>1, Zenon
<1>9. QED
  BY <1>5, <1>6, <1>7, <1>8

\* A branch with one more commit.
LEMMA AppendFacts ==
  ASSUME NEW b \in Branches, NEW c \in Commits
  PROVE  /\ Append(b, c) \in Branches
         /\ Len(Append(b, c)) = Len(b) + 1
         /\ \A i \in 1..Len(b) : Append(b, c)[i] = b[i]
         /\ Append(b, c)[Len(b) + 1] = c
         /\ TreeOf(Append(b, c)) = c.tree
         /\ Append(b, c) # <<>>
<1>1. /\ Append(b, c) \in Seq(Commits)
      /\ Len(Append(b, c)) = Len(b) + 1
      /\ \A i \in 1..Len(b) : Append(b, c)[i] = b[i]
      /\ Append(b, c)[Len(b) + 1] = c
      /\ Append(b, c) # <<>>
  BY AppendProperties DEF Branches
<1>2. TreeOf(Append(b, c)) = c.tree
  BY <1>1 DEF TreeOf
<1>3. QED
  BY <1>1, <1>2 DEF Branches

\* A branch contains a commit when it agrees with the history of the commit.
LEMMA ReachesFacts ==
  ASSUME NEW a \in Branches, NEW b \in Branches
  PROVE  Reaches(b, a) <=> Len(a) <= Len(b) /\ \A i \in 1..Len(a) : a[i] = b[i]
<1>1. Len(a) \in Nat /\ Len(b) \in Nat
  BY BranchFacts
<1>2. SubSeq(a, 1, Len(a)) = a
  BY SubSeqFull DEF Branches
<1>3. ASSUME Len(a) <= Len(b), \A i \in 1..Len(a) : a[i] = b[i]
      PROVE  SubSeq(b, 1, Len(a)) = a
  <2>1. Len(a) \in 0..Len(b)
    BY <1>1, <1>3
  <2>2. /\ SubSeq(b, 1, Len(a)) \in Branches /\ Len(SubSeq(b, 1, Len(a))) = Len(a)
        /\ \A i \in 1..Len(a) : SubSeq(b, 1, Len(a))[i] = b[i]
    BY <2>1, PrefixFacts
  <2>3. QED
    BY <1>3, <2>2, SeqEqual DEF Branches
<1>4. ASSUME Len(a) <= Len(b), SubSeq(b, 1, Len(a)) = a
      PROVE  \A i \in 1..Len(a) : a[i] = b[i]
  <2>1. Len(a) \in 0..Len(b)
    BY <1>1, <1>4
  <2>2. QED
    BY <1>4, <2>1, PrefixFacts
<1>5. QED
  BY <1>1, <1>2, <1>3, <1>4 DEF Reaches, IsPrefix

-----------------------------------------------------------------------------
(* What branches have in common.                                            *)

\* Shared counts the commits up to the first that differs.
LEMMA SharedFacts ==
  ASSUME NEW b \in Branches, NEW t \in Branches
  PROVE  /\ Shared(b, t) \in 0..Len(b) /\ Shared(b, t) <= Len(t)
         /\ \A i \in 1..Shared(b, t) : b[i] = t[i]
         /\ \A n \in 0..Len(b) : n <= Len(t) /\ (\A i \in 1..n : b[i] = t[i]) => n <= Shared(b, t)
<1> DEFINE common == { n \in 0..Len(b) : n <= Len(t) /\ \A i \in 1..n : b[i] = t[i] }
<1>1. Len(b) \in Nat /\ Len(t) \in Nat
  BY BranchFacts
<1>2. 0 \in common /\ common \in SUBSET Nat /\ \A c \in common : c <= Len(b)
  BY <1>1
<1>3. \E n \in common : \A m \in common : m <= n
  BY <1>1, <1>2, Greatest
<1>4. Shared(b, t) = CHOOSE n \in common : \A m \in common : m <= n
  BY DEF Shared
<1>5. Shared(b, t) \in common /\ \A m \in common : m <= Shared(b, t)
  BY <1>3, <1>4
<1>6. QED
  BY <1>5

\* EverOnOrigin is the largest such count over the reflog.
LEMMA EverFacts ==
  ASSUME NEW b \in Branches, NEW ref \in Refs
  PROVE  /\ EverOnOrigin(b, ref) \in 0..Len(b)
         /\ \E t \in ref.seen \union {ref.tip} : EverOnOrigin(b, ref) = Shared(b, t)
         /\ \A t \in ref.seen \union {ref.tip} : Shared(b, t) <= EverOnOrigin(b, ref)
<1> DEFINE counted == { Shared(b, t) : t \in ref.seen \union {ref.tip} }
<1>1. ref.tip \in Branches /\ ref.seen \subseteq Branches /\ Len(b) \in Nat
  BY BranchFacts DEF Refs
<1>2. counted \in SUBSET Nat /\ counted # {} /\ \A c \in counted : c <= Len(b)
  BY <1>1, SharedFacts
<1>3. \E n \in counted : \A m \in counted : m <= n
  BY <1>1, <1>2, Greatest
<1>4. EverOnOrigin(b, ref) = CHOOSE n \in counted : \A m \in counted : m <= n
  BY DEF EverOnOrigin
<1>5. EverOnOrigin(b, ref) \in counted /\ \A m \in counted : m <= EverOnOrigin(b, ref)
  BY <1>3, <1>4
<1>6. QED
  BY <1>1, <1>5, SharedFacts

\* A branch that GitHub has, or had, has no commit that was not pushed.
LEMMA UnpushedFacts ==
  ASSUME NEW b \in Branches, NEW ref \in Refs
  PROVE  Unpushed(b, ref) = <<>> <=> \E t \in ref.seen \union {ref.tip} : Reaches(t, b)
<1> DEFINE n == EverOnOrigin(b, ref)
<1>1. ref.tip \in Branches /\ ref.seen \subseteq Branches /\ Len(b) \in Nat
  BY BranchFacts DEF Refs
<1>2. n \in 0..Len(b)
  BY EverFacts
<1>3. Unpushed(b, ref) = <<>> <=> n = Len(b)
  <2>1. /\ Len(SubSeq(b, n + 1, Len(b))) = IF n + 1 <= Len(b) THEN Len(b) - (n + 1) + 1 ELSE 0
        /\ SubSeq(b, n + 1, Len(b)) \in Seq(Commits)
    <3>1. n + 1 \in Int /\ Len(b) \in Int /\ \A i \in n + 1..Len(b) : b[i] \in Commits
      BY <1>1, <1>2, BranchFacts
    <3>2. QED
      BY <3>1, SubSeqProperties
  <2>2. SubSeq(b, n + 1, Len(b)) = <<>> <=> Len(SubSeq(b, n + 1, Len(b))) = 0
    BY <2>1, EmptySeq
  <2>3. QED
    BY <1>1, <1>2, <2>1, <2>2 DEF Unpushed
<1>4. \A t \in ref.seen \union {ref.tip} : Reaches(t, b) <=> Shared(b, t) = Len(b)
  BY <1>1, SharedFacts, ReachesFacts
<1>5. n = Len(b) <=> \E t \in ref.seen \union {ref.tip} : Shared(b, t) = Len(b)
  <2>1. (\E t \in ref.seen \union {ref.tip} : n = Shared(b, t))
        /\ \A t \in ref.seen \union {ref.tip} : Shared(b, t) <= n /\ Shared(b, t) \in Nat
    BY <1>1, EverFacts, SharedFacts
  <2>2. QED
    BY <1>1, <1>2, <2>1
<1>6. QED
  BY <1>3, <1>4, <1>5

-----------------------------------------------------------------------------
(* Replaying commits.                                                       *)

Results == [tip : Branches, conflicts : SUBSET Files]

\* A replay holds what its start and its steps hold.
LEMMA ReplayInduction ==
  ASSUME NEW h \in Branches, NEW n \in 0..Len(h), NEW onto, NEW Good,
         <<n, [tip |-> onto, conflicts |-> {}]>> \in Good,
         ASSUME NEW i \in n + 1..Len(h), NEW done, <<i - 1, done>> \in Good
         PROVE  <<i, Pick(done, TreeOf(SubSeq(h, 1, i - 1)), h[i])>> \in Good
  PROVE  <<Len(h), Replay(h, n, onto)>> \in Good
<1> DEFINE start == [tip |-> onto, conflicts |-> {}]
           Next1(done, i) == Pick(done, TreeOf(SubSeq(h, 1, i - 1)), h[i])
           Defines(g, m) == g = [i \in n..m |-> IF i = n THEN start ELSE Next1(g[i - 1], i)]
           S == { k \in Nat : \E g : Defines(g, n + k) }
           replayed == CHOOSE g : g = [i \in n..Len(h) |->
                         IF i = n THEN start ELSE Next1(g[i - 1], i)]
<1> HIDE DEF start, Next1
<1>0. Len(h) \in Nat /\ n \in Nat /\ n <= Len(h)
  BY BranchFacts
<1>1. 0 \in S
  <2> DEFINE g == [i \in n..n |-> start]
  <2>1. g = [i \in n..n |-> IF i = n THEN start ELSE Next1(g[i - 1], i)]
    BY <1>0
  <2> HIDE DEF g
  <2>2. Defines(g, n + 0)
    BY <1>0, <2>1
  <2>3. QED
    BY <2>2
<1>2. ASSUME NEW k \in Nat, k \in S PROVE k + 1 \in S
  <2>1. PICK g : Defines(g, n + k)
    BY <1>2
  <2> DEFINE e == [i \in n..n + (k + 1) |->
                     IF i = n + (k + 1) THEN Next1(g[n + k], n + (k + 1)) ELSE g[i]]
  <2>2. \A i \in n..n + k : g[i] = IF i = n THEN start ELSE Next1(g[i - 1], i)
    BY <2>1
  <2>3. ASSUME NEW i \in n..n + (k + 1)
        PROVE  e[i] = IF i = n THEN start ELSE Next1(e[i - 1], i)
    <3>1. CASE i = n
      BY <3>1, <2>2, <1>0
    <3>2. CASE i # n /\ i # n + (k + 1)
      <4>1. i \in n..n + k /\ i - 1 \in n..n + k /\ i - 1 # n + (k + 1)
        BY <3>2, <1>0
      <4>2. e[i] = g[i] /\ e[i - 1] = g[i - 1]
        BY <3>2, <4>1, <1>0
      <4>3. QED
        BY <3>2, <4>1, <4>2, <2>2
    <3>3. CASE i = n + (k + 1)
      <4>1. i - 1 = n + k /\ i - 1 \in n..n + (k + 1) /\ i - 1 # n + (k + 1) /\ i # n
        BY <3>3, <1>0
      <4>2. e[i] = Next1(g[n + k], i) /\ e[i - 1] = g[n + k]
        BY <3>3, <4>1
      <4>3. QED
        BY <4>1, <4>2
    <3>4. QED
      BY <3>1, <3>2, <3>3
  <2>4. e = [i \in n..n + (k + 1) |-> e[i]]
    OBVIOUS
  <2> HIDE DEF e
  <2>5. Defines(e, n + (k + 1))
    BY <2>3, <2>4
  <2>6. QED
    BY <2>5
<1>3. \E g : Defines(g, Len(h))
  <2> HIDE DEF S
  <2>1. Len(h) - n \in Nat /\ n + (Len(h) - n) = Len(h)
    BY <1>0
  <2>2. Len(h) - n \in S
    BY <1>1, <1>2, <2>1, Induction
  <2>3. QED
    BY <2>1, <2>2 DEF S
<1>4. replayed = [i \in n..Len(h) |-> IF i = n THEN start ELSE Next1(replayed[i - 1], i)]
  BY <1>3, Zenon
<1>5. Replay(h, n, onto) = replayed[Len(h)]
  BY DEF Replay, start, Next1
<1> HIDE DEF replayed
<1>6. replayed[n] = start
  BY <1>0, <1>4
<1>7. ASSUME NEW i \in n + 1..Len(h)
      PROVE  replayed[i] = Next1(replayed[i - 1], i)
  <2>1. i \in n..Len(h) /\ i # n
    BY <1>0
  <2>2. QED
    BY <1>4, <2>1
<1> DEFINE T == { k \in Nat : n + k <= Len(h) => <<n + k, replayed[n + k]>> \in Good }
<1>8. 0 \in T
  <2>1. n + 0 = n
    BY <1>0
  <2>2. <<n, start>> \in Good
    BY DEF start
  <2>3. QED
    BY <1>6, <2>1, <2>2
<1>9. ASSUME NEW k \in Nat, k \in T PROVE k + 1 \in T
  <2> SUFFICES ASSUME n + (k + 1) <= Len(h)
               PROVE  <<n + (k + 1), replayed[n + (k + 1)]>> \in Good
    OBVIOUS
  <2> DEFINE i == n + (k + 1)
  <2>1. i \in n + 1..Len(h) /\ i - 1 = n + k /\ n + k <= Len(h)
    BY <1>0
  <2> HIDE DEF i
  <2>2. <<i - 1, replayed[i - 1]>> \in Good
    BY <1>9, <2>1
  <2>3. <<i, Next1(replayed[i - 1], i)>> \in Good
    BY <2>1, <2>2 DEF Next1
  <2>4. <<i, replayed[i]>> \in Good
    BY <1>7, <2>1, <2>3
  <2>5. QED
    BY <2>4 DEF i
<1>10. Len(h) - n \in T
  <2> HIDE DEF T
  <2>1. QED
    BY <1>0, <1>8, <1>9, Induction
<1>11. QED
  <2>1. n + (Len(h) - n) = Len(h)
    BY <1>0
  <2>2. <<Len(h), replayed[Len(h)]>> \in Good
    BY <1>0, <1>10, <2>1
  <2>3. QED
    BY <1>5, <2>2

\* A merge, file by file.
LEMMA MergeFacts ==
  ASSUME NEW base \in Trees, NEW ours \in Trees, NEW theirs \in Trees
  PROVE  /\ MergeTrees(base, ours, theirs) \in Trees
         /\ Conflicts(base, ours, theirs) \in SUBSET Files
         /\ \A f \in Files : MergeTrees(base, ours, theirs)[f] =
                               IF theirs[f] = base[f] THEN ours[f] ELSE theirs[f]
         /\ Conflicts(base, ours, theirs) = {} =>
              \A f \in Files : theirs[f] = base[f] \/ ours[f] = base[f] \/ ours[f] = theirs[f]
BY DEF MergeTrees, Conflicts, ConflictOn, Trees

\* What one cherry-pick makes of what was replayed.
LEMMA PickFacts ==
  ASSUME NEW done \in Results, NEW base \in Trees, NEW c \in Commits
  PROVE  LET next == Pick(done, base, c)
             tree == MergeTrees(base, TreeOf(done.tip), c.tree)
         IN /\ next \in Results
            /\ next.conflicts = {} =>
                 /\ done.conflicts = {} /\ Conflicts(base, TreeOf(done.tip), c.tree) = {}
                 /\ TreeOf(next.tip) = tree
                 /\ next.tip = done.tip \/ next.tip = Append(done.tip, [src |-> c.src, tree |-> tree])
<1> DEFINE tree == MergeTrees(base, TreeOf(done.tip), c.tree)
           new == [src |-> c.src, tree |-> tree]
           conflicts == Conflicts(base, TreeOf(done.tip), c.tree)
<1>1. TreeOf(done.tip) \in Trees /\ c.tree \in Trees /\ c.src \in 1..MaxCommits /\ done.tip \in Branches
  BY BranchFacts, TreeFacts DEF Results
<1>2. tree \in Trees /\ conflicts \in SUBSET Files
  BY <1>1, MergeFacts
<1>3. new \in Commits
  BY <1>1, <1>2, TreeFacts
<1>4. Append(done.tip, new) \in Branches /\ TreeOf(Append(done.tip, new)) = new.tree
  BY <1>1, <1>3, AppendFacts
<1>5. Pick(done, base, c) = IF done.conflicts # {} THEN done
                            ELSE IF conflicts # {} THEN [done EXCEPT !.conflicts = conflicts]
                            ELSE IF tree = TreeOf(done.tip) THEN done
                            ELSE [done EXCEPT !.tip = Append(@, new)]
  BY DEF Pick
<1> HIDE DEF tree, new, conflicts
<1>6. CASE done.conflicts # {}
  BY <1>5, <1>6
<1>7. CASE done.conflicts = {} /\ conflicts # {}
  <2>1. Pick(done, base, c) = [done EXCEPT !.conflicts = conflicts]
    BY <1>5, <1>7
  <2>2. QED
    BY <1>2, <1>7, <2>1 DEF Results
<1>8. CASE done.conflicts = {} /\ conflicts = {} /\ tree = TreeOf(done.tip)
  BY <1>5, <1>8 DEF conflicts, tree
<1>9. CASE done.conflicts = {} /\ conflicts = {} /\ tree # TreeOf(done.tip)
  <2>1. Pick(done, base, c) = [done EXCEPT !.tip = Append(done.tip, new)]
    BY <1>5, <1>9
  <2>2. /\ Pick(done, base, c) \in Results
        /\ Pick(done, base, c).tip = Append(done.tip, new)
    BY <1>4, <1>9, <2>1 DEF Results
  <2>3. new.tree = tree
    BY DEF new
  <2>4. QED
    BY <1>4, <1>9, <2>2, <2>3 DEF conflicts, tree, new
<1>10. QED
  BY <1>6, <1>7, <1>8, <1>9

\* What is replayed has the tree that comes with the commit: a file is as on the
\* branch so far, or as the replayed commits leave it.
SameFiles(tip, h, n, i) ==
  \A f \in Files :
    \/ TreeOf(tip)[f] = TreeOf(SubSeq(h, 1, i))[f]
    \/ TreeOf(SubSeq(h, 1, i))[f] = TreeOf(SubSeq(h, 1, n))[f]

\* The branch goes on as it was, with commits of h after the first n.
GoesOnFrom(onto, tip, h, n, i) ==
  /\ Len(onto) <= Len(tip)
  /\ \A k \in 1..Len(onto) : tip[k] = onto[k]
  /\ \A k \in Len(onto) + 1..Len(tip) : \E m \in n + 1..i : tip[k].src = h[m].src

\* None of them is there twice.
OnceEach(onto, tip) ==
  \A j, k \in Len(onto) + 1..Len(tip) : tip[j].src = tip[k].src => j = k

FromEither(tip, onto, h) ==
  \A f \in Files : VersionsOf(tip, f) \subseteq VersionsOf(onto, f) \union VersionsOf(h, f)

Replayed(tip, h, n, onto, i) ==
  /\ SameFiles(tip, h, n, i) /\ GoesOnFrom(onto, tip, h, n, i)
  /\ OnceEach(onto, tip) /\ Rising(tip) /\ FromEither(tip, onto, h)

\* A replayed commit that joins a branch of rising versions.
LEMMA AppendRising ==
  ASSUME NEW b \in Branches, NEW c \in Commits, Rising(b),
         \A f \in Files : TreeOf(b)[f] <= c.tree[f]
  PROVE  Rising(Append(b, c))
<1> DEFINE a == Append(b, c)
<1>1. /\ Len(b) \in Nat /\ Len(a) = Len(b) + 1
      /\ \A i \in 1..Len(b) : a[i] = b[i] /\ b[i].tree \in Trees
      /\ a[Len(b) + 1] = c /\ c.tree \in Trees
      /\ b = <<>> <=> Len(b) = 0
  BY AppendFacts, BranchFacts, TreeFacts
<1> HIDE DEF a
<1>2. ASSUME NEW f \in Files, NEW i \in 1..Len(a), NEW j \in 1..Len(a), i <= j
      PROVE  a[i].tree[f] <= a[j].tree[f]
  <2>1. CASE j <= Len(b)
    <3>1. i \in 1..Len(b) /\ j \in 1..Len(b)
      BY <1>1, <1>2, <2>1
    <3>2. QED
      BY <1>1, <1>2, <3>1 DEF Rising
  <2>2. CASE j = Len(b) + 1 /\ i <= Len(b)
    <3>1. i \in 1..Len(b) /\ Len(b) \in 1..Len(b)
      BY <1>1, <2>2
    <3>2. b[i].tree[f] <= b[Len(b)].tree[f]
      BY <3>1 DEF Rising
    <3>3. TreeOf(b) = b[Len(b)].tree
      BY <1>1, <3>1 DEF TreeOf
    <3>4. b[i].tree[f] \in Nat /\ b[Len(b)].tree[f] \in Nat /\ c.tree[f] \in Nat
      BY <1>1, <3>1, TreeFacts
    <3>5. b[Len(b)].tree[f] <= c.tree[f]
      BY <3>3
    <3>6. a[i] = b[i] /\ a[j] = c
      BY <1>1, <2>2, <3>1
    <3>7. QED
      BY <3>2, <3>4, <3>5, <3>6
  <2>3. CASE j = Len(b) + 1 /\ i = Len(b) + 1
    <3>1. c.tree[f] \in Nat
      BY <1>1, TreeFacts
    <3>2. QED
      BY <1>1, <2>3, <3>1
  <2>4. QED
    BY <1>1, <2>1, <2>2, <2>3
<1>3. QED
  BY <1>2 DEF Rising, a

\* The versions on a branch, on a longer one, and on its prefixes.
LEMMA VersionsFacts ==
  ASSUME NEW b \in Branches
  PROVE  /\ \A f \in Files : VersionsOf(b, f) \subseteq Versions /\ TreeOf(b)[f] \in VersionsOf(b, f)
         /\ \A c \in Commits, f \in Files :
              VersionsOf(Append(b, c), f) = VersionsOf(b, f) \union {c.tree[f]}
         /\ \A p \in Branches, f \in Files :
              (Len(p) <= Len(b) /\ \A i \in 1..Len(p) : p[i] = b[i])
                => VersionsOf(p, f) \subseteq VersionsOf(b, f)
<1>1. /\ Len(b) \in Nat /\ b = <<>> <=> Len(b) = 0
      /\ \A i \in 1..Len(b) : b[i].tree \in Trees
  BY BranchFacts
<1>2. ASSUME NEW f \in Files
      PROVE  VersionsOf(b, f) \subseteq Versions /\ TreeOf(b)[f] \in VersionsOf(b, f)
  <2>1. VersionsOf(b, f) \subseteq Versions
    BY <1>1, TreeFacts DEF VersionsOf
  <2>2. CASE b = <<>>
    BY <2>1, <2>2 DEF TreeOf, UpstreamTree, VersionsOf
  <2>3. CASE b # <<>>
    <3>1. Len(b) \in 1..Len(b)
      BY <1>1, <2>3
    <3>2. TreeOf(b)[f] = b[Len(b)].tree[f]
      BY <2>3 DEF TreeOf
    <3>3. b[Len(b)].tree[f] \in VersionsOf(b, f)
      BY <3>1 DEF VersionsOf
    <3>4. QED
      BY <2>1, <3>2, <3>3
  <2>4. QED
    BY <2>1, <2>2, <2>3
<1>3. ASSUME NEW c \in Commits, NEW f \in Files
      PROVE  VersionsOf(Append(b, c), f) = VersionsOf(b, f) \union {c.tree[f]}
  <2> DEFINE a == Append(b, c)
  <2>1. Len(a) = Len(b) + 1 /\ (\A i \in 1..Len(b) : a[i] = b[i]) /\ a[Len(b) + 1] = c
    BY AppendFacts
  <2> HIDE DEF a
  <2>2. \A i \in 1..Len(a) : a[i].tree[f] \in VersionsOf(b, f) \union {c.tree[f]}
    <3> SUFFICES ASSUME NEW i \in 1..Len(a), i # Len(b) + 1 PROVE a[i].tree[f] \in VersionsOf(b, f)
      BY <2>1
    <3>1. i \in 1..Len(b)
      BY <1>1, <2>1
    <3>2. QED
      BY <2>1, <3>1 DEF VersionsOf
  <2>3. \A i \in 1..Len(b) : b[i].tree[f] \in VersionsOf(a, f)
    <3> TAKE i \in 1..Len(b)
    <3>1. i \in 1..Len(a) /\ a[i] = b[i]
      BY <1>1, <2>1
    <3>2. QED
      BY <3>1 DEF VersionsOf
  <2>4. c.tree[f] \in VersionsOf(a, f)
    <3>1. Len(b) + 1 \in 1..Len(a)
      BY <1>1, <2>1
    <3>2. QED
      BY <2>1, <3>1 DEF VersionsOf
  <2>5. 0 \in VersionsOf(a, f) /\ 0 \in VersionsOf(b, f)
    BY DEF VersionsOf
  <2>6. VersionsOf(a, f) \subseteq VersionsOf(b, f) \union {c.tree[f]}
    BY <2>2, <2>5 DEF VersionsOf
  <2>7. VersionsOf(b, f) \subseteq VersionsOf(a, f)
    BY <2>3, <2>5 DEF VersionsOf
  <2>8. QED
    BY <2>4, <2>6, <2>7 DEF a
<1>4. ASSUME NEW p \in Branches, NEW f \in Files, Len(p) <= Len(b), \A i \in 1..Len(p) : p[i] = b[i]
      PROVE  VersionsOf(p, f) \subseteq VersionsOf(b, f)
  <2>1. Len(p) \in Nat
    BY BranchFacts
  <2>2. \A i \in 1..Len(p) : i \in 1..Len(b) /\ p[i] = b[i]
    BY <1>1, <1>4, <2>1
  <2>3. QED
    BY <2>2 DEF VersionsOf
<1>5. QED
  BY <1>2, <1>3, <1>4

\* One more commit is replayed: each part of Replayed in turn.
LEMMA ReplayStep ==
  ASSUME NEW h \in Branches, NEW n \in 0..Len(h), NEW onto \in Branches,
         Rising(h), SamePlace(h, h), NEW i \in n + 1..Len(h),
         NEW done \in Results, done.conflicts = {} => Replayed(done.tip, h, n, onto, i - 1),
         Pick(done, TreeOf(SubSeq(h, 1, i - 1)), h[i]).conflicts = {}
  PROVE  Replayed(Pick(done, TreeOf(SubSeq(h, 1, i - 1)), h[i]).tip, h, n, onto, i)
<1> DEFINE base == TreeOf(SubSeq(h, 1, i - 1))
           ours == TreeOf(done.tip)
           tree == MergeTrees(base, ours, h[i].tree)
           new == [src |-> h[i].src, tree |-> tree]
           tip == Pick(done, base, h[i]).tip
<1>1. /\ Len(h) \in Nat /\ n \in Nat /\ n <= i - 1 /\ i - 1 \in 0..Len(h) /\ i \in 0..Len(h)
      /\ i \in 1..Len(h) /\ i \in Nat /\ i # 0
  BY BranchFacts
<1>2. h[i] \in Commits /\ h[i].tree \in Trees /\ h[i].src \in 1..MaxCommits
  BY <1>1, BranchFacts
<1>3. base \in Trees /\ base = IF i - 1 = 0 THEN UpstreamTree ELSE h[i - 1].tree
  <2>1. SubSeq(h, 1, i - 1) \in Branches
    BY <1>1, PrefixFacts
  <2>2. base \in Trees
    BY <2>1, BranchFacts
  <2>3. QED
    BY <1>1, <2>2, PrefixFacts
<1>4. TreeOf(SubSeq(h, 1, i)) = h[i].tree
  BY <1>1, PrefixFacts
<1>5. done.tip \in Branches /\ ours \in Trees /\ Len(done.tip) \in Nat /\ Len(onto) \in Nat
  BY BranchFacts DEF Results
<1>6. \A f \in Files : base[f] <= h[i].tree[f]
  <2> TAKE f \in Files
  <2>1. base[f] \in Nat /\ h[i].tree[f] \in Nat
    BY <1>2, <1>3, TreeFacts
  <2>2. CASE i - 1 = 0
    BY <1>3, <2>1, <2>2 DEF UpstreamTree
  <2>3. CASE i - 1 # 0
    <3>1. i - 1 \in 1..Len(h) /\ i - 1 <= i
      BY <1>1, <2>3
    <3>2. QED
      BY <1>1, <1>3, <2>3, <3>1 DEF Rising
  <2>4. QED
    BY <2>2, <2>3
<1> HIDE DEF base
<1>7. /\ done.conflicts = {} /\ Conflicts(base, ours, h[i].tree) = {}
      /\ TreeOf(tip) = tree
      /\ tip = done.tip \/ tip = Append(done.tip, new)
  <2>1. Pick(done, base, h[i]).conflicts = {}
    BY DEF base
  <2>2. ASSUME NEW c \in Commits, Pick(done, base, c).conflicts = {}, NEW merged,
               merged = MergeTrees(base, ours, c.tree)
        PROVE  /\ done.conflicts = {} /\ Conflicts(base, ours, c.tree) = {}
               /\ TreeOf(Pick(done, base, c).tip) = merged
               /\ \/ Pick(done, base, c).tip = done.tip
                  \/ Pick(done, base, c).tip = Append(done.tip, [src |-> c.src, tree |-> merged])
    BY <1>3, <2>2, PickFacts, Zenon DEF ours
  <2> HIDE DEF ours
  <2>3. QED
    BY <1>2, <2>1, <2>2, Zenon DEF tree, new, tip
<1>8. Replayed(done.tip, h, n, onto, i - 1)
  BY <1>7
<1>9. /\ tree \in Trees
      /\ \A f \in Files : tree[f] = IF h[i].tree[f] = base[f] THEN ours[f] ELSE h[i].tree[f]
      /\ \A f \in Files : h[i].tree[f] = base[f] \/ ours[f] = base[f] \/ ours[f] = h[i].tree[f]
  BY <1>2, <1>3, <1>5, <1>7, MergeFacts
<1>10. new \in Commits /\ new.src = h[i].src /\ new.tree = tree
  BY <1>2, <1>9, TreeFacts
<1> HIDE DEF ours, tree, new, tip
<1>11. \A f \in Files : ours[f] <= tree[f]
  <2> TAKE f \in Files
  <2>1. ours[f] \in Nat /\ base[f] \in Nat /\ h[i].tree[f] \in Nat
    BY <1>2, <1>3, <1>5, TreeFacts
  <2>2. QED
    BY <1>6, <1>9, <2>1
<1>12. SameFiles(tip, h, n, i)
  <2> SUFFICES ASSUME NEW f \in Files
               PROVE  tree[f] = h[i].tree[f] \/ h[i].tree[f] = TreeOf(SubSeq(h, 1, n))[f]
    BY <1>4, <1>7 DEF SameFiles
  <2>1. ours[f] = base[f] \/ base[f] = TreeOf(SubSeq(h, 1, n))[f]
    BY <1>8 DEF Replayed, SameFiles, ours, base
  <2>2. QED
    BY <1>9, <2>1
<1>13. GoesOnFrom(onto, tip, h, n, i)
  <2>1. /\ Len(onto) <= Len(done.tip)
        /\ \A k \in 1..Len(onto) : done.tip[k] = onto[k]
        /\ \A k \in Len(onto) + 1..Len(done.tip) : \E m \in n + 1..i - 1 : done.tip[k].src = h[m].src
    BY <1>8 DEF Replayed, GoesOnFrom
  <2>2. \A k \in Len(onto) + 1..Len(done.tip) : \E m \in n + 1..i : done.tip[k].src = h[m].src
    BY <1>1, <2>1
  <2>3. CASE tip = done.tip
    BY <2>1, <2>2, <2>3 DEF GoesOnFrom
  <2>4. CASE tip = Append(done.tip, new)
    <3>1. /\ Len(tip) = Len(done.tip) + 1 /\ (\A k \in 1..Len(done.tip) : tip[k] = done.tip[k])
          /\ tip[Len(done.tip) + 1] = new
      BY <1>5, <1>10, <2>4, AppendFacts
    <3>2. Len(onto) <= Len(tip) /\ \A k \in 1..Len(onto) : tip[k] = onto[k]
      BY <1>5, <2>1, <3>1
    <3>3. ASSUME NEW k \in Len(onto) + 1..Len(tip)
          PROVE  \E m \in n + 1..i : tip[k].src = h[m].src
      <4>1. CASE k = Len(done.tip) + 1
        <5>1. i \in n + 1..i
          BY <1>1
        <5>2. QED
          BY <1>10, <3>1, <4>1, <5>1
      <4>2. CASE k # Len(done.tip) + 1
        <5>1. k \in Len(onto) + 1..Len(done.tip) /\ k \in 1..Len(done.tip)
          BY <1>5, <3>1, <4>2
        <5>2. QED
          BY <2>2, <3>1, <5>1
      <4>3. QED
        BY <4>1, <4>2
    <3>4. QED
      BY <3>2, <3>3 DEF GoesOnFrom
  <2>5. QED
    BY <1>7, <2>3, <2>4
<1>14. OnceEach(onto, tip)
  <2>1. CASE tip = done.tip
    BY <1>8, <2>1 DEF Replayed
  <2>2. CASE tip = Append(done.tip, new)
    <3>1. /\ Len(tip) = Len(done.tip) + 1 /\ (\A k \in 1..Len(done.tip) : tip[k] = done.tip[k])
          /\ tip[Len(done.tip) + 1] = new
      BY <1>5, <1>10, <2>2, AppendFacts
    <3>2. ASSUME NEW k \in Len(onto) + 1..Len(done.tip)
          PROVE  tip[k].src # h[i].src
      <4>1. k \in 1..Len(done.tip)
        BY <1>5
      <4>2. PICK m \in n + 1..i - 1 : done.tip[k].src = h[m].src
        BY <1>8 DEF Replayed, GoesOnFrom
      <4>3. m \in 1..Len(h) /\ m # i
        BY <1>1
      <4>4. QED
        BY <1>1, <3>1, <4>1, <4>2, <4>3 DEF SamePlace
    <3>3. \A k \in Len(onto) + 1..Len(tip) :
            k \in Len(onto) + 1..Len(done.tip) \/ k = Len(done.tip) + 1
      BY <1>5, <3>1
    <3>4. tip[Len(done.tip) + 1].src = h[i].src
      BY <1>10, <3>1
    <3>5. \A j, k \in Len(onto) + 1..Len(done.tip) : tip[j].src = tip[k].src => j = k
      <4> SUFFICES ASSUME NEW j \in Len(onto) + 1..Len(done.tip), NEW k \in Len(onto) + 1..Len(done.tip),
                          tip[j].src = tip[k].src
                   PROVE  j = k
        OBVIOUS
      <4>1. j \in 1..Len(done.tip) /\ k \in 1..Len(done.tip)
        BY <1>5
      <4>2. QED
        BY <1>8, <3>1, <4>1 DEF Replayed, OnceEach
    <3>6. QED
      BY <3>2, <3>3, <3>4, <3>5 DEF OnceEach
  <2>3. QED
    BY <1>7, <2>1, <2>2
<1>15. Rising(tip)
  <2>1. Rising(done.tip)
    BY <1>8 DEF Replayed
  <2>2. Rising(Append(done.tip, new))
    BY <1>5, <1>10, <1>11, <2>1, AppendRising DEF ours
  <2>3. QED
    BY <1>7, <2>1, <2>2
<1>16. FromEither(tip, onto, h)
  <2> SUFFICES ASSUME NEW f \in Files
               PROVE  VersionsOf(tip, f) \subseteq VersionsOf(onto, f) \union VersionsOf(h, f)
    BY DEF FromEither
  <2>1. VersionsOf(done.tip, f) \subseteq VersionsOf(onto, f) \union VersionsOf(h, f)
    BY <1>8 DEF Replayed, FromEither
  <2>2. h[i].tree[f] \in VersionsOf(h, f)
    BY <1>1, <1>2, TreeFacts DEF VersionsOf
  <2>3. ours[f] \in VersionsOf(done.tip, f)
    BY <1>5, VersionsFacts DEF ours
  <2>4. tree[f] \in VersionsOf(onto, f) \union VersionsOf(h, f)
    BY <1>9, <2>1, <2>2, <2>3
  <2>5. VersionsOf(Append(done.tip, new), f) = VersionsOf(done.tip, f) \union {tree[f]}
    BY <1>5, <1>10, VersionsFacts
  <2>6. QED
    BY <1>7, <2>1, <2>4, <2>5
<1>17. QED
  BY <1>12, <1>13, <1>14, <1>15, <1>16 DEF Replayed, tip, base

\* A replay that ends without a conflict: the branch goes on as it was, with commits
\* of h after the first n, each at most once, in files of rising versions.
LEMMA ReplayFacts ==
  ASSUME NEW h \in Branches, NEW n \in 0..Len(h), NEW onto \in Branches,
         Rising(h), Rising(onto), SamePlace(h, h)
  PROVE  /\ Replay(h, n, onto) \in Results
         /\ Replay(h, n, onto).conflicts = {} => Replayed(Replay(h, n, onto).tip, h, n, onto, Len(h))
<1> DEFINE Good == { x \in (n..Len(h)) \X Results :
                       x[2].conflicts = {} => Replayed(x[2].tip, h, n, onto, x[1]) }
           start == [tip |-> onto, conflicts |-> {}]
<1>1. Len(h) \in Nat /\ n \in n..Len(h) /\ Len(onto) \in Nat
  BY BranchFacts
<1>2. <<n, start>> \in Good
  <2>1. start \in Results /\ start.tip = onto
    BY DEF Results
  <2>2. Replayed(onto, h, n, onto, n)
    BY <1>1 DEF Replayed, SameFiles, GoesOnFrom, OnceEach, FromEither
  <2>3. QED
    BY <1>1, <2>1, <2>2
<1>3. ASSUME NEW i \in n + 1..Len(h), NEW done, <<i - 1, done>> \in Good
      PROVE  <<i, Pick(done, TreeOf(SubSeq(h, 1, i - 1)), h[i])>> \in Good
  <2> DEFINE next == Pick(done, TreeOf(SubSeq(h, 1, i - 1)), h[i])
  <2>1. done \in Results /\ (done.conflicts = {} => Replayed(done.tip, h, n, onto, i - 1))
    BY <1>3
  <2>2. i \in 1..Len(h) /\ i - 1 \in 0..Len(h) /\ i \in n..Len(h)
    BY <1>1
  <2>3. TreeOf(SubSeq(h, 1, i - 1)) \in Trees /\ h[i] \in Commits
    BY <2>2, PrefixFacts, BranchFacts
  <2>4. next \in Results
    BY <2>1, <2>3, PickFacts
  <2>5. next.conflicts = {} => Replayed(next.tip, h, n, onto, i)
    BY <2>1, ReplayStep
  <2> HIDE DEF next
  <2>6. QED
    BY <2>2, <2>4, <2>5 DEF next
<1> HIDE DEF Good
<1>4. <<Len(h), Replay(h, n, onto)>> \in Good
  BY <1>2, <1>3, ReplayInduction
<1>5. QED
  BY <1>4 DEF Good

\* Without a commit to replay, there is no conflict.
LEMMA NothingToReplay ==
  ASSUME NEW h \in Branches, NEW onto
  PROVE  Replay(h, Len(h), onto).conflicts = {}
<1> DEFINE start == [tip |-> onto, conflicts |-> {}]
           Good == {<<Len(h), start>>}
<1>1. Len(h) \in Nat /\ Len(h) \in 0..Len(h)
  BY BranchFacts
<1>2. ASSUME NEW i \in Len(h) + 1..Len(h) PROVE FALSE
  BY <1>1
<1>3. <<Len(h), start>> \in Good
  OBVIOUS
<1>4. <<Len(h), Replay(h, Len(h), onto)>> \in Good
  <2> HIDE DEF Good
  <2>1. ASSUME NEW i \in Len(h) + 1..Len(h), NEW done, <<i - 1, done>> \in Good
        PROVE  <<i, Pick(done, TreeOf(SubSeq(h, 1, i - 1)), h[i])>> \in Good
    BY <1>2
  <2>2. QED
    BY <1>1, <1>3, <2>1, ReplayInduction
<1>5. QED
  BY <1>4

-----------------------------------------------------------------------------
(* Histories that fit together.                                             *)

\* Branches of which HistoriesFit speaks.
Fits(T, commits, versions) ==
  /\ T \subseteq Branches
  /\ \A a, b \in T : SamePlace(a, b)
  /\ \A a \in T : Rising(a) /\ Srcs(a) \subseteq 1..commits
  /\ \A a \in T, f \in Files : VersionsOf(a, f) \subseteq 0..versions

\* Branches that end somewhere on others.
Covered(S, T) == \A a \in S : \E b \in T : a \in Prefixes(b)

\* What holds of the places of commits holds in prefixes.
LEMMA SamePrefixes ==
  ASSUME NEW x \in Branches, NEW y \in Branches, SamePlace(x, y),
         NEW a \in Prefixes(x), NEW b \in Prefixes(y)
  PROVE  SamePlace(a, b)
<1>1. /\ a \in Branches /\ Len(a) <= Len(x) /\ \A i \in 1..Len(a) : a[i] = x[i]
      /\ b \in Branches /\ Len(b) <= Len(y) /\ \A i \in 1..Len(b) : b[i] = y[i]
  BY PrefixesFacts
<1>2. Len(a) \in Nat /\ Len(b) \in Nat /\ Len(x) \in Nat /\ Len(y) \in Nat
  BY <1>1, BranchFacts
<1> SUFFICES ASSUME NEW i \in 1..Len(a), NEW j \in 1..Len(b), a[i].src = b[j].src
             PROVE  i = j /\ \A k \in 1..i : a[k] = b[k]
  BY DEF SamePlace
<1>3. i \in 1..Len(x) /\ j \in 1..Len(y) /\ x[i].src = y[j].src
  BY <1>1, <1>2
<1>4. i = j /\ \A k \in 1..i : x[k] = y[k]
  BY <1>3 DEF SamePlace
<1>5. \A k \in 1..i : k \in 1..Len(a) /\ k \in 1..Len(b)
  BY <1>2, <1>4
<1>6. QED
  BY <1>1, <1>4, <1>5

\* Branches that end on branches which fit together do so, too.
LEMMA FitsCovered ==
  ASSUME NEW T, NEW S, NEW c \in Nat, NEW v \in Nat, NEW c2 \in Nat, NEW v2 \in Nat,
         Fits(T, c, v), Covered(S, T), c <= c2, v <= v2
  PROVE  Fits(S, c2, v2)
<1>1. ASSUME NEW a \in S, NEW x \in T, a \in Prefixes(x)
      PROVE  /\ a \in Branches /\ Rising(a) /\ Srcs(a) \subseteq 1..c2
             /\ \A f \in Files : VersionsOf(a, f) \subseteq 0..v2
  <2>1. x \in Branches /\ Rising(x) /\ Srcs(x) \subseteq 1..c
        /\ \A f \in Files : VersionsOf(x, f) \subseteq 0..v
    BY DEF Fits
  <2>2. /\ a \in Branches /\ Len(a) <= Len(x) /\ \A i \in 1..Len(a) : a[i] = x[i]
        /\ Len(a) \in Nat /\ Len(x) \in Nat
    BY <1>1, <2>1, PrefixesFacts, BranchFacts
  <2>3. \A i \in 1..Len(a) : i \in 1..Len(x) /\ a[i] = x[i]
    BY <2>2
  <2>4. Rising(a)
    BY <2>1, <2>3 DEF Rising
  <2>5. Srcs(a) \subseteq Srcs(x)
    BY <2>3 DEF Srcs
  <2>6. \A f \in Files : VersionsOf(a, f) \subseteq VersionsOf(x, f)
    BY <2>1, <2>2, VersionsFacts
  <2>7. 1..c \subseteq 1..c2 /\ 0..v \subseteq 0..v2
    OBVIOUS
  <2>8. QED
    BY <2>1, <2>2, <2>4, <2>5, <2>6, <2>7
<1>2. ASSUME NEW a \in S, NEW b \in S PROVE SamePlace(a, b)
  <2>1. PICK x \in T : a \in Prefixes(x)
    BY DEF Covered
  <2>2. PICK y \in T : b \in Prefixes(y)
    BY DEF Covered
  <2>3. QED
    BY <2>1, <2>2, SamePrefixes DEF Fits
<1>3. QED
  BY <1>1, <1>2 DEF Covered, Fits

\* A new commit on one of them.
LEMMA FitsCommit ==
  ASSUME NEW T, NEW c \in Nat, NEW v \in Nat, NEW v2 \in Nat, Fits(T, c, v), v <= v2,
         NEW b \in T, NEW x \in Commits, x.src = c + 1,
         \A f \in Files : TreeOf(b)[f] <= x.tree[f] /\ x.tree[f] <= v2
  PROVE  Fits(T \union {Append(b, x)}, c + 1, v2)
<1> DEFINE a == Append(b, x)
<1>1. b \in Branches /\ T \subseteq Branches /\ Rising(b)
  BY DEF Fits
<1>2. /\ a \in Branches /\ Len(a) = Len(b) + 1 /\ (\A i \in 1..Len(b) : a[i] = b[i])
      /\ a[Len(b) + 1] = x /\ Len(b) \in Nat
  BY <1>1, AppendFacts, BranchFacts
<1>3. Rising(a)
  BY <1>1, AppendRising
<1>4. \A f \in Files : VersionsOf(a, f) = VersionsOf(b, f) \union {x.tree[f]}
  BY <1>1, VersionsFacts
<1> HIDE DEF a
<1>5. \A i \in 1..Len(a) : i \in 1..Len(b) \/ i = Len(b) + 1
  BY <1>2
<1>6. \A t \in T : \A i \in 1..Len(t) : t[i].src \in 1..c /\ t[i].src # c + 1
  <2>1. \A s \in 1..c : s # c + 1
    OBVIOUS
  <2>2. \A t \in T : \A i \in 1..Len(t) : t[i].src \in 1..c
    BY DEF Fits, Srcs
  <2>3. QED
    BY <2>1, <2>2
<1>7. \A i \in 1..Len(a) : a[i].src \in 1..c + 1
  BY <1>2, <1>5, <1>6
<1>8. \A t \in T : Rising(t) /\ Srcs(t) \subseteq 1..c + 1
                   /\ \A f \in Files : VersionsOf(t, f) \subseteq 0..v2
  <2>1. 1..c \subseteq 1..c + 1 /\ 0..v \subseteq 0..v2
    OBVIOUS
  <2>2. QED
    BY <2>1 DEF Fits
<1>9. \A f \in Files : VersionsOf(a, f) \subseteq 0..v2
  <2> TAKE f \in Files
  <2>1. x.tree[f] \in 0..v2
    BY TreeFacts
  <2>2. QED
    BY <1>4, <1>8, <2>1
<1>10. \A t \in T : SamePlace(a, t) /\ SamePlace(t, a)
  <2> TAKE t \in T
  <2>1. SamePlace(b, t) /\ SamePlace(t, b)
    BY DEF Fits
  <2>2. ASSUME NEW i \in 1..Len(a), NEW j \in 1..Len(t), a[i].src = t[j].src
        PROVE  i = j /\ \A k \in 1..i : a[k] = t[k]
    <3>1. i \in 1..Len(b)
      BY <1>2, <1>5, <1>6, <2>2
    <3>2. i = j /\ \A k \in 1..i : b[k] = t[k]
      BY <1>2, <2>1, <2>2, <3>1 DEF SamePlace
    <3>3. \A k \in 1..i : k \in 1..Len(b)
      BY <1>2, <3>1
    <3>4. QED
      BY <1>2, <3>2, <3>3
  <2>3. SamePlace(a, t)
    BY <2>2 DEF SamePlace
  <2>4. ASSUME NEW i \in 1..Len(a), NEW j \in 1..Len(t), t[j].src = a[i].src
        PROVE  j = i /\ \A k \in 1..j : t[k] = a[k]
    BY <2>2, <2>4
  <2>5. SamePlace(t, a)
    BY <2>4 DEF SamePlace
  <2>6. QED
    BY <2>3, <2>5
<1>11. SamePlace(a, a)
  <2> SUFFICES ASSUME NEW i \in 1..Len(a), NEW j \in 1..Len(a), a[i].src = a[j].src
               PROVE  i = j
    BY DEF SamePlace
  <2>1. SamePlace(a, b)
    BY <1>10
  <2>2. CASE j \in 1..Len(b)
    BY <1>2, <2>1, <2>2 DEF SamePlace
  <2>3. CASE j = Len(b) + 1 /\ i \in 1..Len(b)
    BY <1>2, <1>6, <2>3
  <2>4. QED
    BY <1>5, <2>2, <2>3
<1>12. Srcs(a) \subseteq 1..c + 1
  BY <1>7 DEF Srcs
<1> DEFINE A == T \union {a}
<1>13. A \subseteq Branches
  BY <1>1, <1>2
<1>14. \A r, s \in A : SamePlace(r, s)
  BY <1>10, <1>11 DEF Fits
<1>15. \A r \in A : Rising(r) /\ Srcs(r) \subseteq 1..c + 1
  BY <1>3, <1>8, <1>12
<1>16. \A r \in A, f \in Files : VersionsOf(r, f) \subseteq 0..v2
  BY <1>8, <1>9
<1>17. QED
  BY <1>13, <1>14, <1>15, <1>16 DEF Fits, a

\* What a sync replays keeps its commits' one place: only what no branch of the fork
\* ever had is replayed.
LEMMA FitsReplay ==
  ASSUME NEW T, NEW c \in Nat, NEW v \in Nat, Fits(T, c, v), NEW h \in T, NEW ref \in Refs,
         ref.seen \union {ref.tip} \subseteq T, NEW n, n = EverOnOrigin(h, ref),
         NEW tip \in Branches, Replayed(tip, h, n, ref.tip, Len(h))
  PROVE  Fits(ref.seen \union {ref.tip} \union {tip}, c, v)
<1> DEFINE onto == ref.tip
           S == ref.seen \union {ref.tip}
<1>1. /\ h \in Branches /\ onto \in Branches /\ S \subseteq Branches /\ S \subseteq T
      /\ onto \in S /\ Len(h) \in Nat /\ Len(onto) \in Nat /\ Len(tip) \in Nat
  BY BranchFacts DEF Fits
<1>2. n \in 0..Len(h) /\ \A t \in S : Shared(h, t) <= n
  BY <1>1, EverFacts
<1> HIDE DEF onto, S
<1>3. /\ Len(onto) <= Len(tip)
      /\ \A k \in 1..Len(onto) : tip[k] = onto[k]
      /\ \A k \in Len(onto) + 1..Len(tip) : \E m \in n + 1..Len(h) : tip[k].src = h[m].src
  BY DEF Replayed, GoesOnFrom, onto
<1>4. \A j, k \in Len(onto) + 1..Len(tip) : tip[j].src = tip[k].src => j = k
  BY DEF Replayed, OnceEach, onto
<1>5. Rising(tip) /\ FromEither(tip, onto, h)
  BY DEF Replayed, onto
<1>6. ASSUME NEW t \in S, NEW k \in Len(onto) + 1..Len(tip), NEW j \in 1..Len(t),
             tip[k].src = t[j].src
      PROVE  FALSE
  <2>1. PICK m \in n + 1..Len(h) : tip[k].src = h[m].src
    BY <1>3
  <2>2. t \in Branches /\ SamePlace(h, t) /\ m \in 1..Len(h) /\ m \in 0..Len(h) /\ Len(t) \in Nat
    BY <1>1, <1>2, BranchFacts DEF Fits
  <2>3. m = j /\ \A i \in 1..m : h[i] = t[i]
    BY <1>6, <2>1, <2>2 DEF SamePlace
  <2>4. m <= Len(t)
    BY <2>2, <2>3
  <2>5. m <= Shared(h, t) /\ Shared(h, t) \in Nat /\ Shared(h, t) <= n
    BY <1>1, <1>2, <2>2, <2>3, <2>4, SharedFacts
  <2>6. QED
    BY <1>1, <1>2, <2>5
<1>7. \A k \in 1..Len(tip) : k \in 1..Len(onto) \/ k \in Len(onto) + 1..Len(tip)
  BY <1>1
<1>8. ASSUME NEW t \in S, NEW i \in 1..Len(tip), NEW j \in 1..Len(t), tip[i].src = t[j].src
      PROVE  i = j /\ \A k \in 1..i : tip[k] = t[k]
  <2>1. i \in 1..Len(onto)
    BY <1>6, <1>7, <1>8
  <2>2. SamePlace(onto, t)
    BY <1>1 DEF Fits
  <2>3. i = j /\ \A k \in 1..i : onto[k] = t[k]
    BY <1>3, <1>8, <2>1, <2>2 DEF SamePlace
  <2>4. \A k \in 1..i : k \in 1..Len(onto)
    BY <1>1, <2>1
  <2>5. QED
    BY <1>3, <2>3, <2>4
<1>9. \A t \in S : SamePlace(tip, t) /\ SamePlace(t, tip)
  <2> TAKE t \in S
  <2>1. SamePlace(tip, t)
    BY <1>8 DEF SamePlace
  <2>2. ASSUME NEW i \in 1..Len(tip), NEW j \in 1..Len(t), t[j].src = tip[i].src
        PROVE  j = i /\ \A k \in 1..j : t[k] = tip[k]
    BY <1>8, <2>2
  <2>3. SamePlace(t, tip)
    BY <2>2 DEF SamePlace
  <2>4. QED
    BY <2>1, <2>3
<1>10. SamePlace(tip, tip)
  <2> SUFFICES ASSUME NEW i \in 1..Len(tip), NEW j \in 1..Len(tip), tip[i].src = tip[j].src
               PROVE  i = j
    BY DEF SamePlace
  <2>1. SamePlace(tip, onto) /\ SamePlace(onto, tip)
    BY <1>1, <1>9
  <2>2. CASE j \in 1..Len(onto)
    BY <1>3, <2>1, <2>2 DEF SamePlace
  <2>3. CASE i \in 1..Len(onto)
    BY <1>3, <2>1, <2>3 DEF SamePlace
  <2>4. CASE i \in Len(onto) + 1..Len(tip) /\ j \in Len(onto) + 1..Len(tip)
    BY <1>4, <2>4
  <2>5. QED
    BY <1>7, <2>2, <2>3, <2>4
<1>11. Srcs(tip) \subseteq 1..c
  <2>1. \A k \in 1..Len(onto) : onto[k].src \in 1..c
    BY <1>1 DEF Fits, Srcs
  <2>2. \A m \in 1..Len(h) : h[m].src \in 1..c
    BY DEF Fits, Srcs
  <2>3. \A m \in n + 1..Len(h) : m \in 1..Len(h)
    BY <1>1, <1>2
  <2>4. ASSUME NEW k \in 1..Len(tip) PROVE tip[k].src \in 1..c
    <3>1. CASE k \in 1..Len(onto)
      BY <1>3, <2>1, <3>1
    <3>2. CASE k \in Len(onto) + 1..Len(tip)
      BY <1>3, <2>2, <2>3, <3>2
    <3>3. QED
      BY <1>7, <3>1, <3>2
  <2>5. QED
    BY <2>4 DEF Srcs
<1>12. \A f \in Files : VersionsOf(tip, f) \subseteq 0..v
  <2>1. \A f \in Files : VersionsOf(onto, f) \subseteq 0..v /\ VersionsOf(h, f) \subseteq 0..v
    BY <1>1 DEF Fits
  <2>2. QED
    BY <1>5, <2>1 DEF FromEither
<1> DEFINE A == S \union {tip}
<1>13. A \subseteq Branches
  BY <1>1
<1>14. \A r, s \in A : SamePlace(r, s)
  <2>1. \A r, s \in S : SamePlace(r, s)
    BY <1>1 DEF Fits
  <2>2. QED
    BY <1>9, <1>10, <2>1
<1>15. \A r \in A : Rising(r) /\ Srcs(r) \subseteq 1..c
  <2>1. \A r \in S : Rising(r) /\ Srcs(r) \subseteq 1..c
    BY <1>1 DEF Fits
  <2>2. QED
    BY <1>5, <1>11, <2>1
<1>16. \A r \in A, f \in Files : VersionsOf(r, f) \subseteq 0..v
  <2>1. \A r \in S, f \in Files : VersionsOf(r, f) \subseteq 0..v
    BY <1>1 DEF Fits
  <2>2. QED
    BY <1>12, <2>1
<1>17. QED
  BY <1>13, <1>14, <1>15, <1>16 DEF Fits, S

-----------------------------------------------------------------------------
(* What the clone and GitHub hold.                                          *)

\* The types of what the clone and GitHub hold, and of what is counted.
DataOK ==
  /\ head \in Branches /\ index \in Trees /\ work \in Trees
  /\ track \in Refs
  /\ github \in {"branch", "fork", "nothing"}
  /\ origin \in Branches
  /\ github # "branch" => origin = <<>>
  /\ counts \in [versions : 0..MaxVersion, commits : 0..MaxCommits, outside : 0..MaxOutside]
  /\ saved \in [Files -> Versions]
  /\ published \in [Files -> SUBSET Versions]

\* The part of the invariant that no operation in progress matters to.
DInv == DataOK /\ HistoriesFit /\ StagedIsNewer /\ SeenIsPublished /\ UnsentWorkIsKept

\* What GitHub has, or had since the last prune.
Remotes == {origin, track.tip} \union track.seen

\* The counters are numbers within their bounds.
LEMMA CountFacts ==
  ASSUME DataOK
  PROVE  /\ counts.versions \in Nat /\ counts.commits \in Nat /\ counts.outside \in Nat
         /\ counts.versions \in 0..MaxVersion /\ counts.commits \in 0..MaxCommits
         /\ counts.outside \in 0..MaxOutside
BY HistoryAssumption, OutsideAssumption DEF DataOK

\* The missing reference.
LEMMA NoRefFacts == NoRef \in Refs /\ NoRef.tip = <<>> /\ NoRef.seen = {}
BY EmptyBranch DEF NoRef, Refs

\* A reference that was moved names the tip, and is one.
LEMMA MovedFacts ==
  ASSUME NEW ref \in Refs, NEW tip \in Branches
  PROVE  /\ Moved(ref, tip) \in Refs /\ Moved(ref, tip).tip = tip
         /\ Moved(ref, tip).seen = ref.seen \union {tip} /\ Moved(ref, tip) # NoRef
BY DEF Moved, Refs, NoRef

\* The branches that HistoriesFit speaks of.
LEMMA TipsFacts ==
  ASSUME DataOK
  PROVE  /\ Tips \subseteq Branches /\ Tips = {head} \union Remotes
         /\ head \in Tips /\ origin \in Tips /\ track.tip \in Tips /\ track.seen \subseteq Tips
BY DEF DataOK, Tips, Remotes, Refs

\* HistoriesFit, as it is said of a set of branches ...
LEMMA FitsTips ==
  ASSUME DataOK
  PROVE  HistoriesFit <=> Fits(Tips, counts.commits, counts.versions)
BY TipsFacts DEF HistoriesFit, Fits

\* ... and in the next state.
LEMMA FitsTipsNext ==
  ASSUME DataOK'
  PROVE  /\ HistoriesFit' <=> Fits(Tips', counts'.commits, counts'.versions)
         /\ Tips' = {head'} \union Remotes'
BY DEF HistoriesFit, Fits, DataOK, Tips, Remotes, Refs

\* The branch without commits has the files of the upstream commit.
LEMMA EmptyTree == TreeOf(<<>>) = UpstreamTree
BY DEF TreeOf

\* The tree of a branch is none older than that of its prefixes.
LEMMA PrefixIsOlder ==
  ASSUME NEW b \in Branches, Rising(b), NEW p \in Prefixes(b), NEW f \in Files
  PROVE  TreeOf(p)[f] <= TreeOf(b)[f]
<1>1. /\ p \in Branches /\ Len(p) <= Len(b) /\ (\A i \in 1..Len(p) : p[i] = b[i])
      /\ Len(p) \in Nat /\ Len(b) \in Nat
      /\ p = <<>> <=> Len(p) = 0
      /\ b = <<>> <=> Len(b) = 0
      /\ TreeOf(b)[f] \in Nat
  BY PrefixesFacts, BranchFacts, TreeFacts
<1>2. CASE p = <<>>
  BY <1>1, <1>2, EmptyTree DEF UpstreamTree
<1>3. CASE p # <<>>
  <2>1. Len(p) \in 1..Len(p) /\ Len(p) \in 1..Len(b) /\ Len(b) \in 1..Len(b) /\ b # <<>>
    BY <1>1, <1>3
  <2>2. TreeOf(p)[f] = b[Len(p)].tree[f] /\ TreeOf(b)[f] = b[Len(b)].tree[f]
    BY <1>1, <1>3, <2>1 DEF TreeOf
  <2>3. QED
    BY <1>1, <2>1, <2>2 DEF Rising
<1>4. QED
  BY <1>2, <1>3

\* A step that takes nothing from GitHub but what it had, and may shorten HEAD.
LEMMA DataKept ==
  ASSUME DInv, DataOK', head' \in Prefixes(head), UNCHANGED <<index, work, saved>>,
         counts.versions <= counts'.versions, counts.commits <= counts'.commits,
         Covered(Remotes', Tips), track' = NoRef \/ track'.tip \in track'.seen,
         \A f \in Files : published[f] \subseteq published'[f],
         \A tip \in Remotes', f \in Files : VersionsOf(tip, f) \subseteq published'[f]
  PROVE  DInv'
<1>1. HistoriesFit'
  <2>1. Covered(Tips', Tips)
    BY TipsFacts, FitsTipsNext DEF Covered, DInv
  <2>2. /\ counts.versions \in Nat /\ counts.commits \in Nat
        /\ counts'.versions \in Nat /\ counts'.commits \in Nat
    BY CountFacts, HistoryAssumption DEF DInv, DataOK
  <2>3. Fits(Tips, counts.commits, counts.versions)
    BY FitsTips DEF DInv
  <2>4. Fits(Tips', counts'.commits, counts'.versions)
    BY <2>1, <2>2, <2>3, FitsCovered
  <2>5. QED
    BY <2>4, FitsTipsNext
<1>2. StagedIsNewer'
  <2>1. head \in Branches /\ Rising(head)
    BY DEF DInv, DataOK, HistoriesFit, Tips
  <2>2. ASSUME NEW f \in Files
        PROVE  TreeOf(head')[f] <= index[f] /\ index[f] <= counts'.versions
    <3>1. TreeOf(head')[f] <= TreeOf(head)[f]
      BY <2>1, PrefixIsOlder
    <3>2. TreeOf(head)[f] <= index[f] /\ index[f] <= counts.versions
      BY DEF DInv, StagedIsNewer
    <3>3. TreeOf(head')[f] \in Nat /\ TreeOf(head)[f] \in Nat /\ index[f] \in Nat
          /\ counts.versions \in Nat /\ counts'.versions \in Nat
      <4>1. head' \in Branches
        BY <2>1, PrefixesFacts
      <4>2. counts'.versions \in Nat
        BY HistoryAssumption DEF DataOK
      <4>3. QED
        BY <2>1, <4>1, <4>2, BranchFacts, TreeFacts, CountFacts DEF DInv, DataOK
    <3>4. QED
      BY <3>1, <3>2, <3>3
  <2>3. QED
    BY <2>2 DEF StagedIsNewer
<1>3. SeenIsPublished'
  BY DEF SeenIsPublished, Remotes
<1>4. UnsentWorkIsKept'
  BY DEF DInv, UnsentWorkIsKept
<1>5. QED
  BY <1>1, <1>2, <1>3, <1>4 DEF DInv

\* What a step of an operation may do to GitHub and to the clone's view of it.
NetStep ==
  \/ Confirmed \/ Lost \/ Failed
  \/ track' = Fetched /\ UNCHANGED remoteVars
  \/ github = "nothing" /\ github' \in {"fork", "nothing"} /\ UNCHANGED <<track, origin, published>>

\* The branch on GitHub is as HEAD was.
LEMMA LandedFacts ==
  ASSUME DataOK, Landed
  PROVE  /\ published' \in [Files -> SUBSET Versions] /\ origin' = head /\ github' = "branch"
         /\ \A f \in Files : published'[f] = published[f] \union VersionsOf(head, f)
<1>1. head \in Branches /\ published \in [Files -> SUBSET Versions]
  BY DEF DataOK
<1>2. \A f \in Files : published[f] \union VersionsOf(head, f) \subseteq Versions
  BY <1>1, VersionsFacts
<1>3. QED
  BY <1>2 DEF Landed

\* No push and no fetch disturbs the data, whether it is heard of or not.
LEMMA NetKeeps ==
  ASSUME DInv, NetStep, head' \in Prefixes(head), UNCHANGED <<index, work, countVars>>
  PROVE  DInv'
<1>1. DataOK /\ head \in Branches /\ head' \in Branches /\ track \in Refs /\ origin \in Branches
  BY PrefixesFacts DEF DInv, DataOK
<1>2. counts' = counts /\ saved' = saved /\ counts.versions \in Nat /\ counts.commits \in Nat
  BY <1>1, CountFacts DEF countVars
<1>3. \A b \in Tips : b \in Branches /\ b \in Prefixes(b)
  BY <1>1, TipsFacts, PrefixesFacts
<1>4. /\ track = NoRef \/ track.tip \in track.seen
      /\ \A tip \in Remotes, f \in Files : VersionsOf(tip, f) \subseteq published[f]
  BY DEF DInv, SeenIsPublished, Remotes
<1>5. Tips = {head} \union Remotes
  BY <1>1, TipsFacts
<1>6. ASSUME DataOK', track' = NoRef \/ track'.tip \in track'.seen,
             Remotes' \subseteq Tips,
             \A f \in Files : published[f] \subseteq published'[f],
             \A tip \in Remotes', f \in Files : VersionsOf(tip, f) \subseteq published'[f]
      PROVE  DInv'
  <2>1. Covered(Remotes', Tips)
    BY <1>3, <1>6 DEF Covered
  <2>2. QED
    BY <1>2, <1>6, <2>1, DataKept
<1>7. CASE Confirmed \/ Lost
  <2>1. /\ published' \in [Files -> SUBSET Versions] /\ origin' = head /\ github' = "branch"
        /\ \A f \in Files : published'[f] = published[f] \union VersionsOf(head, f)
    BY <1>1, <1>7, LandedFacts DEF Confirmed, Lost
  <2>2. /\ track' \in Refs /\ (track' = track \/ track' = Moved(track, head))
    BY <1>1, <1>7, MovedFacts DEF Confirmed, Lost
  <2>3. DataOK'
    BY <1>1, <1>2, <2>1, <2>2 DEF DataOK
  <2>4. track' = track \/ (track'.tip = head /\ track'.seen = track.seen \union {head})
    BY <1>1, <2>2, MovedFacts
  <2>5. Remotes' \subseteq Remotes \union {head}
    BY <2>1, <2>4 DEF Remotes
  <2>6. track' = NoRef \/ track'.tip \in track'.seen
    BY <1>4, <2>4
  <2>7. \A tip \in Remotes', f \in Files : VersionsOf(tip, f) \subseteq published'[f]
    BY <1>4, <2>1, <2>5
  <2>8. QED
    BY <1>5, <1>6, <2>1, <2>3, <2>5, <2>6, <2>7
<1>8. CASE Failed
  <2>1. track' = track /\ github' = github /\ origin' = origin /\ published' = published
    BY <1>8 DEF Failed, remoteVars
  <2>2. DataOK'
    BY <1>1, <1>2, <2>1 DEF DataOK
  <2>3. Remotes' = Remotes
    BY <2>1 DEF Remotes
  <2>4. QED
    BY <1>4, <1>5, <1>6, <2>1, <2>2, <2>3
<1>9. CASE track' = Fetched /\ UNCHANGED remoteVars
  <2>1. github' = github /\ origin' = origin /\ published' = published
    BY <1>9 DEF remoteVars
  <2>2. track' = NoRef \/ track' = Moved(track, origin)
    BY <1>9 DEF Fetched
  <2>3. /\ track' \in Refs
        /\ \/ track' = NoRef /\ track'.tip = <<>> /\ track'.seen = {}
           \/ track'.tip = origin /\ track'.seen = track.seen \union {origin}
    BY <1>1, <2>2, MovedFacts, NoRefFacts
  <2>4. DataOK'
    BY <1>1, <1>2, <2>1, <2>3 DEF DataOK
  <2>5. CASE track' = NoRef /\ track'.tip = <<>> /\ track'.seen = {}
    <3>1. Remotes' = {origin, <<>>}
      BY <2>1, <2>5 DEF Remotes
    <3>2. Covered(Remotes', Tips)
      <4>1. origin \in Tips /\ origin \in Prefixes(origin) /\ <<>> \in Prefixes(origin)
        BY <1>1, TipsFacts, PrefixesFacts
      <4>2. QED
        BY <3>1, <4>1 DEF Covered
    <3>3. \A f \in Files : VersionsOf(<<>>, f) \subseteq published[f]
      <4>1. \A f \in Files : VersionsOf(<<>>, f) = {0}
        BY EmptyBranch DEF VersionsOf
      <4>2. \A f \in Files : 0 \in VersionsOf(origin, f)
        BY DEF VersionsOf
      <4>3. \A f \in Files : VersionsOf(origin, f) \subseteq published[f]
        BY <1>4 DEF Remotes
      <4>4. QED
        BY <4>1, <4>2, <4>3
    <3>4. \A tip \in Remotes', f \in Files : VersionsOf(tip, f) \subseteq published'[f]
      BY <1>4, <2>1, <3>1, <3>3 DEF Remotes
    <3>5. QED
      BY <1>2, <2>1, <2>4, <2>5, <3>2, <3>4, DataKept
  <2>6. CASE track'.tip = origin /\ track'.seen = track.seen \union {origin}
    <3>1. Remotes' \subseteq Remotes
      BY <2>1, <2>6 DEF Remotes
    <3>2. QED
      BY <1>4, <1>5, <1>6, <2>1, <2>4, <2>6, <3>1
  <2>7. QED
    BY <2>3, <2>5, <2>6
<1>10. CASE github = "nothing" /\ github' \in {"fork", "nothing"} /\ UNCHANGED <<track, origin, published>>
  <2>1. DataOK'
    BY <1>1, <1>2, <1>10 DEF DataOK
  <2>2. Remotes' = Remotes
    BY <1>10 DEF Remotes
  <2>3. QED
    BY <1>4, <1>5, <1>6, <1>10, <2>1, <2>2
<1>11. QED
  BY <1>7, <1>8, <1>9, <1>10 DEF NetStep

\* Undoing a commit shortens HEAD by one, if at all.
LEMMA ShorterHead ==
  ASSUME head \in Branches
  PROVE  /\ head \in Prefixes(head)
         /\ RevertCommit => head' \in Prefixes(head) /\ UNCHANGED <<index, work>>
<1>1. Len(head) \in Nat /\ (head = <<>> <=> Len(head) = 0) /\ head \in Prefixes(head)
  BY BranchFacts, PrefixesFacts
<1>2. ASSUME head # <<>> PROVE SubSeq(head, 1, Len(head) - 1) \in Prefixes(head)
  <2>1. Len(head) - 1 \in 0..Len(head)
    BY <1>1, <1>2
  <2>2. QED
    BY <2>1, PrefixesFacts
<1>3. QED
  BY <1>1, <1>2 DEF RevertCommit

\* How the errors leave the clone.
LEMMA ErrorsShorten ==
  ASSUME head \in Branches, RemoteAccessError \/ OtherError
  PROVE  head' \in Prefixes(head) /\ UNCHANGED <<index, work>>
<1>1. UNCHANGED <<head, index, work>> \/ RevertCommit
  BY DEF RemoteAccessError, OtherError
<1>2. QED
  BY <1>1, ShorterHead

\* Every step of the service but the replay is one of these.
LEMMA ServiceIsNet ==
  ASSUME DataOK, Service
  PROVE  \/ FetchToReplay
         \/ NetStep /\ head' \in Prefixes(head) /\ UNCHANGED <<index, work, countVars>>
<1> DEFINE Net == NetStep /\ head' \in Prefixes(head) /\ UNCHANGED <<index, work, countVars>>
<1>0. head \in Branches /\ head \in Prefixes(head)
  BY ShorterHead DEF DataOK
<1>1. ASSUME UNCHANGED <<head, index, work>> \/ RevertCommit \/ RemoteAccessError \/ OtherError
      PROVE  head' \in Prefixes(head) /\ UNCHANGED <<index, work>>
  BY <1>0, <1>1, ShorterHead, ErrorsShorten
<1>2. CASE Push \/ Deliver \/ LastPush
  <2>1. Confirmed \/ Lost \/ Failed
    BY <1>2 DEF Push, Deliver, LastPush
  <2>2. UNCHANGED <<head, index, work>> \/ RevertCommit \/ RemoteAccessError \/ OtherError
    BY <1>2 DEF Push, Deliver, LastPush
  <2>3. QED
    BY <1>1, <1>2, <2>1, <2>2 DEF NetStep, Push, Deliver, LastPush
<1>3. CASE Restore \/ Repush
  <2>1. Confirmed \/ Lost \/ Failed
    BY <1>3 DEF Restore, Repush
  <2>2. UNCHANGED <<head, index, work>> \/ RevertCommit \/ RemoteAccessError \/ OtherError
    BY <1>3 DEF Restore, Repush
  <2>3. QED
    BY <1>1, <1>3, <2>1, <2>2 DEF NetStep, Restore, Repush
<1>4. CASE Repair
  <2>1. CASE github' = github
    <3>1. Failed
      BY <1>4, <2>1 DEF Repair, Failed, remoteVars
    <3>2. UNCHANGED <<head, index, work>> \/ OtherError
      BY <1>4 DEF Repair
    <3>3. QED
      BY <1>1, <1>4, <3>1, <3>2 DEF NetStep, Repair
  <2>2. CASE github' # github
    <3>1. github = "nothing" /\ github' = "fork" /\ (OtherError \/ UNCHANGED <<head, index, work>>)
      BY <1>4, <2>2 DEF Repair
    <3>2. QED
      BY <1>1, <1>4, <3>1 DEF NetStep, Repair
  <2>3. QED
    BY <2>1, <2>2
<1>5. CASE FetchFails
  BY <1>1, <1>5 DEF FetchFails, NetStep, Failed
<1>6. CASE FetchToEnsure
  BY <1>1, <1>6 DEF FetchToEnsure, NetStep
<1>7. CASE FetchToSettle
  <2>1. track' = Fetched /\ UNCHANGED <<remoteVars, countVars>>
    BY <1>7 DEF FetchToSettle
  <2>2. UNCHANGED <<head, index, work>>
    BY <1>7 DEF FetchToSettle, Settle
  <2>3. QED
    BY <1>1, <2>1, <2>2 DEF NetStep
<1>8. CASE ReplayFails
  <2>1. track' = Fetched /\ UNCHANGED <<remoteVars, countVars>>
    BY <1>8 DEF ReplayFails
  <2>2. UNCHANGED <<head, index, work>> \/ RevertCommit
    BY <1>8 DEF ReplayFails
  <2>3. QED
    BY <1>1, <2>1, <2>2 DEF NetStep
<1>9. CASE Conclude
  <2>1. UNCHANGED <<track, remoteVars, countVars>>
    BY <1>9 DEF Conclude
  <2>2. UNCHANGED <<head, index, work>> \/ RevertCommit
    BY <1>9 DEF Conclude
  <2>3. QED
    BY <1>1, <2>1, <2>2 DEF NetStep, Failed
<1>10. CASE Die
  BY <1>1, <1>10 DEF Die, NetStep, Failed, localVars
<1>11. QED
  BY <1>2, <1>3, <1>4, <1>5, <1>6, <1>7, <1>8, <1>9, <1>10 DEF Service, ServerPush

\* The replay: what it drops has a version that the branch on GitHub had.
LEMMA ReplayKeepsData == ASSUME DInv, FetchToReplay PROVE DInv'
<1> DEFINE n == EverOnOrigin(head, track')
           replay == Replay(head, n, track'.tip)
<1>1. DataOK /\ head \in Branches /\ track \in Refs /\ origin \in Branches
  BY DEF DInv, DataOK
<1>2. track' = Moved(track, origin) /\ github = "branch"
  BY DEF FetchToReplay, Fetched
<1>3. track' \in Refs /\ track'.tip = origin /\ track'.seen = track.seen \union {origin}
  BY <1>1, <1>2, MovedFacts
<1>4. n \in 0..Len(head)
  BY <1>1, <1>3, EverFacts
<1>5. Fits(Tips, counts.commits, counts.versions)
  BY <1>1, FitsTips DEF DInv
<1>6. /\ head \in Tips /\ origin \in Tips /\ track.seen \subseteq Tips
      /\ Rising(head) /\ Rising(origin) /\ SamePlace(head, head)
  BY <1>1, <1>5, TipsFacts DEF Fits
<1>7. /\ replay \in Results
      /\ replay.conflicts = {} => Replayed(replay.tip, head, n, track'.tip, Len(head))
  BY <1>1, <1>3, <1>4, <1>6, ReplayFacts
<1>8. UNCHANGED <<remoteVars, countVars>>
  BY DEF FetchToReplay
<1>9. CASE replay.conflicts # {}
  <2>1. UNCHANGED <<head, index, work>>
    BY <1>9 DEF FetchToReplay, Settle
  <2>2. head' \in Prefixes(head) /\ NetStep
    BY <1>1, <1>8, <2>1, ShorterHead DEF NetStep, FetchToReplay
  <2>3. QED
    BY <1>8, <2>1, <2>2, NetKeeps
<1>10. CASE replay.conflicts = {}
  <2>1. head' = replay.tip /\ index' = TreeOf(head') /\ work' = TreeOf(head')
    BY <1>10 DEF FetchToReplay
  <2>2. work = TreeOf(head)
    BY DEF FetchToReplay, Clean
  <2> HIDE DEF n, replay
  <2>3. Replayed(head', head, n, track'.tip, Len(head)) /\ head' \in Branches
    BY <1>7, <1>10, <2>1 DEF Results
  <2>4. counts' = counts /\ saved' = saved /\ github' = github /\ origin' = origin /\ published' = published
    BY <1>8 DEF remoteVars, countVars
  <2>5. DataOK'
    <3>1. TreeOf(head') \in Trees
      BY <2>3, BranchFacts
    <3>2. QED
      BY <1>1, <1>3, <2>1, <2>3, <2>4, <3>1 DEF DataOK
  <2>6. track'.seen \union {track'.tip} \subseteq Tips
    BY <1>3, <1>6
  <2>7. HistoriesFit'
    <3>1. counts.commits \in Nat /\ counts.versions \in Nat
      BY <1>1, CountFacts
    <3>2. n = EverOnOrigin(head, track')
      BY DEF n
    <3>3. Fits(track'.seen \union {track'.tip} \union {head'}, counts.commits, counts.versions)
      BY <1>3, <1>5, <1>6, <2>3, <2>6, <3>1, <3>2, FitsReplay
    <3>4. Tips' = track'.seen \union {track'.tip} \union {head'}
      BY <1>3, <2>4, <2>5, FitsTipsNext DEF Remotes
    <3>5. QED
      BY <2>4, <2>5, <3>3, <3>4, FitsTipsNext
  <2>8. StagedIsNewer'
    <3> SUFFICES ASSUME NEW f \in Files
                 PROVE  TreeOf(head')[f] <= TreeOf(head')[f] /\ TreeOf(head')[f] <= counts.versions
      BY <2>1, <2>4 DEF StagedIsNewer
    <3>1. TreeOf(head')[f] \in VersionsOf(head', f)
      BY <2>3, VersionsFacts
    <3>2. VersionsOf(head', f) \subseteq 0..counts.versions
      BY <2>4, <2>7 DEF HistoriesFit, Tips
    <3>3. counts.versions \in Nat
      BY <1>1, CountFacts
    <3>4. QED
      BY <3>1, <3>2, <3>3
  <2>9. SeenIsPublished'
    <3>1. \A tip \in Remotes, f \in Files : VersionsOf(tip, f) \subseteq published[f]
      BY DEF DInv, SeenIsPublished, Remotes
    <3>2. {origin', track'.tip} \union track'.seen \subseteq Remotes
      BY <1>3, <2>4 DEF Remotes
    <3>3. track'.tip \in track'.seen
      BY <1>3
    <3>4. QED
      BY <2>4, <3>1, <3>2, <3>3 DEF SeenIsPublished
  <2>10. UnsentWorkIsKept'
    <3> SUFFICES ASSUME NEW f \in Files, saved[f] \notin published[f]
                 PROVE  TreeOf(head')[f] = saved[f]
      BY <2>1, <2>4 DEF UnsentWorkIsKept
    <3>1. TreeOf(head)[f] = saved[f]
      BY <2>2 DEF DInv, UnsentWorkIsKept
    <3>2. SubSeq(head, 1, Len(head)) = head
      BY <1>1, SubSeqFull DEF Branches
    <3>3. TreeOf(head')[f] = TreeOf(head)[f] \/ TreeOf(head)[f] = TreeOf(SubSeq(head, 1, n))[f]
      BY <2>3, <3>2 DEF Replayed, SameFiles
    <3>4. TreeOf(SubSeq(head, 1, n))[f] \in published[f]
      <4>1. PICK t \in track'.seen \union {track'.tip} : n = Shared(head, t)
        BY <1>1, <1>3, EverFacts DEF n
      <4>2. t \in Remotes
        BY <1>3, <4>1 DEF Remotes
      <4>3. t \in Branches /\ VersionsOf(t, f) \subseteq published[f]
        BY <1>1, <4>2, TipsFacts DEF DInv, SeenIsPublished, Remotes
      <4>4. n <= Len(t) /\ \A i \in 1..n : head[i] = t[i]
        BY <1>1, <4>1, <4>3, SharedFacts
      <4> DEFINE p == SubSeq(head, 1, n)
      <4>5. p \in Branches /\ Len(p) = n /\ \A i \in 1..n : p[i] = head[i]
        BY <1>1, <1>4, PrefixFacts
      <4> HIDE DEF p
      <4>6. Len(p) <= Len(t) /\ \A i \in 1..Len(p) : p[i] = t[i]
        BY <4>4, <4>5
      <4>7. VersionsOf(p, f) \subseteq VersionsOf(t, f)
        BY <4>3, <4>5, <4>6, VersionsFacts
      <4>8. TreeOf(p)[f] \in VersionsOf(p, f)
        BY <4>5, VersionsFacts
      <4>9. QED
        BY <4>3, <4>7, <4>8 DEF p
    <3>5. QED
      BY <3>1, <3>3, <3>4
  <2>11. QED
    BY <2>5, <2>7, <2>8, <2>9, <2>10 DEF DInv
<1>11. QED
  BY <1>9, <1>10

\* No step of an operation disturbs the data.
LEMMA ServiceKeepsData == ASSUME DInv, Service PROVE DInv'
BY ServiceIsNet, NetKeeps, ReplayKeepsData DEF DInv

-----------------------------------------------------------------------------
(* The user edits files, and operations begin.                              *)

\* A tree with the files of S at version n.
LEMMA WrittenFacts ==
  ASSUME NEW tree \in Trees, NEW S, NEW n \in Versions
  PROVE  /\ Written(tree, S, n) \in Trees
         /\ \A f \in Files : Written(tree, S, n)[f] = IF f \in S THEN n ELSE tree[f]
BY DEF Written, Trees

\* A step that leaves the branches alone.
LEMMA FitsStay ==
  ASSUME DInv, DataOK', UNCHANGED <<head, track, origin, published>>,
         counts.versions <= counts'.versions, counts.commits = counts'.commits
  PROVE  HistoriesFit' /\ SeenIsPublished'
<1>1. Fits(Tips, counts.commits, counts.versions) /\ Tips' = Tips
  BY FitsTips DEF DInv, Tips
<1>2. /\ counts.versions \in Nat /\ counts.commits \in Nat
      /\ counts'.versions \in Nat /\ counts'.commits \in Nat
  BY CountFacts, HistoryAssumption DEF DInv, DataOK
<1>3. Covered(Tips, Tips)
  BY TipsFacts, PrefixesFacts DEF Covered, DInv
<1>4. Fits(Tips, counts'.commits, counts'.versions)
  BY <1>1, <1>2, <1>3, FitsCovered
<1>5. HistoriesFit'
  BY <1>1, <1>4, FitsTipsNext
<1>6. QED
  BY <1>5 DEF DInv, SeenIsPublished

\* A new version is higher than all there are.
LEMMA NextCounts ==
  ASSUME DataOK, NextVersion \in Versions, counts' = [counts EXCEPT !.versions = @ + 1]
  PROVE  /\ counts' \in [versions : 0..MaxVersion, commits : 0..MaxCommits, outside : 0..MaxOutside]
         /\ counts'.versions = NextVersion /\ counts'.commits = counts.commits
         /\ counts.versions <= counts'.versions /\ counts.versions < NextVersion
<1>1. counts.versions \in Nat /\ NextVersion = counts.versions + 1
  BY CountFacts DEF NextVersion
<1>2. QED
  BY <1>1 DEF DataOK, Versions

\* A file that is written has a version that is newer than any on a branch.
LEMMA EditKeepsData ==
  ASSUME DInv, NEW S \in SUBSET Files, Edit(S) \/ EditUnstaged(S)
  PROVE  DInv'
<1> DEFINE n == NextVersion
<1>1. DataOK /\ index \in Trees /\ work \in Trees /\ saved \in Trees /\ n \in Versions
  BY DEF DInv, DataOK, Edit, EditUnstaged, Trees
<1>2. /\ work' = Written(work, S, n) /\ saved' = Written(saved, S, n)
      /\ index' = index \/ index' = Written(index, S, n)
      /\ counts' = [counts EXCEPT !.versions = @ + 1]
      /\ UNCHANGED <<head, track, github, origin, published>>
  BY DEF Edit, EditUnstaged
<1>3. /\ counts' \in [versions : 0..MaxVersion, commits : 0..MaxCommits, outside : 0..MaxOutside]
      /\ counts'.versions = n /\ counts'.commits = counts.commits
      /\ counts.versions <= counts'.versions /\ counts.versions < n
      /\ counts.versions \in Nat
  BY <1>1, <1>2, NextCounts, CountFacts
<1> HIDE DEF n
<1>4. /\ work' \in Trees /\ index' \in Trees /\ saved' \in Trees
      /\ \A f \in Files : work'[f] = IF f \in S THEN n ELSE work[f]
      /\ \A f \in Files : saved'[f] = IF f \in S THEN n ELSE saved[f]
      /\ \A f \in Files : index'[f] = index[f] \/ index'[f] = n
  BY <1>1, <1>2, WrittenFacts
<1>5. DataOK'
  BY <1>1, <1>2, <1>3, <1>4 DEF DataOK, Trees
<1>6. HistoriesFit' /\ SeenIsPublished'
  BY <1>2, <1>3, <1>5, FitsStay
<1>7. StagedIsNewer'
  <2> SUFFICES ASSUME NEW f \in Files
               PROVE  TreeOf(head)[f] <= index'[f] /\ index'[f] <= n
    BY <1>2, <1>3 DEF StagedIsNewer
  <2>1. TreeOf(head)[f] <= index[f] /\ index[f] <= counts.versions
    BY DEF DInv, StagedIsNewer
  <2>2. TreeOf(head)[f] \in Nat /\ index[f] \in Nat /\ n \in Nat
    BY <1>1, BranchFacts, TreeFacts DEF DataOK, Versions
  <2>3. QED
    BY <1>3, <1>4, <2>1, <2>2
<1>8. UnsentWorkIsKept'
  BY <1>2, <1>4 DEF DInv, UnsentWorkIsKept
<1>9. QED
  BY <1>5, <1>6, <1>7, <1>8 DEF DInv

\* A file that is reverted is as committed, which the user asked for.
LEMMA RevertKeepsData ==
  ASSUME DInv, NEW S \in SUBSET Files, Revert(S)
  PROVE  DInv'
<1> DEFINE Back(tree) == [f \in Files |-> IF f \in S THEN TreeOf(head)[f] ELSE tree[f]]
<1>1. DataOK /\ index \in Trees /\ work \in Trees /\ saved \in Trees /\ TreeOf(head) \in Trees
  BY BranchFacts DEF DInv, DataOK, Trees
<1>2. \A tree \in Trees : Back(tree) \in Trees /\ \A f \in Files : Back(tree)[f] =
                            IF f \in S THEN TreeOf(head)[f] ELSE tree[f]
  BY <1>1 DEF Trees
<1>3. /\ work' = Back(work) /\ index' = Back(index) /\ saved' = Back(saved)
      /\ UNCHANGED <<head, track, github, origin, published, counts>>
  BY DEF Revert
<1> HIDE DEF Back
<1>4. DataOK'
  BY <1>1, <1>2, <1>3 DEF DataOK, Trees
<1>5. HistoriesFit' /\ SeenIsPublished'
  <2>1. counts.versions <= counts'.versions
    BY <1>1, <1>3, CountFacts
  <2>2. QED
    BY <1>3, <1>4, <2>1, FitsStay
<1>6. StagedIsNewer'
  <2> SUFFICES ASSUME NEW f \in Files
               PROVE  TreeOf(head)[f] <= index'[f] /\ index'[f] <= counts.versions
    BY <1>3 DEF StagedIsNewer
  <2>1. TreeOf(head)[f] <= index[f] /\ index[f] <= counts.versions
    BY DEF DInv, StagedIsNewer
  <2>2. TreeOf(head)[f] \in Nat /\ index[f] \in Nat /\ counts.versions \in Nat
    BY <1>1, TreeFacts, CountFacts
  <2>3. QED
    BY <1>1, <1>2, <1>3, <2>1, <2>2
<1>7. UnsentWorkIsKept'
  BY <1>1, <1>2, <1>3 DEF DInv, UnsentWorkIsKept
<1>8. QED
  BY <1>4, <1>5, <1>6, <1>7 DEF DInv

\* No edit disturbs the data.
LEMMA EditsKeepData == ASSUME DInv, Edits PROVE DInv'
BY EditKeepsData, RevertKeepsData DEF Edits

\* The index becomes a commit: nothing in it is older than what HEAD has.
LEMMA BeginPersistKeepsData == ASSUME DInv, BeginPersist PROVE DInv'
<1> DEFINE x == [src |-> counts.commits + 1, tree |-> index]
<1>1. DataOK /\ head \in Branches /\ index \in Trees /\ track \in Refs
  BY DEF DInv, DataOK
<1>2. /\ head' = Append(head, x) /\ counts' = [counts EXCEPT !.commits = @ + 1]
      /\ UNCHANGED <<index, work, track, github, origin, published, saved>>
  BY DEF BeginPersist
<1>3. /\ counts.commits \in Nat /\ counts.versions \in Nat /\ counts.commits < MaxCommits
      /\ MaxCommits \in Nat
  BY <1>1, CountFacts, HistoryAssumption DEF BeginPersist
<1>4. x \in Commits /\ x.src = counts.commits + 1 /\ x.tree = index
  BY <1>1, <1>3, TreeFacts
<1> HIDE DEF x
<1>5. head' \in Branches /\ TreeOf(head') = index
  BY <1>1, <1>2, <1>4, AppendFacts
<1>6. /\ counts' \in [versions : 0..MaxVersion, commits : 0..MaxCommits, outside : 0..MaxOutside]
      /\ counts'.commits = counts.commits + 1 /\ counts'.versions = counts.versions
  BY <1>1, <1>2, <1>3 DEF DataOK
<1>7. DataOK'
  BY <1>1, <1>2, <1>5, <1>6 DEF DataOK
<1>8. \A f \in Files : /\ TreeOf(head)[f] <= index[f] /\ index[f] <= counts.versions
                       /\ index[f] \in Nat
  BY <1>1, TreeFacts DEF DInv, StagedIsNewer
<1>9. HistoriesFit'
  <2>1. Fits(Tips, counts.commits, counts.versions)
    BY <1>1, FitsTips DEF DInv
  <2>2. head \in Tips
    BY <1>1, TipsFacts
  <2>3. Fits(Tips \union {head'}, counts.commits + 1, counts.versions)
    <3>1. Fits(Tips \union {Append(head, x)}, counts.commits + 1, counts.versions)
      <4>1. counts.versions <= counts.versions
        BY <1>3
      <4>2. \A f \in Files : TreeOf(head)[f] <= x.tree[f] /\ x.tree[f] <= counts.versions
        BY <1>4, <1>8
      <4>3. QED
        BY <1>3, <1>4, <2>1, <2>2, <4>1, <4>2, FitsCommit
    <3>2. QED
      BY <1>2, <3>1
  <2>4. Remotes' = Remotes
    BY <1>2 DEF Remotes
  <2>5. Tips' \subseteq Tips \union {head'}
    BY <1>1, <1>7, <2>4, FitsTipsNext, TipsFacts
  <2>6. Fits(Tips', counts'.commits, counts'.versions)
    BY <1>6, <2>3, <2>5 DEF Fits
  <2>7. QED
    BY <1>7, <2>6, FitsTipsNext
<1>10. StagedIsNewer'
  BY <1>2, <1>5, <1>6, <1>8 DEF StagedIsNewer
<1>11. SeenIsPublished' /\ UnsentWorkIsKept'
  BY <1>2 DEF DInv, SeenIsPublished, UnsentWorkIsKept
<1>12. QED
  BY <1>7, <1>9, <1>10, <1>11 DEF DInv

\* Of the operations, only persist_changes changes the clone as it begins.
LEMMA BeginsKeepData == ASSUME DInv, Begins PROVE DInv'
<1>1. CASE BeginPersist
  BY <1>1, BeginPersistKeepsData
<1>2. CASE BeginEnsure \/ \E restore \in BOOLEAN : BeginSync(restore)
  <2>1. UNCHANGED <<localVars, remoteVars, countVars>>
    BY <1>2 DEF BeginEnsure, BeginSync
  <2>2. head' \in Prefixes(head)
    BY <2>1, ShorterHead DEF DInv, DataOK, localVars
  <2>3. QED
    BY <2>1, <2>2, NetKeeps DEF NetStep, Failed, localVars
<1>3. QED
  BY <1>1, <1>2 DEF Begins

-----------------------------------------------------------------------------
(* GitHub, changed by others.                                               *)

\* A branch that somebody sets on GitHub.
LEMMA SetOriginFacts ==
  ASSUME DataOK, NEW branch \in Branches, SetOrigin(branch)
  PROVE  /\ published' \in [Files -> SUBSET Versions] /\ origin' = branch /\ github' = "branch"
         /\ \A f \in Files : published'[f] = published[f] \union VersionsOf(branch, f)
<1>1. \A f \in Files : published[f] \union VersionsOf(branch, f) \subseteq Versions
  BY VersionsFacts DEF DataOK
<1>2. QED
  BY <1>1 DEF SetOrigin

\* A change on GitHub that makes no new commit.
LEMMA OldBranchKeepsData ==
  ASSUME DInv, Outside, CountOutside, NEW b \in Tips, NEW branch \in Prefixes(b),
         \/ SetOrigin(branch)
         \/ branch = <<>> /\ origin' = branch /\ github' \in {"fork", "nothing"} /\ UNCHANGED published
  PROVE  DInv'
<1>1. DataOK /\ b \in Branches /\ branch \in Branches /\ track \in Refs
  BY TipsFacts, PrefixesFacts DEF DInv, DataOK
<1>2. UNCHANGED <<head, index, work, track, saved>>
  BY DEF Outside, localVars
<1>3. /\ counts' \in [versions : 0..MaxVersion, commits : 0..MaxCommits, outside : 0..MaxOutside]
      /\ counts'.versions = counts.versions /\ counts'.commits = counts.commits
      /\ counts.versions \in Nat /\ counts.commits \in Nat
  <2>1. counts.outside \in Nat /\ counts.outside < MaxOutside /\ MaxOutside \in Nat
        /\ counts.versions \in Nat /\ counts.commits \in Nat
    BY <1>1, CountFacts, OutsideAssumption DEF Outside
  <2>2. counts' = [counts EXCEPT !.outside = @ + 1]
    BY DEF CountOutside
  <2>3. QED
    BY <1>1, <2>1, <2>2 DEF DataOK
<1>4. /\ published' \in [Files -> SUBSET Versions] /\ origin' = branch
      /\ github' \in {"branch", "fork", "nothing"} /\ (github' # "branch" => branch = <<>>)
      /\ \A f \in Files : published[f] \subseteq published'[f]
      /\ \A f \in Files : VersionsOf(branch, f) \subseteq published'[f]
  <2>1. CASE SetOrigin(branch)
    BY <1>1, <2>1, SetOriginFacts
  <2>2. CASE branch = <<>> /\ origin' = branch /\ github' \in {"fork", "nothing"} /\ UNCHANGED published
    <3>1. \A f \in Files : VersionsOf(<<>>, f) = {0}
      BY EmptyBranch DEF VersionsOf
    <3>2. \A f \in Files : 0 \in VersionsOf(origin, f)
      BY DEF VersionsOf
    <3>3. \A f \in Files : VersionsOf(origin, f) \subseteq published[f]
      BY DEF DInv, SeenIsPublished
    <3>4. \A f \in Files : VersionsOf(<<>>, f) \subseteq published[f]
      BY <3>1, <3>2, <3>3
    <3>5. published \in [Files -> SUBSET Versions]
      BY <1>1 DEF DataOK
    <3>6. QED
      BY <2>2, <3>4, <3>5
  <2>3. QED
    BY <2>1, <2>2
<1>5. DataOK'
  BY <1>1, <1>2, <1>3, <1>4 DEF DataOK
<1>6. Covered(Remotes', Tips)
  <2>1. Remotes' \subseteq Remotes \union {branch}
    BY <1>2, <1>4 DEF Remotes
  <2>2. \A t \in Remotes : t \in Tips /\ t \in Prefixes(t)
    BY <1>1, TipsFacts, PrefixesFacts
  <2>3. QED
    BY <2>1, <2>2 DEF Covered
<1>7. \A tip \in Remotes', f \in Files : VersionsOf(tip, f) \subseteq published'[f]
  <2>1. \A tip \in Remotes, f \in Files : VersionsOf(tip, f) \subseteq published[f]
    BY DEF DInv, SeenIsPublished, Remotes
  <2>2. Remotes' \subseteq Remotes \union {branch}
    BY <1>2, <1>4 DEF Remotes
  <2>3. QED
    BY <1>4, <2>1, <2>2
<1>8. track' = NoRef \/ track'.tip \in track'.seen
  BY <1>2 DEF DInv, SeenIsPublished
<1>9. head' \in Prefixes(head)
  BY <1>1, <1>2, ShorterHead DEF DataOK
<1>10. counts.versions <= counts'.versions /\ counts.commits <= counts'.commits
  BY <1>3
<1>11. QED
  BY <1>2, <1>4, <1>5, <1>6, <1>7, <1>8, <1>9, <1>10, DataKept

\* Somebody commits: a version that no file had yet.
LEMMA OutsideCommitKeepsData ==
  ASSUME DInv, NEW g \in Files, OutsideCommit(g)
  PROVE  DInv'
<1> DEFINE tree == [TreeOf(origin) EXCEPT ![g] = NextVersion]
           x == [src |-> counts.commits + 1, tree |-> tree]
<1>1. DataOK /\ origin \in Branches /\ TreeOf(origin) \in Trees /\ track \in Refs
  BY BranchFacts DEF DInv, DataOK
<1>2. UNCHANGED <<head, index, work, track, saved>>
  BY DEF OutsideCommit, Outside, localVars
<1>3. /\ counts.commits \in Nat /\ counts.versions \in Nat /\ counts.outside \in Nat
      /\ counts.commits < MaxCommits /\ counts.outside < MaxOutside
      /\ NextVersion = counts.versions + 1 /\ NextVersion \in 0..MaxVersion
      /\ MaxCommits \in Nat /\ MaxOutside \in Nat
  BY <1>1, CountFacts, HistoryAssumption, OutsideAssumption DEF OutsideCommit, Outside, NextVersion, Versions
<1>4. /\ counts' \in [versions : 0..MaxVersion, commits : 0..MaxCommits, outside : 0..MaxOutside]
      /\ counts'.versions = counts.versions + 1 /\ counts'.commits = counts.commits + 1
  <2>1. counts' = [versions |-> NextVersion, commits |-> counts.commits + 1,
                   outside |-> counts.outside + 1]
    BY DEF OutsideCommit
  <2>2. QED
    BY <1>3, <2>1
<1>5. /\ tree \in Trees
      /\ \A f \in Files : tree[f] = IF f = g THEN NextVersion ELSE TreeOf(origin)[f]
  BY <1>1, <1>3 DEF Trees, Versions
<1>7. SetOrigin(Append(origin, x)) /\ github = "branch"
  BY DEF OutsideCommit
<1> HIDE DEF tree
<1>6. x \in Commits /\ x.src = counts.commits + 1
      /\ \A f \in Files : x.tree[f] = IF f = g THEN NextVersion ELSE TreeOf(origin)[f]
  <2>1. counts.commits + 1 \in 1..MaxCommits
    BY <1>3
  <2>2. x \in Commits
    BY <1>5, <2>1, TreeFacts
  <2>3. x.src = counts.commits + 1 /\ x.tree = tree
    OBVIOUS
  <2>4. QED
    BY <1>5, <2>2, <2>3
<1> HIDE DEF x
<1>8. Append(origin, x) \in Branches
  BY <1>1, <1>6, AppendFacts
<1>9. /\ published' \in [Files -> SUBSET Versions] /\ origin' = Append(origin, x) /\ github' = "branch"
      /\ \A f \in Files : published'[f] = published[f] \union VersionsOf(origin', f)
  BY <1>1, <1>7, <1>8, SetOriginFacts
<1>10. DataOK'
  BY <1>1, <1>2, <1>4, <1>8, <1>9 DEF DataOK
<1>11. \A f \in Files : TreeOf(origin)[f] <= x.tree[f] /\ x.tree[f] <= counts.versions + 1
  <2> TAKE f \in Files
  <2>1. TreeOf(origin)[f] \in VersionsOf(origin, f)
    BY <1>1, VersionsFacts
  <2>2. VersionsOf(origin, f) \subseteq 0..counts.versions
    BY DEF DInv, HistoriesFit, Tips
  <2>3. TreeOf(origin)[f] \in 0..counts.versions
    BY <2>1, <2>2
  <2>4. QED
    BY <1>3, <1>6, <2>3
<1>12. HistoriesFit'
  <2>1. Fits(Tips, counts.commits, counts.versions) /\ origin \in Tips
    BY <1>1, FitsTips, TipsFacts DEF DInv
  <2>2. counts.versions + 1 \in Nat /\ counts.versions <= counts.versions + 1
    BY <1>3
  <2>3. Fits(Tips \union {Append(origin, x)}, counts.commits + 1, counts.versions + 1)
    BY <1>3, <1>6, <1>11, <2>1, <2>2, FitsCommit
  <2>4. Tips' \subseteq Tips \union {Append(origin, x)}
    <3>1. Remotes' \subseteq Remotes \union {Append(origin, x)}
      BY <1>2, <1>9 DEF Remotes
    <3>2. QED
      BY <1>1, <1>2, <1>10, <3>1, TipsFacts, FitsTipsNext
  <2>5. Fits(Tips', counts'.commits, counts'.versions)
    BY <1>4, <2>3, <2>4 DEF Fits
  <2>6. QED
    BY <1>10, <2>5, FitsTipsNext
<1>13. StagedIsNewer'
  <2> SUFFICES ASSUME NEW f \in Files
               PROVE  TreeOf(head)[f] <= index[f] /\ index[f] <= counts.versions + 1
    BY <1>2, <1>4 DEF StagedIsNewer
  <2>1. TreeOf(head)[f] <= index[f] /\ index[f] <= counts.versions
    BY DEF DInv, StagedIsNewer
  <2>2. index[f] \in Nat
    BY <1>1, TreeFacts DEF DataOK
  <2>3. QED
    BY <1>3, <2>1, <2>2
<1>14. SeenIsPublished'
  BY <1>2, <1>9 DEF DInv, SeenIsPublished
<1>15. UnsentWorkIsKept'
  BY <1>2, <1>9 DEF DInv, UnsentWorkIsKept
<1>16. QED
  BY <1>10, <1>12, <1>13, <1>14, <1>15 DEF DInv

\* Nothing that others do on GitHub disturbs the data.
LEMMA GitHubKeepsData == ASSUME DInv, GitHub PROVE DInv'
<1>1. DataOK /\ head \in Branches /\ origin \in Branches /\ track.tip \in Branches
      /\ head \in Tips /\ origin \in Tips /\ track.tip \in Tips
  BY TipsFacts DEF DInv, DataOK
<1>2. CASE \E f \in Files : OutsideCommit(f)
  BY <1>2, OutsideCommitKeepsData
<1>3. CASE \E n \in 0..MaxCommits : DropCommits(n)
  <2>1. PICK n \in 0..MaxCommits : DropCommits(n)
    BY <1>3
  <2>2. n \in 0..Len(origin)
    BY <1>1, <2>1, BranchFacts, HistoryAssumption DEF DropCommits
  <2>3. SubSeq(origin, 1, n) \in Prefixes(origin)
    BY <1>1, <2>2, PrefixesFacts
  <2>4. QED
    BY <1>1, <2>1, <2>3, OldBranchKeepsData DEF DropCommits
<1>4. CASE \E branch \in Prefixes(track.tip) \union Prefixes(head) : RecreateBranch(branch)
  BY <1>1, <1>4, OldBranchKeepsData DEF RecreateBranch
<1>5. CASE DeleteBranch \/ DeleteFork \/ RecreateFork
  <2>1. <<>> \in Prefixes(origin)
    BY <1>1, PrefixesFacts
  <2>2. /\ Outside /\ CountOutside /\ origin' = <<>> /\ github' \in {"fork", "nothing"}
        /\ UNCHANGED published
    BY <1>1, <1>5 DEF DeleteBranch, DeleteFork, RecreateFork, DataOK
  <2>3. QED
    BY <1>1, <2>1, <2>2, OldBranchKeepsData
<1>6. QED
  BY <1>2, <1>3, <1>4, <1>5 DEF GitHub

\* A workspace that was just created.
LEMMA InitData == Init => DInv
<1> SUFFICES ASSUME Init PROVE DInv
  OBVIOUS
<1>1. /\ head = <<>> /\ index = UpstreamTree /\ work = UpstreamTree /\ saved = UpstreamTree
      /\ track = Moved(NoRef, <<>>) /\ github = "branch" /\ origin = <<>>
      /\ published = [f \in Files |-> {0}]
      /\ counts = [versions |-> 0, commits |-> 0, outside |-> 0]
  BY DEF Init
<1>2. track \in Refs /\ track.tip = <<>> /\ track.seen = {<<>>}
  BY <1>1, NoRefFacts, MovedFacts, EmptyBranch
<1>3. DataOK
  BY <1>1, <1>2, EmptyBranch, TreeFacts, HistoryAssumption, OutsideAssumption DEF DataOK, Trees
<1>4. Tips = {<<>>}
  BY <1>1, <1>2 DEF Tips
<1>5. \A f \in Files : VersionsOf(<<>>, f) = {0}
  BY EmptyBranch DEF VersionsOf
<1>6. SamePlace(<<>>, <<>>) /\ Rising(<<>>) /\ Srcs(<<>>) = {}
  BY EmptyBranch DEF SamePlace, Rising, Srcs
<1>7. HistoriesFit
  BY <1>1, <1>4, <1>5, <1>6 DEF HistoriesFit
<1>8. StagedIsNewer
  BY <1>1, EmptyTree DEF StagedIsNewer, UpstreamTree
<1>9. SeenIsPublished
  BY <1>1, <1>2, <1>5 DEF SeenIsPublished
<1>10. UnsentWorkIsKept
  BY <1>1 DEF UnsentWorkIsKept
<1>11. QED
  BY <1>3, <1>7, <1>8, <1>9, <1>10 DEF DInv

\* Nothing happens.
LEMMA StutterKeepsData == ASSUME DInv, UNCHANGED vars PROVE DInv'
<1>1. head' \in Prefixes(head) /\ UNCHANGED <<index, work, countVars>> /\ Failed
  BY ShorterHead DEF vars, DInv, DataOK, Failed, remoteVars, countVars
<1>2. QED
  BY <1>1, NetKeeps DEF NetStep

\* A push adds no commit that the branch dropped: a commit that HEAD shares with a
\* tip of the reflog has its history there too, so that HEAD would have been refused.
LEMMA LeasedPushBringsNone ==
  ASSUME DInv, ServerPush, github = "branch", origin' # origin,
         NEW src \in Srcs(origin') \ Srcs(origin), NEW tip \in track.seen
  PROVE  src \notin Srcs(tip)
<1> SUFFICES ASSUME src \in Srcs(tip) PROVE FALSE
  OBVIOUS
<1>1. LeasedPush /\ Landed
  BY DEF ServerPush, Push, Deliver, LastPush, Confirmed, Lost, Failed, remoteVars
<1>2. origin' = head
  BY <1>1 DEF Landed
<1>3. track # NoRef /\ origin = track.tip
  BY <1>1, <1>2 DEF LeasedPush, Leased
<1>4. head \in Branches /\ track \in Refs /\ tip \in Branches /\ origin \in Branches
  BY DEF DInv, DataOK, Refs
<1>5. PICK i \in 1..Len(head) : src = head[i].src
  BY <1>2 DEF Srcs
<1>6. PICK j \in 1..Len(tip) : src = tip[j].src
  BY DEF Srcs
<1>7. SamePlace(head, tip)
  BY DEF DInv, HistoriesFit, Tips
<1>8. i = j /\ \A k \in 1..i : head[k] = tip[k]
  BY <1>5, <1>6, <1>7 DEF SamePlace
<1>9. i <= Shared(head, tip) /\ Shared(head, tip) \in Nat /\ i \in Nat
  <2>1. Len(head) \in Nat /\ Len(tip) \in Nat /\ i \in 0..Len(head) /\ i <= Len(tip)
    BY <1>4, <1>5, <1>6, <1>8, BranchFacts
  <2>2. QED
    BY <1>4, <1>8, <2>1, SharedFacts
<1>10. i <= Shared(head, track.tip)
  <2>1. /\ Shared(head, tip) <= EverOnOrigin(head, track) /\ EverOnOrigin(head, track) \in 0..Len(head)
        /\ Len(head) \in Nat
    BY <1>4, EverFacts, BranchFacts
  <2>2. ~(Shared(head, track.tip) < EverOnOrigin(head, track))
    BY <1>1, <1>3 DEF LeasedPush, Refused, Rewritten
  <2>3. Shared(head, track.tip) \in 0..Len(head)
    BY <1>3, <1>4, SharedFacts
  <2>4. QED
    BY <1>9, <2>1, <2>2, <2>3
<1>11. head[i] = origin[i] /\ i \in 1..Len(origin)
  <2>1. /\ Shared(head, origin) \in 0..Len(head) /\ Shared(head, origin) <= Len(origin)
        /\ \A k \in 1..Shared(head, origin) : head[k] = origin[k]
        /\ Len(head) \in Nat /\ Len(origin) \in Nat
    BY <1>4, SharedFacts, BranchFacts
  <2>2. QED
    BY <1>3, <1>5, <1>10, <2>1
<1>12. src \in Srcs(origin)
  BY <1>5, <1>11 DEF Srcs
<1>13. QED
  BY <1>12

\* Versions rise along the branch on GitHub, so that none enters it twice.
LEMMA RisingEntersOnce == DInv => NoChangeTwice
<1> SUFFICES ASSUME DInv, NEW f \in Files, NEW i \in 1..Len(origin), NEW j \in 1..Len(origin), i < j,
                    origin[j].tree[f] # TreeOf(SubSeq(origin, 1, j - 1))[f]
             PROVE  origin[i].tree[f] # origin[j].tree[f]
  BY DEF NoChangeTwice
<1>1. origin \in Branches /\ Rising(origin)
  BY DEF DInv, DataOK, HistoriesFit, Tips
<1>2. Len(origin) \in Nat /\ j - 1 \in 0..Len(origin) /\ j - 1 \in 1..Len(origin)
      /\ i <= j - 1 /\ j - 1 <= j /\ j - 1 # 0
  BY <1>1, BranchFacts
<1>3. TreeOf(SubSeq(origin, 1, j - 1)) = origin[j - 1].tree
  BY <1>1, <1>2, PrefixFacts
<1>4. origin[i].tree[f] <= origin[j - 1].tree[f] /\ origin[j - 1].tree[f] <= origin[j].tree[f]
  BY <1>1, <1>2 DEF Rising
<1>5. origin[i].tree[f] \in Nat /\ origin[j].tree[f] \in Nat /\ origin[j - 1].tree[f] \in Nat
  BY <1>1, <1>2, BranchFacts, TreeFacts
<1>6. QED
  BY <1>3, <1>4, <1>5

-----------------------------------------------------------------------------
(* The operation in progress, and the report of the last one.               *)

Jobs == [task : Tasks, pc : Steps, restore : BOOLEAN, commit : Branches,
         status : SyncStatuses \union {"none"}, retried : BOOLEAN, missed : BOOLEAN]
Reports == [answer : Answers, commit : Branches, status : SyncStatuses \union {"none"},
            missed : BOOLEAN]

JobOK == (job = NoJob \/ job \in Jobs) /\ (report = NoReport \/ report \in Reports)

\* The part of the invariant that speaks of the operation in progress and of what
\* the last one reported.
KInv == /\ JobOK /\ CommitFits /\ PhaseFits
        /\ CommittedIsOnGitHub /\ RefusedIsUndone /\ NothingLeftBehind

\* TypeOK in two parts.
LEMMA TypeParts == TypeOK <=> DataOK /\ JobOK
BY DEF TypeOK, DataOK, JobOK, Jobs, Reports

\* No operation, and no report.
LEMMA NoJobFacts ==
  /\ NoJob.task = "none" /\ NoJob.pc = "idle" /\ NoJob.status = "none"
  /\ NoReport.answer = "none"
BY DEF NoJob, NoReport

\* An operation that has a step to take is under way.
LEMMA JobFacts ==
  ASSUME KInv
  PROVE  /\ job \in Jobs <=> job # NoJob
         /\ job.pc # "idle" => job \in Jobs
         /\ job.task # "none" => job \in Jobs
<1>1. \A j \in Jobs : j # NoJob
  BY DEF Jobs, Steps, NoJob
<1>2. QED
  BY <1>1, NoJobFacts DEF KInv, JobOK

\* What holds while an operation is under way.
LEMMA Underway ==
  ASSUME job' \in Jobs, report' = NoReport, CommitFits', PhaseFits'
  PROVE  KInv'
BY NoJobFacts DEF KInv, JobOK, CommittedIsOnGitHub, RefusedIsUndone, NothingLeftBehind

\* What holds between two operations, without a report.
LEMMA NothingSaid ==
  ASSUME job' = NoJob, report' = NoReport
  PROVE  KInv'
<1>1. JobOK'
  BY DEF JobOK
<1>2. CommitFits' /\ PhaseFits'
  BY NoJobFacts DEF CommitFits, PhaseFits
<1>3. CommittedIsOnGitHub' /\ RefusedIsUndone' /\ NothingLeftBehind'
  BY NoJobFacts DEF CommittedIsOnGitHub, RefusedIsUndone, NothingLeftBehind
<1>4. QED
  BY <1>1, <1>2, <1>3 DEF KInv

\* The end of an operation, by its answer.
SyncIsDone == ~job.missed /\ job.status \in {"up_to_date", "updated", "merged", "remote_restored"}

\* An operation ends with an answer that its properties allow.
LEMMA Ended ==
  ASSUME job \in Jobs, NEW a \in Answers, Answer(a),
         a = "committed" => track' # NoRef /\ Reaches(track'.tip, job.commit),
         a \in {"rejected", "conflict"} =>
           /\ ~Reaches(head', job.commit) /\ ~Reaches(track'.tip, job.commit)
           /\ index' = TreeOf(job.commit),
         a = "ensured" \/ (a = "synced" /\ SyncIsDone) => Sent'
  PROVE  KInv'
<1>1. /\ job' = NoJob
      /\ report' = [answer |-> a, commit |-> job.commit, status |-> job.status,
                    missed |-> job.missed]
  BY DEF Answer
<1>2. /\ report' \in Reports /\ report'.answer = a /\ report'.commit = job.commit
      /\ report'.status = job.status /\ report'.missed = job.missed
  BY <1>1 DEF Jobs, Reports
<1>3. JobOK'
  BY <1>1, <1>2 DEF JobOK
<1>4. CommitFits' /\ PhaseFits'
  BY <1>1, NoJobFacts DEF CommitFits, PhaseFits
<1>5. CommittedIsOnGitHub'
  BY <1>2 DEF CommittedIsOnGitHub
<1>6. RefusedIsUndone'
  BY <1>2 DEF RefusedIsUndone
<1>7. NothingLeftBehind'
  BY <1>2 DEF NothingLeftBehind, SyncIsDone
<1>8. QED
  BY <1>3, <1>4, <1>5, <1>6, <1>7 DEF KInv

\* An answer of which no property speaks.
LEMMA EndedQuietly ==
  ASSUME job \in Jobs, NEW a \in {"unsent", "unsynced", "failed"}, Answer(a)
  PROVE  KInv'
<1>1. a \in Answers
  BY DEF Answers
<1>2. QED
  BY <1>1, Ended

Early == {"push", "repair", "repush", "fetch", "restore"}

\* An operation turns to another step, before it has a status.
LEMMA TurnsTo ==
  ASSUME KInv, job \in Jobs, job.pc \in Early, NEW pc \in Early, GoTo(pc),
         pc = "push" => job.task # "sync", UNCHANGED <<head, index>>
  PROVE  KInv'
<1>1. job' = [job EXCEPT !.pc = pc] /\ report' = report
  BY DEF GoTo
<1>2. job' \in Jobs /\ job'.pc = pc /\ job'.task = job.task /\ job'.commit = job.commit
      /\ job'.status = job.status
  BY <1>1 DEF Jobs, Steps, Early
<1>3. job # NoJob /\ report' = NoReport
  BY <1>1, JobFacts DEF KInv, PhaseFits
<1>4. job.status = "none"
  BY DEF KInv, PhaseFits, Early
<1>5. CommitFits'
  BY <1>2 DEF KInv, CommitFits
<1>6. PhaseFits'
  BY <1>2, <1>3, <1>4 DEF PhaseFits, Early
<1>7. QED
  BY <1>2, <1>3, <1>5, <1>6, Underway

\* A RemoteAccessError ends the operation without a claim, or it goes on.
LEMMA RemoteErrorFits ==
  ASSUME KInv, job \in Jobs, job.pc \in Early, RemoteAccessError
  PROVE  KInv'
<1>1. CASE Recovering
  BY <1>1, EndedQuietly DEF RemoteAccessError
<1>2. CASE ~Recovering
  <2>1. UNCHANGED <<head, index>>
    BY <1>2 DEF RemoteAccessError
  <2>2. GoTo("repair") \/ GoTo("fetch") \/ Answer("failed")
    BY <1>2 DEF RemoteAccessError
  <2>3. QED
    BY <2>1, <2>2, TurnsTo, EndedQuietly DEF Early
<1>3. QED
  BY <1>1, <1>2

\* So does any other error.
LEMMA OtherErrorFits ==
  ASSUME KInv, job \in Jobs, job.pc \in Early, OtherError
  PROVE  KInv'
<1>1. UNCHANGED <<head, index>>
  BY DEF OtherError
<1>2. GoTo("fetch") \/ Answer("failed")
  BY DEF OtherError
<1>3. QED
  BY <1>1, <1>2, TurnsTo, EndedQuietly DEF Early

\* A branch has all of itself.
LEMMA SelfReached == ASSUME NEW b PROVE Reaches(b, b)
BY DEF Reaches

\* A confirmed push leaves nothing unsent.
LEMMA ConfirmedIsSent ==
  ASSUME DInv, Confirmed, UNCHANGED head
  PROVE  track' # NoRef /\ track'.tip = head /\ Sent'
<1>1. head \in Branches /\ track \in Refs
  BY DEF DInv, DataOK
<1>2. track' = Moved(track, head)
  BY DEF Confirmed
<1>3. track' \in Refs /\ track'.tip = head /\ track' # NoRef
  BY <1>1, <1>2, MovedFacts
<1>4. Unpushed(head, track') = <<>>
  BY <1>1, <1>3, SelfReached, UnpushedFacts
<1>5. QED
  BY <1>3, <1>4 DEF Sent

\* As for a branch that the one on GitHub descends from.
LEMMA ReachedIsSent ==
  ASSUME NEW h \in Branches, NEW ref \in Refs, Reaches(ref.tip, h)
  PROVE  Unpushed(h, ref) = <<>>
BY UnpushedFacts

\* An operation has its status and is concluded, or has its result delivered.
LEMMA Concludes ==
  ASSUME KInv, job \in Jobs, UNCHANGED <<head, index, report>>,
         NEW pc \in {"conclude", "deliver"}, NEW status \in SyncStatuses, NEW missed \in BOOLEAN,
         job.task # "ensure", job.status = "none" \/ job.status = status,
         job' = [job EXCEPT !.pc = pc, !.status = status, !.missed = missed],
         status \in {"updated", "merged"} => job.status = status /\ pc = "conclude",
         status = "updated" => track' # NoRef /\ head = track'.tip,
         pc = "deliver" => status = "up_to_date",
         pc = "conclude" /\ status = "conflict" /\ job.task = "persist" => ~Reaches(track'.tip, job.commit),
         pc = "conclude" /\ status \in {"up_to_date", "updated", "merged", "remote_restored"} /\ ~missed
           => Sent'
  PROVE  KInv'
<1>1. job' \in Jobs /\ job'.pc = pc /\ job'.status = status /\ job'.missed = missed
      /\ job'.task = job.task /\ job'.commit = job.commit
  BY DEF Jobs, Steps
<1>2. report' = NoReport /\ job # NoJob
  BY JobFacts DEF KInv, PhaseFits
<1>3. CommitFits'
  <2> SUFFICES ASSUME job.task = "persist"
               PROVE  /\ Reaches(head, job.commit)
                      /\ status \notin {"updated", "merged"} =>
                           job.commit # <<>> /\ head = job.commit /\ index = TreeOf(head)
    BY <1>1 DEF CommitFits
  <2>1. Reaches(head, job.commit)
    BY DEF KInv, CommitFits
  <2>2. ASSUME status \notin {"updated", "merged"}
        PROVE  job.status \notin {"updated", "merged"}
    BY <2>2
  <2>3. QED
    BY <2>1, <2>2 DEF KInv, CommitFits
<1>4. PhaseFits'
  BY <1>1, <1>2 DEF PhaseFits
<1>5. QED
  BY <1>1, <1>2, <1>3, <1>4, Underway

-----------------------------------------------------------------------------
(* Each step of an operation.                                               *)

\* A confirmed push has put all of HEAD on GitHub.
LEMMA PushFits ==
  ASSUME DInv, KInv, Push
  PROVE  KInv'
<1>1. job.pc = "push" /\ job \in Jobs /\ job.pc \in Early
  BY JobFacts DEF Push, Early
<1>2. CASE Confirmed /\ Answer(IF job.task = "persist" THEN "committed" ELSE "ensured")
           /\ UNCHANGED <<head, index, work>>
  <2>1. track' # NoRef /\ track'.tip = head /\ Sent'
    BY <1>2, ConfirmedIsSent
  <2>2. job.task = "persist" => Reaches(head, job.commit)
    BY DEF KInv, CommitFits
  <2>3. CASE job.task = "persist"
    BY <1>1, <1>2, <2>1, <2>2, <2>3, Ended DEF Answers
  <2>4. CASE job.task # "persist"
    BY <1>1, <1>2, <2>1, <2>4, Ended DEF Answers
  <2>5. QED
    BY <2>3, <2>4
<1>3. CASE RemoteAccessError \/ OtherError
  BY <1>1, <1>3, RemoteErrorFits, OtherErrorFits
<1>4. QED
  BY <1>2, <1>3 DEF Push

\* A delivery that failed is noted, and nothing is claimed of it.
LEMMA DeliverFits == ASSUME DInv, KInv, Deliver PROVE KInv'
<1>1. /\ job.pc = "deliver" /\ job \in Jobs /\ job.task # "ensure"
      /\ job.status \in {"up_to_date", "merged"}
  BY JobFacts DEF Deliver, KInv, PhaseFits
<1>2. UNCHANGED <<head, index>>
  BY DEF Deliver
<1>3. job.status \in SyncStatuses /\ job.missed \in BOOLEAN
  BY <1>1 DEF Jobs, SyncStatuses
<1>4. CASE Confirmed /\ GoTo("conclude")
  <2>1. Sent'
    BY <1>2, <1>4, ConfirmedIsSent
  <2>2. job' = [job EXCEPT !.pc = "conclude", !.status = job.status, !.missed = job.missed]
    BY <1>1, <1>4 DEF GoTo, Jobs
  <2>3. UNCHANGED report
    BY <1>4 DEF GoTo
  <2>4. QED
    BY <1>1, <1>2, <1>3, <2>1, <2>2, <2>3, Concludes
<1>5. CASE job' = [job EXCEPT !.pc = "conclude", !.missed = TRUE] /\ UNCHANGED report
  <2>1. job' = [job EXCEPT !.pc = "conclude", !.status = job.status, !.missed = TRUE]
    BY <1>1, <1>5 DEF Jobs
  <2>2. QED
    BY <1>1, <1>2, <1>3, <1>5, <2>1, Concludes
<1>6. QED
  BY <1>4, <1>5 DEF Deliver

\* The push after a sync that replayed the commit.
LEMMA LastPushFits == ASSUME DInv, KInv, LastPush PROVE KInv'
<1>1. job.pc = "last" /\ job \in Jobs /\ job.task = "persist" /\ UNCHANGED <<head, index>>
  BY JobFacts DEF LastPush
<1>2. CASE Confirmed /\ Answer("committed")
  <2>1. track' # NoRef /\ track'.tip = head
    BY <1>1, <1>2, ConfirmedIsSent
  <2>2. Reaches(head, job.commit)
    BY <1>1 DEF KInv, CommitFits
  <2>3. QED
    BY <1>1, <1>2, <2>1, <2>2, Ended DEF Answers
<1>3. CASE Answer("unsent")
  BY <1>1, <1>3, EndedQuietly
<1>4. QED
  BY <1>2, <1>3 DEF LastPush

\* The push that brings back a missing branch.
LEMMA RestoreFits == ASSUME DInv, KInv, Restore PROVE KInv'
<1>1. /\ job.pc = "restore" /\ job \in Jobs /\ job.pc \in Early
      /\ job.status = "none" /\ job.missed \in BOOLEAN
  BY JobFacts DEF Restore, Early, KInv, PhaseFits, Jobs
<1>2. CASE RemoteAccessError
  BY <1>1, <1>2, RemoteErrorFits
<1>3. CASE Confirmed /\ UNCHANGED <<head, index, work>> /\ job.task = "ensure" /\ Answer("ensured")
  BY <1>1, <1>3, ConfirmedIsSent, Ended DEF Answers
<1>4. CASE /\ Confirmed /\ UNCHANGED <<head, index, work, report>> /\ job.task # "ensure"
           /\ job' = [job EXCEPT !.pc = "conclude", !.status = "remote_restored"]
  <2>1. Sent'
    BY <1>4, ConfirmedIsSent
  <2>2. job' = [job EXCEPT !.pc = "conclude", !.status = "remote_restored", !.missed = job.missed]
    BY <1>1, <1>4 DEF Jobs
  <2>3. "remote_restored" \in SyncStatuses
    BY DEF SyncStatuses
  <2>4. QED
    BY <1>1, <1>4, <2>1, <2>2, <2>3, Concludes
<1>5. QED
  BY <1>2, <1>3, <1>4 DEF Restore

\* The fork is created anew, or is not.
LEMMA RepairFits == ASSUME DInv, KInv, Repair PROVE KInv'
<1>1. job.pc = "repair" /\ job \in Jobs /\ job.pc \in Early
  BY JobFacts DEF Repair, Early
<1>2. CASE OtherError
  BY <1>1, <1>2, OtherErrorFits
<1>3. CASE GoTo("repush") /\ UNCHANGED <<head, index, work>>
  BY <1>1, <1>3, TurnsTo DEF Early
<1>4. QED
  BY <1>2, <1>3 DEF Repair

\* The operation runs once more.
LEMMA RepushFits == ASSUME DInv, KInv, Repush PROVE KInv'
<1>1. job.pc = "repush" /\ job \in Jobs /\ job.pc \in Early
  BY JobFacts DEF Repush, Early
<1>2. CASE OtherError
  BY <1>1, <1>2, OtherErrorFits
<1>3. CASE /\ job' = [job EXCEPT !.pc = IF job.task = "persist" THEN "push" ELSE "fetch",
                                 !.retried = TRUE]
           /\ UNCHANGED <<report, head, index, work>>
  <2> DEFINE pc == IF job.task = "persist" THEN "push" ELSE "fetch"
  <2>1. pc \in Steps /\ pc \in Early /\ (pc = "push" => job.task = "persist")
    BY DEF Steps, Early
  <2>2. job' = [job EXCEPT !.pc = pc, !.retried = TRUE]
    BY <1>3
  <2> HIDE DEF pc
  <2>3. job' \in Jobs /\ job'.pc = pc /\ job'.task = job.task /\ job'.commit = job.commit
        /\ job'.status = job.status
    BY <1>1, <2>1, <2>2 DEF Jobs
  <2>4. report' = NoReport
    BY <1>1, <1>3, JobFacts DEF KInv, PhaseFits
  <2>5. CommitFits'
    BY <1>3, <2>3 DEF KInv, CommitFits
  <2>6. job.status = "none"
    BY <1>1 DEF KInv, PhaseFits
  <2>7. PhaseFits'
    BY <2>1, <2>3, <2>4, <2>6 DEF PhaseFits, Early
  <2>8. QED
    BY <2>3, <2>4, <2>5, <2>7, Underway
<1>4. QED
  BY <1>2, <1>3 DEF Repush

-----------------------------------------------------------------------------
(* What follows a fetch.                                                    *)

\* At a fetch: the operation has no status, and the commit is at the tip of HEAD.
LEMMA FetchingFacts ==
  ASSUME DInv, KInv, job.pc = "fetch"
  PROVE  /\ job \in Jobs /\ job.pc \in Early /\ job.status = "none" /\ job.missed \in BOOLEAN
         /\ head \in Branches
         /\ job.task = "persist" => job.commit = head /\ head # <<>>
<1>1. job \in Jobs /\ job.status = "none"
  BY JobFacts DEF KInv, PhaseFits
<1>2. QED
  BY <1>1 DEF DInv, DataOK, Early, Jobs, KInv, CommitFits

\* What the fetch leaves is a reference.
LEMMA FetchedFacts ==
  ASSUME DInv, track' = Fetched
  PROVE  track' \in Refs
BY MovedFacts, NoRefFacts DEF Fetched, DInv, DataOK

\* The fetch fails.
LEMMA FetchFailsFits == ASSUME DInv, KInv, FetchFails PROVE KInv'
BY FetchingFacts, RemoteErrorFits DEF FetchFails

\* A proposal goes on only when nothing is unpushed.
LEMMA FetchToEnsureFits == ASSUME DInv, KInv, FetchToEnsure PROVE KInv'
<1>1. /\ job \in Jobs /\ job.pc \in Early /\ job.task = "ensure" /\ UNCHANGED <<head, index>>
  BY FetchingFacts DEF FetchToEnsure
<1>2. CASE GoTo("restore") \/ GoTo("push")
  BY <1>1, <1>2, TurnsTo DEF Early
<1>3. CASE track' # NoRef /\ Unpushed(head, track') = <<>> /\ Answer("ensured")
  <2>1. Sent'
    BY <1>1, <1>3 DEF Sent
  <2>2. QED
    BY <1>1, <1>3, <2>1, Ended DEF Answers
<1>4. QED
  BY <1>2, <1>3 DEF FetchToEnsure

\* A sync that settles at once.
LEMMA SettleFits ==
  ASSUME DInv, KInv, job.pc = "fetch", job.task # "ensure",
         NEW status \in {"remote_missing", "dirty", "up_to_date", "conflict"}, Settle(status),
         status = "up_to_date" => Sent',
         status = "conflict" /\ job.task = "persist" => ~Reaches(track'.tip, job.commit)
  PROVE  KInv'
<1>1. job \in Jobs /\ job.status = "none" /\ job.missed \in BOOLEAN
  BY FetchingFacts
<1>2. job' = [job EXCEPT !.pc = "conclude", !.status = status] /\ UNCHANGED <<report, head, index>>
  BY DEF Settle
<1>3. job' = [job EXCEPT !.pc = "conclude", !.status = status, !.missed = job.missed]
  BY <1>1, <1>2 DEF Jobs
<1>4. status \in SyncStatuses
  BY DEF SyncStatuses
<1>5. QED
  BY <1>1, <1>2, <1>3, <1>4, Concludes

\* A sync that finds nothing to replay.
LEMMA FetchToSettleFits == ASSUME DInv, KInv, FetchToSettle PROVE KInv'
<1>1. /\ job \in Jobs /\ job.pc = "fetch" /\ job.pc \in Early /\ job.task # "ensure"
      /\ job.status = "none" /\ job.missed \in BOOLEAN /\ head \in Branches
  BY FetchingFacts DEF FetchToSettle
<1>2. track' \in Refs
  BY FetchedFacts DEF FetchToSettle
<1>3. CASE Settle("remote_missing") \/ Settle("dirty")
  BY <1>1, <1>3, SettleFits
<1>4. CASE GoTo("restore") /\ UNCHANGED <<head, index, work>>
  BY <1>1, <1>4, TurnsTo DEF Early
<1>5. CASE /\ track' # NoRef /\ Ahead(head, track'.tip) = 0 /\ Settle("up_to_date")
  <2>1. track'.tip \in Branches
    BY <1>2 DEF Refs
  <2>2. Len(head) \in Nat /\ Shared(head, track'.tip) \in 0..Len(head)
        /\ Shared(head, track'.tip) <= Len(track'.tip)
        /\ \A i \in 1..Shared(head, track'.tip) : head[i] = track'.tip[i]
    BY <1>1, <2>1, SharedFacts, BranchFacts
  <2>3. Shared(head, track'.tip) = Len(head)
    BY <1>5, <2>2 DEF Ahead
  <2>4. Reaches(track'.tip, head)
    BY <1>1, <2>1, <2>2, <2>3, ReachesFacts
  <2>5. Unpushed(head, track') = <<>>
    BY <1>1, <1>2, <2>4, ReachedIsSent
  <2>6. Sent'
    BY <1>5, <2>5 DEF Sent, Settle
  <2>7. QED
    BY <1>1, <1>5, <2>6, SettleFits
<1>6. CASE /\ job' = [job EXCEPT !.pc = "deliver", !.status = "up_to_date"]
           /\ UNCHANGED <<report, head, index, work>>
  <2>1. job' = [job EXCEPT !.pc = "deliver", !.status = "up_to_date", !.missed = job.missed]
    BY <1>1, <1>6 DEF Jobs
  <2>2. "up_to_date" \in SyncStatuses
    BY DEF SyncStatuses
  <2>3. QED
    BY <1>1, <1>6, <2>1, <2>2, Concludes
<1>7. QED
  BY <1>3, <1>4, <1>5, <1>6 DEF FetchToSettle

\* A sync that replays. It has a conflict only where it had something to replay, so
\* that the commit is not on GitHub yet.
LEMMA FetchToReplayFits == ASSUME DInv, DInv', KInv, FetchToReplay PROVE KInv'
<1> DEFINE n == EverOnOrigin(head, track')
           replay == Replay(head, n, track'.tip)
           updated == head' = track'.tip
           pc == IF updated THEN "conclude" ELSE "deliver"
           status == IF updated THEN "updated" ELSE "merged"
           commit == IF job.task = "persist" /\ ~Reaches(head', job.commit) THEN head' ELSE job.commit
<1>1. /\ job \in Jobs /\ job.pc = "fetch" /\ job.task # "ensure" /\ job.status = "none"
      /\ head \in Branches /\ (job.task = "persist" => job.commit = head)
  BY FetchingFacts DEF FetchToReplay
<1>2. track' \in Refs /\ track' # NoRef /\ head' \in Branches
  BY FetchedFacts DEF FetchToReplay, DInv, DataOK
<1>3. CASE replay.conflicts # {}
  <2>1. Settle("conflict")
    BY <1>3 DEF FetchToReplay
  <2>2. ASSUME Reaches(track'.tip, head) PROVE FALSE
    <3>1. track'.tip \in Branches /\ Len(head) \in Nat
      BY <1>1, <1>2, BranchFacts DEF Refs
    <3>2. Len(head) <= Len(track'.tip) /\ \A i \in 1..Len(head) : head[i] = track'.tip[i]
      BY <1>1, <2>2, <3>1, ReachesFacts
    <3>3. Len(head) \in 0..Len(head)
      BY <3>1
    <3>4. Len(head) <= Shared(head, track'.tip) /\ Shared(head, track'.tip) \in 0..Len(head)
      BY <1>1, <3>1, <3>2, <3>3, SharedFacts
    <3>5. Shared(head, track'.tip) <= n /\ n \in 0..Len(head)
      BY <1>1, <1>2, EverFacts
    <3>6. n = Len(head)
      BY <3>1, <3>4, <3>5
    <3>7. QED
      BY <1>1, <1>3, <3>6, NothingToReplay
  <2> HIDE DEF n, replay, updated, pc, status, commit
  <2>3. job.task = "persist" => ~Reaches(track'.tip, job.commit)
    BY <1>1, <2>2
  <2>4. QED
    BY <1>1, <2>1, <2>3, SettleFits
<1>4. CASE replay.conflicts = {}
  <2>1. /\ job' = [job EXCEPT !.pc = pc, !.status = status, !.commit = commit]
        /\ index' = TreeOf(head') /\ UNCHANGED report
    BY <1>4 DEF FetchToReplay
  <2>2. pc \in {"conclude", "deliver"} /\ pc \in Steps /\ status \in {"updated", "merged"}
        /\ (pc = "conclude" => updated) /\ (status = "updated" => updated)
        /\ (pc = "deliver" => status = "merged") /\ (pc = "conclude" => status = "updated")
    BY DEF Steps
  <2>3. commit \in Branches
    BY <1>1, <1>2 DEF Jobs
  <2>4. job.task = "persist" => Reaches(head', commit)
    BY SelfReached
  <2>5. updated => head' = track'.tip
    OBVIOUS
  <2> HIDE DEF n, replay, updated, pc, status, commit
  <2>6. job' \in Jobs /\ job'.pc = pc /\ job'.status = status /\ job'.commit = commit
        /\ job'.task = job.task
    BY <1>1, <2>1, <2>2, <2>3 DEF Jobs, SyncStatuses
  <2>7. report' = NoReport
    BY <1>1, <2>1, JobFacts DEF KInv, PhaseFits
  <2>8. CommitFits'
    BY <2>2, <2>4, <2>6 DEF CommitFits
  <2>9. updated => Sent'
    <3> SUFFICES ASSUME updated PROVE Sent'
      OBVIOUS
    <3>1. Reaches(track'.tip, head')
      BY <2>5, SelfReached
    <3>2. Unpushed(head', track') = <<>>
      BY <1>2, <3>1, ReachedIsSent
    <3>3. QED
      BY <1>2, <3>2 DEF Sent
  <2>10. status \in SyncStatuses
    BY <2>2 DEF SyncStatuses
  <2>11. PhaseFits'
    BY <1>1, <1>2, <2>2, <2>5, <2>6, <2>7, <2>9, <2>10 DEF PhaseFits
  <2>12. QED
    BY <2>6, <2>7, <2>8, <2>11, Underway
<1>5. QED
  BY <1>3, <1>4

\* The replay itself fails.
LEMMA ReplayFailsFits == ASSUME DInv, KInv, ReplayFails PROVE KInv'
<1>1. job \in Jobs
  BY FetchingFacts DEF ReplayFails
<1>2. Answer("unsynced") \/ Answer("failed")
  BY DEF ReplayFails
<1>3. QED
  BY <1>1, <1>2, EndedQuietly

-----------------------------------------------------------------------------
(* What an operation makes of it.                                           *)

\* A commit that is undone is not in HEAD any more, and its changes are staged.
LEMMA Undone ==
  ASSUME head \in Branches, head # <<>>, head = job.commit, index = TreeOf(head), RevertCommit
  PROVE  ~Reaches(head', job.commit) /\ index' = TreeOf(job.commit)
<1>1. head' = SubSeq(head, 1, Len(head) - 1) /\ index' = index
  BY DEF RevertCommit
<1>2. Len(head) \in Nat /\ Len(head) - 1 \in 0..Len(head)
  BY BranchFacts
<1>3. head' \in Branches /\ Len(head') = Len(head) - 1
  BY <1>1, <1>2, PrefixFacts
<1>4. ~Reaches(head', head)
  BY <1>2, <1>3, ReachesFacts
<1>5. QED
  BY <1>1, <1>4

\* The missing branch contains no commit.
LEMMA NothingReached ==
  ASSUME NEW b \in Branches, b # <<>>
  PROVE  ~Reaches(<<>>, b)
BY ReachesFacts, BranchFacts, EmptyBranch

\* What persist_changes makes of the sync: a commit that GitHub does not have is the
\* tip of HEAD, so that undoing it takes it out of HEAD and leaves it staged.
LEMMA ConcludeFits == ASSUME DInv, KInv, Conclude PROVE KInv'
<1>1. job \in Jobs /\ job.pc = "conclude" /\ job.task # "ensure" /\ job.status \in SyncStatuses
  BY JobFacts DEF Conclude, KInv, PhaseFits
<1>2. track' = track /\ track \in Refs /\ head \in Branches
  BY DEF Conclude, DInv, DataOK
<1>3. CASE job.task = "sync"
  <2>1. Answer("synced") /\ UNCHANGED head
    BY <1>3 DEF Conclude
  <2>2. SyncIsDone => Sent
    BY <1>1 DEF SyncIsDone, KInv, PhaseFits
  <2>3. SyncIsDone => Sent'
    BY <1>2, <2>1, <2>2 DEF Sent
  <2>4. QED
    BY <1>1, <2>1, <2>3, Ended DEF Answers
<1>4. CASE job.task = "persist" /\ job.status = "merged"
  <2>1. GoTo("last") /\ UNCHANGED <<head, index>>
    BY <1>4 DEF Conclude
  <2>2. job' = [job EXCEPT !.pc = "last"] /\ report' = report
    BY <2>1 DEF GoTo
  <2>3. job' \in Jobs /\ job'.pc = "last" /\ job'.task = job.task /\ job'.commit = job.commit
        /\ job'.status = job.status
    BY <1>1, <2>2 DEF Jobs, Steps
  <2>4. report' = NoReport
    BY <1>1, <2>2, JobFacts DEF KInv, PhaseFits
  <2>5. CommitFits'
    BY <2>1, <2>3 DEF KInv, CommitFits
  <2>6. PhaseFits'
    BY <1>1, <2>3, <2>4 DEF PhaseFits
  <2>7. QED
    BY <2>3, <2>4, <2>5, <2>6, Underway
<1>5. ASSUME job.task = "persist", job.status # "updated", job.status # "merged"
      PROVE  job.commit # <<>> /\ head = job.commit /\ index = TreeOf(head)
  BY <1>5 DEF KInv, CommitFits
<1>6. CASE job.task = "persist" /\ job.status = "conflict"
  <2>1. RevertCommit /\ Answer("conflict")
    BY <1>6 DEF Conclude
  <2>2. ~Reaches(track.tip, job.commit)
    BY <1>1, <1>6 DEF KInv, PhaseFits
  <2>3. ~Reaches(head', job.commit) /\ index' = TreeOf(job.commit)
    BY <1>2, <1>5, <1>6, <2>1, Undone
  <2>4. QED
    BY <1>1, <1>2, <2>1, <2>2, <2>3, Ended DEF Answers
<1>7. CASE job.task = "persist" /\ job.status \notin {"merged", "conflict"} /\ IsCommitOnOrigin(job.commit)
  <2>1. Answer("committed")
    BY <1>7 DEF Conclude
  <2>2. track' # NoRef /\ Reaches(track'.tip, job.commit)
    BY <1>2, <1>7 DEF IsCommitOnOrigin
  <2>3. QED
    BY <1>1, <2>1, <2>2, Ended DEF Answers
<1>8. CASE job.task = "persist" /\ job.status \notin {"merged", "conflict"} /\ ~IsCommitOnOrigin(job.commit)
  <2>1. RevertCommit /\ Answer("rejected")
    BY <1>8 DEF Conclude
  <2>2. job.status # "updated"
    <3> SUFFICES ASSUME job.status = "updated" PROVE FALSE
      OBVIOUS
    <3>1. track # NoRef /\ head = track.tip
      BY <1>1 DEF KInv, PhaseFits
    <3>2. Reaches(head, job.commit)
      BY <1>8 DEF KInv, CommitFits
    <3>3. QED
      BY <1>8, <3>1, <3>2 DEF IsCommitOnOrigin
  <2>3. job.commit # <<>> /\ head = job.commit /\ index = TreeOf(head)
    BY <1>5, <1>8, <2>2
  <2>4. ~Reaches(head', job.commit) /\ index' = TreeOf(job.commit)
    BY <1>2, <2>1, <2>3, Undone
  <2>5. ~Reaches(track.tip, job.commit)
    <3>1. CASE track = NoRef
      BY <1>2, <2>3, <3>1, NoRefFacts, NothingReached
    <3>2. CASE track # NoRef
      BY <1>8, <3>2 DEF IsCommitOnOrigin
    <3>3. QED
      BY <3>1, <3>2
  <2>6. QED
    BY <1>1, <1>2, <2>1, <2>4, <2>5, Ended DEF Answers
<1>9. job.task \in {"sync", "persist"}
  BY <1>1 DEF Jobs, Tasks
<1>10. QED
  BY <1>3, <1>4, <1>6, <1>7, <1>8, <1>9

\* Every step of an operation.
LEMMA ServiceFits == ASSUME DInv, DInv', KInv, Service PROVE KInv'
<1>1. CASE Die
  BY <1>1, NothingSaid DEF Die
<1>2. CASE ~Die
  BY <1>2, PushFits, DeliverFits, LastPushFits, RestoreFits, RepairFits, RepushFits, FetchFailsFits,
     FetchToEnsureFits, FetchToSettleFits, FetchToReplayFits, ReplayFailsFits, ConcludeFits
  DEF Service, ServerPush
<1>3. QED
  BY <1>1, <1>2

-----------------------------------------------------------------------------
(* Everything else.                                                         *)

\* Edits are made between operations, and take the last report away.
LEMMA EditsFit == ASSUME KInv, Edits PROVE KInv'
<1>1. job' = NoJob /\ report' = NoReport
  BY DEF Edits, Edit, EditUnstaged, Revert, Idle
<1>2. QED
  BY <1>1, NothingSaid

\* An operation begins without a status, and with its commit at the tip of HEAD.
LEMMA BeginsFit == ASSUME DInv, KInv, Begins PROVE KInv'
<1>1. ASSUME NEW task \in Tasks, NEW pc \in {"push", "fetch"}, NEW restore \in BOOLEAN,
             NEW commit \in Branches, Begin(task, pc, restore, commit), pc = "push" => task # "sync",
             task = "persist" => head' = commit /\ commit # <<>> /\ index' = TreeOf(commit)
      PROVE  KInv'
  <2>1. job' = [NoJob EXCEPT !.task = task, !.pc = pc, !.restore = restore, !.commit = commit]
        /\ report' = NoReport
    BY <1>1 DEF Begin
  <2>2. /\ job' \in Jobs /\ job'.pc = pc /\ job'.task = task /\ job'.commit = commit
        /\ job'.status = "none"
    BY <2>1 DEF Jobs, NoJob, Steps
  <2>3. CommitFits'
    BY <1>1, <2>2, SelfReached DEF CommitFits
  <2>4. PhaseFits'
    BY <1>1, <2>1, <2>2 DEF PhaseFits
  <2>5. QED
    BY <2>1, <2>2, <2>3, <2>4, Underway
<1>2. CASE BeginPersist
  <2> DEFINE x == [src |-> counts.commits + 1, tree |-> index]
  <2>1. head' = Append(head, x) /\ Begin("persist", "push", TRUE, head') /\ index' = index
    BY <1>2 DEF BeginPersist
  <2>2. head' \in Branches /\ head' # <<>> /\ TreeOf(head') = index
    <3>1. DataOK /\ head \in Branches /\ index \in Trees
      BY DEF DInv, DataOK
    <3>2. counts.commits + 1 \in 1..MaxCommits
      BY <1>2, <3>1, CountFacts, HistoryAssumption DEF BeginPersist
    <3>3. x \in Commits /\ x.tree = index
      BY <3>1, <3>2, TreeFacts
    <3> HIDE DEF x
    <3>4. QED
      BY <2>1, <3>1, <3>3, AppendFacts
  <2>3. QED
    BY <1>1, <2>1, <2>2 DEF Tasks
<1>3. CASE BeginEnsure \/ \E restore \in BOOLEAN : BeginSync(restore)
  <2>1. <<>> \in Branches
    BY EmptyBranch
  <2>2. QED
    BY <1>1, <1>3, <2>1 DEF BeginEnsure, BeginSync, Tasks
<1>4. QED
  BY <1>2, <1>3 DEF Begins

\* What happens on GitHub takes the report away, and is not heard of.
LEMMA GitHubFits == ASSUME KInv, GitHub \/ UNCHANGED vars PROVE KInv'
<1>1. CASE UNCHANGED vars
  BY <1>1 DEF vars, KInv, JobOK, CommitFits, PhaseFits, CommittedIsOnGitHub, RefusedIsUndone,
              NothingLeftBehind, Sent
<1>2. CASE GitHub
  <2>1. report' = NoReport /\ UNCHANGED <<head, index, track, job>>
    BY <1>2 DEF GitHub, OutsideCommit, DropCommits, RecreateBranch, DeleteBranch, DeleteFork,
                RecreateFork, Outside, localVars
  <2>2. JobOK'
    BY <2>1 DEF KInv, JobOK
  <2>3. CommitFits' /\ PhaseFits'
    BY <2>1 DEF KInv, CommitFits, PhaseFits, Sent
  <2>4. CommittedIsOnGitHub' /\ RefusedIsUndone' /\ NothingLeftBehind'
    BY <2>1, NoJobFacts DEF CommittedIsOnGitHub, RefusedIsUndone, NothingLeftBehind
  <2>5. QED
    BY <2>2, <2>3, <2>4 DEF KInv
<1>3. QED
  BY <1>1, <1>2

\* At first there is no operation.
LEMMA InitFits == Init => KInv
<1> SUFFICES ASSUME Init PROVE KInv
  OBVIOUS
<1>1. job = NoJob /\ report = NoReport
  BY DEF Init
<1>2. JobOK
  BY <1>1 DEF JobOK
<1>3. CommitFits /\ PhaseFits
  BY <1>1, NoJobFacts DEF CommitFits, PhaseFits
<1>4. CommittedIsOnGitHub /\ RefusedIsUndone /\ NothingLeftBehind
  BY <1>1, NoJobFacts DEF CommittedIsOnGitHub, RefusedIsUndone, NothingLeftBehind
<1>5. QED
  BY <1>2, <1>3, <1>4 DEF KInv

\* The two parts of the invariant.
LEMMA AllParts == DInv /\ KInv <=> IInv
BY TypeParts DEF DInv, KInv, IInv

-----------------------------------------------------------------------------
(* The theorems.                                                            *)

\* The invariant holds in every state: the types, that every commit has one place in
\* all histories, what the operation in progress relies on, and that no change enters
\* the branch on GitHub twice.
THEOREM Invariance == Spec => []Consistent
<1>1. Init => DInv /\ KInv
  BY InitData, InitFits
<1>2. DInv /\ KInv /\ [Next]_vars => (DInv /\ KInv)'
  <2> SUFFICES ASSUME DInv, KInv, [Next]_vars PROVE DInv' /\ KInv'
    OBVIOUS
  <2>1. DInv'
    BY StutterKeepsData, EditsKeepData, BeginsKeepData, ServiceKeepsData, GitHubKeepsData DEF Next
  <2>2. KInv'
    BY <2>1, EditsFit, BeginsFit, ServiceFits, GitHubFits DEF Next
  <2>3. QED
    BY <2>1, <2>2
<1>3. DInv /\ KInv => Consistent
  BY AllParts, RisingEntersOnce DEF Consistent
<1>4. QED
  BY <1>1, <1>2, <1>3, PTL DEF Spec

\* A commit that persist_changes reports as made is on the branch on GitHub, as of the
\* last answer from there: confirmed by a push, or found by the sync that recovers from
\* a push that failed.
THEOREM Committed == Spec => []CommittedIsOnGitHub
<1>1. Consistent => CommittedIsOnGitHub
  BY DEF Consistent, IInv
<1>2. QED
  BY <1>1, Invariance, PTL

\* A commit that it reports as refused is in neither branch, and its changes are staged
\* again.
THEOREM RefusedUndone == Spec => []RefusedIsUndone
<1>1. Consistent => RefusedIsUndone
  BY DEF Consistent, IInv
<1>2. QED
  BY <1>1, Invariance, PTL

\* A sync or a proposal that succeeds leaves no commit behind that GitHub never had.
THEOREM NoneLeftBehind == Spec => []NothingLeftBehind
<1>1. Consistent => NothingLeftBehind
  BY DEF Consistent, IInv
<1>2. QED
  BY <1>1, Invariance, PTL

\* The last version the user gave a file stays on disk until GitHub has had it, whatever
\* is pushed, replayed, undone, repaired or rewritten meanwhile.
THEOREM UnsentWorkKept == Spec => []UnsentWorkIsKept
<1>1. Consistent => UnsentWorkIsKept
  BY DEF Consistent, IInv
<1>2. QED
  BY <1>1, Invariance, PTL

\* No push to the existing branch adds a commit that the reflog has seen there and that
\* the branch dropped since.
THEOREM DroppedStayDropped == Spec => NeverBringsBack
<1>1. Consistent /\ [Next]_vars =>
        [ServerPush /\ github = "branch" /\ origin' # origin =>
           \A src \in Srcs(origin') \ Srcs(origin) : \A tip \in track.seen : src \notin Srcs(tip)]_vars
  BY LeasedPushBringsNone, AllParts DEF Consistent
<1>2. QED
  BY <1>1, Invariance, PTL DEF Spec, NeverBringsBack
=============================================================================
