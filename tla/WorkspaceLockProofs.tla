------------------------- MODULE WorkspaceLockProofs ------------------------
(* Proofs about WorkspaceLock: exclusion in spite of the unlinked lock file, *)
(* for any number of requests, runs of the script, cancellations and deaths. *)
EXTENDS WorkspaceLock, SequenceTheorems, TLAPS

USE PartiesAssumption DEF Parties, Holding, Moves

-----------------------------------------------------------------------------
(* Each action keeps every part of the invariant.                           *)

\* A request lines up.
LEMMA AskKeeps == ASSUME IInv, NEW r \in Requests, Ask(r) PROVE IInv'
<1>1. TypeOK'
  BY DEF Ask, IInv, TypeOK, Places
<1>2. FlocksAreHeld'
  BY DEF Ask, IInv, TypeOK, FlocksAreHeld, OwnerIsInside
<1>3. OwnerIsInside'
  BY DEF Ask, IInv, TypeOK, OwnerIsInside, FlocksAreHeld
<1>4. OrphansAreHarmless'
  BY DEF Ask, IInv, TypeOK, FlocksAreHeld, OwnerIsInside, OrphansAreHarmless, DeletedIsGone
<1>5. DeletedIsGone'
  BY DEF Ask, Deletes, IInv, TypeOK, FlocksAreHeld, OwnerIsInside, OrphansAreHarmless, DeletedIsGone
<1>6. QED
  BY <1>1, <1>2, <1>3, <1>4, <1>5 DEF IInv

\* The first of the line takes the asyncio lock.
LEMMA EnterKeeps == ASSUME IInv, NEW r \in Requests, Enter(r) PROVE IInv'
<1>1. TypeOK'
  BY DEF Enter, IInv, TypeOK, Places
<1>2. FlocksAreHeld'
  BY DEF Enter, IInv, TypeOK, FlocksAreHeld, OwnerIsInside
<1>3. OwnerIsInside'
  BY DEF Enter, IInv, TypeOK, OwnerIsInside, FlocksAreHeld
<1>4. OrphansAreHarmless'
  BY DEF Enter, IInv, TypeOK, FlocksAreHeld, OwnerIsInside, OrphansAreHarmless, DeletedIsGone
<1>5. DeletedIsGone'
  BY DEF Enter, Deletes, IInv, TypeOK, FlocksAreHeld, OwnerIsInside, OrphansAreHarmless, DeletedIsGone
<1>6. QED
  BY <1>1, <1>2, <1>3, <1>4, <1>5 DEF IInv

\* The flock is taken: by the owner of the asyncio lock or the script.
LEMMA LockKeeps == ASSUME IInv, NEW p \in Parties, Lock(p) PROVE IInv'
<1>1. TypeOK'
  BY DEF Lock, IInv, TypeOK, Places
<1>2. FlocksAreHeld'
  BY DEF Lock, IInv, TypeOK, FlocksAreHeld, OwnerIsInside
<1>3. OwnerIsInside'
  BY DEF Lock, IInv, TypeOK, OwnerIsInside, FlocksAreHeld
<1>4. OrphansAreHarmless'
  BY DEF Lock, IInv, TypeOK, FlocksAreHeld, OwnerIsInside, OrphansAreHarmless, DeletedIsGone
<1>5. DeletedIsGone'
  BY DEF Lock, Deletes, IInv, TypeOK, FlocksAreHeld, OwnerIsInside, OrphansAreHarmless, DeletedIsGone
<1>6. QED
  BY <1>1, <1>2, <1>3, <1>4, <1>5 DEF IInv

\* The tree is touched; it is not gone then.
LEMMA BeginKeeps == ASSUME IInv, NEW p \in Parties, Begin(p) PROVE IInv'
<1>1. TypeOK'
  BY DEF Begin, Deletes, IInv, TypeOK, Places
<1>2. FlocksAreHeld'
  BY DEF Begin, Deletes, IInv, TypeOK, FlocksAreHeld, OwnerIsInside
<1>3. OwnerIsInside'
  BY DEF Begin, Deletes, IInv, TypeOK, OwnerIsInside, FlocksAreHeld
<1>4. OrphansAreHarmless'
  BY DEF Begin, Deletes, IInv, TypeOK, FlocksAreHeld, OwnerIsInside, OrphansAreHarmless, DeletedIsGone
<1>5. DeletedIsGone'
  BY DEF Begin, Deletes, IInv, TypeOK, FlocksAreHeld, OwnerIsInside, OrphansAreHarmless, DeletedIsGone
<1>6. QED
  BY <1>1, <1>2, <1>3, <1>4, <1>5 DEF IInv

LEMMA ChangedKeeps == ASSUME IInv, NEW r \in Requests, Changed(r) PROVE IInv'
<1>1. TypeOK'
  BY DEF Changed, Deletes, IInv, TypeOK, Places
<1>2. FlocksAreHeld'
  BY DEF Changed, Deletes, IInv, TypeOK, FlocksAreHeld, OwnerIsInside
<1>3. OwnerIsInside'
  BY DEF Changed, Deletes, IInv, TypeOK, OwnerIsInside, FlocksAreHeld
<1>4. OrphansAreHarmless'
  BY DEF Changed, Deletes, IInv, TypeOK, FlocksAreHeld, OwnerIsInside, OrphansAreHarmless, DeletedIsGone
<1>5. DeletedIsGone'
  BY DEF Changed, Deletes, IInv, TypeOK, FlocksAreHeld, OwnerIsInside, OrphansAreHarmless, DeletedIsGone
<1>6. QED
  BY <1>1, <1>2, <1>3, <1>4, <1>5 DEF IInv

LEMMA TreeRemovedKeeps == ASSUME IInv, NEW p \in Parties, TreeRemoved(p) PROVE IInv'
<1>1. TypeOK'
  BY DEF TreeRemoved, Deletes, IInv, TypeOK, Places
<1>2. FlocksAreHeld'
  BY DEF TreeRemoved, Deletes, IInv, TypeOK, FlocksAreHeld, OwnerIsInside
<1>3. OwnerIsInside'
  BY DEF TreeRemoved, Deletes, IInv, TypeOK, OwnerIsInside, FlocksAreHeld
<1>4. OrphansAreHarmless'
  BY DEF TreeRemoved, Deletes, IInv, TypeOK, FlocksAreHeld, OwnerIsInside, OrphansAreHarmless, DeletedIsGone
<1>5. DeletedIsGone'
  BY DEF TreeRemoved, Deletes, IInv, TypeOK, FlocksAreHeld, OwnerIsInside, OrphansAreHarmless, DeletedIsGone
<1>6. QED
  BY <1>1, <1>2, <1>3, <1>4, <1>5 DEF IInv

LEMMA RemovalFailsKeeps == ASSUME IInv, NEW p \in Parties, RemovalFails(p) PROVE IInv'
<1>1. TypeOK'
  BY DEF RemovalFails, Deletes, IInv, TypeOK, Places
<1>2. FlocksAreHeld'
  BY DEF RemovalFails, Deletes, IInv, TypeOK, FlocksAreHeld, OwnerIsInside
<1>3. OwnerIsInside'
  BY DEF RemovalFails, Deletes, IInv, TypeOK, OwnerIsInside, FlocksAreHeld
<1>4. OrphansAreHarmless'
  BY DEF RemovalFails, Deletes, IInv, TypeOK, FlocksAreHeld, OwnerIsInside, OrphansAreHarmless, DeletedIsGone
<1>5. DeletedIsGone'
  BY DEF RemovalFails, Deletes, IInv, TypeOK, FlocksAreHeld, OwnerIsInside, OrphansAreHarmless, DeletedIsGone
<1>6. QED
  BY <1>1, <1>2, <1>3, <1>4, <1>5 DEF IInv

LEMMA RowDeletedKeeps == ASSUME IInv, NEW p \in Parties, RowDeleted(p) PROVE IInv'
<1>1. TypeOK'
  BY DEF RowDeleted, IInv, TypeOK, Places
<1>2. FlocksAreHeld'
  BY DEF RowDeleted, IInv, TypeOK, FlocksAreHeld, OwnerIsInside
<1>3. OwnerIsInside'
  BY DEF RowDeleted, IInv, TypeOK, OwnerIsInside, FlocksAreHeld
<1>4. OrphansAreHarmless'
  BY DEF RowDeleted, IInv, TypeOK, FlocksAreHeld, OwnerIsInside, OrphansAreHarmless, DeletedIsGone
<1>5. DeletedIsGone'
  BY DEF RowDeleted, Deletes, IInv, TypeOK, FlocksAreHeld, OwnerIsInside, OrphansAreHarmless, DeletedIsGone
<1>6. QED
  BY <1>1, <1>2, <1>3, <1>4, <1>5 DEF IInv

LEMMA CommitFailsKeeps == ASSUME IInv, NEW p \in Parties, CommitFails(p) PROVE IInv'
<1>1. TypeOK'
  BY DEF CommitFails, IInv, TypeOK, Places
<1>2. FlocksAreHeld'
  BY DEF CommitFails, IInv, TypeOK, FlocksAreHeld, OwnerIsInside
<1>3. OwnerIsInside'
  BY DEF CommitFails, IInv, TypeOK, OwnerIsInside, FlocksAreHeld
<1>4. OrphansAreHarmless'
  BY DEF CommitFails, IInv, TypeOK, FlocksAreHeld, OwnerIsInside, OrphansAreHarmless, DeletedIsGone
<1>5. DeletedIsGone'
  BY DEF CommitFails, Deletes, IInv, TypeOK, FlocksAreHeld, OwnerIsInside, OrphansAreHarmless, DeletedIsGone
<1>6. QED
  BY <1>1, <1>2, <1>3, <1>4, <1>5 DEF IInv

\* The flock is released, and filelock may unlink the file of another holder: only
\* where p itself was orphaned, so that holder is harmless for the same reason.
LEMMA LeaveKeeps == ASSUME IInv, NEW p \in Parties, NEW unlinked \in BOOLEAN, Leave(p, unlinked) PROVE IInv'
<1>1. TypeOK'
  BY DEF Leave, Unlinks, PathAfter, Deletes, IInv, TypeOK, Places
<1>2. FlocksAreHeld'
  BY DEF Leave, Unlinks, PathAfter, Deletes, IInv, TypeOK, FlocksAreHeld, OwnerIsInside
<1>3. OwnerIsInside'
  BY DEF Leave, Unlinks, PathAfter, Deletes, IInv, TypeOK, OwnerIsInside, FlocksAreHeld
<1>4. OrphansAreHarmless'
  BY DEF Leave, Unlinks, PathAfter, Deletes, IInv, TypeOK, FlocksAreHeld, OwnerIsInside, OrphansAreHarmless, DeletedIsGone
<1>5. DeletedIsGone'
  BY DEF Leave, Unlinks, PathAfter, Deletes, IInv, TypeOK, FlocksAreHeld, OwnerIsInside, OrphansAreHarmless, DeletedIsGone
<1>6. QED
  BY <1>1, <1>2, <1>3, <1>4, <1>5 DEF IInv

\* The lock file is unlinked under its holder: the workspace is deleted, or the
\* script has left and is away until that holder has.
LEMMA UnlinkKeeps == ASSUME IInv, NEW p \in Parties, Unlink(p) PROVE IInv'
<1>1. TypeOK'
  BY DEF Unlink, PathAfter, IInv, TypeOK, Places
<1>2. FlocksAreHeld'
  BY DEF Unlink, PathAfter, IInv, TypeOK, FlocksAreHeld, OwnerIsInside
<1>3. OwnerIsInside'
  BY DEF Unlink, PathAfter, IInv, TypeOK, OwnerIsInside, FlocksAreHeld
<1>4. OrphansAreHarmless'
  BY DEF Unlink, PathAfter, IInv, TypeOK, FlocksAreHeld, OwnerIsInside, OrphansAreHarmless, DeletedIsGone
<1>5. DeletedIsGone'
  BY DEF Unlink, PathAfter, Deletes, IInv, TypeOK, FlocksAreHeld, OwnerIsInside, OrphansAreHarmless, DeletedIsGone
<1>6. QED
  BY <1>1, <1>2, <1>3, <1>4, <1>5 DEF IInv

LEMMA CancelKeeps == ASSUME IInv, NEW r \in Requests, Cancel(r) PROVE IInv'
<1>1. TypeOK'
  BY DEF Cancel, IInv, TypeOK, Places
<1>2. FlocksAreHeld'
  BY DEF Cancel, IInv, TypeOK, FlocksAreHeld, OwnerIsInside
<1>3. OwnerIsInside'
  BY DEF Cancel, IInv, TypeOK, OwnerIsInside, FlocksAreHeld
<1>4. OrphansAreHarmless'
  BY DEF Cancel, IInv, TypeOK, FlocksAreHeld, OwnerIsInside, OrphansAreHarmless, DeletedIsGone
<1>5. DeletedIsGone'
  BY DEF Cancel, Deletes, IInv, TypeOK, FlocksAreHeld, OwnerIsInside, OrphansAreHarmless, DeletedIsGone
<1>6. QED
  BY <1>1, <1>2, <1>3, <1>4, <1>5 DEF IInv

LEMMA SelectKeeps == ASSUME IInv, Select PROVE IInv'
<1>1. TypeOK'
  BY DEF Select, IInv, TypeOK, Places
<1>2. FlocksAreHeld'
  BY DEF Select, IInv, TypeOK, FlocksAreHeld, OwnerIsInside
<1>3. OwnerIsInside'
  BY DEF Select, IInv, TypeOK, OwnerIsInside, FlocksAreHeld
<1>4. OrphansAreHarmless'
  BY DEF Select, IInv, TypeOK, FlocksAreHeld, OwnerIsInside, OrphansAreHarmless, DeletedIsGone
<1>5. DeletedIsGone'
  BY DEF Select, Deletes, IInv, TypeOK, FlocksAreHeld, OwnerIsInside, OrphansAreHarmless, DeletedIsGone
<1>6. QED
  BY <1>1, <1>2, <1>3, <1>4, <1>5 DEF IInv

LEMMA SkipKeeps == ASSUME IInv, Skip PROVE IInv'
<1>1. TypeOK'
  BY DEF Skip, IInv, TypeOK, Places
<1>2. FlocksAreHeld'
  BY DEF Skip, IInv, TypeOK, FlocksAreHeld, OwnerIsInside
<1>3. OwnerIsInside'
  BY DEF Skip, IInv, TypeOK, OwnerIsInside, FlocksAreHeld
<1>4. OrphansAreHarmless'
  BY DEF Skip, IInv, TypeOK, FlocksAreHeld, OwnerIsInside, OrphansAreHarmless, DeletedIsGone
<1>5. DeletedIsGone'
  BY DEF Skip, Deletes, IInv, TypeOK, FlocksAreHeld, OwnerIsInside, OrphansAreHarmless, DeletedIsGone
<1>6. QED
  BY <1>1, <1>2, <1>3, <1>4, <1>5 DEF IInv

LEMMA ServerDiesKeeps == ASSUME IInv, ServerDies PROVE IInv'
<1>1. TypeOK'
  BY DEF ServerDies, Dies, PathAfter, IInv, TypeOK, Places
<1>2. FlocksAreHeld'
  BY DEF ServerDies, Dies, PathAfter, IInv, TypeOK, FlocksAreHeld, OwnerIsInside
<1>3. OwnerIsInside'
  BY DEF ServerDies, Dies, PathAfter, IInv, TypeOK, OwnerIsInside, FlocksAreHeld
<1>4. OrphansAreHarmless'
  BY DEF ServerDies, Dies, PathAfter, IInv, TypeOK, FlocksAreHeld, OwnerIsInside, OrphansAreHarmless, DeletedIsGone
<1>5. DeletedIsGone'
  BY DEF ServerDies, Dies, PathAfter, Deletes, IInv, TypeOK, FlocksAreHeld, OwnerIsInside, OrphansAreHarmless, DeletedIsGone
<1>6. QED
  BY <1>1, <1>2, <1>3, <1>4, <1>5 DEF IInv

LEMMA ScriptDiesKeeps == ASSUME IInv, ScriptDies PROVE IInv'
<1>1. TypeOK'
  BY DEF ScriptDies, Dies, PathAfter, IInv, TypeOK, Places
<1>2. FlocksAreHeld'
  BY DEF ScriptDies, Dies, PathAfter, IInv, TypeOK, FlocksAreHeld, OwnerIsInside
<1>3. OwnerIsInside'
  BY DEF ScriptDies, Dies, PathAfter, IInv, TypeOK, OwnerIsInside, FlocksAreHeld
<1>4. OrphansAreHarmless'
  BY DEF ScriptDies, Dies, PathAfter, IInv, TypeOK, FlocksAreHeld, OwnerIsInside, OrphansAreHarmless, DeletedIsGone
<1>5. DeletedIsGone'
  BY DEF ScriptDies, Dies, PathAfter, Deletes, IInv, TypeOK, FlocksAreHeld, OwnerIsInside, OrphansAreHarmless, DeletedIsGone
<1>6. QED
  BY <1>1, <1>2, <1>3, <1>4, <1>5 DEF IInv

-----------------------------------------------------------------------------

LEMMA InitHolds == Init => IInv
<1> SUFFICES ASSUME Init PROVE IInv
  OBVIOUS
<1>1. TypeOK
  <2>1. MaxRuns \in Nat /\ MaxCancels \in Nat /\ MaxDeaths \in Nat
    OBVIOUS
  <2>2. runs \in 0..MaxRuns /\ cancels \in 0..MaxCancels /\ deaths \in 0..MaxDeaths
    BY <2>1 DEF Init
  <2>3. QED
    BY <2>2 DEF Init, TypeOK, Places
<1>2. FlocksAreHeld
  BY DEF Init, FlocksAreHeld
<1>3. OwnerIsInside
  BY DEF Init, OwnerIsInside
<1>4. OrphansAreHarmless /\ DeletedIsGone
  BY DEF Init, OrphansAreHarmless, DeletedIsGone
<1>5. QED
  BY <1>1, <1>2, <1>3, <1>4 DEF IInv

LEMMA StutterKeeps == ASSUME IInv, UNCHANGED vars PROVE IInv'
BY DEF vars, IInv, TypeOK, FlocksAreHeld, OwnerIsInside, OrphansAreHarmless, DeletedIsGone, Deletes

LEMMA StepKeeps == ASSUME IInv, [Next]_vars PROVE IInv'
<1>1. ASSUME NEW r \in Requests, Ask(r) \/ Enter(r) \/ Cancel(r) PROVE IInv'
  BY <1>1, AskKeeps, EnterKeeps, CancelKeeps
<1>2. ASSUME NEW p \in Parties, Transaction(p) PROVE IInv'
  <2>1. CASE p \in Requests /\ Changed(p)
    BY <2>1, ChangedKeeps
  <2>2. CASE Changed(p) /\ p \notin Requests
    BY <2>2 DEF Changed
  <2>3. QED
    BY <1>2, <2>1, <2>2, LockKeeps, BeginKeeps, TreeRemovedKeeps, RemovalFailsKeeps,
       RowDeletedKeeps, CommitFailsKeeps, UnlinkKeeps, LeaveKeeps DEF Transaction
<1>3. CASE Select \/ Skip \/ ServerDies \/ ScriptDies
  BY <1>3, SelectKeeps, SkipKeeps, ServerDiesKeeps, ScriptDiesKeeps
<1>4. CASE UNCHANGED vars
  BY <1>4, StutterKeeps
<1>5. QED
  BY <1>1, <1>2, <1>3, <1>4 DEF Next

\* Every state satisfies the invariant: who holds which flock, who is past the line,
\* and why a flock on an unlinked file does no harm.
THEOREM Invariance == Spec => []IInv
BY InitHolds, StepKeeps, PTL DEF Spec

LEMMA Alone == IInv => OneAtATime
<1> SUFFICES ASSUME IInv, NEW p \in Parties, NEW q \in Parties,
                    at[p] = "working", at[q] = "working"
             PROVE  p = q
  BY DEF OneAtATime
<1>1. tree = "half"
  BY DEF IInv, DeletedIsGone
<1>2. CASE p \in Requests /\ q \in Requests
  BY <1>2 DEF IInv, OwnerIsInside
<1>3. CASE p = Script \/ q = Script
  <2>1. orphaned = {}
    BY <1>1, <1>3 DEF IInv, OrphansAreHarmless
  <2>2. p = holder /\ q = holder
    BY <2>1 DEF IInv, FlocksAreHeld
  <2>3. QED
    BY <2>2
<1>4. QED
  BY <1>2, <1>3

\* run_exclusive and the flock of the script let one transaction at a time touch
\* the tree, although delete_workspace and the script unlink the lock file when
\* others may already have locked it.
THEOREM Exclusion == Spec => []OneAtATime
BY Invariance, Alone, PTL

LEMMA HalfInit == Init => NothingHalfDone
BY DEF Init, NothingHalfDone

LEMMA HalfStep == ASSUME IInv, NothingHalfDone, [Next]_vars PROVE NothingHalfDone'
<1> USE DEF NothingHalfDone
<1>1. ASSUME NEW r \in Requests, Ask(r) \/ Enter(r) \/ Cancel(r) PROVE NothingHalfDone'
  BY <1>1 DEF Ask, Enter, Cancel, IInv, TypeOK, OwnerIsInside
<1>2. ASSUME NEW p \in Parties, Transaction(p) PROVE NothingHalfDone'
  <2>1. OneAtATime
    BY Alone
  <2>2. CASE Lock(p) \/ Begin(p)
    BY <2>2 DEF Lock, Begin, IInv, TypeOK
  <2>3. CASE Changed(p) \/ TreeRemoved(p) \/ RemovalFails(p)
    BY <2>1, <2>3 DEF Changed, TreeRemoved, RemovalFails, IInv, TypeOK, OneAtATime
  <2>4. CASE RowDeleted(p) \/ CommitFails(p) \/ Unlink(p) \/ \E unlinked \in BOOLEAN : Leave(p, unlinked)
    BY <2>4 DEF RowDeleted, CommitFails, Unlink, Leave, IInv, TypeOK
  <2>5. QED
    BY <1>2, <2>2, <2>3, <2>4 DEF Transaction
<1>3. CASE Select \/ Skip
  BY <1>3 DEF Select, Skip, IInv, TypeOK
<1>4. CASE ServerDies \/ ScriptDies
  BY <1>4 DEF ServerDies, ScriptDies, Dies, IInv, TypeOK
<1>5. CASE UNCHANGED vars
  BY <1>5 DEF vars
<1>6. QED
  BY <1>1, <1>2, <1>3, <1>4, <1>5 DEF Next

\* The shield of run_exclusive: a tree is left half changed or half removed only
\* where a process died or the removal failed, however requests are cancelled.
THEOREM WholeTransactions == Spec => []NothingHalfDone
BY HalfInit, HalfStep, Invariance, PTL DEF Spec

-----------------------------------------------------------------------------
(* The line of the asyncio lock.                                            *)

\* The places of a sequence, and who is in it.
LEMMA LineFacts ==
  ASSUME NEW q \in Seq(Requests)
  PROVE  /\ Len(q) \in Nat /\ DOMAIN q = 1..Len(q)
         /\ IsInjective(q) <=> \A i, j \in 1..Len(q) : q[i] = q[j] => i = j
         /\ \A x : x \in ToSet(q) <=> \E i \in 1..Len(q) : q[i] = x
         /\ q = <<>> <=> Len(q) = 0
<1>1. Len(q) \in Nat /\ DOMAIN q = 1..Len(q)
  BY LenProperties
<1>2. q = <<>> <=> Len(q) = 0
  BY EmptySeq
<1>3. IsInjective(q) <=> \A i, j \in 1..Len(q) : q[i] = q[j] => i = j
  BY <1>1 DEF IsInjective
<1>4. \A x : x \in ToSet(q) <=> \E i \in 1..Len(q) : q[i] = x
  BY <1>1 DEF ToSet
<1>5. QED
  BY <1>1, <1>2, <1>3, <1>4

\* A line that somebody joins who was not in it.
LEMMA JoinedLine ==
  ASSUME NEW q \in Seq(Requests), NEW r \in Requests, r \notin ToSet(q), IsInjective(q)
  PROVE  /\ Append(q, r) \in Seq(Requests) /\ IsInjective(Append(q, r))
         /\ ToSet(Append(q, r)) = ToSet(q) \cup {r}
<1> DEFINE t == Append(q, r)
<1>1. /\ t \in Seq(Requests) /\ Len(t) = Len(q) + 1 /\ t[Len(q) + 1] = r
      /\ \A i \in 1..Len(q) : t[i] = q[i]
  BY AppendProperties
<1> HIDE DEF t
<1>2. \A i \in 1..Len(q) : q[i] # r
  BY LineFacts
<1>3. IsInjective(t)
  <2>1. \A i \in 1..Len(t) : i \in 1..Len(q) \/ i = Len(q) + 1
    BY <1>1, LineFacts
  <2>2. ASSUME NEW i \in 1..Len(t), NEW j \in 1..Len(t), t[i] = t[j] PROVE i = j
    BY <1>1, <1>2, <2>1, <2>2, LineFacts
  <2>3. QED
    BY <1>1, <2>2, LineFacts
<1>4. ASSUME NEW x PROVE x \in ToSet(t) <=> x \in ToSet(q) \/ x = r
  <2>1. x \in ToSet(t) <=> \E i \in 1..Len(q) + 1 : t[i] = x
    BY <1>1, LineFacts
  <2>2. x \in ToSet(q) <=> \E i \in 1..Len(q) : t[i] = x
    BY <1>1, LineFacts
  <2>3. \A i : i \in 1..Len(q) + 1 <=> i \in 1..Len(q) \/ i = Len(q) + 1
    BY LineFacts
  <2>4. QED
    BY <1>1, <2>1, <2>2, <2>3
<1>5. QED
  BY <1>1, <1>3, <1>4 DEF t

\* A line whose first has left.
LEMMA ShorterLine ==
  ASSUME NEW q \in Seq(Requests), q # <<>>, IsInjective(q)
  PROVE  /\ Tail(q) \in Seq(Requests) /\ IsInjective(Tail(q))
         /\ ToSet(Tail(q)) = ToSet(q) \ {q[1]}
<1> DEFINE t == Tail(q)
<1>1. /\ t \in Seq(Requests) /\ Len(t) = Len(q) - 1
      /\ \A i \in 1..Len(t) : t[i] = q[i + 1]
  BY HeadTailProperties
<1> HIDE DEF t
<1>2. Len(q) \in Nat \ {0}
  BY LineFacts
<1>3. \A i \in 1..Len(t) : i + 1 \in 1..Len(q) /\ i + 1 # 1
  BY <1>1, <1>2
<1>4. IsInjective(t)
  <2>1. ASSUME NEW i \in 1..Len(t), NEW j \in 1..Len(t), t[i] = t[j] PROVE i = j
    <3>1. q[i + 1] = q[j + 1] /\ i + 1 \in 1..Len(q) /\ j + 1 \in 1..Len(q)
      BY <1>1, <1>3, <2>1
    <3>2. \A m, n \in 1..Len(q) : q[m] = q[n] => m = n
      BY LineFacts
    <3>3. i + 1 = j + 1
      BY <3>1, <3>2
    <3>4. i \in Int /\ j \in Int
      BY <2>1
    <3>5. QED
      BY <3>3, <3>4
  <2>2. QED
    BY <1>1, <2>1, LineFacts
<1>5. ASSUME NEW x \in ToSet(t) PROVE x \in ToSet(q) /\ x # q[1]
  <2>1. PICK i \in 1..Len(t) : t[i] = x
    BY <1>1, LineFacts
  <2>2. q[i + 1] = x /\ i + 1 \in 1..Len(q) /\ i + 1 # 1 /\ 1 \in 1..Len(q)
    BY <1>1, <1>2, <1>3, <2>1
  <2>3. QED
    BY <2>2, LineFacts
<1>6. ASSUME NEW x \in ToSet(q), x # q[1] PROVE x \in ToSet(t)
  <2>1. PICK i \in 1..Len(q) : q[i] = x
    BY LineFacts
  <2>2. i # 1
    BY <1>6, <2>1
  <2>3. i - 1 \in 1..Len(t) /\ (i - 1) + 1 = i
    BY <1>1, <1>2, <2>2
  <2>4. t[i - 1] = x
    BY <1>1, <2>1, <2>3
  <2>5. QED
    BY <1>1, <2>3, <2>4, LineFacts
<1>7. QED
  BY <1>1, <1>4, <1>5, <1>6 DEF t

\* Who is in the line changes only with Ask, Enter and the death of the server.
LEMMA LineKept ==
  ASSUME IInv, LineIsExact, line' = line,
         \A r \in Requests : at'[r] = "line" <=> at[r] = "line"
  PROVE  LineIsExact'
<1>1. {r \in Requests : at'[r] = "line"} = {r \in Requests : at[r] = "line"}
  OBVIOUS
<1>2. QED
  BY <1>1 DEF LineIsExact

\* A request lines up at the end, and the first of the line is let in.
LEMMA LineMoves ==
  ASSUME IInv, LineIsExact, NEW r \in Requests, Ask(r) \/ Enter(r)
  PROVE  LineIsExact'
<1>1. line \in Seq(Requests) /\ IsInjective(line) /\ at \in [Parties -> Places]
      /\ ToSet(line) = {q \in Requests : at[q] = "line"}
  BY DEF LineIsExact, IInv, TypeOK
<1>2. CASE Ask(r)
  <2>1. at[r] = "idle" /\ at' = [at EXCEPT ![r] = "line"] /\ line' = Append(line, r)
    BY <1>2 DEF Ask
  <2>2. r \notin ToSet(line)
    BY <1>1, <2>1
  <2>3. /\ line' \in Seq(Requests) /\ IsInjective(line')
        /\ ToSet(line') = ToSet(line) \cup {r}
    BY <1>1, <2>1, <2>2, JoinedLine
  <2>4. {q \in Requests : at'[q] = "line"} = {q \in Requests : at[q] = "line"} \cup {r}
    BY <1>1, <2>1
  <2>5. QED
    BY <1>1, <2>3, <2>4 DEF LineIsExact
<1>3. CASE Enter(r)
  <2>1. line # <<>> /\ line[1] = r /\ at' = [at EXCEPT ![r] = "poll"] /\ line' = Tail(line)
    BY <1>3 DEF Enter
  <2>2. /\ line' \in Seq(Requests) /\ IsInjective(line')
        /\ ToSet(line') = ToSet(line) \ {r}
    BY <1>1, <2>1, ShorterLine
  <2>3. {q \in Requests : at'[q] = "line"} = {q \in Requests : at[q] = "line"} \ {r}
    BY <1>1, <2>1
  <2>4. QED
    BY <1>1, <2>2, <2>3 DEF LineIsExact
<1>4. QED
  BY <1>2, <1>3

\* The line ends with the server.
LEMMA LineDies == ASSUME IInv, ServerDies PROVE LineIsExact'
<1>1. line' = <<>> /\ \A r \in Requests : at'[r] # "line"
  BY DEF ServerDies, Dies, IInv, TypeOK
<1>2. <<>> \in Seq(Requests) /\ IsInjective(<<>>) /\ ToSet(<<>>) = {}
  BY EmptySeq DEF IsInjective, ToSet
<1>3. QED
  BY <1>1, <1>2 DEF LineIsExact

\* Every other step leaves the line and who waits in it alone.
LEMMA LineStays ==
  ASSUME IInv, LineIsExact,
         \/ \E r \in Requests : Cancel(r)
         \/ \E p \in Parties : Transaction(p)
         \/ Select \/ Skip \/ ScriptDies \/ UNCHANGED vars
  PROVE  LineIsExact'
<1>1. at \in [Parties -> Places]
  BY DEF IInv, TypeOK
<1>2. ASSUME NEW r \in Requests, Cancel(r) PROVE LineIsExact'
  BY <1>1, <1>2, LineKept DEF Cancel
<1>3. ASSUME NEW p \in Parties, Transaction(p) PROVE LineIsExact'
  <2>1. /\ line' = line /\ at[p] # "line"
        /\ \E place \in Places \ {"line"} : at' = [at EXCEPT ![p] = place]
    <3>1. CASE Lock(p)
      BY <3>1 DEF Lock, Places
    <3>2. CASE Begin(p)
      BY <3>2 DEF Begin, Places
    <3>3. CASE Changed(p)
      BY <3>3 DEF Changed, Places
    <3>4. CASE TreeRemoved(p)
      BY <3>4 DEF TreeRemoved, Places
    <3>5. CASE RemovalFails(p)
      BY <3>5 DEF RemovalFails, Places
    <3>6. CASE RowDeleted(p)
      BY <3>6 DEF RowDeleted, Places
    <3>7. CASE CommitFails(p)
      BY <3>7 DEF CommitFails, Places
    <3>8. CASE Unlink(p)
      BY <3>8 DEF Unlink, Places
    <3>9. CASE \E unlinked \in BOOLEAN : Leave(p, unlinked)
      BY <3>9 DEF Leave, Places
    <3>10. QED
      BY <1>3, <3>1, <3>2, <3>3, <3>4, <3>5, <3>6, <3>7, <3>8, <3>9 DEF Transaction
  <2>2. \A r \in Requests : at'[r] = "line" <=> at[r] = "line"
    BY <1>1, <2>1
  <2>3. QED
    BY <2>1, <2>2, LineKept
<1>4. CASE Select \/ Skip
  BY <1>1, <1>4, LineKept DEF Select, Skip
<1>5. CASE ScriptDies
  <2>1. line' = line /\ \A r \in Requests : at'[r] = at[r]
    BY <1>1, <1>5 DEF ScriptDies, Dies
  <2>2. QED
    BY <2>1, LineKept
<1>6. CASE UNCHANGED vars
  BY <1>6, LineKept DEF vars
<1>7. QED
  BY <1>2, <1>3, <1>4, <1>5, <1>6

\* Besides the above, the asyncio lock is in order: its line holds exactly the
\* requests that wait for it, each of them once, so that no request waits where
\* nobody will let it in, and none is let in twice.
THEOREM Consistency == Spec => []Consistent
<1>1. Init => LineIsExact
  <2> SUFFICES ASSUME Init PROVE LineIsExact
    OBVIOUS
  <2>1. line = <<>> /\ {r \in Requests : at[r] = "line"} = {}
    BY DEF Init
  <2>2. <<>> \in Seq(Requests) /\ IsInjective(<<>>) /\ ToSet(<<>>) = {}
    BY EmptySeq DEF IsInjective, ToSet
  <2>3. QED
    BY <2>1, <2>2 DEF LineIsExact
<1>2. IInv /\ LineIsExact /\ [Next]_vars => LineIsExact'
  <2> SUFFICES ASSUME IInv, LineIsExact, [Next]_vars PROVE LineIsExact'
    OBVIOUS
  <2>1. \/ \E r \in Requests : Ask(r) \/ Enter(r)
        \/ ServerDies
        \/ \E r \in Requests : Cancel(r)
        \/ \E p \in Parties : Transaction(p)
        \/ Select \/ Skip \/ ScriptDies \/ UNCHANGED vars
    BY DEF Next
  <2>2. QED
    BY <2>1, LineMoves, LineDies, LineStays
<1>3. QED
  BY <1>1, <1>2, Invariance, PTL DEF Spec, Consistent
=============================================================================
