-------------------------- MODULE KeyedLocksProofs --------------------------
(***************************************************************************)
(* Proofs about KeyedLocks, for every set of keys, tasks and lock objects. *)
(***************************************************************************)
EXTENDS KeyedLocks, Integers, SequenceTheorems, FiniteSetTheorems, TLAPS

-----------------------------------------------------------------------------
(* Deques *)

\* Removing a position from a sequence shifts what follows it and leaves the
\* rest alone: what `deque.remove` (asyncio.Lock, locks.py:53) and `queue.get`
\* do to a queue.
LEMMA RemoveAtFacts ==
  ASSUME NEW S, NEW q \in Seq(S), NEW i \in 1..Len(q)
  PROVE  /\ RemoveAt(q, i) \in Seq(S)
         /\ Len(RemoveAt(q, i)) = Len(q) - 1
         /\ \A j \in 1..Len(q) - 1 :
              RemoveAt(q, i)[j] = IF j < i THEN q[j] ELSE q[j + 1]
<1> DEFINE a == SubSeq(q, 1, i - 1)
           b == SubSeq(q, i + 1, Len(q))
<1>0. Len(q) \in Nat /\ \A j \in 1..Len(q) : q[j] \in S
  BY LenProperties, ElementOfSeq
<1>1. /\ a \in Seq(S)
      /\ Len(a) = i - 1
      /\ \A j \in 1..i - 1 : a[j] = q[j]
  OBVIOUS
<1>2. /\ b \in Seq(S)
      /\ Len(b) = Len(q) - i
      /\ \A j \in 1..Len(q) - i : b[j] = q[i + j]
  OBVIOUS
<1>3. RemoveAt(q, i) = a \o b
  BY DEF RemoveAt
<1> HIDE DEF a, b
<1>4. /\ a \o b \in Seq(S)
      /\ Len(a \o b) = Len(a) + Len(b)
      /\ \A j \in 1..Len(a) + Len(b) :
           (a \o b)[j] = IF j <= Len(a) THEN a[j] ELSE b[j - Len(a)]
  BY <1>1, <1>2, ConcatProperties
<1>5. Len(a) + Len(b) = Len(q) - 1
  BY <1>0, <1>1, <1>2
<1>6. ASSUME NEW j \in 1..Len(q) - 1
      PROVE  (a \o b)[j] = IF j < i THEN q[j] ELSE q[j + 1]
  <2>1. CASE j < i
    BY <2>1, <1>0, <1>1, <1>4, <1>5
  <2>2. CASE ~(j < i)
    <3>1. j - (i - 1) \in 1..Len(q) - i /\ i + (j - (i - 1)) = j + 1
      BY <2>2, <1>0
    <3>2. (a \o b)[j] = b[j - (i - 1)]
      BY <2>2, <1>0, <1>1, <1>4, <1>5
    <3>3. b[j - (i - 1)] = q[i + (j - (i - 1))]
      BY <3>1, <1>2
    <3>4. QED
      BY <2>2, <3>1, <3>2, <3>3
  <2>3. QED
    BY <2>1, <2>2
<1>7. QED
  BY <1>3, <1>4, <1>5, <1>6

\* Taking a task out of a deque that holds it once leaves the deque of the
\* others, in their order.
LEMMA WithoutFacts ==
  ASSUME NEW S, NEW q \in Seq(S), NEW t,
         \E i \in 1..Len(q) : q[i] = t,
         \A i, j \in 1..Len(q) : q[i] = q[j] => i = j
  PROVE  LET r == Without(q, t)
         IN /\ r \in Seq(S)
            /\ \A i, j \in 1..Len(r) : r[i] = r[j] => i = j
            /\ \A i \in 1..Len(r) : r[i] # t /\ \E j \in 1..Len(q) : r[i] = q[j]
            /\ \A j \in 1..Len(q) : q[j] # t => \E i \in 1..Len(r) : r[i] = q[j]
            /\ q[1] # t => Len(r) > 0 /\ r[1] = q[1]
<1> DEFINE r == Without(q, t)
<1>1. PICK p \in 1..Len(q) : q[p] = t /\ r = RemoveAt(q, p)
  BY DEF Without
<1> HIDE DEF r
<1>2. /\ r \in Seq(S)
      /\ Len(r) = Len(q) - 1
      /\ \A j \in 1..Len(q) - 1 : r[j] = IF j < p THEN q[j] ELSE q[j + 1]
  BY <1>1, RemoveAtFacts
<1>3. ASSUME NEW i \in 1..Len(r), NEW j \in 1..Len(r), r[i] = r[j]
      PROVE  i = j
  <2> DEFINE at(n) == IF n < p THEN n ELSE n + 1
  <2>1. at(i) \in 1..Len(q) /\ at(j) \in 1..Len(q)
    BY <1>2
  <2>2. q[at(i)] = q[at(j)]
    BY <1>2, <1>3
  <2>3. at(i) = at(j)
    BY <2>1, <2>2
  <2>4. QED
    BY <2>3, <1>2
<1>4. \A i \in 1..Len(r) : r[i] # t /\ \E j \in 1..Len(q) : r[i] = q[j]
  <2> SUFFICES ASSUME NEW i \in 1..Len(r)
               PROVE  r[i] # t /\ \E j \in 1..Len(q) : r[i] = q[j]
    OBVIOUS
  <2> DEFINE at == IF i < p THEN i ELSE i + 1
  <2>1. at \in 1..Len(q) /\ at # p /\ r[i] = q[at]
    BY <1>2
  <2>2. QED
    BY <1>1, <2>1
<1>5. ASSUME NEW j \in 1..Len(q), q[j] # t
      PROVE  \E i \in 1..Len(r) : r[i] = q[j]
  <2>1. CASE j < p
    BY <2>1, <1>2, SMTT(30)
  <2>2. CASE j > p
    <3>1. j - 1 \in 1..Len(r) /\ r[j - 1] = q[j]
      BY <2>2, <1>2, SMTT(30)
    <3>2. QED
      BY <3>1
  <2>3. QED
    BY <2>1, <2>2, <1>1, <1>5
<1>6. q[1] # t => Len(r) > 0 /\ r[1] = q[1]
  BY <1>1, <1>2
<1>7. QED
  BY <1>2, <1>3, <1>4, <1>5, <1>6 DEF r

\* Waking the first waiter changes nothing but a pending future to a resolved
\* one.
LEMMA WakeFirstFacts ==
  ASSUME NEW st \in [Tasks -> States], NEW q \in Seq(Tasks)
  PROVE  /\ WakeFirst(st, q) \in [Tasks -> States]
         /\ \A u \in Tasks :
              WakeFirst(st, q)[u] =
                IF q # <<>> /\ u = Head(q) /\ st[u] = "queued" THEN "woken" ELSE st[u]
BY DEF WakeFirst, States

-----------------------------------------------------------------------------
(* Entries *)

\* The callers of a key are finitely many.
LEMMA UsersFinite ==
  ASSUME NEW k \in Keys
  PROVE  IsFiniteSet(Users(k))
BY TasksAreFinite, FS_Subset DEF Users

\* Counting a caller that was idle: its entry exists, with one more user, and
\* every other entry is as it was (locks.py:44-50).
LEMMA CountFacts ==
  ASSUME TypeOK, EntriesAreExact, LocksApart,
         NEW t \in Tasks, NEW k \in Keys, NEW l \in Locks,
         state[t] = "idle", Entry(k, l), CountUser(k, l),
         key' = [key EXCEPT ![t] = k],
         lock' = [lock EXCEPT ![t] = l],
         state'[t] # "idle",
         \A u \in Tasks \ {t} : state'[u] = state[u]
  PROVE  EntriesAreExact' /\ LocksApart'
<1> USE NoLockIsNoLock DEF TypeOK
<1>1. lockOf' = [lockOf EXCEPT ![k] = l] /\ users' = [users EXCEPT ![k] = @ + 1]
  BY DEF CountUser
<1>2. Users(k)' = Users(k) \cup {t} /\ t \notin Users(k)
  BY DEF Users
<1>3. \A j \in Keys \ {k} : Users(j)' = Users(j)
  BY DEF Users
<1>4. Cardinality(Users(k)') = users[k] + 1
  <2>1. IsFiniteSet(Users(k))
    BY UsersFinite
  <2>2. Cardinality(Users(k) \cup {t}) = Cardinality(Users(k)) + 1
    BY <1>2, <2>1, FS_AddElement
  <2>3. QED
    BY <1>2, <2>2 DEF EntriesAreExact
<1>5. \A j \in Keys : users'[j] = Cardinality(Users(j)')
  BY <1>1, <1>3, <1>4 DEF EntriesAreExact
<1>6. \A j \in Keys : lockOf'[j] = NoLock <=> users'[j] = 0
  BY <1>1 DEF EntriesAreExact
<1>7. ASSUME NEW u \in Tasks, state'[u] # "idle"
      PROVE  lock'[u] = lockOf'[key'[u]]
  <2>1. CASE u = t
    BY <2>1, <1>1
  <2>2. CASE u # t /\ key[u] # k
    BY <2>2, <1>1, <1>7 DEF EntriesAreExact
  <2>3. CASE u # t /\ key[u] = k
    <3>1. u \in Users(k)
      BY <2>3, <1>7 DEF Users
    <3>2. users[k] # 0
      BY <3>1, UsersFinite, FS_EmptySet DEF EntriesAreExact
    <3>3. lockOf[k] = l
      BY <3>2 DEF EntriesAreExact, Entry
    <3>4. QED
      BY <2>3, <3>3, <1>1, <1>7 DEF EntriesAreExact
  <2>4. QED
    BY <2>1, <2>2, <2>3
<1>8. EntriesAreExact'
  BY <1>5, <1>6, <1>7 DEF EntriesAreExact
<1>9. LocksApart'
  BY <1>1 DEF LocksApart, Entry, Unused
<1>10. QED
  BY <1>8, <1>9

\* Uncounting a caller that leaves: the entry goes with its last user, and
\* keeps its lock otherwise (locks.py:63-67).
LEMMA UncountFacts ==
  ASSUME TypeOK, EntriesAreExact, LocksApart,
         NEW t \in Tasks,
         state[t] # "idle", UncountUser(key[t], lock[t]),
         key' = key,
         lock' = [lock EXCEPT ![t] = NoLock],
         state'[t] = "idle",
         \A u \in Tasks \ {t} : state'[u] = "idle" <=> state[u] = "idle"
  PROVE  /\ lockOf' \in [Keys -> Locks \cup {NoLock}]
         /\ users' \in [Keys -> Nat]
         /\ EntriesAreExact'
         /\ LocksApart'
<1> DEFINE k == key[t]
<1> USE NoLockIsNoLock DEF TypeOK
<1>1. k \in Keys /\ lock[t] = lockOf[k]
  BY DEF EntriesAreExact
<1>2. Users(k)' = Users(k) \ {t} /\ t \in Users(k)
  BY DEF Users
<1>3. \A j \in Keys \ {k} : Users(j)' = Users(j)
  BY DEF Users
<1>4. /\ users[k] = Cardinality(Users(k))
      /\ Cardinality(Users(k)') = users[k] - 1
      /\ users[k] \in Nat \ {0}
  <2>1. IsFiniteSet(Users(k))
    BY <1>1, UsersFinite
  <2>2. Cardinality(Users(k) \ {t}) = Cardinality(Users(k)) - 1
    BY <1>2, <2>1, FS_RemoveElement
  <2>3. Cardinality(Users(k)) # 0
    BY <1>2, <2>1, FS_EmptySet
  <2>4. QED
    BY <1>1, <1>2, <2>2, <2>3 DEF EntriesAreExact
<1>5. /\ users' = [users EXCEPT ![k] = @ - 1]
      /\ lockOf' = [lockOf EXCEPT ![k] = IF users[k] = 1 THEN NoLock ELSE @]
  BY <1>1, <1>4 DEF UncountUser
<1>6. lockOf' \in [Keys -> Locks \cup {NoLock}] /\ users' \in [Keys -> Nat]
  BY <1>1, <1>4, <1>5
<1>7. \A j \in Keys : users'[j] = Cardinality(Users(j)')
  BY <1>1, <1>3, <1>4, <1>5 DEF EntriesAreExact
<1>8. \A j \in Keys : lockOf'[j] = NoLock <=> users'[j] = 0
  BY <1>1, <1>4, <1>5 DEF EntriesAreExact
<1>9. ASSUME NEW u \in Tasks, state'[u] # "idle"
      PROVE  lock'[u] = lockOf'[key'[u]]
  <2>1. u # t /\ state[u] # "idle" /\ lock[u] = lockOf[key[u]]
    BY <1>9 DEF EntriesAreExact
  <2>2. CASE key[u] # k
    BY <2>1, <2>2, <1>5
  <2>3. CASE key[u] = k
    <3>1. u \in Users(k)'
      BY <2>1, <2>3, <1>2 DEF Users
    <3>2. IsFiniteSet(Users(k) \ {t})
      <4>1. IsFiniteSet(Users(k))
        BY <1>1, UsersFinite
      <4>2. QED
        BY <4>1, FS_RemoveElement
    <3>3. Cardinality(Users(k) \ {t}) # 0
      BY <3>1, <3>2, <1>2, FS_EmptySet
    <3>4. users[k] # 1
      BY <3>3, <1>2, <1>4
    <3>5. QED
      BY <3>4, <2>1, <2>3, <1>1, <1>5
  <2>4. QED
    BY <2>2, <2>3
<1>10. EntriesAreExact'
  BY <1>7, <1>8, <1>9 DEF EntriesAreExact
<1>11. LocksApart'
  BY <1>1, <1>5 DEF LocksApart
<1>12. QED
  BY <1>6, <1>10, <1>11

-----------------------------------------------------------------------------
(* Each action preserves the invariant *)

\* Without an entry and without a caller the invariant holds.
LEMMA InitIInv == Init => IInv
<1> SUFFICES ASSUME Init PROVE IInv
  OBVIOUS
<1>1. TypeOK
  BY DEF Init, TypeOK, States
<1>2. \A k \in Keys : Users(k) = {}
  BY DEF Init, Users
<1>3. EntriesAreExact
  BY <1>2, FS_EmptySet DEF Init, EntriesAreExact
<1>4. DequesAreExact /\ LockedIsHeld /\ WokenIsFirst /\ FirstIsAwake /\ LocksApart
  BY DEF Init, DequesAreExact, LockedIsHeld, WokenIsFirst, FirstIsAwake, LocksApart, InLine
<1>5. QED
  BY <1>1, <1>3, <1>4 DEF IInv

\* A caller has a lock, the one of its key's entry (locks.py:61-62).
LEMMA CallerHasLock ==
  ASSUME TypeOK, EntriesAreExact, NEW t \in Tasks, state[t] # "idle"
  PROVE  lock[t] \in Locks
<1>1. key[t] \in Keys /\ t \in Users(key[t])
  BY DEF TypeOK, Users
<1>2. Cardinality(Users(key[t])) # 0
  BY <1>1, UsersFinite, FS_EmptySet
<1>3. QED
  BY <1>1, <1>2 DEF TypeOK, EntriesAreExact

\* A caller that finds its lock free goes inside: there was no woken waiter it
\* could have overtaken (locks.py:44-53).
LEMMA CallAndAcquirePreserves ==
  ASSUME IInv, NEW t \in Tasks, NEW k \in Keys, CallAndAcquire(t, k)
  PROVE  IInv'
<1> USE DEF IInv
<1>1. PICK l \in Locks :
        /\ Entry(k, l)
        /\ FastPath(l)
        /\ CountUser(k, l)
        /\ locked' = [locked EXCEPT ![l] = TRUE]
        /\ lock' = [lock EXCEPT ![t] = l]
  BY DEF CallAndAcquire
<1>2. /\ state[t] = "idle"
      /\ key' = [key EXCEPT ![t] = k]
      /\ state' = [state EXCEPT ![t] = "inside"]
      /\ waiters' = waiters
  BY DEF CallAndAcquire
<1>3. TypeOK'
  BY <1>1, <1>2 DEF TypeOK, CountUser, States
<1>4. EntriesAreExact' /\ LocksApart'
  BY <1>1, <1>2, CountFacts DEF TypeOK
<1>5. \A m \in Locks : waiters[m] \in Seq(Tasks) /\ \A i \in 1..Len(waiters[m]) : waiters[m][i] \in Tasks
  BY DEF TypeOK
<1>6. DequesAreExact'
  <2>1. ASSUME NEW m \in Locks, NEW i \in 1..Len(waiters[m])
        PROVE  /\ state'[waiters[m][i]] \in InLine
               /\ lock'[waiters[m][i]] = m
               /\ \A j \in 1..Len(waiters[m]) : waiters[m][i] = waiters[m][j] => i = j
    <3>1. waiters[m][i] \in Tasks /\ state[waiters[m][i]] \in InLine
      BY <1>5 DEF DequesAreExact
    <3>2. waiters[m][i] # t
      BY <3>1, <1>2 DEF InLine
    <3>3. QED
      BY <3>1, <3>2, <1>1, <1>2 DEF DequesAreExact, TypeOK
  <2>2. ASSUME NEW u \in Tasks, state'[u] \in InLine
        PROVE  \E i \in 1..Len(waiters[lock'[u]]) : waiters[lock'[u]][i] = u
    <3>1. u # t /\ state[u] \in InLine /\ lock'[u] = lock[u]
      BY <2>2, <1>1, <1>2 DEF TypeOK, InLine
    <3>2. QED
      BY <3>1 DEF DequesAreExact
  <2>3. QED
    BY <2>1, <2>2, <1>2 DEF DequesAreExact
<1>7. LockedIsHeld'
  BY <1>1, <1>2 DEF LockedIsHeld, FastPath, TypeOK
<1>8. ASSUME NEW u \in Tasks, state'[u] \in {"woken", "revoked"}
      PROVE  ~locked'[lock'[u]] /\ Head(waiters'[lock'[u]]) = u
  <2>1. u # t /\ state[u] = state'[u] /\ lock'[u] = lock[u]
    BY <1>1, <1>2, <1>8 DEF TypeOK
  <2>2. ~locked[lock[u]] /\ Head(waiters[lock[u]]) = u
    BY <1>8, <2>1 DEF WokenIsFirst
  <2>3. lock[u] # l
    BY <1>1, <1>8, <2>1 DEF DequesAreExact, FastPath, InLine
  <2>4. QED
    BY <1>1, <1>2, <2>1, <2>2, <2>3 DEF TypeOK
<1>9. FirstIsAwake'
  <2> SUFFICES ASSUME NEW m \in Locks, ~locked'[m], waiters'[m] # <<>>
               PROVE  state'[Head(waiters'[m])] # "queued"
    BY DEF FirstIsAwake
  <2>1. ~locked[m] /\ waiters[m] # <<>>
    BY <1>1, <1>2 DEF TypeOK
  <2>2. Head(waiters[m]) \in Tasks /\ state[Head(waiters[m])] # "queued"
    BY <2>1, <1>5 DEF FirstIsAwake
  <2>3. QED
    BY <2>2, <1>2 DEF TypeOK
<1>10. QED
  BY <1>3, <1>4, <1>6, <1>7, <1>8, <1>9 DEF WokenIsFirst

\* A caller that has to wait is the last of the deque, and if it is the first
\* too then somebody is inside (locks.py:44-53).
LEMMA CallAndWaitPreserves ==
  ASSUME IInv, NEW t \in Tasks, NEW k \in Keys, CallAndWait(t, k)
  PROVE  IInv'
<1> USE DEF IInv
<1>1. PICK l \in Locks :
        /\ Entry(k, l)
        /\ ~FastPath(l)
        /\ CountUser(k, l)
        /\ waiters' = [waiters EXCEPT ![l] = Append(@, t)]
        /\ lock' = [lock EXCEPT ![t] = l]
  BY DEF CallAndWait
<1>2. /\ state[t] = "idle"
      /\ key' = [key EXCEPT ![t] = k]
      /\ state' = [state EXCEPT ![t] = "queued"]
      /\ locked' = locked
  BY DEF CallAndWait
<1>3. TypeOK'
  BY <1>1, <1>2 DEF TypeOK, CountUser, States
<1>4. EntriesAreExact' /\ LocksApart'
  BY <1>1, <1>2, CountFacts DEF TypeOK
<1>5. \A m \in Locks : waiters[m] \in Seq(Tasks) /\ \A i \in 1..Len(waiters[m]) : waiters[m][i] \in Tasks
  BY DEF TypeOK
<1>6. /\ waiters'[l] = Append(waiters[l], t)
      /\ Len(waiters'[l]) = Len(waiters[l]) + 1
      /\ \A i \in 1..Len(waiters[l]) : waiters'[l][i] = waiters[l][i]
      /\ waiters'[l][Len(waiters[l]) + 1] = t
      /\ \A m \in Locks \ {l} : waiters'[m] = waiters[m]
  BY <1>1, <1>5 DEF TypeOK
<1>7. \A m \in Locks : \A i \in 1..Len(waiters[m]) :
        /\ waiters[m][i] # t
        /\ state'[waiters[m][i]] = state[waiters[m][i]]
        /\ lock'[waiters[m][i]] = lock[waiters[m][i]]
  <2> SUFFICES ASSUME NEW m \in Locks, NEW i \in 1..Len(waiters[m])
               PROVE  /\ waiters[m][i] # t
                      /\ state'[waiters[m][i]] = state[waiters[m][i]]
                      /\ lock'[waiters[m][i]] = lock[waiters[m][i]]
    OBVIOUS
  <2>1. waiters[m][i] \in Tasks /\ state[waiters[m][i]] \in InLine
    BY <1>5 DEF DequesAreExact
  <2>2. QED
    BY <2>1, <1>1, <1>2 DEF InLine, TypeOK
<1>8. DequesAreExact'
  <2>1. ASSUME NEW m \in Locks, NEW i \in 1..Len(waiters'[m])
        PROVE  /\ state'[waiters'[m][i]] \in InLine
               /\ lock'[waiters'[m][i]] = m
               /\ \A j \in 1..Len(waiters'[m]) : waiters'[m][i] = waiters'[m][j] => i = j
    <3>1. CASE m # l
      BY <3>1, <1>6, <1>7 DEF DequesAreExact
    <3>2. CASE m = l /\ i \in 1..Len(waiters[l])
      BY <3>2, <1>5, <1>6, <1>7 DEF DequesAreExact
    <3>3. CASE m = l /\ i = Len(waiters[l]) + 1
      <4>1. state'[t] = "queued" /\ lock'[t] = l
        BY <1>1, <1>2 DEF TypeOK
      <4>2. QED
        BY <3>3, <4>1, <1>5, <1>6, <1>7 DEF InLine
    <3>4. QED
      BY <3>1, <3>2, <3>3, <1>5, <1>6
  <2>2. ASSUME NEW u \in Tasks, state'[u] \in InLine
        PROVE  \E i \in 1..Len(waiters'[lock'[u]]) : waiters'[lock'[u]][i] = u
    <3>1. CASE u = t
      BY <3>1, <1>1, <1>5, <1>6 DEF TypeOK
    <3>2. CASE u # t
      <4>1. state[u] \in InLine /\ lock'[u] = lock[u] /\ lock[u] \in Locks
        BY <3>2, <2>2, <1>1, <1>2, CallerHasLock DEF TypeOK, InLine
      <4>2. PICK i \in 1..Len(waiters[lock[u]]) : waiters[lock[u]][i] = u
        BY <4>1 DEF DequesAreExact
      <4>3. QED
        BY <4>1, <4>2, <1>5, <1>6
    <3>3. QED
      BY <3>1, <3>2
  <2>3. QED
    BY <2>1, <2>2 DEF DequesAreExact
<1>9. LockedIsHeld'
  BY <1>1, <1>2 DEF LockedIsHeld, TypeOK
<1>10. \A m \in Locks : waiters[m] # <<>> =>
         waiters'[m] # <<>> /\ Head(waiters'[m]) = Head(waiters[m]) /\ Head(waiters[m]) \in Tasks \ {t}
  <2> SUFFICES ASSUME NEW m \in Locks, waiters[m] # <<>>
               PROVE  waiters'[m] # <<>> /\ Head(waiters'[m]) = Head(waiters[m]) /\ Head(waiters[m]) \in Tasks \ {t}
    OBVIOUS
  <2>1. 1 \in 1..Len(waiters[m]) /\ Head(waiters[m]) = waiters[m][1] /\ waiters[m][1] \in Tasks \ {t}
    BY <1>5, <1>7
  <2>2. CASE m # l
    BY <2>1, <2>2, <1>6
  <2>3. CASE m = l
    BY <2>1, <2>3, <1>5, <1>6
  <2>4. QED
    BY <2>2, <2>3
<1>11. ASSUME NEW u \in Tasks, state'[u] \in {"woken", "revoked"}
       PROVE  ~locked'[lock'[u]] /\ Head(waiters'[lock'[u]]) = u
  <2>1. u # t /\ state[u] = state'[u] /\ lock'[u] = lock[u]
    BY <1>1, <1>2, <1>11 DEF TypeOK
  <2>2. ~locked[lock[u]] /\ Head(waiters[lock[u]]) = u
    BY <1>11, <2>1 DEF WokenIsFirst
  <2>3. lock[u] \in Locks /\ waiters[lock[u]] # <<>>
    <3>1. lock[u] \in Locks
      BY <1>11, <2>1, CallerHasLock
    <3>2. PICK i \in 1..Len(waiters[lock[u]]) : waiters[lock[u]][i] = u
      BY <1>11, <2>1 DEF DequesAreExact, InLine
    <3>3. QED
      BY <3>1, <3>2, <1>5
  <2>4. QED
    BY <1>2, <1>10, <2>1, <2>2, <2>3
<1>12. FirstIsAwake'
  <2> SUFFICES ASSUME NEW m \in Locks, ~locked'[m], waiters'[m] # <<>>
               PROVE  state'[Head(waiters'[m])] # "queued"
    BY DEF FirstIsAwake
  <2>1. waiters[m] # <<>>
    <3>1. CASE m # l
      BY <3>1, <1>6
    <3>2. CASE m = l
      BY <3>2, <1>1, <1>2 DEF FastPath
    <3>3. QED
      BY <3>1, <3>2
  <2>2. state[Head(waiters[m])] # "queued"
    BY <2>1, <1>2 DEF FirstIsAwake
  <2>3. QED
    BY <2>1, <2>2, <1>2, <1>10 DEF TypeOK
<1>13. QED
  BY <1>3, <1>4, <1>8, <1>9, <1>11, <1>12 DEF WokenIsFirst

\* A waiter that leaves the deque of its lock leaves the others in it, and the
\* first waiter first (`self._waiters.remove(fut)`).
LEMMA LeaveDeque ==
  ASSUME IInv, NEW t \in Tasks, state[t] \in InLine,
         waiters' = [waiters EXCEPT ![lock[t]] = Without(@, t)],
         state'[t] \notin InLine,
         \A u \in Tasks \ {t} : /\ state'[u] \in InLine <=> state[u] \in InLine
                                /\ lock'[u] = lock[u]
  PROVE  /\ waiters' \in [Locks -> Seq(Tasks)]
         /\ DequesAreExact'
         /\ \A m \in Locks : waiters[m] # <<>> /\ Head(waiters[m]) # t =>
              waiters'[m] # <<>> /\ Head(waiters'[m]) = Head(waiters[m])
<1>1. PICK l \in Locks : l = lock[t]
  BY CallerHasLock DEF IInv, InLine
<1>2. \A m \in Locks : waiters[m] \in Seq(Tasks) /\ \A i \in 1..Len(waiters[m]) : waiters[m][i] \in Tasks
  BY DEF IInv, TypeOK
<1>3. PICK q \in Seq(Tasks) :
        /\ q = waiters[l]
        /\ \E i \in 1..Len(q) : q[i] = t
        /\ \A i, j \in 1..Len(q) : q[i] = q[j] => i = j
  BY <1>1, <1>2 DEF IInv, DequesAreExact
<1>4. PICK r :
        /\ r = Without(q, t)
        /\ r = waiters'[l]
        /\ \A m \in Locks \ {l} : waiters'[m] = waiters[m]
  BY <1>1, <1>3 DEF IInv, TypeOK
<1>5. /\ r \in Seq(Tasks)
      /\ \A i, j \in 1..Len(r) : r[i] = r[j] => i = j
      /\ \A i \in 1..Len(r) : r[i] # t /\ \E j \in 1..Len(q) : r[i] = q[j]
      /\ \A j \in 1..Len(q) : q[j] # t => \E i \in 1..Len(r) : r[i] = q[j]
      /\ q[1] # t => Len(r) > 0 /\ r[1] = q[1]
  <2>1. /\ \E i \in 1..Len(q) : q[i] = t
        /\ \A i, j \in 1..Len(q) : q[i] = q[j] => i = j
    BY <1>3
  <2>2. r = Without(q, t)
    BY <1>4
  <2>3. QED
    BY <2>1, <2>2, WithoutFacts
<1>6. waiters' \in [Locks -> Seq(Tasks)]
  BY <1>1, <1>2, <1>4, <1>5 DEF IInv, TypeOK
<1>7. \A m \in Locks : \A i \in 1..Len(waiters[m]) :
        /\ waiters[m][i] \in Tasks
        /\ state[waiters[m][i]] \in InLine
        /\ lock[waiters[m][i]] = m
  BY <1>2 DEF IInv, DequesAreExact
<1>8. ASSUME NEW m \in Locks, NEW i \in 1..Len(waiters'[m])
      PROVE  /\ state'[waiters'[m][i]] \in InLine
             /\ lock'[waiters'[m][i]] = m
             /\ \A j \in 1..Len(waiters'[m]) : waiters'[m][i] = waiters'[m][j] => i = j
  <2>1. CASE m = l
    <3>1. \A j \in 1..Len(q) : (state'[q[j]] \in InLine /\ lock'[q[j]] = l) \/ q[j] = t
      BY <1>3, <1>7
    <3>2. waiters'[m] = r
      BY <2>1, <1>4
    <3>3. i \in 1..Len(r)
      BY <3>2
    <3>4. state'[r[i]] \in InLine /\ lock'[r[i]] = l
      BY <3>1, <3>3, <1>5
    <3>5. \A j \in 1..Len(r) : r[i] = r[j] => i = j
      BY <3>3, <1>5
    <3>6. QED
      BY <3>2, <3>4, <3>5, <2>1
  <2>2. CASE m # l
    <3>1. waiters'[m] = waiters[m]
      BY <2>2, <1>4
    <3>2. waiters[m][i] # t
      BY <2>2, <3>1, <1>1, <1>7
    <3>3. \A j \in 1..Len(waiters[m]) : waiters[m][i] = waiters[m][j] => i = j
      BY <3>1 DEF IInv, DequesAreExact
    <3>4. QED
      BY <3>1, <3>2, <3>3, <1>7
  <2>3. QED
    BY <2>1, <2>2
<1>9. ASSUME NEW u \in Tasks, state'[u] \in InLine
      PROVE  \E i \in 1..Len(waiters'[lock'[u]]) : waiters'[lock'[u]][i] = u
  <2>1. u # t /\ state[u] \in InLine /\ lock'[u] = lock[u]
    BY <1>9
  <2>2. lock[u] \in Locks
    BY <2>1, CallerHasLock DEF IInv, InLine
  <2>3. PICK i \in 1..Len(waiters[lock[u]]) : waiters[lock[u]][i] = u
    BY <2>1 DEF IInv, DequesAreExact
  <2>4. QED
    BY <2>1, <2>2, <2>3, <1>3, <1>4, <1>5
<1>10. DequesAreExact'
  BY <1>8, <1>9 DEF DequesAreExact
<1>11. ASSUME NEW m \in Locks, waiters[m] # <<>>, Head(waiters[m]) # t
       PROVE  waiters'[m] # <<>> /\ Head(waiters'[m]) = Head(waiters[m])
  <2>1. CASE m # l
    BY <2>1, <1>4, <1>11
  <2>2. CASE m = l
    <3>1. waiters[l] \in Seq(Tasks) /\ Head(waiters[l]) = waiters[l][1]
      BY <1>2, <1>11, <2>2
    <3>2. waiters'[l] \in Seq(Tasks) /\ Len(waiters'[l]) > 0 /\ waiters'[l][1] = waiters[l][1]
      BY <3>1, <1>3, <1>4, <1>5, <1>11, <2>2
    <3>3. waiters'[l] # <<>> /\ Head(waiters'[l]) = waiters'[l][1]
      BY <3>2
    <3>4. QED
      BY <3>1, <3>2, <3>3, <2>2
  <2>3. QED
    BY <2>1, <2>2
<1>12. QED
  BY <1>6, <1>10, <1>11

\* A task the invariant calls woken stands in the deque of its lock.
LEMMA WaiterInDeque ==
  ASSUME IInv, NEW t \in Tasks, state[t] \in InLine
  PROVE  /\ lock[t] \in Locks
         /\ waiters[lock[t]] \in Seq(Tasks)
         /\ waiters[lock[t]] # <<>>
         /\ Head(waiters[lock[t]]) \in Tasks
<1>1. lock[t] \in Locks
  BY CallerHasLock DEF IInv, InLine
<1>2. waiters[lock[t]] \in Seq(Tasks)
  BY <1>1 DEF IInv, TypeOK
<1>3. \E i \in 1..Len(waiters[lock[t]]) : waiters[lock[t]][i] = t
  BY DEF IInv, DequesAreExact
<1>4. QED
  BY <1>1, <1>2, <1>3

\* The woken task is the first of its deque and the lock is free: nobody else
\* can have gone inside since it was woken.
LEMMA ResumePreserves ==
  ASSUME IInv, NEW t \in Tasks, Resume(t)
  PROVE  IInv'
<1> DEFINE l == lock[t]
<1> USE DEF IInv
<1>1. /\ state[t] = "woken"
      /\ waiters' = [waiters EXCEPT ![l] = Without(@, t)]
      /\ locked' = [locked EXCEPT ![l] = TRUE]
      /\ state' = [state EXCEPT ![t] = "inside"]
      /\ UNCHANGED <<lockOf, users, key, lock>>
  BY DEF Resume
<1>2. l \in Locks /\ ~locked[l] /\ Head(waiters[l]) = t
  BY <1>1, WaiterInDeque DEF WokenIsFirst, InLine
<1>3. /\ waiters' \in [Locks -> Seq(Tasks)]
      /\ DequesAreExact'
      /\ \A m \in Locks : waiters[m] # <<>> /\ Head(waiters[m]) # t =>
           waiters'[m] # <<>> /\ Head(waiters'[m]) = Head(waiters[m])
  <2>1. /\ state[t] \in InLine
        /\ state'[t] \notin InLine
        /\ \A u \in Tasks \ {t} : /\ state'[u] \in InLine <=> state[u] \in InLine
                                  /\ lock'[u] = lock[u]
    BY <1>1 DEF TypeOK, InLine
  <2>2. QED
    BY <1>1, <2>1, LeaveDeque
<1>4. TypeOK'
  BY <1>1, <1>3 DEF TypeOK, States
<1>5. EntriesAreExact'
  <2>1. \A k \in Keys : Users(k)' = Users(k)
    BY <1>1 DEF Users, TypeOK
  <2>2. QED
    BY <2>1, <1>1 DEF EntriesAreExact, TypeOK
<1>6. LockedIsHeld'
  BY <1>1, <1>2 DEF LockedIsHeld, TypeOK
<1>7. ASSUME NEW u \in Tasks, state'[u] \in {"woken", "revoked"}
      PROVE  ~locked'[lock'[u]] /\ Head(waiters'[lock'[u]]) = u
  <2>1. u # t /\ state[u] = state'[u] /\ lock'[u] = lock[u]
    BY <1>1, <1>7 DEF TypeOK
  <2>2. ~locked[lock[u]] /\ Head(waiters[lock[u]]) = u
    BY <1>7, <2>1 DEF WokenIsFirst
  <2>3. lock[u] \in Locks /\ waiters[lock[u]] # <<>> /\ lock[u] # l
    BY <1>2, <1>7, <2>1, <2>2, WaiterInDeque DEF InLine
  <2>4. QED
    BY <1>1, <1>3, <2>1, <2>2, <2>3 DEF TypeOK
<1>8. FirstIsAwake'
  <2> SUFFICES ASSUME NEW m \in Locks, ~locked'[m], waiters'[m] # <<>>
               PROVE  state'[Head(waiters'[m])] # "queued"
    BY DEF FirstIsAwake
  <2>1. m # l /\ ~locked[m] /\ waiters'[m] = waiters[m]
    BY <1>1, <1>2 DEF TypeOK
  <2>2. state[Head(waiters[m])] # "queued" /\ Head(waiters[m]) \in Tasks
    BY <2>1 DEF FirstIsAwake, TypeOK
  <2>3. QED
    BY <2>1, <2>2, <1>1 DEF TypeOK
<1>9. LocksApart'
  BY <1>1 DEF LocksApart
<1>10. QED
  BY <1>3, <1>4, <1>5, <1>6, <1>7, <1>8, <1>9 DEF WokenIsFirst

\* A cancellation changes what the task finds when it runs, and nothing else.
LEMMA CancelPreserves ==
  ASSUME IInv, NEW t \in Tasks, Cancel(t)
  PROVE  IInv'
<1> USE DEF IInv
<1>1. /\ state[t] \in {"queued", "woken"}
      /\ state' = [state EXCEPT ![t] = IF state[t] = "queued" THEN "cancelled" ELSE "revoked"]
      /\ UNCHANGED <<lockOf, users, locked, waiters, key, lock>>
  BY DEF Cancel
<1>2. TypeOK'
  BY <1>1 DEF TypeOK, States
<1>3. EntriesAreExact'
  <2>1. \A k \in Keys : Users(k)' = Users(k)
    BY <1>1 DEF Users, TypeOK
  <2>2. QED
    BY <2>1, <1>1 DEF EntriesAreExact, TypeOK
<1>4. \A u \in Tasks : state'[u] \in InLine <=> state[u] \in InLine
  BY <1>1 DEF TypeOK, InLine
<1>5. \A m \in Locks : waiters[m] \in Seq(Tasks) /\ \A i \in 1..Len(waiters[m]) : waiters[m][i] \in Tasks
  BY DEF TypeOK
<1>6. DequesAreExact'
  BY <1>1, <1>4, <1>5 DEF DequesAreExact
<1>7. LockedIsHeld'
  BY <1>1 DEF LockedIsHeld, TypeOK
<1>8. WokenIsFirst'
  BY <1>1 DEF WokenIsFirst, TypeOK
<1>9. FirstIsAwake'
  <2> SUFFICES ASSUME NEW m \in Locks, ~locked[m], waiters[m] # <<>>
               PROVE  state'[Head(waiters[m])] # "queued"
    BY <1>1 DEF FirstIsAwake
  <2>1. Head(waiters[m]) \in Tasks /\ state[Head(waiters[m])] # "queued"
    BY <1>5 DEF FirstIsAwake
  <2>2. QED
    BY <2>1, <1>1 DEF TypeOK
<1>10. LocksApart'
  BY <1>1 DEF LocksApart
<1>11. QED
  BY <1>2, <1>3, <1>6, <1>7, <1>8, <1>9, <1>10

\* A cancelled caller leaves: the wake-up it may have had goes to the next in
\* the deque, and its entry goes if it was the last (locks.py:59-67).
LEMMA UnwindPreserves ==
  ASSUME IInv, NEW t \in Tasks, Unwind(t)
  PROVE  IInv'
<1> USE DEF IInv
<1>1. PICK l \in Locks : l = lock[t]
  BY CallerHasLock DEF Unwind
<1>2. /\ state[t] \in {"cancelled", "revoked"}
      /\ waiters' = [waiters EXCEPT ![l] = Without(@, t)]
      /\ state' = [IF locked[l] THEN state ELSE WakeFirst(state, Without(waiters[l], t))
                     EXCEPT ![t] = "idle"]
      /\ UncountUser(key[t], lock[t])
      /\ lock' = [lock EXCEPT ![t] = NoLock]
      /\ UNCHANGED <<locked, key>>
  BY <1>1 DEF Unwind
<1>3. PICK r : r = waiters'[l]
  OBVIOUS
<1>4. r = Without(waiters[l], t) /\ \A m \in Locks \ {l} : waiters'[m] = waiters[m]
  BY <1>2, <1>3 DEF TypeOK
<1>5. r \in Seq(Tasks)
  <2>1. /\ waiters[l] \in Seq(Tasks)
        /\ \E i \in 1..Len(waiters[l]) : waiters[l][i] = t
        /\ \A i, j \in 1..Len(waiters[l]) : waiters[l][i] = waiters[l][j] => i = j
    <3>1. waiters[l] \in Seq(Tasks)
      BY DEF TypeOK
    <3>2. \E i \in 1..Len(waiters[l]) : waiters[l][i] = t
      BY <1>1, <1>2 DEF DequesAreExact, InLine
    <3>3. \A i, j \in 1..Len(waiters[l]) : waiters[l][i] = waiters[l][j] => i = j
      BY DEF DequesAreExact
    <3>4. QED
      BY <3>1, <3>2, <3>3
  <2>2. QED
    BY <2>1, <1>4, WithoutFacts
<1>6. /\ state' \in [Tasks -> States]
      /\ state'[t] = "idle"
      /\ \A u \in Tasks \ {t} :
           state'[u] = IF ~locked[l] /\ r # <<>> /\ u = Head(r) /\ state[u] = "queued"
                       THEN "woken" ELSE state[u]
  <2>1. CASE locked[l]
    BY <2>1, <1>2 DEF TypeOK, States
  <2>2. CASE ~locked[l]
    <3>1. PICK w : w = WakeFirst(state, r)
      OBVIOUS
    <3>2. /\ w \in [Tasks -> States]
          /\ \A u \in Tasks :
               w[u] = IF r # <<>> /\ u = Head(r) /\ state[u] = "queued" THEN "woken" ELSE state[u]
      BY <3>1, <1>5, WakeFirstFacts DEF TypeOK
    <3>3. state' = [w EXCEPT ![t] = "idle"]
      BY <2>2, <3>1, <1>2, <1>4
    <3>4. QED
      BY <2>2, <3>2, <3>3 DEF States
  <2>3. QED
    BY <2>1, <2>2
<1>7. /\ lockOf' \in [Keys -> Locks \cup {NoLock}]
      /\ users' \in [Keys -> Nat]
      /\ EntriesAreExact'
      /\ LocksApart'
  <2>1. \A u \in Tasks \ {t} : state'[u] = "idle" <=> state[u] = "idle"
    BY <1>6
  <2>2. QED
    BY <2>1, <1>2, <1>6, UncountFacts
<1>8. /\ waiters' \in [Locks -> Seq(Tasks)]
      /\ DequesAreExact'
      /\ \A m \in Locks : waiters[m] # <<>> /\ Head(waiters[m]) # t =>
           waiters'[m] # <<>> /\ Head(waiters'[m]) = Head(waiters[m])
  <2>1. /\ state[t] \in InLine
        /\ state'[t] \notin InLine
        /\ \A u \in Tasks \ {t} : /\ state'[u] \in InLine <=> state[u] \in InLine
                                  /\ lock'[u] = lock[u]
    BY <1>2, <1>6 DEF TypeOK, InLine
  <2>2. QED
    BY <2>1, <1>1, <1>2, LeaveDeque
<1>9. TypeOK'
  BY <1>2, <1>6, <1>7, <1>8 DEF TypeOK
<1>10. LockedIsHeld'
  <2>1. \A u \in Tasks : /\ state'[u] = "inside" <=> state[u] = "inside"
                         /\ state[u] = "inside" => lock'[u] = lock[u]
    BY <1>2, <1>6 DEF TypeOK
  <2>2. QED
    BY <2>1, <1>2 DEF LockedIsHeld
<1>11. ASSUME NEW u \in Tasks, state'[u] \in {"woken", "revoked"}
       PROVE  ~locked'[lock'[u]] /\ Head(waiters'[lock'[u]]) = u
  <2>1. u # t /\ lock'[u] = lock[u] /\ state[u] \in InLine
    BY <1>2, <1>6, <1>11 DEF TypeOK, InLine
  <2>2. /\ lock[u] \in Locks
        /\ waiters[lock[u]] # <<>>
    BY <2>1, WaiterInDeque
  <2>3. CASE state[u] \in {"woken", "revoked"}
    <3>1. ~locked[lock[u]] /\ Head(waiters[lock[u]]) = u
      BY <2>3 DEF WokenIsFirst
    <3>2. QED
      BY <3>1, <2>1, <2>2, <1>2, <1>8
  <2>4. CASE state[u] \notin {"woken", "revoked"}
    <3>1. ~locked[l] /\ r # <<>> /\ u = Head(r)
      BY <2>1, <2>4, <1>6, <1>11
    <3>2. u = r[1] /\ 1 \in 1..Len(r)
      BY <3>1, <1>5
    <3>3. lock'[u] = l
      BY <3>2, <1>3, <1>8 DEF DequesAreExact
    <3>4. QED
      BY <3>1, <3>3, <1>2, <1>3
  <2>5. QED
    BY <2>3, <2>4
<1>12. FirstIsAwake'
  <2> SUFFICES ASSUME NEW m \in Locks, ~locked[m], waiters'[m] # <<>>
               PROVE  state'[Head(waiters'[m])] # "queued"
    BY <1>2 DEF FirstIsAwake
  <2>1. waiters'[m] \in Seq(Tasks) /\ Head(waiters'[m]) \in Tasks
    BY <1>8
  <2>2. CASE m = l
    BY <2>1, <2>2, <1>3, <1>6
  <2>3. CASE m # l
    <3>1. waiters'[m] = waiters[m]
      BY <2>3, <1>4
    <3>2. state[Head(waiters[m])] # "queued"
      BY <3>1 DEF FirstIsAwake
    <3>3. QED
      BY <3>1, <3>2, <2>1, <1>6
  <2>4. QED
    BY <2>2, <2>3
<1>13. QED
  BY <1>7, <1>8, <1>9, <1>10, <1>11, <1>12 DEF WokenIsFirst

\* The caller inside leaves: the first waiter is awake then, and an entry that
\* goes has nobody in its deque (locks.py:57-67).
LEMMA ExitPreserves ==
  ASSUME IInv, NEW t \in Tasks, Exit(t)
  PROVE  IInv'
<1> USE DEF IInv
<1>1. PICK l \in Locks : l = lock[t]
  BY CallerHasLock DEF Exit
<1>2. /\ state[t] = "inside"
      /\ locked' = [locked EXCEPT ![l] = FALSE]
      /\ state' = [WakeFirst(state, waiters[l]) EXCEPT ![t] = "idle"]
      /\ UncountUser(key[t], lock[t])
      /\ lock' = [lock EXCEPT ![t] = NoLock]
      /\ UNCHANGED <<waiters, key>>
  BY <1>1 DEF Exit
<1>3. locked[l]
  BY <1>1, <1>2 DEF LockedIsHeld
<1>4. PICK q \in Seq(Tasks) : q = waiters[l]
  BY DEF TypeOK
<1>5. /\ state' \in [Tasks -> States]
      /\ state'[t] = "idle"
      /\ \A u \in Tasks \ {t} :
           state'[u] = IF q # <<>> /\ u = Head(q) /\ state[u] = "queued" THEN "woken" ELSE state[u]
  <2>1. PICK w : w = WakeFirst(state, q)
    OBVIOUS
  <2>2. /\ w \in [Tasks -> States]
        /\ \A u \in Tasks :
             w[u] = IF q # <<>> /\ u = Head(q) /\ state[u] = "queued" THEN "woken" ELSE state[u]
    BY <2>1, WakeFirstFacts DEF TypeOK
  <2>3. state' = [w EXCEPT ![t] = "idle"]
    BY <2>1, <1>2, <1>4
  <2>4. QED
    BY <2>2, <2>3 DEF States
<1>6. /\ lockOf' \in [Keys -> Locks \cup {NoLock}]
      /\ users' \in [Keys -> Nat]
      /\ EntriesAreExact'
      /\ LocksApart'
  <2>1. \A u \in Tasks \ {t} : state'[u] = "idle" <=> state[u] = "idle"
    BY <1>5
  <2>2. QED
    BY <2>1, <1>2, <1>5, UncountFacts
<1>7. TypeOK'
  BY <1>2, <1>5, <1>6 DEF TypeOK
<1>8. \A m \in Locks : waiters[m] \in Seq(Tasks) /\ \A i \in 1..Len(waiters[m]) : waiters[m][i] \in Tasks
  BY DEF TypeOK
<1>9. \A u \in Tasks : state'[u] \in InLine <=> state[u] \in InLine
  BY <1>2, <1>5 DEF InLine
<1>10. \A u \in Tasks : state[u] \in InLine => u # t /\ lock'[u] = lock[u]
  BY <1>2 DEF TypeOK, InLine
<1>11. DequesAreExact'
  BY <1>2, <1>8, <1>9, <1>10 DEF DequesAreExact
<1>12. LockedIsHeld'
  <2>1. ASSUME NEW m \in Locks, locked'[m]
        PROVE  \E u \in Tasks : state'[u] = "inside" /\ lock'[u] = m
    <3>1. m # l /\ locked[m]
      BY <2>1, <1>2 DEF TypeOK
    <3>2. PICK u \in Tasks : state[u] = "inside" /\ lock[u] = m
      BY <3>1 DEF LockedIsHeld
    <3>3. QED
      BY <3>1, <3>2, <1>1, <1>2, <1>5 DEF TypeOK
  <2>2. ASSUME NEW u \in Tasks, state'[u] = "inside"
        PROVE  /\ u # t /\ state[u] = "inside" /\ lock'[u] = lock[u]
               /\ locked'[lock'[u]]
    <3>1. u # t /\ state[u] = "inside" /\ lock'[u] = lock[u]
      BY <2>2, <1>2, <1>5 DEF TypeOK
    <3>2. lock[u] # l
      BY <3>1, <1>1, <1>2 DEF LockedIsHeld
    <3>3. QED
      BY <3>1, <3>2, <1>2, CallerHasLock DEF LockedIsHeld, TypeOK
  <2>3. QED
    BY <2>1, <2>2 DEF LockedIsHeld
<1>13. ASSUME NEW u \in Tasks, state'[u] \in {"woken", "revoked"}
       PROVE  ~locked'[lock'[u]] /\ Head(waiters'[lock'[u]]) = u
  <2>1. u # t /\ lock'[u] = lock[u] /\ state[u] \in InLine /\ lock[u] \in Locks
    BY <1>5, <1>9, <1>10, <1>13, WaiterInDeque DEF InLine
  <2>2. CASE state[u] \in {"woken", "revoked"}
    <3>1. ~locked[lock[u]] /\ Head(waiters[lock[u]]) = u
      BY <2>2 DEF WokenIsFirst
    <3>2. QED
      BY <3>1, <2>1, <1>2 DEF TypeOK
  <2>3. CASE state[u] \notin {"woken", "revoked"}
    <3>1. q # <<>> /\ u = Head(q)
      BY <2>1, <2>3, <1>5, <1>13
    <3>2. u = q[1] /\ 1 \in 1..Len(q)
      BY <3>1
    <3>3. lock[u] = l
      BY <3>2, <1>4 DEF DequesAreExact
    <3>4. QED
      BY <3>1, <3>3, <2>1, <1>2, <1>4 DEF TypeOK
  <2>4. QED
    BY <2>2, <2>3
<1>14. FirstIsAwake'
  <2> SUFFICES ASSUME NEW m \in Locks, ~locked'[m], waiters[m] # <<>>
               PROVE  state'[Head(waiters[m])] # "queued"
    BY <1>2 DEF FirstIsAwake
  <2>1. Head(waiters[m]) \in Tasks
    BY <1>8
  <2>2. CASE m = l
    BY <2>1, <2>2, <1>4, <1>5
  <2>3. CASE m # l
    <3>1. ~locked[m] /\ state[Head(waiters[m])] # "queued"
      BY <2>3, <1>2 DEF FirstIsAwake, TypeOK
    <3>2. QED
      BY <3>1, <2>1, <1>5
  <2>4. QED
    BY <2>2, <2>3
<1>15. QED
  BY <1>6, <1>7, <1>11, <1>12, <1>13, <1>14 DEF WokenIsFirst

-----------------------------------------------------------------------------
(* Theorems *)

\* IInv holds in every reachable state.
THEOREM Invariance == Spec => []IInv
<1>1. IInv /\ [Next]_kvars => IInv'
  <2> SUFFICES ASSUME IInv, [Next]_kvars PROVE IInv'
    OBVIOUS
  <2>1. ASSUME NEW t \in Tasks, NEW k \in Keys, CallAndAcquire(t, k) PROVE IInv'
    BY <2>1, CallAndAcquirePreserves
  <2>2. ASSUME NEW t \in Tasks, NEW k \in Keys, CallAndWait(t, k) PROVE IInv'
    BY <2>2, CallAndWaitPreserves
  <2>3. ASSUME NEW t \in Tasks, Cancel(t) PROVE IInv'
    BY <2>3, CancelPreserves
  <2>4. ASSUME NEW t \in Tasks, Resume(t) PROVE IInv'
    BY <2>4, ResumePreserves
  <2>5. ASSUME NEW t \in Tasks, Unwind(t) PROVE IInv'
    BY <2>5, UnwindPreserves
  <2>6. ASSUME NEW t \in Tasks, Exit(t) PROVE IInv'
    BY <2>6, ExitPreserves
  <2>7. CASE UNCHANGED kvars
    BY <2>7, SMTT(30)
    DEF kvars, IInv, TypeOK, EntriesAreExact, Users, DequesAreExact, LockedIsHeld,
                WokenIsFirst, FirstIsAwake, LocksApart
  <2>8. QED
    BY <2>1, <2>2, <2>3, <2>4, <2>5, <2>6, <2>7 DEF Next, Step
<1>2. QED
  BY <1>1, InitIInv, PTL DEF Spec

\* The variables keep their types.
THEOREM TypeCorrect == Spec => []TypeOK
BY Invariance, PTL DEF IInv

\* locks.py:59-62: the count of an entry is the number of its callers and the
\* entry lives as long as one is counted, whoever is cancelled.
THEOREM EntriesExact == Spec => []EntriesAreExact
BY Invariance, PTL DEF IInv

\* Two tasks are never inside for the same key, whatever locks are evicted
\* and created in between.
THEOREM Exclusion == Spec => []MutualExclusion
<1>1. IInv => MutualExclusion
  BY DEF IInv, EntriesAreExact, LockedIsHeld, MutualExclusion
<1>2. QED
  BY <1>1, Invariance, PTL

\* Whenever a lock is free and a task waits for it, a task is about to run
\* that takes it or wakes the next.
THEOREM WakeUpsKept == Spec => []NoLostWakeUp
<1>1. IInv => NoLostWakeUp
  <2> SUFFICES ASSUME IInv, NEW t \in Tasks, state[t] = "queued", ~locked[lock[t]]
               PROVE  \E u \in Tasks : lock[u] = lock[t] /\ state[u] \in {"woken", "cancelled", "revoked"}
    BY DEF NoLostWakeUp
  <2>1. PICK l \in Locks : l = lock[t]
    BY CallerHasLock DEF IInv
  <2>2. PICK q \in Seq(Tasks) : q = waiters[l]
    BY DEF IInv, TypeOK
  <2>3. q # <<>> /\ Head(q) = q[1] /\ 1 \in 1..Len(q) /\ q[1] \in Tasks
    BY <2>1, <2>2 DEF IInv, DequesAreExact, InLine
  <2>4. state[q[1]] \in InLine /\ lock[q[1]] = l
    BY <2>2, <2>3 DEF IInv, DequesAreExact
  <2>5. state[q[1]] # "queued"
    BY <2>1, <2>2, <2>3 DEF IInv, FirstIsAwake
  <2>6. QED
    BY <2>1, <2>3, <2>4, <2>5 DEF InLine
<1>2. QED
  BY <1>1, Invariance, PTL

-----------------------------------------------------------------------------
(* KeyedLocks implements FifoMutex: every step of the code is one of the   *)
(* abstract mutex, or leaves it alone.                                     *)

\* A task that leaves the deque leaves the others in their order.
LEMMA WithoutBefore ==
  ASSUME NEW S, NEW q \in Seq(S), NEW t,
         \E i \in 1..Len(q) : q[i] = t,
         \A i, j \in 1..Len(q) : q[i] = q[j] => i = j
  PROVE  \A u, v : Before(Without(q, t), u, v) <=> Before(q, u, v) /\ u # t /\ v # t
<1> DEFINE r == Without(q, t)
<1>1. PICK p \in 1..Len(q) : q[p] = t /\ r = RemoveAt(q, p)
  BY DEF Without
<1> HIDE DEF r
<1>2. /\ Len(q) \in Nat /\ Len(r) = Len(q) - 1
      /\ \A j \in 1..Len(q) - 1 : r[j] = IF j < p THEN q[j] ELSE q[j + 1]
  BY <1>1, RemoveAtFacts, LenProperties
<1>3. ASSUME NEW u, NEW v, Before(r, u, v)
      PROVE  Before(q, u, v) /\ u # t /\ v # t
  <2>1. PICK i \in 1..Len(r), j \in 1..Len(r) : i < j /\ r[i] = u /\ r[j] = v
    BY <1>3 DEF Before
  <2> DEFINE at(n) == IF n < p THEN n ELSE n + 1
  <2>2. /\ at(i) \in 1..Len(q) /\ at(j) \in 1..Len(q) /\ at(i) < at(j)
        /\ at(i) # p /\ at(j) # p
    BY <1>2, <2>1
  <2>3. q[at(i)] = u /\ q[at(j)] = v
    BY <1>2, <2>1
  <2>4. u # t /\ v # t
    BY <1>1, <2>2, <2>3
  <2>5. QED
    BY <2>2, <2>3, <2>4 DEF Before
<1>4. ASSUME NEW u, NEW v, Before(q, u, v), u # t, v # t
      PROVE  Before(r, u, v)
  <2>1. PICK i \in 1..Len(q), j \in 1..Len(q) : i < j /\ q[i] = u /\ q[j] = v
    BY <1>4 DEF Before
  <2> DEFINE at(n) == IF n < p THEN n ELSE n - 1
  <2>2. i # p /\ j # p
    BY <1>1, <1>4, <2>1
  <2>3. at(i) \in 1..Len(r) /\ at(j) \in 1..Len(r) /\ at(i) < at(j)
    BY <1>2, <2>1, <2>2
  <2>4. r[at(i)] = q[i]
    <3>1. CASE i < p
      BY <1>2, <2>3, <3>1
    <3>2. CASE i > p
      <4>1. at(i) = i - 1 /\ i - 1 \in 1..Len(q) - 1 /\ ~(i - 1 < p) /\ (i - 1) + 1 = i
        BY <1>2, <2>1, <2>3, <3>2
      <4>2. QED
        BY <1>2, <4>1
    <3>3. QED
      BY <1>2, <2>1, <2>2, <3>1, <3>2
  <2>5. r[at(j)] = q[j]
    <3>1. CASE j < p
      BY <1>2, <2>3, <3>1
    <3>2. CASE j > p
      <4>1. at(j) = j - 1 /\ j - 1 \in 1..Len(q) - 1 /\ ~(j - 1 < p) /\ (j - 1) + 1 = j
        BY <1>2, <2>1, <2>3, <3>2
      <4>2. QED
        BY <1>2, <4>1
    <3>3. QED
      BY <1>2, <2>1, <2>2, <3>1, <3>2
  <2>6. QED
    BY <2>1, <2>3, <2>4, <2>5 DEF Before
<1>5. QED
  BY <1>3, <1>4 DEF r

\* A task that is appended comes after everyone who was there.
LEMMA AppendBefore ==
  ASSUME NEW q \in Seq(Tasks), NEW t \in Tasks, \A i \in 1..Len(q) : q[i] # t
  PROVE  \A u, v : Before(Append(q, t), u, v) <=>
           IF v = t THEN \E i \in 1..Len(q) : q[i] = u ELSE Before(q, u, v)
<1> DEFINE r == Append(q, t)
<1>1. /\ Len(q) \in Nat /\ Len(r) = Len(q) + 1 /\ r[Len(q) + 1] = t
      /\ \A i \in 1..Len(q) : r[i] = q[i]
  BY AppendProperties, LenProperties
<1> HIDE DEF r
<1>2. \A i : i \in 1..Len(r) <=> i \in 1..Len(q) \/ i = Len(q) + 1
  BY <1>1
<1> SUFFICES ASSUME NEW u, NEW v
             PROVE  Before(r, u, v) <=>
                      IF v = t THEN \E i \in 1..Len(q) : q[i] = u ELSE Before(q, u, v)
  BY DEF r
<1>3. ASSUME Before(r, u, v)
      PROVE  IF v = t THEN \E i \in 1..Len(q) : q[i] = u ELSE Before(q, u, v)
  <2>1. PICK i \in 1..Len(r), j \in 1..Len(r) : i < j /\ r[i] = u /\ r[j] = v
    BY <1>3 DEF Before
  <2>2. i \in 1..Len(q) /\ q[i] = u
    BY <1>1, <1>2, <2>1
  <2>3. CASE j \in 1..Len(q)
    <3>1. v # t /\ q[j] = v
      BY <1>1, <2>1, <2>3
    <3>2. Before(q, u, v)
      BY <2>1, <2>2, <2>3, <3>1 DEF Before
    <3>3. QED
      BY <3>1, <3>2
  <2>4. CASE j = Len(q) + 1
    BY <1>1, <2>1, <2>2, <2>4
  <2>5. QED
    BY <1>2, <2>3, <2>4
<1>4. ASSUME v = t, NEW i \in 1..Len(q), q[i] = u
      PROVE  Before(r, u, v)
  <2>1. /\ i \in 1..Len(r) /\ Len(q) + 1 \in 1..Len(r) /\ i < Len(q) + 1
        /\ r[i] = u /\ r[Len(q) + 1] = v
    BY <1>1, <1>4
  <2>2. QED
    BY <2>1 DEF Before
<1>5. ASSUME v # t, Before(q, u, v)
      PROVE  Before(r, u, v)
  <2>1. PICK i \in 1..Len(q), j \in 1..Len(q) : i < j /\ q[i] = u /\ q[j] = v
    BY <1>5 DEF Before
  <2>2. i \in 1..Len(r) /\ j \in 1..Len(r) /\ r[i] = u /\ r[j] = v
    BY <1>1, <2>1
  <2>3. QED
    BY <2>1, <2>2 DEF Before
<1>6. QED
  BY <1>3, <1>4, <1>5

\* Who is inside for a key is its owner, and there is no other.
OwnerIs ==
  \A k \in Keys :
    /\ ownerBar[k] \in Tasks \cup {NoTask}
    /\ \A t \in Tasks : ownerBar[k] = t <=> state[t] = "inside" /\ key[t] = k

\* MutualExclusion makes the owner unique.
LEMMA OwnerFacts == IInv => OwnerIs
<1> SUFFICES ASSUME IInv, NEW k \in Keys
             PROVE  /\ ownerBar[k] \in Tasks \cup {NoTask}
                    /\ \A t \in Tasks : ownerBar[k] = t <=> state[t] = "inside" /\ key[t] = k
  BY DEF OwnerIs
<1>1. \A t, u \in Tasks : state[t] = "inside" /\ state[u] = "inside" /\ key[t] = key[u] => t = u
  BY DEF IInv, EntriesAreExact, LockedIsHeld
<1>2. CASE \E t \in Users(k) : state[t] = "inside"
  <2>1. ownerBar[k] \in Users(k) /\ state[ownerBar[k]] = "inside"
    BY <1>2 DEF ownerBar
  <2>2. QED
    BY <1>1, <2>1 DEF Users
<1>3. CASE ~\E t \in Users(k) : state[t] = "inside"
  <2>1. ownerBar[k] = NoTask
    BY <1>3 DEF ownerBar
  <2>2. QED
    BY <1>3, <2>1, NoTaskIsNoTask DEF Users
<1>4. QED
  BY <1>2, <1>3

\* A step that changes who is inside for one key at most changes its owner at most.
LEMMA OwnerChanges ==
  ASSUME OwnerIs, OwnerIs', NEW k \in Keys, NEW p \in Tasks \cup {NoTask},
         \A t \in Tasks : state'[t] = "inside" /\ key'[t] = k <=> t = p,
         \A t \in Tasks : \A j \in Keys \ {k} :
           state'[t] = "inside" /\ key'[t] = j <=> state[t] = "inside" /\ key[t] = j
  PROVE  ownerBar' = [ownerBar EXCEPT ![k] = p]
<1>1. ownerBar'[k] = p
  BY NoTaskIsNoTask DEF OwnerIs
<1>2. ASSUME NEW j \in Keys \ {k} PROVE ownerBar'[j] = ownerBar[j]
  BY NoTaskIsNoTask DEF OwnerIs
<1>3. PICK f, g : f = ownerBar /\ g = ownerBar'
  OBVIOUS
<1>4. f = [j \in Keys |-> f[j]] /\ g = [j \in Keys |-> g[j]]
  BY <1>3 DEF ownerBar
<1>5. g = [f EXCEPT ![k] = p]
  BY <1>1, <1>2, <1>3, <1>4
<1>6. QED
  BY <1>3, <1>5

\* A step after which the same tasks are inside leaves the owners.
LEMMA OwnerStays ==
  ASSUME OwnerIs, OwnerIs',
         \A t \in Tasks : \A k \in Keys :
           state'[t] = "inside" /\ key'[t] = k <=> state[t] = "inside" /\ key[t] = k
  PROVE  ownerBar' = ownerBar
<1>1. ASSUME NEW j \in Keys PROVE ownerBar'[j] = ownerBar[j]
  BY NoTaskIsNoTask DEF OwnerIs
<1>2. QED
  BY <1>1 DEF ownerBar

\* Who waits stands in the deque of the lock of its key's entry.
LEMMA PendingFacts ==
  ASSUME IInv, NEW t \in Pending
  PROVE  /\ t \in Tasks /\ state[t] \in InLine /\ key[t] \in Keys
         /\ lock[t] \in Locks /\ lock[t] = lockOf[key[t]]
         /\ \E i \in 1..Len(waiters[lock[t]]) : waiters[lock[t]][i] = t
<1>1. t \in Tasks /\ state[t] \in InLine /\ state[t] # "idle"
  BY DEF Pending, InLine
<1>2. lock[t] \in Locks
  BY <1>1, CallerHasLock DEF IInv
<1>3. QED
  BY <1>1, <1>2 DEF IInv, TypeOK, EntriesAreExact, DequesAreExact

\* Every deque is a sequence of tasks, each of them once.
LEMMA DequeFacts ==
  ASSUME IInv, NEW l \in Locks
  PROVE  /\ waiters[l] \in Seq(Tasks)
         /\ \A i \in 1..Len(waiters[l]) :
              waiters[l][i] \in Tasks /\ state[waiters[l][i]] \in InLine /\ lock[waiters[l][i]] = l
         /\ \A i, j \in 1..Len(waiters[l]) : waiters[l][i] = waiters[l][j] => i = j
BY DEF IInv, TypeOK, DequesAreExact

\* A step after which the same tasks wait, for the same keys, leaves the lines.
LEMMA LinesStay ==
  ASSUME \A t \in Tasks : t \in Pending' <=> t \in Pending,
         \A t \in Pending : key'[t] = key[t]
  PROVE  lineBar' = lineBar
<1>1. ASSUME NEW k \in Keys PROVE (Pending \cap Users(k))' = Pending \cap Users(k)
  BY DEF Pending, Users
<1>2. QED
  BY <1>1 DEF lineBar

\* Nobody is inside for a key whose lock a new caller finds free.
LEMMA FreeKey ==
  ASSUME IInv, NEW k \in Keys, NEW l \in Locks, Entry(k, l), ~locked[l],
         NEW t \in Tasks, state[t] = "inside"
  PROVE  key[t] # k
<1> SUFFICES ASSUME key[t] = k PROVE FALSE
  OBVIOUS
<1>1. locked[lock[t]] /\ lock[t] = lockOf[k] /\ lock[t] \in Locks
  BY CallerHasLock DEF IInv, LockedIsHeld, EntriesAreExact
<1>2. QED
  BY <1>1, NoLockIsNoLock DEF Entry

\* Who waits for a key waits in the deque of its entry's lock.
LEMMA SameDeque ==
  ASSUME IInv, NEW k \in Keys, NEW l \in Locks, Entry(k, l), NEW u \in Tasks
  PROVE  u \in Pending /\ key[u] = k <=> u \in Pending /\ lock[u] = l
<1>1. ASSUME u \in Pending, key[u] = k PROVE lock[u] = l
  BY <1>1, PendingFacts, NoLockIsNoLock DEF Entry
<1>2. ASSUME u \in Pending, lock[u] = l PROVE key[u] = k
  <2>1. lockOf[key[u]] = l /\ state[u] # "idle" /\ key[u] \in Keys
    BY <1>2, PendingFacts DEF InLine
  <2>2. lockOf[k] = l
    BY <1>2, <2>1 DEF Entry, Unused
  <2>3. QED
    BY <2>1, <2>2, NoLockIsNoLock DEF IInv, LocksApart
<1>3. QED
  BY <1>1, <1>2

\* A caller that finds the lock free finds nobody in line.
LEMMA TakeStep ==
  ASSUME IInv, OwnerIs, OwnerIs', NEW t \in Tasks, NEW k \in Keys, CallAndAcquire(t, k)
  PROVE  Abstract!Take(t, k)
<1>1. PICK l \in Locks :
        /\ Entry(k, l)
        /\ FastPath(l)
        /\ lock' = [lock EXCEPT ![t] = l]
  BY DEF CallAndAcquire
<1>2. /\ state[t] = "idle"
      /\ key' = [key EXCEPT ![t] = k]
      /\ state' = [state EXCEPT ![t] = "inside"]
      /\ waiters' = waiters
  BY DEF CallAndAcquire
<1>3. state \in [Tasks -> States] /\ key \in [Tasks -> Keys] /\ lock \in [Tasks -> Locks \cup {NoLock}]
  BY DEF IInv, TypeOK
<1>4. ~Abstract!Busy(t)
  BY <1>2 DEF Abstract!Busy, OwnerIs, lineBar, Pending
<1>5. \A u \in Tasks : state[u] = "inside" => key[u] # k
  BY <1>1, FreeKey DEF FastPath
<1>6. ownerBar[k] = NoTask
  BY <1>5 DEF OwnerIs
<1>7. lineBar[k] = {}
  <2> SUFFICES ASSUME NEW u \in Pending, key[u] = k PROVE FALSE
    BY DEF lineBar, Users
  <2>1. lock[u] = l /\ u \in Tasks /\ state[u] # "cancelled"
    BY <1>1, SameDeque DEF Pending
  <2>2. \E i \in 1..Len(waiters[l]) : waiters[l][i] = u
    BY <2>1, PendingFacts
  <2>3. QED
    BY <1>1, <2>1, <2>2 DEF FastPath
<1>8. ownerBar' = [ownerBar EXCEPT ![k] = t]
  <2>1. \A u \in Tasks : state'[u] = "inside" /\ key'[u] = k <=> u = t
    BY <1>2, <1>3, <1>5
  <2>2. \A u \in Tasks : \A j \in Keys \ {k} :
          state'[u] = "inside" /\ key'[u] = j <=> state[u] = "inside" /\ key[u] = j
    BY <1>2, <1>3
  <2>3. QED
    BY <2>1, <2>2, OwnerChanges
<1>9. \A u \in Tasks : u \in Pending' <=> u \in Pending
  BY <1>2, <1>3 DEF Pending
<1>10. \A u \in Pending : u # t /\ u \in Tasks /\ key'[u] = key[u] /\ lock'[u] = lock[u]
  BY <1>1, <1>2, <1>3 DEF Pending
<1>11. lineBar' = lineBar
  BY <1>9, <1>10, LinesStay
<1>12. aheadBar' = aheadBar
  <2>1. Pending' = Pending
    BY <1>9 DEF Pending
  <2>2. QED
    BY <1>2, <1>10, <2>1 DEF aheadBar
<1>13. QED
  BY <1>4, <1>6, <1>7, <1>8, <1>11, <1>12 DEF Abstract!Take

\* A caller that waits comes after everyone in line.
LEMMA JoinStep ==
  ASSUME IInv, OwnerIs, OwnerIs', NEW t \in Tasks, NEW k \in Keys, CallAndWait(t, k)
  PROVE  Abstract!Join(t, k)
<1>1. PICK l \in Locks :
        /\ Entry(k, l)
        /\ waiters' = [waiters EXCEPT ![l] = Append(@, t)]
        /\ lock' = [lock EXCEPT ![t] = l]
  BY DEF CallAndWait
<1>2. /\ state[t] = "idle"
      /\ key' = [key EXCEPT ![t] = k]
      /\ state' = [state EXCEPT ![t] = "queued"]
  BY DEF CallAndWait
<1>3. /\ state \in [Tasks -> States] /\ key \in [Tasks -> Keys]
      /\ lock \in [Tasks -> Locks \cup {NoLock}] /\ waiters \in [Locks -> Seq(Tasks)]
  BY DEF IInv, TypeOK
<1>4. ~Abstract!Busy(t)
  BY <1>2 DEF Abstract!Busy, OwnerIs, lineBar, Pending
<1>5. ownerBar' = ownerBar
  <2>1. \A u \in Tasks : \A j \in Keys :
          state'[u] = "inside" /\ key'[u] = j <=> state[u] = "inside" /\ key[u] = j
    BY <1>2, <1>3
  <2>2. QED
    BY <2>1, OwnerStays
<1>6. Pending' = Pending \cup {t} /\ t \notin Pending
  BY <1>2, <1>3 DEF Pending
<1>7. lineBar' = [lineBar EXCEPT ![k] = @ \cup {t}]
  <2>1. ASSUME NEW j \in Keys
        PROVE  (Pending \cap Users(j))' =
                 IF j = k THEN (Pending \cap Users(j)) \cup {t} ELSE Pending \cap Users(j)
    <3>1. \A u \in Tasks : u \in (Pending \cap Users(j))' <=>
            u \in Pending \cap Users(j) \/ (u = t /\ j = k)
      BY <1>2, <1>3 DEF Pending, Users
    <3>2. QED
      BY <3>1 DEF Pending, Users
  <2>2. QED
    BY <2>1 DEF lineBar
<1>8. PICK q \in Seq(Tasks) : q = waiters[l] /\ waiters'[l] = Append(q, t)
  BY <1>1, <1>3
<1>9. \A i \in 1..Len(q) : q[i] # t
  BY <1>2, <1>8, DequeFacts DEF InLine
<1>10. \A u \in Pending : u # t /\ u \in Tasks /\ lock'[u] = lock[u] /\ lock[u] \in Locks
  BY <1>1, <1>3, <1>6, PendingFacts
<1>11. ASSUME NEW u \in Pending
       PROVE  {v \in Pending' : Before(waiters'[lock'[u]], v, u)} =
                {v \in Pending : Before(waiters[lock[u]], v, u)}
  <2>1. u # t /\ lock'[u] = lock[u] /\ lock[u] \in Locks
    BY <1>10
  <2>2. \A v : Before(waiters'[lock[u]], v, u) <=> Before(waiters[lock[u]], v, u)
    <3>1. CASE lock[u] = l
      <4>1. \A v, w : Before(Append(q, t), v, w) <=>
              IF w = t THEN \E i \in 1..Len(q) : q[i] = v ELSE Before(q, v, w)
        BY <1>9, AppendBefore
      <4>2. waiters'[lock[u]] = Append(q, t) /\ waiters[lock[u]] = q
        BY <1>8, <3>1
      <4>3. QED
        BY <2>1, <4>1, <4>2
    <3>2. CASE lock[u] # l
      BY <1>1, <1>3, <2>1, <3>2
    <3>3. QED
      BY <3>1, <3>2
  <2>3. ~Before(waiters[lock[u]], t, u)
    <3>1. \A i \in 1..Len(waiters[lock[u]]) : state[waiters[lock[u]][i]] \in InLine
      BY <2>1, DequeFacts
    <3>2. QED
      BY <1>2, <3>1 DEF Before, InLine
  <2>4. QED
    BY <1>6, <2>1, <2>2, <2>3
<1>12. {v \in Pending' : Before(waiters'[lock'[t]], v, t)} = lineBar[k]
  <2>1. lock'[t] = l
    BY <1>1, <1>3
  <2>2. \A v : Before(waiters'[l], v, t) <=> \E i \in 1..Len(q) : q[i] = v
    BY <1>8, <1>9, AppendBefore
  <2>3. \A v \in Pending : (\E i \in 1..Len(q) : q[i] = v) <=> lock[v] = l
    BY <1>8, PendingFacts, DequeFacts
  <2>4. \A v \in Pending : lock[v] = l <=> key[v] = k
    BY <1>1, <1>10, SameDeque
  <2>5. ~\E i \in 1..Len(q) : q[i] = t
    BY <1>9
  <2>6. \A v : v \in lineBar[k] <=> v \in Pending /\ key[v] = k
    BY <1>10 DEF lineBar, Users, Pending
  <2>7. \A v : v \in Pending' /\ Before(waiters'[l], v, t) <=> v \in Pending /\ key[v] = k
    BY <1>6, <2>2, <2>3, <2>4, <2>5
  <2>8. QED
    BY <2>1, <2>6, <2>7
<1>13. aheadBar' = [aheadBar EXCEPT ![t] = lineBar[k]]
  <2>1. PICK f, g : f = aheadBar /\ g = aheadBar'
    OBVIOUS
  <2>2. f = [u \in Tasks |-> f[u]] /\ g = [u \in Tasks |-> g[u]]
    BY <2>1 DEF aheadBar
  <2>3. g[t] = lineBar[k]
    BY <1>6, <1>12, <2>1 DEF aheadBar
  <2>4. ASSUME NEW u \in Tasks, u # t PROVE g[u] = f[u]
    <3>1. CASE u \in Pending
      BY <1>6, <1>11, <2>1, <3>1 DEF aheadBar
    <3>2. CASE u \notin Pending
      BY <1>6, <2>1, <2>4, <3>2 DEF aheadBar
    <3>3. QED
      BY <3>1, <3>2
  <2>5. g = [f EXCEPT ![t] = lineBar[k]]
    BY <2>2, <2>3, <2>4
  <2>6. QED
    BY <2>1, <2>5
<1>14. QED
  BY <1>4, <1>5, <1>7, <1>13 DEF Abstract!Join

\* Who leaves the line was in it; the others keep their order.
LEMMA QuitStep ==
  ASSUME IInv, NEW t \in Pending, Pending' = Pending \ {t},
         \A u \in Pending \ {t} : key'[u] = key[u] /\ lock'[u] = lock[u],
         \A u, v \in Pending \ {t} :
           Before(waiters'[lock[u]], v, u) <=> Before(waiters[lock[u]], v, u)
  PROVE  Abstract!Quit(t, key[t])
<1>1. /\ t \in Tasks /\ key[t] \in Keys
      /\ \A u \in Pending : u \in Tasks
  BY PendingFacts DEF Pending
<1>2. t \in lineBar[key[t]]
  BY <1>1 DEF lineBar, Users, Pending
<1>3. lineBar' = [lineBar EXCEPT ![key[t]] = @ \ {t}]
  <2>1. ASSUME NEW k \in Keys
        PROVE  (Pending \cap Users(k))' =
                 IF k = key[t] THEN (Pending \cap Users(k)) \ {t} ELSE Pending \cap Users(k)
    <3>1. \A u : u \in (Pending \cap Users(k))' <=> u \in Pending' /\ key'[u] = k
      BY DEF Pending, Users
    <3>2. \A u : u \in Pending \cap Users(k) <=> u \in Pending /\ key[u] = k
      BY DEF Pending, Users
    <3>3. \A u : u \in (Pending \cap Users(k))' <=> u \in Pending \cap Users(k) /\ u # t
      BY <3>1, <3>2
    <3>4. t \in Pending \cap Users(k) <=> k = key[t]
      BY <3>2
    <3>5. QED
      BY <3>3, <3>4
  <2>2. QED
    BY <2>1 DEF lineBar
<1>4. aheadBar' = [u \in Tasks |-> IF u = t THEN {} ELSE aheadBar[u] \ {t}]
  <2>1. ASSUME NEW u \in Tasks
        PROVE  aheadBar'[u] = IF u = t THEN {} ELSE aheadBar[u] \ {t}
    <3>1. CASE u \in Pending /\ u # t
      <4>1. aheadBar'[u] = {v \in Pending' : Before(waiters'[lock[u]], v, u)}
        BY <3>1 DEF aheadBar
      <4>2. aheadBar[u] = {v \in Pending : Before(waiters[lock[u]], v, u)}
        BY <3>1 DEF aheadBar
      <4>3. QED
        BY <3>1, <4>1, <4>2
    <3>2. CASE u \notin Pending
      BY <3>2 DEF aheadBar
    <3>3. CASE u = t
      BY <3>3 DEF aheadBar
    <3>4. QED
      BY <3>1, <3>2, <3>3
  <2>2. QED
    BY <2>1 DEF aheadBar
<1>5. QED
  BY <1>2, <1>3, <1>4 DEF Abstract!Quit

\* A step after which the same tasks wait in the same order leaves the lines.
LEMMA OrderStays ==
  ASSUME Pending' = Pending,
         \A u \in Pending : key'[u] = key[u] /\ lock'[u] = lock[u],
         \A u, v \in Pending :
           Before(waiters'[lock[u]], v, u) <=> Before(waiters[lock[u]], v, u)
  PROVE  lineBar' = lineBar /\ aheadBar' = aheadBar
<1>1. lineBar' = lineBar
  BY LinesStay
<1>2. ASSUME NEW u \in Tasks PROVE aheadBar'[u] = aheadBar[u]
  <2>1. CASE u \in Pending
    <3>1. aheadBar'[u] = {v \in Pending' : Before(waiters'[lock[u]], v, u)}
      BY <2>1 DEF aheadBar
    <3>2. aheadBar[u] = {v \in Pending : Before(waiters[lock[u]], v, u)}
      BY <2>1 DEF aheadBar
    <3>3. QED
      BY <2>1, <3>1, <3>2
  <2>2. CASE u \notin Pending
    BY <2>2 DEF aheadBar
  <2>3. QED
    BY <2>1, <2>2
<1>3. aheadBar' = aheadBar
  BY <1>2 DEF aheadBar
<1>4. QED
  BY <1>1, <1>3

\* Whoever leaves the deque of its lock leaves the others in their order.
LEMMA OrderKept ==
  ASSUME IInv, NEW t \in Tasks, state[t] \in InLine,
         waiters' = [waiters EXCEPT ![lock[t]] = Without(@, t)],
         NEW u \in Pending, u # t, NEW v, v # t
  PROVE  Before(waiters'[lock[u]], v, u) <=> Before(waiters[lock[u]], v, u)
<1>1. PICK l \in Locks : l = lock[t]
  BY WaiterInDeque
<1>2. lock[u] \in Locks /\ waiters \in [Locks -> Seq(Tasks)]
  BY PendingFacts DEF IInv, TypeOK
<1>3. CASE lock[u] # l
  BY <1>1, <1>2, <1>3
<1>4. CASE lock[u] = l
  <2>1. PICK q \in Seq(Tasks) :
          /\ q = waiters[l] /\ waiters'[l] = Without(q, t)
          /\ \A i, j \in 1..Len(q) : q[i] = q[j] => i = j
          /\ \E i \in 1..Len(q) : q[i] = t
    BY <1>1, <1>2, DequeFacts DEF IInv, DequesAreExact
  <2>2. \A x, y : Before(Without(q, t), x, y) <=> Before(q, x, y) /\ x # t /\ y # t
    <3>1. /\ \E i \in 1..Len(q) : q[i] = t
          /\ \A i, j \in 1..Len(q) : q[i] = q[j] => i = j
      BY <2>1
    <3>2. QED
      BY <3>1, WithoutBefore
  <2>3. QED
    BY <1>4, <2>1, <2>2
<1>5. QED
  BY <1>3, <1>4

\* The woken task is the first of the line and nobody is inside.
LEMMA GrantStep ==
  ASSUME IInv, OwnerIs, OwnerIs', NEW t \in Tasks, Resume(t)
  PROVE  Abstract!Grant(t, key[t])
<1>1. /\ state[t] = "woken"
      /\ waiters' = [waiters EXCEPT ![lock[t]] = Without(@, t)]
      /\ state' = [state EXCEPT ![t] = "inside"]
      /\ UNCHANGED <<lockOf, users, key, lock>>
  BY DEF Resume
<1>2. state \in [Tasks -> States] /\ key \in [Tasks -> Keys]
  BY DEF IInv, TypeOK
<1>3. t \in Pending /\ state[t] \in InLine
  BY <1>1 DEF Pending, InLine
<1>4. PICK l \in Locks : l = lock[t] /\ l = lockOf[key[t]]
  BY <1>3, PendingFacts
<1>5. ~locked[l] /\ Head(waiters[l]) = t
  BY <1>1, <1>4 DEF IInv, WokenIsFirst
<1>6. ASSUME NEW u \in Tasks, state[u] = "inside" PROVE key[u] # key[t]
  <2> SUFFICES ASSUME key[u] = key[t] PROVE FALSE
    OBVIOUS
  <2>1. locked[lock[u]] /\ lock[u] = lockOf[key[u]]
    BY <1>6 DEF IInv, LockedIsHeld, EntriesAreExact
  <2>2. QED
    BY <1>4, <1>5, <2>1
<1>7. ownerBar[key[t]] = NoTask
  BY <1>2, <1>6 DEF OwnerIs
<1>8. ownerBar' = [ownerBar EXCEPT ![key[t]] = t]
  <2>1. PICK k \in Keys : k = key[t]
    BY <1>2
  <2>2. \A u \in Tasks : state'[u] = "inside" /\ key'[u] = k <=> u = t
    BY <1>1, <1>2, <1>6, <2>1
  <2>3. \A u \in Tasks : \A j \in Keys \ {k} :
          state'[u] = "inside" /\ key'[u] = j <=> state[u] = "inside" /\ key[u] = j
    BY <1>1, <1>2, <2>1
  <2>4. ownerBar' = [ownerBar EXCEPT ![k] = t]
    BY <2>2, <2>3, OwnerChanges
  <2>5. QED
    BY <2>1, <2>4
<1>9. aheadBar[t] = {}
  <2>1. PICK q \in Seq(Tasks) :
          q = waiters[l] /\ \A i, j \in 1..Len(q) : q[i] = q[j] => i = j
    BY DequeFacts
  <2>2. q[1] = t /\ Len(q) \in Nat
    BY <1>3, <1>4, <1>5, <2>1, WaiterInDeque, LenProperties
  <2>3. ASSUME NEW u PROVE ~Before(q, u, t)
    <3> SUFFICES ASSUME NEW i \in 1..Len(q), NEW j \in 1..Len(q), i < j, q[j] = t PROVE FALSE
      BY DEF Before
    <3>1. 1 \in 1..Len(q)
      BY <2>2
    <3>2. j = 1
      BY <2>1, <2>2, <3>1
    <3>3. QED
      BY <3>2
  <2>4. QED
    BY <1>3, <1>4, <2>1, <2>3 DEF aheadBar
<1>10. Abstract!Quit(t, key[t])
  <2>1. Pending' = Pending \ {t}
    BY <1>1, <1>2 DEF Pending
  <2>2. \A u, v \in Pending \ {t} :
          Before(waiters'[lock[u]], v, u) <=> Before(waiters[lock[u]], v, u)
    BY <1>1, <1>3, OrderKept
  <2>3. QED
    BY <1>1, <1>3, <2>1, <2>2, QuitStep
<1>11. QED
  BY <1>7, <1>8, <1>9, <1>10 DEF Abstract!Grant

\* A cancelled task is not in line any more, although its future still is in
\* the deque.
LEMMA GiveUpStep ==
  ASSUME IInv, OwnerIs, OwnerIs', NEW t \in Tasks, Cancel(t)
  PROVE  Abstract!GiveUp(t, key[t])
<1>1. /\ state[t] \in {"queued", "woken"}
      /\ state' = [state EXCEPT ![t] = IF state[t] = "queued" THEN "cancelled" ELSE "revoked"]
      /\ UNCHANGED <<lockOf, users, locked, waiters, key, lock>>
  BY DEF Cancel
<1>2. state \in [Tasks -> States] /\ key \in [Tasks -> Keys]
  BY DEF IInv, TypeOK
<1>3. t \in Pending /\ Pending' = Pending \ {t}
  BY <1>1, <1>2 DEF Pending
<1>4. ownerBar' = ownerBar
  <2>1. \A u \in Tasks : \A k \in Keys :
          state'[u] = "inside" /\ key'[u] = k <=> state[u] = "inside" /\ key[u] = k
    BY <1>1, <1>2
  <2>2. QED
    BY <2>1, OwnerStays
<1>5. Abstract!Quit(t, key[t])
  BY <1>1, <1>3, QuitStep
<1>6. QED
  BY <1>4, <1>5 DEF Abstract!GiveUp

\* Waking the first waiter changes nobody who waits and nobody who is inside.
LEMMA WakingStays ==
  ASSUME NEW st \in [Tasks -> States], NEW q, NEW u \in Tasks
  PROVE  /\ WakeFirst(st, q)[u] \in {"queued", "woken"} <=> st[u] \in {"queued", "woken"}
         /\ WakeFirst(st, q)[u] = "inside" <=> st[u] = "inside"
BY DEF WakeFirst

\* The cancelled task leaves the deque when it runs: nothing that can be seen.
LEMMA UnwindStays ==
  ASSUME IInv, OwnerIs, OwnerIs', NEW t \in Tasks, Unwind(t)
  PROVE  UNCHANGED Abstract!fvars
<1>1. /\ state[t] \in {"cancelled", "revoked"} /\ state[t] \in InLine
      /\ waiters' = [waiters EXCEPT ![lock[t]] = Without(@, t)]
      /\ lock' = [lock EXCEPT ![t] = NoLock] /\ key' = key
  BY DEF Unwind, InLine
<1>2. /\ state \in [Tasks -> States] /\ key \in [Tasks -> Keys]
      /\ lock \in [Tasks -> Locks \cup {NoLock}]
  BY DEF IInv, TypeOK
<1>3. /\ state'[t] = "idle"
      /\ \A u \in Tasks \ {t} :
           /\ state'[u] \in {"queued", "woken"} <=> state[u] \in {"queued", "woken"}
           /\ state'[u] = "inside" <=> state[u] = "inside"
  <2>1. PICK q, w : w = WakeFirst(state, q) /\
          state' = [IF locked[lock[t]] THEN state ELSE w EXCEPT ![t] = "idle"]
    BY DEF Unwind
  <2>2. \A u \in Tasks : /\ w[u] \in {"queued", "woken"} <=> state[u] \in {"queued", "woken"}
                         /\ w[u] = "inside" <=> state[u] = "inside"
    BY <1>2, <2>1, WakingStays
  <2>3. DOMAIN w = Tasks
    BY <1>2, <2>1 DEF WakeFirst
  <2>4. QED
    BY <1>2, <2>1, <2>2, <2>3
<1>4. ownerBar' = ownerBar
  <2>1. \A u \in Tasks : \A k \in Keys :
          state'[u] = "inside" /\ key'[u] = k <=> state[u] = "inside" /\ key[u] = k
    BY <1>1, <1>3
  <2>2. QED
    BY <2>1, OwnerStays
<1>5. Pending' = Pending /\ t \notin Pending
  BY <1>1, <1>3 DEF Pending
<1>6. \A u \in Pending : key'[u] = key[u] /\ lock'[u] = lock[u]
  BY <1>1, <1>2, <1>5 DEF Pending
<1>7. \A u, v \in Pending :
        Before(waiters'[lock[u]], v, u) <=> Before(waiters[lock[u]], v, u)
  BY <1>1, <1>5, OrderKept
<1>8. QED
  BY <1>4, <1>5, <1>6, <1>7, OrderStays DEF Abstract!fvars

\* The caller inside leaves.
LEMMA LeaveStep ==
  ASSUME IInv, OwnerIs, OwnerIs', NEW t \in Tasks, Exit(t)
  PROVE  Abstract!Leave(key[t])
<1>1. /\ state[t] = "inside"
      /\ lock' = [lock EXCEPT ![t] = NoLock] /\ key' = key /\ waiters' = waiters
  BY DEF Exit
<1>2. /\ state \in [Tasks -> States] /\ key \in [Tasks -> Keys]
      /\ lock \in [Tasks -> Locks \cup {NoLock}]
  BY DEF IInv, TypeOK
<1>3. /\ state'[t] = "idle"
      /\ \A u \in Tasks \ {t} :
           /\ state'[u] \in {"queued", "woken"} <=> state[u] \in {"queued", "woken"}
           /\ state'[u] = "inside" <=> state[u] = "inside"
  <2>1. PICK w : w = WakeFirst(state, waiters[lock[t]]) /\ state' = [w EXCEPT ![t] = "idle"]
    BY DEF Exit
  <2>2. \A u \in Tasks : /\ w[u] \in {"queued", "woken"} <=> state[u] \in {"queued", "woken"}
                         /\ w[u] = "inside" <=> state[u] = "inside"
    BY <1>2, <2>1, WakingStays
  <2>3. DOMAIN w = Tasks
    BY <1>2, <2>1 DEF WakeFirst
  <2>4. QED
    BY <2>1, <2>2, <2>3
<1>4. PICK k \in Keys : k = key[t]
  BY <1>2
<1>5. ownerBar[k] = t
  BY <1>1, <1>4 DEF OwnerIs
<1>6. ownerBar' = [ownerBar EXCEPT ![k] = NoTask]
  <2>1. \A u \in Tasks : ~(state'[u] = "inside" /\ key'[u] = k)
    BY <1>1, <1>3, <1>4, <1>5 DEF OwnerIs
  <2>2. \A u \in Tasks : \A j \in Keys \ {k} :
          state'[u] = "inside" /\ key'[u] = j <=> state[u] = "inside" /\ key[u] = j
    BY <1>1, <1>3, <1>4
  <2>3. \A u \in Tasks : state'[u] = "inside" /\ key'[u] = k <=> u = NoTask
    BY <2>1, NoTaskIsNoTask
  <2>4. QED
    BY <2>2, <2>3, OwnerChanges
<1>7. Pending' = Pending /\ t \notin Pending
  BY <1>1, <1>3 DEF Pending
<1>8. \A u \in Pending : key'[u] = key[u] /\ lock'[u] = lock[u]
  BY <1>1, <1>2, <1>7 DEF Pending
<1>9. lineBar' = lineBar /\ aheadBar' = aheadBar
  BY <1>1, <1>7, <1>8, OrderStays
<1>10. QED
  BY <1>4, <1>5, <1>6, <1>9, NoTaskIsNoTask DEF Abstract!Leave

\* locks.py:42-67. The locks are mutexes that let their callers in one at a time
\* and in the order in which they asked, whoever of them is cancelled and
\* whatever lock objects come and go: every behaviour of KeyedLocks is one of
\* FifoMutex, its fairness aside.
THEOREM Refinement == Spec => Abstract!Safe
<1>1. Init => Abstract!Init
  <2> SUFFICES ASSUME Init PROVE Abstract!Init
    OBVIOUS
  <2>1. \A t \in Tasks : state[t] = "idle"
    BY DEF Init
  <2>2. Pending = {} /\ \A k \in Keys : Users(k) = {}
    BY <2>1 DEF Pending, Users
  <2>3. QED
    BY <2>2 DEF Abstract!Init, ownerBar, lineBar, aheadBar
<1>2. IInv /\ IInv' /\ OwnerIs /\ OwnerIs' /\ [Next]_kvars => [Abstract!Next]_(Abstract!fvars)
  <2> SUFFICES ASSUME IInv, IInv', OwnerIs, OwnerIs', [Next]_kvars
               PROVE  Abstract!Next \/ UNCHANGED Abstract!fvars
    OBVIOUS
  <2>1. ASSUME NEW t \in Tasks, NEW k \in Keys, CallAndAcquire(t, k) PROVE Abstract!Next
    BY <2>1, TakeStep DEF Abstract!Next
  <2>2. ASSUME NEW t \in Tasks, NEW k \in Keys, CallAndWait(t, k) PROVE Abstract!Next
    BY <2>2, JoinStep DEF Abstract!Next
  <2>3. \A t \in Tasks : key[t] \in Keys
    BY DEF IInv, TypeOK
  <2>4. ASSUME NEW t \in Tasks, Cancel(t) PROVE Abstract!Next
    BY <2>3, <2>4, GiveUpStep DEF Abstract!Next
  <2>5. ASSUME NEW t \in Tasks, Resume(t) PROVE Abstract!Next
    BY <2>3, <2>5, GrantStep DEF Abstract!Next
  <2>6. ASSUME NEW t \in Tasks, Unwind(t) PROVE UNCHANGED Abstract!fvars
    BY <2>6, UnwindStays
  <2>7. ASSUME NEW t \in Tasks, Exit(t) PROVE Abstract!Next
    BY <2>3, <2>7, LeaveStep DEF Abstract!Next
  <2>8. CASE UNCHANGED kvars
    BY <2>8 DEF kvars, Abstract!fvars, ownerBar, lineBar, aheadBar, Pending, Users
  <2>9. QED
    BY <2>1, <2>2, <2>4, <2>5, <2>6, <2>7, <2>8 DEF Next, Step
<1>3. QED
  BY <1>1, <1>2, Invariance, OwnerFacts, PTL DEF Spec, Abstract!Safe
=============================================================================
