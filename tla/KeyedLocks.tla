----------------------------- MODULE KeyedLocks -----------------------------
(***************************************************************************)
(* KeyedLocks of app/utils/locks.py: asyncio locks keyed by an id, created *)
(* on first use and evicted once idle.  One instance of the class guards   *)
(* the workspaces, one the forks, one each the builds, the builds of a     *)
(* user and the token refreshes; they share nothing, so one instance is    *)
(* modelled.                                                               *)
(*                                                                         *)
(* The event loop runs one task at a time, from one await to the next, so  *)
(* an action is a run of a task between two awaits.  A task can be         *)
(* cancelled at an await: the request it serves was dropped.               *)
(*                                                                         *)
(* asyncio.Lock (locked, waiters, the future a waiter awaits) is the       *)
(* standard library's, modelled from how it is used here: FIFO, a release  *)
(* resolves the future of the first waiter and the lock stays unlocked     *)
(* until that waiter runs.                                                 *)
(***************************************************************************)
EXTENDS Naturals, Sequences, FiniteSets, SequencesExt

CONSTANTS
  Keys,     \* the ids the locks are keyed by
  Tasks,    \* the tasks of the event loop
  Locks,    \* identities of lock objects
  NoLock    \* `None`: no entry for a key; not a lock

ASSUME TasksAreFinite == IsFiniteSet(Tasks)
ASSUME NoLockIsNoLock == NoLock \notin Locks

VARIABLES
  lockOf,   \* lockOf[k]: the lock of k's entry in _locks, NoLock if it has none
  users,    \* users[k]: the count of k's entry, 0 if it has none
  locked,   \* locked[l]: asyncio.Lock._locked
  waiters,  \* waiters[l]: asyncio.Lock._waiters, the tasks whose futures are in it
  state,    \* state[t]: where task t stands, see States
  key,      \* key[t]: the key t was called with
  lock      \* lock[t]: the local `lock` of t's __call__

kvars == <<lockOf, users, locked, waiters, state, key, lock>>

(***************************************************************************)
(* idle       not in the context manager                                   *)
(* queued     awaits its future                                            *)
(* woken      its future is resolved, the task has not run yet             *)
(* cancelled  cancelled while queued: its future is cancelled, the task    *)
(*            has not run yet                                              *)
(* revoked    cancelled while woken: the future is resolved all the same,  *)
(*            and CancelledError is what the task finds when it runs       *)
(* inside     holds the lock, runs the body                                *)
(***************************************************************************)
States == {"idle", "queued", "woken", "cancelled", "revoked", "inside"}
InLine == {"queued", "woken", "cancelled", "revoked"}

TypeOK ==
  /\ lockOf \in [Keys -> Locks \cup {NoLock}]
  /\ users \in [Keys -> Nat]
  /\ locked \in [Locks -> BOOLEAN]
  /\ waiters \in [Locks -> Seq(Tasks)]
  /\ state \in [Tasks -> States]
  /\ key \in [Tasks -> Keys]
  /\ lock \in [Tasks -> Locks \cup {NoLock}]

Init ==
  /\ lockOf = [k \in Keys |-> NoLock]
  /\ users = [k \in Keys |-> 0]
  /\ locked = [l \in Locks |-> FALSE]
  /\ waiters = [l \in Locks |-> <<>>]
  /\ state = [t \in Tasks |-> "idle"]
  /\ key \in [Tasks -> Keys]
  /\ lock = [t \in Tasks |-> NoLock]

-----------------------------------------------------------------------------
(* asyncio.Lock *)

\* A lock object nothing refers to: what `asyncio.Lock()` may return.
Unused(l) ==
  /\ \A k \in Keys : lockOf[k] # l
  /\ \A t \in Tasks : state[t] # "idle" => lock[t] # l

\* Mutant: acquire() does not look at the futures in the deque.
BargingFastPath(l) == ~locked[l]

\* acquire() takes the lock without waiting: it is free and every future
\* still in the deque is a cancelled one.
FastPath(l) ==
  /\ ~locked[l]
  /\ \A i \in 1..Len(waiters[l]) : state[waiters[l][i]] = "cancelled"

\* Resolves the future of the first waiter, unless that future is already
\* done (resolved or cancelled).
WakeFirst(st, queue) ==
  IF queue # <<>> /\ st[Head(queue)] = "queued"
  THEN [st EXCEPT ![Head(queue)] = "woken"]
  ELSE st

\* The deque without the future of t.
Without(queue, t) ==
  RemoveAt(queue, CHOOSE i \in 1..Len(queue) : queue[i] = t)

-----------------------------------------------------------------------------
(* KeyedLocks.__call__ *)

\* `_locks.get(key)`, or a new lock.
Entry(k, l) ==
  IF lockOf[k] = NoLock THEN Unused(l) ELSE l = lockOf[k]

\* The caller is counted before it may have to wait.
CountUser(k, l) ==
  /\ lockOf' = [lockOf EXCEPT ![k] = l]
  /\ users' = [users EXCEPT ![k] = @ + 1]

\* Mutant: every user takes the entry away.
EagerUncountUser(k, l) ==
  /\ lockOf' = [lockOf EXCEPT ![k] = NoLock]
  /\ users' = [users EXCEPT ![k] = 0]

\* The outer finally: the last user takes the entry away.
UncountUser(k, l) ==
  IF users[k] <= 1
  THEN /\ lockOf' = [lockOf EXCEPT ![k] = NoLock]
       /\ users' = [users EXCEPT ![k] = 0]
  ELSE /\ lockOf' = [lockOf EXCEPT ![k] = l]
       /\ users' = [users EXCEPT ![k] = @ - 1]

\* Enter the context manager and take the lock without an await.
CallAndAcquire(t, k) ==
  /\ state[t] = "idle"
  /\ \E l \in Locks :
       /\ Entry(k, l)
       /\ FastPath(l)
       /\ CountUser(k, l)
       /\ locked' = [locked EXCEPT ![l] = TRUE]
       /\ lock' = [lock EXCEPT ![t] = l]
  /\ key' = [key EXCEPT ![t] = k]
  /\ state' = [state EXCEPT ![t] = "inside"]
  /\ UNCHANGED waiters

\* Enter the context manager and wait.
CallAndWait(t, k) ==
  /\ state[t] = "idle"
  /\ \E l \in Locks :
       /\ Entry(k, l)
       /\ ~FastPath(l)
       /\ CountUser(k, l)
       /\ waiters' = [waiters EXCEPT ![l] = Append(@, t)]
       /\ lock' = [lock EXCEPT ![t] = l]
  /\ key' = [key EXCEPT ![t] = k]
  /\ state' = [state EXCEPT ![t] = "queued"]
  /\ UNCHANGED locked

\* The woken task runs: acquire() sets _locked without looking at it again.
Resume(t) ==
  /\ state[t] = "woken"
  /\ waiters' = [waiters EXCEPT ![lock[t]] = Without(@, t)]
  /\ locked' = [locked EXCEPT ![lock[t]] = TRUE]
  /\ state' = [state EXCEPT ![t] = "inside"]
  /\ UNCHANGED <<lockOf, users, key, lock>>

\* task.cancel() while the task waits.
Cancel(t) ==
  /\ \/ state[t] = "queued" /\ state' = [state EXCEPT ![t] = "cancelled"]
     \/ state[t] = "woken" /\ state' = [state EXCEPT ![t] = "revoked"]
  /\ UNCHANGED <<lockOf, users, locked, waiters, key, lock>>

\* Mutant: the wake-up of a cancelled task is not passed on.
SilentUnwind(t) ==
  /\ state[t] \in {"cancelled", "revoked"}
  /\ waiters' = [waiters EXCEPT ![lock[t]] = Without(@, t)]
  /\ state' = [state EXCEPT ![t] = "idle"]
  /\ UncountUser(key[t], lock[t])
  /\ lock' = [lock EXCEPT ![t] = NoLock]
  /\ UNCHANGED <<locked, key>>

\* The cancelled task runs: it takes its future out of the deque, passes the
\* wake-up on if the lock is free, and is uncounted.
Unwind(t) ==
  /\ state[t] \in {"cancelled", "revoked"}
  /\ LET l == lock[t]
         queue == Without(waiters[l], t)
     IN /\ waiters' = [waiters EXCEPT ![l] = queue]
        /\ state' = [IF locked[l] THEN state ELSE WakeFirst(state, queue)
                       EXCEPT ![t] = "idle"]
        /\ UncountUser(key[t], l)
  /\ lock' = [lock EXCEPT ![t] = NoLock]
  /\ UNCHANGED <<locked, key>>

\* The body ends, normally, by an exception or by a cancellation.
Exit(t) ==
  /\ state[t] = "inside"
  /\ LET l == lock[t]
     IN /\ locked' = [locked EXCEPT ![l] = FALSE]
        /\ state' = [WakeFirst(state, waiters[l]) EXCEPT ![t] = "idle"]
        /\ UncountUser(key[t], l)
  /\ lock' = [lock EXCEPT ![t] = NoLock]
  /\ UNCHANGED <<waiters, key>>

Step(t) ==
  Resume(t) \/ Unwind(t) \/ Exit(t)

Next ==
  \E t \in Tasks :
    \/ \E k \in Keys : CallAndAcquire(t, k) \/ CallAndWait(t, k)
    \/ Cancel(t)
    \/ Step(t)

\* The event loop runs every task that can run, and a body ends: it only
\* awaits child processes and HTTP calls that have timeouts.
Fairness == \A t \in Tasks : WF_kvars(Step(t))

Spec == Init /\ [][Next]_kvars
FairSpec == Spec /\ Fairness

-----------------------------------------------------------------------------
(* Properties *)

Users(k) == {t \in Tasks : state[t] # "idle" /\ key[t] = k}

\* locks.py:59-62: an entry lives exactly as long as a caller is counted, the
\* count is the number of callers between the first line and the last
\* finally, cancelled ones included, and they all use the entry's lock: no
\* entry leaks and none is evicted under a caller.
EntriesAreExact ==
  /\ \A k \in Keys : users[k] = Cardinality(Users(k))
  /\ \A k \in Keys : lockOf[k] = NoLock <=> users[k] = 0
  /\ \A t \in Tasks : state[t] # "idle" => lock[t] = lockOf[key[t]]

\* The purpose of the class: two tasks are never inside for the same key,
\* even across an eviction that replaced the lock object.
MutualExclusion ==
  \A t, u \in Tasks :
    state[t] = "inside" /\ state[u] = "inside" /\ key[t] = key[u] => t = u

\* locks.py:59-62, a request cancelled while queued: its wake-up is not lost.
\* Whenever a lock is free and somebody waits, some task is about to run that
\* takes the lock or passes the wake-up on.
NoLostWakeUp ==
  \A t \in Tasks :
    state[t] = "queued" /\ ~locked[lock[t]] =>
      \E u \in Tasks : lock[u] = lock[t] /\ state[u] \in {"woken", "cancelled", "revoked"}

-----------------------------------------------------------------------------
(* The inductive invariant: what the code keeps true between two awaits.   *)

\* The deque of a lock holds each waiting caller of that lock once.
DequesAreExact ==
  /\ \A l \in Locks : \A i \in 1..Len(waiters[l]) :
       /\ state[waiters[l][i]] \in InLine
       /\ lock[waiters[l][i]] = l
       /\ \A j \in 1..Len(waiters[l]) : waiters[l][i] = waiters[l][j] => i = j
  /\ \A t \in Tasks : state[t] \in InLine =>
       \E i \in 1..Len(waiters[lock[t]]) : waiters[lock[t]][i] = t

\* _locked says whether a caller is inside, and at most one is.
LockedIsHeld ==
  /\ \A l \in Locks : locked[l] => \E t \in Tasks : state[t] = "inside" /\ lock[t] = l
  /\ \A t \in Tasks : state[t] = "inside" => locked[lock[t]]
  /\ \A t, u \in Tasks :
       state[t] = "inside" /\ state[u] = "inside" /\ lock[t] = lock[u] => t = u

\* Only the first waiter is ever woken, and nobody takes the lock before it:
\* this is why acquire() need not look at _locked again.
WokenIsFirst ==
  \A t \in Tasks : state[t] \in {"woken", "revoked"} =>
    ~locked[lock[t]] /\ Head(waiters[lock[t]]) = t

\* The first waiter of a free lock is about to run.
FirstIsAwake ==
  \A l \in Locks :
    ~locked[l] /\ waiters[l] # <<>> => state[Head(waiters[l])] # "queued"

\* No two entries share a lock, and an entry's lock is the one its callers use.
LocksApart ==
  \A j, k \in Keys : lockOf[j] = lockOf[k] /\ lockOf[j] # NoLock => j = k

IInv ==
  /\ TypeOK
  /\ EntriesAreExact
  /\ DequesAreExact
  /\ LockedIsHeld
  /\ WokenIsFirst
  /\ FirstIsAwake
  /\ LocksApart

-----------------------------------------------------------------------------
(* KeyedLocks implements FifoMutex: the task inside owns the key, and in   *)
(* line are the callers in the deque that are not cancelled, in its order. *)
CONSTANT NoTask

ASSUME NoTaskIsNoTask == NoTask \notin Tasks

\* Who will go inside unless it is cancelled.
Pending == {t \in Tasks : state[t] \in {"queued", "woken"}}

\* u stands before t in the deque.
Before(queue, u, t) ==
  \E i, j \in 1..Len(queue) : i < j /\ queue[i] = u /\ queue[j] = t

ownerBar ==
  [k \in Keys |->
     IF \E t \in Users(k) : state[t] = "inside"
     THEN CHOOSE t \in Users(k) : state[t] = "inside"
     ELSE NoTask]

lineBar == [k \in Keys |-> Pending \cap Users(k)]

aheadBar ==
  [t \in Tasks |->
     IF t \in Pending THEN {u \in Pending : Before(waiters[lock[t]], u, t)} ELSE {}]

Abstract == INSTANCE FifoMutex WITH owner <- ownerBar, line <- lineBar, ahead <- aheadBar

\* The lock a caller sees is a fair FIFO mutex per key: callers go in one at
\* a time in the order of their calls (locks.py:42-67).
ImplementsFifoMutex == Abstract!Spec
=============================================================================
