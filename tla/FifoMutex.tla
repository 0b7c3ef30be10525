----------------------------- MODULE FifoMutex -----------------------------
(***************************************************************************)
(* What the code that takes a lock of app/utils/locks.py relies on: for    *)
(* every key at most one task is inside, tasks go inside in the order in   *)
(* which they asked, and a task that asked may give up while it waits.     *)
(*                                                                         *)
(* This is the abstract specification: there are no lock objects, no user  *)
(* counts and no wake-ups here, and a line is no more than who is in it    *)
(* and whom each of them came after.  KeyedLocks implements it.            *)
(***************************************************************************)
CONSTANTS
  Keys,     \* what the locks are keyed by: workspace ids, user ids, ...
  Tasks,    \* the asyncio tasks that take the locks
  NoTask    \* "nobody", not a task

VARIABLES
  owner,    \* owner[k]: the task inside the lock of k, or NoTask
  line,     \* line[k]: the tasks that wait for k
  ahead     \* ahead[t]: who was in line when t joined it and still is

fvars == <<owner, line, ahead>>

TypeOK ==
  /\ owner \in [Keys -> Tasks \cup {NoTask}]
  /\ line \in [Keys -> SUBSET Tasks]
  /\ ahead \in [Tasks -> SUBSET Tasks]

Init ==
  /\ owner = [k \in Keys |-> NoTask]
  /\ line = [k \in Keys |-> {}]
  /\ ahead = [t \in Tasks |-> {}]

Busy(t) ==
  \E k \in Keys : owner[k] = t \/ t \in line[k]

\* A free lock nobody waits for is taken at once.
Take(t, k) ==
  /\ ~Busy(t)
  /\ owner[k] = NoTask
  /\ line[k] = {}
  /\ owner' = [owner EXCEPT ![k] = t]
  /\ UNCHANGED <<line, ahead>>

\* Otherwise the task joins the line behind everyone who is in it.
Join(t, k) ==
  /\ ~Busy(t)
  /\ line' = [line EXCEPT ![k] = @ \cup {t}]
  /\ ahead' = [ahead EXCEPT ![t] = line[k]]
  /\ UNCHANGED owner

\* t leaves the line of k, wherever it stood; nobody is behind it any more.
Quit(t, k) ==
  /\ t \in line[k]
  /\ line' = [line EXCEPT ![k] = @ \ {t}]
  /\ ahead' = [u \in Tasks |-> IF u = t THEN {} ELSE ahead[u] \ {t}]

\* Only the first of the line goes inside, and only when nobody is.
Grant(t, k) ==
  /\ owner[k] = NoTask
  /\ ahead[t] = {}
  /\ Quit(t, k)
  /\ owner' = [owner EXCEPT ![k] = t]

\* A waiting task is cancelled.
GiveUp(t, k) ==
  /\ Quit(t, k)
  /\ UNCHANGED owner

Leave(k) ==
  /\ owner[k] # NoTask
  /\ owner' = [owner EXCEPT ![k] = NoTask]
  /\ UNCHANGED <<line, ahead>>

Next ==
  \E k \in Keys :
    \/ Leave(k)
    \/ \E t \in Tasks : Take(t, k) \/ Join(t, k) \/ Grant(t, k) \/ GiveUp(t, k)

Safe == Init /\ [][Next]_fvars

\* Who stays at the head of the line of a free lock is let in; whoever is
\* inside leaves.
Fairness ==
  \A k \in Keys :
    /\ WF_fvars(Leave(k))
    /\ \A t \in Tasks : WF_fvars(Grant(t, k))

Spec == Safe /\ Fairness
=============================================================================
