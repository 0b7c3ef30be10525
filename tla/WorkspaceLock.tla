--------------------------- MODULE WorkspaceLock ----------------------------
(* run_exclusive of app/utils/locks.py for one workspace, with its users:   *)
(* transactions of the server that change the workspace, its deletion by    *)
(* the owner (workspace_service.py) and its deletion by the cleanup script, *)
(* which runs in a process of its own.                                      *)
(*                                                                          *)
(* In the server a transaction takes the workspace's asyncio lock (a line   *)
(* and an owner, as FifoMutex promises) and then polls for the flock on the *)
(* workspace's lock file. The script knows only the flock. The lock file is *)
(* unlinked by who has deleted the workspace, when the flock is released    *)
(* already: whoever has locked that file by then holds a lock that nobody   *)
(* else can see any more.                                                   *)
EXTENDS Naturals, FiniteSets, SequencesExt

CONSTANTS
  Requests,     \* requests that change or delete the workspace
  Script,       \* cleanup_archived_workspaces.py
  Nobody,       \* no party
  MaxRuns,      \* bounds: runs of the script,
  MaxCancels,   \*   cancelled requests,
  MaxDeaths     \*   and deaths of the server or the script

ASSUME PartiesAssumption ==
  /\ Script \notin Requests /\ Nobody \notin Requests \union {Script}
  /\ {MaxRuns, MaxCancels, MaxDeaths} \subseteq Nat

Parties == Requests \union {Script}

VARIABLES
  row,        \* the workspace is in the database
  tree,       \* its working tree: whole, half (being changed or removed), gone
  owner,      \* workspace_locks: the request inside the asyncio lock, or Nobody
  line,       \*   and those that wait for it
  at,         \* at[p]: how far a party is
  kind,       \* kind[r]: what a request is to do, change or delete
  deleted,    \* deleted[p]: p has deleted the row
  abandoned,  \* abandoned[r]: the request was cancelled, its transaction goes on
  exists,     \* there is a lock file at its path
  holder,     \* who holds the flock of that file, or Nobody
  orphaned,   \* who holds the flock of a file that is unlinked
  broken,     \* a transaction was cut short: a death or a failed removal (history)
  runs, cancels, deaths

locks == <<exists, holder, orphaned>>
bounds == <<runs, cancels, deaths>>
vars == <<row, tree, owner, line, at, kind, deleted, abandoned, exists, holder,
          orphaned, broken, runs, cancels, deaths>>

-----------------------------------------------------------------------------

\* line: waits for the asyncio lock. poll: waits for the flock. inside: has both.
\* working: changes or removes the tree. rows: the tree is removed, the row is
\* next. leaving: is to release. unlink: has released, is to remove the lock file.
Places == {"idle", "line", "poll", "inside", "working", "rows", "leaving", "unlink", "done"}

Holding == {"inside", "working", "rows", "leaving"}

TypeOK ==
  /\ row \in BOOLEAN /\ tree \in {"whole", "half", "gone"}
  /\ owner \in Requests \union {Nobody}
  /\ at \in [Parties -> Places] /\ kind \in [Requests -> {"change", "delete"}]
  /\ deleted \in [Parties -> BOOLEAN] /\ abandoned \in [Requests -> BOOLEAN]
  /\ exists \in BOOLEAN /\ holder \in Parties \union {Nobody} /\ orphaned \subseteq Parties
  /\ broken \in BOOLEAN
  /\ runs \in 0..MaxRuns /\ cancels \in 0..MaxCancels /\ deaths \in 0..MaxDeaths

Init ==
  /\ row = TRUE /\ tree = "whole"
  /\ owner = Nobody /\ line = <<>>
  /\ at = [p \in Parties |-> "idle"] /\ kind \in [Requests -> {"change", "delete"}]
  /\ deleted = [p \in Parties |-> FALSE] /\ abandoned = [r \in Requests |-> FALSE]
  /\ exists = FALSE /\ holder = Nobody /\ orphaned = {}
  /\ broken = FALSE
  /\ runs = 0 /\ cancels = 0 /\ deaths = 0

Moves(p, place) == at' = [at EXCEPT ![p] = place]

\* The script deletes what it has selected; a request, what it was sent for.
Deletes(p) == p = Script \/ (p \in Requests /\ kind[p] = "delete")

-----------------------------------------------------------------------------
(* Getting in.                                                              *)

\* get_workspace_by_id has found the workspace and, for a change, its tree;
\* run_exclusive starts the transaction.
Ask(r) ==
  /\ at[r] = "idle" /\ row /\ (kind[r] = "change" => tree # "gone")
  /\ Moves(r, "line")
  /\ line' = Append(line, r)
  /\ UNCHANGED <<row, tree, owner, kind, deleted, abandoned, exists, holder, orphaned,
                 broken, runs, cancels, deaths>>

Enter(r) ==
  /\ owner = Nobody /\ line # <<>> /\ line[1] = r
  /\ owner' = r /\ line' = Tail(line)
  /\ Moves(r, "poll")
  /\ UNCHANGED <<row, tree, kind, deleted, abandoned, exists, holder, orphaned, broken,
                 runs, cancels, deaths>>

\* The script has selected the workspace. It runs once a day, much longer than a
\* transaction may take: none is under way that outlived the lock file of an
\* earlier run.
Select ==
  /\ at[Script] \in {"idle", "done"} /\ row
  /\ orphaned = {}
  /\ runs < MaxRuns /\ runs' = runs + 1
  /\ Moves(Script, "poll")
  /\ UNCHANGED <<row, tree, owner, line, kind, deleted, abandoned, exists, holder,
                 orphaned, broken, cancels, deaths>>

\* Mutant: the server relies on its asyncio lock.
LockInServer(p) ==
  /\ at[p] = "poll" /\ (p = Script => holder = Nobody)
  /\ exists' = TRUE /\ holder' = p
  /\ Moves(p, "inside")
  /\ UNCHANGED <<row, tree, owner, line, kind, deleted, abandoned, orphaned, broken,
                 runs, cancels, deaths>>

\* filelock opens the file, or creates it, and locks it; if it was unlinked
\* meanwhile filelock lets go of it and tries again.
Lock(p) ==
  /\ at[p] = "poll" /\ holder = Nobody
  /\ exists' = TRUE /\ holder' = p
  /\ Moves(p, "inside")
  /\ UNCHANGED <<row, tree, owner, line, kind, deleted, abandoned, orphaned, broken,
                 runs, cancels, deaths>>

\* LOCK_TIMEOUT_SECONDS are over: the script skips the workspace.
Skip ==
  /\ at[Script] = "poll" /\ holder # Nobody
  /\ Moves(Script, "done")
  /\ UNCHANGED <<row, tree, owner, line, kind, deleted, abandoned, exists, holder,
                 orphaned, broken, runs, cancels, deaths>>

-----------------------------------------------------------------------------
(* The transactions. A change of a tree that is gone fails at once, at the  *)
(* latest in get_repo; a deletion goes on with the row.                     *)

Begin(p) ==
  /\ at[p] = "inside"
  /\ IF tree # "gone" THEN tree' = "half" /\ Moves(p, "working")
     ELSE /\ Moves(p, IF Deletes(p) THEN "rows" ELSE "leaving")
          /\ UNCHANGED tree
  /\ UNCHANGED <<row, owner, line, kind, deleted, abandoned, exists, holder, orphaned,
                 broken, runs, cancels, deaths>>

\* A change ends, with success or undone; its events are published.
Changed(r) ==
  /\ r \in Requests /\ at[r] = "working" /\ ~Deletes(r)
  /\ tree' = IF broken THEN tree ELSE "whole"
  /\ Moves(r, "leaving")
  /\ UNCHANGED <<row, owner, line, kind, deleted, abandoned, exists, holder, orphaned,
                 broken, runs, cancels, deaths>>

TreeRemoved(p) ==
  /\ at[p] = "working" /\ Deletes(p)
  /\ tree' = "gone"
  /\ Moves(p, "rows")
  /\ UNCHANGED <<row, owner, line, kind, deleted, abandoned, exists, holder, orphaned,
                 broken, runs, cancels, deaths>>

\* rmtree raises half-way.
RemovalFails(p) ==
  /\ at[p] = "working" /\ Deletes(p)
  /\ broken' = TRUE
  /\ Moves(p, "leaving")
  /\ UNCHANGED <<row, tree, owner, line, kind, deleted, abandoned, exists, holder,
                 orphaned, runs, cancels, deaths>>

RowDeleted(p) ==
  /\ at[p] = "rows"
  /\ row' = FALSE /\ deleted' = [deleted EXCEPT ![p] = TRUE]
  /\ Moves(p, "leaving")
  /\ UNCHANGED <<tree, owner, line, kind, abandoned, exists, holder, orphaned, broken,
                 runs, cancels, deaths>>

\* The commit fails and is rolled back.
CommitFails(p) ==
  /\ at[p] = "rows"
  /\ Moves(p, "leaving")
  /\ UNCHANGED <<row, tree, owner, line, kind, deleted, abandoned, exists, holder,
                 orphaned, broken, runs, cancels, deaths>>

-----------------------------------------------------------------------------
(* Getting out.                                                             *)

\* The file at the path, whose flock h holds, is unlinked or not.
PathAfter(h, unlinked) ==
  /\ exists' = (exists /\ ~unlinked)
  /\ holder' = IF unlinked THEN Nobody ELSE h
  /\ orphaned' = (orphaned \ {p \in Parties : at'[p] \notin Holding})
                   \union (IF unlinked THEN {h} \ {Nobody} ELSE {})

\* Mutant: delete_workspace unlinks the lock file whatever has become of the
\* deletion.
UnlinksAlways(p) == Deletes(p) /\ (p = Script \/ ~abandoned[p])

\* The script unlinks the lock file in any case, the server when the deletion
\* has succeeded and the request is still there.
Unlinks(p) == p = Script \/ (p \in Requests /\ kind[p] = "delete" /\ deleted[p] /\ ~abandoned[p])

\* Mutant: who asked for the transaction releases the asyncio lock.
LeaveToCaller(p, unlinked) ==
  /\ at[p] = "leaving"
  /\ Moves(p, IF Unlinks(p) THEN "unlink" ELSE "done")
  /\ PathAfter(IF holder = p THEN Nobody ELSE holder, unlinked)
  /\ owner' = IF owner = p /\ ~abandoned[p] THEN Nobody ELSE owner
  /\ UNCHANGED <<row, tree, line, kind, deleted, abandoned, broken, runs, cancels, deaths>>

\* lock.release(), after which filelock may remove the file at the path, then
\* the end of the asyncio lock.
Leave(p, unlinked) ==
  /\ at[p] = "leaving"
  /\ Moves(p, IF Unlinks(p) THEN "unlink" ELSE "done")
  /\ PathAfter(IF holder = p THEN Nobody ELSE holder, unlinked)
  /\ owner' = IF owner = p THEN Nobody ELSE owner
  /\ UNCHANGED <<row, tree, line, kind, deleted, abandoned, broken, runs, cancels, deaths>>

\* workspace_lock_file(...).unlink(missing_ok=True)
Unlink(p) ==
  /\ at[p] = "unlink"
  /\ Moves(p, "done")
  /\ PathAfter(holder, TRUE)
  /\ UNCHANGED <<row, tree, owner, line, kind, deleted, abandoned, broken, runs, cancels, deaths>>

-----------------------------------------------------------------------------
(* Cancellations and deaths.                                                *)

\* Mutant: run_exclusive without its shield, the transaction is cancelled at the
\* await it is at.
CancelAll(r) ==
  /\ at[r] \notin {"idle", "done"} /\ ~abandoned[r]
  /\ cancels < MaxCancels /\ cancels' = cancels + 1
  /\ abandoned' = [abandoned EXCEPT ![r] = TRUE]
  /\ Moves(r, CASE at[r] \in {"working", "rows"} -> "leaving"
                [] at[r] = "unlink"              -> "done"
                [] OTHER                         -> at[r])
  /\ UNCHANGED <<row, tree, owner, line, kind, deleted, exists, holder, orphaned, broken,
                 runs, deaths>>

\* The request is cancelled, its transaction goes on; only what delete_workspace
\* would do after it is not done.
Cancel(r) ==
  /\ at[r] \notin {"idle", "done"} /\ ~abandoned[r]
  /\ cancels < MaxCancels /\ cancels' = cancels + 1
  /\ abandoned' = [abandoned EXCEPT ![r] = TRUE]
  /\ Moves(r, IF at[r] = "unlink" THEN "done" ELSE at[r])
  /\ UNCHANGED <<row, tree, owner, line, kind, deleted, exists, holder, orphaned, broken,
                 runs, deaths>>

\* A process dies, and what it had locked is free.
Dies(gone) ==
  /\ deaths < MaxDeaths /\ deaths' = deaths + 1
  /\ at' = [p \in Parties |-> IF p \in gone /\ at[p] # "idle" THEN "done" ELSE at[p]]
  /\ broken' = (broken \/ \E p \in gone : at[p] = "working")
  /\ PathAfter(IF holder \in gone THEN Nobody ELSE holder, FALSE)
  /\ UNCHANGED <<row, tree, kind, deleted, abandoned, runs, cancels>>

ServerDies == Dies(Requests) /\ owner' = Nobody /\ line' = <<>>

ScriptDies == Dies({Script}) /\ UNCHANGED <<owner, line>>

-----------------------------------------------------------------------------

Transaction(p) ==
  \/ Lock(p) \/ Begin(p) \/ Changed(p) \/ TreeRemoved(p) \/ RemovalFails(p)
  \/ RowDeleted(p) \/ CommitFails(p) \/ Unlink(p)
  \/ \E unlinked \in BOOLEAN : Leave(p, unlinked)

Next ==
  \/ \E r \in Requests : Ask(r) \/ Enter(r) \/ Cancel(r)
  \/ \E p \in Parties : Transaction(p)
  \/ Select \/ Skip \/ ServerDies \/ ScriptDies

Spec == Init /\ [][Next]_vars

\* The event loop runs what is ready, the polls go on and transactions are
\* bounded by the timeouts of what they call.
Fairness ==
  /\ \A r \in Requests : WF_vars(Enter(r))
  /\ \A p \in Parties : WF_vars(Transaction(p))

FairSpec == Spec /\ Fairness

-----------------------------------------------------------------------------
(* The invariant.                                                           *)

\* Who has a flock: on the file at the path or on one that is unlinked.
FlocksAreHeld ==
  /\ {p \in Parties : at[p] \in Holding} = orphaned \union ({holder} \ {Nobody})
  /\ holder \notin orphaned
  /\ holder # Nobody => exists

\* In the server only the owner of the asyncio lock is past the line.
OwnerIsInside ==
  \A r \in Requests : at[r] \in {"poll"} \union Holding <=> owner = r

\* A flock on an unlinked file matters no more: the workspace is deleted, or the
\* script that unlinked it has gone and does not run again before it is released.
OrphansAreHarmless ==
  orphaned # {} => tree = "gone" \/ (Script \notin orphaned /\ at[Script] \in {"idle", "done"})

DeletedIsGone ==
  /\ \A p \in Parties : deleted[p] => ~row /\ tree = "gone"
  /\ \A p \in Parties : at[p] = "rows" => tree = "gone" /\ Deletes(p)
  /\ \A p \in Parties : at[p] = "working" => tree = "half"
  /\ \A r \in Requests : at[r] = "unlink" => deleted[r]
  /\ at[Script] # "line"

IInv == TypeOK /\ FlocksAreHeld /\ OwnerIsInside /\ OrphansAreHarmless /\ DeletedIsGone

\* The line holds who waits in it, everyone once.
LineIsExact ==
  /\ line \in Seq(Requests) /\ IsInjective(line)
  /\ ToSet(line) = {r \in Requests : at[r] = "line"}

\* What every state satisfies.
Consistent == IInv /\ LineIsExact

-----------------------------------------------------------------------------
(* What the lock is for.                                                    *)

\* locks.py:138-144. The tree of a workspace is changed or removed by one
\* transaction at a time, of the server or of the cleanup script, although the
\* lock file is unlinked when others may already have locked it.
OneAtATime ==
  \A p, q \in Parties : at[p] = "working" /\ at[q] = "working" => p = q

\* locks.py:126 "Shielded". A tree is left half changed or half removed only where
\* a process died or the removal itself failed: never because a request was
\* cancelled.
NothingHalfDone ==
  tree = "half" => broken \/ \E p \in Parties : at[p] = "working"

\* locks.py:131-135. Every transaction ends, also one whose request is gone, and so
\* does the script's wait for the flock.
EveryTransactionEnds ==
  []<>(\A p \in Parties : at[p] \in {"idle", "done"})
=============================================================================
