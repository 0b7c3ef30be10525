------------------------- MODULE WorkspaceLifecycle -------------------------
(***************************************************************************)
(* The life of one workspace: its row in the database, its clone on disk   *)
(* and its pull request on GitHub, under the requests of the server        *)
(* (app/services/workspace_service.py), the two cron scripts that run in   *)
(* processes of their own (scripts/check_pr_status.py and                  *)
(* scripts/cleanup_archived_workspaces.py) and what people do on GitHub.   *)
(*                                                                         *)
(* A request reads the row into an object of its session and awaits GitHub *)
(* before it changes and commits that object: it may be stale by then, and *)
(* the commit writes the columns that were changed in the object.  Some    *)
(* requests take the workspace lock, with the lock file that excludes the  *)
(* cleanup, others do not.                                                 *)
(*                                                                         *)
(* The lock is one variable here: KeyedLocks shows that it excludes.       *)
(***************************************************************************)
EXTENDS Naturals, FiniteSets

CONSTANTS
  Requests,   \* the requests the server works on at a time
  Scripts,    \* the cron jobs that are set up: "check", "cleanup"
  Nobody,     \* the workspace lock is free; not a request
  MaxPulls    \* bound of the model: how many pull requests are opened

ASSUME RequestsAreFinite == IsFiniteSet(Requests)
ASSUME MaxPullsAssumption == MaxPulls \in Nat
ASSUME ScriptsAssumption == Scripts \subseteq {"check", "cleanup"}
ASSUME NobodyAssumption == Nobody \notin Requests \cup {"check", "cleanup"}
ASSUME RequestsAssumption == "check" \notin Requests /\ "cleanup" \notin Requests

VARIABLES
  born,       \* the workspace has been created
  row,        \* the row of git_workspaces, see Rows
  tree,       \* the clone is on disk
  pulls,      \* GitHub: pulls[n] is the state of pull request n, see PullStates
  holder,     \* who is inside the workspace lock
  pc,         \* pc[a]: where the request or script a stands, see Phases
  op,         \* op[r]: what the request r does
  seen,       \* seen[a]: the row as a's database session loaded it
  answer,     \* answer[a]: GitHub's answer that is on its way to a
  lost        \* history: the pull requests whose opening nobody recorded

vars == <<born, row, tree, pulls, holder, pc, op, seen, answer, lost>>

Actors == Requests \cup Scripts

(***************************************************************************)
(* archivedAt is "recent" for a month, then "old".  pr is the number of    *)
(* the pull request, 0 for none.                                           *)
(***************************************************************************)
Rows ==
  [exists: BOOLEAN, status: {"ACTIVE", "ARCHIVED"}, archivedAt: {"none", "recent", "old"},
   pr: 0..MaxPulls, prStatus: {"NONE", "OPEN", "CLOSED", "MERGED", "UNKNOWN"}]

NewRow ==
  [exists |-> TRUE, status |-> "ACTIVE", archivedAt |-> "none", pr |-> 0, prStatus |-> "NONE"]
NoRow == [NewRow EXCEPT !.exists = FALSE]

\* "detached": closed by GitHub, because the fork is gone.
PullStates == {"none", "open", "closed", "merged", "detached"}

\* "error": GitHub cannot be reached.
Answers == PullStates \cup {"error"}

(***************************************************************************)
(* asking     awaits GitHub's state of the pull request (for the check:    *)
(*            the list of all of them)                                     *)
(* answered   the answer is on its way                                     *)
(* queued     waits for the workspace lock                                 *)
(* cloning, editing, removing   runs git or rmtree, inside the lock        *)
(* removed    the tree is gone, the row is not yet                         *)
(* pushing    propose pushes the branch, inside the lock                   *)
(* proposing  propose awaits GitHub's change of the pull request           *)
(* proposed   the answer is on its way                                     *)
(***************************************************************************)
Phases == {"idle", "asking", "answered", "queued", "cloning", "editing", "removing",
           "removed", "pushing", "proposing", "proposed"}
InLock == Phases \ {"idle", "queued"}
Proposals == {"open", "close", "amend"}
Operations == {"create", "refresh", "reactivate", "edit", "delete"} \cup Proposals

TypeOK ==
  /\ born \in BOOLEAN /\ tree \in BOOLEAN
  /\ row \in Rows
  /\ pulls \in [1..MaxPulls -> PullStates]
  /\ holder \in {a \in Requests \cup Scripts : pc[a] \in InLock} \cup {Nobody}
  /\ pc \in [Actors -> Phases]
  /\ op \in [Requests -> Operations]
  /\ seen \in [Actors -> Rows]
  /\ answer \in [Actors -> Answers]
  /\ lost \subseteq 1..MaxPulls

Init ==
  /\ born = FALSE /\ tree = FALSE
  /\ row = NoRow
  /\ pulls = [n \in 1..MaxPulls |-> "none"]
  /\ holder = Nobody
  /\ pc = [a \in Actors |-> "idle"]
  /\ op = [r \in Requests |-> "refresh"]
  /\ seen = [a \in Actors |-> NoRow]
  /\ answer = [a \in Actors |-> "none"]
  /\ lost = {}

-----------------------------------------------------------------------------
(* Reading and writing the row *)

\* get_workspace_by_id with exists=True.
Readable == row.exists /\ tree

\* Mutant: all columns are written.
OverwritingFlush(old, new) ==
  row' = IF row.exists THEN new ELSE row

\* A commit of the object that was loaded as `old` and is now `new`: an
\* UPDATE of the changed columns of the row, if it is still there.
Flush(old, new) ==
  row' = IF row.exists
         THEN [column \in DOMAIN row |->
                 IF new[column] # old[column] THEN new[column] ELSE row[column]]
         ELSE row

\* Mutant: archived_at is set on every answer, not only on the transition.
RestartingApplied(w, pull) ==
  CASE pull = "open"     -> [w EXCEPT !.prStatus = "OPEN"]
    [] pull = "detached" -> [w EXCEPT !.prStatus = "UNKNOWN"]
    [] OTHER -> [w EXCEPT !.prStatus = IF pull = "merged" THEN "MERGED" ELSE "CLOSED",
                          !.status = "ARCHIVED", !.archivedAt = "recent"]

\* _apply_pull_request_state: the object w with the state of its pull request.
Applied(w, pull) ==
  CASE pull = "open"     -> [w EXCEPT !.prStatus = "OPEN"]
    [] pull = "detached" -> [w EXCEPT !.prStatus = "UNKNOWN"]
    [] OTHER ->
         LET s == [w EXCEPT !.prStatus = IF pull = "merged" THEN "MERGED" ELSE "CLOSED"]
         IN IF s.status = "ARCHIVED" THEN s
            ELSE [s EXCEPT !.status = "ARCHIVED", !.archivedAt = "recent"]

\* Mutant: the deletion date is left.
HalfActivated(w) == [w EXCEPT !.status = "ACTIVE"]

Activated(w) == [w EXCEPT !.status = "ACTIVE", !.archivedAt = "none"]

\* The request or script is done, and lets go of the lock if it holds it.
Return(a) ==
  /\ pc' = [pc EXCEPT ![a] = "idle"]
  /\ op' = IF a \in Requests THEN [op EXCEPT ![a] = "refresh"] ELSE op
  /\ seen' = [seen EXCEPT ![a] = NoRow]
  /\ answer' = [answer EXCEPT ![a] = "none"]
  /\ holder' = IF holder = a THEN Nobody ELSE holder

Goto(a, phase) == pc' = [pc EXCEPT ![a] = phase]

-----------------------------------------------------------------------------
(* Requests without the lock *)

\* create_workspace: the row is committed and nobody can be before its
\* request in the line for its lock.
Create(r) ==
  /\ ~born /\ pc[r] = "idle"
  /\ born' = TRUE
  /\ row' = NewRow
  /\ holder' = r
  /\ op' = [op EXCEPT ![r] = "create"]
  /\ Goto(r, "cloning")
  /\ UNCHANGED <<tree, pulls, seen, answer, lost>>

\* A failed clone leaves the row behind. The folder of one that is under way is no
\* tree yet; the lock keeps everybody else out of it.
Clone(r) ==
  /\ pc[r] = "cloning"
  /\ tree' \in BOOLEAN
  /\ Return(r)
  /\ UNCHANGED <<born, row, pulls, lost>>

\* sync_workspace and get_proposal of a workspace with a pull request, and
\* update_workspace that reactivates one whose pull request was closed: load
\* the row, ask GitHub.
Ask(r) ==
  /\ pc[r] = "idle" /\ Readable
  /\ row.pr # 0
  /\ \/ op' = [op EXCEPT ![r] = "refresh"]
     \/ /\ row.status = "ARCHIVED" /\ row.prStatus = "CLOSED"
        /\ op' = [op EXCEPT ![r] = "reactivate"]
  /\ seen' = [seen EXCEPT ![r] = row]
  /\ Goto(r, "asking")
  /\ UNCHANGED <<born, row, tree, pulls, holder, answer, lost>>

Answer(r) ==
  /\ pc[r] = "asking"
  /\ answer' \in {[answer EXCEPT ![r] = a] : a \in {pulls[seen[r].pr], "error"}}
  /\ Goto(r, "answered")
  /\ UNCHANGED <<born, row, tree, pulls, holder, op, seen, lost>>

\* The rest of sync_workspace and get_proposal; without an answer the row is
\* left alone.
Refresh(r) ==
  /\ pc[r] = "answered" /\ op[r] = "refresh"
  /\ IF answer[r] = "error" THEN UNCHANGED row
     ELSE Flush(seen[r], Applied(seen[r], answer[r]))
  /\ Return(r)
  /\ UNCHANGED <<born, tree, pulls, lost>>

\* The rest of update_workspace: refused if the pull request is merged or
\* closed by somebody's decision; without an answer it is not.
Reactivate(r) ==
  /\ pc[r] = "answered" /\ op[r] = "reactivate"
  /\ IF answer[r] \in {"merged", "closed", "open"} THEN UNCHANGED row
     ELSE Flush(seen[r], Activated(seen[r]))
  /\ Return(r)
  /\ UNCHANGED <<born, tree, pulls, lost>>

\* update_workspace that archives, or reactivates without asking GitHub.
UpdateStatus(r) ==
  /\ pc[r] = "idle" /\ Readable
  /\ \/ /\ row.status = "ACTIVE"
        /\ row' = [row EXCEPT !.status = "ARCHIVED", !.archivedAt = "recent"]
     \/ /\ row.status = "ARCHIVED" /\ row.prStatus \notin {"MERGED", "CLOSED"}
        /\ row' = Activated(row)
  /\ UNCHANGED <<born, tree, pulls, holder, pc, op, seen, answer, lost>>

-----------------------------------------------------------------------------
(* Requests that take the lock *)

\* The file operations, sync_git and persist_changes check the row before
\* they wait for the lock, delete_workspace needs no tree, propose reads
\* nothing yet.
Queue(r, o) ==
  /\ pc[r] = "idle"
  /\ o = "edit" => Readable
  /\ o = "delete" => row.exists
  /\ o \in Proposals => born
  /\ op' = [op EXCEPT ![r] = o]
  /\ Goto(r, "queued")
  /\ UNCHANGED <<born, row, tree, pulls, holder, seen, answer, lost>>

\* Mutant: the lock is not waited for.
RushingEnter(r) ==
  /\ pc[r] = "queued"
  /\ holder' = r

Enter(r) ==
  /\ pc[r] = "queued"
  /\ holder = Nobody
  /\ holder' = r

\* A transaction on the repository fails at once if the tree is gone.
StartEdit(r) ==
  /\ op[r] = "edit"
  /\ Enter(r)
  /\ Goto(r, "editing")
  /\ UNCHANGED <<born, row, tree, pulls, op, seen, answer, lost>>

EndEdit(r) ==
  /\ pc[r] = "editing"
  /\ Return(r)
  /\ UNCHANGED <<born, row, tree, pulls, lost>>

StartDelete(r) ==
  /\ op[r] = "delete"
  /\ Enter(r)
  /\ Goto(r, "removing")
  /\ UNCHANGED <<born, row, tree, pulls, op, seen, answer, lost>>

\* rmtree, of the delete request or of the cleanup.
RemoveTree(a) ==
  /\ pc[a] = "removing"
  /\ tree' = FALSE
  /\ Goto(a, "removed")
  /\ UNCHANGED <<born, row, pulls, holder, op, seen, answer, lost>>

\* rmtree fails, or the database refuses the deletion, because a collaborator
\* was added meanwhile: the row stays.
DeletionFails(a) ==
  /\ pc[a] \in {"removing", "removed"}
  /\ Return(a)
  /\ UNCHANGED <<born, row, tree, pulls, lost>>

\* Mutant: the row goes before the tree.
EarlyDeleteRow(a) ==
  /\ pc[a] \in {"removing", "removed"}
  /\ row' = NoRow
  /\ Return(a)
  /\ UNCHANGED <<born, tree, pulls, lost>>

DeleteRow(a) ==
  /\ pc[a] = "removed"
  /\ row' = NoRow
  /\ Return(a)
  /\ UNCHANGED <<born, tree, pulls, lost>>

-----------------------------------------------------------------------------
(* propose *)

\* What propose refuses after the refresh.
Refused(o, w) ==
  \/ w.prStatus = "MERGED"
  \/ o # "open" /\ (w.status = "ARCHIVED" \/ w.prStatus = "CLOSED")

\* Inside the lock: load the row; without a pull request there is nothing to
\* ask GitHub.
StartPropose(r) ==
  /\ op[r] \in Proposals
  /\ Enter(r)
  /\ Readable
  /\ seen' = [seen EXCEPT ![r] = row]
  /\ row.pr = 0 => ~Refused(op[r], row)
  /\ Goto(r, IF row.pr = 0 THEN "pushing" ELSE "asking")
  /\ UNCHANGED <<born, row, tree, pulls, op, answer, lost>>

\* The workspace or its tree is gone, or the proposal is refused.
RefusePropose(r) ==
  /\ op[r] \in Proposals
  /\ pc[r] = "queued" /\ holder = Nobody
  /\ ~Readable \/ (row.pr = 0 /\ Refused(op[r], row))
  /\ Return(r)
  /\ UNCHANGED <<born, row, tree, pulls, lost>>

\* The answer of the refresh; the row is loaded again after the commit.
RefreshInPropose(r) ==
  /\ pc[r] = "answered" /\ op[r] \in Proposals
  /\ IF answer[r] = "error" THEN UNCHANGED row
     ELSE Flush(seen[r], Applied(seen[r], answer[r]))
  /\ LET w == IF answer[r] = "error" THEN seen[r] ELSE row'
     IN IF Refused(op[r], w) THEN Return(r)
        ELSE /\ seen' = [seen EXCEPT ![r] = w]
             /\ answer' = [answer EXCEPT ![r] = "none"]
             /\ Goto(r, "pushing")
             /\ UNCHANGED <<holder, op>>
  /\ UNCHANGED <<born, tree, pulls, lost>>

\* ensure_branch_pushed, with the recovery of a deleted fork; not for a
\* withdrawal.
Push(r) ==
  /\ pc[r] = "pushing"
  /\ \/ Goto(r, "proposing") /\ UNCHANGED <<op, seen, answer, holder>>
     \/ op[r] # "close" /\ Return(r)
  /\ UNCHANGED <<born, row, tree, pulls, lost>>

\* _handle_pull_request: GitHub opens a pull request if there is none, or
\* none that can be revived; else it changes the one there is.  GitHub keeps
\* one open pull request of a branch and refuses a second one.
NextPull == CHOOSE n \in 1..MaxPulls : pulls[n] = "none"

AloneOpen(n) == \A m \in 1..MaxPulls \ {n} : pulls[m] # "open"

OpenPull(r) ==
  /\ \E n \in 1..MaxPulls : pulls[n] = "none"
  /\ AloneOpen(NextPull)
  /\ LET n == seen[r].pr
     IN \/ n = 0 /\ pulls' = [pulls EXCEPT ![NextPull] = "open"]
        \/ n # 0 /\ pulls[n] = "detached" /\ pulls' = [pulls EXCEPT ![NextPull] = "open"]
        \/ \* refused as unreopenable: GitHub never opens it again
           /\ n # 0 /\ pulls[n] \in {"closed", "merged"} /\ op[r] = "open"
           /\ pulls' = [pulls EXCEPT ![NextPull] = "open",
                                     ![n] = IF @ = "merged" THEN @ ELSE "detached"]

ChangePull(r) ==
  LET n == seen[r].pr
      state == CASE op[r] = "open" -> "open" [] op[r] = "close" -> "closed" [] OTHER -> pulls[n]
  IN /\ n # 0 /\ pulls[n] \notin {"detached", "none"}
     /\ IF pulls[n] = "merged"
        THEN op[r] # "open" /\ UNCHANGED pulls
        ELSE /\ state = "open" => AloneOpen(n)
             /\ pulls' = [pulls EXCEPT ![n] = state]

\* GitHub's answer arrives: it is about pull request n.
Answered(r, n) ==
  /\ seen' = [seen EXCEPT ![r].pr = n]
  /\ answer' = [answer EXCEPT ![r] = pulls'[n]]
  /\ Goto(r, "proposed")
  /\ UNCHANGED <<op, holder, lost>>

\* The call fails, or its answer does not arrive although GitHub has opened
\* the pull requests ns.
Unanswered(r, ns) == Return(r) /\ lost' = lost \cup ns

\* handle_pull_request: the GET of the pull request and the PATCH or POST that
\* follows from it are one step, for whatever GitHub does between them ends as one
\* of these disjuncts, too.
HandlePullRequest(r) ==
  /\ pc[r] = "proposing"
  /\ \/ OpenPull(r) /\ (Answered(r, NextPull) \/ Unanswered(r, {NextPull}))
     \/ ChangePull(r) /\ (Answered(r, seen[r].pr) \/ Unanswered(r, {}))
     \/ Unanswered(r, {}) /\ UNCHANGED pulls
  /\ UNCHANGED <<born, row, tree>>

\* What GitHub has opened for the requests rs and the row does not know yet.
Unrecorded(rs) == {seen[r].pr : r \in {q \in rs : pc[q] = "proposed"}} \ {row.pr}

\* Record the number and the state; opening or reopening reactivates.  The
\* number is in seen[r] already, so the row's own is what may differ.  The
\* commit may fail.
CommitProposal(r) ==
  /\ pc[r] = "proposed"
  /\ \/ /\ LET w == IF op[r] = "open" THEN Activated(seen[r]) ELSE seen[r]
           IN Flush([seen[r] EXCEPT !.pr = row.pr], Applied(w, answer[r]))
        /\ UNCHANGED lost
     \/ UNCHANGED row /\ lost' = lost \cup Unrecorded({r})
  /\ Return(r)
  /\ UNCHANGED <<born, tree, pulls>>

-----------------------------------------------------------------------------
(* The server dies and starts again: no request goes on, what is in the    *)
(* database, on disk (a clone that was under way) and on GitHub stays.     *)

Die ==
  /\ \E r \in Requests : pc[r] # "idle"
  /\ tree' \in IF \E r \in Requests : pc[r] = "cloning" THEN BOOLEAN ELSE {tree}
  /\ lost' = lost \cup Unrecorded(Requests)
  /\ pc' = [a \in Actors |-> IF a \in Requests THEN "idle" ELSE pc[a]]
  /\ op' = [r \in Requests |-> "refresh"]
  /\ seen' = [a \in Actors |-> IF a \in Requests THEN NoRow ELSE seen[a]]
  /\ answer' = [a \in Actors |-> IF a \in Requests THEN "none" ELSE answer[a]]
  /\ holder' = IF holder \in Requests THEN Nobody ELSE holder
  /\ UNCHANGED <<born, row, pulls>>

-----------------------------------------------------------------------------
(* check_pr_status.py *)

CheckLoad ==
  /\ "check" \in Scripts /\ pc["check"] = "idle"
  /\ row.exists /\ row.pr # 0
  /\ seen' = [seen EXCEPT !["check"] = row]
  /\ Goto("check", "asking")
  /\ UNCHANGED <<born, row, tree, pulls, holder, op, answer, lost>>

CheckFetch ==
  /\ "check" \in Scripts /\ pc["check"] = "asking"
  /\ answer' = [answer EXCEPT !["check"] = pulls[seen["check"].pr]]
  /\ Goto("check", "answered")
  /\ UNCHANGED <<born, row, tree, pulls, holder, op, seen, lost>>

CheckFails ==
  /\ "check" \in Scripts /\ pc["check"] = "asking"
  /\ Return("check")
  /\ UNCHANGED <<born, row, tree, pulls, lost>>

\* Mutant: the status of the workspace is left alone.
IdleChecked(w, pull) ==
  [w EXCEPT !.prStatus = CASE pull = "open" -> "OPEN" [] pull = "detached" -> "UNKNOWN"
                           [] pull = "merged" -> "MERGED" [] OTHER -> "CLOSED"]

\* As in the server, but a pull request that is found open again reactivates.
Checked(w, pull) ==
  IF pull = "open" /\ w.prStatus # "OPEN" /\ w.status = "ARCHIVED"
  THEN Activated(Applied(w, pull))
  ELSE Applied(w, pull)

CheckApply ==
  /\ "check" \in Scripts /\ pc["check"] = "answered"
  /\ Flush(seen["check"], Checked(seen["check"], answer["check"]))
  /\ Return("check")
  /\ UNCHANGED <<born, tree, pulls, lost>>

-----------------------------------------------------------------------------
(* cleanup_archived_workspaces.py *)

\* Mutant: the comparison with the cutoff is the wrong way round.
EarlyCleanupSelect ==
  /\ "cleanup" \in Scripts /\ pc["cleanup"] = "idle"
  /\ row.exists /\ row.status = "ARCHIVED" /\ row.archivedAt = "recent"
  /\ Goto("cleanup", "queued")
  /\ UNCHANGED <<born, row, tree, pulls, holder, op, seen, answer, lost>>

\* The workspaces archived a month ago, all selected before the first one is
\* deleted.
CleanupSelect ==
  /\ "cleanup" \in Scripts /\ pc["cleanup"] = "idle"
  /\ row.exists /\ row.status = "ARCHIVED" /\ row.archivedAt = "old"
  /\ Goto("cleanup", "queued")
  /\ UNCHANGED <<born, row, tree, pulls, holder, op, seen, answer, lost>>

CleanupLock ==
  /\ "cleanup" \in Scripts
  /\ Enter("cleanup")
  /\ Goto("cleanup", "removing")
  /\ UNCHANGED <<born, row, tree, pulls, op, seen, answer, lost>>

\* The server holds the lock for too long: skipped.
CleanupSkip ==
  /\ "cleanup" \in Scripts
  /\ pc["cleanup"] = "queued" /\ holder # Nobody
  /\ Return("cleanup")
  /\ UNCHANGED <<born, row, tree, pulls, lost>>

-----------------------------------------------------------------------------
(* GitHub and time, while the workspace is there *)

\* Somebody closes, merges or reopens a pull request, or deletes the fork.
GitHub ==
  /\ row.exists
  /\ \E n \in 1..MaxPulls :
       \/ pulls[n] = "open" /\ \E s \in {"closed", "merged", "detached"} : pulls' = [pulls EXCEPT ![n] = s]
       \/ pulls[n] = "closed" /\ pulls' = [pulls EXCEPT ![n] = "detached"]
       \/ pulls[n] = "closed" /\ AloneOpen(n) /\ pulls' = [pulls EXCEPT ![n] = "open"]
  /\ UNCHANGED <<born, row, tree, holder, pc, op, seen, answer, lost>>

\* A month passes.  No request and no script takes that long.
Age ==
  /\ row.archivedAt = "recent"
  /\ \A a \in Actors : pc[a] = "idle"
  /\ row' = [row EXCEPT !.archivedAt = "old"]
  /\ UNCHANGED <<born, tree, pulls, holder, pc, op, seen, answer, lost>>

Check == CheckLoad \/ CheckFetch \/ CheckFails \/ CheckApply
Cleanup == CleanupSelect \/ CleanupLock \/ CleanupSkip

Request(r) ==
  \/ Clone(r) \/ Answer(r) \/ Refresh(r) \/ Reactivate(r)
  \/ StartEdit(r) \/ EndEdit(r) \/ StartDelete(r)
  \/ StartPropose(r) \/ RefusePropose(r) \/ RefreshInPropose(r) \/ Push(r)
  \/ HandlePullRequest(r) \/ CommitProposal(r)

Next ==
  \/ \E r \in Requests :
       \/ Create(r) \/ Ask(r) \/ UpdateStatus(r)
       \/ \E o \in {"edit", "delete"} \cup Proposals : Queue(r, o)
       \/ Request(r)
  \/ \E a \in Actors \ {"check"} : RemoveTree(a) \/ DeletionFails(a) \/ DeleteRow(a)
  \/ Check
  \/ Cleanup
  \/ Die
  \/ GitHub
  \/ Age

\* The server works on every request, GitHub answers or the call times out.
\* The scripts run every day: GitHub answers on some of the days, on some the
\* lock is free and the deletion succeeds.
Fairness ==
  /\ \A r \in Requests :
       WF_vars(Request(r) \/ RemoveTree(r) \/ DeletionFails(r) \/ DeleteRow(r))
  /\ WF_vars(CheckLoad) /\ SF_vars(CheckFetch) /\ WF_vars(CheckApply)
  /\ SF_vars(CleanupSelect /\ holder = Nobody) /\ SF_vars(CleanupLock)
  /\ \A a \in Scripts \ {"check"} : SF_vars(RemoveTree(a)) /\ SF_vars(DeleteRow(a))

Spec == Init /\ [][Next]_vars
FairSpec == Spec /\ Fairness

-----------------------------------------------------------------------------
(* The invariant *)

\* The phases in which a database session holds a loaded object.
Loaded == {"asking", "answered", "pushing", "proposing", "proposed"}

\* a is inside a proposal: its request has the lock from its first read on.
Proposing(a) == a \in Requests /\ op[a] \in Proposals /\ pc[a] \notin {"idle", "queued"}

\* Before the workspace is created nothing is there.
NothingBefore ==
  ~born => /\ row = NoRow /\ ~tree /\ holder = Nobody
           /\ \A n \in 1..MaxPulls : pulls[n] = "none"
           /\ \A a \in Actors : pc[a] = "idle"

\* Where a request stands is where its operation leads.
PhaseFits ==
  /\ \A r \in Requests :
       /\ pc[r] \in {"removing", "removed"} => op[r] = "delete"
       /\ pc[r] \in {"pushing", "proposing", "proposed"} => op[r] \in Proposals
  /\ "check" \in Scripts => pc["check"] \in {"idle", "asking", "answered"}
  /\ "cleanup" \in Scripts => pc["cleanup"] \in {"idle", "queued", "removing", "removed"}

\* Who is in a critical section has the lock.
LockIsHeld ==
  \A a \in Actors :
    pc[a] \in InLock \ {"asking", "answered"} \/ Proposing(a) => holder = a

\* The files never outlive the row that says whose they are, whichever step
\* of a deletion or of a creation fails.
NoOrphanTree ==
  tree => row.exists

\* Which of the row and the tree is there for whom.
DiskFits ==
  /\ NoOrphanTree
  /\ \A a \in Actors : pc[a] = "cloning" => row.exists
  /\ \A a \in Actors : pc[a] = "removed" => ~tree
  /\ \A r \in Requests : Proposing(r) => row.exists /\ tree

\* A deletion date exactly while it is archived.
Dated(w) == w.status = "ARCHIVED" <=> w.archivedAt # "none"

\* A loaded object may be stale, but not by a month.
ObjectsFit ==
  /\ Dated(row) /\ (row.exists \/ row = NoRow)
  /\ \A a \in Actors : pc[a] \in Loaded =>
       /\ seen[a].exists /\ Dated(seen[a])
       /\ row.archivedAt = "old" => seen[a].archivedAt = "old"
       /\ pc[a] \in {"asking", "proposed"} => seen[a].pr # 0

\* A pull request that is open, or may be reopened, is the row's, about to be
\* recorded, or lost.  The one of the row is given up before another is opened.
PullsFit ==
  /\ \A n \in 1..MaxPulls :
       row.exists /\ pulls[n] \in {"open", "closed"} =>
         \/ row.pr = n
         \/ \E r \in Requests : pc[r] = "proposed" /\ seen[r].pr = n
         \/ n \in lost
  /\ \A r \in Requests :
       /\ Proposing(r) /\ pc[r] # "proposed" => seen[r].pr = row.pr
       /\ pc[r] = "proposed" =>
            /\ op[r] = "open" => answer[r] = "open"
            /\ row.pr \in {0, seen[r].pr} \/ pulls[row.pr] \in {"detached", "merged"}

IInv ==
  TypeOK /\ NothingBefore /\ PhaseFits /\ LockIsHeld /\ DiskFits /\ ObjectsFit /\ PullsFit

-----------------------------------------------------------------------------
(* Properties *)

\* What every state satisfies, with models/workspace.py:79-86 and the cleanup's
\* query: a row has a deletion date exactly while it is archived, although a
\* commit of a stale object writes only the columns that were changed in it.
Consistent == IInv

\* A pull request that is open is the one of the row, or the transaction that
\* opened it is about to record it, or that was prevented by a lost answer, a
\* failed commit or the death of the server: no stale commit puts an older
\* number back.
OpenPullIsKnown ==
  \A n \in 1..MaxPulls :
    row.exists /\ pulls[n] = "open" =>
      \/ row.pr = n
      \/ \E r \in Requests : pc[r] = "proposed" /\ seen[r].pr = n
      \/ n \in lost

\* workspace_service.py:600-601: a deletion waits for a transaction that is
\* in flight.  From its first read to its commit, propose has the row and the
\* tree, whoever deletes the workspace.
ProposalHasWorkspace ==
  \A r \in Requests :
    op[r] \in Proposals /\ pc[r] \notin {"idle", "queued"} => row.exists /\ tree

\* workspace_service.py:424: the deletion date of a workspace that stays
\* archived is not put off.
DeletionDateKept ==
  [][row.archivedAt = "old" => row'.archivedAt # "recent"]_vars

\* The state of the row's pull request on GitHub.
Pull == IF row.pr = 0 THEN "none" ELSE pulls[row.pr]

\* check_pr_status.py: a workspace with a pull request that is closed or
\* merged, and stays so, is archived at some time, whatever stale answers are
\* applied.
ClosedIsArchived ==
  row.exists /\ Pull \in {"closed", "merged"}
  ~> ~row.exists \/ row.status = "ARCHIVED" \/ Pull \notin {"closed", "merged"}

\* cleanup_archived_workspaces.py: an archived workspace past its date is
\* deleted, unless it is reactivated first.
DueIsDeleted ==
  row.exists /\ row.archivedAt = "old" ~> ~row.exists \/ row.archivedAt # "old"

\* cleanup_archived_workspaces.py:5-7 "It deletes the workspace files from
\* disk and database records for workspaces where: status = ARCHIVED,
\* archived_at + 1 month <= current_time".
CleanupDeletesOnlyDue ==
  [][\A a \in Scripts \ {"check"} :
       pc[a] = "removing" /\ pc'[a] = "removed" =>
         row.status = "ARCHIVED" /\ row.archivedAt = "old"]_vars

\* README.md:345 "Reactivates workspaces if PRs are reopened".
ReopenedIsReactivated ==
  row.exists /\ row.status = "ARCHIVED" /\ row.prStatus = "CLOSED" /\ Pull = "open"
  ~> ~row.exists \/ row.status = "ACTIVE" \/ Pull # "open"
=============================================================================
