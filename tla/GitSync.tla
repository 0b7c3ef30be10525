------------------------------ MODULE GitSync -------------------------------
(* One workspace's clone, its branch on the user's fork, and the operations *)
(* that move work between them: the file operations and persist_changes of  *)
(* file_service.py, sync_git, with_remote_recovery and _repair_fork of      *)
(* workspace_service.py, push, sync_with_origin and ensure_branch_pushed of *)
(* git_service.py. Each operation holds the workspace lock from beginning   *)
(* to end (KeyedLocks), so at most one is under way; GitHub changes between *)
(* its awaits, every network call may fail before or after it took effect,  *)
(* and the server may die at any await.                                     *)
EXTENDS GitHistory

CONSTANTS
  MaxOutside,     \* bound: changes made on GitHub by others
  MaxChanges      \* bound: commits and changes by others, together

ASSUME OutsideAssumption == MaxOutside \in Nat /\ MaxChanges \in Nat

VARIABLES
  head,       \* the local branch
  index,      \* the staged tree
  work,       \* the files on disk
  track,      \* refs/remotes/origin/<branch>, or NoRef
  github,     \* what there is on GitHub: the branch, only the fork, or nothing
  origin,     \* the branch on the fork, <<>> when it is missing
  job,        \* the operation that holds the workspace lock, or NoJob
  report,     \* how the last operation ended, until anything else happens
  counts,     \* versions and commits made so far, and changes by others
  saved,      \* history: the last version the user gave each file
  published   \* history: the versions of each file the branch on GitHub had

localVars == <<head, index, work, track>>
remoteVars == <<github, origin, published>>
countVars == <<counts, saved>>
vars == <<head, index, work, track, github, origin, job, report, counts, saved, published>>

-----------------------------------------------------------------------------
(* Types.                                                                   *)

Tasks == {"persist", "sync", "ensure"}
Steps == {"push", "repair", "repush", "fetch", "restore", "deliver", "conclude", "last"}
SyncStatuses == {"up_to_date", "updated", "merged", "conflict", "dirty",
                 "remote_missing", "remote_restored"}
Answers == {"committed", "unsent", "conflict", "rejected", "unsynced",
            "synced", "ensured", "failed"}

\* restore: restore_branch of sync_with_origin. commit: the new commit and what
\* stands for it after a sync. retried: the fork was repaired. missed: a push
\* whose failure is ignored has failed.
NoJob == [task |-> "none", pc |-> "idle", restore |-> FALSE, commit |-> <<>>,
          status |-> "none", retried |-> FALSE, missed |-> FALSE]

NoReport == [answer |-> "none", commit |-> <<>>, status |-> "none", missed |-> FALSE]

TypeOK ==
  /\ head \in Branches /\ index \in Trees /\ work \in Trees
  /\ track \in Refs
  /\ github \in {"branch", "fork", "nothing"}
  /\ origin \in Branches
  /\ github # "branch" => origin = <<>>
  /\ job = NoJob \/ job \in [task : Tasks, pc : Steps, restore : BOOLEAN, commit : Branches,
                             status : SyncStatuses \union {"none"},
                             retried : BOOLEAN, missed : BOOLEAN]
  /\ report = NoReport \/ report \in [answer : Answers, commit : Branches,
                                      status : SyncStatuses \union {"none"}, missed : BOOLEAN]
  /\ counts \in [versions : 0..MaxVersion, commits : 0..MaxCommits, outside : 0..MaxOutside]
  /\ saved \in [Files -> Versions]
  /\ published \in [Files -> SUBSET Versions]

\* A workspace that was just created: clone_repository has branched off the
\* upstream commit, pushed the branch and fetched it back.
Init ==
  /\ head = <<>> /\ index = UpstreamTree /\ work = UpstreamTree
  /\ track = Moved(NoRef, <<>>)
  /\ github = "branch" /\ origin = <<>> /\ published = [f \in Files |-> {0}]
  /\ job = NoJob /\ report = NoReport
  /\ counts = [versions |-> 0, commits |-> 0, outside |-> 0]
  /\ saved = UpstreamTree

\* Mutant: the check looks at what is staged only.
StagedClean == index = TreeOf(head)

\* repo.status() reports nothing
Clean == index = TreeOf(head) /\ work = index

-----------------------------------------------------------------------------
(* The user edits files: one transaction each, without an await that leaves *)
(* the lock. S is a file, the two paths of a rename, or a folder's files.   *)

Idle == job = NoJob

NextVersion == counts.versions + 1

Written(tree, S, n) == [f \in Files |-> IF f \in S THEN n ELSE tree[f]]

\* create, store_file_content, delete, _update_file_name: the files change on
\* disk, then in the index.
Edit(S) ==
  /\ Idle /\ NextVersion \in Versions
  /\ work' = Written(work, S, NextVersion)
  /\ index' = Written(index, S, NextVersion)
  /\ saved' = Written(saved, S, NextVersion)
  /\ counts' = [counts EXCEPT !.versions = @ + 1]
  /\ report' = NoReport
  /\ UNCHANGED <<head, track, github, origin, published, job>>

\* The same, when the index cannot be written: the files stay changed on disk.
EditUnstaged(S) ==
  /\ Idle /\ NextVersion \in Versions
  /\ work' = Written(work, S, NextVersion)
  /\ saved' = Written(saved, S, NextVersion)
  /\ counts' = [counts EXCEPT !.versions = @ + 1]
  /\ report' = NoReport
  /\ UNCHANGED <<head, index, track, github, origin, published, job>>

\* revert_file_changes: the paths are as in HEAD again, staged and on disk.
Revert(S) ==
  /\ Idle
  /\ \E f \in S : index[f] # TreeOf(head)[f] \/ work[f] # TreeOf(head)[f]
  /\ work' = [f \in Files |-> IF f \in S THEN TreeOf(head)[f] ELSE work[f]]
  /\ index' = [f \in Files |-> IF f \in S THEN TreeOf(head)[f] ELSE index[f]]
  /\ saved' = [f \in Files |-> IF f \in S THEN TreeOf(head)[f] ELSE saved[f]]
  /\ report' = NoReport
  /\ UNCHANGED <<head, track, github, origin, published, job, counts>>

-----------------------------------------------------------------------------
(* Operations begin, move on and end.                                       *)

Begin(task, pc, restore, commit) ==
  /\ job' = [NoJob EXCEPT !.task = task, !.pc = pc, !.restore = restore, !.commit = commit]
  /\ report' = NoReport

GoTo(pc) == job' = [job EXCEPT !.pc = pc] /\ UNCHANGED report

Answer(answer) ==
  /\ job' = NoJob
  /\ report' = [answer |-> answer, commit |-> job.commit, status |-> job.status,
                missed |-> job.missed]

\* _revert_commit: a soft reset to the parent, unless HEAD is another commit.
RevertCommit ==
  /\ head' = IF head = job.commit /\ head # <<>> THEN SubSeq(head, 1, Len(head) - 1) ELSE head
  /\ UNCHANGED <<index, work>>

\* persist_changes: the index becomes a commit, even when nothing is staged.
BeginPersist ==
  /\ Idle /\ counts.commits < MaxCommits /\ counts.commits + counts.outside < MaxChanges
  /\ head' = Append(head, [src |-> counts.commits + 1, tree |-> index])
  /\ counts' = [counts EXCEPT !.commits = @ + 1]
  /\ Begin("persist", "push", TRUE, head')
  /\ UNCHANGED <<index, work, track, github, origin, published, saved>>

\* sync_git. restore is _can_restore_branch as it was before the lock.
BeginSync(restore) ==
  /\ Idle
  /\ Begin("sync", "fetch", restore, <<>>)
  /\ UNCHANGED <<localVars, remoteVars, countVars>>

\* propose: ensure_branch_pushed
BeginEnsure ==
  /\ Idle
  /\ Begin("ensure", "fetch", FALSE, <<>>)
  /\ UNCHANGED <<localVars, remoteVars, countVars>>

\* persist_changes has turned to the sync that recovers from a failed push.
Recovering == job.task = "persist" /\ job.pc \in {"fetch", "restore"}

\* A RemoteAccessError leaves the operation with_remote_recovery runs. During
\* persist_changes' own recovery it undoes the commit instead.
RemoteAccessError ==
  IF Recovering THEN RevertCommit /\ Answer("unsynced")
  ELSE /\ UNCHANGED <<head, index, work>>
       /\ IF ~job.retried THEN GoTo("repair")
          ELSE IF job.task = "persist" THEN GoTo("fetch") ELSE Answer("failed")

\* Any other error leaves it: persist_changes goes on to its recovery.
OtherError ==
  /\ UNCHANGED <<head, index, work>>
  /\ IF job.task = "persist" THEN GoTo("fetch") ELSE Answer("failed")

-----------------------------------------------------------------------------
(* Pushes. A push that is sent takes effect and is confirmed, takes effect  *)
(* but the answer is lost, or fails. The first also moves origin/<branch>.  *)

\* Nothing is pushed to a branch that is not an ancestor of HEAD.
FastForward == github = "fork" \/ Reaches(head, origin)

\* LeasedPushCredentials: the branch is where it was last fetched, or at HEAD.
Leased == IF github = "branch" THEN (track # NoRef /\ origin = track.tip) \/ origin = head
          ELSE track = NoRef

\* Mutant: a push does not look for commits that GitHub dropped.
UncheckedRefused == FALSE

\* push, without set_upstream: refused when HEAD holds dropped commits.
Refused == track # NoRef /\ Rewritten(head, track)

Landed ==
  /\ github' = "branch" /\ origin' = head
  /\ published' = [f \in Files |-> published[f] \union VersionsOf(head, f)]

Confirmed ==
  /\ Landed
  /\ track' = Moved(track, head)

Lost ==
  /\ Landed
  /\ UNCHANGED track

Failed == UNCHANGED <<track, remoteVars>>

LeasedPush == github # "nothing" /\ ~Refused /\ FastForward /\ Leased
UpstreamPush == github # "nothing" /\ FastForward

\* The push of persist_changes and of ensure_branch_pushed.
Push ==
  /\ job.pc = "push"
  /\ \/ /\ LeasedPush /\ Confirmed
        /\ Answer(IF job.task = "persist" THEN "committed" ELSE "ensured")
        /\ UNCHANGED <<head, index, work>>
     \/ /\ LeasedPush /\ Lost
        /\ RemoteAccessError
     \/ /\ ~Refused /\ Failed
        /\ RemoteAccessError
     \/ /\ Refused /\ Failed
        /\ OtherError
  /\ UNCHANGED countVars

\* sync_with_origin's push of what it found or replayed: errors are ignored.
Deliver ==
  /\ job.pc = "deliver"
  /\ \/ LeasedPush /\ Confirmed /\ GoTo("conclude")
     \/ /\ Failed \/ (LeasedPush /\ Lost)
        /\ job' = [job EXCEPT !.pc = "conclude", !.missed = TRUE]
        /\ UNCHANGED report
  /\ UNCHANGED <<head, index, work, countVars>>

\* persist_changes pushes once more after a sync that replayed its commit.
LastPush ==
  /\ job.pc = "last" /\ job.task = "persist"
  /\ \/ LeasedPush /\ Confirmed /\ Answer("committed")
     \/ (Failed \/ (LeasedPush /\ Lost)) /\ Answer("unsent")
  /\ UNCHANGED <<head, index, work, countVars>>

\* The push that brings back a missing branch, in one step with the fetch that
\* follows it (which may fail after the push was confirmed).
Restore ==
  /\ job.pc = "restore"
  /\ \/ /\ UpstreamPush /\ Confirmed
        /\ IF job.task = "ensure" THEN Answer("ensured")
           ELSE /\ job' = [job EXCEPT !.pc = "conclude", !.status = "remote_restored"]
                /\ UNCHANGED report
        /\ UNCHANGED <<head, index, work>>
     \/ /\ Failed \/ (UpstreamPush /\ (Confirmed \/ Lost))
        /\ RemoteAccessError
  /\ UNCHANGED countVars

-----------------------------------------------------------------------------
(* with_remote_recovery and _repair_fork.                                   *)

\* The fork is there, or GitHub does not answer, or the new fork is not ready
\* in time: the error goes to the caller. Else the fork is created anew.
Repair ==
  /\ job.pc = "repair"
  /\ \/ OtherError /\ UNCHANGED github
     \/ github = "nothing" /\ github' = "fork" /\ OtherError
     \/ /\ github = "nothing" /\ github' = "fork"
        /\ GoTo("repush") /\ UNCHANGED <<head, index, work>>
  /\ UNCHANGED <<track, origin, published, countVars>>

\* The new fork gets the branch, in one step with the fetch that follows, as above,
\* and the operation runs once more.
Repush ==
  /\ job.pc = "repush"
  /\ \/ /\ UpstreamPush /\ Confirmed
        /\ job' = [job EXCEPT !.pc = IF job.task = "persist" THEN "push" ELSE "fetch",
                              !.retried = TRUE]
        /\ UNCHANGED <<report, head, index, work>>
     \/ /\ Failed \/ (UpstreamPush /\ (Confirmed \/ Lost))
        /\ OtherError
  /\ UNCHANGED countVars

-----------------------------------------------------------------------------
(* sync_with_origin and ensure_branch_pushed.                               *)

\* origin.fetch with prune: a missing branch takes its reference along, and
\* the reflog with it.
Fetched == IF github = "branch" THEN Moved(track, origin) ELSE NoRef

FetchFails ==
  /\ job.pc = "fetch"
  /\ RemoteAccessError
  /\ UNCHANGED <<track, remoteVars, countVars>>

Settle(status) == /\ job' = [job EXCEPT !.pc = "conclude", !.status = status]
                  /\ UNCHANGED <<report, head, index, work>>

\* Mutant: a branch rewritten on GitHub is left as it is, local commits included.
HastyFetchToEnsure ==
  /\ job.pc = "fetch" /\ job.task = "ensure" /\ github # "nothing"
  /\ track' = Fetched
  /\ IF track' = NoRef THEN GoTo("restore")
     ELSE IF Unpushed(head, track') = <<>> \/ Rewritten(head, track') THEN Answer("ensured")
     ELSE GoTo("push")
  /\ UNCHANGED <<head, index, work, remoteVars, countVars>>

\* ensure_branch_pushed, after the fetch
FetchToEnsure ==
  /\ job.pc = "fetch" /\ job.task = "ensure" /\ github # "nothing"
  /\ track' = Fetched
  /\ IF track' = NoRef THEN GoTo("restore")
     ELSE IF Unpushed(head, track') = <<>> THEN Answer("ensured")
     ELSE GoTo("push")
  /\ UNCHANGED <<head, index, work, remoteVars, countVars>>

\* sync_with_origin, after the fetch: nothing to replay ...
FetchToSettle ==
  /\ job.pc = "fetch" /\ job.task # "ensure" /\ github # "nothing"
  /\ track' = Fetched
  /\ \/ track' = NoRef /\ ~job.restore /\ Settle("remote_missing")
     \/ track' = NoRef /\ job.restore /\ ~Clean /\ Settle("dirty")
     \/ /\ track' = NoRef /\ job.restore /\ Clean
        /\ GoTo("restore") /\ UNCHANGED <<head, index, work>>
     \/ track' # NoRef /\ ~Clean /\ Settle("dirty")
     \/ /\ track' # NoRef /\ Clean
        /\ Behind(head, track'.tip) = 0 /\ ~Rewritten(head, track')
        /\ IF Ahead(head, track'.tip) = 0 THEN Settle("up_to_date")
           ELSE /\ job' = [job EXCEPT !.pc = "deliver", !.status = "up_to_date"]
                /\ UNCHANGED <<report, head, index, work>>
  /\ UNCHANGED <<remoteVars, countVars>>

\* ... or the local commits are replayed onto the branch on GitHub.
FetchToReplay ==
  /\ job.pc = "fetch" /\ job.task # "ensure" /\ github # "nothing"
  /\ track' = Fetched
  /\ track' # NoRef /\ Clean
  /\ Behind(head, track'.tip) > 0 \/ Rewritten(head, track')
  /\ LET replay == Replay(head, EverOnOrigin(head, track'), track'.tip)
     IN  IF replay.conflicts # {} THEN Settle("conflict")
         ELSE /\ head' = replay.tip /\ index' = TreeOf(head') /\ work' = TreeOf(head')
              /\ job' = [job EXCEPT !.pc = IF head' = track'.tip THEN "conclude" ELSE "deliver",
                                    !.status = IF head' = track'.tip THEN "updated" ELSE "merged",
                                    !.commit = IF job.task = "persist" /\ ~Reaches(head', @)
                                               THEN head' ELSE @]
              /\ UNCHANGED report
  /\ UNCHANGED <<remoteVars, countVars>>

\* The replay itself fails: the clone is as before and the sync raises.
ReplayFails ==
  /\ job.pc = "fetch" /\ job.task # "ensure" /\ github # "nothing"
  /\ track' = Fetched
  /\ track' # NoRef /\ Clean
  /\ Behind(head, track'.tip) > 0 \/ Rewritten(head, track')
  /\ IF job.task = "persist" THEN RevertCommit /\ Answer("unsynced")
     ELSE UNCHANGED <<head, index, work>> /\ Answer("failed")
  /\ UNCHANGED <<remoteVars, countVars>>

\* Mutants: any branch will do; or only the tip of the branch is looked at.
TrustingIsCommitOnOrigin(commit) == track # NoRef
TipIsCommitOnOrigin(commit) == track # NoRef /\ commit = track.tip

\* is_commit_on_origin
IsCommitOnOrigin(commit) == track # NoRef /\ Reaches(track.tip, commit)

\* What sync_git answers, and what persist_changes makes of the sync.
Conclude ==
  /\ job.pc = "conclude"
  /\ IF job.task = "sync" THEN Answer("synced") /\ UNCHANGED <<head, index, work>>
     ELSE IF job.status = "merged" THEN GoTo("last") /\ UNCHANGED <<head, index, work>>
     ELSE IF job.status = "conflict" THEN RevertCommit /\ Answer("conflict")
     ELSE IF IsCommitOnOrigin(job.commit) THEN Answer("committed") /\ UNCHANGED <<head, index, work>>
     ELSE RevertCommit /\ Answer("rejected")
  /\ UNCHANGED <<track, remoteVars, countVars>>

\* The server dies, or an error that no handler expects ends the operation.
Die ==
  /\ ~Idle
  /\ job' = NoJob /\ report' = NoReport
  /\ UNCHANGED <<localVars, remoteVars, countVars>>

-----------------------------------------------------------------------------
(* GitHub, changed by others or by the user elsewhere. External.            *)

Outside ==
  /\ counts.outside < MaxOutside /\ counts.commits + counts.outside < MaxChanges
  /\ report' = NoReport
  /\ UNCHANGED <<localVars, job, saved>>

CountOutside == counts' = [counts EXCEPT !.outside = @ + 1]

SetOrigin(branch) ==
  /\ github' = "branch" /\ origin' = branch
  /\ published' = [f \in Files |-> published[f] \union VersionsOf(branch, f)]

\* Somebody commits on the branch.
OutsideCommit(f) ==
  /\ Outside /\ github = "branch"
  /\ NextVersion \in Versions /\ counts.commits < MaxCommits
  /\ SetOrigin(Append(origin, [src |-> counts.commits + 1,
                               tree |-> [TreeOf(origin) EXCEPT ![f] = NextVersion]]))
  /\ counts' = [versions |-> NextVersion, commits |-> counts.commits + 1,
                outside |-> counts.outside + 1]

\* Somebody rewrites the branch, which drops its latest commits.
DropCommits(n) ==
  /\ Outside /\ github = "branch" /\ n < Len(origin)
  /\ SetOrigin(SubSeq(origin, 1, n))
  /\ CountOutside

DeleteBranch ==
  /\ Outside /\ github = "branch"
  /\ github' = "fork" /\ origin' = <<>> /\ UNCHANGED published
  /\ CountOutside

\* Somebody pushes the branch again, with some of the commits it had.
RecreateBranch(branch) ==
  /\ Outside /\ github = "fork"
  /\ \A f \in Files : VersionsOf(branch, f) \subseteq published[f]
  /\ SetOrigin(branch)
  /\ CountOutside

DeleteFork ==
  /\ Outside /\ github # "nothing"
  /\ github' = "nothing" /\ origin' = <<>> /\ UNCHANGED published
  /\ CountOutside

RecreateFork ==
  /\ Outside /\ github = "nothing"
  /\ github' = "fork" /\ UNCHANGED <<origin, published>>
  /\ CountOutside

-----------------------------------------------------------------------------
Edits ==
  \/ \E S \in SUBSET Files \ {{}} : Edit(S) \/ EditUnstaged(S) \/ Revert(S)

Begins == BeginPersist \/ BeginEnsure \/ \E restore \in BOOLEAN : BeginSync(restore)

ServerPush == Push \/ Deliver \/ LastPush

Service ==
  \/ ServerPush \/ Restore \/ Repair \/ Repush
  \/ FetchFails \/ FetchToEnsure \/ FetchToSettle \/ FetchToReplay \/ ReplayFails
  \/ Conclude \/ Die

GitHub ==
  \/ \E f \in Files : OutsideCommit(f)
  \/ \E n \in 0..MaxCommits : DropCommits(n)
  \/ \E branch \in Prefixes(track.tip) \union Prefixes(head) : RecreateBranch(branch)
  \/ DeleteBranch \/ DeleteFork \/ RecreateFork

Next == Edits \/ Begins \/ Service \/ GitHub

Spec == Init /\ [][Next]_vars

-----------------------------------------------------------------------------
(* The inductive invariant.                                                 *)

\* The branches the clone and GitHub hold or have held since the last prune.
Tips == {head, origin, track.tip} \union track.seen

\* Each commit has one place in them all: only what the fork branch never had
\* is replayed. The files' versions rise along them.
HistoriesFit ==
  /\ \A a, b \in Tips : SamePlace(a, b)
  /\ \A a \in Tips : Rising(a) /\ Srcs(a) \subseteq 1..counts.commits
  /\ \A a \in Tips, f \in Files : VersionsOf(a, f) \subseteq 0..counts.versions

\* What is staged is never older than what is committed.
StagedIsNewer ==
  \A f \in Files : TreeOf(head)[f] <= index[f] /\ index[f] <= counts.versions

\* The reflog holds the tip, and nothing that GitHub did not have.
SeenIsPublished ==
  /\ track = NoRef \/ track.tip \in track.seen
  /\ \A tip \in {origin, track.tip} \union track.seen, f \in Files :
       VersionsOf(tip, f) \subseteq published[f]

\* GitHub has had all of HEAD, as far as it was heard of.
Sent == track # NoRef /\ Unpushed(head, track) = <<>>

\* The commit that is being persisted stays the tip of HEAD, and staged, until a
\* sync has replayed it.
CommitFits ==
  job.task = "persist" =>
    /\ Reaches(head, job.commit)
    /\ job.status \notin {"updated", "merged"} =>
         job.commit # <<>> /\ head = job.commit /\ index = TreeOf(head)

\* How far an operation is when it has fetched.
PhaseFits ==
  /\ job # NoJob => report = NoReport
  /\ job.pc \in {"push", "repair", "repush", "fetch", "restore"} => job.status = "none"
  /\ job.pc = "push" => job.task # "sync"
  /\ job.pc \in {"deliver", "conclude", "last"} => job.task # "ensure"
  /\ job.pc = "deliver" => job.status \in {"up_to_date", "merged"}
  /\ job.pc = "conclude" =>
       /\ job.status \in SyncStatuses
       /\ job.status = "updated" => track # NoRef /\ head = track.tip
       /\ job.status = "conflict" /\ job.task = "persist" => ~Reaches(track.tip, job.commit)
       /\ job.status \in {"up_to_date", "updated", "merged", "remote_restored"} /\ ~job.missed
            => Sent

\* The last version the user gave a file stays on disk until GitHub has had it:
\* no sync, failed commit, repair, crash or rewrite on GitHub overwrites work
\* that exists nowhere else (git_service.py:366-369, 410, file_service.py:632).
UnsentWorkIsKept ==
  \A f \in Files :
    saved[f] \notin published[f] => work[f] = saved[f]

\* A commit that persist_changes reports as made is on the branch on GitHub, as
\* of the last answer from there, in whatever way it got there
\* (file_service.py:729-731, 745).
CommittedIsOnGitHub ==
  report.answer = "committed" => track # NoRef /\ Reaches(track.tip, report.commit)

\* A commit that it reports as refused is in neither branch, as far as GitHub
\* was heard of, and its changes are staged again: the next commit neither
\* sends them twice nor leaves them out (file_service.py:729-738).
RefusedIsUndone ==
  report.answer \in {"rejected", "conflict"} =>
    /\ ~Reaches(head, report.commit) /\ ~Reaches(track.tip, report.commit)
    /\ index = TreeOf(report.commit)

\* A sync or a proposal that succeeds leaves no commit behind that GitHub never
\* had, unless a push it may ignore failed (git_service.py:394, 400-404, 428-430,
\* 468-472).
NothingLeftBehind ==
  \/ report.answer = "ensured"
  \/ report.answer = "synced" /\ ~report.missed
       /\ report.status \in {"up_to_date", "updated", "merged", "remote_restored"}
  => Sent

\* No version of a file enters the branch on GitHub twice: a commit that was
\* applied although its push failed, was undone here and made again is found
\* there (git_service.py:354, file_service.py:729-731).
NoChangeTwice ==
  \A f \in Files : \A i, j \in 1..Len(origin) :
    LET Enters(n) == origin[n].tree[f] # TreeOf(SubSeq(origin, 1, n - 1))[f]
    IN  i < j /\ Enters(i) /\ Enters(j) => origin[i].tree[f] # origin[j].tree[f]

IInv ==
  /\ TypeOK /\ HistoriesFit /\ StagedIsNewer /\ SeenIsPublished /\ CommitFits /\ PhaseFits
  /\ UnsentWorkIsKept /\ CommittedIsOnGitHub /\ RefusedIsUndone /\ NothingLeftBehind

-----------------------------------------------------------------------------
(* What must hold, besides.                                                 *)

\* The types, NoChangeTwice, and why it holds: versions rise along a branch.
Consistent == IInv /\ NoChangeTwice

\* A push to the existing branch adds no commit that the reflog has seen there
\* before and the branch dropped since (git_service.py:257-263, 320-326).
NeverBringsBack ==
  [][ServerPush /\ github = "branch" /\ origin' # origin =>
       \A src \in Srcs(origin') \ Srcs(origin) : \A tip \in track.seen : src \notin Srcs(tip)]_vars
=============================================================================
