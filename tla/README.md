# Formal models of ceos-ard-server

TLA+ models of the concurrent parts of the server in this repository, checked
with TLC on small instances, with proofs for the TLA+ proof system (TLAPS) of
what matters most. Paths such as `app/utils/locks.py` are relative to the
repository. `PROJECT.json` maps every definition to the lines it models and
lists the runs, the mutants, the hazards, the findings and the theorems.

1. [The system](#1-the-system)
2. [The modules](#2-the-modules)
3. [What is checked](#3-what-is-checked)
4. [What is proved](#4-what-is-proved)
5. [Findings and notes](#5-findings-and-notes)
6. [What is not modelled](#6-what-is-not-modelled)
7. [Plan](#7-plan)

## 1. The system

The server is one FastAPI process with one asyncio event loop and one worker
(`README.md:225-228`), an SQLite database, a git clone per workspace, and
GitHub. Four scripts run from cron in processes of their own. Because there is
one event loop, code between two `await`s is atomic; everything hard happens
across an `await`, between the server and a script, or on GitHub.

| Component | State | Operations | What makes it correct |
| --- | --- | --- | --- |
| Keyed locks, `app/utils/locks.py` | `_locks`: an `asyncio.Lock` and a count per key; lock files | call, wait, cancel, leave; `run_exclusive` | exclusion per key, also against the cleanup script; entries live exactly as long as they are used; no wake-up is lost to a cancellation; no transaction is cut short by one |
| Event broker, `app/services/events_service.py` | queues per topic and per user, `_seq` | subscribe, unsubscribe, publish, close a user's connections | bounded queues, no event lost silently |
| Realtime gateway, `app/api/collab.py` | a handshake, a writer and a reader per connection | accept, forward, time out, close | nothing reaches who lost access or logged out; what is received has no gaps; queues do not leak |
| Sharing, `app/services/share_service.py` | collaborators, pending collaborators, share links | add, update, revoke, redeem, activate at login | events and access agree |
| Workspace lifecycle, `app/services/workspace_service.py` | the row, the clone, the pull request's number and state | create, read, refresh, update, reactivate, propose, delete | one open pull request, known to the row; archived means a deletion date; no clone without a row |
| Cron scripts, `scripts/` | a list read at the start | archive, reactivate, delete, revoke idle tokens | they act on what is true when they act |
| Sessions, `app/services/auth_service.py`, `token_refresh_service.py`, `app/utils/handle_oauth_callback.py` | provider tokens and `session_version` in the user's row, JWTs | log in, authenticate, renew, log out, revoke when idle | a logout is final; single-use refresh tokens are used once; a login stays |
| Git operations, `app/services/git_service.py`, `app/utils/git_utils.py` | HEAD, index, working tree, remote-tracking reference with its reflog, the fork | commit, push with a lease, fetch, replay, restore, repair the fork | no work is lost, nothing is committed twice, dropped commits stay dropped, reports are true |
| File operations, `app/services/file_service.py` | files on disk, the staged tree | create, store, delete, rename, revert, `persist_changes` | see git operations |
| Toolchains, `app/utils/toolchains.py` | folders with `.ready`, `_installs`, `_failures` | ensure, prepare, install, remove unused | one install per version at a time; whoever builds has a whole toolchain |
| Builds and previews, `app/services/build_service.py`, `preview_service.py` | `build/`, locks per workspace and per user | preview, download, read the preview | no deadlock; one build per user; readers see whole previews |
| Running commands, `app/utils/process.py`, `sandbox.py` | the semaphore of slots, the isolation, a cgroup and a process tree per call | run, run a build, run an install, set up | nothing of a program outlives its call; the verdict is right; every call ends |
| YAML cache, `app/utils/yaml_cache.py` | entries by path, modification time and size | load | a result belongs to the file's content |
| GitHub client, OAuth client | none | HTTP calls | part of the modules that await them |
| Workspace types, validation, HTTP layer, migrations | none | pure functions, parsing | the repository's tests |

How they interact: every request authenticates (Sessions, under
`refresh_locks`); requests that change a workspace run in `run_exclusive`,
i.e. under the workspace's keyed lock and its lock file, which the cleanup
script takes, too; they change the clone (git, files), the row (lifecycle,
sharing) and publish events (broker), which the gateway forwards; saves and
clones start installs (toolchains), for which builds wait; both run programs
(running commands). A logout signals
the user's connections, a revocation or deletion publishes the event that
closes a connection.

What is hard to test here, and listed line by line under "hazards":

* rows and session objects read before an `await` and written after it;
* cancellation of a task at any `await`, which the locks, the gateway, the
  installs and the builds must survive;
* GitHub changing between two calls, applying a call whose answer is lost, or
  not answering;
* the scripts, which see the database and the lock files, but none of the
  server's asyncio locks;
* programs that fork, leave their process group, write too much or never end;
* a server that dies between two steps and finds on disk what it left;
* queues, caps and caches at their limits.

## 2. The modules

| Module | Models | On top of |
| --- | --- | --- |
| `FifoMutex` | abstract: a FIFO mutex per key | |
| `KeyedLocks` | `KeyedLocks.__call__` with `asyncio.Lock` | implements `FifoMutex` |
| `EventBroker` | `EventBroker` | |
| `EventGateway` | `collab.py`, with access and logout | extends `EventBroker` |
| `WorkspaceLock` | `run_exclusive` and the two ways to delete a workspace: flock, lock file, shield | an asyncio lock as in `FifoMutex` |
| `WorkspaceLifecycle` | one workspace, requests, two scripts, its pull requests | a lock as in `FifoMutex`, which `WorkspaceLock` shows to exclude the script |
| `Session` | one user's tokens, requests, login, logout, idle script | a lock as in `FifoMutex` |
| `GitHistory` | operators on linear histories: what is unpushed, what a replay makes | |
| `GitSync` | one clone, its branch on the fork, file operations, sync, commit, propose | extends `GitHistory` |
| `Toolchains` | `Toolchains`, as operators and install steps | |
| `Builds` | previews, downloads, reads | extends `Toolchains`; its locks are lines as in `FifoMutex` |
| `Commands` | `run`, `run_build`, `run_limited`, `setup`, the programs and the kernel | what `Builds` takes for one step, from the slot to the verdict |
| `KeyedLocksProofs`, `WorkspaceLockProofs`, `EventGatewayProofs`, `WorkspaceLifecycleProofs`, `SessionProofs`, `GitSyncProofs`, `BuildsProofs`, `CommandsProofs` | theorems | the modules they are named after |
| `MC*` | constants for TLC | |

The conventions are the same everywhere. An action is what a task does
between two `await`s, or one step of a script or of GitHub; a variable `pc`,
`state`, `job` or `req` says at which `await` a task stands. Inputs are chosen
with `\E`. A network call is two or three actions: it is sent, takes effect
(or not), and the answer arrives (or not). Locals that outlive an `await` are
variables of their own: `seen[a]` is the row as the session of `a` loaded it,
however old it is. A variable marked *history* exists only for a property.
Operators whose comment says *Mutant* are faulty versions of the next
definition; no specification uses them, `PROJECT.json` pairs each with the
property that must find it.

**KeyedLocks.** `lockOf` and `users` are the dictionary `_locks`, `locked` and
`waiters` the fields of the `asyncio.Lock` objects, `state`, `key` and `lock`
the tasks' positions and locals. `CallAndAcquire` and `CallAndWait` are the
code up to the `await`, `Resume` the woken waiter, `Exit` the end of the body,
`Cancel` a cancellation and `Unwind` what the cancelled task does when it
runs. A cancellation hits a queued waiter and, which is the case that is easy
to get wrong, one that was woken already. `FifoMutex` knows no deques: per key
it has who is inside, who waits, and for each who waits those that came before
and still wait. The refinement mapping reads that off the tasks' states and the
order of the deque (`ownerBar`, `lineBar`, `aheadBar`); a cancelled task that
has not unwound yet is in the deque, but no longer in line.

**EventBroker, EventGateway.** `streams` and `byUser` are the two registries,
`queue` the bounded queues, `log` the events published so far. `pc` follows
`_serve` through authentication, acceptance, the writer's loop (`TopOfLoop`,
`Timeout`, `TakeSignal`, `TakeEvent`, `Sent`) and `Finish`. `Logout`,
`AddCollaborator`, `RedeemShare`, `RevokeCollaborator`, `BeginDelete`/`FinishDelete` and the other publishers
are the whole handlers as far as access, sessions and events go. `Put`
contains the overflow: a full queue is drained and gets `FORCE_RESYNC`.

**WorkspaceLock.** `owner` and `line` are the asyncio lock, `holder` and
`exists` the flock of the lock file and the file, `orphaned` those who hold the
flock of a file that is unlinked: nobody else can see that lock. `Ask`, `Enter`
and `Lock` get in; `Begin` to `CommitFails` are a change of the tree, or
`delete_workspace` and the loop of the cleanup script; `Leave` and `Unlink` get
out. filelock may unlink the file at the path when it releases, and checks after
locking that the file is still the one at the path, so `Lock` is one step.
`Cancel` is a cancelled request, whose transaction goes on, `Dies` the end of a
process, whose flocks the kernel gives back.

**WorkspaceLifecycle.** `row` is the workspace's row, `tree` its clone,
`pulls` GitHub's pull requests, `holder` the workspace lock. `Flush(old, new)`
is a commit of a stale object: it writes only the columns that differ from
what was loaded. `Ask`/`Answer`/`Refresh` are `sync_workspace`, `StartPropose`
to `CommitProposal` `propose` in its variants, `StartDelete`, `RemoveTree`,
`DeleteRow` and `DeletionFails` the deletion by a request or by the cleanup,
`Check*` and `Cleanup*` the scripts, `GitHub` and `Age` people and time. GitHub
keeps one open pull request of a branch (`AloneOpen`). Its answer may be lost
(`Unanswered`), the commit may fail and the server may die (`Die`); the history
variable `lost` remembers the pull requests whose opening was not recorded.

**Session.** `row` has the token columns and the session version, `alive`,
`stale` and `issued` are the provider's view, `seen[a]` the user object of a
request. Renewal is `StartRenewal`, `ProviderRenews` or `RenewalFails`, and
`Store`, which differs between GitHub, whose row is read again first, and
Google. Logout and the idle script share `Rotate`, `Revoke` and the clearing.

**GitHistory, GitSync.** A commit is the file versions it contains together
with the identity of the change, a branch a sequence of commits. `head`,
`index`, `work` and `track` are the clone, where `track.seen` is what the
reflog of the remote-tracking reference still knows; `origin` and `github`
are the fork. `job` is the operation inside the workspace lock and `report`
its answer. `Push` sends with a lease on what `track` says; `Deliver` brings
the answer, or does not, or the fork is gone and `Repair` and `Repush` run.
`FetchToEnsure`, `FetchToSettle`, `FetchToReplay` and `ReplayFails` are what a
fetch leads to. `Conclude` is the end of `persist_changes`: is the commit on
GitHub after all, or is it undone and staged again? `Die` keeps what is on
disk and forgets the job.

**Toolchains, Builds.** `folder` and `fresh` are on disk, `installs`, `stage`
and `failures` in memory. The first name in `installs` holds the lock of
installs; between the end of its task and the callback `_finished` it is still
there (`stage` is `installed` or `failed`), as in the code. A request goes
through `preparing`, `build_lock`, `user_lock`, `ensuring` and `slot`; each
lock is the line of those that asked for it, holder first. Where the code
takes a free lock without yielding, the model has a step of its own: that adds
interleavings and takes none away. `ChangeVersion` is a save or a sync, which
prepares the new toolchain, `DriftVersion` a change that nothing prepares.
`Restart` removes what no workspace asks for and prepares what the active ones
ask for, which may be any of them; of the half installed ones, those that
stopped before they looked like a toolchain stay.

**Commands.** `call[c]` is a call of `run_build` or `run_limited`: where its
coroutine waits (`at`), how far `run` is (`run`, a task of its own for a build),
how it ended, what the caller is told, and whether its cgroup is there and a
thread removes it. The history field `early` says that the last look at its
output began before `run` was done, `late` that the output grew too large after
that look had read the folder, `cut` that `run` was cancelled where that skips
the kill. `prog[c]` is the program: the process `run` started, one of
its process group and one that left it, its exit code, whether it wrote too much
or the kernel killed it for its memory. `Forks`, `Exits`, `WritesTooMuch` and
`OutOfMemory` are the program's and the kernel's, `Starts` to `Discarded` the
lines of `run`, `GetsSlot` to `HasRemoved` those of its callers. `Cancel` hits
any await; `Crash` and `Setup` are the end and the start of the server.
`isolation` is what `setup` found and allowed, fixed for a behaviour.

## 3. What is checked

`tlc -workers 2 -config <cfg> <module>`; no run takes three minutes on
two workers. Every property of a passing run has a mutant, i.e. a plausible bug
in the modelled code that makes TLC report it (`Consistent` of `Session` has two,
one of them for `LoginKeepsTokens`, which is part of it). Modules have one invariant that
holds of every state by itself, `Consistent` or `IInv`: the types and what ties
the variables together, such as the line of a lock with the positions of those
who wait in it. It contains what the proofs of section 4 rest on, so TLC and the
provers speak of the same invariant.

| Run | Bounds | What it shows |
| --- | --- | --- |
| `locks` (`MCKeyedLocks`) | 4 tasks, 2 keys | Entries are exact; exclusion; no lost wake-up; `KeyedLocks` implements `FifoMutex`, whose fairness says that everyone who is not cancelled gets in. |
| `workspace_lock` (`MCWorkspaceLock`) | 3 requests, 2 runs of the script, 1 cancellation, 1 death | One transaction works on a tree at a time, although lock files are unlinked while others may have locked them; a cancelled request leaves nothing half done; every transaction ends. |
| `gateway` (`MCEventGateway`) | 1 connection, 2 users, queue of 1, 2 events | Registries are exact; what is received has no gaps; overflow is never silent; nothing published after a revocation or a logout arrives; a connection whose viewer lost access, whose token expired or whose session ended is closed. |
| `workspace_requests` (`MCWorkspaceLifecycle`) | 2 requests, 2 pull requests | An open pull request is the one the row knows, unless its answer, its commit or the server was lost; a proposal always has its workspace. |
| `workspace_scripts` (`MCWorkspaceFair`) | 1 request, both scripts, 1 pull request | Status and deletion date agree; no clone without a row; the date is not put off; closed ones are archived, due ones deleted. |
| `session` (`MCSession`) | 2 requests, 4 tokens, 2 logouts, both providers | A GitHub logout is final and leaves no token; a login stays; no refresh token is sent again once it was exchanged; the stored one works, and if GitHub spent it without an answer nobody is authenticated with it. |
| `gitsync` (`MCGitSync`) | 2 files, 2 new versions, 3 commits, 2 changes by others, 4 of both together | No unsent work is overwritten; `committed` and `rejected` are true; nothing is left behind, committed twice or brought back. |
| `builds` (`MCBuilds`) | 2 requests, 2 users, 1 workspace, 2 toolchains, 1 slot | Builds have a whole toolchain; previews are undisturbed; one slot per user; every request ends. |
| `commands` (`MCCommands`) | 2 builds or 1 install, 1 slot, 1 fork, 2 cancellations, 1 death, each isolation | Nothing of a program outlives its call; `run` kills the process group; too much output, if it is no longer written while it is looked at, is no success; every call ends and gives its slot back. |
| `workspace_stale_cleanup`, `workspace_reopened`, `session_google_logout` | as above | The three findings of section 5. |

Why the bounds are enough. The locks of different keys share only the
dictionary, so two keys show the interference; four tasks are a holder, a
woken waiter, a queued one and one that arrives. In `workspace_lock` three
requests and the script are one that deletes, one that has the file it
unlinks, one that creates the next file, and somebody in another process; the
second run of the script is the one that meets what the first one left.
Connections share only the registries and the log, which the proofs cover for
any number; one is enough for what one client receives, and two events are one
more than the queue holds, or a revocation and an event after it. (The run also
passes with a queue of two and three events.) Two requests
are a stale object and the one that makes it stale; two pull requests let one
replace another. Four tokens are a login, two renewals and the next login. In
`gitsync` two files tell a conflict from a merge, two versions an edit from an
edit of what was committed, three commits are one that
reached GitHub although its push was reported lost, the retry of it, and a
commit by somebody else in between; two changes by others are, e.g., a commit
and its removal, or a deleted branch that comes back. In `builds` two requests
are a holder and a waiter for each pair of locks, and two toolchains let a version change while
the other one is being installed; the answer "too many installs" needs three
and is the same to its caller as a failure. In `commands` calls share only the
slots: two builds and one slot are a holder and a waiter, and two cancellations
are one of a build and one of its cleaning up.

`MaxEvents`, `MaxPulls`, `MaxTokens`, `MaxLogouts`, `MaxVersion`, `MaxCommits`,
`MaxOutside`, `MaxChanges`, `MaxRuns`, `MaxCancels`, `MaxDeaths`, `MaxForks`
and `MaxCrashes` bound the models, not the code, and so does `Mixed`, which
keeps builds and installs apart; `QueueMax`, `MaxInstalls` and `Slots` are
limits of the code with small values. A run turns the deadlock
check off only where everything may come to rest: nothing more to log in,
propose, delete or run within the bounds. Symmetry is used in runs without
liveness properties only, on the requests and the files.

Fairness. Within the server it is the event loop's, which runs every task
that can run, together with the timeouts that every child process and HTTP
call has: weak fairness of a task's own steps (`KeyedLocks`, `EventGateway`,
`Builds`, `Commands`, `WorkspaceLock`, the requests of `WorkspaceLifecycle`).
Programs need not do anything: in `Commands` it is the timeout of `run`, the
five seconds of `_discard` and the 0.2 seconds of `run_build` that are fair. No
client is assumed to do
anything: a token expires by the timeout of the writer. The scripts are
started every day, so each of their steps is taken if it is possible again and
again: on some day GitHub answers, the lock is free and the removal succeeds,
hence strong fairness of those. `GitSync` and `Session` have no liveness
properties and state no fairness.

One assumption of `WorkspaceLock` is about the world: the script runs once a
day, far longer than a transaction may take, so no transaction is still under
way whose lock file an earlier run has unlinked (`Select`).

## 4. What is proved

TLAPS proves, for every value of the constants that satisfies the named
assumptions:

* `KeyedLocksProofs`: `Invariance`, `TypeCorrect`, `EntriesExact`, `Exclusion`,
  `WakeUpsKept`, and `Refinement`, i.e. every behaviour of `KeyedLocks` is one
  of `FifoMutex`, its fairness aside. Assumed: finitely many tasks, `NoLock` is
  no lock and `NoTask` no task. Exclusion alone is not inductive. `IInv` adds
  that a deque holds exactly the tasks that wait for its lock
  (`DequesAreExact`), that a lock is locked exactly if somebody is inside
  (`LockedIsHeld`), that only the first of a deque can be woken
  (`WokenIsFirst`), that the first one is awake whenever the lock is free
  (`FirstIsAwake`) and that no lock serves two keys (`LocksApart`). The count of
  an entry is a cardinality, hence the lemmas on finite sets. For the refinement
  each action has a lemma that names its abstract step: `CallAndAcquire` is
  `Take`, `CallAndWait` is `Join`, `Resume` is `Grant`, `Cancel` of a waiter
  is `GiveUp` and `Exit` is `Leave`; `Unwind` is a stutter, because a cancelled
  task is out of line already.
* `WorkspaceLockProofs`: `Invariance`, `Exclusion` (`OneAtATime`),
  `WholeTransactions` (`NothingHalfDone`) and `Consistency`. Two transactions
  could hold two flocks, so the invariant says who holds which
  (`FlocksAreHeld`), that the server's requests exclude each other by the
  asyncio lock alone (`OwnerIsInside`), and why a flock on an unlinked file does
  no harm (`OrphansAreHarmless`): its workspace has no tree any more, or the
  script that unlinked it is not running. `Consistency` adds that the line of the
  asyncio lock is exactly those who wait for it, each once (`LineIsExact`).
* `EventGatewayProofs`: `BaseInvariance`, `TypeCorrect`, `RegistriesExact` and
  `LogoutSilences`, for any number of users, connections and events. For
  `LogoutSilences` the invariant follows the signal (`SignedOutInv`): once a
  session has ended, the queue of its connection starts with a closing signal,
  no publication takes a signal from the head of a queue (an overflow replaces
  one by another), the writer takes what is first, and what was sent before is
  older than the logout. The logout finds the connection because registries
  are exact; a handshake that awaits the renewal compares versions.
  On top of that: `Invariance` of the whole `IInv`, `Gaplessness`
  (`GaplessDelivery`), `LossIsSignalled` (`NoSilentLoss`) and
  `RevocationSilences` (`NothingAfterRevocation`). `taken[c]` splits the log:
  what is behind it the client has or the writer holds, what is ahead of it the
  queue has, or a signal stands in for it (`PositionInv`). `RevocationInv` says
  that between a revocation and the end of the connection the event that closes
  it is still ahead, before anything the viewer may not see.
* `WorkspaceLifecycleProofs`: `Invariance` (`Consistent`), `NoOrphans`
  (`NoOrphanTree`), `ProposalsUndisturbed` (`ProposalHasWorkspace`),
  `PullsAreKnown` (`OpenPullIsKnown`) and the action property `DatesKept`
  (`DeletionDateKept`), with and without the scripts. Assumed: the names of the
  scripts and of nobody are no requests. What makes it inductive is what a
  loaded object may differ in from the row: it is dated as the row is, and not
  stale by a month (`ObjectsFit`), and inside a proposal it has the row's pull
  request, which is given up before another one is opened (`PullsFit`);
  `DiskFits` and `LockIsHeld` say for whom the row and the clone are there.
  `Flush` is handled once: a commit of any such object is a `RowStep`, which
  keeps status and date together whatever else it overwrites.
* `SessionProofs`: `Invariance` (`Consistent`, which contains
  `NoTokensAfterLogout`, `NeverSpentTwice` and `LoginKeepsTokens`), `LoginsKeepTheirTokens`
  (`LoginKeepsTokens`), `StoredTokensWork` (`StoredTokenWorks`) and the action
  properties `LogoutsAreFinal` (`GitHubLogoutIsFinal`) and `SpentPairsAreRefused`
  (`SpentIsRefused`), for either provider.
  The invariant says where a token can be: the one of an answer on its way is
  nobody's yet (`AnswerIsFresh`), the idle script has nothing that the row or a
  request of somebody who came back has (`CleanupIsApart`), and a spent one stays
  in the row only until whoever spent it, under the lock, writes the row
  (`SpentIsReplaced`). For `SpentPairsAreRefused` it adds that a pair is
  spent only once its access token has expired, so nobody skips the renewal that
  GitHub will refuse (`SpentIsExpired`).
* `GitSyncProofs`: `Invariance` (`Consistent`, which contains `NoChangeTwice`),
  `Committed` (`CommittedIsOnGitHub`), `RefusedUndone` (`RefusedIsUndone`),
  `NoneLeftBehind` (`NothingLeftBehind`), `UnsentWorkKept` (`UnsentWorkIsKept`)
  and the action property `DroppedStayDropped` (`NeverBringsBack`), for any
  files and for histories of any length. The invariant has two halves. `DInv` is
  about the data: a commit that two of the branches hold has one history in both
  and the versions of a file rise along each (`HistoriesFit`), what is staged is
  not older than HEAD (`StagedIsNewer`), and the reflog holds nothing that
  GitHub did not have (`SeenIsPublished`). `KInv` is about the operation in
  progress: what it has established when it stands where it stands (`CommitFits`,
  `PhaseFits`) and what the report of the last one means. What a replay makes is
  a recursive function of the commits. `ReplayInduction` shows by a least
  counterexample (`WFMin`) that what the start and each step have, the result
  has, and `ReplayFacts` applies it: the branch goes on as it was, with commits
  of HEAD it did not have, each at most once and in order, in files of rising
  versions.
* `BuildsProofs`: `Invariance` (`Consistent`), `WholeToolchains`
  (`BuildsWithWholeToolchain`), `Undisturbed` (`PreviewsUndisturbed`) and
  `FairShare` (`OneSlotPerUser`), with the clean-up, the failures and the
  restarts. Assumed: each workspace has an owner among the users, there are
  finitely many workspaces, at least one slot and one install, and `Invalid` is
  no toolchain. The invariant says that each line has exactly those who have
  asked and not left, each once, that only what is missing is in the queue of
  installs, but for the first one when it is through (`InstallsFit`), and that
  whoever asks for the next thing still has the ones before (`HasToolchain`,
  `HasBuildLock`, `HasTurn`): a toolchain in use is neither installed over nor
  removed.
* `CommandsProofs`: `Invariance`, `NothingRunsOn` (`NothingLeftRunning`),
  `GroupKilled` (`GroupIsKilled`), `Consistency` (`Consistent`) and the action
  property `SuccessesChecked` (`SuccessWasChecked`), for any calls and bounds.
  The invariant says when there can be a process at all (`NotStarted`), that a
  cgroup always has somebody who will remove it, the call, its thread or the
  next start (`CgroupIsOwned`), that the end of the server leaves no coroutine
  and no thread (`DownIsDown`), and that the process group stays dead from the
  kill on (`KilledIsKilled`). `Consistency` adds that the line of the semaphore
  is exact, so no slot is lost however a call ends, that an output that was seen
  small only grew afterwards, and that it did so in the sandbox only if the look
  began before the program was done: the sandbox is empty once its first process
  has ended, so nothing writes behind a later look (`EarlyIsTrue`).

Each proof has one lemma or step per action and, where an action disturbs
several conjuncts, one step per conjunct under it. `MaxPulls`, `MaxTokens` and
the like are any numbers there.

Only model-checked: what is temporal, which the prover cannot do for want of
`ENABLED`. These are the liveness properties `EveryCallEnds`,
`EveryTransactionEnds`, `EveryRequestEnds`, `UnentitledIsClosed`,
`ClosedIsArchived` and `DueIsDeleted`, and the fairness of `FifoMutex` in
`ImplementsFifoMutex`, i.e. that everyone who is not cancelled gets in. Every
invariant and every action property of a passing run is proved.

## 5. Findings and notes

Each finding is a run that TLC finishes with a violation; `PROJECT.json` quotes
the line that says otherwise.

* `CleanupDeletesOnlyDue`: the cleanup selects first and deletes later without
  reading the row again. An owner who reactivates the workspace in between
  loses it.
* `ReopenedIsReactivated`: the check reactivates only if it sees the change
  from closed to open itself. A page view that records the reopening first
  leaves the workspace archived, until it is deleted.
* `NoUseAfterLogout`: for a Google user the renewal is stored without reading
  the row again, so a request that awaits it is authenticated after the logout
  and puts an access token back.

Two more claims of the sources that the code does not keep. They are stated
beside the properties that hold, which leave these cases out, and have
configurations of their own for `MCCommands`, which finish with a violation and
are not among the runs of `PROJECT.json`:

* `StoppedIsKilled`: a cancellation that hits `run` while it awaits its cancelled
  readers (`process.py:118`), or while the process is being connected (103),
  skips `_kill_tree`, against the docstring at 100-101: the group goes on where
  there is no sandbox and no cgroup (`MCCommandsCutShort.cfg`: an install starts
  a second program and is cancelled before it is connected). `GroupIsKilled`
  says what holds apart from those calls (`cut`).
* `LargeIsNoSuccess`: a build that writes too much and ends while the thread is
  still adding up its output is a success, against the comment at
  `sandbox.py:291` and `README.md:497-499`: the thread has read the folder
  before, and the build is done when it returns (`MCCommandsLateOutput.cfg`).
  `SuccessWasChecked` says what holds apart from that: such an output was written
  after the folder was last read, and in the sandbox the look had begun while the
  build still ran.

Behaviour met while modelling that nothing here shows, because no property
forbids it or because a property carves it out:

* A GitHub renewal takes a session for ended only if the access token is NULL
  (`token_refresh_service.py:131-133`). After a logout and a new login it is
  not, and the pair of the old session replaces the new one. It works, but
  nobody can revoke the pair of the new login any more.
* A pull request that GitHub opened and nobody recorded stays unknown: the row
  has no number, so each later proposal asks GitHub for another one of the same
  branch, which GitHub refuses (`workspace_service.py:968-976`), until the pull
  request is closed on GitHub. `OpenPullIsKnown` excepts those (`lost`).
* `persist_changes` checks the status of the workspace before it waits for the
  lock (`file_service.py:648`), so a workspace that is archived, or whose pull
  request is merged and its branch deleted, meanwhile gets the commit all the
  same; the comment at 690-691 relies on the check.
* A closing event closes with 4003 even if access was given back before the
  writer gets to it (`app/api/collab.py:182`, `events_service.py:20`).
* A workspace whose pull request is closed becomes active if GitHub does not
  answer (`workspace_service.py:511`); the check archives it again.
* The reflog that tells dropped commits is pruned with the branch. After the
  branch was deleted and created again with fewer commits, the dropped ones
  count as new and are pushed (`git_service.py:320-337`; the docstring is at
  259-263). `NeverBringsBack` speaks of what the reflog still knows. A push
  that was applied without an answer and dropped before the next fetch is
  replayed for the same reason.
* A commit that GitHub applied without an answer is undone and staged again;
  if the user edits the same file further, the next sync reports a conflict
  with the user's own change.
* After a sync that replayed the commit, `persist_changes` pushes once more
  although the sync's own push may have sent it (`file_service.py:711`,
  `git_service.py:463-464`); if only the second push fails, the answer is that
  the changes could not be sent yet.
* A build that waits for an install inside its locks creates the workspace's
  folder again if the workspace is deleted meanwhile (`build_service.py:129`).
* `remove_unused` removes a toolchain without removing `.ready` first
  (`toolchains.py:134`); a server that dies meanwhile may find it installed.

## 6. What is not modelled

* **Sharing.** The life of a share link: `RedeemShare` may come at any time,
  as the owner can create a link at any time. Pending collaborators: they have
  no account, so no connection, until their first login activates them without
  an event. `update_collaborator`: `AccessMode` has one value, so it changes
  nothing and publishes nothing. The handlers are atomic but for the look-up
  of the invited at GitHub; if the workspace is deleted meanwhile, the foreign
  key refuses the rows.
* **Forks of several workspaces** (`_update_fork_reference` changes the remotes
  of workspaces whose locks it does not hold, `workspace_service.py:365`), the
  realignment of renamed forks, merges in
  a history, symlinks, and comparisons with upstream. A deletion or a rename
  of a file is a version of it. Errors other than HTTP errors end a job as a
  crash does; a hard reset is one step.
* **Workspace status in `GitSync`**, and branches in `WorkspaceLifecycle`: the
  two meet in `persist_changes`' check of the status, see above.
* **Sessions**: GitHub tokens without a refresh token, and a JWT that expires
  or is renewed between two requests.
* **Builds**: deletion of a workspace under a build. The removal of unused
  toolchains is one step.
* **Steps that are one here and several in the code**, where whatever comes in
  between ends like another branch of the step: the GET of a pull request and the
  PATCH or POST that follows (`HandlePullRequest`), the push that sets the
  upstream and the fetch after it (`Restore`, `Repush`), the send of a ping
  (`Timeout`). The folder of a clone under way counts as no tree yet (`Clone`):
  only the lock's holder is in it.
* **Coarser data**: changes of one file on both sides conflict whichever hunks
  they touch (`MergeTrees`); each connection has a client id of its own, while a
  tab's streams share one (`OwnChange`).
* **Commands**: the arguments, the mounts and the environment of the sandbox,
  limits of CPU and processes, Windows. Of the kernel the model has what the
  code relies on: a kill is immediate, nothing in bubblewrap outlives its first
  process, and the removal of a cgroup succeeds within its five seconds.
* **Lock files**: lock files of workspaces that nobody deletes stay, and so does
  that of a deletion whose request was cancelled.
* **YAML cache** (a file that changes between the stat and the read),
  workspace types, validation, limits, HTTP parsing, the GitHub client,
  configuration and migrations: pure functions or next to no state of their own.

## 7. Plan

What is done, and what could follow.

1. Locks: `KeyedLocks` against the abstract `FifoMutex`, `WorkspaceLock`;
   proofs of both and of the refinement. *Done.*
2. Events: `EventBroker`, `EventGateway`, with proofs. *Done.*
3. `WorkspaceLifecycle` with the scripts and the crash of a proposal, with
   proofs. *Done.*
4. `Session` with proofs. *Done.* To do: an abstract session that logs in and
   out, which it implements for GitHub's users.
5. `GitSync`, `Toolchains` and `Builds`, with proofs. *Done.* To do: the
   composition of `GitSync` with the status of the workspace, deletion of a
   workspace under a build, a crash in the middle of the removal of a
   toolchain.
6. `Commands` with proofs. *Done.*
7. Several workspaces on one fork, share links, the YAML cache.
