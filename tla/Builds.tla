------------------------------- MODULE Builds -------------------------------
(* Previews and downloads: preview_service.py, build_service.py and         *)
(* run_build of sandbox.py, on top of Toolchains. A request waits for, in   *)
(* this order, the install of its toolchain, the workspace's build lock     *)
(* (previews only), its user's lock, the install again (the workspace may   *)
(* ask for another version by now) and one of the slots.                    *)
(*                                                                          *)
(* A lock of locks.py is the line of the requests that asked for it, with   *)
(* its holder in front: that is what FifoMutex promises and KeyedLocks      *)
(* implements. The semaphore is a line whose first Slots requests have one. *)
EXTENDS Toolchains, FiniteSets

CONSTANTS
  Requests,     \* the requests under way at a time
  Users,
  Workspaces,
  Owner,        \* the owner of each workspace
  Slots,        \* BUILD_CONCURRENCY
  Invalid       \* "requirements.txt asks for no usable version", no name

ASSUME SlotsAssumption == Slots \in Nat \ {0}
ASSUME OwnerAssumption == Owner \in [Workspaces -> Users]
ASSUME InvalidAssumption == Invalid \notin Names
ASSUME WorkspacesAssumption == IsFiniteSet(Workspaces)

VARIABLES
  wants,      \* wants[w]: the toolchain w's requirements.txt asks for
  req,        \* req[r]: a request and where it waits, or Idle
  building,   \* build_locks: the line for each workspace
  turns,      \* user_build_locks: the line of each user
  slots       \* the line for the semaphore

rvars == <<req, building, turns, slots>>
vars == <<folder, fresh, installs, stage, failures, wants, req, building, turns, slots>>

-----------------------------------------------------------------------------

Kinds == {"preview", "download", "read"}

\* preparing: waits in _prepare; prepared: that wait is over. build_lock,
\* user_lock: in the lines. ensuring, ensured, refused: the wait for the
\* toolchain inside build, and how it ended. slot: waits for a slot or builds.
Places == {"preparing", "prepared", "build_lock", "user_lock",
           "ensuring", "ensured", "refused", "slot"}

Idle == [at |-> "idle"]

Queued(r) == req[r].at \notin {"idle", "preparing", "prepared"}
BeyondBuildLock(r) == Queued(r) /\ req[r].at # "build_lock"

\* The requests in the lines for a workspace and a user, and for the slots.
InBuilding(w) == {r \in Requests : Queued(r) /\ req[r].kind # "download" /\ req[r].work = w}
InTurns(u) == {r \in Requests : BeyondBuildLock(r) /\ req[r].user = u}
InSlots == {r \in Requests : req[r].at = "slot"}

\* A line of the requests in S, each of them once.
Line(q, S) == q \in Seq(Requests) /\ IsInjective(q) /\ ToSet(q) = S

RequestOK(r) ==
  \/ req[r] = Idle
  \/ /\ req[r] \in [at : Places, kind : Kinds, work : Workspaces, user : Users,
                     tool : Names \union {Invalid}]
     /\ req[r].at \in {"preparing", "ensuring", "ensured", "slot"} <=> req[r].tool \in Names
     /\ req[r].at \in {"preparing", "ensuring"} => Installing(req[r].tool)

TypeOK ==
  /\ ToolchainTypeOK
  /\ wants \in [Workspaces -> Names \union {Invalid}]
  /\ DOMAIN req = Requests /\ \A r \in Requests : RequestOK(r)
  /\ DOMAIN building = Workspaces /\ \A w \in Workspaces : Line(building[w], InBuilding(w))
  /\ DOMAIN turns = Users /\ \A u \in Users : Line(turns[u], InTurns(u))
  /\ Line(slots, InSlots)

Init ==
  /\ ToolchainInit
  /\ wants = [w \in Workspaces |-> Invalid]
  /\ req = [r \in Requests |-> Idle]
  /\ building = [w \in Workspaces |-> <<>>]
  /\ turns = [u \in Users |-> <<>>]
  /\ slots = <<>>

\* The line without r, which has at most one place there.
Without(q, r) == RemoveFirst(q, r)

First(q, r) == q # <<>> /\ q[1] = r

\* r builds: it has one of the slots.
Building(r) == \E i \in DOMAIN slots : i <= Slots /\ slots[i] = r

-----------------------------------------------------------------------------
(* A request goes from place to place.                                      *)

Moves(r, place) == req' = [req EXCEPT ![r].at = place]

\* Mutant: a preview does not wait for the lock of its workspace.
OpenLineUp(r, q) ==
  /\ building' = IF q.kind = "download" THEN building
                 ELSE [building EXCEPT ![q.work] = Append(@, r)]
  /\ IF q.kind = "read"
     THEN req' = [req EXCEPT ![r] = [q EXCEPT !.at = "build_lock"]] /\ UNCHANGED turns
     ELSE /\ req' = [req EXCEPT ![r] = [q EXCEPT !.at = "user_lock"]]
          /\ turns' = [turns EXCEPT ![q.user] = Append(@, r)]
  /\ UNCHANGED slots

\* r asks for its first lock.
LineUp(r, q) ==
  IF q.kind = "download"
  THEN /\ req' = [req EXCEPT ![r] = [q EXCEPT !.at = "user_lock"]]
       /\ turns' = [turns EXCEPT ![q.user] = Append(@, r)]
       /\ UNCHANGED <<building, slots>>
  ELSE /\ req' = [req EXCEPT ![r] = [q EXCEPT !.at = "build_lock"]]
       /\ building' = [building EXCEPT ![q.work] = Append(@, r)]
       /\ UNCHANGED <<turns, slots>>

\* A request arrives; a build starts with _prepare. Only the owner generates
\* previews, and who reads them does not matter.
Arrive(r, kind, w, u) ==
  LET n == wants[w]
      q == [at |-> "prepared", kind |-> kind, work |-> w, user |-> u, tool |-> Invalid]
  IN /\ req[r] = Idle
     /\ kind # "download" => u = Owner[w]
     /\ IF kind # "read" /\ n \in Names /\ Waits(n)
        THEN /\ req' = [req EXCEPT ![r] = [q EXCEPT !.at = "preparing", !.tool = n]]
             /\ installs' = Started(installs, n)
             /\ UNCHANGED <<building, turns, slots>>
        ELSE LineUp(r, q) /\ UNCHANGED installs
     /\ UNCHANGED <<folder, fresh, stage, failures, wants>>

\* The build reports a failure of the install, not _prepare.
EndPrepare(r) ==
  /\ req[r].at = "prepared"
  /\ LineUp(r, req[r])
  /\ UNCHANGED <<tvars, wants>>

\* Mutant: the builds of one user do not wait for each other.
ParallelTakeTurn(r) ==
  /\ req[r].at = "build_lock" /\ req[r].kind = "preview"
  /\ First(building[req[r].work], r)
  /\ Moves(r, "user_lock")
  /\ turns' = [turns EXCEPT ![req[r].user] = <<r>> \o @]
  /\ UNCHANGED <<building, slots, tvars, wants>>

\* A preview has the workspace's lock and asks for its user's.
TakeTurn(r) ==
  /\ req[r].at = "build_lock" /\ req[r].kind = "preview"
  /\ First(building[req[r].work], r)
  /\ Moves(r, "user_lock")
  /\ turns' = [turns EXCEPT ![req[r].user] = Append(@, r)]
  /\ UNCHANGED <<building, slots, tvars, wants>>

\* Mutant: what a request holds when it ends early stays locked.
KeepingLeave(r) ==
  /\ req' = [req EXCEPT ![r] = Idle]
  /\ building' = [w \in Workspaces |-> Without(building[w], r)]
  /\ turns' = [u \in Users |-> IF First(turns[u], r) THEN turns[u] ELSE Without(turns[u], r)]
  /\ slots' = Without(slots, r)

\* A request ends, with whatever it holds or waits for.
Leave(r) ==
  /\ req' = [req EXCEPT ![r] = Idle]
  /\ building' = [w \in Workspaces |-> Without(building[w], r)]
  /\ turns' = [u \in Users |-> Without(turns[u], r)]
  /\ slots' = Without(slots, r)

\* The last preview is read, or a file of it opened, under the build lock.
Read(r) ==
  /\ req[r].at = "build_lock" /\ req[r].kind = "read"
  /\ First(building[req[r].work], r)
  /\ Leave(r)
  /\ UNCHANGED <<tvars, wants>>

\* r stands in line for a slot, to build with n.
AskForSlot(r, n) ==
  /\ req' = [req EXCEPT ![r].at = "slot", ![r].tool = n]
  /\ slots' = Append(slots, r)
  /\ UNCHANGED <<building, turns>>

\* build(): the version is read again, and its toolchain ensured again.
Ensure(r) ==
  LET n == wants[req[r].work]
  IN /\ req[r].at = "user_lock" /\ First(turns[req[r].user], r)
     /\ \/ /\ n \in Names /\ IsInstalled(n)
           /\ fresh' = fresh \union {n}
           /\ AskForSlot(r, n)
           /\ UNCHANGED installs
        \/ /\ n \in Names /\ Waits(n)
           /\ installs' = Started(installs, n)
           /\ req' = [req EXCEPT ![r].at = "ensuring", ![r].tool = n]
           /\ UNCHANGED <<building, turns, slots, fresh>>
        \/ /\ n \in Names => Raises(n)
           /\ Leave(r)
           /\ UNCHANGED <<installs, fresh>>
     /\ UNCHANGED <<folder, stage, failures, wants>>

\* The toolchain that build() has waited for is there.
EndEnsure(r) ==
  /\ req[r].at = "ensured"
  /\ AskForSlot(r, req[r].tool)
  /\ UNCHANGED <<tvars, wants>>

\* It could not be installed: the request ends in an error.
EndRefused(r) ==
  /\ req[r].at = "refused"
  /\ Leave(r)
  /\ UNCHANGED <<tvars, wants>>

\* The build succeeds, fails, or is stopped because it takes too long, prints
\* too much or needs too much memory; its outcome is read under its locks.
EndBuild(r) ==
  /\ Building(r)
  /\ Leave(r)
  /\ UNCHANGED <<tvars, wants>>

\* The client has gone. An install goes on, a build is killed.
Cancel(r) ==
  /\ req[r] # Idle
  /\ Leave(r)
  /\ UNCHANGED <<tvars, wants>>

-----------------------------------------------------------------------------

\* The end of an install wakes everyone who waits for it.
WakeWaiters ==
  LET n == installs[1]
  IN req' = [r \in Requests |->
       IF req[r].at = "preparing" /\ req[r].tool = n THEN [req[r] EXCEPT !.at = "prepared", !.tool = Invalid]
       ELSE IF req[r].at = "ensuring" /\ req[r].tool = n
       THEN IF stage = "installed" THEN [req[r] EXCEPT !.at = "ensured"]
                                   ELSE [req[r] EXCEPT !.at = "refused", !.tool = Invalid]
       ELSE req[r]]

EndInstall ==
  /\ Finished
  /\ WakeWaiters
  /\ UNCHANGED <<building, turns, slots, wants>>

InstallStep ==
  \/ (StartFiles \/ Install \/ InstallFails) /\ UNCHANGED <<rvars, wants>>
  \/ EndInstall

\* requirements.txt is saved, pulled from GitHub or cloned.
ChangeVersion(w, n) ==
  /\ wants' = [wants EXCEPT ![w] = n]
  /\ installs' = IF n \in Names THEN Prepared(installs, n) ELSE installs
  /\ UNCHANGED <<folder, fresh, stage, failures, rvars>>

\* It is deleted or reverted, or a higher version that fits is installed:
\* nothing prepares the toolchain it asks for now.
DriftVersion(w, n) ==
  /\ wants' = [wants EXCEPT ![w] = n]
  /\ UNCHANGED <<tvars, rvars>>

\* The toolchains that the workspaces in works ask for.
Asked(works) == {wants[w] : w \in works} \ {Invalid}

\* The server is stopped, or dies, and starts again: of the workspaces any may be
\* active.
Die ==
  /\ \E active \in SUBSET Workspaces : Restart(Asked(Workspaces), Asked(active))
  /\ req' = [r \in Requests |-> Idle]
  /\ building' = [w \in Workspaces |-> <<>>]
  /\ turns' = [u \in Users |-> <<>>]
  /\ slots' = <<>>
  /\ UNCHANGED wants

RequestStep(r) ==
  \/ EndPrepare(r) \/ TakeTurn(r) \/ Read(r) \/ Ensure(r) \/ EndEnsure(r)
  \/ EndRefused(r) \/ EndBuild(r)

TimePasses ==
  /\ \E n \in Names : RetryAfter(n) \/ GoesUnused(n)
  /\ UNCHANGED <<rvars, wants>>

Next ==
  \/ \E r \in Requests :
       \/ \E kind \in Kinds, w \in Workspaces, u \in Users : Arrive(r, kind, w, u)
       \/ RequestStep(r)
       \/ Cancel(r)
  \/ InstallStep
  \/ TimePasses
  \/ \E w \in Workspaces, n \in Names \union {Invalid} : ChangeVersion(w, n) \/ DriftVersion(w, n)
  \/ Die

\* Every command has a timeout and the event loop runs what can run.
Fairness ==
  /\ WF_vars(InstallStep)
  /\ \A r \in Requests : WF_vars(RequestStep(r))

Spec == Init /\ [][Next]_vars
FairSpec == Spec /\ Fairness

-----------------------------------------------------------------------------
(* Properties *)

\* toolchains.py:26: whoever builds, or waits for a slot to build, does so
\* with a completely installed toolchain: no second install of the same
\* version, no failed attempt and no clean-up takes it away meanwhile.
BuildsWithWholeToolchain ==
  \A r \in Requests : req[r].at = "slot" => IsInstalled(req[r].tool)

\* locks.py:84-86: while a build writes the preview of a workspace it holds
\* the workspace's lock, so that neither another build writes there nor a
\* reader sees a half-written preview.
PreviewsUndisturbed ==
  \A r \in Requests :
    req[r].at = "slot" /\ req[r].kind = "preview" => First(building[req[r].work], r)

\* locks.py:88-90: one user's builds never take two slots, nor two places in
\* the line for them, so that they cannot keep everyone else waiting.
OneSlotPerUser ==
  \A r, s \in Requests :
    req[r].at = "slot" /\ req[s].at = "slot" /\ req[r].user = req[s].user => r = s

\* What a request holds: a toolchain from the time it is ensured, the lock of the
\* workspace from the time a preview asks for its user's, and that lock from the
\* time it asks for the toolchain, all to its end.
HasToolchain(r) == req[r].at \in {"ensured", "slot"} => IsInstalled(req[r].tool)

HasBuildLock(r) ==
  BeyondBuildLock(r) /\ req[r].kind = "preview" => First(building[req[r].work], r)

HasTurn(r) ==
  req[r].at \in {"ensuring", "ensured", "refused", "slot"} => First(turns[req[r].user], r)

IInv ==
  /\ TypeOK /\ InstallsFit
  /\ \A r \in Requests : HasToolchain(r) /\ HasBuildLock(r) /\ HasTurn(r)

\* The types with the lines of the locks and the slots, and the above.
Consistent == IInv /\ OneSlotPerUser

\* locks.py:4-9: the locks, the installs and the slots are asked for in one
\* order, so every request that is not cancelled comes to an end.
EveryRequestEnds ==
  \A r \in Requests : req[r] # Idle ~> req[r] = Idle
=============================================================================
