------------------------------ MODULE Commands ------------------------------
(* app/utils/process.py and app/utils/sandbox.py: how the server runs       *)
(* programs it does not trust. A build waits for a slot, runs as a task of  *)
(* its own (run) and is watched meanwhile (run_build); an install of a      *)
(* toolchain is run in place (run_limited). Whatever happens, a timeout,    *)
(* too much output or a cancellation at any await, the program and what it  *)
(* started has to be gone afterwards: with a cgroup by removing the cgroup, *)
(* without one by killing the process group.                                *)
(*                                                                          *)
(* Of the kernel the model has what the code relies on: a kill is immediate *)
(* and inside bubblewrap nothing outlives the first process.                *)
EXTENDS Naturals, FiniteSets, SequencesExt

CONSTANTS
  Builds,       \* calls of run_build
  Installs,     \* calls of run_limited
  Slots,        \* BUILD_CONCURRENCY
  Mixed,        \* bound: there are builds and installs at a time
  MaxForks,     \* bounds: processes started by programs,
  MaxCancels,   \*   cancellations of the callers,
  MaxCrashes    \*   and deaths of the server

Calls == Builds \union Installs

ASSUME CommandsAssumption ==
  /\ Builds \intersect Installs = {}
  /\ Slots \in Nat \ {0}
  /\ Mixed \in BOOLEAN /\ {MaxForks, MaxCancels, MaxCrashes} \subseteq Nat

VARIABLES
  isolation,  \* what setup() allowed: none, only the sandbox, or full (cgroups)
  up,         \* the server runs
  line,       \* _semaphore: the builds that asked, the first Slots have a slot
  call,       \* call[c]: the coroutines and threads of the server
  prog,       \* prog[c]: the program, its processes and its output
  forks, cancels, crashes

vars == <<isolation, up, line, call, prog, forks, cancels, crashes>>

-----------------------------------------------------------------------------

\* main: the process run() started. worker: a process of the same group, which
\* may hold the output open. daemon: one that left the group.
Processes == {"main", "worker", "daemon"}

\* os.killpg: the process and everything in its group.
Group == {"main", "worker"}

\* slot: waits for a slot. watch: waits for run(), a build for 0.2 s at most.
\* scan: a thread adds up the output. stop: waits until run() is cancelled.
\* remove: waits for the removal of the cgroup. gone: the server has died.
Places == {"idle", "slot", "watch", "scan", "stop", "remove", "ended", "gone"}

\* new: the task has not started. spawn: the process is being connected.
\* collect: its output is read. readers: the cancelled readers are awaited.
\* discard: what is left of the output is read, for 5 s at most.
Stages == {"none", "new", "spawn", "collect", "readers", "discard", "done"}

\* How run() ends, and what the caller is told.
Endings == {"none", "exit", "timeout", "printed", "cancelled", "failed"}
Verdicts == {"none", "success", "failed", "timeout", "printed", "memory",
             "large", "cancelled"}

\* scan: what the thread has seen of the output folder. killer: a thread is in
\* Cgroups.remove. History: cut, run() was cancelled where it does not clean up,
\* while the process was being connected or the cleaning up was under way; early,
\* run() had not ended when the server last began to look.
CallStates ==
  [at : Places, run : Stages, ending : Endings, verdict : Verdicts,
   scan : {"none", "small", "large"}, cgroup : BOOLEAN, killer : BOOLEAN,
   cut : BOOLEAN, early : BOOLEAN]

\* wrote: the output folder is over BUILD_OUTPUT_MAX. late: and was not yet when
\* the server last looked (history). oom: the kernel has killed the cgroup.
ProgStates ==
  [procs : SUBSET Processes, code : {"none", "ok", "error"},
   wrote : BOOLEAN, late : BOOLEAN, oom : BOOLEAN]

TypeOK ==
  /\ isolation \in {"none", "sandbox", "full"} /\ up \in BOOLEAN
  /\ call \in [Calls -> CallStates] /\ prog \in [Calls -> ProgStates]
  /\ forks \in 0..MaxForks /\ cancels \in 0..MaxCancels /\ crashes \in 0..MaxCrashes

Init ==
  /\ isolation \in {"none", "sandbox", "full"} /\ up = TRUE
  /\ line = <<>>
  /\ call = [c \in Calls |->
       [at |-> "idle", run |-> "none", ending |-> "none", verdict |-> "none",
        scan |-> "none", cgroup |-> FALSE, killer |-> FALSE,
        cut |-> FALSE, early |-> FALSE]]
  /\ prog = [c \in Calls |->
       [procs |-> {}, code |-> "none", wrote |-> FALSE, late |-> FALSE, oom |-> FALSE]]
  /\ forks = 0 /\ cancels = 0 /\ crashes = 0

\* The line without c, which has at most one place there.
Without(q, c) == RemoveFirst(q, c)

HasSlot(c) == \E i \in DOMAIN line : i <= Slots /\ line[i] = c

\* run_build puts the program in bubblewrap (--unshare-all --die-with-parent).
Sandboxed(c) == c \in Builds /\ isolation # "none"

\* What is left of c when the processes in killed die.
Left(c, killed) ==
  IF Sandboxed(c) /\ "main" \in killed THEN {} ELSE prog[c].procs \ killed

-----------------------------------------------------------------------------
(* The program starts processes, writes, needs memory and ends as it likes. *)

Forks(c, p) ==
  /\ prog[c].procs \intersect Group # {} /\ p \in {"worker", "daemon"} \ prog[c].procs
  /\ forks < MaxForks /\ forks' = forks + 1
  /\ prog' = [prog EXCEPT ![c].procs = @ \union {p}]
  /\ UNCHANGED <<isolation, up, line, call, cancels, crashes>>

Exits(c, p, code) ==
  /\ p \in prog[c].procs
  /\ prog' = [prog EXCEPT ![c].procs = Left(c, {p}),
                          ![c].code = IF p = "main" THEN code ELSE @]
  /\ UNCHANGED <<isolation, up, line, call, forks, cancels, crashes>>

WritesTooMuch(c) ==
  /\ call[c].at \in {"watch", "scan", "stop"} /\ c \in Builds
  /\ prog[c].procs # {} /\ ~prog[c].wrote
  /\ prog' = [prog EXCEPT ![c].wrote = TRUE, ![c].late = (call[c].scan = "small")]
  /\ UNCHANGED <<isolation, up, line, call, forks, cancels, crashes>>

\* memory.oom.group: the cgroup is killed as a whole.
OutOfMemory(c) ==
  /\ call[c].cgroup /\ prog[c].procs # {}
  /\ prog' = [prog EXCEPT ![c].procs = {}, ![c].oom = TRUE,
                          ![c].code = IF "main" \in prog[c].procs THEN "error" ELSE @]
  /\ UNCHANGED <<isolation, up, line, call, forks, cancels, crashes>>

-----------------------------------------------------------------------------
(* run(). For a build it is a task of its own, for an install the caller's. *)

Starts(c) ==
  /\ call[c].run = "new"
  /\ call' = [call EXCEPT ![c].run = "spawn"]
  /\ prog' = [prog EXCEPT ![c].procs = {"main"}]
  /\ UNCHANGED <<isolation, up, line, forks, cancels, crashes>>

\* There is no process, e.g. because the system has too many.
StartFails(c) ==
  /\ call[c].run = "new"
  /\ call' = [call EXCEPT ![c].run = "done", ![c].ending = "failed"]
  /\ UNCHANGED <<isolation, up, line, prog, forks, cancels, crashes>>

Connected(c) ==
  /\ call[c].run = "spawn"
  /\ call' = [call EXCEPT ![c].run = "collect"]
  /\ UNCHANGED <<isolation, up, line, prog, forks, cancels, crashes>>

\* Both streams have ended and the process has exited. Whoever else is left may
\* have closed the streams or still hold them.
Collected(c) ==
  /\ call[c].run = "collect" /\ "main" \notin prog[c].procs
  /\ call' = [call EXCEPT ![c].run = "done", ![c].ending = "exit"]
  /\ UNCHANGED <<isolation, up, line, prog, forks, cancels, crashes>>

\* The timeout, or OutputTooLarge from a reader: the readers are cancelled.
Stopped(c, why) ==
  /\ call[c].run = "collect"
  /\ call' = [call EXCEPT ![c].run = "readers", ![c].ending = why]
  /\ UNCHANGED <<isolation, up, line, prog, forks, cancels, crashes>>

\* Mutant: only the process itself is killed.
ProcessKilled(c) ==
  /\ call[c].run = "readers"
  /\ call' = [call EXCEPT ![c].run = "discard"]
  /\ prog' = [prog EXCEPT ![c].procs = Left(c, {"main"}),
                          ![c].code = IF "main" \in prog[c].procs THEN "error" ELSE @]
  /\ UNCHANGED <<isolation, up, line, forks, cancels, crashes>>

\* _kill_tree, once the readers have ended.
KillTree(c) ==
  /\ call[c].run = "readers"
  /\ call' = [call EXCEPT ![c].run = "discard"]
  /\ prog' = [prog EXCEPT ![c].procs = Left(c, Group),
                          ![c].code = IF "main" \in prog[c].procs THEN "error" ELSE @]
  /\ UNCHANGED <<isolation, up, line, forks, cancels, crashes>>

\* Mutant: _discard without its timeout.
DiscardedAtTheEnd(c) ==
  /\ call[c].run = "discard" /\ prog[c].procs = {}
  /\ call' = [call EXCEPT ![c].run = "done"]
  /\ UNCHANGED <<isolation, up, line, prog, forks, cancels, crashes>>

\* The output has ended, or five seconds have passed.
Discarded(c) ==
  /\ call[c].run = "discard"
  /\ call' = [call EXCEPT ![c].run = "done"]
  /\ UNCHANGED <<isolation, up, line, prog, forks, cancels, crashes>>

\* A CancelledError inside run(): while the process is connected asyncio kills
\* it, while output is read run() cleans up, and after that it just ends.
CancelledRun(q) ==
  IF q.run \in {"none", "done"} THEN q
  ELSE [q EXCEPT !.run = IF q.run = "collect" THEN "readers" ELSE "done",
                 !.ending = "cancelled",
                 !.cut = q.cut \/ q.run \in {"spawn", "readers"}]

CancelledProg(c) ==
  IF call[c].run = "spawn"
  THEN [prog[c] EXCEPT !.procs = Left(c, {"main"}),
                       !.code = IF "main" \in prog[c].procs THEN "error" ELSE @]
  ELSE prog[c]

-----------------------------------------------------------------------------
(* run_build and run_limited.                                               *)

Others(c) == IF c \in Builds THEN Installs ELSE Builds

MayCall(c) == up /\ (Mixed \/ \A d \in Others(c) : call[d].at = "idle")

\* run_build waits for a slot; run_limited makes its cgroup and runs.
CallBuild(c) ==
  /\ c \in Builds /\ call[c].at = "idle" /\ MayCall(c)
  /\ call' = [call EXCEPT ![c].at = "slot"]
  /\ line' = Append(line, c)
  /\ UNCHANGED <<isolation, up, prog, forks, cancels, crashes>>

\* The cgroup, if there are any, is made and the program is to be started.
Runs(c) ==
  call' = [call EXCEPT ![c].at = "watch", ![c].run = "new", ![c].cgroup = (isolation = "full")]

CallInstall(c) ==
  /\ c \in Installs /\ call[c].at = "idle" /\ MayCall(c)
  /\ Runs(c)
  /\ UNCHANGED <<isolation, up, line, prog, forks, cancels, crashes>>

GetsSlot(c) ==
  /\ call[c].at = "slot" /\ HasSlot(c)
  /\ Runs(c)
  /\ UNCHANGED <<isolation, up, line, prog, forks, cancels, crashes>>

\* Cgroups.create fails, and takes back what it has made.
CreateFails(c) ==
  /\ isolation = "full"
  /\ \/ c \in Installs /\ call[c].at = "idle" /\ MayCall(c)
     \/ call[c].at = "slot" /\ HasSlot(c)
  /\ call' = [call EXCEPT ![c].at = "ended", ![c].verdict = "failed"]
  /\ line' = Without(line, c)
  /\ UNCHANGED <<isolation, up, prog, forks, cancels, crashes>>

\* asyncio.wait returns: run() is done, or 0.2 s are over.
Looks(c) ==
  /\ c \in Builds /\ call[c].at = "watch"
  /\ call' = [call EXCEPT ![c].at = "scan", ![c].early = (call[c].run # "done")]
  /\ UNCHANGED <<isolation, up, line, prog, forks, cancels, crashes>>

\* _output_exceeds, in a thread.
Scans(c) ==
  /\ call[c].at = "scan" /\ call[c].scan = "none"
  /\ call' = [call EXCEPT ![c].scan = IF prog[c].wrote THEN "large" ELSE "small"]
  /\ UNCHANGED <<isolation, up, line, prog, forks, cancels, crashes>>

\* Mutant: the cgroup is only removed after a program that has returned.
FinishesReturned(q, verdict) ==
  IF q.cgroup /\ verdict \in {"success", "failed"}
  THEN [q EXCEPT !.at = "remove", !.verdict = verdict, !.killer = TRUE]
  ELSE [q EXCEPT !.at = "ended", !.verdict = verdict]

\* What the caller does once it knows its verdict: the finally clause.
Finishes(q, verdict) ==
  IF q.cgroup THEN [q EXCEPT !.at = "remove", !.verdict = verdict, !.killer = TRUE]
  ELSE [q EXCEPT !.at = "ended", !.verdict = verdict]

\* What nobody knows any more once the coroutines are gone.
Forgotten(q) ==
  [q EXCEPT !.run = "none", !.ending = "none", !.scan = "none",
            !.cut = FALSE, !.early = FALSE]

Unwatched(g) ==
  [g EXCEPT !.code = "none", !.wrote = FALSE, !.late = FALSE, !.oom = FALSE]

\* Mutant: the slot is only given back by a call that had a cgroup to remove.
GoesWithSlot(c, q, g) ==
  /\ call' = [call EXCEPT ![c] = IF q.at = "ended" THEN Forgotten(q) ELSE q]
  /\ prog' = [prog EXCEPT ![c] = IF q.at = "ended" THEN Unwatched(g) ELSE g]
  /\ line' = IF q.at = "ended" /\ call[c].at = "remove" THEN Without(line, c) ELSE line

\* The caller goes on with q, the program is g. With the end of the caller its
\* slot is free.
Goes(c, q, g) ==
  /\ call' = [call EXCEPT ![c] = IF q.at = "ended" THEN Forgotten(q) ELSE q]
  /\ prog' = [prog EXCEPT ![c] = IF q.at = "ended" THEN Unwatched(g) ELSE g]
  /\ line' = IF q.at = "ended" THEN Without(line, c) ELSE line

\* How the result of run() is told: out_of_memory is asked when it has returned.
VerdictOf(c) ==
  IF call[c].ending # "exit" THEN call[c].ending
  ELSE IF call[c].cgroup /\ prog[c].oom THEN "memory"
  ELSE IF prog[c].code = "ok" THEN "success" ELSE "failed"

\* The build has written too much: it is cancelled unless it is done.
StopsLarge(c) ==
  /\ call[c].at = "scan" /\ call[c].scan = "large"
  /\ IF call[c].run = "done"
     THEN Goes(c, Finishes(call[c], "large"), prog[c])
     ELSE Goes(c, [CancelledRun(call[c]) EXCEPT !.at = "stop", !.verdict = "large"],
               CancelledProg(c))
  /\ UNCHANGED <<isolation, up, forks, cancels, crashes>>

\* Mutant: a build that is done when it is looked at is not looked at again.
EndsUnseen(c) ==
  /\ call[c].run = "done"
  /\ call[c].at = "watch" \/ (call[c].at = "scan" /\ call[c].scan = "small")
  /\ Goes(c, Finishes(call[c], VerdictOf(c)), prog[c])
  /\ UNCHANGED <<isolation, up, forks, cancels, crashes>>

\* run() is done and, for a build, the output was small when it was looked at.
Ends(c) ==
  /\ call[c].run = "done"
  /\ IF c \in Builds THEN call[c].at = "scan" /\ call[c].scan = "small"
                     ELSE call[c].at = "watch"
  /\ Goes(c, Finishes(call[c], VerdictOf(c)), prog[c])
  /\ UNCHANGED <<isolation, up, forks, cancels, crashes>>

GoesOn(c) ==
  /\ call[c].at = "scan" /\ call[c].scan = "small" /\ call[c].run # "done"
  /\ call' = [call EXCEPT ![c].at = "watch", ![c].scan = "none", ![c].early = FALSE]
  /\ UNCHANGED <<isolation, up, line, prog, forks, cancels, crashes>>

\* The cancelled run() has ended, its CancelledError is suppressed.
HasStopped(c) ==
  /\ call[c].at = "stop" /\ call[c].run = "done"
  /\ Goes(c, Finishes(call[c], call[c].verdict), prog[c])
  /\ UNCHANGED <<isolation, up, forks, cancels, crashes>>

\* Cgroups.remove, in a thread: kills what is left and removes the cgroup.
Removes(c) ==
  /\ call[c].killer
  /\ call' = [call EXCEPT ![c].killer = FALSE, ![c].cgroup = FALSE]
  /\ prog' = [prog EXCEPT ![c].procs = {}]
  /\ UNCHANGED <<isolation, up, line, forks, cancels, crashes>>

HasRemoved(c) ==
  /\ call[c].at = "remove" /\ ~call[c].killer
  /\ Goes(c, [call[c] EXCEPT !.at = "ended"], prog[c])
  /\ UNCHANGED <<isolation, up, forks, cancels, crashes>>

\* The caller is cancelled at any of its awaits. An install is run() itself; a
\* build cancels its task and waits for it, and another cancellation of the
\* caller reaches the task too. The thread that removes a cgroup goes on.
Cancel(c) ==
  /\ cancels < MaxCancels /\ cancels' = cancels + 1
  /\ \/ /\ call[c].at \in {"slot", "remove"}
        /\ Goes(c, [call[c] EXCEPT !.at = "ended", !.verdict = "cancelled"], prog[c])
     \/ /\ c \in Installs /\ call[c].at = "watch" /\ call[c].run \notin {"new", "done"}
        /\ Goes(c, CancelledRun(call[c]), CancelledProg(c))
     \/ /\ c \in Builds /\ call[c].at \in {"watch", "scan"}
        /\ IF call[c].run = "done"
           THEN Goes(c, Finishes(call[c], "cancelled"), prog[c])
           ELSE Goes(c, [CancelledRun(call[c]) EXCEPT !.at = "stop", !.verdict = "cancelled"],
                     CancelledProg(c))
     \/ /\ call[c].at = "stop" /\ call[c].run # "done"
        /\ Goes(c, CancelledRun(call[c]), CancelledProg(c))
  /\ UNCHANGED <<isolation, up, forks, crashes>>

-----------------------------------------------------------------------------
(* The server dies and starts again.                                        *)

\* What is in bubblewrap dies with the server.
Crash ==
  /\ up /\ crashes < MaxCrashes /\ crashes' = crashes + 1
  /\ up' = FALSE /\ line' = <<>>
  /\ call' = [c \in Calls |->
       IF call[c].at = "idle" THEN call[c]
       ELSE [Forgotten(call[c]) EXCEPT !.at = IF @ = "ended" THEN "ended" ELSE "gone",
                                       !.killer = FALSE]]
  /\ prog' = [c \in Calls |->
       [Unwatched(prog[c]) EXCEPT !.procs = IF Sandboxed(c) THEN {} ELSE @]]
  /\ UNCHANGED <<isolation, forks, cancels>>

\* setup(): Cgroups.delegate removes what was left of builds/.
Setup ==
  /\ ~up /\ up' = TRUE
  /\ call' = [c \in Calls |-> [call[c] EXCEPT !.cgroup = FALSE]]
  /\ prog' = [c \in Calls |->
       IF call[c].cgroup THEN [prog[c] EXCEPT !.procs = {}] ELSE prog[c]]
  /\ UNCHANGED <<isolation, line, forks, cancels, crashes>>

-----------------------------------------------------------------------------

Program(c) ==
  \/ \E p \in Processes : Forks(c, p)
  \/ \E p \in Processes, code \in {"ok", "error"} : Exits(c, p, code)
  \/ WritesTooMuch(c) \/ OutOfMemory(c)

\* What the event loop and its threads do by themselves.
Run(c) ==
  \/ Starts(c) \/ StartFails(c) \/ Connected(c) \/ Collected(c)
  \/ \E why \in {"timeout", "printed"} : Stopped(c, why)
  \/ KillTree(c) \/ Discarded(c)

Caller(c) ==
  \/ GetsSlot(c) \/ CreateFails(c) \/ Looks(c) \/ Scans(c) \/ StopsLarge(c)
  \/ Ends(c) \/ GoesOn(c) \/ HasStopped(c) \/ Removes(c) \/ HasRemoved(c)

Next ==
  \/ \E c \in Calls : \/ CallBuild(c) \/ CallInstall(c) \/ Program(c) \/ Run(c)
                      \/ Caller(c) \/ Cancel(c)
  \/ Crash \/ Setup

Spec == Init /\ [][Next]_vars

\* asyncio runs what is ready, a timeout of wait_for expires (Stopped is one of
\* the steps of Run), and threads come to an end. Programs need not do anything.
Fairness ==
  /\ \A c \in Calls : WF_vars(Run(c)) /\ WF_vars(Caller(c))
  /\ WF_vars(Setup)

FairSpec == Spec /\ Fairness

-----------------------------------------------------------------------------
(* The inductive invariant, for a call q and its program g.                 *)

UnderWay == {"watch", "scan", "stop"}

\* There is a process only between its start and the end of its call, or when it
\* was left behind.
NotStarted(q, g) ==
  /\ q.at \in {"idle", "slot"} => q.run = "none" /\ ~q.cgroup
  /\ q.run \in {"none", "new"} /\ q.at \notin {"ended", "gone"} => g.procs = {}
  /\ q.run = "none" <=> q.at \in {"idle", "slot", "ended", "gone"}
  /\ q.at = "remove" => q.run = "done"

\* Who has a cgroup and who removes it.
CgroupIsOwned(q, g) ==
  /\ q.cgroup => isolation = "full"
  /\ q.killer => q.cgroup /\ q.at \in {"remove", "ended"}
  /\ q.at \in UnderWay => ~q.killer /\ (isolation = "full" => q.cgroup)
  /\ q.at = "remove" /\ ~q.killer => g.procs = {} /\ ~q.cgroup
  /\ isolation = "full" /\ q.at = "remove" => q.killer \/ g.procs = {}
  /\ isolation = "full" /\ q.at \in {"ended", "gone"} =>
       g.procs = {} \/ q.cgroup
  /\ up /\ q.at \in {"ended", "gone"} => (q.cgroup => q.killer)

\* While the server is down there are no coroutines and no threads.
DownIsDown(q) == ~up => q.at \in {"idle", "ended", "gone"} /\ ~q.killer

\* From the kill on, nothing of the process group is left.
KilledIsKilled(q, g) ==
  (\/ q.run = "discard"
   \/ q.run = "done" /\ q.ending \notin {"exit", "failed"} /\ ~q.cut)
  => g.procs \intersect Group = {}

Good(q, g) ==
  NotStarted(q, g) /\ CgroupIsOwned(q, g) /\ DownIsDown(q) /\ KilledIsKilled(q, g)

IInv ==
  /\ TypeOK
  /\ \A c \in Calls : Good(call[c], prog[c])

\* What a thread has seen small only grew after it looked, and nobody looks at
\* what an install writes.
SmallIsTrue(c, q, g) ==
  /\ q.scan = "small" /\ g.wrote => g.late
  /\ c \in Installs => ~g.wrote

\* In the sandbox nothing is left to write once the first process has gone, so the
\* output of a build that has exited only grew unseen if the look began before.
EarlyIsTrue(c, q, g) ==
  /\ q.at \in {"idle", "slot", "watch"} => q.scan = "none"
  /\ q.at = "scan" /\ ~q.early => q.run = "done"
  /\ q.ending = "exit" => q.run = "done"
  /\ Sandboxed(c) =>
       /\ "main" \notin g.procs => g.procs = {}
       /\ q.ending = "exit" => "main" \notin g.procs
       /\ q.ending = "exit" /\ q.at = "scan" /\ q.scan = "small" /\ g.wrote => q.early

\* A build is in the line of the semaphore, once, exactly while it waits for a
\* slot or has one.
LineIsExact ==
  /\ line \in Seq(Builds) /\ IsInjective(line)
  /\ ToSet(line) = {c \in Builds : call[c].at \in {"slot", "remove"} \union UnderWay}

\* What every state satisfies.
Consistent ==
  /\ IInv /\ LineIsExact
  /\ \A c \in Calls : SmallIsTrue(c, call[c], prog[c]) /\ EarlyIsTrue(c, call[c], prog[c])

-----------------------------------------------------------------------------
(* What the isolation promises.                                             *)

\* sandbox.py:305-307 and 131-134. With cgroups: when a call has ended, or the
\* server has started again, and no thread is still removing its cgroup, nothing
\* of the program runs, not even what left its process group, and its cgroup is
\* gone. A cgroup that is still there belongs to a call under way.
NothingLeftRunning ==
  isolation = "full" =>
    \A c \in Calls :
      up /\ call[c].at \in {"ended", "gone"} /\ ~call[c].killer
        => prog[c].procs = {} /\ ~call[c].cgroup

\* process.py:114-119. Without them: when run() has stopped its command, for a
\* timeout, too much output or a cancellation, nothing of the command's process
\* group runs, unless run() was cancelled once more during that cleaning up
\* (process.py:118), or for the first time where there is none yet, while the
\* process was being connected (process.py:103).
GroupIsKilled ==
  \A c \in Calls :
    (call[c].run = "done" /\ call[c].ending \in {"timeout", "printed", "cancelled"} /\ ~call[c].cut)
      => prog[c].procs \intersect Group = {}

\* process.py:100-101, as the docstring has it: "on timeout, cancellation or more
\* than `max_output` bytes on stdout or stderr, the command and every process it
\* started are killed". Here without those that left the process group.
StoppedIsKilled ==
  \A c \in Calls :
    (call[c].run = "done" /\ call[c].ending \in {"timeout", "printed", "cancelled"})
      => prog[c].procs \intersect Group = {}

\* sandbox.py:287-303. A build whose output is over the limit is a success only if
\* the output grew after the folder was last read, in the sandbox moreover only
\* if the build still ran when that look began: what a build has written by its
\* end is found whenever the server looks once more after the end. An exit code of
\* another process, and a kill for its memory, are not a success either.
SuccessWasChecked ==
  [][\A c \in Calls :
       call'[c].verdict = "success" /\ call[c].verdict = "none" =>
         /\ call[c].ending = "exit" /\ prog[c].code = "ok"
         /\ ~(call[c].cgroup /\ prog[c].oom)
         /\ prog[c].wrote => prog[c].late /\ (Sandboxed(c) => call[c].early)]_vars

\* sandbox.py:291 "Once more when it's done: it may have written too much since the
\* last check", src/README.md:497-499: a build in the sandbox whose output is over
\* the limit is never a success.
LargeIsNoSuccess ==
  [][\A c \in Calls :
       call'[c].verdict = "success" /\ call[c].verdict = "none" /\ Sandboxed(c) =>
         ~prog[c].wrote]_vars

\* process.py:120-122, sandbox.py:280. Whoever asks for a program to be run gets
\* an answer, whatever the program does: the slots go round and no await is
\* without end.
EveryCallEnds ==
  []<>(\A c \in Calls : call[c].at \in {"idle", "ended", "gone"} /\ ~call[c].killer)
=============================================================================
