----------------------------- MODULE Toolchains -----------------------------
(* app/utils/toolchains.py: the programs that builds run with, one folder   *)
(* per version, installed on demand and one at a time. Folders are on disk; *)
(* the installs under way and the memory of failed ones are the server's.   *)
EXTENDS Naturals, SequencesExt

CONSTANTS
  Names,        \* the toolchains' names
  MaxInstalls   \* _MAX_INSTALLS, installs running or waiting at once

ASSUME MaxInstallsAssumption == MaxInstalls \in Nat \ {0}

VARIABLES
  folder,     \* folder[n]: absent, half-installed, or ready (it has .ready)
  fresh,      \* the ready toolchains that were used in the last week
  installs,   \* _installs: names in the order in which they take the lock
  stage,      \* how far the first of them is
  failures    \* _failures: what failed in the last ten minutes

tvars == <<folder, fresh, installs, stage, failures>>

ToolchainTypeOK ==
  /\ folder \in [Names -> {"absent", "half", "ready"}]
  /\ fresh \subseteq {n \in Names : folder[n] = "ready"}
  /\ installs \in SeqOf(Names, MaxInstalls) /\ IsInjective(installs)
  /\ stage \in {"fetch", "files", "installed", "failed"}
  /\ installs = <<>> => stage = "fetch"
  /\ failures \subseteq Names

ToolchainInit ==
  /\ folder = [n \in Names |-> "absent"]
  /\ fresh = {}
  /\ installs = <<>> /\ stage = "fetch"
  /\ failures = {}

IsInstalled(n) == folder[n] = "ready"

Installing(n) == \E i \in DOMAIN installs : installs[i] = n

\* Only what is missing is installed, and it is there once its install is through.
InstallsFit ==
  \A i \in DOMAIN installs : IsInstalled(installs[i]) <=> i = 1 /\ stage = "installed"

\* The install of n has failed, but its callback has not run yet.
JustFailed(n) == installs # <<>> /\ installs[1] = n /\ stage = "failed"

-----------------------------------------------------------------------------
(* What a caller finds. ensure() of an installed toolchain marks it as used *)
(* and returns, of one that failed it raises, of another it waits for the   *)
(* install, which it starts unless there is one.                            *)

\* Mutant: two callers of the same toolchain install it twice.
TwiceStarted(q, n) == IF Len(q) >= MaxInstalls THEN q ELSE Append(q, n)

\* The installs once n has been started, unless there are too many.
Started(q, n) ==
  IF Contains(q, n) \/ Len(q) >= MaxInstalls THEN q ELSE Append(q, n)

\* prepare(n): in the background, for nobody who waits.
Prepared(q, n) == IF IsInstalled(n) \/ n \in failures THEN q ELSE Started(q, n)

Raises(n) ==
  /\ ~IsInstalled(n)
  /\ n \in failures \/ JustFailed(n) \/ (~Installing(n) /\ Len(installs) >= MaxInstalls)

Waits(n) == ~IsInstalled(n) /\ ~Raises(n)

-----------------------------------------------------------------------------
(* The install at the head of the line holds the lock.                      *)

\* toolchain.spec() has answered; what an earlier attempt left is removed.
StartFiles ==
  /\ installs # <<>> /\ stage = "fetch"
  /\ stage' = "files"
  /\ folder' = [folder EXCEPT ![installs[1]] = "half"]
  /\ UNCHANGED <<fresh, installs, failures>>

\* .ready is written last.
Install ==
  /\ installs # <<>> /\ stage = "files"
  /\ stage' = "installed"
  /\ folder' = [folder EXCEPT ![installs[1]] = "ready"]
  /\ fresh' = fresh \union {installs[1]}
  /\ UNCHANGED <<installs, failures>>

\* No such version, no network, a command that fails or takes too long.
InstallFails ==
  /\ installs # <<>> /\ stage \in {"fetch", "files"}
  /\ stage' = "failed"
  /\ UNCHANGED <<folder, fresh, installs, failures>>

\* The callback of the install that has ended.
Finished ==
  /\ installs # <<>> /\ stage \in {"installed", "failed"}
  /\ installs' = Tail(installs) /\ stage' = "fetch"
  /\ failures' = IF stage = "failed" THEN failures \union {installs[1]}
                                     ELSE failures \ {installs[1]}
  /\ UNCHANGED <<folder, fresh>>

\* Ten minutes pass after a failure.
RetryAfter(n) ==
  /\ n \in failures
  /\ failures' = failures \ {n}
  /\ UNCHANGED <<folder, fresh, installs, stage>>

\* A week passes in which no build uses n.
GoesUnused(n) ==
  /\ n \in fresh
  /\ fresh' = fresh \ {n}
  /\ UNCHANGED <<folder, installs, stage, failures>>

-----------------------------------------------------------------------------

\* remove_unused(used), at the start, when nothing is being installed.
Removable(n, used) == n \notin used /\ ~(IsInstalled(n) /\ n \in fresh)

\* The server starts again: its memory is gone, what nobody needs is removed,
\* unless the install stopped before the folder looked like a toolchain, and what
\* the active workspaces need, in the order of the database, is prepared.
Restart(used, active) ==
  \E unlike \in SUBSET {n \in Names : folder[n] = "half"} :
  LET kept == [n \in Names |-> IF Removable(n, used) /\ n \notin unlike THEN "absent"
                                                                      ELSE folder[n]]
      missing == {n \in active : kept[n] # "ready"}
  IN /\ folder' = kept
     /\ fresh' = {n \in fresh : kept[n] = "ready"}
     /\ \E order \in SetToSeqs(missing) :
          installs' = SubSeq(order, 1, IF Len(order) < MaxInstalls THEN Len(order) ELSE MaxInstalls)
     /\ stage' = "fetch" /\ failures' = {}
=============================================================================
