--------------------------- MODULE CommandsProofs ---------------------------
(* Proofs about Commands: what a call leaves behind, for any number of      *)
(* calls, slots, forks, cancellations and deaths of the server.             *)
EXTENDS Commands, Integers, SequenceTheorems, WellFoundedInduction, TLAPS

\* What a step may do to the bounds and may not do to the rest.
Frame ==
  /\ UNCHANGED <<isolation, up>>
  /\ forks' \in 0..MaxForks /\ cancels' \in 0..MaxCancels /\ crashes' \in 0..MaxCrashes

\* A step that changes one call keeps the invariant if it keeps it for that call.
LEMMA OneCall ==
  ASSUME IInv, NEW c \in Calls, NEW q \in CallStates, NEW g \in ProgStates,
         Frame, Good(q, g),
         call' = [call EXCEPT ![c] = q], prog' = [prog EXCEPT ![c] = g]
  PROVE  IInv'
<1>1. TypeOK'
  BY DEF IInv, TypeOK, Frame
<1>2. \A d \in Calls : Good(call[d], prog[d])'
  <2> SUFFICES ASSUME NEW d \in Calls PROVE Good(call[d], prog[d])'
    OBVIOUS
  <2>1. Good(call'[d], prog'[d])
    BY DEF IInv, TypeOK
  <2>2. isolation' = isolation /\ up' = up
    BY DEF Frame
  <2>3. QED
    BY <2>1, <2>2 DEF Good, NotStarted, CgroupIsOwned, DownIsDown, KilledIsKilled
<1>3. QED
  BY <1>1, <1>2 DEF IInv

\* The server is up while a call is under way.
LEMMA UpAndGood ==
  ASSUME IInv, NEW c \in Calls
  PROVE  /\ call[c] \in CallStates /\ prog[c] \in ProgStates /\ Good(call[c], prog[c])
         /\ call[c].at \notin {"idle", "ended", "gone"} => up
BY DEF IInv, TypeOK, Good, DownIsDown

LEMMA NoFrame ==
  ASSUME IInv, UNCHANGED <<isolation, up, forks, cancels, crashes>>
  PROVE  Frame
BY DEF IInv, TypeOK, Frame

-----------------------------------------------------------------------------
(* The program.                                                             *)

USE DEF Processes, Group, Places, Stages, Endings, Verdicts, UnderWay

LEMMA ForksKeeps ==
  ASSUME IInv, NEW c \in Calls, NEW p \in Processes, Forks(c, p)
  PROVE  IInv'
<1> DEFINE q == call[c]
           g == [prog[c] EXCEPT !.procs = @ \union {p}]
<1>1. /\ call[c] \in CallStates /\ prog[c] \in ProgStates /\ Good(call[c], prog[c])
      /\ call[c].at \notin {"idle", "ended", "gone"} => up
  BY UpAndGood
<1>2. q \in CallStates /\ g \in ProgStates
  BY <1>1 DEF Forks, CallStates, ProgStates
<1>3. Good(q, g)
  BY <1>1 DEF Forks, Good, NotStarted, CgroupIsOwned, DownIsDown, KilledIsKilled,
              CallStates, ProgStates
<1>4. Frame
  <2>1. forks' \in 0..MaxForks
    BY CommandsAssumption DEF Forks, IInv, TypeOK
  <2>2. QED
    BY <2>1 DEF Forks, IInv, TypeOK, Frame
<1>5. call' = [call EXCEPT ![c] = q] /\ prog' = [prog EXCEPT ![c] = g]
  BY DEF Forks, IInv, TypeOK
<1>6. QED
  BY <1>1, <1>2, <1>3, <1>4, <1>5, OneCall

LEMMA ExitsKeeps ==
  ASSUME IInv, NEW c \in Calls, NEW p \in Processes, NEW code \in {"ok", "error"}, Exits(c, p, code)
  PROVE  IInv'
<1> DEFINE q == call[c]
           g == [prog[c] EXCEPT !.procs = Left(c, {p}), !.code = IF p = "main" THEN code ELSE @]
<1>1. /\ call[c] \in CallStates /\ prog[c] \in ProgStates /\ Good(call[c], prog[c])
      /\ call[c].at \notin {"idle", "ended", "gone"} => up
  BY UpAndGood
<1>2. q \in CallStates /\ g \in ProgStates
  BY <1>1 DEF Exits, CallStates, ProgStates, Left
<1>3. Good(q, g)
  BY <1>1 DEF Exits, Good, NotStarted, CgroupIsOwned, DownIsDown, KilledIsKilled,
              CallStates, ProgStates, Left
<1>4. Frame
  BY NoFrame DEF Exits
<1>5. call' = [call EXCEPT ![c] = q] /\ prog' = [prog EXCEPT ![c] = g]
  BY DEF Exits, IInv, TypeOK, Left
<1>6. QED
  BY <1>1, <1>2, <1>3, <1>4, <1>5, OneCall

LEMMA WritesTooMuchKeeps ==
  ASSUME IInv, NEW c \in Calls, WritesTooMuch(c)
  PROVE  IInv'
<1> DEFINE q == call[c]
           g == [prog[c] EXCEPT !.wrote = TRUE, !.late = (call[c].scan = "small")]
<1>1. /\ call[c] \in CallStates /\ prog[c] \in ProgStates /\ Good(call[c], prog[c])
      /\ call[c].at \notin {"idle", "ended", "gone"} => up
  BY UpAndGood
<1>2. q \in CallStates /\ g \in ProgStates
  BY <1>1 DEF WritesTooMuch, CallStates, ProgStates
<1>3. Good(q, g)
  BY <1>1 DEF WritesTooMuch, Good, NotStarted, CgroupIsOwned, DownIsDown, KilledIsKilled,
              CallStates, ProgStates
<1>4. Frame
  BY NoFrame DEF WritesTooMuch
<1>5. call' = [call EXCEPT ![c] = q] /\ prog' = [prog EXCEPT ![c] = g]
  BY DEF WritesTooMuch, IInv, TypeOK
<1>6. QED
  BY <1>1, <1>2, <1>3, <1>4, <1>5, OneCall

LEMMA OutOfMemoryKeeps ==
  ASSUME IInv, NEW c \in Calls, OutOfMemory(c)
  PROVE  IInv'
<1> DEFINE q == call[c]
           g == [prog[c] EXCEPT !.procs = {}, !.oom = TRUE,
                             !.code = IF "main" \in prog[c].procs THEN "error" ELSE @]
<1>1. /\ call[c] \in CallStates /\ prog[c] \in ProgStates /\ Good(call[c], prog[c])
      /\ call[c].at \notin {"idle", "ended", "gone"} => up
  BY UpAndGood
<1>2. q \in CallStates /\ g \in ProgStates
  BY <1>1 DEF OutOfMemory, CallStates, ProgStates
<1>3. Good(q, g)
  BY <1>1 DEF OutOfMemory, Good, NotStarted, CgroupIsOwned, DownIsDown, KilledIsKilled,
              CallStates, ProgStates
<1>4. Frame
  BY NoFrame DEF OutOfMemory
<1>5. call' = [call EXCEPT ![c] = q] /\ prog' = [prog EXCEPT ![c] = g]
  BY DEF OutOfMemory, IInv, TypeOK
<1>6. QED
  BY <1>1, <1>2, <1>3, <1>4, <1>5, OneCall

-----------------------------------------------------------------------------
(* run().                                                                   *)

LEMMA StartsKeeps ==
  ASSUME IInv, NEW c \in Calls, Starts(c)
  PROVE  IInv'
<1> DEFINE q == [call[c] EXCEPT !.run = "spawn"]
           g == [prog[c] EXCEPT !.procs = {"main"}]
<1>1. /\ call[c] \in CallStates /\ prog[c] \in ProgStates /\ Good(call[c], prog[c])
      /\ call[c].at \notin {"idle", "ended", "gone"} => up
  BY UpAndGood
<1>2. q \in CallStates /\ g \in ProgStates
  BY <1>1 DEF Starts, CallStates, ProgStates
<1>3. Good(q, g)
  BY <1>1 DEF Starts, Good, NotStarted, CgroupIsOwned, DownIsDown, KilledIsKilled,
              CallStates, ProgStates
<1>4. Frame
  BY NoFrame DEF Starts
<1>5. call' = [call EXCEPT ![c] = q] /\ prog' = [prog EXCEPT ![c] = g]
  BY DEF Starts, IInv, TypeOK
<1>6. QED
  BY <1>1, <1>2, <1>3, <1>4, <1>5, OneCall

LEMMA StartFailsKeeps ==
  ASSUME IInv, NEW c \in Calls, StartFails(c)
  PROVE  IInv'
<1> DEFINE q == [call[c] EXCEPT !.run = "done", !.ending = "failed"]
           g == prog[c]
<1>1. /\ call[c] \in CallStates /\ prog[c] \in ProgStates /\ Good(call[c], prog[c])
      /\ call[c].at \notin {"idle", "ended", "gone"} => up
  BY UpAndGood
<1>2. q \in CallStates /\ g \in ProgStates
  BY <1>1 DEF StartFails, CallStates, ProgStates
<1>3. Good(q, g)
  BY <1>1 DEF StartFails, Good, NotStarted, CgroupIsOwned, DownIsDown, KilledIsKilled,
              CallStates, ProgStates
<1>4. Frame
  BY NoFrame DEF StartFails
<1>5. call' = [call EXCEPT ![c] = q] /\ prog' = [prog EXCEPT ![c] = g]
  BY DEF StartFails, IInv, TypeOK
<1>6. QED
  BY <1>1, <1>2, <1>3, <1>4, <1>5, OneCall

LEMMA ConnectedKeeps ==
  ASSUME IInv, NEW c \in Calls, Connected(c)
  PROVE  IInv'
<1> DEFINE q == [call[c] EXCEPT !.run = "collect"]
           g == prog[c]
<1>1. /\ call[c] \in CallStates /\ prog[c] \in ProgStates /\ Good(call[c], prog[c])
      /\ call[c].at \notin {"idle", "ended", "gone"} => up
  BY UpAndGood
<1>2. q \in CallStates /\ g \in ProgStates
  BY <1>1 DEF Connected, CallStates, ProgStates
<1>3. Good(q, g)
  BY <1>1 DEF Connected, Good, NotStarted, CgroupIsOwned, DownIsDown, KilledIsKilled,
              CallStates, ProgStates
<1>4. Frame
  BY NoFrame DEF Connected
<1>5. call' = [call EXCEPT ![c] = q] /\ prog' = [prog EXCEPT ![c] = g]
  BY DEF Connected, IInv, TypeOK
<1>6. QED
  BY <1>1, <1>2, <1>3, <1>4, <1>5, OneCall

LEMMA CollectedKeeps ==
  ASSUME IInv, NEW c \in Calls, Collected(c)
  PROVE  IInv'
<1> DEFINE q == [call[c] EXCEPT !.run = "done", !.ending = "exit"]
           g == prog[c]
<1>1. /\ call[c] \in CallStates /\ prog[c] \in ProgStates /\ Good(call[c], prog[c])
      /\ call[c].at \notin {"idle", "ended", "gone"} => up
  BY UpAndGood
<1>2. q \in CallStates /\ g \in ProgStates
  BY <1>1 DEF Collected, CallStates, ProgStates
<1>3. Good(q, g)
  BY <1>1 DEF Collected, Good, NotStarted, CgroupIsOwned, DownIsDown, KilledIsKilled,
              CallStates, ProgStates
<1>4. Frame
  BY NoFrame DEF Collected
<1>5. call' = [call EXCEPT ![c] = q] /\ prog' = [prog EXCEPT ![c] = g]
  BY DEF Collected, IInv, TypeOK
<1>6. QED
  BY <1>1, <1>2, <1>3, <1>4, <1>5, OneCall

LEMMA StoppedKeeps ==
  ASSUME IInv, NEW c \in Calls, NEW why \in {"timeout", "printed"}, Stopped(c, why)
  PROVE  IInv'
<1> DEFINE q == [call[c] EXCEPT !.run = "readers", !.ending = why]
           g == prog[c]
<1>1. /\ call[c] \in CallStates /\ prog[c] \in ProgStates /\ Good(call[c], prog[c])
      /\ call[c].at \notin {"idle", "ended", "gone"} => up
  BY UpAndGood
<1>2. q \in CallStates /\ g \in ProgStates
  BY <1>1 DEF Stopped, CallStates, ProgStates
<1>3. Good(q, g)
  BY <1>1 DEF Stopped, Good, NotStarted, CgroupIsOwned, DownIsDown, KilledIsKilled,
              CallStates, ProgStates
<1>4. Frame
  BY NoFrame DEF Stopped
<1>5. call' = [call EXCEPT ![c] = q] /\ prog' = [prog EXCEPT ![c] = g]
  BY DEF Stopped, IInv, TypeOK
<1>6. QED
  BY <1>1, <1>2, <1>3, <1>4, <1>5, OneCall

LEMMA KillTreeKeeps ==
  ASSUME IInv, NEW c \in Calls, KillTree(c)
  PROVE  IInv'
<1> DEFINE q == [call[c] EXCEPT !.run = "discard"]
           g == [prog[c] EXCEPT !.procs = Left(c, Group),
                             !.code = IF "main" \in prog[c].procs THEN "error" ELSE @]
<1>1. /\ call[c] \in CallStates /\ prog[c] \in ProgStates /\ Good(call[c], prog[c])
      /\ call[c].at \notin {"idle", "ended", "gone"} => up
  BY UpAndGood
<1>2. q \in CallStates /\ g \in ProgStates
  BY <1>1 DEF KillTree, CallStates, ProgStates, Left
<1>3. Good(q, g)
  BY <1>1 DEF KillTree, Good, NotStarted, CgroupIsOwned, DownIsDown, KilledIsKilled,
              CallStates, ProgStates, Left
<1>4. Frame
  BY NoFrame DEF KillTree
<1>5. call' = [call EXCEPT ![c] = q] /\ prog' = [prog EXCEPT ![c] = g]
  BY DEF KillTree, IInv, TypeOK, Left
<1>6. QED
  BY <1>1, <1>2, <1>3, <1>4, <1>5, OneCall

LEMMA DiscardedKeeps ==
  ASSUME IInv, NEW c \in Calls, Discarded(c)
  PROVE  IInv'
<1> DEFINE q == [call[c] EXCEPT !.run = "done"]
           g == prog[c]
<1>1. /\ call[c] \in CallStates /\ prog[c] \in ProgStates /\ Good(call[c], prog[c])
      /\ call[c].at \notin {"idle", "ended", "gone"} => up
  BY UpAndGood
<1>2. q \in CallStates /\ g \in ProgStates
  BY <1>1 DEF Discarded, CallStates, ProgStates
<1>3. Good(q, g)
  BY <1>1 DEF Discarded, Good, NotStarted, CgroupIsOwned, DownIsDown, KilledIsKilled,
              CallStates, ProgStates
<1>4. Frame
  BY NoFrame DEF Discarded
<1>5. call' = [call EXCEPT ![c] = q] /\ prog' = [prog EXCEPT ![c] = g]
  BY DEF Discarded, IInv, TypeOK
<1>6. QED
  BY <1>1, <1>2, <1>3, <1>4, <1>5, OneCall

-----------------------------------------------------------------------------
(* run_build and run_limited.                                               *)

LEMMA CallBuildKeeps ==
  ASSUME IInv, NEW c \in Calls, CallBuild(c)
  PROVE  IInv'
<1> DEFINE q == [call[c] EXCEPT !.at = "slot"]
           g == prog[c]
<1>1. /\ call[c] \in CallStates /\ prog[c] \in ProgStates /\ Good(call[c], prog[c])
      /\ call[c].at \notin {"idle", "ended", "gone"} => up
  BY UpAndGood
<1>2. q \in CallStates /\ g \in ProgStates
  BY <1>1 DEF CallBuild, CallStates, ProgStates, MayCall
<1>3. Good(q, g)
  BY <1>1 DEF CallBuild, Good, NotStarted, CgroupIsOwned, DownIsDown, KilledIsKilled,
              CallStates, ProgStates, MayCall
<1>4. Frame
  BY NoFrame DEF CallBuild
<1>5. call' = [call EXCEPT ![c] = q] /\ prog' = [prog EXCEPT ![c] = g]
  BY DEF CallBuild, IInv, TypeOK, MayCall
<1>6. QED
  BY <1>1, <1>2, <1>3, <1>4, <1>5, OneCall

LEMMA CallInstallKeeps ==
  ASSUME IInv, NEW c \in Calls, CallInstall(c)
  PROVE  IInv'
<1> DEFINE q == [call[c] EXCEPT !.at = "watch", !.run = "new", !.cgroup = (isolation = "full")]
           g == prog[c]
<1>1. /\ call[c] \in CallStates /\ prog[c] \in ProgStates /\ Good(call[c], prog[c])
      /\ call[c].at \notin {"idle", "ended", "gone"} => up
  BY UpAndGood
<1>2. q \in CallStates /\ g \in ProgStates
  BY <1>1 DEF CallInstall, CallStates, ProgStates, MayCall, Runs
<1>3. Good(q, g)
  BY <1>1 DEF CallInstall, Good, NotStarted, CgroupIsOwned, DownIsDown, KilledIsKilled,
              CallStates, ProgStates, MayCall, Runs
<1>4. Frame
  BY NoFrame DEF CallInstall
<1>5. call' = [call EXCEPT ![c] = q] /\ prog' = [prog EXCEPT ![c] = g]
  BY DEF CallInstall, IInv, TypeOK, MayCall, Runs
<1>6. QED
  BY <1>1, <1>2, <1>3, <1>4, <1>5, OneCall

LEMMA GetsSlotKeeps ==
  ASSUME IInv, NEW c \in Calls, GetsSlot(c)
  PROVE  IInv'
<1> DEFINE q == [call[c] EXCEPT !.at = "watch", !.run = "new", !.cgroup = (isolation = "full")]
           g == prog[c]
<1>1. /\ call[c] \in CallStates /\ prog[c] \in ProgStates /\ Good(call[c], prog[c])
      /\ call[c].at \notin {"idle", "ended", "gone"} => up
  BY UpAndGood
<1>2. q \in CallStates /\ g \in ProgStates
  BY <1>1 DEF GetsSlot, CallStates, ProgStates, Runs
<1>3. Good(q, g)
  BY <1>1 DEF GetsSlot, Good, NotStarted, CgroupIsOwned, DownIsDown, KilledIsKilled,
              CallStates, ProgStates, Runs
<1>4. Frame
  BY NoFrame DEF GetsSlot
<1>5. call' = [call EXCEPT ![c] = q] /\ prog' = [prog EXCEPT ![c] = g]
  BY DEF GetsSlot, IInv, TypeOK, Runs
<1>6. QED
  BY <1>1, <1>2, <1>3, <1>4, <1>5, OneCall

LEMMA CreateFailsKeeps ==
  ASSUME IInv, NEW c \in Calls, CreateFails(c)
  PROVE  IInv'
<1> DEFINE q == [call[c] EXCEPT !.at = "ended", !.verdict = "failed"]
           g == prog[c]
<1>1. /\ call[c] \in CallStates /\ prog[c] \in ProgStates /\ Good(call[c], prog[c])
      /\ call[c].at \notin {"idle", "ended", "gone"} => up
  BY UpAndGood
<1>2. q \in CallStates /\ g \in ProgStates
  BY <1>1 DEF CreateFails, CallStates, ProgStates, MayCall
<1>3. Good(q, g)
  BY <1>1 DEF CreateFails, Good, NotStarted, CgroupIsOwned, DownIsDown, KilledIsKilled,
              CallStates, ProgStates, MayCall
<1>4. Frame
  BY NoFrame DEF CreateFails
<1>5. call' = [call EXCEPT ![c] = q] /\ prog' = [prog EXCEPT ![c] = g]
  BY DEF CreateFails, IInv, TypeOK, MayCall
<1>6. QED
  BY <1>1, <1>2, <1>3, <1>4, <1>5, OneCall

LEMMA LooksKeeps ==
  ASSUME IInv, NEW c \in Calls, Looks(c)
  PROVE  IInv'
<1> DEFINE q == [call[c] EXCEPT !.at = "scan", !.early = (call[c].run # "done")]
           g == prog[c]
<1>1. /\ call[c] \in CallStates /\ prog[c] \in ProgStates /\ Good(call[c], prog[c])
      /\ call[c].at \notin {"idle", "ended", "gone"} => up
  BY UpAndGood
<1>2. q \in CallStates /\ g \in ProgStates
  BY <1>1 DEF Looks, CallStates, ProgStates
<1>3. Good(q, g)
  BY <1>1 DEF Looks, Good, NotStarted, CgroupIsOwned, DownIsDown, KilledIsKilled,
              CallStates, ProgStates
<1>4. Frame
  BY NoFrame DEF Looks
<1>5. call' = [call EXCEPT ![c] = q] /\ prog' = [prog EXCEPT ![c] = g]
  BY DEF Looks, IInv, TypeOK
<1>6. QED
  BY <1>1, <1>2, <1>3, <1>4, <1>5, OneCall

LEMMA ScansKeeps ==
  ASSUME IInv, NEW c \in Calls, Scans(c)
  PROVE  IInv'
<1> DEFINE q == [call[c] EXCEPT !.scan = IF prog[c].wrote THEN "large" ELSE "small"]
           g == prog[c]
<1>1. /\ call[c] \in CallStates /\ prog[c] \in ProgStates /\ Good(call[c], prog[c])
      /\ call[c].at \notin {"idle", "ended", "gone"} => up
  BY UpAndGood
<1>2. q \in CallStates /\ g \in ProgStates
  BY <1>1 DEF Scans, CallStates, ProgStates
<1>3. Good(q, g)
  BY <1>1 DEF Scans, Good, NotStarted, CgroupIsOwned, DownIsDown, KilledIsKilled,
              CallStates, ProgStates
<1>4. Frame
  BY NoFrame DEF Scans
<1>5. call' = [call EXCEPT ![c] = q] /\ prog' = [prog EXCEPT ![c] = g]
  BY DEF Scans, IInv, TypeOK
<1>6. QED
  BY <1>1, <1>2, <1>3, <1>4, <1>5, OneCall

LEMMA GoesOnKeeps ==
  ASSUME IInv, NEW c \in Calls, GoesOn(c)
  PROVE  IInv'
<1> DEFINE q == [call[c] EXCEPT !.at = "watch", !.scan = "none", !.early = FALSE]
           g == prog[c]
<1>1. /\ call[c] \in CallStates /\ prog[c] \in ProgStates /\ Good(call[c], prog[c])
      /\ call[c].at \notin {"idle", "ended", "gone"} => up
  BY UpAndGood
<1>2. q \in CallStates /\ g \in ProgStates
  BY <1>1 DEF GoesOn, CallStates, ProgStates
<1>3. Good(q, g)
  BY <1>1 DEF GoesOn, Good, NotStarted, CgroupIsOwned, DownIsDown, KilledIsKilled,
              CallStates, ProgStates
<1>4. Frame
  BY NoFrame DEF GoesOn
<1>5. call' = [call EXCEPT ![c] = q] /\ prog' = [prog EXCEPT ![c] = g]
  BY DEF GoesOn, IInv, TypeOK
<1>6. QED
  BY <1>1, <1>2, <1>3, <1>4, <1>5, OneCall

LEMMA RemovesKeeps ==
  ASSUME IInv, NEW c \in Calls, Removes(c)
  PROVE  IInv'
<1> DEFINE q == [call[c] EXCEPT !.killer = FALSE, !.cgroup = FALSE]
           g == [prog[c] EXCEPT !.procs = {}]
<1>1. /\ call[c] \in CallStates /\ prog[c] \in ProgStates /\ Good(call[c], prog[c])
      /\ call[c].at \notin {"idle", "ended", "gone"} => up
  BY UpAndGood
<1>2. q \in CallStates /\ g \in ProgStates
  BY <1>1 DEF Removes, CallStates, ProgStates
<1>3. Good(q, g)
  BY <1>1 DEF Removes, Good, NotStarted, CgroupIsOwned, DownIsDown, KilledIsKilled,
              CallStates, ProgStates
<1>4. Frame
  BY NoFrame DEF Removes
<1>5. call' = [call EXCEPT ![c] = q] /\ prog' = [prog EXCEPT ![c] = g]
  BY DEF Removes, IInv, TypeOK
<1>6. QED
  BY <1>1, <1>2, <1>3, <1>4, <1>5, OneCall

\* A caller that goes on with a record that is good once it is forgotten.
LEMMA GoesKeeps ==
  ASSUME IInv, NEW c \in Calls, NEW q \in CallStates, NEW g \in ProgStates,
         Frame, Goes(c, q, g),
         q.at = "ended" => Good(Forgotten(q), Unwatched(g)),
         q.at # "ended" => Good(q, g)
  PROVE  IInv'
<1> DEFINE r == IF q.at = "ended" THEN Forgotten(q) ELSE q
           h == IF q.at = "ended" THEN Unwatched(g) ELSE g
<1>0. Forgotten(q) \in CallStates /\ Unwatched(g) \in ProgStates
  BY ZenonT(40) DEF Forgotten, Unwatched, CallStates, ProgStates
<1>1. r \in CallStates /\ h \in ProgStates
  BY <1>0
<1>2. Good(r, h)
  OBVIOUS
<1>3. call' = [call EXCEPT ![c] = r] /\ prog' = [prog EXCEPT ![c] = h]
  BY DEF Goes
<1>4. QED
  BY <1>1, <1>2, <1>3, OneCall

\* The finally clause after a run() that is done.
LEMMA FinishesIsGood ==
  ASSUME IInv, NEW c \in Calls, NEW v \in Verdicts,
         call[c].at \in UnderWay, call[c].run = "done"
  PROVE  LET q == Finishes(call[c], v) IN
         /\ q \in CallStates
         /\ q.at = "ended" => Good(Forgotten(q), Unwatched(prog[c]))
         /\ q.at # "ended" => Good(q, prog[c])
<1>1. /\ call[c] \in CallStates /\ prog[c] \in ProgStates /\ Good(call[c], prog[c])
      /\ up /\ isolation \in {"none", "sandbox", "full"}
  BY UpAndGood DEF IInv, TypeOK
<1>2. Finishes(call[c], v) \in CallStates
  BY <1>1 DEF Finishes, CallStates
<1>3. CASE call[c].cgroup
  BY <1>1, <1>2, <1>3 DEF Finishes, Good, NotStarted, CgroupIsOwned, DownIsDown, KilledIsKilled,
                          CallStates, ProgStates
<1>4. CASE ~call[c].cgroup
  <2> DEFINE q == Forgotten(Finishes(call[c], v))
             g == Unwatched(prog[c])
  <2>1. /\ q.at = "ended" /\ q.run = "none" /\ ~q.cgroup /\ ~q.killer
        /\ g.procs = prog[c].procs
    BY <1>1, <1>4 DEF Finishes, Forgotten, Unwatched, Good, CgroupIsOwned, CallStates, ProgStates
  <2>2. isolation # "full"
    BY <1>1, <1>4 DEF Good, CgroupIsOwned
  <2>3. Good(q, g)
    BY <1>1, <2>1, <2>2 DEF Good, NotStarted, CgroupIsOwned, DownIsDown, KilledIsKilled
  <2>4. Finishes(call[c], v).at = "ended"
    BY <1>1, <1>4 DEF Finishes, CallStates
  <2>5. QED
    BY <1>2, <2>3, <2>4
<1>5. QED
  BY <1>3, <1>4

\* A cancellation that reaches run().
LEMMA CancelledIsGood ==
  ASSUME IInv, NEW c \in Calls, NEW w \in {"watch", "stop"}, NEW v \in Verdicts,
         call[c].at \in UnderWay, call[c].run # "done"
  PROVE  LET q == [CancelledRun(call[c]) EXCEPT !.at = w, !.verdict = v]
             g == CancelledProg(c) IN
         q \in CallStates /\ g \in ProgStates /\ Good(q, g) /\ q.at # "ended"
<1> DEFINE q == [CancelledRun(call[c]) EXCEPT !.at = w, !.verdict = v]
           g == CancelledProg(c)
<1>1. /\ call[c] \in CallStates /\ prog[c] \in ProgStates /\ Good(call[c], prog[c])
      /\ up
  BY UpAndGood
<1>2. call[c].run \in {"new", "spawn", "collect", "readers", "discard"}
  BY <1>1 DEF Good, NotStarted, CallStates
<1>3. q \in CallStates /\ g \in ProgStates
  <2>1. CancelledRun(call[c]) \in CallStates
    BY <1>1, <1>2, ZenonT(40) DEF CancelledRun, CallStates
  <2>2. q \in CallStates
    BY <2>1, ZenonT(40) DEF CallStates
  <2>3. Left(c, {"main"}) \in SUBSET Processes
    BY <1>1 DEF Left, ProgStates
  <2>4. g \in ProgStates
    BY <1>1, <2>3 DEF CancelledProg, ProgStates
  <2>5. QED
    BY <2>2, <2>4
<1>4. /\ q.at = w /\ q.cgroup = call[c].cgroup /\ q.killer = call[c].killer
      /\ q.run = IF call[c].run = "collect" THEN "readers" ELSE "done"
      /\ q.ending = "cancelled"
      /\ q.cut = (call[c].cut \/ call[c].run \in {"spawn", "readers"})
  BY <1>1, <1>2 DEF CancelledRun, CallStates
<1>5. call[c].run # "spawn" => g = prog[c]
  BY DEF CancelledProg
<1>6. Good(q, g)
  <2>1. NotStarted(q, g)
    BY <1>1, <1>2, <1>4 DEF Good, NotStarted
  <2>2. CgroupIsOwned(q, g) /\ DownIsDown(q)
    BY <1>1, <1>4 DEF Good, CgroupIsOwned, DownIsDown
  <2>3. KilledIsKilled(q, g)
    <3>1. CASE call[c].run = "new"
      <4>1. prog[c].procs = {} /\ g = prog[c]
        BY <1>1, <1>5, <3>1 DEF Good, NotStarted
      <4>2. QED
        BY <4>1 DEF KilledIsKilled
    <3>2. CASE call[c].run = "discard"
      <4>1. prog[c].procs \intersect Group = {} /\ g = prog[c]
        BY <1>1, <1>5, <3>2 DEF Good, KilledIsKilled
      <4>2. QED
        BY <4>1 DEF KilledIsKilled
    <3>3. CASE call[c].run = "collect"
      BY <1>4, <3>3 DEF KilledIsKilled
    <3>4. CASE call[c].run \in {"spawn", "readers"}
      <4>1. q.run = "done" /\ q.cut
        BY <1>1, <1>4, <3>4 DEF CallStates
      <4>2. QED
        BY <4>1 DEF KilledIsKilled
    <3>5. QED
      BY <1>2, <3>1, <3>2, <3>3, <3>4
  <2>4. QED
    BY <2>1, <2>2, <2>3 DEF Good
<1>7. QED
  BY <1>3, <1>4, <1>6

LEMMA StopsLargeKeeps ==
  ASSUME IInv, NEW c \in Calls, StopsLarge(c)
  PROVE  IInv'
<1>1. Frame /\ call[c].at \in UnderWay /\ prog[c] \in ProgStates
  BY NoFrame, UpAndGood DEF StopsLarge
<1>2. CASE call[c].run = "done"
  <2>1. Goes(c, Finishes(call[c], "large"), prog[c])
    BY <1>2 DEF StopsLarge
  <2>2. QED
    BY <1>1, <1>2, <2>1, FinishesIsGood, GoesKeeps
<1>3. CASE call[c].run # "done"
  <2>1. Goes(c, [CancelledRun(call[c]) EXCEPT !.at = "stop", !.verdict = "large"], CancelledProg(c))
    BY <1>3 DEF StopsLarge
  <2>2. QED
    BY <1>1, <1>3, <2>1, CancelledIsGood, GoesKeeps
<1>4. QED
  BY <1>2, <1>3

LEMMA EndsKeeps ==
  ASSUME IInv, NEW c \in Calls, Ends(c)
  PROVE  IInv'
<1>1. Frame /\ call[c].at \in UnderWay /\ prog[c] \in ProgStates /\ call[c] \in CallStates
  BY NoFrame, UpAndGood DEF Ends
<1>2. VerdictOf(c) \in Verdicts
  BY <1>1 DEF VerdictOf, CallStates
<1>3. QED
  BY <1>1, <1>2, FinishesIsGood, GoesKeeps DEF Ends

LEMMA HasStoppedKeeps ==
  ASSUME IInv, NEW c \in Calls, HasStopped(c)
  PROVE  IInv'
<1>1. Frame /\ call[c].at \in UnderWay /\ prog[c] \in ProgStates /\ call[c] \in CallStates
  BY NoFrame, UpAndGood DEF HasStopped
<1>2. call[c].verdict \in Verdicts
  BY <1>1 DEF CallStates
<1>3. QED
  BY <1>1, <1>2, FinishesIsGood, GoesKeeps DEF HasStopped

\* The call ends where nothing is left, or where the thread that removes its
\* cgroup goes on.
LEMMA LeavesIsGood ==
  ASSUME IInv, NEW c \in Calls, NEW v \in Verdicts, call[c].at \in {"slot", "remove"}
  PROVE  LET q == [call[c] EXCEPT !.at = "ended", !.verdict = v] IN
         q \in CallStates /\ q.at = "ended" /\ Good(Forgotten(q), Unwatched(prog[c]))
<1> DEFINE q == Forgotten([call[c] EXCEPT !.at = "ended", !.verdict = v])
           g == Unwatched(prog[c])
<1>1. call[c] \in CallStates /\ prog[c] \in ProgStates /\ Good(call[c], prog[c]) /\ up
  BY UpAndGood
<1>2. /\ q.at = "ended" /\ q.run = "none" /\ g.procs = prog[c].procs
      /\ q.cgroup = call[c].cgroup /\ q.killer = call[c].killer
  BY <1>1 DEF Forgotten, Unwatched, CallStates, ProgStates
<1>3. Good(q, g)
  BY <1>1, <1>2 DEF Good, NotStarted, CgroupIsOwned, DownIsDown, KilledIsKilled
<1>4. QED
  BY <1>1, <1>3, ZenonT(40) DEF CallStates

LEMMA HasRemovedKeeps ==
  ASSUME IInv, NEW c \in Calls, HasRemoved(c)
  PROVE  IInv'
<1> DEFINE q == [call[c] EXCEPT !.at = "ended", !.verdict = call[c].verdict]
<1>1. Frame /\ prog[c] \in ProgStates /\ call[c] \in CallStates
  BY NoFrame, UpAndGood DEF HasRemoved
<1>2. call[c].verdict \in Verdicts /\ q = [call[c] EXCEPT !.at = "ended"]
  BY <1>1 DEF CallStates
<1>3. Goes(c, q, prog[c])
  BY <1>2 DEF HasRemoved
<1>4. q \in CallStates /\ q.at = "ended" /\ Good(Forgotten(q), Unwatched(prog[c]))
  BY <1>2, LeavesIsGood DEF HasRemoved
<1>5. QED
  BY <1>1, <1>3, <1>4, GoesKeeps

LEMMA CancelKeeps ==
  ASSUME IInv, NEW c \in Calls, Cancel(c)
  PROVE  IInv'
<1>1. prog[c] \in ProgStates /\ call[c] \in CallStates
  BY UpAndGood
<1>2. Frame
  <2>1. cancels' \in 0..MaxCancels
    BY CommandsAssumption DEF Cancel, IInv, TypeOK
  <2>2. QED
    BY <2>1 DEF Cancel, IInv, TypeOK, Frame
<1>3. CASE call[c].at \in {"slot", "remove"}
  <2>1. Goes(c, [call[c] EXCEPT !.at = "ended", !.verdict = "cancelled"], prog[c])
    BY <1>3 DEF Cancel
  <2>2. QED
    BY <1>1, <1>2, <1>3, <2>1, LeavesIsGood, GoesKeeps
<1>4. CASE call[c].at \in UnderWay /\ call[c].run = "done"
  <2>1. Goes(c, Finishes(call[c], "cancelled"), prog[c])
    BY <1>4 DEF Cancel
  <2>2. QED
    BY <1>1, <1>2, <1>4, <2>1, FinishesIsGood, GoesKeeps
<1>5. CASE call[c].at \in UnderWay /\ call[c].run # "done"
  <2>1. PICK w \in {"watch", "stop"}, v \in Verdicts :
          Goes(c, [CancelledRun(call[c]) EXCEPT !.at = w, !.verdict = v], CancelledProg(c))
    <3>1. call[c].verdict \in Verdicts /\ CancelledRun(call[c]).at = call[c].at
      BY <1>1 DEF CancelledRun, CallStates
    <3>2. CancelledRun(call[c]) =
            [CancelledRun(call[c]) EXCEPT !.at = call[c].at, !.verdict = call[c].verdict]
      BY <1>1 DEF CancelledRun, CallStates
    <3>3. CASE Goes(c, CancelledRun(call[c]), CancelledProg(c)) /\ call[c].at \in {"watch", "stop"}
      BY <3>1, <3>2, <3>3
    <3>4. CASE Goes(c, [CancelledRun(call[c]) EXCEPT !.at = "stop", !.verdict = "cancelled"],
                    CancelledProg(c))
      BY <3>4
    <3>5. QED
      BY <1>5, <3>3, <3>4 DEF Cancel
  <2>2. QED
    BY <1>2, <1>5, <2>1, CancelledIsGood, GoesKeeps
<1>6. QED
  BY <1>3, <1>4, <1>5 DEF Cancel

-----------------------------------------------------------------------------
(* The server.                                                              *)

LEMMA CrashKeeps == ASSUME IInv, Crash PROVE IInv'
<1>1. TypeOK'
  <2>1. crashes' \in 0..MaxCrashes
    <3>1. crashes < MaxCrashes /\ crashes' = crashes + 1 /\ crashes \in 0..MaxCrashes
      BY DEF Crash, IInv, TypeOK
    <3>2. QED
      BY <3>1, CommandsAssumption
  <2>2. call' \in [Calls -> CallStates]
    <3> SUFFICES ASSUME NEW c \in Calls PROVE call'[c] \in CallStates
      BY DEF Crash
    <3>1. call[c] \in CallStates /\ Forgotten(call[c]) \in CallStates
      BY UpAndGood DEF Forgotten, CallStates
    <3>2. [Forgotten(call[c]) EXCEPT !.at = IF @ = "ended" THEN "ended" ELSE "gone",
                                     !.killer = FALSE] \in CallStates
      BY <3>1, ZenonT(40) DEF CallStates
    <3>3. QED
      BY <3>1, <3>2 DEF Crash
  <2>3. prog' \in [Calls -> ProgStates]
    <3> SUFFICES ASSUME NEW c \in Calls PROVE prog'[c] \in ProgStates
      BY DEF Crash
    <3>1. Unwatched(prog[c]) \in ProgStates
      BY UpAndGood DEF Unwatched, ProgStates
    <3>2. \A a \in BOOLEAN :
            [Unwatched(prog[c]) EXCEPT !.procs = IF a THEN {} ELSE @] \in ProgStates
      BY <3>1 DEF ProgStates
    <3>3. prog'[c] = [Unwatched(prog[c]) EXCEPT !.procs = IF Sandboxed(c) THEN {} ELSE @]
      BY DEF Crash
    <3>4. Sandboxed(c) \in BOOLEAN
      BY DEF Sandboxed
    <3>5. QED
      BY <3>2, <3>3, <3>4
  <2>4. QED
    BY <2>1, <2>2, <2>3 DEF Crash, IInv, TypeOK
<1>2. \A c \in Calls : Good(call[c], prog[c])'
  <2> SUFFICES ASSUME NEW c \in Calls PROVE Good(call[c], prog[c])'
    OBVIOUS
  <2>1. /\ call[c] \in CallStates /\ prog[c] \in ProgStates /\ Good(call[c], prog[c])
        /\ ~up' /\ isolation' = isolation
    BY UpAndGood DEF Crash
  <2>2. \/ call'[c] = call[c] /\ call[c].at = "idle"
        \/ /\ call'[c].at \in {"ended", "gone"} /\ call'[c].run = "none"
           /\ call'[c].cgroup = call[c].cgroup /\ call'[c].killer = FALSE
    BY <2>1 DEF Crash, Forgotten, CallStates
  <2>3. prog'[c].procs \in {{}, prog[c].procs}
    BY <2>1 DEF Crash, Unwatched, ProgStates
  <2>4. CASE call'[c] = call[c] /\ call[c].at = "idle"
    <3>1. prog'[c].procs = {} /\ call[c].run = "none" /\ ~call[c].cgroup /\ ~call[c].killer
      BY <2>1, <2>3, <2>4 DEF Good, NotStarted, CgroupIsOwned
    <3>2. QED
      BY <2>1, <2>4, <3>1 DEF Good, NotStarted, CgroupIsOwned, DownIsDown, KilledIsKilled
  <2>5. CASE /\ call'[c].at \in {"ended", "gone"} /\ call'[c].run = "none"
             /\ call'[c].cgroup = call[c].cgroup /\ call'[c].killer = FALSE
    <3>1. isolation = "full" => prog'[c].procs = {} \/ call'[c].cgroup
      BY <2>1, <2>3, <2>5 DEF Good, NotStarted, CgroupIsOwned, CallStates
    <3>2. call'[c].cgroup => isolation = "full"
      BY <2>1, <2>5 DEF Good, CgroupIsOwned
    <3>3. QED
      BY <2>1, <2>5, <3>1, <3>2
         DEF Good, NotStarted, CgroupIsOwned, DownIsDown, KilledIsKilled
  <2>6. QED
    BY <2>2, <2>4, <2>5
<1>3. QED
  BY <1>1, <1>2 DEF IInv

LEMMA SetupKeeps == ASSUME IInv, Setup PROVE IInv'
<1>1. TypeOK'
  <2>1. call' \in [Calls -> CallStates]
    <3>1. \A c \in Calls : [call[c] EXCEPT !.cgroup = FALSE] \in CallStates
      BY UpAndGood, ZenonT(40) DEF CallStates
    <3>2. QED
      BY <3>1 DEF Setup
  <2>2. prog' \in [Calls -> ProgStates]
    <3>1. \A c \in Calls : [prog[c] EXCEPT !.procs = {}] \in ProgStates
      BY UpAndGood DEF ProgStates
    <3>2. \A c \in Calls : prog'[c] \in ProgStates
      BY <3>1, UpAndGood DEF Setup
    <3>3. QED
      BY <3>2 DEF Setup
  <2>3. QED
    BY <2>1, <2>2 DEF Setup, IInv, TypeOK
<1>2. \A c \in Calls : Good(call[c], prog[c])'
  <2> SUFFICES ASSUME NEW c \in Calls PROVE Good(call[c], prog[c])'
    OBVIOUS
  <2>1. /\ call[c] \in CallStates /\ prog[c] \in ProgStates /\ Good(call[c], prog[c])
        /\ ~up /\ up' /\ isolation' = isolation
    BY UpAndGood DEF Setup
  <2>2. call'[c] = [call[c] EXCEPT !.cgroup = FALSE]
    BY DEF Setup
  <2>3. prog'[c].procs = IF call[c].cgroup THEN {} ELSE prog[c].procs
    BY <2>1 DEF Setup, ProgStates
  <2>4. QED
    BY <2>1, <2>2, <2>3 DEF Good, NotStarted, CgroupIsOwned, DownIsDown, KilledIsKilled, CallStates
<1>3. QED
  BY <1>1, <1>2 DEF IInv

-----------------------------------------------------------------------------

LEMMA InitHolds == Init => IInv
BY CommandsAssumption DEF Init, IInv, TypeOK, Good, NotStarted, CgroupIsOwned, DownIsDown,
   KilledIsKilled, CallStates, ProgStates

LEMMA StutterKeeps == ASSUME IInv, UNCHANGED vars PROVE IInv'
BY DEF vars, IInv, TypeOK, Good, NotStarted, CgroupIsOwned, DownIsDown, KilledIsKilled

LEMMA StepKeeps == ASSUME IInv, [Next]_vars PROVE IInv'
<1>1. ASSUME NEW c \in Calls, Program(c) PROVE IInv'
  BY <1>1, ForksKeeps, ExitsKeeps, WritesTooMuchKeeps, OutOfMemoryKeeps DEF Program
<1>2. ASSUME NEW c \in Calls, Run(c) PROVE IInv'
  BY <1>2, StartsKeeps, StartFailsKeeps, ConnectedKeeps, CollectedKeeps, StoppedKeeps,
     KillTreeKeeps, DiscardedKeeps DEF Run
<1>3. ASSUME NEW c \in Calls, Caller(c) PROVE IInv'
  BY <1>3, GetsSlotKeeps, CreateFailsKeeps, LooksKeeps, ScansKeeps, StopsLargeKeeps, EndsKeeps,
     GoesOnKeeps, HasStoppedKeeps, RemovesKeeps, HasRemovedKeeps DEF Caller
<1>4. CASE UNCHANGED vars
  BY <1>4, StutterKeeps
<1>5. CASE Next
  BY <1>1, <1>2, <1>3, <1>5, CallBuildKeeps, CallInstallKeeps, CancelKeeps, CrashKeeps,
     SetupKeeps DEF Next
<1>6. QED
  BY <1>4, <1>5

-----------------------------------------------------------------------------
(* The line of the semaphore.                                               *)

\* A line of the builds in S, each of them once.
Line(q, S) == q \in Seq(Builds) /\ IsInjective(q) /\ ToSet(q) = S

\* A sequence without one of its elements.
LEMMA RemoveAtFacts ==
  ASSUME NEW S, NEW q \in Seq(S), NEW i \in 1..Len(q)
  PROVE  /\ RemoveAt(q, i) \in Seq(S)
         /\ Len(RemoveAt(q, i)) = Len(q) - 1
         /\ \A j \in 1..Len(q) - 1 :
              RemoveAt(q, i)[j] = IF j < i THEN q[j] ELSE q[j + 1]
<1> DEFINE a == SubSeq(q, 1, i - 1)
           b == SubSeq(q, i + 1, Len(q))
<1>0. Len(q) \in Nat /\ \A j \in 1..Len(q) : q[j] \in S
  BY LenProperties, ElementOfSeq
<1>1. /\ a \in Seq(S)
      /\ Len(a) = i - 1
      /\ \A j \in 1..i - 1 : a[j] = q[j]
  OBVIOUS
<1>2. /\ b \in Seq(S)
      /\ Len(b) = Len(q) - i
      /\ \A j \in 1..Len(q) - i : b[j] = q[i + j]
  OBVIOUS
<1>3. RemoveAt(q, i) = a \o b
  BY DEF RemoveAt
<1> HIDE DEF a, b
<1>4. /\ a \o b \in Seq(S)
      /\ Len(a \o b) = Len(a) + Len(b)
      /\ \A j \in 1..Len(a) + Len(b) :
           (a \o b)[j] = IF j <= Len(a) THEN a[j] ELSE b[j - Len(a)]
  BY <1>1, <1>2, ConcatProperties
<1>5. Len(a) + Len(b) = Len(q) - 1
  BY <1>0, <1>1, <1>2
<1>6. ASSUME NEW j \in 1..Len(q) - 1
      PROVE  (a \o b)[j] = IF j < i THEN q[j] ELSE q[j + 1]
  <2>1. CASE j < i
    BY <2>1, <1>0, <1>1, <1>4, <1>5
  <2>2. CASE ~(j < i)
    <3>1. j - (i - 1) \in 1..Len(q) - i /\ i + (j - (i - 1)) = j + 1
      BY <2>2, <1>0
    <3>2. (a \o b)[j] = b[j - (i - 1)]
      BY <2>2, <1>0, <1>1, <1>4, <1>5
    <3>3. b[j - (i - 1)] = q[i + (j - (i - 1))]
      BY <3>1, <1>2
    <3>4. QED
      BY <2>2, <3>1, <3>2, <3>3
  <2>3. QED
    BY <2>1, <2>2
<1>7. QED
  BY <1>3, <1>4, <1>5, <1>6

\* The place of the first element that is e.
PlaceOf(q, e) == SelectInSeq(q, LAMBDA v : v = e)

\* It is e's place.
LEMMA PlaceFacts ==
  ASSUME NEW S, NEW q \in Seq(S), NEW e, NEW i \in 1..Len(q), q[i] = e
  PROVE  PlaceOf(q, e) \in 1..Len(q) /\ q[PlaceOf(q, e)] = e
<1> DEFINE I == { j \in 1..Len(q) : q[j] = e }
<1>1. i \in I /\ I \subseteq Nat /\ Len(q) \in Nat
  BY LenProperties
<1>2. \E x \in I : \A y \in I : x <= y
  <2> DEFINE R == OpToRel(<, Nat)
  <2>1. IsWellFoundedOn(R, Nat)
    BY NatLessThanWellFounded
  <2>2. \A x \in Nat, y \in Nat : <<x, y>> \in R <=> x < y
    BY DEF OpToRel
  <2> HIDE DEF R
  <2>3. PICK m \in I : \A y \in I : ~ (<<y, m>> \in R)
    BY <1>1, <2>1, WFMin
  <2>4. ASSUME NEW y \in I PROVE m <= y
    <3>1. m \in Nat /\ y \in Nat
      BY <1>1
    <3>2. ~(y < m)
      BY <2>2, <2>3, <3>1
    <3>3. QED
      BY <3>1, <3>2
  <2>5. QED
    BY <2>4
<1>3. PlaceOf(q, e) = CHOOSE x \in I : \A y \in I : x <= y
  BY <1>1 DEF PlaceOf, SelectInSeq, Min
<1>4. QED
  BY <1>2, <1>3

\* A line without one that has at most one place there.
LEMMA WithoutFacts ==
  ASSUME NEW S, NEW q, Line(q, S), NEW r
  PROVE  Line(Without(q, r), S \ {r})
<1>1. /\ q \in Seq(Builds) /\ Len(q) \in Nat /\ DOMAIN q = 1..Len(q)
      /\ \A i, j \in 1..Len(q) : q[i] = q[j] => i = j
      /\ \A x : x \in S <=> \E i \in 1..Len(q) : q[i] = x
      /\ q = <<>> <=> Len(q) = 0
  BY LenProperties, EmptySeq DEF Line, IsInjective, ToSet
<1>2. CASE r \notin S
  <2>1. Without(q, r) = q
    BY <1>1, <1>2 DEF Without, RemoveFirst
  <2>2. S \ {r} = S
    BY <1>2
  <2>3. QED
    BY <2>1, <2>2
<1>3. CASE r \in S
  <2> DEFINE p == PlaceOf(q, r)
             t == Without(q, r)
  <2>1. PICK n \in 1..Len(q) : q[n] = r
    BY <1>1, <1>3
  <2>2. p \in 1..Len(q) /\ q[p] = r
    BY <1>1, <2>1, PlaceFacts
  <2>3. t = RemoveAt(q, p)
    BY <2>1 DEF Without, RemoveFirst, PlaceOf
  <2> HIDE DEF p, t
  <2>4. /\ t \in Seq(Builds) /\ Len(t) = Len(q) - 1
        /\ \A j \in 1..Len(t) : t[j] = IF j < p THEN q[j] ELSE q[j + 1]
        /\ DOMAIN t = 1..Len(t)
        /\ t = <<>> <=> Len(t) = 0
    <3>1. /\ t \in Seq(Builds) /\ Len(t) = Len(q) - 1
          /\ \A j \in 1..Len(q) - 1 : t[j] = IF j < p THEN q[j] ELSE q[j + 1]
      <4>1. q \in Seq(Builds) /\ p \in 1..Len(q)
        BY <1>1, <2>2
      <4>2. /\ RemoveAt(q, p) \in Seq(Builds)
            /\ Len(RemoveAt(q, p)) = Len(q) - 1
            /\ \A j \in 1..Len(q) - 1 :
                 RemoveAt(q, p)[j] = IF j < p THEN q[j] ELSE q[j + 1]
        BY <4>1, RemoveAtFacts
      <4>3. QED
        BY <2>3, <4>2
    <3>2. DOMAIN t = 1..Len(t)
      BY <3>1, LenProperties
    <3>3. t = <<>> <=> Len(t) = 0
      BY <3>1, EmptySeq
    <3>4. QED
      BY <3>1, <3>2, <3>3
  <2>5. IsInjective(t)
    <3> SUFFICES ASSUME NEW i \in 1..Len(t), NEW j \in 1..Len(t), t[i] = t[j]
                 PROVE  i = j
      BY <2>4 DEF IsInjective
    <3> DEFINE at(k) == IF k < p THEN k ELSE k + 1
    <3>1. at(i) \in 1..Len(q) /\ at(j) \in 1..Len(q) /\ q[at(i)] = q[at(j)]
      BY <1>1, <2>4
    <3>2. at(i) = at(j)
      BY <1>1, <3>1
    <3>3. QED
      BY <1>1, <2>2, <2>4, <3>2
  <2>6. \A x \in ToSet(t) : x \in S \ {r}
    <3> SUFFICES ASSUME NEW i \in 1..Len(t) PROVE t[i] \in S /\ t[i] # r
      BY <2>4 DEF ToSet
    <3> DEFINE at == IF i < p THEN i ELSE i + 1
    <3>1. at \in 1..Len(q) /\ at # p /\ t[i] = q[at]
      BY <1>1, <2>2, <2>4
    <3>2. QED
      BY <1>1, <2>2, <3>1
  <2>7. ASSUME NEW x \in S, x # r PROVE \E i \in 1..Len(t) : t[i] = x
    <3>1. PICK j \in 1..Len(q) : q[j] = x
      BY <1>1
    <3>2. CASE j < p
      <4>1. j \in 1..Len(t)
        BY <1>1, <2>2, <2>4, <3>2
      <4>2. QED
        BY <2>4, <3>1, <3>2, <4>1
    <3>3. CASE j > p
      <4>1. j - 1 \in 1..Len(t) /\ ~(j - 1 < p) /\ (j - 1) + 1 = j
        BY <1>1, <2>2, <2>4, <3>3
      <4>2. t[j - 1] = x
        BY <2>4, <3>1, <4>1
      <4>3. QED
        BY <4>1, <4>2
    <3>4. j # p
      BY <2>2, <2>7, <3>1
    <3>5. QED
      BY <2>2, <3>2, <3>3, <3>4
  <2>8. ToSet(t) = S \ {r}
    BY <2>4, <2>6, <2>7 DEF ToSet
  <2>9. QED
    BY <2>4, <2>5, <2>8 DEF Line, t
<1>4. QED
  BY <1>2, <1>3

\* A line that somebody joins.
LEMMA AppendFacts ==
  ASSUME NEW S, NEW q, Line(q, S), NEW r \in Builds, r \notin S
  PROVE  Line(Append(q, r), S \union {r})
<1> DEFINE t == Append(q, r)
<1>1. /\ q \in Seq(Builds) /\ Len(q) \in Nat /\ DOMAIN q = 1..Len(q)
      /\ \A i, j \in 1..Len(q) : q[i] = q[j] => i = j
      /\ \A x : x \in S <=> \E i \in 1..Len(q) : q[i] = x
      /\ q = <<>> <=> Len(q) = 0
  BY LenProperties, EmptySeq DEF Line, IsInjective, ToSet
<1>2. /\ t \in Seq(Builds) /\ Len(t) = Len(q) + 1 /\ t # <<>>
      /\ \A i \in 1..Len(q) : t[i] = q[i]
      /\ t[Len(q) + 1] = r
      /\ DOMAIN t = 1..Len(t)
  BY <1>1, AppendProperties, LenProperties
<1> HIDE DEF t
<1>3. \A i \in 1..Len(t) : i \in 1..Len(q) \/ i = Len(q) + 1
  BY <1>1, <1>2
<1>4. \A i \in 1..Len(q) : t[i] # r
  BY <1>1, <1>2
<1>5. IsInjective(t)
  <2> SUFFICES ASSUME NEW i \in 1..Len(t), NEW j \in 1..Len(t), t[i] = t[j]
               PROVE  i = j
    BY <1>2 DEF IsInjective
  <2>1. QED
    BY <1>1, <1>2, <1>3, <1>4
<1>6. ToSet(t) = S \union {r}
  <2>1. \A x \in ToSet(t) : x \in S \union {r}
    BY <1>1, <1>2, <1>3 DEF ToSet
  <2>2. \A i \in 1..Len(q) : i \in DOMAIN t
    BY <1>1, <1>2
  <2>3. \A x \in S : x \in ToSet(t)
    BY <1>1, <1>2, <2>2 DEF ToSet
  <2>4. Len(q) + 1 \in DOMAIN t
    BY <1>1, <1>2
  <2>5. r \in ToSet(t)
    BY <1>2, <2>4 DEF ToSet
  <2>6. QED
    BY <2>1, <2>3, <2>5
<1>7. QED
  BY <1>2, <1>5, <1>6 DEF Line, t

-----------------------------------------------------------------------------
(* What a step of one call does to the line, to what is known of its output *)
(* and to its verdict.                                                      *)

\* Where a build is in the line.
Lined == {"slot", "remove", "watch", "scan", "stop"}

\* The call stays in the line or out of it, joins it, or leaves it.
LineEffect(c) ==
  \/ /\ line' = line
     /\ c \in Builds => (call'[c].at \in Lined <=> call[c].at \in Lined)
  \/ /\ c \in Builds /\ call[c].at = "idle" /\ call'[c].at = "slot"
     /\ line' = Append(line, c)
  \/ line' = Without(line, c) /\ call'[c].at \notin Lined

Effect(c) ==
  /\ \A d \in Calls : d # c => call'[d] = call[d] /\ prog'[d] = prog[d]
  /\ LineEffect(c)
  /\ SmallIsTrue(c, call[c], prog[c]) => SmallIsTrue(c, call'[c], prog'[c])
  /\ call'[c].verdict = "success" => call[c].verdict = "success" \/ Ends(c)

\* The program only writes more.
LEMMA ProgramEffect ==
  ASSUME IInv, NEW c \in Calls, Program(c)
  PROVE  Effect(c)
<1>1. /\ call[c] \in CallStates /\ prog[c] \in ProgStates
      /\ call' = call /\ line' = line
      /\ \A d \in Calls : d # c => prog'[d] = prog[d]
  <2>1. call[c] \in CallStates /\ prog[c] \in ProgStates
    BY UpAndGood
  <2>2. call' = call /\ line' = line
    BY DEF Program, Forks, Exits, WritesTooMuch, OutOfMemory
  <2>3. \A d \in Calls : d # c => prog'[d] = prog[d]
    BY DEF Program, Forks, Exits, WritesTooMuch, OutOfMemory, IInv, TypeOK
  <2>4. QED
    BY <2>1, <2>2, <2>3
<1>2. CASE WritesTooMuch(c)
  <2>1. c \in Builds /\ prog'[c].late = (call[c].scan = "small")
    BY <1>1, <1>2 DEF WritesTooMuch, IInv, TypeOK, ProgStates
  <2>2. QED
    BY <1>1, <2>1, CommandsAssumption DEF Effect, LineEffect, SmallIsTrue
<1>3. CASE ~WritesTooMuch(c)
  <2>1. prog'[c].wrote = prog[c].wrote /\ prog'[c].late = prog[c].late
    BY <1>1, <1>3 DEF Program, Forks, Exits, OutOfMemory, IInv, TypeOK, ProgStates
  <2>2. QED
    BY <1>1, <2>1 DEF Effect, LineEffect, SmallIsTrue
<1>4. QED
  BY <1>2, <1>3

\* run() changes neither the place of its caller nor the verdict.
LEMMA RunEffect ==
  ASSUME IInv, NEW c \in Calls, Run(c)
  PROVE  Effect(c)
<1>1. /\ call[c] \in CallStates /\ prog[c] \in ProgStates /\ line' = line
      /\ \A d \in Calls : d # c => call'[d] = call[d] /\ prog'[d] = prog[d]
  <2>1. call[c] \in CallStates /\ prog[c] \in ProgStates
    BY UpAndGood
  <2>2. line' = line
    BY DEF Run, Starts, StartFails, Connected, Collected, Stopped, KillTree, Discarded
  <2>3. \A d \in Calls : d # c => call'[d] = call[d] /\ prog'[d] = prog[d]
    BY DEF Run, Starts, StartFails, Connected, Collected, Stopped, KillTree, Discarded,
           IInv, TypeOK
  <2>4. QED
    BY <2>1, <2>2, <2>3
<1>2. /\ call'[c].at = call[c].at /\ call'[c].scan = call[c].scan
      /\ call'[c].verdict = call[c].verdict
  BY <1>1 DEF Run, Starts, StartFails, Connected, Collected, Stopped, KillTree, Discarded,
              IInv, TypeOK, CallStates
<1>3. prog'[c].wrote = prog[c].wrote /\ prog'[c].late = prog[c].late
  BY <1>1 DEF Run, Starts, StartFails, Connected, Collected, Stopped, KillTree, Discarded,
              IInv, TypeOK, ProgStates
<1>4. QED
  BY <1>1, <1>2, <1>3 DEF Effect, LineEffect, SmallIsTrue

\* A caller goes on with q, which has the verdict v.
LEMMA GoesEffect ==
  ASSUME IInv, NEW c \in Calls, NEW q \in CallStates, NEW g \in ProgStates, Goes(c, q, g),
         call[c].at \in Lined, q.at \in Lined \union {"ended"},
         q.scan \in {call[c].scan, "none"}, g.wrote = prog[c].wrote, g.late = prog[c].late,
         q.verdict = "success" => call[c].verdict = "success" \/ Ends(c)
  PROVE  Effect(c)
<1>1. /\ \A d \in Calls : d # c => call'[d] = call[d] /\ prog'[d] = prog[d]
      /\ call'[c] = IF q.at = "ended" THEN Forgotten(q) ELSE q
      /\ prog'[c] = IF q.at = "ended" THEN Unwatched(g) ELSE g
  BY DEF Goes, IInv, TypeOK
<1>2. CASE q.at = "ended"
  <2>1. /\ Forgotten(q).at = "ended" /\ Forgotten(q).verdict = q.verdict
        /\ Forgotten(q).scan = "none" /\ Unwatched(g).wrote = FALSE
    BY <1>2 DEF Forgotten, Unwatched, CallStates, ProgStates
  <2>2. line' = Without(line, c)
    BY <1>2 DEF Goes
  <2>3. LineEffect(c)
    BY <1>1, <1>2, <2>1, <2>2 DEF LineEffect, Lined
  <2>4. QED
    BY <1>1, <1>2, <2>1, <2>3 DEF Effect, SmallIsTrue
<1>3. CASE q.at # "ended"
  <2>1. line' = line /\ call'[c] = q /\ prog'[c] = g
    BY <1>1, <1>3 DEF Goes
  <2>2. QED
    BY <1>1, <1>3, <2>1 DEF Effect, LineEffect, SmallIsTrue
<1>4. QED
  BY <1>2, <1>3

\* A run() that is done: the caller has its verdict.
LEMMA FinishesEffect ==
  ASSUME IInv, NEW c \in Calls, NEW v \in Verdicts, Goes(c, Finishes(call[c], v), prog[c]),
         call[c].at \in UnderWay, call[c].run = "done",
         v = "success" => call[c].verdict = "success" \/ Ends(c)
  PROVE  Effect(c)
<1>1. call[c] \in CallStates /\ prog[c] \in ProgStates
  BY UpAndGood
<1>2. PICK q : q = Finishes(call[c], v)
  OBVIOUS
<1>3. q \in CallStates
  BY <1>2, FinishesIsGood
<1>4. /\ q.at \in Lined \union {"ended"} /\ q.scan = call[c].scan /\ q.verdict = v
      /\ call[c].at \in Lined
  BY <1>1, <1>2 DEF Finishes, CallStates, Lined
<1>5. Goes(c, q, prog[c])
  BY <1>2
<1>6. QED
  BY <1>1, <1>3, <1>4, <1>5, GoesEffect

\* A run() that is cancelled.
LEMMA CancelledEffect ==
  ASSUME IInv, NEW c \in Calls, NEW w \in {"watch", "stop"}, NEW v \in Verdicts,
         Goes(c, [CancelledRun(call[c]) EXCEPT !.at = w, !.verdict = v], CancelledProg(c)),
         call[c].at \in UnderWay, call[c].run # "done",
         v = "success" => call[c].verdict = "success"
  PROVE  Effect(c)
<1>1. call[c] \in CallStates /\ prog[c] \in ProgStates
  BY UpAndGood
<1>2. PICK q : q = [CancelledRun(call[c]) EXCEPT !.at = w, !.verdict = v]
  OBVIOUS
<1>3. PICK g : g = CancelledProg(c)
  OBVIOUS
<1>4. q \in CallStates /\ g \in ProgStates
  BY <1>2, <1>3, CancelledIsGood
<1>5. /\ q.at = w /\ q.verdict = v /\ q.scan = call[c].scan /\ call[c].at \in Lined
  BY <1>1, <1>2 DEF CancelledRun, CallStates, Lined
<1>6. g.wrote = prog[c].wrote /\ g.late = prog[c].late
  BY <1>1, <1>3 DEF CancelledProg, ProgStates
<1>7. Goes(c, q, g)
  BY <1>2, <1>3
<1>8. q.at \in Lined \union {"ended"}
  BY <1>5 DEF Lined
<1>9. QED
  BY <1>4, <1>5, <1>6, <1>7, <1>8, GoesEffect

\* A call that ends at one of the awaits before or after run().
LEMMA LeavesEffect ==
  ASSUME IInv, NEW c \in Calls, NEW v \in Verdicts, call[c].at \in {"slot", "remove"},
         Goes(c, [call[c] EXCEPT !.at = "ended", !.verdict = v], prog[c]),
         v = "success" => call[c].verdict = "success"
  PROVE  Effect(c)
<1>1. call[c] \in CallStates /\ prog[c] \in ProgStates
  BY UpAndGood
<1>2. PICK q : q = [call[c] EXCEPT !.at = "ended", !.verdict = v]
  OBVIOUS
<1>3. q \in CallStates
  BY <1>2, LeavesIsGood
<1>4. q.at = "ended" /\ q.verdict = v /\ q.scan = call[c].scan /\ call[c].at \in Lined
  BY <1>1, <1>2 DEF CallStates, Lined
<1>5. Goes(c, q, prog[c])
  BY <1>2
<1>6. q.at \in Lined \union {"ended"}
  BY <1>4
<1>7. QED
  BY <1>1, <1>3, <1>4, <1>5, <1>6, GoesEffect

\* The steps of a caller that change nothing but where it is.
LEMMA QuietEffect ==
  ASSUME IInv, NEW c \in Calls,
         \/ CallBuild(c) \/ CallInstall(c) \/ GetsSlot(c) \/ CreateFails(c) \/ Looks(c)
         \/ Scans(c) \/ GoesOn(c) \/ Removes(c)
  PROVE  Effect(c)
<1>1. call[c] \in CallStates /\ prog[c] \in ProgStates
  BY UpAndGood
<1>2. \A d \in Calls : d # c => call'[d] = call[d] /\ prog'[d] = prog[d]
  BY DEF CallBuild, CallInstall, GetsSlot, CreateFails, Looks, Scans, GoesOn, Removes, Runs,
         IInv, TypeOK
<1>3. prog'[c].wrote = prog[c].wrote /\ prog'[c].late = prog[c].late
  BY <1>1 DEF CallBuild, CallInstall, GetsSlot, CreateFails, Looks, Scans, GoesOn, Removes, Runs,
              IInv, TypeOK, ProgStates
<1>4. /\ call'[c].verdict = "success" => call[c].verdict = "success"
      /\ call'[c].scan = "small" => call[c].scan = "small" \/ ~prog[c].wrote
  BY <1>1 DEF CallBuild, CallInstall, GetsSlot, CreateFails, Looks, Scans, GoesOn, Removes, Runs,
              IInv, TypeOK, CallStates
<1>5. CASE CallBuild(c)
  <2>1. call'[c].at = "slot"
    BY <1>1, <1>5 DEF CallBuild, IInv, TypeOK, CallStates
  <2>2. LineEffect(c)
    BY <1>5, <2>1 DEF CallBuild, LineEffect
  <2>3. QED
    BY <1>2, <1>3, <1>4, <2>2 DEF Effect, SmallIsTrue
<1>6. CASE CreateFails(c)
  <2>1. call'[c].at = "ended"
    BY <1>1, <1>6 DEF CreateFails, IInv, TypeOK, CallStates
  <2>2. LineEffect(c)
    BY <1>6, <2>1 DEF CreateFails, LineEffect, Lined
  <2>3. QED
    BY <1>2, <1>3, <1>4, <2>2 DEF Effect, SmallIsTrue
<1>7. CASE CallInstall(c)
  <2>1. LineEffect(c)
    BY <1>7, CommandsAssumption DEF CallInstall, LineEffect
  <2>2. QED
    BY <1>2, <1>3, <1>4, <2>1 DEF Effect, SmallIsTrue
<1>8. CASE GetsSlot(c) \/ Looks(c) \/ Scans(c) \/ GoesOn(c) \/ Removes(c)
  <2>1. call'[c].at \in Lined <=> call[c].at \in Lined
    BY <1>1, <1>8 DEF GetsSlot, Looks, Scans, GoesOn, Removes, Runs, IInv, TypeOK, CallStates, Lined
  <2>2. line' = line
    BY <1>8 DEF GetsSlot, Looks, Scans, GoesOn, Removes
  <2>3. LineEffect(c)
    BY <2>1, <2>2 DEF LineEffect
  <2>4. QED
    BY <1>2, <1>3, <1>4, <2>3 DEF Effect, SmallIsTrue
<1>9. QED
  BY <1>5, <1>6, <1>7, <1>8

\* How a caller goes on that learns how run() has ended, or is cancelled: with its
\* verdict, by cancelling run(), or by leaving.
Finishing(c, v) ==
  /\ Goes(c, Finishes(call[c], v), prog[c])
  /\ call[c].at \in UnderWay /\ call[c].run = "done"

Cancelling(c, w, v) ==
  /\ Goes(c, [CancelledRun(call[c]) EXCEPT !.at = w, !.verdict = v], CancelledProg(c))
  /\ call[c].at \in UnderWay /\ call[c].run # "done"
  /\ w = "watch" => call[c].at = "watch"

Leaving(c, v) ==
  /\ Goes(c, [call[c] EXCEPT !.at = "ended", !.verdict = v], prog[c])
  /\ call[c].at \in {"slot", "remove"}

LEMMA CallerGoes ==
  ASSUME IInv, NEW c \in Calls,
         \/ StopsLarge(c) \/ Ends(c) \/ HasStopped(c) \/ HasRemoved(c) \/ Cancel(c)
  PROVE  \/ \E v \in Verdicts :
              Finishing(c, v) /\ (v = "success" => call[c].verdict = "success" \/ Ends(c))
         \/ \E w \in {"watch", "stop"}, v \in Verdicts :
              Cancelling(c, w, v) /\ (v = "success" => call[c].verdict = "success")
         \/ \E v \in Verdicts :
              Leaving(c, v) /\ (v = "success" => call[c].verdict = "success")
<1>1. call[c] \in CallStates /\ prog[c] \in ProgStates
  BY UpAndGood
<1>2. call[c].verdict \in Verdicts
  BY <1>1 DEF CallStates
<1>3. CASE Ends(c)
  <2>1. VerdictOf(c) \in Verdicts
    BY <1>1 DEF VerdictOf, CallStates
  <2>2. Finishing(c, VerdictOf(c))
    BY <1>3 DEF Ends, Finishing
  <2>3. QED
    BY <1>3, <2>1, <2>2
<1>4. CASE StopsLarge(c)
  <2>1. Finishing(c, "large") \/ Cancelling(c, "stop", "large")
    BY <1>4 DEF StopsLarge, Finishing, Cancelling
  <2>2. QED
    BY <2>1
<1>5. CASE HasStopped(c)
  <2>1. Finishing(c, call[c].verdict)
    BY <1>5 DEF HasStopped, Finishing
  <2>2. QED
    BY <1>2, <2>1
<1>6. CASE HasRemoved(c)
  <2>1. [call[c] EXCEPT !.at = "ended"] = [call[c] EXCEPT !.at = "ended", !.verdict = call[c].verdict]
    BY <1>1 DEF CallStates
  <2>2. Leaving(c, call[c].verdict)
    BY <1>6, <2>1 DEF HasRemoved, Leaving
  <2>3. QED
    BY <1>2, <2>2
<1>7. CASE Cancel(c)
  <2>1. CASE call[c].at \in {"slot", "remove"}
    <3>1. Leaving(c, "cancelled")
      BY <1>7, <2>1 DEF Cancel, Leaving
    <3>2. QED
      BY <3>1
  <2>2. CASE call[c].at \in UnderWay /\ call[c].run = "done"
    <3>1. Finishing(c, "cancelled")
      BY <1>7, <2>2 DEF Cancel, Finishing
    <3>2. QED
      BY <3>1
  <2>3. CASE call[c].at \in UnderWay /\ call[c].run # "done"
    <3>1. CancelledRun(call[c]) =
            [CancelledRun(call[c]) EXCEPT !.at = call[c].at, !.verdict = call[c].verdict]
      BY <1>1 DEF CancelledRun, CallStates
    <3>2. CASE Goes(c, CancelledRun(call[c]), CancelledProg(c)) /\ call[c].at \in {"watch", "stop"}
      <4>1. Cancelling(c, call[c].at, call[c].verdict)
        BY <2>3, <3>1, <3>2 DEF Cancelling
      <4>2. QED
        BY <1>2, <3>2, <4>1
    <3>3. CASE Goes(c, [CancelledRun(call[c]) EXCEPT !.at = "stop", !.verdict = "cancelled"],
                    CancelledProg(c))
      <4>1. Cancelling(c, "stop", "cancelled")
        BY <2>3, <3>3 DEF Cancelling
      <4>2. QED
        BY <4>1
    <3>4. QED
      BY <1>7, <2>3, <3>2, <3>3 DEF Cancel
  <2>4. QED
    BY <1>7, <2>1, <2>2, <2>3 DEF Cancel
<1>8. QED
  BY <1>3, <1>4, <1>5, <1>6, <1>7

LEMMA CallerEffect ==
  ASSUME IInv, NEW c \in Calls,
         \/ StopsLarge(c) \/ Ends(c) \/ HasStopped(c) \/ HasRemoved(c) \/ Cancel(c)
  PROVE  Effect(c)
BY CallerGoes, FinishesEffect, CancelledEffect, LeavesEffect
   DEF Finishing, Cancelling, Leaving

\* Every step of a call.
LEMMA CallSteps ==
  ASSUME IInv, NEW c \in Calls,
         CallBuild(c) \/ CallInstall(c) \/ Program(c) \/ Run(c) \/ Caller(c) \/ Cancel(c)
  PROVE  Effect(c)
BY ProgramEffect, RunEffect, QuietEffect, CallerEffect DEF Caller

-----------------------------------------------------------------------------
(* What is known of a look that began before the end of a build.            *)

\* What EarlyIsTrue says of the other calls stays true.
EarlyStays(c) == EarlyIsTrue(c, call'[c], prog'[c])

LEMMA EarlyProgram ==
  ASSUME IInv, NEW c \in Calls, EarlyIsTrue(c, call[c], prog[c]), Program(c)
  PROVE  EarlyStays(c)
<1>1. call[c] \in CallStates /\ prog[c] \in ProgStates /\ call' = call
  BY UpAndGood DEF Program, Forks, Exits, WritesTooMuch, OutOfMemory
<1>2. ASSUME NEW p \in Processes, Forks(c, p) PROVE EarlyStays(c)
  <2>1. /\ prog'[c].procs = prog[c].procs \union {p} /\ prog'[c].wrote = prog[c].wrote
        /\ prog[c].procs # {} /\ p # "main"
    BY <1>1, <1>2 DEF Forks, IInv, TypeOK, ProgStates
  <2>2. QED
    BY <1>1, <2>1 DEF EarlyStays, EarlyIsTrue
<1>3. ASSUME NEW p \in Processes, NEW code \in {"ok", "error"}, Exits(c, p, code)
      PROVE  EarlyStays(c)
  <2>1. prog'[c].procs = Left(c, {p}) /\ prog'[c].wrote = prog[c].wrote
    BY <1>1, <1>3 DEF Exits, IInv, TypeOK, ProgStates
  <2>2. QED
    BY <1>1, <2>1 DEF EarlyStays, EarlyIsTrue, Left
<1>4. CASE WritesTooMuch(c)
  <2>1. prog'[c].procs = prog[c].procs /\ prog[c].procs # {}
    BY <1>1, <1>4 DEF WritesTooMuch, IInv, TypeOK, ProgStates
  <2>2. QED
    BY <1>1, <2>1 DEF EarlyStays, EarlyIsTrue
<1>5. CASE OutOfMemory(c)
  <2>1. prog'[c].procs = {} /\ prog'[c].wrote = prog[c].wrote
    BY <1>1, <1>5 DEF OutOfMemory, IInv, TypeOK, ProgStates
  <2>2. QED
    BY <1>1, <2>1 DEF EarlyStays, EarlyIsTrue
<1>6. QED
  BY <1>2, <1>3, <1>4, <1>5 DEF Program

LEMMA EarlyRun ==
  ASSUME IInv, NEW c \in Calls, EarlyIsTrue(c, call[c], prog[c]), Run(c)
  PROVE  EarlyStays(c)
<1>1. call[c] \in CallStates /\ prog[c] \in ProgStates
  BY UpAndGood
<1>2. /\ call'[c].at = call[c].at /\ call'[c].early = call[c].early
      /\ call'[c].scan = call[c].scan /\ call[c].run # "done"
  BY <1>1 DEF Run, Starts, StartFails, Connected, Collected, Stopped, KillTree, Discarded,
              IInv, TypeOK, CallStates
<1>3. prog'[c].wrote = prog[c].wrote
  BY <1>1 DEF Run, Starts, StartFails, Connected, Collected, Stopped, KillTree, Discarded,
              IInv, TypeOK, ProgStates
<1>4. \/ prog'[c].procs = prog[c].procs
      \/ prog'[c].procs = {"main"} /\ call'[c].ending = call[c].ending
      \/ prog'[c].procs = Left(c, Group)
  <2>1. CASE KillTree(c)
    <3>1. PICK left : left = Left(c, Group)
      OBVIOUS
    <3>2. prog' = [prog EXCEPT ![c].procs = left,
                               ![c].code = IF "main" \in prog[c].procs THEN "error" ELSE @]
      BY <2>1, <3>1 DEF KillTree
    <3>3. prog'[c].procs = left
      BY <1>1, <3>2 DEF IInv, TypeOK, ProgStates
    <3>4. QED
      BY <3>1, <3>3
  <2>2. CASE Starts(c)
    BY <1>1, <2>2 DEF Starts, IInv, TypeOK, ProgStates, CallStates
  <2>3. CASE ~KillTree(c) /\ ~Starts(c)
    BY <2>3 DEF Run, StartFails, Connected, Collected, Stopped, Discarded
  <2>4. QED
    BY <2>1, <2>2, <2>3
<1>5. call[c].ending # "exit"
  BY <1>2 DEF EarlyIsTrue
<1>6. call'[c].ending = "exit" => /\ call'[c].run = "done"
                                  /\ prog' = prog /\ "main" \notin prog[c].procs
  BY <1>1, <1>5 DEF Run, Starts, StartFails, Connected, Collected, Stopped, KillTree, Discarded,
                    IInv, TypeOK, CallStates
<1>7. call[c].at = "scan" => call[c].early
  BY <1>2 DEF EarlyIsTrue
<1>8. Sandboxed(c) /\ "main" \notin prog'[c].procs => prog'[c].procs = {}
  BY <1>4 DEF EarlyIsTrue, Left
<1>9. QED
  BY <1>2, <1>3, <1>6, <1>7, <1>8 DEF EarlyStays, EarlyIsTrue

LEMMA EarlyQuiet ==
  ASSUME IInv, NEW c \in Calls, EarlyIsTrue(c, call[c], prog[c]),
         \/ CallBuild(c) \/ CallInstall(c) \/ GetsSlot(c) \/ CreateFails(c) \/ Looks(c)
         \/ Scans(c) \/ GoesOn(c) \/ Removes(c)
  PROVE  EarlyStays(c)
<1>1. call[c] \in CallStates /\ prog[c] \in ProgStates /\ Good(call[c], prog[c])
  BY UpAndGood
<1>2. prog'[c].procs \in {prog[c].procs, {}} /\ prog'[c].wrote = prog[c].wrote
  BY <1>1 DEF CallBuild, CallInstall, GetsSlot, CreateFails, Looks, Scans, GoesOn, Removes, Runs,
              IInv, TypeOK, ProgStates
<1>3. /\ call'[c].ending = call[c].ending
      /\ call'[c].run = call[c].run \/ (call[c].at \in {"idle", "slot"} /\ call'[c].run = "new")
  BY <1>1 DEF CallBuild, CallInstall, GetsSlot, CreateFails, Looks, Scans, GoesOn, Removes, Runs,
              IInv, TypeOK, CallStates
<1>4. call'[c].run = call[c].run \/ call[c].run = "none"
  BY <1>1, <1>3 DEF Good, NotStarted
<1>5. /\ call'[c].at \in {"idle", "slot", "watch"} => call'[c].scan = "none"
      /\ call'[c].at = "scan" =>
           \/ (call'[c].early <=> call[c].run # "done") /\ call'[c].scan = "none"
           \/ /\ call[c].at = "scan" /\ call'[c].early = call[c].early
              /\ call'[c].scan = "small" => call[c].scan = "small" \/ ~prog[c].wrote
  BY <1>1 DEF CallBuild, CallInstall, GetsSlot, CreateFails, Looks, Scans, GoesOn, Removes, Runs,
              IInv, TypeOK, CallStates, EarlyIsTrue
<1>6. QED
  BY <1>2, <1>3, <1>4, <1>5 DEF EarlyStays, EarlyIsTrue

\* A caller goes on with q and the program g.
LEMMA EarlyGoes ==
  ASSUME IInv, NEW c \in Calls, NEW q \in CallStates, NEW g \in ProgStates, Goes(c, q, g),
         EarlyIsTrue(c, q, g)
  PROVE  EarlyStays(c)
<1>1. /\ call'[c] = IF q.at = "ended" THEN Forgotten(q) ELSE q
      /\ prog'[c] = IF q.at = "ended" THEN Unwatched(g) ELSE g
  BY DEF Goes, IInv, TypeOK
<1>2. CASE q.at = "ended"
  <2>1. /\ Forgotten(q).at = "ended" /\ Forgotten(q).ending = "none"
        /\ Unwatched(g).procs = g.procs
    BY <1>2 DEF Forgotten, Unwatched, CallStates, ProgStates
  <2>2. QED
    BY <1>1, <1>2, <2>1 DEF EarlyStays, EarlyIsTrue
<1>3. CASE q.at # "ended"
  BY <1>1, <1>3 DEF EarlyStays
<1>4. QED
  BY <1>2, <1>3

LEMMA EarlyFinishes ==
  ASSUME IInv, NEW c \in Calls, NEW v \in Verdicts, EarlyIsTrue(c, call[c], prog[c]),
         Goes(c, Finishes(call[c], v), prog[c]),
         call[c].at \in UnderWay, call[c].run = "done"
  PROVE  EarlyStays(c)
<1>1. call[c] \in CallStates /\ prog[c] \in ProgStates
  BY UpAndGood
<1>2. PICK q : q = Finishes(call[c], v)
  OBVIOUS
<1>3. q \in CallStates
  BY <1>2, FinishesIsGood
<1>4. q.at \in {"remove", "ended"} /\ q.run = call[c].run /\ q.ending = call[c].ending
  BY <1>1, <1>2 DEF Finishes, CallStates
<1>5. EarlyIsTrue(c, q, prog[c])
  BY <1>4 DEF EarlyIsTrue
<1>6. QED
  BY <1>1, <1>2, <1>3, <1>5, EarlyGoes

LEMMA EarlyCancelled ==
  ASSUME IInv, NEW c \in Calls, NEW w \in {"watch", "stop"}, NEW v \in Verdicts,
         EarlyIsTrue(c, call[c], prog[c]),
         Goes(c, [CancelledRun(call[c]) EXCEPT !.at = w, !.verdict = v], CancelledProg(c)),
         call[c].at \in UnderWay, call[c].run # "done", w = "watch" => call[c].at = "watch"
  PROVE  EarlyStays(c)
<1>1. call[c] \in CallStates /\ prog[c] \in ProgStates /\ Good(call[c], prog[c])
  BY UpAndGood
<1>2. PICK q : q = [CancelledRun(call[c]) EXCEPT !.at = w, !.verdict = v]
  OBVIOUS
<1>3. PICK g : g = CancelledProg(c)
  OBVIOUS
<1>4. q \in CallStates /\ g \in ProgStates
  BY <1>2, <1>3, CancelledIsGood
<1>5. q.at = w /\ q.scan = call[c].scan /\ q.ending # "exit"
  <2>1. call[c].run # "none"
    BY <1>1 DEF Good, NotStarted
  <2>2. QED
    BY <1>1, <1>2, <2>1 DEF CancelledRun, CallStates
<1>6. g.procs \in {prog[c].procs, Left(c, {"main"})}
  BY <1>1, <1>3 DEF CancelledProg, ProgStates
<1>7. Sandboxed(c) /\ "main" \notin g.procs => g.procs = {}
  BY <1>6 DEF EarlyIsTrue, Left
<1>8. EarlyIsTrue(c, q, g)
  BY <1>5, <1>7 DEF EarlyIsTrue
<1>9. QED
  BY <1>2, <1>3, <1>4, <1>8, EarlyGoes

LEMMA EarlyLeaves ==
  ASSUME IInv, NEW c \in Calls, NEW v \in Verdicts, EarlyIsTrue(c, call[c], prog[c]),
         call[c].at \in {"slot", "remove"},
         Goes(c, [call[c] EXCEPT !.at = "ended", !.verdict = v], prog[c])
  PROVE  EarlyStays(c)
<1>1. call[c] \in CallStates /\ prog[c] \in ProgStates
  BY UpAndGood
<1>2. PICK q : q = [call[c] EXCEPT !.at = "ended", !.verdict = v]
  OBVIOUS
<1>3. q \in CallStates
  BY <1>2, LeavesIsGood
<1>4. q.at = "ended" /\ q.run = call[c].run /\ q.ending = call[c].ending
  BY <1>1, <1>2 DEF CallStates
<1>5. EarlyIsTrue(c, q, prog[c])
  BY <1>4 DEF EarlyIsTrue
<1>6. QED
  BY <1>1, <1>2, <1>3, <1>5, EarlyGoes

LEMMA EarlyServer ==
  ASSUME IInv, NEW c \in Calls, EarlyIsTrue(c, call[c], prog[c]), Crash \/ Setup
  PROVE  EarlyStays(c)
<1>1. call[c] \in CallStates /\ prog[c] \in ProgStates /\ Good(call[c], prog[c])
  BY UpAndGood
<1>2. CASE Crash
  <2>1. \/ call'[c] = call[c] /\ call[c].at = "idle"
        \/ call'[c].at \in {"ended", "gone"} /\ call'[c].ending = "none"
    BY <1>1, <1>2 DEF Crash, Forgotten, CallStates
  <2>2. prog'[c].procs = IF Sandboxed(c) THEN {} ELSE prog[c].procs
    BY <1>1, <1>2 DEF Crash, Unwatched, ProgStates
  <2>3. QED
    BY <2>1, <2>2 DEF EarlyStays, EarlyIsTrue
<1>3. CASE Setup
  <2>1. /\ call'[c].at = call[c].at /\ call'[c].run = call[c].run
        /\ call'[c].ending = call[c].ending /\ call'[c].scan = call[c].scan
        /\ call'[c].early = call[c].early
    BY <1>1, <1>3 DEF Setup, CallStates
  <2>2. prog'[c].procs \in {{}, prog[c].procs} /\ prog'[c].wrote = prog[c].wrote
    BY <1>1, <1>3 DEF Setup, ProgStates
  <2>3. QED
    BY <2>1, <2>2 DEF EarlyStays, EarlyIsTrue
<1>4. QED
  BY <1>2, <1>3

\* Every step of a call.
LEMMA EarlyCall ==
  ASSUME IInv, NEW c \in Calls, EarlyIsTrue(c, call[c], prog[c]),
         CallBuild(c) \/ CallInstall(c) \/ Program(c) \/ Run(c) \/ Caller(c) \/ Cancel(c)
  PROVE  EarlyStays(c)
<1>1. CASE StopsLarge(c) \/ Ends(c) \/ HasStopped(c) \/ HasRemoved(c) \/ Cancel(c)
  BY <1>1, CallerGoes, EarlyFinishes, EarlyCancelled, EarlyLeaves
     DEF Finishing, Cancelling, Leaving
<1>2. QED
  BY <1>1, EarlyProgram, EarlyRun, EarlyQuiet DEF Caller

\* Every step of anybody: another call does not touch this one.
LEMMA EarlyStep ==
  ASSUME IInv, NEW c \in Calls, EarlyIsTrue(c, call[c], prog[c]), [Next]_vars
  PROVE  (EarlyIsTrue(c, call[c], prog[c]))'
<1>1. isolation' = isolation
  BY DEF Next, vars, Program, Forks, Exits, WritesTooMuch, OutOfMemory, Run, Starts, StartFails,
         Connected, Collected, Stopped, KillTree, Discarded, CallBuild, CallInstall, Caller,
         GetsSlot, CreateFails, Looks, Scans, StopsLarge, Ends, GoesOn, HasStopped, Removes,
         HasRemoved, Cancel, Crash, Setup
<1>2. EarlyStays(c)
  <2>1. CASE UNCHANGED vars
    BY <2>1 DEF vars, EarlyStays
  <2>2. CASE Crash \/ Setup
    BY <2>2, EarlyServer
  <2>3. ASSUME NEW d \in Calls,
               \/ CallBuild(d) \/ CallInstall(d) \/ Program(d) \/ Run(d) \/ Caller(d)
               \/ Cancel(d)
        PROVE  EarlyStays(c)
    <3>1. CASE d = c
      BY <2>3, <3>1, EarlyCall
    <3>2. CASE d # c
      <4>1. Effect(d)
        BY <2>3, CallSteps
      <4>2. call'[c] = call[c] /\ prog'[c] = prog[c]
        BY <3>2, <4>1 DEF Effect
      <4>3. QED
        BY <4>2 DEF EarlyStays
    <3>3. QED
      BY <3>1, <3>2
  <2>4. QED
    BY <2>1, <2>2, <2>3 DEF Next
<1>3. QED
  BY <1>1, <1>2 DEF EarlyStays, EarlyIsTrue, Sandboxed

-----------------------------------------------------------------------------
(* What every state satisfies.                                              *)

\* The builds that are in the line.
InLine == {c \in Builds : call[c].at \in Lined}

\* That is what LineIsExact says, now and in the next state.
LEMMA LineFacts ==
  /\ LineIsExact <=> Line(line, InLine)
  /\ LineIsExact' <=> Line(line', InLine')
BY DEF LineIsExact, Line, InLine, Lined

\* A call joins the line with its first await and leaves it as it ends.
LEMMA CallKeepsLine ==
  ASSUME Line(line, InLine), NEW c \in Calls, Effect(c)
  PROVE  Line(line', InLine')
<1>1. \A d \in Builds : d # c => call'[d] = call[d]
  BY DEF Effect, Calls
<1>2. CASE line' = line /\ (c \in Builds => (call'[c].at \in Lined <=> call[c].at \in Lined))
  <2>1. InLine' = InLine
    BY <1>1, <1>2 DEF InLine
  <2>2. QED
    BY <1>2, <2>1
<1>3. CASE /\ c \in Builds /\ call[c].at = "idle" /\ call'[c].at = "slot"
           /\ line' = Append(line, c)
  <2>1. c \notin InLine /\ InLine' = InLine \union {c}
    BY <1>1, <1>3 DEF InLine, Lined
  <2>2. Line(Append(line, c), InLine \union {c})
    BY <1>3, <2>1, AppendFacts
  <2>3. QED
    BY <1>3, <2>1, <2>2
<1>4. CASE line' = Without(line, c) /\ call'[c].at \notin Lined
  <2>1. InLine' = InLine \ {c}
    BY <1>1, <1>4 DEF InLine
  <2>2. Line(Without(line, c), InLine \ {c})
    BY WithoutFacts
  <2>3. QED
    BY <1>4, <2>1, <2>2
<1>5. QED
  BY <1>2, <1>3, <1>4 DEF Effect, LineEffect

\* The end of the server empties the line, its start leaves it empty.
LEMMA ServerKeepsLine ==
  ASSUME IInv, Line(line, InLine), Crash \/ Setup
  PROVE  Line(line', InLine')
<1>1. CASE Crash
  <2>1. \A c \in Builds : call'[c].at \in {"idle", "ended", "gone"}
    <3> TAKE c \in Builds
    <3>1. c \in Calls /\ call[c] \in CallStates
      BY UpAndGood DEF Calls
    <3>2. QED
      BY <1>1, <3>1 DEF Crash, Forgotten, CallStates
  <2>2. InLine' = {}
    BY <2>1 DEF InLine, Lined
  <2>3. line' = <<>>
    BY <1>1 DEF Crash
  <2>4. QED
    BY <2>2, <2>3, EmptySeq DEF Line, IsInjective, ToSet
<1>2. CASE Setup
  <2>1. \A c \in Builds : call'[c].at = call[c].at
    <3> TAKE c \in Builds
    <3>1. c \in Calls /\ call[c] \in CallStates
      BY UpAndGood DEF Calls
    <3>2. QED
      BY <1>2, <3>1 DEF Setup, CallStates
  <2>2. InLine' = InLine /\ line' = line
    BY <1>2, <2>1 DEF InLine, Setup
  <2>3. QED
    BY <2>2
<1>3. QED
  BY <1>1, <1>2

\* Nor is there anything to be looked at between them.
LEMMA ServerKeepsSmall ==
  ASSUME IInv, NEW c \in Calls, SmallIsTrue(c, call[c], prog[c]), Crash \/ Setup
  PROVE  SmallIsTrue(c, call'[c], prog'[c])
<1>1. call[c] \in CallStates /\ prog[c] \in ProgStates /\ Good(call[c], prog[c])
  BY UpAndGood
<1>2. CASE Crash
  <2>1. prog'[c].wrote = FALSE
    BY <1>1, <1>2 DEF Crash, Unwatched, ProgStates
  <2>2. QED
    BY <2>1 DEF SmallIsTrue
<1>3. CASE Setup
  <2>1. /\ call'[c].scan = call[c].scan
        /\ prog'[c].wrote = prog[c].wrote /\ prog'[c].late = prog[c].late
    BY <1>1, <1>3 DEF Setup, CallStates, ProgStates
  <2>2. QED
    BY <2>1 DEF SmallIsTrue
<1>4. QED
  BY <1>2, <1>3

\* Every step keeps the whole invariant.
LEMMA ConsistentStep == ASSUME Consistent, [Next]_vars PROVE Consistent'
<1>1. IInv /\ IInv'
  BY StepKeeps DEF Consistent
<1>2. Line(line, InLine) /\ \A d \in Calls : SmallIsTrue(d, call[d], prog[d])
  BY LineFacts DEF Consistent
<1>3. \A d \in Calls : (EarlyIsTrue(d, call[d], prog[d]))'
  BY <1>1, EarlyStep DEF Consistent
<1>4. CASE UNCHANGED vars
  <2>1. line' = line /\ call' = call /\ prog' = prog
    BY <1>4 DEF vars
  <2>2. QED
    BY <1>1, <1>2, <1>3, <2>1, LineFacts DEF Consistent, InLine, SmallIsTrue
<1>5. ASSUME NEW c \in Calls, Effect(c) PROVE Consistent'
  <2>1. Line(line', InLine')
    BY <1>2, <1>5, CallKeepsLine
  <2>2. \A d \in Calls : SmallIsTrue(d, call'[d], prog'[d])
    BY <1>2, <1>5 DEF Effect
  <2>3. QED
    BY <1>1, <1>3, <2>1, <2>2, LineFacts DEF Consistent, SmallIsTrue
<1>6. CASE Crash \/ Setup
  <2>1. Line(line', InLine')
    BY <1>1, <1>2, <1>6, ServerKeepsLine
  <2>2. \A d \in Calls : SmallIsTrue(d, call'[d], prog'[d])
    BY <1>1, <1>2, <1>6, ServerKeepsSmall
  <2>3. QED
    BY <1>1, <1>3, <2>1, <2>2, LineFacts DEF Consistent, SmallIsTrue
<1>7. QED
  BY <1>1, <1>4, <1>5, <1>6, CallSteps DEF Next

-----------------------------------------------------------------------------
(* The theorems.                                                            *)

\* Every state of the specification satisfies the invariant.
THEOREM Invariance == Spec => []IInv
BY InitHolds, StepKeeps, PTL DEF Spec

\* However a build or an install ends (its own way, a timeout, too much output, a
\* cancellation at any await, the death of the server), with cgroups nothing of it
\* runs and no cgroup is left once its caller and the removing thread are done.
THEOREM NothingRunsOn == Spec => []NothingLeftRunning
<1>1. IInv => NothingLeftRunning
  BY DEF IInv, Good, CgroupIsOwned, NothingLeftRunning
<1>2. QED
  BY <1>1, Invariance, PTL

\* Whenever run() has stopped a command, the command's process group is dead,
\* with cgroups or without, unless run() was cancelled while it cleaned up or while
\* the process was being connected.
THEOREM GroupKilled == Spec => []GroupIsKilled
<1>1. IInv => GroupIsKilled
  BY DEF IInv, Good, KilledIsKilled, GroupIsKilled
<1>2. QED
  BY <1>1, Invariance, PTL

\* A build is in the line of the semaphore exactly while it waits for a slot or
\* has one, so that no slot is lost however a build ends; and what a thread has
\* seen small only grew after it looked, in the sandbox only while the build ran.
THEOREM Consistency == Spec => []Consistent
<1>1. Init => Consistent
  <2> SUFFICES ASSUME Init PROVE Consistent
    OBVIOUS
  <2>1. IInv
    BY InitHolds
  <2>2. LineIsExact
    BY EmptySeq DEF Init, LineIsExact, IsInjective, ToSet, Calls
  <2>3. \A c \in Calls : SmallIsTrue(c, call[c], prog[c]) /\ EarlyIsTrue(c, call[c], prog[c])
    BY DEF Init, SmallIsTrue, EarlyIsTrue
  <2>4. QED
    BY <2>1, <2>2, <2>3 DEF Consistent
<1>2. QED
  BY <1>1, ConsistentStep, PTL DEF Spec

\* sandbox.py:287-303. A build in the sandbox that had ended when the last look at
\* its output began is not a success if the output is over the limit, whatever it
\* wrote between and during the looks. What the last look can miss is what a build
\* that still ran wrote after the folder was read; a build that exits by then is
\* not looked at again. Nor is a kill for its memory a success.
THEOREM SuccessesChecked == Spec => SuccessWasChecked
<1> DEFINE Checked ==
      \A c \in Calls :
        call'[c].verdict = "success" /\ call[c].verdict = "none" =>
          /\ call[c].ending = "exit" /\ prog[c].code = "ok"
          /\ ~(call[c].cgroup /\ prog[c].oom)
          /\ prog[c].wrote => prog[c].late /\ (Sandboxed(c) => call[c].early)
<1>1. ASSUME Consistent, [Next]_vars PROVE Checked
  <2> SUFFICES ASSUME NEW c \in Calls, call'[c].verdict = "success", call[c].verdict = "none"
               PROVE  /\ call[c].ending = "exit" /\ prog[c].code = "ok"
                      /\ ~(call[c].cgroup /\ prog[c].oom)
                      /\ prog[c].wrote => prog[c].late /\ (Sandboxed(c) => call[c].early)
    OBVIOUS
  <2>1. /\ IInv /\ call[c] \in CallStates
        /\ SmallIsTrue(c, call[c], prog[c]) /\ EarlyIsTrue(c, call[c], prog[c])
    BY <1>1, UpAndGood DEF Consistent
  <2>2. Ends(c)
    <3>1. ~(UNCHANGED vars)
      BY DEF vars
    <3>2. ~Crash
      <4> SUFFICES ASSUME Crash PROVE FALSE
        OBVIOUS
      <4>1. PICK q \in CallStates : q = call[c]
        BY <2>1
      <4>2. Forgotten(q).verdict = q.verdict
        BY <4>1 DEF Forgotten, CallStates
      <4>3. \A x : [Forgotten(q) EXCEPT !.at = x, !.killer = FALSE].verdict = Forgotten(q).verdict
        BY <4>1 DEF Forgotten, CallStates
      <4>4. call'[c] = q \/ \E x : call'[c] = [Forgotten(q) EXCEPT !.at = x, !.killer = FALSE]
        BY <4>1 DEF Crash
      <4>5. call'[c].verdict = q.verdict
        BY <4>2, <4>3, <4>4
      <4>6. QED
        BY <4>1, <4>5
    <3>3. ~Setup
      BY <2>1 DEF Setup, CallStates
    <3>4. PICK d \in Calls : Effect(d)
      BY <1>1, <2>1, <3>1, <3>2, <3>3, CallSteps DEF Next
    <3>5. d = c
      BY <3>4 DEF Effect
    <3>6. QED
      BY <3>4, <3>5 DEF Effect
  <2>3. VerdictOf(c) = "success"
    <3>1. Goes(c, Finishes(call[c], VerdictOf(c)), prog[c])
      BY <2>2 DEF Ends
    <3>2. PICK v : v = VerdictOf(c)
      OBVIOUS
    <3>3. Finishes(call[c], v) \in CallStates /\ Finishes(call[c], v).verdict = v
      <4>1. v \in Verdicts
        BY <2>1, <3>2 DEF VerdictOf, CallStates
      <4>2. QED
        BY <2>1, <4>1 DEF Finishes, CallStates
    <3>4. call'[c].verdict = v
      BY <2>1, <3>1, <3>2, <3>3 DEF Goes, Forgotten, IInv, TypeOK, CallStates
    <3>5. QED
      BY <3>2, <3>4
  <2>4. call[c].ending = "exit" /\ prog[c].code = "ok" /\ ~(call[c].cgroup /\ prog[c].oom)
    <3>1. call[c].ending # "success"
      BY <2>1 DEF CallStates, Endings
    <3>2. call[c].ending = "exit"
      <4>1. call[c].ending # "exit" => VerdictOf(c) = call[c].ending
        BY DEF VerdictOf
      <4>2. QED
        BY <2>3, <3>1, <4>1
    <3>3. ~(call[c].cgroup /\ prog[c].oom)
      BY <2>3, <3>2 DEF VerdictOf
    <3>4. prog[c].code = "ok"
      BY <2>3, <3>2, <3>3 DEF VerdictOf
    <3>5. QED
      BY <3>2, <3>3, <3>4
  <2>5. prog[c].wrote => prog[c].late
    BY <2>1, <2>2, CommandsAssumption DEF Ends, SmallIsTrue, Calls
  <2>6. prog[c].wrote /\ Sandboxed(c) => call[c].early
    BY <2>1, <2>2, <2>4 DEF Ends, EarlyIsTrue, Sandboxed
  <2>7. QED
    BY <2>4, <2>5, <2>6
<1>2. Spec => [][Checked]_vars
  BY <1>1, Consistency, PTL DEF Spec
<1>3. QED
  BY <1>2 DEF SuccessWasChecked
=============================================================================
