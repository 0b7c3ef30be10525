---------------------- MODULE WorkspaceLifecycleProofs ----------------------
(***************************************************************************)
(* Proofs about WorkspaceLifecycle, for any number of requests and pull    *)
(* requests, with and without the cron scripts.                            *)
(***************************************************************************)
EXTENDS WorkspaceLifecycle, TLAPS

USE MaxPullsAssumption, ScriptsAssumption, NobodyAssumption, RequestsAssumption DEF Actors

-----------------------------------------------------------------------------
(* Rows, and commits of objects that may be stale *)

\* What the code does to a loaded object: status and deletion date change
\* together, and a date that has passed is not put off.
ObjectStep(old, new) ==
  /\ new \in Rows /\ new.exists = old.exists /\ Dated(new)
  /\ new.status = old.status <=> new.archivedAt = old.archivedAt
  /\ new.archivedAt = "old" <=> old.archivedAt = "old" /\ new.status = "ARCHIVED"

\* What a commit does to the row.
RowStep ==
  /\ row' \in Rows /\ row'.exists = row.exists /\ Dated(row')
  /\ row.exists \/ row' = row
  /\ row'.archivedAt = "old" => row.archivedAt = "old"
  /\ row.archivedAt = "old" => row'.archivedAt # "recent"

LEMMA AppliedFacts ==
  ASSUME NEW w \in Rows, Dated(w), NEW pull
  PROVE  ObjectStep(w, Applied(w, pull)) /\ Applied(w, pull).pr = w.pr
BY DEF Rows, Dated, ObjectStep, Applied

LEMMA ActivatedFacts ==
  ASSUME NEW w \in Rows, Dated(w)
  PROVE  ObjectStep(w, Activated(w)) /\ Activated(w).pr = w.pr
BY DEF Rows, Dated, ObjectStep, Activated

LEMMA CheckedFacts ==
  ASSUME NEW w \in Rows, Dated(w), NEW pull
  PROVE  ObjectStep(w, Checked(w, pull)) /\ Checked(w, pull).pr = w.pr
BY DEF Rows, Dated, ObjectStep, Applied, Activated, Checked

\* The UPDATE of the changed columns, column by column.
LEMMA FlushColumns ==
  ASSUME row \in Rows, NEW old \in Rows, NEW new \in Rows, new.exists = old.exists,
         Flush(old, new), row.exists
  PROVE  /\ row' \in Rows
         /\ row'.exists
         /\ row'.status = IF new.status # old.status THEN new.status ELSE row.status
         /\ row'.archivedAt = IF new.archivedAt # old.archivedAt THEN new.archivedAt ELSE row.archivedAt
         /\ row'.pr = IF new.pr # old.pr THEN new.pr ELSE row.pr
BY DEF Rows, Flush

\* A commit of a stale object keeps status and date of the row together.
LEMMA FlushFacts ==
  ASSUME row \in Rows, Dated(row), NEW old \in Rows, NEW new, ObjectStep(old, new),
         row.archivedAt = "old" => old.archivedAt = "old", Dated(old),
         Flush(old, new)
  PROVE  /\ RowStep
         /\ row'.pr = IF row.exists /\ new.pr # old.pr THEN new.pr ELSE row.pr
<1>1. CASE row.exists
  <2>1. /\ row' \in Rows /\ row'.exists
        /\ row'.status = IF new.status # old.status THEN new.status ELSE row.status
        /\ row'.archivedAt = IF new.archivedAt # old.archivedAt THEN new.archivedAt ELSE row.archivedAt
        /\ row'.pr = IF new.pr # old.pr THEN new.pr ELSE row.pr
    BY <1>1, FlushColumns DEF ObjectStep
  <2>2. Dated(row')
    BY <2>1 DEF Rows, ObjectStep, Dated
  <2>3. /\ row'.archivedAt = "old" => row.archivedAt = "old"
        /\ row.archivedAt = "old" => row'.archivedAt # "recent"
    BY <2>1 DEF Rows, ObjectStep, Dated
  <2>4. QED
    BY <1>1, <2>1, <2>2, <2>3 DEF RowStep, Rows
<1>2. CASE ~row.exists
  <2>1. row' = row
    BY <1>2 DEF Flush
  <2>2. row' \in Rows /\ row'.exists = row.exists /\ Dated(row')
    BY <2>1 DEF Dated
  <2>3. QED
    BY <1>2, <2>1, <2>2 DEF RowStep
<1>3. QED
  BY <1>1, <1>2

LEMMA RowFacts == NoRow \in Rows /\ NewRow \in Rows /\ ~NoRow.exists /\ NewRow.exists
<1>1. 0 \in 0..MaxPulls
  OBVIOUS
<1>2. NewRow \in Rows /\ NewRow.exists
  BY <1>1 DEF Rows, NewRow
<1>3. ASSUME NEW w \in Rows PROVE [w EXCEPT !.exists = FALSE] \in Rows
  BY DEF Rows
<1>4. NoRow \in Rows
  BY <1>2, <1>3 DEF NoRow
<1>5. ~NoRow.exists
  BY DEF NoRow, NewRow
<1>6. QED
  BY <1>2, <1>4, <1>5

\* Nothing happens before the workspace is created.
LEMMA BornFacts ==
  ASSUME IInv
  PROVE  (row.exists => born) /\ (\A a \in Actors : pc[a] # "idle" => born)
BY RowFacts DEF IInv, NothingBefore

\* update_workspace changes status and deletion date together.
LEMMA UpdateFacts ==
  ASSUME IInv, NEW r \in Requests, UpdateStatus(r)
  PROVE  RowStep /\ row'.pr = row.pr /\ row.exists /\ born
<1>1. row \in Rows /\ Dated(row) /\ row.exists /\ born
  BY BornFacts DEF UpdateStatus, Readable, IInv, TypeOK, ObjectsFit
<1>2. ObjectStep(row, row') /\ row'.pr = row.pr
  <2>1. CASE row' = Activated(row)
    BY <1>1, <2>1, ActivatedFacts
  <2>2. CASE row.status = "ACTIVE" /\ row' = [row EXCEPT !.status = "ARCHIVED", !.archivedAt = "recent"]
    BY <1>1, <2>2 DEF ObjectStep, Rows, Dated
  <2>3. QED
    BY <2>1, <2>2 DEF UpdateStatus
<1>3. QED
  BY <1>1, <1>2 DEF ObjectStep, RowStep, Rows, Dated

-----------------------------------------------------------------------------
(* An actor that is done, whatever it did *)

\* What changes on GitHub: a pull request in `opened` may become open or closed,
\* the others only if they were; what is merged or detached stays so.
GitHubStep(opened) ==
  /\ pulls' \in [1..MaxPulls -> PullStates]
  /\ \A n \in 1..MaxPulls :
       /\ pulls'[n] \in {"open", "closed"} => pulls[n] \in {"open", "closed"} \/ n \in opened
       /\ pulls[n] \in {"detached", "merged"} => pulls'[n] = pulls[n]

\* A request or script ends, with or without a commit of its object; what it was
\* about to record is recorded or lost.  GitHub may have changed pull requests for it.
LEMMA EndKeeps ==
  ASSUME IInv, NEW a \in Actors, pc[a] # "idle", Return(a), UNCHANGED <<born, tree>>,
         GitHubStep(lost'),
         RowStep, row'.pr = row.pr,
         lost' \subseteq 1..MaxPulls, lost \subseteq lost',
         pc[a] = "proposed" /\ a \in Requests => seen[a].pr \in lost' \cup {0, row.pr}
  PROVE  IInv'
<1>1. TypeOK'
  <2>1. /\ pc' \in [Actors -> Phases] /\ op' \in [Requests -> Operations]
        /\ seen' \in [Actors -> Rows] /\ answer' \in [Actors -> Answers]
    BY RowFacts DEF Return, IInv, TypeOK, Phases, Operations, Answers, PullStates
  <2>2. holder' \in {b \in Requests \cup Scripts : pc'[b] \in InLock} \cup {Nobody}
    BY DEF Return, IInv, TypeOK, Phases, InLock
  <2>3. QED
    BY <2>1, <2>2 DEF RowStep, GitHubStep, IInv, TypeOK
<1>2. NothingBefore'
  BY BornFacts DEF Return, NothingBefore
<1>3. PhaseFits'
  BY DEF Return, IInv, TypeOK, PhaseFits
<1>4. LockIsHeld'
  BY DEF Return, IInv, TypeOK, LockIsHeld, InLock, Phases, Proposing
<1>5. DiskFits'
  BY DEF Return, RowStep, IInv, TypeOK, DiskFits, NoOrphanTree, Proposing
<1>6. ObjectsFit'
  BY DEF Return, RowStep, IInv, TypeOK, ObjectsFit, Loaded, Dated
<1>7. PullsFit'
  <2>1. \A n \in 1..MaxPulls :
          row'.exists /\ pulls'[n] \in {"open", "closed"} =>
            \/ row'.pr = n
            \/ \E r \in Requests : pc'[r] = "proposed" /\ seen'[r].pr = n
            \/ n \in lost'
    BY DEF Return, RowStep, GitHubStep, IInv, TypeOK, PullsFit
  <2>2. row.pr \in 0..MaxPulls
    BY DEF IInv, TypeOK, Rows
  <2>3. QED
    BY <2>1, <2>2 DEF Return, GitHubStep, IInv, TypeOK, PullsFit, Proposing
<1>8. QED
  BY <1>1, <1>2, <1>3, <1>4, <1>5, <1>6, <1>7 DEF IInv

LEMMA ReturnKeeps ==
  ASSUME IInv, NEW a \in Actors, pc[a] # "idle", Return(a), UNCHANGED <<born, tree, pulls>>,
         RowStep, row'.pr = row.pr,
         lost' \subseteq 1..MaxPulls, lost \subseteq lost',
         pc[a] = "proposed" /\ a \in Requests => seen[a].pr \in lost' \cup {0, row.pr}
  PROVE  IInv'
<1>1. GitHubStep(lost')
  BY DEF GitHubStep, IInv, TypeOK
<1>2. QED
  BY <1>1, EndKeeps

-----------------------------------------------------------------------------
(* Requests and scripts that go on *)

\* The row is there before its clone is.
LEMMA CreateKeeps == ASSUME IInv, NEW r \in Requests, Create(r) PROVE IInv'
<1>0. /\ row = NoRow /\ ~tree /\ holder = Nobody /\ (\A n \in 1..MaxPulls : pulls[n] = "none")
      /\ \A a \in Actors : pc[a] = "idle"
  BY DEF Create, IInv, NothingBefore
<1>1. TypeOK'
  BY RowFacts DEF Create, Goto, NoRow, NewRow, IInv, TypeOK, Rows, Phases, Operations, InLock, Answers, PullStates
<1>2. NothingBefore'
  BY RowFacts DEF Create, Goto, NoRow, NewRow, IInv, TypeOK, NothingBefore
<1>3. PhaseFits'
  BY RowFacts DEF Create, Goto, NoRow, NewRow, IInv, TypeOK, PhaseFits
<1>4. LockIsHeld'
  BY <1>0 DEF Create, Goto, IInv, TypeOK, LockIsHeld, InLock, Proposing
<1>5. DiskFits'
  BY <1>0, RowFacts DEF Create, Goto, IInv, TypeOK, DiskFits, NoOrphanTree, Proposing, Proposals
<1>6. ObjectsFit'
  BY RowFacts DEF Create, Goto, NoRow, NewRow, IInv, TypeOK, ObjectsFit, Loaded, Dated, Readable
<1>7. PullsFit'
  BY <1>0 DEF Create, Goto, IInv, TypeOK, PullsFit, Proposing, Proposals
<1>8. QED
  BY <1>1, <1>2, <1>3, <1>4, <1>5, <1>6, <1>7 DEF IInv

LEMMA AskKeeps == ASSUME IInv, NEW r \in Requests, Ask(r) PROVE IInv'
<1>1. TypeOK'
  <2>1. seen' \in [Actors -> Rows]
    BY DEF Ask, IInv, TypeOK
  <2>2. op' \in [Requests -> Operations] /\ pc' \in [Actors -> Phases]
    BY DEF Ask, Goto, IInv, TypeOK, Operations, Phases
  <2>3. QED
    BY <2>1, <2>2 DEF Ask, Goto, IInv, TypeOK, InLock
<1>2. NothingBefore'
  BY BornFacts DEF Ask, Readable, IInv, NothingBefore
<1>3. PhaseFits'
  BY DEF Ask, Goto, IInv, TypeOK, PhaseFits
<1>4. LockIsHeld'
  BY DEF Ask, Goto, IInv, TypeOK, LockIsHeld, InLock, Phases, Proposing, Proposals
<1>5. DiskFits'
  BY DEF Ask, Goto, IInv, TypeOK, NothingBefore, LockIsHeld, InLock, DiskFits, NoOrphanTree, Proposing, Readable
<1>6. ObjectsFit'
  BY DEF Ask, Goto, IInv, TypeOK, ObjectsFit, Loaded, Dated, Readable
<1>7. PullsFit'
  BY DEF Ask, Goto, IInv, TypeOK, PhaseFits, LockIsHeld, InLock, PullsFit, Proposing
<1>8. QED
  BY <1>1, <1>2, <1>3, <1>4, <1>5, <1>6, <1>7 DEF IInv

LEMMA AnswerKeeps == ASSUME IInv, NEW r \in Requests, Answer(r) PROVE IInv'
<1>1. TypeOK'
  <2>1. seen[r].pr \in 1..MaxPulls
    BY DEF Answer, IInv, TypeOK, ObjectsFit, Loaded, Rows
  <2>2. answer' \in [Actors -> Answers]
    BY <2>1 DEF Answer, IInv, TypeOK, Answers
  <2>3. QED
    BY <2>2 DEF Answer, Goto, IInv, TypeOK, Phases, InLock
<1>2. NothingBefore'
  BY DEF Answer, Goto, IInv, TypeOK, NothingBefore
<1>3. PhaseFits'
  BY DEF Answer, Goto, IInv, TypeOK, PhaseFits
<1>4. LockIsHeld'
  BY DEF Answer, Goto, IInv, TypeOK, LockIsHeld, InLock, Phases, Proposing
<1>5. DiskFits'
  BY DEF Answer, Goto, IInv, TypeOK, NothingBefore, LockIsHeld, InLock, DiskFits, NoOrphanTree, Proposing, Readable
<1>6. ObjectsFit'
  BY DEF Answer, Goto, IInv, TypeOK, ObjectsFit, Loaded, Dated, Readable
<1>7. PullsFit'
  BY DEF Answer, Goto, IInv, TypeOK, PhaseFits, LockIsHeld, InLock, PullsFit, Proposing
<1>8. QED
  BY <1>1, <1>2, <1>3, <1>4, <1>5, <1>6, <1>7 DEF IInv

LEMMA UpdateStatusKeeps == ASSUME IInv, NEW r \in Requests, UpdateStatus(r) PROVE IInv'
<1>1. TypeOK'
  BY UpdateFacts DEF UpdateStatus, RowStep, IInv, TypeOK
<1>2. NothingBefore'
  BY UpdateFacts DEF UpdateStatus, NothingBefore
<1>3. PhaseFits'
  BY DEF UpdateStatus, Activated, IInv, TypeOK, PhaseFits
<1>4. LockIsHeld'
  BY DEF UpdateStatus, Activated, IInv, TypeOK, LockIsHeld, InLock, Phases, Proposing
<1>5. DiskFits'
  BY UpdateFacts DEF UpdateStatus, RowStep, IInv, DiskFits, NoOrphanTree, Proposing
<1>6. ObjectsFit'
  BY UpdateFacts DEF UpdateStatus, RowStep, IInv, ObjectsFit, Dated
<1>7. PullsFit'
  BY UpdateFacts DEF UpdateStatus, RowStep, IInv, PullsFit, Proposing
<1>8. QED
  BY <1>1, <1>2, <1>3, <1>4, <1>5, <1>6, <1>7 DEF IInv

LEMMA QueueKeeps == ASSUME IInv, NEW r \in Requests, NEW o \in {"edit", "delete"} \cup Proposals, Queue(r, o) PROVE IInv'
<1>1. TypeOK'
  BY DEF Queue, Goto, Proposals, IInv, TypeOK, Rows, Phases, Operations, InLock, Answers, PullStates
<1>2. NothingBefore'
  BY BornFacts DEF Queue, Readable, IInv, NothingBefore
<1>3. PhaseFits'
  BY DEF Queue, Goto, Proposals, IInv, TypeOK, PhaseFits
<1>4. LockIsHeld'
  BY DEF Queue, Goto, Proposals, IInv, TypeOK, LockIsHeld, InLock, Phases, Proposing
<1>5. DiskFits'
  BY DEF Queue, Goto, Proposals, IInv, TypeOK, NothingBefore, LockIsHeld, InLock, DiskFits, NoOrphanTree, Proposing, Readable
<1>6. ObjectsFit'
  BY DEF Queue, Goto, Proposals, IInv, TypeOK, ObjectsFit, Loaded, Dated, Readable
<1>7. PullsFit'
  BY DEF Queue, Goto, Proposals, IInv, TypeOK, PhaseFits, LockIsHeld, InLock, PullsFit, Proposing
<1>8. QED
  BY <1>1, <1>2, <1>3, <1>4, <1>5, <1>6, <1>7 DEF IInv

LEMMA StartEditKeeps == ASSUME IInv, NEW r \in Requests, StartEdit(r) PROVE IInv'
<1>1. TypeOK'
  BY DEF StartEdit, Enter, Goto, Proposals, IInv, TypeOK, Rows, Phases, Operations, InLock, Answers, PullStates
<1>2. NothingBefore'
  BY DEF StartEdit, Enter, Goto, Proposals, IInv, TypeOK, NothingBefore
<1>3. PhaseFits'
  BY DEF StartEdit, Enter, Goto, Proposals, IInv, TypeOK, PhaseFits
<1>4. LockIsHeld'
  BY DEF StartEdit, Enter, Goto, Proposals, IInv, TypeOK, LockIsHeld, InLock, Phases, Proposing
<1>5. DiskFits'
  BY DEF StartEdit, Enter, Goto, Proposals, IInv, TypeOK, NothingBefore, LockIsHeld, InLock, DiskFits, NoOrphanTree, Proposing, Readable
<1>6. ObjectsFit'
  BY DEF StartEdit, Enter, Goto, Proposals, IInv, TypeOK, ObjectsFit, Loaded, Dated, Readable
<1>7. PullsFit'
  BY DEF StartEdit, Enter, Goto, Proposals, IInv, TypeOK, PhaseFits, LockIsHeld, InLock, PullsFit, Proposing
<1>8. QED
  BY <1>1, <1>2, <1>3, <1>4, <1>5, <1>6, <1>7 DEF IInv

LEMMA StartDeleteKeeps == ASSUME IInv, NEW r \in Requests, StartDelete(r) PROVE IInv'
<1>1. TypeOK'
  BY DEF StartDelete, Enter, Goto, Proposals, IInv, TypeOK, Rows, Phases, Operations, InLock, Answers, PullStates
<1>2. NothingBefore'
  BY DEF StartDelete, Enter, Goto, Proposals, IInv, TypeOK, NothingBefore
<1>3. PhaseFits'
  BY DEF StartDelete, Enter, Goto, Proposals, IInv, TypeOK, PhaseFits
<1>4. LockIsHeld'
  BY DEF StartDelete, Enter, Goto, Proposals, IInv, TypeOK, LockIsHeld, InLock, Phases, Proposing
<1>5. DiskFits'
  BY DEF StartDelete, Enter, Goto, Proposals, IInv, TypeOK, NothingBefore, LockIsHeld, InLock, DiskFits, NoOrphanTree, Proposing, Readable
<1>6. ObjectsFit'
  BY DEF StartDelete, Enter, Goto, Proposals, IInv, TypeOK, ObjectsFit, Loaded, Dated, Readable
<1>7. PullsFit'
  BY DEF StartDelete, Enter, Goto, Proposals, IInv, TypeOK, PhaseFits, LockIsHeld, InLock, PullsFit, Proposing
<1>8. QED
  BY <1>1, <1>2, <1>3, <1>4, <1>5, <1>6, <1>7 DEF IInv

LEMMA StartProposeKeeps == ASSUME IInv, NEW r \in Requests, StartPropose(r) PROVE IInv'
<1>1. TypeOK'
  BY DEF StartPropose, Enter, Goto, Proposals, IInv, TypeOK, Rows, Phases, Operations, InLock, Answers, PullStates
<1>2. NothingBefore'
  BY DEF StartPropose, Enter, Goto, Proposals, IInv, TypeOK, NothingBefore
<1>3. PhaseFits'
  BY DEF StartPropose, Enter, Goto, Proposals, IInv, TypeOK, PhaseFits
<1>4. LockIsHeld'
  BY DEF StartPropose, Enter, Goto, Proposals, IInv, TypeOK, LockIsHeld, InLock, Phases, Proposing
<1>5. DiskFits'
  BY DEF StartPropose, Enter, Goto, Proposals, IInv, TypeOK, NothingBefore, LockIsHeld, InLock, DiskFits, NoOrphanTree, Proposing, Readable
<1>6. ObjectsFit'
  BY DEF StartPropose, Enter, Goto, Proposals, IInv, TypeOK, ObjectsFit, Loaded, Dated, Readable
<1>7. PullsFit'
  BY DEF StartPropose, Enter, Goto, Proposals, IInv, TypeOK, PhaseFits, LockIsHeld, InLock, PullsFit, Proposing
<1>8. QED
  BY <1>1, <1>2, <1>3, <1>4, <1>5, <1>6, <1>7 DEF IInv

LEMMA RemoveTreeKeeps == ASSUME IInv, NEW a \in Actors \ {"check"}, RemoveTree(a) PROVE IInv'
<1>1. TypeOK'
  BY DEF RemoveTree, Goto, Proposals, IInv, TypeOK, Rows, Phases, Operations, InLock, Answers, PullStates
<1>2. NothingBefore'
  BY DEF RemoveTree, Goto, Proposals, IInv, TypeOK, NothingBefore
<1>3. PhaseFits'
  BY DEF RemoveTree, Goto, Proposals, IInv, TypeOK, PhaseFits
<1>4. LockIsHeld'
  BY DEF RemoveTree, Goto, Proposals, IInv, TypeOK, LockIsHeld, InLock, Phases, Proposing
<1>5. DiskFits'
  <2>1. a \in Requests => op[a] = "delete"
    BY DEF RemoveTree, IInv, PhaseFits
  <2>2. holder = a
    BY DEF RemoveTree, IInv, LockIsHeld, InLock, Phases
  <2>3. \A r \in Requests : ~Proposing(r)
    BY <2>1, <2>2 DEF RemoveTree, IInv, LockIsHeld, Proposing, Proposals
  <2>4. \A r \in Requests : ~Proposing(r)'
    BY <2>1, <2>3 DEF RemoveTree, Goto, IInv, TypeOK, Proposing, Proposals
  <2>5. QED
    BY <2>4 DEF RemoveTree, Goto, IInv, TypeOK, DiskFits, NoOrphanTree
<1>6. ObjectsFit'
  BY DEF RemoveTree, Goto, Proposals, IInv, TypeOK, ObjectsFit, Loaded, Dated, Readable
<1>7. PullsFit'
  BY DEF RemoveTree, Goto, Proposals, IInv, TypeOK, PhaseFits, LockIsHeld, InLock, PullsFit, Proposing
<1>8. QED
  BY <1>1, <1>2, <1>3, <1>4, <1>5, <1>6, <1>7 DEF IInv

LEMMA CheckLoadKeeps == ASSUME IInv, CheckLoad PROVE IInv'
<1>1. TypeOK'
  BY DEF CheckLoad, Goto, IInv, TypeOK, Rows, Phases, Operations, InLock, Answers, PullStates
<1>2. NothingBefore'
  BY BornFacts DEF CheckLoad, Readable, IInv, NothingBefore
<1>3. PhaseFits'
  BY DEF CheckLoad, Goto, IInv, TypeOK, PhaseFits
<1>4. LockIsHeld'
  BY DEF CheckLoad, Goto, IInv, TypeOK, LockIsHeld, InLock, Phases, Proposing
<1>5. DiskFits'
  BY DEF CheckLoad, Goto, IInv, TypeOK, NothingBefore, LockIsHeld, InLock, DiskFits, NoOrphanTree, Proposing, Readable
<1>6. ObjectsFit'
  BY DEF CheckLoad, Goto, IInv, TypeOK, ObjectsFit, Loaded, Dated, Readable
<1>7. PullsFit'
  BY DEF CheckLoad, Goto, IInv, TypeOK, PhaseFits, LockIsHeld, InLock, PullsFit, Proposing
<1>8. QED
  BY <1>1, <1>2, <1>3, <1>4, <1>5, <1>6, <1>7 DEF IInv

LEMMA CheckFetchKeeps == ASSUME IInv, CheckFetch PROVE IInv'
<1>1. TypeOK'
  <2>1. seen["check"].pr \in 1..MaxPulls
    BY DEF CheckFetch, IInv, TypeOK, ObjectsFit, Loaded, Rows
  <2>2. answer' \in [Actors -> Answers]
    BY <2>1 DEF CheckFetch, IInv, TypeOK, Answers
  <2>3. QED
    BY <2>2 DEF CheckFetch, Goto, IInv, TypeOK, Phases, InLock
<1>2. NothingBefore'
  BY DEF CheckFetch, Goto, IInv, TypeOK, NothingBefore
<1>3. PhaseFits'
  BY DEF CheckFetch, Goto, IInv, TypeOK, PhaseFits
<1>4. LockIsHeld'
  BY DEF CheckFetch, Goto, IInv, TypeOK, LockIsHeld, InLock, Phases, Proposing
<1>5. DiskFits'
  BY DEF CheckFetch, Goto, IInv, TypeOK, NothingBefore, LockIsHeld, InLock, DiskFits, NoOrphanTree, Proposing, Readable
<1>6. ObjectsFit'
  BY DEF CheckFetch, Goto, IInv, TypeOK, ObjectsFit, Loaded, Dated, Readable
<1>7. PullsFit'
  BY DEF CheckFetch, Goto, IInv, TypeOK, PhaseFits, LockIsHeld, InLock, PullsFit, Proposing
<1>8. QED
  BY <1>1, <1>2, <1>3, <1>4, <1>5, <1>6, <1>7 DEF IInv

LEMMA CleanupSelectKeeps == ASSUME IInv, CleanupSelect PROVE IInv'
<1>1. TypeOK'
  BY DEF CleanupSelect, Goto, IInv, TypeOK, Rows, Phases, Operations, InLock, Answers, PullStates
<1>2. NothingBefore'
  BY BornFacts DEF CleanupSelect, Readable, IInv, NothingBefore
<1>3. PhaseFits'
  BY DEF CleanupSelect, Goto, IInv, TypeOK, PhaseFits
<1>4. LockIsHeld'
  BY DEF CleanupSelect, Goto, IInv, TypeOK, LockIsHeld, InLock, Phases, Proposing
<1>5. DiskFits'
  BY DEF CleanupSelect, Goto, IInv, TypeOK, NothingBefore, LockIsHeld, InLock, DiskFits, NoOrphanTree, Proposing, Readable
<1>6. ObjectsFit'
  BY DEF CleanupSelect, Goto, IInv, TypeOK, ObjectsFit, Loaded, Dated, Readable
<1>7. PullsFit'
  BY DEF CleanupSelect, Goto, IInv, TypeOK, PhaseFits, LockIsHeld, InLock, PullsFit, Proposing
<1>8. QED
  BY <1>1, <1>2, <1>3, <1>4, <1>5, <1>6, <1>7 DEF IInv

LEMMA CleanupLockKeeps == ASSUME IInv, CleanupLock PROVE IInv'
<1>1. TypeOK'
  BY DEF CleanupLock, Enter, Goto, IInv, TypeOK, Rows, Phases, Operations, InLock, Answers, PullStates
<1>2. NothingBefore'
  BY DEF CleanupLock, Enter, Goto, IInv, TypeOK, NothingBefore
<1>3. PhaseFits'
  BY DEF CleanupLock, Enter, Goto, IInv, TypeOK, PhaseFits
<1>4. LockIsHeld'
  <2> SUFFICES ASSUME NEW a \in Actors, a # "cleanup"
               PROVE  ~(pc'[a] \in InLock \ {"asking", "answered"} \/ Proposing(a)')
    BY DEF CleanupLock, Enter, LockIsHeld
  <2>1. holder # a
    BY DEF CleanupLock, Enter
  <2>2. QED
    BY <2>1 DEF CleanupLock, Goto, IInv, TypeOK, LockIsHeld, Proposing
<1>5. DiskFits'
  BY DEF CleanupLock, Enter, Goto, IInv, TypeOK, NothingBefore, LockIsHeld, InLock, DiskFits, NoOrphanTree, Proposing, Readable
<1>6. ObjectsFit'
  BY DEF CleanupLock, Enter, Goto, IInv, TypeOK, ObjectsFit, Loaded, Dated, Readable
<1>7. PullsFit'
  BY DEF CleanupLock, Enter, Goto, IInv, TypeOK, PhaseFits, LockIsHeld, InLock, PullsFit, Proposing
<1>8. QED
  BY <1>1, <1>2, <1>3, <1>4, <1>5, <1>6, <1>7 DEF IInv

LEMMA GitHubKeeps == ASSUME IInv, GitHub PROVE IInv'
<1>1. TypeOK'
  <2>1. pulls' \in [1..MaxPulls -> PullStates]
    BY DEF GitHub, IInv, TypeOK, PullStates
  <2>2. QED
    BY <2>1 DEF GitHub, IInv, TypeOK
<1>2. NothingBefore'
  BY DEF GitHub, AloneOpen, IInv, TypeOK, NothingBefore
<1>3. PhaseFits'
  BY DEF GitHub, AloneOpen, IInv, TypeOK, PhaseFits
<1>4. LockIsHeld'
  BY DEF GitHub, AloneOpen, IInv, TypeOK, LockIsHeld, InLock, Phases, Proposing
<1>5. DiskFits'
  BY DEF GitHub, AloneOpen, IInv, TypeOK, NothingBefore, LockIsHeld, InLock, DiskFits, NoOrphanTree, Proposing, Readable
<1>6. ObjectsFit'
  BY DEF GitHub, AloneOpen, IInv, TypeOK, ObjectsFit, Loaded, Dated, Readable
<1>7. PullsFit'
  <2>1. \A n \in 1..MaxPulls :
          /\ pulls'[n] \in {"open", "closed"} => pulls[n] \in {"open", "closed"}
          /\ pulls[n] \in {"detached", "merged"} => pulls'[n] = pulls[n]
    BY DEF GitHub, IInv, TypeOK
  <2>2. \A r \in Requests : row.pr \in 0..MaxPulls
    BY DEF IInv, TypeOK, Rows
  <2>3. QED
    BY <2>1, <2>2 DEF GitHub, IInv, PullsFit, Proposing
<1>8. QED
  BY <1>1, <1>2, <1>3, <1>4, <1>5, <1>6, <1>7 DEF IInv

LEMMA AgeKeeps == ASSUME IInv, Age PROVE IInv'
<1>0. /\ row' \in Rows /\ row'.exists = row.exists /\ row'.pr = row.pr /\ Dated(row') /\ row.exists
  BY RowFacts DEF Age, IInv, TypeOK, ObjectsFit, Rows, Dated, NoRow, NewRow
<1>1. TypeOK'
  BY DEF Age, IInv, TypeOK, Rows, Phases, Operations, InLock, Answers, PullStates
<1>2. NothingBefore'
  BY <1>0, BornFacts DEF Age, IInv, NothingBefore
<1>3. PhaseFits'
  BY DEF Age, IInv, TypeOK, PhaseFits
<1>4. LockIsHeld'
  BY DEF Age, IInv, TypeOK, LockIsHeld, InLock, Phases, Proposing
<1>5. DiskFits'
  BY DEF Age, IInv, TypeOK, NothingBefore, LockIsHeld, InLock, DiskFits, NoOrphanTree, Proposing, Readable
<1>6. ObjectsFit'
  BY <1>0 DEF Age, IInv, ObjectsFit, Loaded, Dated
<1>7. PullsFit'
  BY DEF Age, IInv, TypeOK, PhaseFits, LockIsHeld, InLock, PullsFit, Proposing
<1>8. QED
  BY <1>1, <1>2, <1>3, <1>4, <1>5, <1>6, <1>7 DEF IInv

LEMMA CloneKeeps == ASSUME IInv, NEW r \in Requests, Clone(r) PROVE IInv'
<1>1. TypeOK'
  BY RowFacts DEF Clone, Return, IInv, TypeOK, Rows, Phases, Operations, InLock, Answers, PullStates
<1>2. NothingBefore'
  BY RowFacts DEF Clone, Return, IInv, TypeOK, NothingBefore
<1>3. PhaseFits'
  BY RowFacts DEF Clone, Return, IInv, TypeOK, PhaseFits
<1>4. LockIsHeld'
  BY RowFacts DEF Clone, Return, IInv, TypeOK, LockIsHeld, InLock, Phases, Proposing
<1>5. DiskFits'
  BY RowFacts DEF Clone, Return, IInv, TypeOK, NothingBefore, LockIsHeld, InLock, DiskFits, NoOrphanTree, Proposing, Readable
<1>6. ObjectsFit'
  BY RowFacts DEF Clone, Return, IInv, TypeOK, ObjectsFit, Loaded, Dated, Readable
<1>7. PullsFit'
  BY RowFacts DEF Clone, Return, IInv, TypeOK, PhaseFits, LockIsHeld, InLock, PullsFit, Proposing
<1>8. QED
  BY <1>1, <1>2, <1>3, <1>4, <1>5, <1>6, <1>7 DEF IInv

LEMMA DeleteRowKeeps == ASSUME IInv, NEW a \in Actors \ {"check"}, DeleteRow(a) PROVE IInv'
<1>1. TypeOK'
  BY RowFacts DEF DeleteRow, Return, NoRow, NewRow, IInv, TypeOK, Rows, Phases, Operations, InLock, Answers, PullStates
<1>2. NothingBefore'
  BY RowFacts DEF DeleteRow, Return, NoRow, NewRow, IInv, TypeOK, NothingBefore
<1>3. PhaseFits'
  BY RowFacts DEF DeleteRow, Return, NoRow, NewRow, IInv, TypeOK, PhaseFits
<1>4. LockIsHeld'
  BY RowFacts DEF DeleteRow, Return, NoRow, NewRow, IInv, TypeOK, LockIsHeld, InLock, Phases, Proposing
<1>5. DiskFits'
  BY RowFacts DEF DeleteRow, Return, NoRow, NewRow, IInv, TypeOK, NothingBefore, LockIsHeld, InLock, DiskFits, NoOrphanTree, Proposing, Readable
<1>6. ObjectsFit'
  BY RowFacts DEF DeleteRow, Return, NoRow, NewRow, IInv, TypeOK, ObjectsFit, Loaded, Dated, Readable
<1>7. PullsFit'
  BY RowFacts DEF DeleteRow, Return, NoRow, NewRow, IInv, TypeOK, PhaseFits, LockIsHeld, InLock, PullsFit, Proposing
<1>8. QED
  BY <1>1, <1>2, <1>3, <1>4, <1>5, <1>6, <1>7 DEF IInv

LEMMA DieKeeps == ASSUME IInv, Die PROVE IInv'
<1>1. TypeOK'
  <2>1. pc' \in [Actors -> Phases] /\ seen' \in [Actors -> Rows] /\ answer' \in [Actors -> Answers]
    BY RowFacts DEF Die, IInv, TypeOK, Phases, Answers, PullStates
  <2>2. op' \in [Requests -> Operations] /\ tree' \in BOOLEAN
    BY DEF Die, IInv, TypeOK, Operations
  <2>3. lost' \subseteq 1..MaxPulls
    <3>1. row.pr \in 0..MaxPulls /\ \A r \in Requests : seen[r].pr \in 0..MaxPulls
      BY DEF IInv, TypeOK, Rows
    <3>2. ASSUME NEW r \in Requests, pc[r] = "proposed" PROVE seen[r].pr \in 1..MaxPulls
      BY <3>1, <3>2 DEF IInv, ObjectsFit, Loaded
    <3>3. QED
      <4>1. Unrecorded(Requests) \subseteq 1..MaxPulls
        BY <3>2 DEF Unrecorded
      <4>2. QED
        BY <4>1 DEF Die, IInv, TypeOK
  <2>4. holder' \in {b \in Requests \cup Scripts : pc'[b] \in InLock} \cup {Nobody}
    BY DEF Die, IInv, TypeOK
  <2>5. QED
    BY <2>1, <2>2, <2>3, <2>4 DEF Die, IInv, TypeOK
<1>2. NothingBefore'
  BY RowFacts DEF Die, Unrecorded, IInv, TypeOK, NothingBefore
<1>3. PhaseFits'
  BY RowFacts DEF Die, Unrecorded, IInv, TypeOK, PhaseFits
<1>4. LockIsHeld'
  BY RowFacts DEF Die, Unrecorded, IInv, TypeOK, LockIsHeld, InLock, Phases, Proposing
<1>5. DiskFits'
  BY RowFacts DEF Die, Unrecorded, IInv, TypeOK, NothingBefore, LockIsHeld, InLock, DiskFits, NoOrphanTree, Proposing, Readable
<1>6. ObjectsFit'
  BY RowFacts DEF Die, Unrecorded, IInv, TypeOK, ObjectsFit, Loaded, Dated, Readable
<1>7. PullsFit'
  BY RowFacts DEF Die, Unrecorded, IInv, TypeOK, PhaseFits, LockIsHeld, InLock, PullsFit, Proposing
<1>8. QED
  BY <1>1, <1>2, <1>3, <1>4, <1>5, <1>6, <1>7 DEF IInv

-----------------------------------------------------------------------------
(* Commits: each keeps the row consistent, and moves no date that has passed *)

LEMMA LoadedFacts ==
  ASSUME IInv, NEW a \in Actors, pc[a] \in Loaded
  PROVE  /\ row \in Rows /\ Dated(row)
         /\ seen[a] \in Rows /\ seen[a].exists /\ Dated(seen[a])
         /\ row.archivedAt = "old" => seen[a].archivedAt = "old"
BY DEF IInv, TypeOK, ObjectsFit

LEMMA CommitFacts ==
  ASSUME IInv, NEW a \in Actors, pc[a] \in Loaded,
         NEW new, ObjectStep(seen[a], new), new.pr = seen[a].pr, Flush(seen[a], new)
  PROVE  RowStep /\ row'.pr = row.pr
BY LoadedFacts, FlushFacts

LEMMA NoCommitFacts ==
  ASSUME IInv, UNCHANGED row
  PROVE  RowStep /\ row'.pr = row.pr
BY DEF IInv, TypeOK, ObjectsFit, RowStep, Dated

LEMMA RefreshCommits ==
  ASSUME IInv, NEW r \in Requests, Refresh(r) \/ RefreshInPropose(r)
  PROVE  RowStep /\ row'.pr = row.pr
<1>1. pc[r] \in Loaded
  BY DEF Refresh, RefreshInPropose, Loaded
<1>2. UNCHANGED row \/ Flush(seen[r], Applied(seen[r], answer[r]))
  BY DEF Refresh, RefreshInPropose
<1>3. QED
  BY <1>1, <1>2, LoadedFacts, AppliedFacts, CommitFacts, NoCommitFacts

LEMMA ReactivateCommits ==
  ASSUME IInv, NEW r \in Requests, Reactivate(r)
  PROVE  RowStep /\ row'.pr = row.pr
<1>1. pc[r] \in Loaded
  BY DEF Reactivate, Loaded
<1>2. UNCHANGED row \/ Flush(seen[r], Activated(seen[r]))
  BY DEF Reactivate
<1>3. QED
  BY <1>1, <1>2, LoadedFacts, ActivatedFacts, CommitFacts, NoCommitFacts

LEMMA CheckCommits ==
  ASSUME IInv, CheckApply
  PROVE  RowStep /\ row'.pr = row.pr
<1>1. "check" \in Actors /\ pc["check"] \in Loaded
  BY DEF CheckApply, Loaded
<1>2. Flush(seen["check"], Checked(seen["check"], answer["check"]))
  BY DEF CheckApply
<1>3. QED
  BY <1>1, <1>2, LoadedFacts, CheckedFacts, CommitFacts

\* The proposal writes the number of its pull request too.  Reopening makes the
\* workspace active, and GitHub's answer is that the pull request is open.
LEMMA RecordFacts ==
  ASSUME IInv, NEW r \in Requests, pc[r] = "proposed",
         Flush([seen[r] EXCEPT !.pr = row.pr],
               Applied(IF op[r] = "open" THEN Activated(seen[r]) ELSE seen[r], answer[r]))
  PROVE  RowStep /\ row'.pr = IF row.exists THEN seen[r].pr ELSE row.pr
<1> DEFINE old == [seen[r] EXCEPT !.pr = row.pr]
           w == IF op[r] = "open" THEN Activated(seen[r]) ELSE seen[r]
           new == Applied(w, answer[r])
<1>1. /\ row \in Rows /\ Dated(row) /\ seen[r] \in Rows /\ Dated(seen[r])
      /\ row.archivedAt = "old" => seen[r].archivedAt = "old"
  BY LoadedFacts DEF Loaded
<1>2. /\ old \in Rows /\ Dated(old) /\ old.exists = seen[r].exists /\ old.pr = row.pr
      /\ old.status = seen[r].status /\ old.archivedAt = seen[r].archivedAt
  BY <1>1 DEF Rows, Dated
<1>3. op[r] = "open" => answer[r] = "open"
  BY DEF IInv, PullsFit
<1>4. ObjectStep(seen[r], new) /\ new.pr = seen[r].pr
  <2>1. CASE op[r] = "open"
    <3>1. ObjectStep(seen[r], Activated(seen[r])) /\ Activated(seen[r]).pr = seen[r].pr
      BY <1>1, ActivatedFacts
    <3>2. new = [Activated(seen[r]) EXCEPT !.prStatus = "OPEN"]
      BY <1>3, <2>1 DEF Applied
    <3>3. QED
      BY <3>1, <3>2 DEF ObjectStep, Rows, Dated
  <2>2. CASE op[r] # "open"
    BY <1>1, <2>2, AppliedFacts
  <2>3. QED
    BY <2>1, <2>2
<1> HIDE DEF old, new
<1>5. ObjectStep(old, new)
  BY <1>2, <1>4 DEF ObjectStep
<1>6. Flush(old, new)
  BY DEF old, new
<1>7. QED
  BY <1>1, <1>2, <1>4, <1>5, <1>6, FlushFacts

LEMMA ProposalCommits ==
  ASSUME IInv, NEW r \in Requests, CommitProposal(r)
  PROVE  RowStep /\ row'.pr \in {row.pr, seen[r].pr}
BY RecordFacts, NoCommitFacts DEF CommitProposal

-----------------------------------------------------------------------------
(* Requests and scripts that end *)

LEMMA RefreshKeeps == ASSUME IInv, NEW r \in Requests, Refresh(r) PROVE IInv'
BY RefreshCommits, ReturnKeeps DEF Refresh, IInv, TypeOK

LEMMA ReactivateKeeps == ASSUME IInv, NEW r \in Requests, Reactivate(r) PROVE IInv'
BY ReactivateCommits, ReturnKeeps DEF Reactivate, IInv, TypeOK

LEMMA EndEditKeeps == ASSUME IInv, NEW r \in Requests, EndEdit(r) PROVE IInv'
BY NoCommitFacts, ReturnKeeps DEF EndEdit, IInv, TypeOK

LEMMA DeletionFailsKeeps == ASSUME IInv, NEW a \in Actors, DeletionFails(a) PROVE IInv'
BY NoCommitFacts, ReturnKeeps DEF DeletionFails, IInv, TypeOK

LEMMA RefuseProposeKeeps == ASSUME IInv, NEW r \in Requests, RefusePropose(r) PROVE IInv'
BY NoCommitFacts, ReturnKeeps DEF RefusePropose, IInv, TypeOK

LEMMA CheckFailsKeeps == ASSUME IInv, CheckFails PROVE IInv'
BY NoCommitFacts, ReturnKeeps DEF CheckFails, IInv, TypeOK

LEMMA CheckApplyKeeps == ASSUME IInv, CheckApply PROVE IInv'
BY CheckCommits, ReturnKeeps DEF CheckApply, IInv, TypeOK

LEMMA CleanupSkipKeeps == ASSUME IInv, CleanupSkip PROVE IInv'
BY NoCommitFacts, ReturnKeeps DEF CleanupSkip, IInv, TypeOK

-----------------------------------------------------------------------------
(* propose, after it has the lock *)

\* What a proposal knows: nobody else is inside, and its object has the row's
\* pull request.
LEMMA ProposingFacts ==
  ASSUME IInv, NEW r \in Requests, Proposing(r)
  PROVE  /\ holder = r /\ row.exists /\ tree /\ born
         /\ pc[r] # "proposed" => seen[r].pr = row.pr
         /\ row.pr \in 0..MaxPulls /\ seen[r].pr \in 0..MaxPulls
         /\ \A q \in Requests \ {r} : pc[q] # "proposed" /\ ~Proposing(q)
<1>1. holder = r
  BY DEF IInv, LockIsHeld
<1>2. row.exists /\ tree /\ born /\ (pc[r] # "proposed" => seen[r].pr = row.pr)
  BY BornFacts DEF IInv, DiskFits, PullsFit
<1>3. row.pr \in 0..MaxPulls /\ seen[r].pr \in 0..MaxPulls
  BY DEF IInv, TypeOK, Rows
<1>4. \A q \in Requests \ {r} : pc[q] # "proposed" /\ ~Proposing(q)
  BY <1>1 DEF IInv, LockIsHeld, InLock, Phases
<1>5. QED
  BY <1>1, <1>2, <1>3, <1>4

LEMMA RefreshInProposeKeeps == ASSUME IInv, NEW r \in Requests, RefreshInPropose(r) PROVE IInv'
<1> DEFINE w == IF answer[r] = "error" THEN seen[r] ELSE row'
<1>1. RowStep /\ row'.pr = row.pr
  BY RefreshCommits
<1>2. pc[r] = "answered" /\ op[r] \in Proposals /\ Proposing(r) /\ pc[r] \in Loaded
  BY DEF RefreshInPropose, Proposing, Loaded
<1>3. CASE Refused(op[r], w)
  BY <1>1, <1>2, <1>3, ReturnKeeps DEF RefreshInPropose, IInv, TypeOK
<1>4. CASE ~Refused(op[r], w)
  <2>1. /\ w \in Rows /\ w.exists /\ Dated(w) /\ w.pr = row.pr
        /\ row'.archivedAt = "old" => w.archivedAt = "old"
    BY <1>1, <1>2, LoadedFacts, ProposingFacts DEF RowStep
  <2>2. /\ seen' = [seen EXCEPT ![r] = w] /\ pc' = [pc EXCEPT ![r] = "pushing"]
        /\ answer' = [answer EXCEPT ![r] = "none"]
        /\ UNCHANGED <<born, tree, pulls, lost, holder, op>>
    BY <1>4 DEF RefreshInPropose, Goto
  <2> HIDE DEF w
  <2>3. TypeOK'
    BY <1>1, <2>1, <2>2 DEF RowStep, IInv, TypeOK, Phases, InLock, Answers, PullStates
  <2>4. NothingBefore'
    BY <1>2, <2>2, BornFacts DEF NothingBefore
  <2>5. PhaseFits'
    BY <1>2, <2>2 DEF IInv, TypeOK, PhaseFits
  <2>6. LockIsHeld'
    BY <1>2, <2>2, ProposingFacts DEF IInv, TypeOK, LockIsHeld, InLock, Proposing
  <2>7. DiskFits'
    BY <1>1, <1>2, <2>2, ProposingFacts DEF RowStep, IInv, TypeOK, DiskFits, NoOrphanTree, Proposing
  <2>8. ObjectsFit'
    BY <1>1, <2>1, <2>2 DEF RowStep, IInv, TypeOK, ObjectsFit, Loaded, Dated
  <2>9. PullsFit'
    BY <1>1, <1>2, <2>1, <2>2 DEF RowStep, IInv, TypeOK, PullsFit, Proposing
  <2>10. QED
    BY <2>3, <2>4, <2>5, <2>6, <2>7, <2>8, <2>9 DEF IInv
<1>5. QED
  BY <1>3, <1>4

LEMMA PushKeeps == ASSUME IInv, NEW r \in Requests, Push(r) PROVE IInv'
<1>1. pc[r] = "pushing" /\ op[r] \in Proposals /\ Proposing(r)
  BY DEF Push, Proposing, IInv, PhaseFits
<1>2. CASE Return(r)
  BY <1>1, <1>2, NoCommitFacts, ReturnKeeps DEF Push, IInv, TypeOK
<1>3. CASE Goto(r, "proposing") /\ UNCHANGED <<op, seen, answer, holder>>
  <2>1. TypeOK'
    BY <1>1, <1>3 DEF Push, Goto, IInv, TypeOK, Phases, InLock
  <2>2. NothingBefore'
    BY <1>1, <1>3, BornFacts DEF Push, NothingBefore
  <2>3. PhaseFits'
    BY <1>1, <1>3 DEF Push, Goto, IInv, TypeOK, PhaseFits
  <2>4. LockIsHeld'
    BY <1>1, <1>3 DEF Push, Goto, IInv, TypeOK, LockIsHeld, InLock, Proposing
  <2>5. DiskFits'
    BY <1>1, <1>3 DEF Push, Goto, IInv, TypeOK, DiskFits, NoOrphanTree, Proposing
  <2>6. ObjectsFit'
    BY <1>1, <1>3 DEF Push, Goto, IInv, TypeOK, ObjectsFit, Loaded, Dated
  <2>7. PullsFit'
    BY <1>1, <1>3 DEF Push, Goto, IInv, TypeOK, PullsFit, Proposing
  <2>8. QED
    BY <2>1, <2>2, <2>3, <2>4, <2>5, <2>6, <2>7 DEF IInv
<1>4. QED
  BY <1>2, <1>3 DEF Push

LEMMA NextPullFacts ==
  ASSUME \E n \in 1..MaxPulls : pulls[n] = "none"
  PROVE  NextPull \in 1..MaxPulls /\ pulls[NextPull] = "none"
BY DEF NextPull

\* GitHub opens a pull request only when the row's is no longer open and cannot be
\* reopened.
LEMMA OpenPullFacts ==
  ASSUME IInv, NEW r \in Requests, pc[r] = "proposing", OpenPull(r)
  PROVE  /\ GitHubStep({NextPull}) /\ NextPull \in 1..MaxPulls
         /\ pulls'[NextPull] = "open"
         /\ row.pr = 0 \/ pulls'[row.pr] \in {"detached", "merged"}
<1>1. Proposing(r)
  BY DEF Proposing, IInv, PhaseFits
<1>2. seen[r].pr = row.pr /\ row.pr \in 0..MaxPulls
  BY <1>1, ProposingFacts
<1>3. NextPull \in 1..MaxPulls /\ pulls[NextPull] = "none"
  BY NextPullFacts DEF OpenPull
<1>4. pulls \in [1..MaxPulls -> PullStates]
  BY DEF IInv, TypeOK
<1>5. CASE /\ row.pr = 0 \/ pulls[row.pr] = "detached"
           /\ pulls' = [pulls EXCEPT ![NextPull] = "open"]
  BY <1>2, <1>3, <1>4, <1>5 DEF GitHubStep, PullStates
<1>6. CASE /\ row.pr # 0 /\ pulls[row.pr] \in {"closed", "merged"}
           /\ pulls' = [pulls EXCEPT ![NextPull] = "open",
                                     ![row.pr] = IF @ = "merged" THEN @ ELSE "detached"]
  <2>1. row.pr \in 1..MaxPulls /\ row.pr # NextPull
    BY <1>2, <1>3, <1>6
  <2>2. pulls'[NextPull] = "open"
    BY <1>3, <1>4, <1>6, <2>1
  <2>3. pulls'[row.pr] = IF pulls[row.pr] = "merged" THEN "merged" ELSE "detached"
    BY <1>4, <1>6, <2>1
  <2>4. \A n \in 1..MaxPulls : n \notin {NextPull, row.pr} => pulls'[n] = pulls[n]
    BY <1>4, <1>6
  <2>5. pulls' \in [1..MaxPulls -> PullStates]
    BY <1>3, <1>4, <1>6, <2>1, <2>2, <2>3, <2>4 DEF PullStates
  <2>6. GitHubStep({NextPull})
    BY <1>3, <1>6, <2>2, <2>3, <2>4, <2>5 DEF GitHubStep
  <2>7. QED
    BY <1>3, <2>2, <2>3, <2>6
<1>7. QED
  BY <1>2, <1>5, <1>6 DEF OpenPull

\* GitHub changes the row's pull request, which it leaves neither detached nor
\* unopened.
LEMMA ChangePullFacts ==
  ASSUME IInv, NEW r \in Requests, pc[r] = "proposing", ChangePull(r)
  PROVE  /\ GitHubStep({}) /\ seen[r].pr = row.pr /\ row.pr \in 1..MaxPulls
         /\ op[r] = "open" => pulls'[row.pr] = "open"
<1>1. Proposing(r)
  BY DEF Proposing, IInv, PhaseFits
<1>2. seen[r].pr = row.pr /\ row.pr \in 1..MaxPulls
  BY <1>1, ProposingFacts DEF ChangePull
<1>3. pulls \in [1..MaxPulls -> PullStates]
  BY DEF IInv, TypeOK
<1>4. CASE pulls[row.pr] = "merged" /\ op[r] # "open" /\ UNCHANGED pulls
  BY <1>2, <1>3, <1>4 DEF GitHubStep
<1>5. CASE pulls[row.pr] \notin {"merged", "detached", "none"}
  <2>1. PICK state \in PullStates : /\ pulls' = [pulls EXCEPT ![row.pr] = state]
                                    /\ op[r] = "open" => state = "open"
    BY <1>2, <1>3, <1>5 DEF ChangePull, PullStates
  <2>2. pulls[row.pr] \in {"open", "closed"}
    BY <1>2, <1>3, <1>5 DEF PullStates
  <2>3. QED
    BY <1>2, <1>3, <2>1, <2>2 DEF GitHubStep
<1>6. QED
  BY <1>2, <1>4, <1>5 DEF ChangePull

\* The answer about the pull request n, opened or changed, is on its way.
LEMMA AnsweredKeeps ==
  ASSUME IInv, NEW r \in Requests, pc[r] = "proposing", NEW n \in 1..MaxPulls,
         Answered(r, n), UNCHANGED <<born, row, tree>>, GitHubStep({n}),
         op[r] = "open" => pulls'[n] = "open",
         row.pr \in {0, n} \/ pulls'[row.pr] \in {"detached", "merged"}
  PROVE  IInv'
<1>1. op[r] \in Proposals /\ Proposing(r)
  BY DEF Proposing, IInv, PhaseFits
<1>2. TypeOK'
  <2>1. seen' \in [Actors -> Rows]
    <3>1. ASSUME NEW w \in Rows PROVE [w EXCEPT !.pr = n] \in Rows
      BY DEF Rows
    <3>2. seen' = [seen EXCEPT ![r] = [seen[r] EXCEPT !.pr = n]] /\ seen \in [Actors -> Rows]
      BY DEF Answered, IInv, TypeOK
    <3>3. QED
      BY <3>1, <3>2
  <2>2. answer' \in [Actors -> Answers] /\ pulls' \in [1..MaxPulls -> PullStates]
    BY DEF Answered, GitHubStep, IInv, TypeOK, Answers
  <2>3. QED
    BY <2>1, <2>2 DEF Answered, Goto, IInv, TypeOK, Phases, InLock
<1>3. NothingBefore'
  BY <1>1, BornFacts DEF Answered, NothingBefore
<1>4. PhaseFits'
  BY <1>1 DEF Answered, Goto, IInv, TypeOK, PhaseFits
<1>5. LockIsHeld'
  BY <1>1 DEF Answered, Goto, IInv, TypeOK, LockIsHeld, InLock, Proposing
<1>6. DiskFits'
  BY <1>1 DEF Answered, Goto, IInv, TypeOK, DiskFits, NoOrphanTree, Proposing
<1> DEFINE w == [seen[r] EXCEPT !.pr = n]
<1>7. w.pr = n /\ w.exists = seen[r].exists /\ w.status = seen[r].status /\ w.archivedAt = seen[r].archivedAt
  BY DEF IInv, TypeOK, Rows
<1>8. seen' = [seen EXCEPT ![r] = w] /\ seen \in [Actors -> Rows]
  BY DEF Answered, IInv, TypeOK
<1> HIDE DEF w
<1>9. ObjectsFit'
  BY <1>7, <1>8 DEF Answered, Goto, IInv, TypeOK, ObjectsFit, Loaded, Dated
<1>10. PullsFit'
  <2>1. ASSUME NEW m \in 1..MaxPulls, row.exists, pulls'[m] \in {"open", "closed"}
        PROVE  \/ row.pr = m
               \/ \E q \in Requests : pc'[q] = "proposed" /\ seen'[q].pr = m
               \/ m \in lost
    <3>1. CASE m = n
      <4>1. pc'[r] = "proposed" /\ seen'[r].pr = m
        BY <3>1, <1>7, <1>8 DEF Answered, Goto, IInv, TypeOK
      <4>2. QED
        BY <4>1
    <3>2. CASE m # n
      <4>1. pulls[m] \in {"open", "closed"}
        BY <2>1, <3>2 DEF GitHubStep
      <4>2. ~\E q \in Requests : pc[q] = "proposed"
        BY <1>1, ProposingFacts
      <4>3. QED
        BY <2>1, <4>1, <4>2 DEF IInv, PullsFit
    <3>3. QED
      BY <3>1, <3>2
  <2>2. ASSUME NEW q \in Requests, q # r
        PROVE  pc'[q] # "proposed" /\ ~Proposing(q)'
    <3>1. pc[q] # "proposed" /\ ~Proposing(q) /\ pc'[q] = pc[q] /\ op'[q] = op[q]
      BY <1>1, <2>2, ProposingFacts DEF Answered, Goto, IInv, TypeOK
    <3>2. QED
      BY <3>1 DEF Proposing
  <2>3. /\ op'[r] = "open" => answer'[r] = "open"
        /\ row'.pr \in {0, seen'[r].pr} \/ pulls'[row'.pr] \in {"detached", "merged"}
        /\ pc'[r] = "proposed"
    BY <1>7, <1>8 DEF Answered, Goto, IInv, TypeOK
  <2>4. row' = row /\ lost' = lost
    BY DEF Answered
  <2>5. QED
    BY <2>1, <2>2, <2>3, <2>4 DEF PullsFit
<1>11. QED
  BY <1>2, <1>3, <1>4, <1>5, <1>6, <1>9, <1>10 DEF IInv

\* The call fails, whatever GitHub has done for it: what it has opened is lost.
LEMMA UnansweredKeeps ==
  ASSUME IInv, NEW r \in Requests, pc[r] = "proposing", NEW ns \in SUBSET (1..MaxPulls),
         Unanswered(r, ns), UNCHANGED <<born, row, tree>>, GitHubStep(ns)
  PROVE  IInv'
<1>1. lost' \subseteq 1..MaxPulls /\ lost \subseteq lost' /\ Return(r)
  BY DEF Unanswered, IInv, TypeOK
<1>2. GitHubStep(lost')
  BY DEF GitHubStep, Unanswered
<1>3. QED
  BY <1>1, <1>2, NoCommitFacts, EndKeeps

LEMMA HandlePullRequestKeeps ==
  ASSUME IInv, NEW r \in Requests, HandlePullRequest(r)
  PROVE  IInv'
<1>1. pc[r] = "proposing" /\ UNCHANGED <<born, row, tree>>
  BY DEF HandlePullRequest
<1>2. CASE OpenPull(r) /\ Answered(r, NextPull)
  BY <1>1, <1>2, OpenPullFacts, AnsweredKeeps
<1>3. CASE OpenPull(r) /\ Unanswered(r, {NextPull})
  BY <1>1, <1>3, OpenPullFacts, UnansweredKeeps
<1>4. CASE ChangePull(r) /\ Answered(r, seen[r].pr)
  <2>1. GitHubStep({seen[r].pr})
    BY <1>1, <1>4, ChangePullFacts DEF GitHubStep
  <2>2. QED
    BY <1>1, <1>4, <2>1, ChangePullFacts, AnsweredKeeps
<1>5. CASE ChangePull(r) /\ Unanswered(r, {})
  BY <1>1, <1>5, ChangePullFacts, UnansweredKeeps
<1>6. CASE Unanswered(r, {}) /\ UNCHANGED pulls
  <2>1. GitHubStep({})
    BY <1>6 DEF GitHubStep, IInv, TypeOK
  <2>2. QED
    BY <1>1, <1>6, <2>1, UnansweredKeeps
<1>7. QED
  BY <1>2, <1>3, <1>4, <1>5, <1>6 DEF HandlePullRequest

\* The number that the row gets is that of the last pull request, and the one it
\* had is given up.
LEMMA CommitProposalKeeps ==
  ASSUME IInv, NEW r \in Requests, CommitProposal(r)
  PROVE  IInv'
<1>1. /\ pc[r] = "proposed" /\ Proposing(r) /\ Return(r)
      /\ UNCHANGED <<born, tree, pulls>>
  BY DEF CommitProposal, Proposing, IInv, PhaseFits
<1>2. RowStep /\ row'.pr \in {row.pr, seen[r].pr}
  BY ProposalCommits
<1>3. row.exists /\ seen[r].pr \in 0..MaxPulls
  BY <1>1, ProposingFacts
<1>4. CASE UNCHANGED row /\ lost' = lost \cup Unrecorded({r})
  <2>1. Unrecorded({r}) \subseteq {seen[r].pr}
    BY DEF Unrecorded
  <2>2. seen[r].pr # 0
    BY <1>1 DEF IInv, ObjectsFit, Loaded
  <2>3. lost' \subseteq 1..MaxPulls /\ lost \subseteq lost'
    <3>1. seen[r].pr \in 1..MaxPulls
      BY <1>3, <2>2
    <3>2. Unrecorded({r}) \subseteq 1..MaxPulls
      BY <2>1, <3>1
    <3>3. QED
      BY <1>4, <3>2 DEF IInv, TypeOK
  <2>4. seen[r].pr \in lost' \cup {0, row.pr}
    BY <1>1, <1>4 DEF Unrecorded
  <2>5. QED
    BY <1>1, <1>2, <1>4, <2>3, <2>4, ReturnKeeps
<1>5. CASE row'.pr = row.pr /\ lost' = lost /\ seen[r].pr = row.pr
  BY <1>1, <1>2, <1>5, ReturnKeeps DEF IInv, TypeOK
<1>6. CASE row'.pr = seen[r].pr /\ lost' = lost /\ seen[r].pr # row.pr
  <2>1. TypeOK'
    <3>1. /\ pc' \in [Actors -> Phases] /\ op' \in [Requests -> Operations]
          /\ seen' \in [Actors -> Rows] /\ answer' \in [Actors -> Answers]
      BY <1>1, RowFacts DEF Return, IInv, TypeOK, Phases, Operations, Answers, PullStates
    <3>2. holder' \in {b \in Requests \cup Scripts : pc'[b] \in InLock} \cup {Nobody}
      BY <1>1 DEF Return, IInv, TypeOK, Phases, InLock
    <3>3. QED
      BY <1>1, <1>2, <1>6, <3>1, <3>2 DEF RowStep, IInv, TypeOK
  <2>2. NothingBefore'
    BY <1>1, BornFacts DEF NothingBefore
  <2>3. PhaseFits'
    BY <1>1 DEF Return, IInv, TypeOK, PhaseFits
  <2>4. LockIsHeld'
    BY <1>1 DEF Return, IInv, TypeOK, LockIsHeld, InLock, Phases, Proposing
  <2>5. DiskFits'
    BY <1>1, <1>2 DEF Return, RowStep, IInv, TypeOK, DiskFits, NoOrphanTree, Proposing
  <2>6. ObjectsFit'
    BY <1>1, <1>2 DEF Return, RowStep, IInv, TypeOK, ObjectsFit, Loaded, Dated
  <2>7. PullsFit'
    <3>1. row.pr = 0 \/ pulls[row.pr] \in {"detached", "merged"}
      BY <1>1, <1>6 DEF IInv, PullsFit
    <3>2. ASSUME NEW q \in Requests PROVE pc'[q] # "proposed" /\ ~Proposing(q)'
      <4>1. CASE q = r
        BY <1>1, <4>1 DEF Return, IInv, TypeOK, Proposing
      <4>2. CASE q # r
        <5>1. pc[q] # "proposed" /\ ~Proposing(q) /\ pc'[q] = pc[q] /\ op'[q] = op[q]
          BY <1>1, <4>2, ProposingFacts DEF Return, IInv, TypeOK
        <5>2. QED
          BY <5>1 DEF Proposing
      <4>3. QED
        BY <4>1, <4>2
    <3>3. ASSUME NEW n \in 1..MaxPulls, pulls[n] \in {"open", "closed"}
          PROVE  row'.pr = n \/ n \in lost'
      <4>1. n # row.pr
        BY <3>1, <3>3
      <4>2. CASE n \in lost
        BY <1>6, <4>2
      <4>3. CASE n = seen[r].pr
        BY <1>6, <4>3
      <4>4. \A q \in Requests \ {r} : pc[q] # "proposed"
        BY <1>1, ProposingFacts
      <4>5. QED
        BY <1>3, <3>3, <4>1, <4>2, <4>3, <4>4 DEF IInv, PullsFit
    <3>4. QED
      BY <1>1, <3>2, <3>3 DEF PullsFit
  <2>8. QED
    BY <2>1, <2>2, <2>3, <2>4, <2>5, <2>6, <2>7 DEF IInv
<1>7. QED
  <2>1. CASE Flush([seen[r] EXCEPT !.pr = row.pr],
                   Applied(IF op[r] = "open" THEN Activated(seen[r]) ELSE seen[r], answer[r]))
             /\ lost' = lost
    <3>1. row'.pr = seen[r].pr
      BY <1>1, <1>3, <2>1, RecordFacts
    <3>2. QED
      BY <2>1, <3>1, <1>5, <1>6
  <2>2. QED
    BY <1>4, <2>1 DEF CommitProposal

-----------------------------------------------------------------------------

LEMMA InitHolds == Init => IInv
<1> SUFFICES ASSUME Init PROVE IInv
  OBVIOUS
<1>1. TypeOK
  BY RowFacts DEF Init, TypeOK, Phases, Operations, Answers, PullStates
<1>2. NothingBefore /\ PhaseFits /\ LockIsHeld
  BY DEF Init, NothingBefore, PhaseFits, LockIsHeld, InLock, Proposing
<1>3. DiskFits
  BY DEF Init, DiskFits, NoOrphanTree, Proposing
<1>4. ObjectsFit
  BY DEF Init, ObjectsFit, Loaded, Dated, NoRow, NewRow
<1>5. PullsFit
  BY RowFacts DEF Init, PullsFit, Proposing
<1>6. QED
  BY <1>1, <1>2, <1>3, <1>4, <1>5 DEF IInv

LEMMA StutterKeeps == ASSUME IInv, UNCHANGED vars PROVE IInv'
<1>1. TypeOK'
  BY DEF vars, IInv, TypeOK
<1>2. NothingBefore' /\ PhaseFits' /\ LockIsHeld' /\ DiskFits'
  BY DEF vars, IInv, NothingBefore, PhaseFits, LockIsHeld, DiskFits, NoOrphanTree, Proposing
<1>3. ObjectsFit' /\ PullsFit'
  BY DEF vars, IInv, ObjectsFit, PullsFit, Proposing, Dated
<1>4. QED
  BY <1>1, <1>2, <1>3 DEF IInv

LEMMA StepKeeps == ASSUME IInv, [Next]_vars PROVE IInv'
<1>1. ASSUME NEW r \in Requests, Request(r) PROVE IInv'
  BY <1>1, CloneKeeps, AnswerKeeps, RefreshKeeps, ReactivateKeeps, StartEditKeeps, EndEditKeeps,
     StartDeleteKeeps, StartProposeKeeps, RefuseProposeKeeps, RefreshInProposeKeeps, PushKeeps,
     HandlePullRequestKeeps, CommitProposalKeeps DEF Request
<1>2. ASSUME NEW r \in Requests,
             \/ Create(r) \/ Ask(r) \/ UpdateStatus(r)
             \/ \E o \in {"edit", "delete"} \cup Proposals : Queue(r, o)
      PROVE  IInv'
  BY <1>2, CreateKeeps, AskKeeps, UpdateStatusKeeps, QueueKeeps
<1>3. ASSUME NEW a \in Actors \ {"check"}, RemoveTree(a) \/ DeletionFails(a) \/ DeleteRow(a)
      PROVE  IInv'
  BY <1>3, RemoveTreeKeeps, DeletionFailsKeeps, DeleteRowKeeps
<1>4. CASE Check
  BY <1>4, CheckLoadKeeps, CheckFetchKeeps, CheckFailsKeeps, CheckApplyKeeps DEF Check
<1>5. CASE Cleanup
  BY <1>5, CleanupSelectKeeps, CleanupLockKeeps, CleanupSkipKeeps DEF Cleanup
<1>6. CASE Die \/ GitHub \/ Age
  BY <1>6, DieKeeps, GitHubKeeps, AgeKeeps
<1>7. CASE UNCHANGED vars
  BY <1>7, StutterKeeps
<1>8. QED
  BY <1>1, <1>2, <1>3, <1>4, <1>5, <1>6, <1>7 DEF Next

\* Every state satisfies the invariant: a row has a deletion date exactly while it
\* is archived, however stale the objects are that the requests and the cron
\* script commit (models/workspace.py:79-86).
THEOREM Invariance == Spec => []Consistent
BY InitHolds, StepKeeps, PTL DEF Spec, Consistent

\* The files of a workspace never outlive its row, whichever step of its creation
\* or deletion fails (workspace_service.py, create_workspace and delete_workspace).
THEOREM NoOrphans == Spec => []NoOrphanTree
<1>1. IInv => NoOrphanTree
  BY DEF IInv, DiskFits
<1>2. QED
  BY <1>1, Invariance, PTL DEF Consistent

\* A proposal has the row and the tree from its first read to its commit, whoever
\* deletes the workspace: the server or the cleanup (workspace_service.py:600-601).
THEOREM ProposalsUndisturbed == Spec => []ProposalHasWorkspace
<1>1. IInv => ProposalHasWorkspace
  BY DEF IInv, DiskFits, Proposing, ProposalHasWorkspace
<1>2. QED
  BY <1>1, Invariance, PTL DEF Consistent

\* An open pull request is the row's, about to be recorded, or lost with an answer,
\* a commit or the server: no stale commit puts an older number back.
THEOREM PullsAreKnown == Spec => []OpenPullIsKnown
<1>1. IInv => OpenPullIsKnown
  BY DEF IInv, PullsFit, OpenPullIsKnown
<1>2. QED
  BY <1>1, Invariance, PTL DEF Consistent

\* No step puts off a deletion date that has passed.
LEMMA StepKeepsDate ==
  ASSUME IInv, [Next]_vars
  PROVE  row.archivedAt = "old" => row'.archivedAt # "recent"
<1>1. ASSUME NEW r \in Requests, Refresh(r) \/ RefreshInPropose(r) \/ Reactivate(r)
                                 \/ CommitProposal(r) \/ UpdateStatus(r)
      PROVE  row.archivedAt = "old" => row'.archivedAt # "recent"
  BY <1>1, RefreshCommits, ReactivateCommits, ProposalCommits, UpdateFacts DEF RowStep
<1>2. CASE CheckApply
  BY <1>2, CheckCommits DEF RowStep
<1>3. ASSUME NEW r \in Requests, Create(r) PROVE row.archivedAt # "old"
  BY <1>3 DEF Create, IInv, NothingBefore, NoRow, NewRow
<1>4. ASSUME NEW a \in Actors, DeleteRow(a) PROVE row'.archivedAt # "recent"
  BY <1>4 DEF DeleteRow, NoRow, NewRow
<1>5. CASE Age
  BY <1>5 DEF Age
<1>6. CASE UNCHANGED row
  BY <1>6
<1>7. ASSUME NEW r \in Requests, Request(r)
      PROVE  Refresh(r) \/ RefreshInPropose(r) \/ Reactivate(r) \/ CommitProposal(r) \/ UNCHANGED row
  BY <1>7 DEF Request, Clone, Answer, StartEdit, EndEdit, StartDelete, StartPropose, RefusePropose,
     Push, HandlePullRequest
<1>8. ASSUME NEW r \in Requests,
             Ask(r) \/ \E o \in {"edit", "delete"} \cup Proposals : Queue(r, o)
      PROVE  UNCHANGED row
  BY <1>8 DEF Ask, Queue
<1>9. ASSUME NEW a \in Actors, RemoveTree(a) \/ DeletionFails(a) PROVE UNCHANGED row
  BY <1>9 DEF RemoveTree, DeletionFails
<1>10. Check => CheckApply \/ UNCHANGED row
  BY DEF Check, CheckLoad, CheckFetch, CheckFails
<1>11. Cleanup \/ Die \/ GitHub \/ UNCHANGED vars => UNCHANGED row
  BY DEF Cleanup, CleanupSelect, CleanupLock, CleanupSkip, Die, GitHub, vars
<1>12. QED
  BY <1>1, <1>2, <1>3, <1>4, <1>5, <1>6, <1>7, <1>8, <1>9, <1>10, <1>11 DEF Next

\* workspace_service.py:424: whatever is applied to a workspace that is archived
\* already, its deletion is not put off.
THEOREM DatesKept == Spec => DeletionDateKept
<1>1. IInv /\ [Next]_vars => [row.archivedAt = "old" => row'.archivedAt # "recent"]_vars
  BY StepKeepsDate
<1>2. QED
  BY <1>1, Invariance, PTL DEF Spec, Consistent, DeletionDateKept
=============================================================================
