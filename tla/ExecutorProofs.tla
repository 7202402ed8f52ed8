--------------------------- MODULE ExecutorProofs ---------------------------
(***************************************************************************)
(* The invariant of ExecutorInvariant holds in every state of Executor,    *)
(* and with it what Execute promises.                                      *)
(***************************************************************************)
EXTENDS ExecutorInvariant

-----------------------------------------------------------------------------
(* What is on disk.                                                        *)

\* No step undoes a commit or a removal, and only a worker past validation and
\* preparation makes one.
LEMMA NothingUndone ==
  ASSUME [Next]_vars
  PROVE  /\ committed \subseteq committed' /\ removed \subseteq removed'
         /\ \/ UNCHANGED <<committed, removed>>
            \/ \E p \in Pkg : /\ work[p] = "mutate"
                              /\ \/ Merge(p)
                                 \/ UNCHANGED committed /\ \E b \in Blocker : RemoveBlocker(p, b) \/ RemoveBlockerFails(p, b)
<1>1. ASSUME UNCHANGED disk PROVE UNCHANGED <<committed, removed>>
  BY <1>1 DEF disk
<1>2. CASE Main
  BY Zenon, <1>1, <1>2 DEF Main, ValidateActionGraph, Preflight, SaveResume, SaveResumeFails, Admit,
     AdmitFails, AwaitResult, Receive, Drain, Finish, FinishFails
<1>3. CASE Environment
  BY <1>1, <1>3 DEF Environment, Start, FinishEmptyResume, Signal, Kill, OtherLocks,
     OtherUnlocks, PolicyChanges, inside
<1>4. ASSUME NEW p \in Pkg, Prepares(p) \/ AcquireVDB(p) \/ AcquireVDBFails(p)
      PROVE  UNCHANGED <<committed, removed>>
  BY Zenon, <1>1, <1>4 DEF Prepares, WaitForLoad, Build, BuildFails, AcquireCommitLock, AcquireVDB,
     AcquireVDBFails
<1>5. ASSUME NEW p \in Pkg, Mutates(p)
      PROVE  \/ UNCHANGED <<committed, removed>>
             \/ Merge(p) \/ \E b \in Blocker : RemoveBlocker(p, b) \/ RemoveBlockerFails(p, b)
  BY Zenon, <1>1, <1>5 DEF Mutates, Validate, PrepareMutation, PrepareMutationFails,
     MergeFails, Record, RecordFails, MarkResumeComplete, MarkResumeFails, LeaveMutation
<1>6. ASSUME NEW p \in Pkg, Merge(p)
      PROVE  work[p] = "mutate" /\ committed \subseteq committed' /\ UNCHANGED removed
  BY <1>6 DEF Merge
<1>7. ASSUME NEW p \in Pkg, NEW b \in Blocker, RemoveBlocker(p, b) \/ RemoveBlockerFails(p, b)
      PROVE  work[p] = "mutate" /\ removed \subseteq removed' /\ UNCHANGED committed
  BY Zenon, <1>7 DEF RemoveBlocker, RemoveBlockerFails
<1>8. CASE UNCHANGED vars
  BY <1>1, <1>8 DEF vars
<1> QED BY <1>2, <1>3, <1>4, <1>5, <1>6, <1>7, <1>8 DEF Next

\* Every step of a run keeps its plan covering what is not done.
LEMMA NextPlanCovers ==
  ASSUME Inv, [Next]_vars
  PROVE  PlanCovers'
<1> USE DEF Inv
<1>1. committed \subseteq committed' /\ removed \subseteq removed'
  BY NothingUndone
<1>2. ASSUME UNCHANGED run, pc # "idle", pc = "check" => pc' \in {"check", "idle"} \/ Executable
      PROVE  PlanCovers'
  BY <1>1, <1>2 DEF run, PlanCovers, Executable, Before
<1>3. CASE Start
  <2>1. /\ plan' = (IF saved THEN pending ELSE Pkg) /\ pc' = "check" /\ UNCHANGED <<committed, removed>>
        /\ blockers' = {b \in Blocker \ removed : Requester[b] \cap plan' # {}}
        /\ saved => pending # {}
    BY <1>3 DEF Start, RunPlan, disk
  <2> QED BY <2>1, PkgAssumption DEF PlanCovers, CheckpointKeepsUncommitted
<1>4. CASE Main
  BY Zenon, <1>2, <1>4 DEF Main, ValidateActionGraph, Preflight, SaveResume, SaveResumeFails, Admit,
     AdmitFails, AwaitResult, Receive, Drain, Finish, FinishFails, Return
<1>5. ASSUME NEW p \in Pkg,
             Prepares(p) \/ AcquireVDB(p) \/ AcquireVDBFails(p) \/ Mutates(p)
      PROVE  PlanCovers'
  <2>1. UNCHANGED main
    BY <1>5, WorkerCounted
  <2> QED BY <1>1, <2>1 DEF main, run, PlanCovers, Executable, Before
<1>6. CASE FinishEmptyResume \/ Kill
  BY <1>6 DEF FinishEmptyResume, Kill, Return, PlanCovers
<1>7. CASE Signal \/ OtherLocks \/ OtherUnlocks \/ PolicyChanges \/ UNCHANGED vars
  <2>1. UNCHANGED <<run, pc>>
    BY <1>7 DEF Signal, OtherLocks, OtherUnlocks, PolicyChanges, inside, main, vars
  <2> QED BY <1>1, <2>1 DEF run, PlanCovers, Executable, Before
<1> QED BY <1>3, <1>4, <1>5, <1>6, <1>7 DEF Next, Environment

\* A worker that reports success has committed its package.
LEMMA SendProgress ==
  ASSUME TypeOK, WorkersCounted, ProgressIsReal, NEW p \in Pkg, NEW ok \in BOOLEAN,
         work[p] \in Working, Send(p, ok), UNCHANGED main,
         ok => p \in committed, committed \subseteq committed'
  PROVE  ProgressIsReal'
<1>1. work' = [work EXCEPT ![p] = "sent"] /\ results' = Append(results, <<p, ok>>)
  BY DEF Send
<1>2. UNCHANGED <<pc, plan, prereq>>
  BY DEF main, run
<1>3. \A q \in Pkg : Before(q)' = Before(q)
  BY <1>2 DEF Before
<1>4. Received' = Received /\ (\A q \in Pkg : work'[q] = "idle" <=> work[q] = "idle")
  BY SendCounted DEF SameProgress
<1>5. \A i \in 1..Len(results') : i \in 1..Len(results) \/ i = Len(results')
  BY <1>1, QueueAppend DEF TypeOK
<1>6. \A i \in 1..Len(results) : results'[i] = results[i]
  BY <1>1, QueueAppend
<1>7. results'[Len(results')] = <<p, ok>>
  BY <1>1, QueueAppend
<1>8. \A i \in 1..Len(results') : results'[i][2] => results'[i][1] \in committed'
  BY <1>5, <1>6, <1>7 DEF ProgressIsReal
<1>9. \A q \in Pkg : work'[q] \in {"record", "mark", "leave"} => q \in committed'
  BY <1>1 DEF ProgressIsReal, TypeOK
<1> QED BY <1>2, <1>3, <1>4, <1>8, <1>9 DEF ProgressIsReal

\* A worker that moves past its merge has committed its package.
LEMMA GoProgress ==
  ASSUME TypeOK, WorkersCounted, ProgressIsReal, NEW p \in Pkg, NEW stage \in Working,
         work[p] \in Working, Go(p, stage), UNCHANGED main,
         stage \in {"record", "mark", "leave"} => p \in committed',
         committed \subseteq committed'
  PROVE  ProgressIsReal'
<1>1. work' = [work EXCEPT ![p] = stage] /\ results' = results
  BY DEF Go
<1>2. UNCHANGED <<pc, plan, prereq>>
  BY DEF main, run
<1>3. \A q \in Pkg : Before(q)' = Before(q)
  BY <1>2 DEF Before
<1>4. Received' = Received /\ (\A q \in Pkg : work'[q] = "idle" <=> work[q] = "idle")
  BY GoCounted DEF SameProgress
<1>5. \A q \in Pkg : work'[q] \in {"record", "mark", "leave"} => q \in committed'
  BY <1>1 DEF ProgressIsReal, TypeOK
<1> QED BY <1>1, <1>2, <1>3, <1>4, <1>5 DEF ProgressIsReal

\* A step of one worker keeps what the workers have got to true to the disk.
LEMMA WorkerProgress ==
  ASSUME TypeOK, WorkersCounted, ProgressIsReal, NEW p \in Pkg, committed \subseteq committed',
         Prepares(p) \/ AcquireVDB(p) \/ AcquireVDBFails(p) \/ Mutates(p)
  PROVE  ProgressIsReal'
<1> USE SendProgress, GoProgress DEF Stage, Working
<1>1. CASE WaitForLoad(p)
  BY Zenon, <1>1 DEF WaitForLoad
<1>2. CASE Build(p) \/ BuildFails(p)
  BY Zenon, <1>2 DEF Build, BuildFails
<1>3. CASE AcquireCommitLock(p)
  BY <1>3 DEF AcquireCommitLock
<1>4. CASE AcquireVDB(p) \/ AcquireVDBFails(p)
  BY Zenon, <1>4 DEF AcquireVDB, AcquireVDBFails
<1>5. CASE Validate(p)
  BY Zenon, <1>5 DEF Validate
<1>6. CASE PrepareMutation(p) \/ PrepareMutationFails(p)
  BY Zenon, <1>6 DEF PrepareMutation, PrepareMutationFails
<1>7. ASSUME NEW b \in Blocker, RemoveBlocker(p, b) PROVE ProgressIsReal'
  BY <1>7 DEF RemoveBlocker, main, run, loop, ProgressIsReal, Received, Queued, Before
<1>8. ASSUME NEW b \in Blocker, RemoveBlockerFails(p, b) PROVE ProgressIsReal'
  BY Zenon, <1>8 DEF RemoveBlockerFails
<1>9. CASE Merge(p) \/ MergeFails(p)
  BY Zenon, <1>9 DEF Merge, MergeFails
<1>10. CASE Record(p) \/ RecordFails(p)
  <2>1. p \in committed
    BY Zenon, <1>10 DEF Record, RecordFails, ProgressIsReal
  <2> QED BY Zenon, <1>10, <2>1 DEF Record, RecordFails
<1>11. CASE MarkResumeComplete(p) \/ MarkResumeFails(p)
  <2>1. p \in committed
    BY Zenon, <1>11 DEF MarkResumeComplete, MarkResumeFails, ProgressIsReal
  <2> QED BY Zenon, <1>11, <2>1 DEF MarkResumeComplete, MarkResumeFails
<1>12. CASE LeaveMutation(p)
  <2>1. p \in committed
    BY <1>12 DEF LeaveMutation, ProgressIsReal
  <2> QED BY Zenon, <1>12, <2>1 DEF LeaveMutation
<1> QED
  BY <1>1, <1>2, <1>3, <1>4, <1>5, <1>6, <1>7, <1>8, <1>9, <1>10, <1>11, <1>12
  DEF Prepares, Mutates

\* Every step keeps what the loop and the workers have got to true to the disk.
LEMMA NextProgress ==
  ASSUME Inv, [Next]_vars
  PROVE  ProgressIsReal'
<1> USE DEF Inv
<1>1. committed \subseteq committed'
  BY NothingUndone
<1>2. ASSUME NEW p \in Pkg,
             Prepares(p) \/ AcquireVDB(p) \/ AcquireVDBFails(p) \/ Mutates(p)
      PROVE  ProgressIsReal'
  BY <1>1, <1>2, WorkerProgress
<1>3. ASSUME UNCHANGED <<run, results, work>>, pc' \in Looping => pc \in Looping
      PROVE  ProgressIsReal'
  <2>1. Received' = Received /\ \A q \in Pkg : Before(q)' = Before(q)
    BY <1>3 DEF Received, Queued, Before, run
  <2> QED BY <1>1, <1>3, <2>1 DEF ProgressIsReal
<1>4. CASE Start
  BY <1>4 DEF Start, ProgressIsReal, Looping, Launching
<1>5. CASE Kill
  BY <1>5 DEF Kill, Return, ProgressIsReal, Looping, Launching
<1>6. CASE SaveResume
  <2>1. Received' = {} /\ UNCHANGED <<run, results, work>>
    BY <1>6 DEF SaveResume, Received, WorkersCounted
  <2> QED BY <1>1, <2>1 DEF ProgressIsReal, Before, run
<1>7. ASSUME NEW free \in Free, Admit(free) PROVE ProgressIsReal'
  <2> DEFINE p == Min(ready)
  <2>1. p \in Pkg /\ p \in ready /\ work[p] = "idle" /\ Received' = Received
    BY <1>7, AdmitCounted
  <2>2. /\ work' = [work EXCEPT ![p] = "load"] /\ pc = "loop"
        /\ UNCHANGED <<pc, plan, prereq, results>>
    BY <1>7 DEF Admit, Launch, run
  <2> HIDE DEF p
  <2>3. Before(p) \subseteq committed
    BY Zenon, <2>1, <2>2 DEF GraphTracked, ProgressIsReal, Looping, Launching, TypeOK
  <2>4. \A q \in Pkg : Before(q)' = Before(q)
    BY <2>2 DEF Before
  <2>5. work'[p] = "load" /\ \A q \in Pkg \ {p} : work'[q] = work[q]
    BY <2>1, <2>2 DEF TypeOK
  <2>6. \A q \in Pkg : work'[q] # "idle" => Before(q)' \subseteq committed'
    BY <1>1, <2>3, <2>4, <2>5 DEF ProgressIsReal
  <2>7. \A q \in Pkg : work'[q] \in {"record", "mark", "leave"} => q \in committed'
    BY <1>1, <2>5 DEF ProgressIsReal
  <2> QED BY <1>1, <2>1, <2>2, <2>6, <2>7 DEF ProgressIsReal
<1>8. ASSUME results # <<>>, results' = Tail(results), running' = running - 1,
             UNCHANGED <<run, work>>,
             pc' \in Looping => pc \in Looping /\ Head(results)[2]
      PROVE  ProgressIsReal'
  <2>1. UNCHANGED <<work, plan, prereq>>
    BY <1>8 DEF run
  <2>2. Received' = Received \cup {Head(results)[1]}
    BY <1>8, <2>1, TakeCounted
  <2>3. \A i \in 1..Len(results') : results'[i] = results[i + 1] /\ i + 1 \in 1..Len(results)
    BY <1>8, QueueTail
  <2>4. Head(results) = results[1] /\ 1 \in 1..Len(results)
    BY <1>8 DEF TypeOK
  <2>5. pc' \in Looping => Received' \subseteq committed
    BY <1>8, <2>2, <2>4 DEF ProgressIsReal
  <2>6. \A q \in Pkg : Before(q)' = Before(q)
    BY <2>1 DEF Before
  <2>7. \A i \in 1..Len(results') : results'[i][2] => results'[i][1] \in committed
    BY <2>3 DEF ProgressIsReal
  <2> QED BY <1>1, <2>1, <2>5, <2>6, <2>7 DEF ProgressIsReal
<1>9. CASE Receive
  <2>1. Head(results)[2] \in BOOLEAN
    BY <1>9, QueueTail DEF Receive
  <2> QED BY <1>8, <1>9, <2>1 DEF Receive, Looping, Launching
<1>10. CASE Drain
  BY <1>3, <1>8, <1>10 DEF Drain, Return, Looping, Launching
<1>11. CASE ValidateActionGraph \/ Preflight \/ SaveResumeFails \/ Finish \/ FinishFails
  BY <1>3, <1>11 DEF ValidateActionGraph, Preflight, SaveResumeFails, Finish, FinishFails,
     Return, Looping, Launching
<1>12. ASSUME NEW free \in Free, AdmitFails(free) \/ AwaitResult(free) PROVE ProgressIsReal'
  BY <1>3, <1>12 DEF AdmitFails, AwaitResult, Return, Looping, Launching
<1>13. CASE FinishEmptyResume
  BY <1>1, <1>13 DEF FinishEmptyResume, Return, ProgressIsReal, Before, Looping, Launching
<1>14. CASE Signal \/ OtherLocks \/ OtherUnlocks \/ PolicyChanges \/ UNCHANGED vars
  BY <1>3, <1>14 DEF Signal, OtherLocks, OtherUnlocks, PolicyChanges, inside, main, vars
<1> QED
  BY <1>2, <1>4, <1>5, <1>6, <1>7, <1>9, <1>10, <1>11, <1>12, <1>13, <1>14
  DEF Next, Main, Environment

\* A package is merged when all it asked for is there.
LEMMA NextPrerequisites ==
  ASSUME Inv, [Next]_vars
  PROVE  PrerequisitesCommitted'
<1> USE DEF Inv
<1>1. UNCHANGED prereq /\ removed \subseteq removed' /\ committed \subseteq committed'
  <2>1. UNCHANGED prereq
    <3>1. CASE Main
      BY Zenon, <3>1 DEF Main, ValidateActionGraph, Preflight, SaveResume, SaveResumeFails, Admit,
         AdmitFails, AwaitResult, Receive, Drain, Finish, FinishFails, run
    <3>2. CASE Environment
      BY Zenon, <3>2 DEF Environment, Start, FinishEmptyResume, Signal, Kill, OtherLocks,
         OtherUnlocks, PolicyChanges, inside, main, run
    <3>3. ASSUME NEW p \in Pkg,
                 Prepares(p) \/ AcquireVDB(p) \/ AcquireVDBFails(p) \/ Mutates(p)
          PROVE  UNCHANGED prereq
      BY <3>3, WorkerCounted DEF main, run
    <3>4. CASE UNCHANGED vars
      BY <3>4 DEF vars, run
    <3> QED BY <3>1, <3>2, <3>3, <3>4 DEF Next
  <2> QED BY <2>1, NothingUndone
<1>2. CASE UNCHANGED committed
  BY <1>1, <1>2 DEF PrerequisitesCommitted
<1>3. ASSUME NEW p \in Pkg, Merge(p) PROVE PrerequisitesCommitted'
  <2>1. /\ work[p] = "mutate" /\ Removals(p) = {} /\ committed' = committed \cup {p}
        /\ UNCHANGED removed
    BY <1>3 DEF Merge
  <2>2. p \in plan /\ pc # "idle"
    BY <2>1 DEF WorkersCounted, Busy
  <2>3. prereq[p] \subseteq committed
    BY <2>1, <2>2 DEF ProgressIsReal, PlanCovers, Before, TypeOK
  <2>4. \A b \in Blocker : p \in Requester[b] => b \in removed
    BY <2>1, <2>2 DEF PlanCovers, Removals
  <2> QED BY <1>1, <2>1, <2>3, <2>4 DEF PrerequisitesCommitted
<1> QED BY <1>2, <1>3, NothingUndone

\* The checkpoint is only written with the plan of a run, and a package is only
\* struck off it after its commit.
LEMMA NextCheckpoint ==
  ASSUME Inv, [Next]_vars
  PROVE  CheckpointKeepsUncommitted'
<1> USE DEF Inv
<1>1. committed \subseteq committed'
  BY NothingUndone
<1>2. ASSUME saved' => saved, UNCHANGED pending PROVE CheckpointKeepsUncommitted'
  BY <1>1, <1>2 DEF CheckpointKeepsUncommitted
<1>3. CASE SaveResume \/ SaveResumeFails
  BY Zenon, <1>1, <1>2, <1>3 DEF SaveResume, SaveResumeFails, PlanCovers, CheckpointKeepsUncommitted
<1>4. CASE Main /\ ~SaveResume /\ ~SaveResumeFails
  <2>1. (saved' => saved) /\ UNCHANGED pending
    <3>1. CASE Finish
      BY <3>1 DEF Finish, TypeOK
    <3>2. CASE FinishFails
      BY <3>2 DEF FinishFails, TypeOK
    <3>3. CASE UNCHANGED disk
      BY <3>3 DEF disk
    <3> QED
      BY Zenon, <1>4, <3>1, <3>2, <3>3 DEF Main, ValidateActionGraph, Preflight, Admit,
         AdmitFails, AwaitResult, Receive, Drain
  <2> QED BY <1>2, <2>1
<1>5. CASE Environment
  BY <1>2, <1>5 DEF Environment, Start, FinishEmptyResume, Signal, Kill, OtherLocks,
     OtherUnlocks, PolicyChanges, inside, disk
<1>6. ASSUME NEW p \in Pkg, Prepares(p) \/ AcquireVDB(p) \/ AcquireVDBFails(p)
      PROVE  CheckpointKeepsUncommitted'
  BY Zenon, <1>2, <1>6 DEF Prepares, WaitForLoad, Build, BuildFails, AcquireCommitLock, AcquireVDB,
     AcquireVDBFails, disk
<1>7. ASSUME NEW p \in Pkg, MarkResumeComplete(p) \/ MarkResumeFails(p)
      PROVE  CheckpointKeepsUncommitted'
  <2>1. p \in committed /\ UNCHANGED saved /\ pending \ {p} \subseteq pending'
    BY Zenon, <1>7 DEF MarkResumeComplete, MarkResumeFails, ProgressIsReal
  <2> QED BY <1>1, <2>1 DEF CheckpointKeepsUncommitted
<1>8. ASSUME NEW p \in Pkg, Mutates(p), ~MarkResumeComplete(p), ~MarkResumeFails(p)
      PROVE  CheckpointKeepsUncommitted'
  <2>1. CASE UNCHANGED disk
    BY <1>2, <2>1 DEF disk
  <2>2. ASSUME NEW b \in Blocker, RemoveBlocker(p, b) \/ RemoveBlockerFails(p, b)
        PROVE  CheckpointKeepsUncommitted'
    BY Zenon, <1>2, <2>2 DEF RemoveBlocker, RemoveBlockerFails
  <2>3. CASE Merge(p)
    BY <1>2, <2>3 DEF Merge
  <2> QED
    BY Zenon, <1>8, <2>1, <2>2, <2>3 DEF Mutates, Validate, PrepareMutation, PrepareMutationFails,
       MergeFails, Record, RecordFails, LeaveMutation
<1>9. CASE UNCHANGED vars
  BY <1>2, <1>9 DEF vars, disk
<1> QED BY <1>3, <1>4, <1>5, <1>6, <1>7, <1>8, <1>9 DEF Next

-----------------------------------------------------------------------------
(* The answer of the command.                                              *)

\* The loop has always something running or something to admit: what an
\* executable graph has left when nothing runs contains a ready action.
LEMMA NeverStalls ==
  ASSUME Inv, pc = "loop", running = 0
  PROVE  ready # {}
<1> USE DEF Inv
<1>1. Busy = {} /\ Queued = {}
  BY NothingRunning
<1> DEFINE left == {q \in plan : work[q] = "idle"}
<1>2. plan \in SUBSET Pkg /\ left \in SUBSET plan
  BY DEF TypeOK
<1>3. \A q \in plan : q \in Received <=> q \notin left
  BY <1>1, <1>2 DEF Received, Busy
<1>4. Received \subseteq plan /\ Received # plan
  BY DEF GraphTracked, Looping, Launching, Received, WorkersCounted
<1>5. left # {}
  BY Zenon, <1>3, <1>4
<1>6. Executable
  BY DEF PlanCovers
<1>7. PICK q \in left : Before(q) \cap left = {}
  BY Zenon, <1>2, <1>5, <1>6 DEF Executable
<1>8. Before(q) \subseteq Received
  BY <1>3, <1>7 DEF Before
<1> QED BY <1>7, <1>8 DEF GraphTracked, Looping, Launching

\* When the checkpoint or the loop has nothing left, every package is committed
\* and with it every blocker gone.
LEMMA AllCommitted ==
  ASSUME TypeOK, PrerequisitesCommitted, Pkg \subseteq committed
  PROVE  committed = Pkg /\ removed = Blocker
<1>1. \A b \in Blocker : \E p \in Pkg : p \in Requester[b]
  BY BlockerAssumption
<1> QED BY Zenon, <1>1 DEF PrerequisitesCommitted, TypeOK

\* The command says "ok" only when all is done, and never "stalled".
LEMMA NextVerdict ==
  ASSUME Inv, [Next]_vars
  PROVE  VerdictIsTrue'
<1> USE DEF Inv
<1>1. committed \subseteq committed' /\ removed \subseteq removed'
  BY NothingUndone
<1>2. /\ committed' \subseteq Pkg /\ removed' \subseteq Blocker
  BY Zenon, NothingUndone DEF Merge, RemoveBlocker, RemoveBlockerFails, TypeOK
<1>3. ASSUME UNCHANGED verdict, world => world' PROVE VerdictIsTrue'
  BY Zenon, <1>1, <1>2, <1>3 DEF VerdictIsTrue
<1>4. ASSUME verdict' \in {"none", "failed", "cycle"} PROVE VerdictIsTrue'
  BY <1>4 DEF VerdictIsTrue
<1>5. CASE Finish
  <2>1. CASE blockers \subseteq removed
    <3>1. Received = plan /\ Received \subseteq committed /\ Pkg \ plan \subseteq committed
      <4>1. pc = "finish"
        BY <1>5 DEF Finish
      <4> QED BY <4>1 DEF GraphTracked, ProgressIsReal, PlanCovers, Looping, Launching
    <3>2. committed = Pkg /\ removed = Blocker
      BY <3>1, AllCommitted
    <3>3. world' /\ verdict' \in {"failed", "ok"} /\ UNCHANGED <<committed, removed>>
      BY <1>5, <2>1 DEF Finish, Return
    <3> QED BY <3>2, <3>3 DEF VerdictIsTrue
  <2>2. CASE ~(blockers \subseteq removed)
    BY <1>4, <1>5, <2>2 DEF Finish, Return
  <2> QED BY <2>1, <2>2
<1>6. CASE FinishEmptyResume
  <2>1. saved /\ pending = {} /\ world' /\ verdict' = "ok" /\ UNCHANGED <<committed, removed>>
    BY <1>6 DEF FinishEmptyResume, Return
  <2>2. committed = Pkg /\ removed = Blocker
    BY <2>1, AllCommitted DEF CheckpointKeepsUncommitted
  <2> QED BY <2>1, <2>2 DEF VerdictIsTrue
<1>7. ASSUME NEW free \in Free, AwaitResult(free) PROVE VerdictIsTrue'
  <2>1. running # 0
    <3>1. SUFFICES ASSUME running = 0 PROVE FALSE
      OBVIOUS
    <3>2. ready # {}
      BY <1>7, <3>1, NeverStalls DEF AwaitResult
    <3> QED BY <1>7, <3>1, <3>2, JobsAssumption DEF AwaitResult, SpaceWait
  <2> QED BY <1>3, <1>7, <2>1 DEF AwaitResult, disk
<1>8. CASE Main /\ ~Finish /\ ~\E free \in Free : AwaitResult(free)
  <2>1. ASSUME UNCHANGED <<verdict, disk>> PROVE VerdictIsTrue'
    BY <1>3, <2>1 DEF disk
  <2>2. CASE SaveResume
    BY <1>3, <2>2 DEF SaveResume
  <2> QED
    BY Zenon, <1>4, <1>8, <2>1, <2>2 DEF Main, ValidateActionGraph, Preflight, SaveResumeFails, Admit,
       AdmitFails, Receive, Drain, FinishFails, Return
<1>9. CASE Environment /\ ~FinishEmptyResume
  <2>1. CASE Start \/ Kill
    BY <1>4, <2>1 DEF Start, Kill, Return
  <2>2. CASE Signal \/ OtherLocks \/ OtherUnlocks \/ PolicyChanges
    <3>1. UNCHANGED <<verdict, world>>
      BY <2>2 DEF Signal, OtherLocks, OtherUnlocks, PolicyChanges, inside, main, disk
    <3> QED BY <1>3, <3>1
  <2> QED BY <1>9, <2>1, <2>2 DEF Environment
<1>10. ASSUME NEW p \in Pkg, Prepares(p) \/ AcquireVDB(p) \/ AcquireVDBFails(p)
       PROVE  VerdictIsTrue'
  BY Zenon, <1>3, <1>10 DEF Prepares, WaitForLoad, Build, BuildFails, AcquireCommitLock, AcquireVDB,
     AcquireVDBFails, disk, main
<1>11. ASSUME NEW p \in Pkg, Mutates(p) PROVE VerdictIsTrue'
  <2>1. UNCHANGED verdict
    BY <1>11, WorkerCounted DEF main
  <2>2. CASE UNCHANGED disk
    BY <1>3, <2>1, <2>2 DEF disk
  <2>3. CASE UNCHANGED world
    BY <1>3, <2>1, <2>3
  <2>4. ASSUME NEW b \in Blocker, RemoveBlocker(p, b) \/ RemoveBlockerFails(p, b)
        PROVE  UNCHANGED world
    BY Zenon, <2>4 DEF RemoveBlocker, RemoveBlockerFails
  <2>5. Merge(p) \/ MarkResumeComplete(p) \/ MarkResumeFails(p) => UNCHANGED world
    BY Zenon DEF Merge, MarkResumeComplete, MarkResumeFails
  <2> QED
    BY Zenon, <1>11, <2>2, <2>3, <2>4, <2>5 DEF Mutates, Validate, PrepareMutation, PrepareMutationFails,
       MergeFails, Record, RecordFails, LeaveMutation
<1>12. CASE UNCHANGED vars
  BY <1>3, <1>12 DEF vars, disk
<1> QED BY <1>5, <1>6, <1>7, <1>8, <1>9, <1>10, <1>11, <1>12 DEF Next

-----------------------------------------------------------------------------
(* The mutation boundary.                                                  *)

\* A step of one worker keeps the boundary guarded.
LEMMA WorkerGuarded ==
  ASSUME TypeOK, Guarded, NEW p \in Pkg,
         Prepares(p) \/ AcquireVDB(p) \/ AcquireVDBFails(p) \/ Mutates(p)
  PROVE  Guarded'
<1> DEFINE Past == InVDB \ {"validate"}
           Ready == InVDB \ {"validate", "prepare"}
<1>1. ASSUME NEW stage \in Stage, work' = [work EXCEPT ![p] = stage], UNCHANGED external,
             "protected" \notin snapshot'.external, prepared => prepared',
             stage \in Past => "protected" \notin external,
             stage \in Ready => prepared'
      PROVE  Guarded'
  BY <1>1 DEF Guarded, TypeOK
<1>2. ASSUME NEW ok \in BOOLEAN, Send(p, ok), UNCHANGED <<external, guard>> PROVE Guarded'
  BY <1>1, <1>2 DEF Send, guard, Guarded, Stage, InVDB, InCommit
<1>3. CASE Prepares(p) \/ AcquireVDB(p) \/ AcquireVDBFails(p)
  <2>1. ASSUME NEW stage \in Stage \ Past, Go(p, stage), UNCHANGED <<external, guard>> PROVE Guarded'
    BY <1>1, <2>1 DEF Go, guard, Guarded
  <2>2. {"build", "commit", "lock", "validate"} \subseteq Stage \ Past
    BY DEF Stage, InVDB, InCommit
  <2> HIDE DEF Past
  <2> QED
    BY Zenon, <1>2, <1>3, <2>1, <2>2 DEF Prepares, WaitForLoad, Build, BuildFails, AcquireCommitLock,
       AcquireVDB, AcquireVDBFails
<1>4. CASE Validate(p)
  <2>1. CASE Drifted
    BY Zenon, <1>2, <1>4, <2>1 DEF Validate, guard
  <2>2. CASE ~Drifted
    <3>1. "protected" \notin external
      BY <2>2 DEF Drifted, Guarded
    <3>2. snapshot'.external = external /\ work' = [work EXCEPT ![p] = "prepare"]
          /\ UNCHANGED <<external, prepared>>
      BY <1>4, <2>2 DEF Validate, Seen, Go
    <3> QED BY <1>1, <3>1, <3>2 DEF Stage, InVDB, InCommit
  <2> QED BY <2>1, <2>2
<1>5. ASSUME work[p] \in Past PROVE "protected" \notin external
  BY <1>5 DEF Guarded
<1>6. ASSUME work[p] \in Ready PROVE prepared
  BY <1>6 DEF Guarded
<1>7. CASE PrepareMutation(p)
  BY <1>1, <1>5, <1>7 DEF PrepareMutation, Go, Guarded, Stage, InVDB, InCommit
<1>8. CASE PrepareMutationFails(p) \/ MergeFails(p) \/ RecordFails(p) \/ MarkResumeFails(p) \/ LeaveMutation(p)
  BY Zenon, <1>2, <1>8 DEF PrepareMutationFails, MergeFails, RecordFails, MarkResumeFails, LeaveMutation
<1>9. ASSUME NEW b \in Blocker, RemoveBlocker(p, b) PROVE Guarded'
  <2>1. work[p] = "mutate" /\ snapshot'.external = external /\ UNCHANGED <<work, external, prepared>>
    BY <1>9 DEF RemoveBlocker, Seen
  <2>2. "protected" \notin external
    BY <1>5, <2>1 DEF InVDB, InCommit
  <2> QED BY <2>1, <2>2 DEF Guarded
<1>10. ASSUME NEW b \in Blocker, RemoveBlockerFails(p, b) PROVE Guarded'
  BY Zenon, <1>2, <1>10 DEF RemoveBlockerFails
<1>11. CASE Merge(p) \/ MarkResumeComplete(p)
  BY <1>1, <1>5, <1>6, <1>11 DEF Merge, MarkResumeComplete, Go, guard, Guarded, Stage, InVDB, InCommit
<1>12. CASE Record(p)
  <2>1. /\ work[p] = "record" /\ snapshot'.external = external
        /\ work' = [work EXCEPT ![p] = "mark"] /\ UNCHANGED <<external, prepared>>
    BY <1>12 DEF Record, Seen, Go
  <2> QED BY <1>1, <1>5, <1>6, <2>1 DEF Stage, InVDB, InCommit
<1> QED BY <1>3, <1>4, <1>7, <1>8, <1>9, <1>10, <1>11, <1>12 DEF Mutates

\* Every step keeps the boundary guarded: another process can only change a
\* package while it has the VDB lock, which a worker past validation holds.
LEMMA NextGuarded ==
  ASSUME Inv, [Next]_vars
  PROVE  Guarded'
<1> USE DEF Inv
<1>1. ASSUME NEW p \in Pkg,
             Prepares(p) \/ AcquireVDB(p) \/ AcquireVDBFails(p) \/ Mutates(p)
      PROVE  Guarded'
  BY <1>1, WorkerGuarded
<1>2. ASSUME UNCHANGED <<work, guard>>, "protected" \in external' => "protected" \in external
      PROVE  Guarded'
  BY <1>2 DEF guard, Guarded
<1>3. CASE Start
  BY <1>3 DEF Start, Seen, Guarded, InVDB, InCommit
<1>4. CASE Kill
  BY <1>4 DEF Kill, guard, Guarded, InVDB, InCommit
<1>5. ASSUME NEW free \in Free, Admit(free) PROVE Guarded'
  BY <1>5, AdmitCounted DEF Admit, Launch, guard, Guarded, TypeOK, InVDB, InCommit
<1>6. CASE OtherUnlocks
  <2>1. \A p \in Pkg : work[p] \notin InVDB
    BY <1>6, HolderAssumption DEF OtherUnlocks, LocksHeld
  <2> QED BY <1>6, <2>1 DEF OtherUnlocks, inside, guard, Guarded
<1>7. CASE Main /\ ~\E free \in Free : Admit(free)
  BY Zenon, <1>2, <1>7 DEF Main, ValidateActionGraph, Preflight, SaveResume, SaveResumeFails,
     AdmitFails, AwaitResult, Receive, Drain, Finish, FinishFails
<1>8. CASE FinishEmptyResume \/ Signal \/ OtherLocks \/ PolicyChanges \/ UNCHANGED vars
  <2>1. UNCHANGED <<work, guard>> /\ ("protected" \in external' => "protected" \in external)
    BY Zenon, <1>8 DEF FinishEmptyResume, Signal, OtherLocks, PolicyChanges, inside, vars
  <2> QED BY <1>2, <2>1
<1> QED BY <1>1, <1>3, <1>4, <1>5, <1>6, <1>7, <1>8 DEF Next, Main, Environment

\* Without failures of the record, the guard's snapshot stays current.
LEMMA NextSnapshotCurrent ==
  ASSUME Inv, SnapshotCurrent, "record" \notin Faults, [Next]_vars
  PROVE  SnapshotCurrent'
<1> USE DEF Inv
<1>1. ASSUME UNCHANGED <<committed, removed, snapshot>>, pc' # "idle" => pc # "idle",
             \A q \in Pkg : work[q] = "record" => work'[q] = "record"
      PROVE  SnapshotCurrent'
  BY <1>1 DEF SnapshotCurrent
<1>2. ASSUME snapshot'.committed = committed', snapshot'.removed = removed' PROVE SnapshotCurrent'
  BY <1>2 DEF SnapshotCurrent
<1>3. CASE Start
  BY <1>2, <1>3 DEF Start, Seen, disk
<1>4. CASE Kill \/ FinishEmptyResume
  BY <1>4 DEF Kill, FinishEmptyResume, Return, SnapshotCurrent
<1>5. CASE Main
  <2>1. UNCHANGED <<committed, removed, snapshot>> /\ pc # "idle"
    BY Zenon, <1>5 DEF Main, ValidateActionGraph, Preflight, SaveResume, SaveResumeFails, Admit,
       AdmitFails, AwaitResult, Receive, Drain, Finish, FinishFails, disk, guard
  <2>2. \A q \in Pkg : work[q] = "record" => work'[q] = "record"
    <3>1. ASSUME NEW free \in Free, Admit(free)
          PROVE  \A q \in Pkg : work[q] = "record" => work'[q] = "record"
      BY Zenon, <3>1, AdmitCounted DEF Admit, Launch, TypeOK
    <3> QED
      BY Zenon, <1>5, <3>1 DEF Main, ValidateActionGraph, Preflight, SaveResume, SaveResumeFails,
         AdmitFails, AwaitResult, Receive, Drain, Finish, FinishFails
  <2> QED BY <1>1, <2>1, <2>2
<1>6. CASE Signal \/ OtherLocks \/ OtherUnlocks \/ PolicyChanges \/ UNCHANGED vars
  BY <1>1, <1>6 DEF Signal, OtherLocks, OtherUnlocks, PolicyChanges, inside, main, disk, guard, vars
<1>7. ASSUME NEW p \in Pkg, work[p] \in Working, work[p] # "record",
             UNCHANGED <<committed, removed, snapshot>>,
             UNCHANGED main, NEW stage \in Stage, work' = [work EXCEPT ![p] = stage]
      PROVE  SnapshotCurrent'
  BY <1>1, <1>7 DEF main, TypeOK
<1>8. ASSUME NEW p \in Pkg, Prepares(p) \/ AcquireVDB(p) \/ AcquireVDBFails(p)
      PROVE  SnapshotCurrent'
  BY Zenon, <1>7, <1>8 DEF Prepares, WaitForLoad, Build, BuildFails, AcquireCommitLock, AcquireVDB,
     AcquireVDBFails, Send, Go, disk, guard, Stage, Working
<1>9. ASSUME NEW p \in Pkg, Validate(p) PROVE SnapshotCurrent'
  <2>1. CASE Drifted
    BY <1>7, <1>9, <2>1 DEF Validate, Send, disk, Stage, Working
  <2>2. CASE ~Drifted
    BY <1>2, <1>9, <2>2 DEF Validate, Seen, disk
  <2> QED BY <2>1, <2>2
<1>10. ASSUME NEW p \in Pkg, PrepareMutation(p) \/ PrepareMutationFails(p) PROVE SnapshotCurrent'
  BY Zenon, <1>7, <1>10 DEF PrepareMutation, PrepareMutationFails, Send, Go, disk, guard, Stage, Working
<1>11. ASSUME NEW p \in Pkg, NEW b \in Blocker, RemoveBlocker(p, b) PROVE SnapshotCurrent'
  BY <1>2, <1>11 DEF RemoveBlocker, Seen
<1>12. ASSUME NEW p \in Pkg, NEW b \in Blocker, RemoveBlockerFails(p, b) PROVE SnapshotCurrent'
  <2>1. UNCHANGED removed
    BY <1>12 DEF RemoveBlockerFails, Fault
  <2> QED BY Zenon, <1>7, <1>12, <2>1 DEF RemoveBlockerFails, Send, guard, Stage, Working
<1>13. ASSUME NEW p \in Pkg, Merge(p) PROVE SnapshotCurrent'
  BY <1>13 DEF Merge, Go, SnapshotCurrent, TypeOK
<1>14. ASSUME NEW p \in Pkg, Record(p) PROVE SnapshotCurrent'
  BY <1>2, <1>14 DEF Record, Seen, disk
<1>15. ASSUME NEW p \in Pkg, RecordFails(p) PROVE SnapshotCurrent'
  BY <1>15 DEF RecordFails, Fault
<1>16. ASSUME NEW p \in Pkg, MergeFails(p) \/ MarkResumeComplete(p) \/ MarkResumeFails(p) \/ LeaveMutation(p)
       PROVE  SnapshotCurrent'
  BY Zenon, <1>7, <1>16 DEF MergeFails, MarkResumeComplete, MarkResumeFails, LeaveMutation, Send, Go,
     disk, guard, Stage, Working
<1> QED
  BY <1>3, <1>4, <1>5, <1>6, <1>8, <1>9, <1>10, <1>11, <1>12, <1>13, <1>14, <1>15, <1>16
  DEF Next, Environment, Mutates

-----------------------------------------------------------------------------
(* The theorems.                                                           *)

\* Inv holds initially and every step preserves it.
THEOREM Invariant == Spec => []Inv
<1>1. Init => Inv
  <2> SUFFICES ASSUME Init PROVE Inv
    OBVIOUS
  <2>1. Busy = {} /\ Queued = {} /\ Len(results) = 0
    BY DEF Init, Busy, Queued
  <2>2. TypeOK
    <3>1. 0 \in 0..Cardinality(Pkg) /\ 0 \in 0..Jobs /\ 0 \in 0..MaxRuns
      BY PackagesFinite, JobsAssumption, RunsAssumption
    <3>2. LoopTyped
      BY Zenon, <3>1 DEF Init, LoopTyped, MainStage
    <3>3. WorkTyped
      BY DEF Init, WorkTyped, Stage
    <3>4. SharedTyped
      BY Zenon DEF Init, SharedTyped, Seen
    <3> QED BY <3>2, <3>3, <3>4, TypedParts
  <2>3. LocksHeld
    BY HolderAssumption DEF Init, LocksHeld, InCommit, InVDB
  <2>4. WorkersCounted
    BY <2>1, FS_EmptySet DEF Init, WorkersCounted
  <2>5. GraphTracked /\ PlanCovers
    BY DEF Init, GraphTracked, PlanCovers, Looping, Launching
  <2>6. ProgressIsReal
    BY <2>1 DEF Init, ProgressIsReal, Looping, Launching
  <2>7. Guarded
    BY DEF Init, Guarded, Seen, InCommit, InVDB
  <2>8. PrerequisitesCommitted /\ CheckpointKeepsUncommitted /\ VerdictIsTrue
    BY DEF Init, PrerequisitesCommitted, CheckpointKeepsUncommitted, VerdictIsTrue
  <2> QED BY <2>2, <2>3, <2>4, <2>5, <2>6, <2>7, <2>8 DEF Inv
<1>2. Inv /\ [Next]_vars => Inv'
  <2> SUFFICES ASSUME Inv, [Next]_vars PROVE Inv'
    OBVIOUS
  <2> QED
    BY NextTyped, NextLocksHeld, NextTracked, NextPlanCovers, NextProgress, NextGuarded,
       NextPrerequisites, NextCheckpoint, NextVerdict
    DEF Inv
<1> QED BY <1>1, <1>2, PTL DEF Spec

\* A package is committed only after its prerequisites and after its blockers are
\* gone, over any number of interrupted and resumed runs.
THEOREM PrerequisitesFirst == Spec => []PrerequisitesCommitted
<1>1. Inv => PrerequisitesCommitted
  BY DEF Inv
<1> QED BY <1>1, Invariant, PTL

\* The checkpoint never loses a package that has not committed.
THEOREM CheckpointComplete == Spec => []CheckpointKeepsUncommitted
<1>1. Inv => CheckpointKeepsUncommitted
  BY DEF Inv
<1> QED BY <1>1, Invariant, PTL

\* Success means that all is done, and the admission loop never stalls.
THEOREM AnswerTrue == Spec => []VerdictIsTrue
<1>1. Inv => VerdictIsTrue
  BY DEF Inv
<1> QED BY <1>1, Invariant, PTL

\* Execute returns only when every worker has reported and holds no lock.
THEOREM WorkersQuiet == Spec => []QuietAfterReturn
<1>1. Inv => QuietAfterReturn
  <2> SUFFICES ASSUME Inv, pc = "idle"
               PROVE  /\ \A p \in Pkg : work[p] \in {"idle", "sent"}
                      /\ commitLock = NoOne /\ vdbLock \notin Pkg
    BY DEF QuietAfterReturn
  <2>1. \A p \in Pkg : work[p] \in {"idle", "sent"}
    BY DEF Inv, WorkersCounted, Busy
  <2>2. \A p \in Pkg : commitLock # p /\ vdbLock # p
    BY <2>1 DEF Inv, LocksHeld, InCommit, InVDB
  <2> QED BY <2>1, <2>2 DEF Inv, TypeOK
<1> QED BY <1>1, Invariant, PTL

\* Nothing is merged or removed on a plan another process has invalidated, nor
\* before the recovery set is published.
THEOREM MutationsGuarded == Spec => BoundaryIsGuarded
<1>1. Inv /\ [Next]_vars => [committed' # committed \/ removed' # removed
                               => prepared /\ "protected" \notin external]_vars
  <2> SUFFICES ASSUME Inv, [Next]_vars, committed' # committed \/ removed' # removed
               PROVE  prepared /\ "protected" \notin external
    OBVIOUS
  <2>1. PICK p \in Pkg : work[p] = "mutate"
    BY NothingUndone
  <2> QED BY <2>1 DEF Inv, Guarded, InVDB, InCommit
<1> QED BY <1>1, Invariant, PTL DEF Spec, BoundaryIsGuarded

\* Unless recording a commit fails, the guard refuses a package only because of
\* what someone else has changed.
THEOREM RefusalsJustified ==
  ASSUME "record" \notin Faults
  PROVE  Spec => RefusalHasOutsideCause
<1>1. Init => SnapshotCurrent
  BY DEF Init, SnapshotCurrent
<1>2. Inv /\ SnapshotCurrent /\ [Next]_vars => SnapshotCurrent'
  BY NextSnapshotCurrent
<1>3. Inv /\ SnapshotCurrent /\ [Next]_vars =>
        [\A p \in Pkg : work[p] = "validate" /\ work'[p] = "sent"
           => {"policy", "protected"} \cap external # {}]_vars
  <2> SUFFICES ASSUME Inv, SnapshotCurrent, [Next]_vars, NEW p \in Pkg,
                      work[p] = "validate", work'[p] = "sent"
               PROVE  {"policy", "protected"} \cap external # {}
    OBVIOUS
  <2>1. Validate(p)
    <3>1. ASSUME NEW q \in Pkg,
                 Prepares(q) \/ AcquireVDB(q) \/ AcquireVDBFails(q) \/ Mutates(q), ~Validate(q)
          PROVE  q # p /\ work'[p] = work[p]
      <4>1. work[q] # "validate"
        BY Zenon, <3>1 DEF Prepares, WaitForLoad, Build, BuildFails, AcquireCommitLock, AcquireVDB,
           AcquireVDBFails, Mutates, PrepareMutation, PrepareMutationFails, RemoveBlocker,
           RemoveBlockerFails, Merge, MergeFails, Record, RecordFails, MarkResumeComplete,
           MarkResumeFails, LeaveMutation
      <4>2. UNCHANGED work \/ \E stage \in Stage : work' = [work EXCEPT ![q] = stage]
        BY Zenon, <3>1 DEF Prepares, WaitForLoad, Build, BuildFails, AcquireCommitLock, AcquireVDB,
           AcquireVDBFails, Mutates, PrepareMutation, PrepareMutationFails, RemoveBlocker,
           RemoveBlockerFails, Merge, MergeFails, Record, RecordFails, MarkResumeComplete,
           MarkResumeFails, LeaveMutation, Send, Go, Stage
      <4> QED BY <4>1, <4>2 DEF Inv, TypeOK
    <3>2. ASSUME NEW q \in Pkg, Validate(q) PROVE q = p
      BY Zenon, <3>2 DEF Validate, Send, Go, Inv, TypeOK
    <3>3. ~Main
      <4>1. ASSUME NEW free \in Free, Admit(free) PROVE work'[p] # "sent"
        BY Zenon, <4>1, AdmitCounted DEF Admit, Launch, Inv, TypeOK
      <4> QED
        BY <4>1 DEF Main, ValidateActionGraph, Preflight, SaveResume, SaveResumeFails,
           AdmitFails, AwaitResult, Receive, Drain, Finish, FinishFails
    <3>4. ~Environment /\ ~UNCHANGED vars
      BY DEF Environment, Start, FinishEmptyResume, Signal, Kill, OtherLocks, OtherUnlocks,
         PolicyChanges, inside, vars
    <3> QED BY <3>1, <3>2, <3>3, <3>4 DEF Next
  <2>2. Drifted
    BY Zenon, <2>1 DEF Validate, Go, Inv, TypeOK
  <2>3. pc # "idle" /\ \A q \in Pkg : work[q] # "record"
    BY DEF Inv, WorkersCounted, Busy, LocksHeld, InVDB, InCommit
  <2> QED BY <2>2, <2>3 DEF SnapshotCurrent, Drifted
<1> QED BY <1>1, <1>2, <1>3, Invariant, PTL DEF Spec, RefusalHasOutsideCause
=============================================================================
