------------------------- MODULE ExecutorInvariant --------------------------
(***************************************************************************)
(* The inductive invariant of Executor, and that every step keeps its      *)
(* types, its locks, its count of workers and its picture of the           *)
(* dependency graph: for every plan, every dependency graph, any number of *)
(* jobs and runs, and every combination of faults.                         *)
(***************************************************************************)
EXTENDS Executor, FiniteSetTheorems, TLAPS

-----------------------------------------------------------------------------
(* The inductive invariant.                                                *)

Queued == {results[i][1] : i \in 1..Len(results)}    \* reported, not received
Busy == {p \in Pkg : work[p] \notin {"idle", "sent"}}
Received == {p \in Pkg : work[p] = "sent"} \ Queued

Launching == {"loop", "receive"}
Looping == Launching \cup {"finish"}

InCommit == {"lock", "validate", "prepare", "mutate", "record", "mark", "leave"}
InVDB == InCommit \ {"lock"}

\* Each lock is held by the worker that is in the section it guards.
LocksHeld ==
  /\ \A p \in Pkg : commitLock = p <=> work[p] \in InCommit
  /\ \A p \in Pkg : vdbLock = p <=> work[p] \in InVDB

\* Only planned packages are worked on, each reports once, and the loop's count
\* of what is running is right.
WorkersCounted ==
  /\ \A p \in Pkg : work[p] # "idle" => p \in plan /\ p \notin ready
  /\ \A i \in 1..Len(results) : work[results[i][1]] = "sent"
  /\ \A i, j \in 1..Len(results) : results[i][1] = results[j][1] => i = j
  /\ running = Cardinality(Busy \cup Queued)
  /\ pc = "idle" => Busy = {}
  /\ pc \in {"check", "preflight", "save"} =>
       results = <<>> /\ completed = 0 /\ \A p \in Pkg : work[p] = "idle"

\* The loop's picture of the dependency graph: what remains for an action to
\* wait for is what has not been received, and a ready action waits for nothing.
GraphTracked ==
  pc \in Looping =>
    /\ completed = Cardinality(Received)
    /\ pc \in Launching <=> Received # plan
    /\ \A q \in plan :
         /\ remaining[q] = Cardinality(Before(q) \ Received)
         /\ work[q] = "idle" => (q \in ready <=> Before(q) \subseteq Received)
         /\ work[q] # "idle" => Before(q) \subseteq Received

\* A run has something to do, keeps every package that has not committed in its
\* plan, and every blocker that its plan still needs gone.
PlanCovers ==
  pc # "idle" =>
    /\ plan # {} /\ Pkg \ plan \subseteq committed
    /\ \A b \in Blocker \ removed : Requester[b] \cap plan # {} => b \in blockers
    /\ pc # "check" => Executable

\* What a worker has got to says what is on disk.
ProgressIsReal ==
  /\ \A p \in Pkg : work[p] \in {"record", "mark", "leave"} => p \in committed
  /\ \A i \in 1..Len(results) : results[i][2] => results[i][1] \in committed
  /\ pc \in Looping => Received \subseteq committed
  /\ \A p \in Pkg : work[p] # "idle" => Before(p) \subseteq committed

\* The recovery set is published, and no other process has touched a package of
\* the plan, whenever a worker is past validation.
Guarded ==
  /\ "protected" \notin snapshot.external
  /\ \A p \in Pkg : work[p] \in InVDB \ {"validate"} => "protected" \notin external
  /\ \A p \in Pkg : work[p] \in InVDB \ {"validate", "prepare"} => prepared

\* The guard's snapshot has all that this process committed, except while a
\* worker is between its commit and the record of it.
SnapshotCurrent ==
  pc # "idle" /\ (\A p \in Pkg : work[p] # "record") =>
    snapshot.committed = committed /\ snapshot.removed = removed

Inv ==
  /\ TypeOK /\ LocksHeld /\ WorkersCounted /\ GraphTracked /\ PlanCovers
  /\ ProgressIsReal /\ Guarded
  /\ PrerequisitesCommitted /\ CheckpointKeepsUncommitted /\ VerdictIsTrue

-----------------------------------------------------------------------------
(* Facts about the operators of the model.                                 *)

\* Sets of packages are finite, and their sizes are numbers up to the plan's.
LEMMA PackagesFinite ==
  ASSUME NEW S \in SUBSET Pkg
  PROVE  /\ IsFiniteSet(S) /\ Cardinality(S) \in Nat
         /\ Cardinality(S) <= Cardinality(Pkg) /\ Cardinality(Pkg) \in Nat
         /\ Cardinality(S) = 0 <=> S = {}
  BY Zenon, PkgAssumption, FS_Subset, FS_CardinalityType, FS_EmptySet

\* The loop's choice of the smallest ready index is a ready index.
LEMMA MinIsMember ==
  ASSUME NEW S \in SUBSET Pkg, S # {}
  PROVE  Min(S) \in S
<1> DEFINE R == OpToRel(<, Nat)
<1>1. S \subseteq Nat
  BY PkgAssumption
<1>2. IsWellFoundedOn(R, Nat)
  BY Zenon, NatLessThanWellFounded
<1> HIDE DEF R
<1>3. PICK x \in S : \A y \in S : ~(<<y, x>> \in R)
  BY Zenon, <1>1, <1>2, WFMin
<1>4. \A y \in S : ~(y < x)
  BY Zenon, <1>1, <1>3 DEF R, OpToRel
<1>5. \A y \in S : x <= y
  BY <1>1, <1>4
<1> QED BY <1>5, Zenon DEF Min

\* Receiving takes the head of the queue, one package, out of what is queued.
LEMMA QueueTail ==
  ASSUME TypeOK, WorkersCounted, results # <<>>, results' = Tail(results)
  PROVE  /\ Head(results)[1] \in Pkg /\ Head(results)[2] \in BOOLEAN
         /\ Head(results)[1] \in Queued /\ work[Head(results)[1]] = "sent"
         /\ Queued' = Queued \ {Head(results)[1]}
         /\ Len(results') = Len(results) - 1
         /\ \A i \in 1..Len(results') : results'[i] = results[i + 1] /\ i + 1 \in 1..Len(results)
<1>1. results \in Seq(Pkg \X BOOLEAN) /\ Len(results) \in Nat \ {0}
  BY DEF TypeOK
<1>2. /\ Len(results') = Len(results) - 1
      /\ \A i \in 1..Len(results') : results'[i] = results[i + 1] /\ i + 1 \in 1..Len(results)
      /\ Head(results) = results[1] /\ results[1] \in Pkg \X BOOLEAN
  BY <1>1
<1>3. Head(results)[1] \in Queued /\ work[Head(results)[1]] = "sent"
  BY <1>1, <1>2 DEF Queued, WorkersCounted
<1>4. ASSUME NEW q PROVE q \in Queued' <=> q \in Queued \ {Head(results)[1]}
  <2>1. q \in Queued' <=> \E i \in 1..Len(results') : q = results'[i][1]
    BY DEF Queued
  <2>2. q \in Queued <=> \E i \in 1..Len(results) : q = results[i][1]
    BY DEF Queued
  <2>3. ASSUME NEW i \in 1..Len(results') PROVE results[i + 1][1] # results[1][1]
    BY <1>1, <1>2 DEF WorkersCounted
  <2>4. \A i \in 1..Len(results) : i = 1 \/ i - 1 \in 1..Len(results')
    BY <1>1, <1>2
  <2>5. \A i \in 1..Len(results) : i # 1 => results[i] = results'[i - 1]
    BY <1>1, <1>2, <2>4
  <2>6. ASSUME q \in Queued' PROVE q \in Queued \ {Head(results)[1]}
    <3>1. PICK i \in 1..Len(results') : q = results'[i][1]
      BY <2>1, <2>6
    <3>2. q = results[i + 1][1] /\ i + 1 \in 1..Len(results)
      BY <1>2, <3>1
    <3> QED BY <1>2, <2>2, <2>3, <3>2
  <2>7. ASSUME q \in Queued, q # Head(results)[1] PROVE q \in Queued'
    <3>1. PICK i \in 1..Len(results) : q = results[i][1]
      BY <2>2, <2>7
    <3>2. i # 1
      BY <1>2, <2>7, <3>1
    <3> QED BY <2>1, <2>4, <2>5, <3>1, <3>2
  <2> QED BY <2>6, <2>7
<1> QED BY <1>2, <1>3, <1>4

\* Reporting adds the package to what is queued.
LEMMA QueueAppend ==
  ASSUME TypeOK, NEW p \in Pkg, NEW ok \in BOOLEAN, results' = Append(results, <<p, ok>>)
  PROVE  /\ Queued' = Queued \cup {p}
         /\ Len(results') = Len(results) + 1
         /\ \A i \in 1..Len(results) : results'[i] = results[i]
         /\ results'[Len(results')] = <<p, ok>>
<1>1. results \in Seq(Pkg \X BOOLEAN) /\ Len(results) \in Nat
  BY DEF TypeOK
<1>2. /\ Len(results') = Len(results) + 1
      /\ \A i \in 1..Len(results) : results'[i] = results[i]
      /\ results'[Len(results')] = <<p, ok>>
  BY <1>1
<1>3. ASSUME NEW q PROVE q \in Queued' <=> q \in Queued \cup {p}
  <2>1. q \in Queued' <=> \E i \in 1..Len(results') : q = results'[i][1]
    BY DEF Queued
  <2>2. q \in Queued <=> \E i \in 1..Len(results) : q = results[i][1]
    BY DEF Queued
  <2>3. \A i \in 1..Len(results') : i \in 1..Len(results) \/ i = Len(results')
    BY <1>1, <1>2
  <2>4. 1..Len(results) \subseteq 1..Len(results') /\ Len(results') \in 1..Len(results')
    BY <1>1, <1>2
  <2>5. results'[Len(results')][1] = p
    BY <1>2
  <2> QED BY <1>2, <2>1, <2>2, <2>3, <2>4, <2>5
<1> QED BY <1>2, <1>3

-----------------------------------------------------------------------------
(* The locks.                                                              *)

\* A worker that reports leaves both sections and lets go of both locks.
LEMMA SendLocks ==
  ASSUME TypeOK, LocksHeld, NEW p \in Pkg, NEW ok \in BOOLEAN, Send(p, ok)
  PROVE  LocksHeld'
  BY HolderAssumption DEF TypeOK, LocksHeld, Send, InCommit, InVDB

\* A worker that moves on within a section keeps its locks.
LEMMA GoLocks ==
  ASSUME TypeOK, LocksHeld, NEW p \in Pkg, NEW stage \in Stage, Go(p, stage),
         work[p] \in InCommit <=> stage \in InCommit,
         work[p] \in InVDB <=> stage \in InVDB, UNCHANGED locks
  PROVE  LocksHeld'
  BY DEF TypeOK, LocksHeld, Go, locks

\* A step of one worker keeps each lock with the worker in its section.
LEMMA WorkerLocksHeld ==
  ASSUME TypeOK, LocksHeld, NEW p \in Pkg,
         Prepares(p) \/ AcquireVDB(p) \/ AcquireVDBFails(p) \/ Mutates(p)
  PROVE  LocksHeld'
<1> USE SendLocks, GoLocks DEF Stage, InCommit, InVDB
<1>1. CASE WaitForLoad(p)
  BY Zenon, <1>1 DEF WaitForLoad
<1>2. CASE Build(p) \/ BuildFails(p)
  BY Zenon, <1>2 DEF Build, BuildFails
<1>3. CASE AcquireCommitLock(p)
  <2>1. /\ commitLock = NoOne /\ commitLock' = p /\ vdbLock' = vdbLock
        /\ work[p] = "commit" /\ work' = [work EXCEPT ![p] = "lock"]
    BY <1>3 DEF AcquireCommitLock, Go
  <2>2. work'[p] = "lock" /\ \A q \in Pkg \ {p} : work'[q] = work[q]
    BY <2>1 DEF TypeOK
  <2> QED BY <2>1, <2>2, HolderAssumption DEF LocksHeld
<1>4. CASE AcquireVDB(p)
  <2>1. /\ vdbLock = NoOne /\ vdbLock' = p /\ commitLock' = commitLock
        /\ work[p] = "lock" /\ work' = [work EXCEPT ![p] = "validate"]
    BY <1>4 DEF AcquireVDB, Go
  <2>2. work'[p] = "validate" /\ \A q \in Pkg \ {p} : work'[q] = work[q]
    BY <2>1 DEF TypeOK
  <2> QED BY <2>1, <2>2, HolderAssumption DEF LocksHeld
<1>5. CASE AcquireVDBFails(p)
  BY Zenon, <1>5 DEF AcquireVDBFails
<1>6. CASE Validate(p)
  BY Zenon, <1>6 DEF Validate
<1>7. CASE PrepareMutation(p) \/ PrepareMutationFails(p)
  BY Zenon, <1>7 DEF PrepareMutation, PrepareMutationFails
<1>8. ASSUME NEW b \in Blocker, RemoveBlocker(p, b) PROVE LocksHeld'
  BY <1>8 DEF RemoveBlocker, LocksHeld, locks
<1>9. ASSUME NEW b \in Blocker, RemoveBlockerFails(p, b) PROVE LocksHeld'
  BY Zenon, <1>9 DEF RemoveBlockerFails
<1>10. CASE Merge(p) \/ MergeFails(p)
  BY Zenon, <1>10 DEF Merge, MergeFails
<1>11. CASE Record(p) \/ RecordFails(p)
  BY Zenon, <1>11 DEF Record, RecordFails
<1>12. CASE MarkResumeComplete(p) \/ MarkResumeFails(p)
  BY Zenon, <1>12 DEF MarkResumeComplete, MarkResumeFails
<1>13. CASE LeaveMutation(p)
  BY Zenon, <1>13 DEF LeaveMutation
<1> QED
  BY <1>1, <1>2, <1>3, <1>4, <1>5, <1>6, <1>7, <1>8, <1>9, <1>10, <1>11, <1>12, <1>13
  DEF Prepares, Mutates

\* Every step keeps each lock with the worker in its section.
LEMMA NextLocksHeld ==
  ASSUME Inv, [Next]_vars
  PROVE  LocksHeld'
<1> USE DEF Inv
<1>1. ASSUME NEW p \in Pkg,
             Prepares(p) \/ AcquireVDB(p) \/ AcquireVDBFails(p) \/ Mutates(p)
      PROVE  LocksHeld'
  BY <1>1, WorkerLocksHeld
<1>2. CASE Start
  BY Zenon, <1>2 DEF Start, TypeOK, LocksHeld, WorkersCounted, Busy, locks, InCommit, InVDB
<1>3. ASSUME NEW free \in Free, Admit(free) PROVE LocksHeld'
  <2>1. Min(ready) \in Pkg /\ work[Min(ready)] = "idle"
    BY <1>3, MinIsMember DEF Admit, TypeOK, WorkersCounted
  <2> QED BY Zenon, <1>3, <2>1 DEF Admit, Launch, TypeOK, LocksHeld, locks, InCommit, InVDB
<1>4. CASE Kill
  BY <1>4, HolderAssumption DEF Kill, TypeOK, LocksHeld, InCommit, InVDB
<1>5. CASE OtherLocks \/ OtherUnlocks
  BY <1>5, HolderAssumption DEF OtherLocks, OtherUnlocks, inside, TypeOK, LocksHeld
<1>6. ASSUME UNCHANGED <<work, locks>> PROVE LocksHeld'
  BY <1>6 DEF LocksHeld, locks
<1>7. CASE Main /\ ~\E free \in Free : Admit(free)
  BY Zenon, <1>6, <1>7 DEF Main, ValidateActionGraph, Preflight, SaveResume, SaveResumeFails,
     AdmitFails, AwaitResult, Receive, Drain, Finish, FinishFails
<1>8. CASE FinishEmptyResume \/ Signal \/ PolicyChanges
  BY <1>6, <1>8 DEF FinishEmptyResume, Signal, PolicyChanges, inside, locks
<1>9. CASE UNCHANGED vars
  BY <1>6, <1>9 DEF vars
<1> QED
  BY <1>1, <1>2, <1>3, <1>4, <1>5, <1>7, <1>8, <1>9 DEF Next, Main, Environment

-----------------------------------------------------------------------------
(* The workers and the count of them.                                      *)

Working == Stage \ {"idle", "sent"}

\* The step changes neither what the loop has launched nor what it has received.
SameProgress ==
  Received' = Received /\ \A q \in Pkg : work'[q] = "idle" <=> work[q] = "idle"

\* A report moves a package from the busy ones to the queued ones.
LEMMA SendCounted ==
  ASSUME TypeOK, WorkersCounted, NEW p \in Pkg, NEW ok \in BOOLEAN,
         work[p] \in Working, Send(p, ok), UNCHANGED main
  PROVE  WorkersCounted' /\ SameProgress
<1>1. p \in Busy /\ p \notin Queued
  BY DEF Busy, Queued, Working, WorkersCounted
<1>2. work' = [work EXCEPT ![p] = "sent"] /\ results' = Append(results, <<p, ok>>)
  BY DEF Send
<1>3. Queued' = Queued \cup {p} /\ Busy' = Busy \ {p}
  BY <1>2, QueueAppend DEF Busy, TypeOK
<1>4. Busy' \cup Queued' = Busy \cup Queued
  BY <1>1, <1>3
<1>5. \A i \in 1..Len(results') : i \in 1..Len(results) \/ i = Len(results')
  BY <1>2, QueueAppend DEF TypeOK
<1>6. \A i \in 1..Len(results) : results[i][1] # p
  BY <1>1 DEF Queued
<1>7. \A i \in 1..Len(results) : results'[i] = results[i]
  BY <1>2, QueueAppend
<1>8. results'[Len(results')][1] = p
  BY <1>2, QueueAppend
<1>9. \A i \in 1..Len(results') : work'[results'[i][1]] = "sent"
  BY <1>2, <1>5, <1>6, <1>7, <1>8 DEF WorkersCounted, TypeOK
<1>10. \A i, j \in 1..Len(results') : results'[i][1] = results'[j][1] => i = j
  BY <1>5, <1>6, <1>7, <1>8 DEF WorkersCounted
<1>11. UNCHANGED <<pc, plan, ready, running, completed>>
  BY DEF main, run, loop
<1>12. pc \notin {"idle", "check", "preflight", "save"}
  BY <1>1 DEF WorkersCounted, Busy
<1>13. \A q \in Pkg : work'[q] # "idle" => q \in plan' /\ q \notin ready'
  BY <1>2, <1>11 DEF WorkersCounted, TypeOK, Working
<1>14. Received' = Received
  BY <1>1, <1>2, <1>3 DEF Received, TypeOK, Busy
<1>15. running' = Cardinality(Busy' \cup Queued')
  BY Zenon, <1>4, <1>11 DEF WorkersCounted
<1>16. \A q \in Pkg : work'[q] = "idle" <=> work[q] = "idle"
  BY <1>2 DEF TypeOK, Working
<1> QED BY <1>9, <1>10, <1>11, <1>12, <1>13, <1>14, <1>15, <1>16 DEF WorkersCounted, SameProgress

\* A worker that moves on stays a busy one.
LEMMA GoCounted ==
  ASSUME TypeOK, WorkersCounted, NEW p \in Pkg, NEW stage \in Working,
         work[p] \in Working, Go(p, stage), UNCHANGED main
  PROVE  WorkersCounted' /\ SameProgress
<1>1. work' = [work EXCEPT ![p] = stage] /\ results' = results
  BY DEF Go
<1>2. UNCHANGED <<pc, plan, ready, running, completed>>
  BY DEF main, run, loop
<1>3. Queued' = Queued /\ Busy' = Busy
  BY <1>1 DEF Queued, Busy, TypeOK, Working
<1>4. pc \notin {"idle", "check", "preflight", "save"}
  BY DEF WorkersCounted, Busy, Working
<1>5. \A q \in Pkg : (work'[q] = "idle" <=> work[q] = "idle") /\ (work'[q] = "sent" <=> work[q] = "sent")
  BY <1>1 DEF TypeOK, Working
<1>6. \A i \in 1..Len(results) : results[i][1] \in Pkg
  BY DEF TypeOK
<1>7. Received' = Received
  BY <1>3, <1>5 DEF Received
<1> QED BY <1>1, <1>2, <1>3, <1>4, <1>5, <1>6, <1>7 DEF WorkersCounted, SameProgress

\* A step of one worker leaves the counts and what was received as they are.
LEMMA WorkerCounted ==
  ASSUME TypeOK, WorkersCounted, NEW p \in Pkg,
         Prepares(p) \/ AcquireVDB(p) \/ AcquireVDBFails(p) \/ Mutates(p)
  PROVE  WorkersCounted' /\ SameProgress /\ UNCHANGED main
<1> USE SendCounted, GoCounted DEF Stage, Working
<1>1. CASE WaitForLoad(p)
  BY Zenon, <1>1 DEF WaitForLoad
<1>2. CASE Build(p) \/ BuildFails(p)
  BY Zenon, <1>2 DEF Build, BuildFails
<1>3. CASE AcquireCommitLock(p)
  BY <1>3 DEF AcquireCommitLock
<1>4. CASE AcquireVDB(p) \/ AcquireVDBFails(p)
  BY Zenon, <1>4 DEF AcquireVDB, AcquireVDBFails
<1>5. CASE Validate(p)
  BY Zenon, <1>5 DEF Validate
<1>6. CASE PrepareMutation(p) \/ PrepareMutationFails(p)
  BY Zenon, <1>6 DEF PrepareMutation, PrepareMutationFails
<1>7. ASSUME NEW b \in Blocker, RemoveBlocker(p, b)
      PROVE  WorkersCounted' /\ SameProgress /\ UNCHANGED main
  BY <1>7 DEF RemoveBlocker, main, run, loop, WorkersCounted, SameProgress, Received, Busy, Queued
<1>8. ASSUME NEW b \in Blocker, RemoveBlockerFails(p, b)
      PROVE  WorkersCounted' /\ SameProgress /\ UNCHANGED main
  BY Zenon, <1>8 DEF RemoveBlockerFails
<1>9. CASE Merge(p) \/ MergeFails(p)
  BY Zenon, <1>9 DEF Merge, MergeFails
<1>10. CASE Record(p) \/ RecordFails(p)
  BY Zenon, <1>10 DEF Record, RecordFails
<1>11. CASE MarkResumeComplete(p) \/ MarkResumeFails(p)
  BY Zenon, <1>11 DEF MarkResumeComplete, MarkResumeFails
<1>12. CASE LeaveMutation(p)
  BY Zenon, <1>12 DEF LeaveMutation
<1> QED
  BY <1>1, <1>2, <1>3, <1>4, <1>5, <1>6, <1>7, <1>8, <1>9, <1>10, <1>11, <1>12
  DEF Prepares, Mutates

\* When nothing is running, no worker is busy and no result is queued.
LEMMA NothingRunning ==
  ASSUME TypeOK, WorkersCounted, running = 0
  PROVE  Busy = {} /\ Queued = {}
<1>1. Busy \cup Queued \in SUBSET Pkg
  BY DEF Busy, Queued, TypeOK
<1>2. Cardinality(Busy \cup Queued) = 0
  BY DEF WorkersCounted
<1>3. Busy \cup Queued = {}
  BY <1>1, <1>2, PackagesFinite
<1> QED BY <1>3

\* What the admission of p does to the counts.
LEMMA AdmitCounted ==
  ASSUME TypeOK, WorkersCounted, NEW free, Admit(free)
  PROVE  /\ Min(ready) \in Pkg /\ Min(ready) \in ready /\ work[Min(ready)] = "idle"
         /\ WorkersCounted' /\ Received' = Received
<1> DEFINE p == Min(ready)
<1>1. p \in ready /\ p \in Pkg /\ p \in plan /\ work[p] = "idle"
  BY MinIsMember DEF Admit, TypeOK, WorkersCounted
<1> HIDE DEF p
<1>2. /\ work' = [work EXCEPT ![p] = "load"] /\ ready' = ready \ {p}
      /\ running' = running + 1 /\ pc = "loop"
      /\ UNCHANGED <<pc, plan, completed, results>>
  BY DEF Admit, Launch, run, p
<1>3. Busy' = Busy \cup {p} /\ Queued' = Queued
  BY <1>1, <1>2 DEF Busy, Queued, TypeOK
<1>4. p \notin Busy \cup Queued
  BY <1>1 DEF Busy, Queued, WorkersCounted
<1>5. Busy \cup Queued \in SUBSET Pkg
  BY DEF Busy, Queued, TypeOK
<1>6. Cardinality((Busy \cup Queued) \cup {p}) = Cardinality(Busy \cup Queued) + 1
  BY Zenon, <1>4, <1>5, PackagesFinite, FS_AddElement
<1>7. Busy' \cup Queued' = (Busy \cup Queued) \cup {p}
  BY <1>3
<1>8. running' = Cardinality(Busy' \cup Queued')
  BY Zenon, <1>2, <1>6, <1>7 DEF WorkersCounted
<1>9. \A i \in 1..Len(results) : results[i][1] \in Pkg /\ work'[results[i][1]] = "sent"
  <2>1. \A i \in 1..Len(results) : results[i][1] \in Pkg
    BY DEF TypeOK
  <2>2. \A i \in 1..Len(results) : work[results[i][1]] = "sent"
    BY DEF WorkersCounted
  <2>3. \A q \in Pkg \ {p} : work'[q] = work[q]
    BY <1>2 DEF TypeOK
  <2> QED BY <1>1, <2>1, <2>2, <2>3
<1>10. \A q \in Pkg : work'[q] # "idle" => q \in plan /\ q \notin ready'
  BY <1>1, <1>2 DEF WorkersCounted, TypeOK
<1>11. Received' = Received
  BY <1>1, <1>2, <1>3 DEF Received, TypeOK
<1> QED BY <1>1, <1>2, <1>8, <1>9, <1>10, <1>11 DEF WorkersCounted, p

\* What receiving the head of the queue does to the counts, whether it is acted
\* on or only drained.
LEMMA TakeCounted ==
  ASSUME TypeOK, WorkersCounted, results # <<>>, results' = Tail(results),
         running' = running - 1, UNCHANGED <<work, plan>>
  PROVE  /\ running' = Cardinality(Busy' \cup Queued')
         /\ Received' = Received \cup {Head(results)[1]}
         /\ Head(results)[1] \in plan \ Received
         /\ \A i \in 1..Len(results') : work'[results'[i][1]] = "sent"
         /\ \A i, j \in 1..Len(results') : results'[i][1] = results'[j][1] => i = j
<1> DEFINE p == Head(results)[1]
<1>1. /\ p \in Pkg /\ p \in Queued /\ work[p] = "sent" /\ Queued' = Queued \ {p}
      /\ \A i \in 1..Len(results') : results'[i] = results[i + 1] /\ i + 1 \in 1..Len(results)
  BY QueueTail
<1> HIDE DEF p
<1>2. Busy' = Busy /\ p \notin Busy
  BY <1>1 DEF Busy
<1>3. Busy' \cup Queued' = (Busy \cup Queued) \ {p}
  BY <1>1, <1>2
<1>4. Busy \cup Queued \in SUBSET Pkg
  BY DEF Busy, Queued, TypeOK
<1>5. Cardinality((Busy \cup Queued) \ {p}) = Cardinality(Busy \cup Queued) - 1
  BY Zenon, <1>1, <1>4, PackagesFinite, FS_RemoveElement
<1>6. running' = Cardinality(Busy' \cup Queued')
  BY Zenon, <1>3, <1>5 DEF WorkersCounted
<1>7. Received' = Received \cup {p} /\ p \in plan \ Received
  BY <1>1 DEF Received, WorkersCounted
<1>8. \A i \in 1..Len(results') : work'[results'[i][1]] = "sent"
  BY <1>1 DEF WorkersCounted
<1>9. \A i, j \in 1..Len(results') : results'[i][1] = results'[j][1] => i = j
  <2>1. 1..Len(results') \subseteq Int
    BY QueueTail DEF TypeOK
  <2> QED BY <1>1, <2>1 DEF WorkersCounted
<1> QED BY <1>6, <1>7, <1>8, <1>9 DEF p

\* Receiving a success updates the loop's picture of the graph.
LEMMA ReceiveTracked ==
  ASSUME Inv, Receive
  PROVE  WorkersCounted' /\ GraphTracked'
<1> DEFINE p == Head(results)[1]
           after == [q \in Pkg |-> IF q \in plan /\ p \in prereq[q]
                                     THEN remaining[q] - 1 ELSE remaining[q]]
<1> USE DEF Inv
<1>1. /\ pc = "receive" /\ results # <<>> /\ results' = Tail(results)
      /\ running' = running - 1 /\ UNCHANGED <<work, plan, prereq>>
  BY DEF Receive, run
<1>2. /\ running' = Cardinality(Busy' \cup Queued')
      /\ Received' = Received \cup {p} /\ p \in plan \ Received
      /\ \A i \in 1..Len(results') : work'[results'[i][1]] = "sent"
      /\ \A i, j \in 1..Len(results') : results'[i][1] = results'[j][1] => i = j
  BY <1>1, TakeCounted
<1>3. Head(results)[2] \in BOOLEAN
  BY <1>1, QueueTail
<1>4. CASE ~Head(results)[2]
  <2>1. pc' = "drain" /\ UNCHANGED ready
    BY <1>4 DEF Receive
  <2> QED BY <1>1, <1>2, <2>1 DEF WorkersCounted, GraphTracked, Looping, Launching
<1>5. CASE Head(results)[2]
  <2>1. /\ remaining' = after
        /\ ready' = ready \cup {q \in plan : p \in prereq[q] /\ after[q] = 0}
        /\ completed' = completed + 1
        /\ pc' = IF completed' = Cardinality(plan) THEN "finish" ELSE "loop"
    BY <1>5 DEF Receive
  <2> HIDE DEF p, after
  <2>2. /\ plan \in SUBSET Pkg /\ Received \in SUBSET plan
        /\ Received' \in SUBSET plan /\ IsFiniteSet(plan) /\ IsFiniteSet(Received)
    BY Zenon, <1>2, PackagesFinite DEF TypeOK, Received, WorkersCounted
  <2>3. completed = Cardinality(Received)
    BY <1>1 DEF GraphTracked, Looping, Launching
  <2>4. completed' = Cardinality(Received')
    BY Zenon, <1>2, <2>1, <2>2, <2>3, FS_AddElement
  <2>5. completed' = Cardinality(plan) <=> Received' = plan
    BY <2>2, <2>4, FS_Subset
  <2>6. ASSUME NEW q \in plan
        PROVE  /\ after[q] = Cardinality(Before(q) \ Received')
               /\ Before(q) \in SUBSET Pkg
               /\ p \notin prereq[q] => (Before(q) \subseteq Received' <=> Before(q) \subseteq Received)
               /\ p \in prereq[q] => (Before(q) \subseteq Received' <=> after[q] = 0)
               /\ p \in prereq[q] => ~(Before(q) \subseteq Received)
    <3>1. /\ remaining[q] = Cardinality(Before(q) \ Received) /\ q \in Pkg
          /\ Before(q) \in SUBSET Pkg
      BY <1>1, <2>2 DEF GraphTracked, Looping, Launching, Before, TypeOK
    <3>2. CASE p \in prereq[q]
      <4>1. p \in Before(q) \ Received
        BY <1>2, <3>2 DEF Before
      <4>2. Before(q) \ Received' = (Before(q) \ Received) \ {p}
        BY <1>2
      <4>3. Cardinality(Before(q) \ Received') = remaining[q] - 1
        <5>1. IsFiniteSet(Before(q) \ Received)
          BY <3>1, PackagesFinite
        <5>2. Cardinality((Before(q) \ Received) \ {p}) = Cardinality(Before(q) \ Received) - 1
          BY Zenon, <4>1, <5>1, FS_RemoveElement
        <5> QED BY <3>1, <4>2, <5>2
      <4>4. after[q] = remaining[q] - 1
        BY <3>1, <3>2 DEF after
      <4>5. after[q] = 0 <=> Before(q) \ Received' = {}
        BY <3>1, <4>3, <4>4, PackagesFinite
      <4> QED BY <3>1, <3>2, <4>1, <4>3, <4>4, <4>5
    <3>3. CASE p \notin prereq[q]
      <4>1. Before(q) \ Received' = Before(q) \ Received
        BY <1>2, <3>3 DEF Before
      <4>2. after[q] = remaining[q]
        BY <3>1, <3>3 DEF after
      <4> QED BY <3>1, <3>3, <4>1, <4>2
    <3> QED BY <3>2, <3>3
  <2>7. ASSUME NEW q \in plan
        PROVE  /\ remaining'[q] = Cardinality(Before(q)' \ Received')
               /\ work'[q] = "idle" => (q \in ready' <=> Before(q)' \subseteq Received')
               /\ work'[q] # "idle" => Before(q)' \subseteq Received' /\ q \notin ready'
    <3>1. Before(q)' = Before(q)
      BY <1>1 DEF Before
    <3>2. /\ work[q] = "idle" => (q \in ready <=> Before(q) \subseteq Received)
          /\ work[q] # "idle" => Before(q) \subseteq Received /\ q \notin ready
      BY Zenon, <1>1, <2>2 DEF GraphTracked, WorkersCounted, Looping, Launching
    <3>3. q \in ready' <=> q \in ready \/ (p \in prereq[q] /\ after[q] = 0)
      BY <2>1
    <3> QED BY <1>1, <1>2, <2>1, <2>6, <3>1, <3>2, <3>3
  <2>8. pc' \in {"loop", "finish"} /\ (pc' = "finish" <=> Received' = plan)
    BY <2>1, <2>5
  <2>9. GraphTracked'
    BY <1>1, <2>4, <2>7, <2>8 DEF GraphTracked, Looping, Launching
  <2>10. \A q \in Pkg : work'[q] # "idle" => q \in plan' /\ q \notin ready'
    BY Zenon, <1>1, <2>7 DEF WorkersCounted
  <2> QED BY <1>2, <2>8, <2>9, <2>10 DEF WorkersCounted
<1> QED BY <1>3, <1>4, <1>5

\* Every step keeps the counts of the workers and the picture of the graph.
LEMMA NextTracked ==
  ASSUME Inv, [Next]_vars
  PROVE  WorkersCounted' /\ GraphTracked'
<1> USE DEF Inv
<1>1. ASSUME NEW p \in Pkg,
             Prepares(p) \/ AcquireVDB(p) \/ AcquireVDBFails(p) \/ Mutates(p)
      PROVE  WorkersCounted' /\ GraphTracked'
  <2>1. WorkersCounted' /\ SameProgress /\ UNCHANGED main
    BY <1>1, WorkerCounted
  <2>2. plan \in SUBSET Pkg
    BY DEF TypeOK
  <2> QED BY <2>1, <2>2 DEF SameProgress, main, run, loop, GraphTracked, Before
<1>2. CASE Start
  <2>1. Busy' = {} /\ Queued' = {}
    BY <1>2 DEF Start, Busy, Queued
  <2> QED BY <1>2, <2>1, FS_EmptySet DEF Start, WorkersCounted, GraphTracked, Looping, Launching
<1>3. CASE Kill
  <2>1. Busy' = {} /\ Queued' = {}
    BY <1>3 DEF Kill, Busy, Queued
  <2> QED BY <1>3, <2>1, FS_EmptySet DEF Kill, Return, WorkersCounted, GraphTracked, Looping, Launching
<1>4. CASE SaveResume
  <2>1. /\ Busy' = Busy /\ Queued' = Queued /\ Received' = {}
        /\ UNCHANGED <<plan, prereq, running, completed, results, work>>
    BY <1>4 DEF SaveResume, run, Busy, Queued, Received, WorkersCounted
  <2>2. completed' = 0 /\ pc' = "loop" /\ plan # {}
    BY <1>4 DEF SaveResume, WorkersCounted, PlanCovers
  <2>3. \A q \in plan : /\ work'[q] = "idle"
                        /\ remaining'[q] = Cardinality(Before(q)' \ Received')
                        /\ q \in ready' <=> Before(q)' \subseteq Received'
    <3>1. \A q \in plan : Before(q)' = Before(q) /\ Before(q) \ {} = Before(q)
      BY <2>1 DEF Before
    <3> QED BY <1>4, <2>1, <3>1 DEF SaveResume, WorkersCounted, TypeOK
  <2>4. GraphTracked'
    BY <2>1, <2>2, <2>3, FS_EmptySet DEF GraphTracked, Looping, Launching
  <2>5. WorkersCounted'
    BY <1>4, <2>1, <2>2 DEF SaveResume, WorkersCounted
  <2> QED BY <2>4, <2>5
<1>5. ASSUME NEW free \in Free, Admit(free) PROVE WorkersCounted' /\ GraphTracked'
  <2> DEFINE p == Min(ready)
  <2>1. p \in Pkg /\ p \in ready /\ work[p] = "idle" /\ WorkersCounted' /\ Received' = Received
    BY <1>5, AdmitCounted
  <2>2. /\ work' = [work EXCEPT ![p] = "load"] /\ ready' = ready \ {p} /\ pc = "loop"
        /\ UNCHANGED <<pc, plan, prereq, completed, remaining>>
    BY <1>5 DEF Admit, Launch, run
  <2> HIDE DEF p
  <2>3. plan \in SUBSET Pkg
    BY DEF TypeOK
  <2> QED BY Zenon, <2>1, <2>2, <2>3 DEF GraphTracked, Before, Looping, Launching, TypeOK
<1>6. CASE Receive
  BY <1>6, ReceiveTracked
<1>7. ASSUME UNCHANGED <<plan, prereq, loop, results, work>>,
             pc' = "idle" => Busy = {},
             pc' \in Looping => pc \in Looping /\ (pc' \in Launching <=> pc \in Launching),
             pc' \in {"check", "preflight", "save"} => pc \in {"check", "preflight", "save"}
      PROVE  WorkersCounted' /\ GraphTracked'
  <2>1. Busy' = Busy /\ Queued' = Queued /\ Received' = Received
    BY <1>7 DEF Busy, Queued, Received
  <2>2. WorkersCounted'
    BY <1>7, <2>1 DEF WorkersCounted, loop
  <2>3. GraphTracked'
    BY <1>7, <2>1 DEF GraphTracked, loop, Before
  <2> QED BY <2>2, <2>3
<1>8. CASE Drain
  <2>1. CASE running = 0
    <3>1. Busy = {}
      BY <2>1, NothingRunning
    <3> QED BY <1>8, <1>7, <2>1, <3>1 DEF Drain, Return, run, loop, Looping, Launching
  <2>2. CASE running # 0
    <3>1. /\ results # <<>> /\ results' = Tail(results) /\ running' = running - 1
          /\ UNCHANGED <<pc, plan, ready, completed, work>> /\ pc = "drain"
      BY <1>8, <2>2 DEF Drain, run
    <3>2. /\ running' = Cardinality(Busy' \cup Queued')
          /\ \A i \in 1..Len(results') : work'[results'[i][1]] = "sent"
          /\ \A i, j \in 1..Len(results') : results'[i][1] = results'[j][1] => i = j
      BY <3>1, TakeCounted
    <3> QED BY <3>1, <3>2 DEF WorkersCounted, GraphTracked, Looping, Launching
  <2> QED BY <2>1, <2>2
<1>9. CASE ValidateActionGraph \/ Preflight \/ SaveResumeFails
  BY Zenon, <1>7, <1>9 DEF ValidateActionGraph, Preflight, SaveResumeFails, Return, run, loop,
     WorkersCounted, Looping, Launching, Busy
<1>10. ASSUME NEW free \in Free, AdmitFails(free) PROVE WorkersCounted' /\ GraphTracked'
  BY <1>7, <1>10 DEF AdmitFails, run, Looping, Launching
<1>11. ASSUME NEW free \in Free, AwaitResult(free) PROVE WorkersCounted' /\ GraphTracked'
  <2>1. running = 0 => Busy = {}
    BY NothingRunning
  <2> QED BY <1>7, <1>11, <2>1 DEF AwaitResult, Return, run, Looping, Launching
<1>12. CASE Finish \/ FinishFails
  <2>1. pc = "finish" /\ pc' = "idle"
    BY <1>12 DEF Finish, FinishFails, Return
  <2>2. Busy = {}
    BY <2>1 DEF GraphTracked, WorkersCounted, Received, Busy, Looping, Launching
  <2> QED BY <1>7, <1>12, <2>1, <2>2 DEF Finish, FinishFails, run, Looping, Launching
<1>13. CASE FinishEmptyResume
  BY <1>7, <1>13 DEF FinishEmptyResume, Return, WorkersCounted, Looping, Launching
<1>14. CASE Signal \/ OtherLocks \/ OtherUnlocks \/ PolicyChanges
  BY Zenon, <1>7, <1>14 DEF Signal, OtherLocks, OtherUnlocks, PolicyChanges, inside, main, run,
     WorkersCounted
<1>15. CASE UNCHANGED vars
  BY <1>7, <1>15 DEF vars, run, WorkersCounted
<1> QED
  BY <1>1, <1>2, <1>3, <1>4, <1>5, <1>6, <1>8, <1>9, <1>10, <1>11, <1>12, <1>13, <1>14, <1>15
  DEF Next, Main, Environment

-----------------------------------------------------------------------------
(* Types.                                                                  *)

\* TypeOK in three parts: the loop, the workers, and what they share.
LoopTyped ==
  /\ prereq \in [Pkg -> SUBSET Pkg] /\ runs \in 0..MaxRuns /\ resume \in BOOLEAN
  /\ pc \in MainStage /\ verdict \in {"none", "ok", "failed", "cycle", "stalled"}
  /\ plan \subseteq Pkg /\ blockers \subseteq Blocker
  /\ remaining \in [Pkg -> 0..Cardinality(Pkg)] /\ ready \subseteq plan
  /\ running \in 0..Jobs /\ completed \in 0..Cardinality(Pkg) /\ cancelled \in BOOLEAN

WorkTyped ==
  /\ work \in [Pkg -> Stage] /\ results \in Seq(Pkg \X BOOLEAN)
  /\ commitLock \in Pkg \cup {NoOne} /\ vdbLock \in Pkg \cup {NoOne, Other}

SharedTyped ==
  /\ committed \subseteq Pkg /\ removed \subseteq Blocker /\ external \subseteq Changes
  /\ saved \in BOOLEAN /\ pending \subseteq Pkg /\ world \in BOOLEAN
  /\ snapshot \in [committed : SUBSET Pkg, removed : SUBSET Blocker,
                   external : SUBSET Changes]
  /\ prepared \in BOOLEAN

\* The parts make the whole.
LEMMA TypedParts ==
  (TypeOK <=> LoopTyped /\ WorkTyped /\ SharedTyped)
  /\ (TypeOK' <=> LoopTyped' /\ WorkTyped' /\ SharedTyped')
  BY DEF TypeOK, LoopTyped, WorkTyped, SharedTyped

\* A worker's report keeps the types of the workers.
LEMMA SendTyped ==
  ASSUME WorkTyped, NEW p \in Pkg, NEW ok \in BOOLEAN, Send(p, ok)
  PROVE  WorkTyped'
<1>1. work' \in [Pkg -> Stage]
  BY DEF WorkTyped, Send, Stage
<1>2. results' \in Seq(Pkg \X BOOLEAN)
  BY DEF WorkTyped, Send
<1>3. commitLock' \in Pkg \cup {NoOne} /\ vdbLock' \in Pkg \cup {NoOne, Other}
  BY DEF WorkTyped, Send
<1> QED BY <1>1, <1>2, <1>3 DEF WorkTyped

\* A worker's next stage keeps the types of the workers.
LEMMA GoTyped ==
  ASSUME WorkTyped, NEW p \in Pkg, NEW stage \in Stage, Go(p, stage),
         commitLock' \in {commitLock, p}, vdbLock' \in {vdbLock, p}
  PROVE  WorkTyped'
  BY DEF WorkTyped, Go

\* A step of one worker keeps the types.
LEMMA WorkerTyped ==
  ASSUME Inv, NEW p \in Pkg,
         Prepares(p) \/ AcquireVDB(p) \/ AcquireVDBFails(p) \/ Mutates(p)
  PROVE  TypeOK'
<1>1. LoopTyped /\ WorkTyped /\ SharedTyped
  BY TypedParts DEF Inv
<1>2. LoopTyped'
  <2>1. UNCHANGED main
    BY WorkerCounted DEF Inv
  <2> QED BY <1>1, <2>1 DEF main, run, loop, LoopTyped
<1>3. ASSUME UNCHANGED <<disk, external, guard>>, WorkTyped' PROVE TypeOK'
  <2>1. SharedTyped'
    BY <1>1, <1>3 DEF disk, guard, SharedTyped
  <2> QED BY <1>2, <1>3, <2>1, TypedParts
<1>4. ASSUME NEW stage \in Stage, Go(p, stage), UNCHANGED locks PROVE WorkTyped'
  BY <1>1, <1>4, GoTyped DEF locks
<1>5. ASSUME NEW ok \in BOOLEAN, Send(p, ok) PROVE WorkTyped'
  BY <1>1, <1>5, SendTyped
<1>6. CASE Prepares(p)
  <2>1. CASE WaitForLoad(p)
    BY Zenon, <1>3, <1>4, <1>5, <2>1 DEF WaitForLoad, Stage
  <2>2. CASE Build(p) \/ BuildFails(p)
    BY Zenon, <1>3, <1>4, <1>5, <2>2 DEF Build, BuildFails, Stage
  <2>3. CASE AcquireCommitLock(p)
    BY <1>1, <1>3, <2>3, GoTyped DEF AcquireCommitLock, Stage
  <2> QED BY <1>6, <2>1, <2>2, <2>3 DEF Prepares
<1>7. CASE AcquireVDB(p)
  BY <1>1, <1>3, <1>7, GoTyped DEF AcquireVDB, Stage
<1>8. CASE AcquireVDBFails(p) \/ PrepareMutationFails(p) \/ MergeFails(p) \/ RecordFails(p) \/ LeaveMutation(p)
  BY Zenon, <1>3, <1>5, <1>8 DEF AcquireVDBFails, PrepareMutationFails, MergeFails, RecordFails, LeaveMutation
<1>9. Seen \in [committed : SUBSET Pkg, removed : SUBSET Blocker, external : SUBSET Changes]
  BY <1>1 DEF SharedTyped, Seen
<1>10. CASE Validate(p)
  <2>1. CASE Drifted
    BY Zenon, <1>3, <1>5, <1>10, <2>1 DEF Validate, guard
  <2>2. CASE ~Drifted
    <3>1. WorkTyped'
      BY <1>4, <1>10, <2>2 DEF Validate, Stage
    <3>2. SharedTyped'
      BY <1>1, <1>9, <1>10, <2>2 DEF Validate, disk, SharedTyped
    <3> QED BY <1>2, <3>1, <3>2, TypedParts
  <2> QED BY <2>1, <2>2
<1>11. CASE PrepareMutation(p)
  <2>1. WorkTyped'
    BY <1>4, <1>11 DEF PrepareMutation, Stage
  <2>2. SharedTyped'
    BY <1>1, <1>11 DEF PrepareMutation, disk, SharedTyped
  <2> QED BY <1>2, <2>1, <2>2, TypedParts
<1>12. ASSUME NEW b \in Blocker, RemoveBlocker(p, b) PROVE TypeOK'
  <2>1. WorkTyped'
    BY <1>1, <1>12 DEF RemoveBlocker, locks, WorkTyped
  <2>2. SharedTyped'
    BY <1>1, <1>9, <1>12 DEF RemoveBlocker, SharedTyped
  <2> QED BY <1>2, <2>1, <2>2, TypedParts
<1>13. ASSUME NEW b \in Blocker, RemoveBlockerFails(p, b) PROVE TypeOK'
  <2>1. WorkTyped'
    BY Zenon, <1>5, <1>13 DEF RemoveBlockerFails
  <2>2. SharedTyped'
    BY <1>1, <1>13 DEF RemoveBlockerFails, guard, SharedTyped
  <2> QED BY <1>2, <2>1, <2>2, TypedParts
<1>14. CASE Merge(p)
  <2>1. WorkTyped'
    BY <1>4, <1>14 DEF Merge, Stage
  <2>2. SharedTyped'
    BY <1>1, <1>14 DEF Merge, guard, SharedTyped
  <2> QED BY <1>2, <2>1, <2>2, TypedParts
<1>15. CASE Record(p)
  <2>1. WorkTyped'
    BY <1>4, <1>15 DEF Record, Stage
  <2>2. SharedTyped'
    BY <1>1, <1>9, <1>15 DEF Record, disk, SharedTyped
  <2> QED BY <1>2, <2>1, <2>2, TypedParts
<1>16. CASE MarkResumeComplete(p) \/ MarkResumeFails(p)
  <2>1. WorkTyped'
    BY Zenon, <1>4, <1>5, <1>16 DEF MarkResumeComplete, MarkResumeFails, Stage
  <2>2. SharedTyped'
    BY Zenon, <1>1, <1>16 DEF MarkResumeComplete, MarkResumeFails, guard, SharedTyped
  <2> QED BY <1>2, <2>1, <2>2, TypedParts
<1> QED
  BY <1>6, <1>7, <1>8, <1>10, <1>11, <1>12, <1>13, <1>14, <1>15, <1>16 DEF Mutates

\* Every step keeps the types; the counters stay in range because they count.
LEMMA NextTyped ==
  ASSUME Inv, [Next]_vars
  PROVE  TypeOK'
<1>1. LoopTyped /\ WorkTyped /\ SharedTyped
  BY TypedParts DEF Inv
<1>2. ASSUME NEW p \in Pkg,
             Prepares(p) \/ AcquireVDB(p) \/ AcquireVDBFails(p) \/ Mutates(p)
      PROVE  TypeOK'
  BY <1>2, WorkerTyped
<1>3. ASSUME UNCHANGED <<disk, external, guard>> PROVE SharedTyped'
  BY <1>1, <1>3 DEF disk, guard, SharedTyped
<1>4. ASSUME UNCHANGED <<results, work, locks>> PROVE WorkTyped'
  BY <1>1, <1>4 DEF locks, WorkTyped
<1>5. ASSUME results # <<>>, results' = Tail(results), UNCHANGED <<work, locks>> PROVE WorkTyped'
  BY <1>1, <1>5 DEF locks, WorkTyped
<1>6. ASSUME UNCHANGED <<run, loop>>, cancelled' \in {cancelled, TRUE}, pc' \in MainStage,
             verdict' \in {verdict, "ok", "failed", "cycle", "stalled"}
      PROVE  LoopTyped'
  BY Zenon, <1>1, <1>6 DEF run, loop, LoopTyped
<1>7. CASE Start
  <2>1. LoopTyped'
    <3>1. 0 \in 0..Cardinality(Pkg) /\ 0 \in 0..Jobs
      BY PackagesFinite, JobsAssumption
    <3>2. runs' \in 0..MaxRuns
      BY <1>1, <1>7, RunsAssumption DEF Start, LoopTyped
    <3>3. plan' \subseteq Pkg /\ blockers' \subseteq Blocker
      BY <1>1, <1>7 DEF Start, RunPlan, SharedTyped
    <3>4. /\ remaining' \in [Pkg -> 0..Cardinality(Pkg)] /\ ready' \subseteq plan'
          /\ running' \in 0..Jobs /\ completed' \in 0..Cardinality(Pkg)
      BY <1>7, <3>1 DEF Start
    <3>5. /\ prereq' \in [Pkg -> SUBSET Pkg] /\ resume' \in BOOLEAN /\ cancelled' \in BOOLEAN
          /\ pc' = "check" /\ verdict' = "none"
      BY Zenon, <1>1, <1>7 DEF Start, LoopTyped, SharedTyped
    <3> QED BY <3>2, <3>3, <3>4, <3>5 DEF LoopTyped, MainStage
  <2>2. WorkTyped'
    BY <1>1, <1>7 DEF Start, locks, WorkTyped, Stage
  <2>3. SharedTyped'
    BY Zenon, <1>1, <1>7 DEF Start, Seen, disk, SharedTyped
  <2> QED BY <2>1, <2>2, <2>3, TypedParts
<1>8. CASE FinishEmptyResume
  <2>1. LoopTyped'
    BY <1>1, <1>8, RunsAssumption DEF FinishEmptyResume, Return, loop, LoopTyped, MainStage
  <2>2. WorkTyped' /\ SharedTyped'
    BY Zenon, <1>1, <1>4, <1>8 DEF FinishEmptyResume, guard, SharedTyped
  <2> QED BY <2>1, <2>2, TypedParts
<1>9. CASE Kill
  <2>1. LoopTyped'
    BY <1>1, <1>9, JobsAssumption DEF Kill, Return, run, LoopTyped, MainStage
  <2>2. WorkTyped' /\ SharedTyped'
    BY <1>1, <1>3, <1>9 DEF Kill, WorkTyped, Stage
  <2> QED BY <2>1, <2>2, TypedParts
<1>10. CASE Signal
  BY <1>3, <1>4, <1>6, <1>10, <1>1, TypedParts DEF Signal, LoopTyped
<1>11. CASE OtherLocks \/ OtherUnlocks \/ PolicyChanges
  <2>1. LoopTyped'
    BY <1>1, <1>11 DEF OtherLocks, OtherUnlocks, PolicyChanges, inside, main, run, loop, LoopTyped
  <2>2. WorkTyped'
    BY <1>1, <1>11 DEF OtherLocks, OtherUnlocks, PolicyChanges, inside, WorkTyped
  <2>3. SharedTyped'
    BY Zenon, <1>1, <1>11, FaultsAssumption
    DEF OtherLocks, OtherUnlocks, PolicyChanges, inside, disk, guard, SharedTyped, Changes
  <2> QED BY <2>1, <2>2, <2>3, TypedParts
<1>12. CASE ValidateActionGraph \/ Preflight
  <2>1. LoopTyped'
    BY Zenon, <1>1, <1>6, <1>12 DEF ValidateActionGraph, Preflight, Return, MainStage
  <2> QED BY <1>3, <1>4, <1>12, <2>1, TypedParts DEF ValidateActionGraph, Preflight
<1>13. CASE SaveResume
  <2>1. \A q \in Pkg : Cardinality(Before(q)) \in 0..Cardinality(Pkg) /\ 0 \in 0..Cardinality(Pkg)
    <3>1. \A q \in Pkg : Before(q) \in SUBSET Pkg
      BY <1>1 DEF Before, LoopTyped
    <3> QED BY <3>1, PackagesFinite
  <2>2. LoopTyped'
    BY <1>1, <1>13, <2>1 DEF SaveResume, run, LoopTyped, MainStage
  <2>3. SharedTyped' /\ WorkTyped'
    BY <1>1, <1>4, <1>13 DEF SaveResume, guard, SharedTyped, LoopTyped
  <2> QED BY <2>2, <2>3, TypedParts
<1>14. CASE SaveResumeFails
  <2>1. LoopTyped'
    BY <1>6, <1>14 DEF SaveResumeFails, Return, MainStage
  <2>2. SharedTyped' /\ WorkTyped'
    BY Zenon, <1>1, <1>4, <1>14 DEF SaveResumeFails, guard, SharedTyped, LoopTyped
  <2> QED BY <2>1, <2>2, TypedParts
<1>15. ASSUME NEW free \in Free, Admit(free) PROVE TypeOK'
  <2> DEFINE p == Min(ready)
  <2>1. p \in Pkg
    BY <1>15, AdmitCounted DEF Inv
  <2>2. /\ work' = [work EXCEPT ![p] = "load"] /\ ready' = ready \ {p} /\ running < Jobs
        /\ running' = running + 1
        /\ UNCHANGED <<run, disk, external, pc, verdict, remaining, completed, results,
                       cancelled, guard, locks>>
    BY <1>15 DEF Admit, Launch
  <2> HIDE DEF p
  <2>3. LoopTyped'
    BY <1>1, <2>2, JobsAssumption DEF run, LoopTyped
  <2>4. WorkTyped'
    BY <1>1, <2>1, <2>2 DEF locks, WorkTyped, Stage
  <2> QED BY <1>3, <2>2, <2>3, <2>4, TypedParts
<1>16. ASSUME NEW free \in Free, AdmitFails(free) \/ AwaitResult(free) PROVE TypeOK'
  <2>1. LoopTyped'
    BY Zenon, <1>1, <1>6, <1>16 DEF AdmitFails, AwaitResult, Return, MainStage
  <2> QED BY <1>3, <1>4, <1>16, <2>1, TypedParts DEF AdmitFails, AwaitResult
<1>17. ASSUME running' = running - 1, WorkersCounted', UNCHANGED work, WorkTyped'
       PROVE  running' \in 0..Jobs
  <2>1. Busy' \cup Queued' \in SUBSET Pkg
    BY <1>17 DEF Busy, Queued, WorkTyped
  <2>2. Cardinality(Busy' \cup Queued') \in Nat
    BY <2>1, PackagesFinite
  <2>3. running' = Cardinality(Busy' \cup Queued')
    BY <1>17 DEF WorkersCounted
  <2> QED BY <1>1, <1>17, <2>2, <2>3, JobsAssumption DEF LoopTyped
<1>18. CASE Receive
  <2>1. WorkTyped' /\ SharedTyped'
    BY <1>3, <1>5, <1>18 DEF Receive
  <2>2. WorkersCounted' /\ GraphTracked'
    BY <1>18, ReceiveTracked
  <2>3. running' \in 0..Jobs
    BY <1>17, <1>18, <2>1, <2>2 DEF Receive
  <2>4. UNCHANGED <<run, verdict, work>>
    BY <1>18 DEF Receive
  <2>5. CASE ~Head(results)[2]
    BY <1>1, <1>18, <2>1, <2>3, <2>4, <2>5, TypedParts DEF Receive, run, LoopTyped, MainStage
  <2>6. CASE Head(results)[2]
    <3>1. /\ pc' \in {"finish", "loop"} /\ UNCHANGED cancelled
          /\ ready' \subseteq plan
          /\ remaining' = [q \in Pkg |-> IF q \in plan /\ Head(results)[1] \in prereq[q]
                                         THEN remaining[q] - 1 ELSE remaining[q]]
      BY Zenon, <1>1, <1>18, <2>6 DEF Receive, LoopTyped
    <3>2. Received' \in SUBSET Pkg /\ \A q \in Pkg : Before(q)' \ Received' \in SUBSET Pkg
      BY <1>1, <2>4 DEF Received, Before, run, LoopTyped
    <3>3. completed' = Cardinality(Received')
          /\ \A q \in plan : remaining'[q] = Cardinality(Before(q)' \ Received')
      BY <2>2, <2>4, <3>1 DEF GraphTracked, Looping, Launching, run
    <3>4. completed' \in 0..Cardinality(Pkg)
      BY <3>2, <3>3, PackagesFinite
    <3>5. \A q \in Pkg : remaining'[q] \in 0..Cardinality(Pkg)
      <4>1. ASSUME NEW q \in plan PROVE remaining'[q] \in 0..Cardinality(Pkg)
        <5>1. Before(q)' \ Received' \in SUBSET Pkg
          BY <1>1, <3>2 DEF LoopTyped
        <5>2. Cardinality(Before(q)' \ Received') \in 0..Cardinality(Pkg)
          BY <5>1, PackagesFinite
        <5> QED BY <3>3, <5>2
      <4> QED BY <1>1, <3>1, <4>1 DEF LoopTyped
    <3>6. remaining' \in [Pkg -> 0..Cardinality(Pkg)]
      BY <3>1, <3>5
    <3>7. LoopTyped'
      BY <1>1, <2>3, <2>4, <3>1, <3>4, <3>6 DEF run, LoopTyped, MainStage
    <3> QED BY <2>1, <3>7, TypedParts
  <2>7. Head(results)[2] \in BOOLEAN
    BY <1>18, QueueTail DEF Receive, Inv
  <2> QED BY <2>5, <2>6, <2>7
<1>19. CASE Drain
  <2>1. WorkTyped' /\ SharedTyped'
    BY <1>3, <1>4, <1>5, <1>19 DEF Drain
  <2>2. WorkersCounted'
    BY NextTracked
  <2>3. running' \in 0..Jobs
    BY <1>1, <1>17, <1>19, <2>1, <2>2 DEF Drain, LoopTyped
  <2>4. LoopTyped'
    BY <1>1, <1>19, <2>3 DEF Drain, Return, run, LoopTyped, MainStage
  <2> QED BY <2>1, <2>4, TypedParts
<1>20. CASE Finish \/ FinishFails
  <2>1. LoopTyped'
    BY Zenon, <1>6, <1>20 DEF Finish, FinishFails, Return, MainStage
  <2>2. WorkTyped'
    BY <1>4, <1>20 DEF Finish, FinishFails
  <2>3. SharedTyped'
    BY Zenon, <1>1, <1>20 DEF Finish, FinishFails, guard, SharedTyped, LoopTyped
  <2> QED BY <2>1, <2>2, <2>3, TypedParts
<1>21. CASE UNCHANGED vars
  <2>1. LoopTyped'
    BY <1>1, <1>21 DEF vars, run, loop, LoopTyped
  <2> QED BY <1>3, <1>4, <1>21, <2>1, TypedParts DEF vars
<1> QED
  BY <1>2, <1>7, <1>8, <1>9, <1>10, <1>11, <1>12, <1>13, <1>14, <1>15, <1>16, <1>18, <1>19,
     <1>20, <1>21
  DEF Next, Main, Environment
=============================================================================
