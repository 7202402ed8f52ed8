-------------------------- MODULE PackageJobProofs --------------------------
(***************************************************************************)
(* Proofs about PackageJob, for any number of jobs and any phases: jobs    *)
(* mutate the system one at a time, and a job that returned told what it   *)
(* committed, saved the environment of every phase and left nothing        *)
(* behind.                                                                 *)
(***************************************************************************)
EXTENDS PackageJob, TLAPS

Before == {"open", "fetch", "log", "select", "build", "extract", "lock", "begin",
           "preinst", "merge"}
Merging == {"prerm", "postrm", "commit"}
Unwinding == {"release", "unlock", "finalize", "clean", "returned"}
Inside == {"preinst", "merge", "prerm", "postrm", "commit", "postinst", "record",
           "elog", "release"}
\* the stages that only a source job, or only a binary package, goes through
SourceOnly == {"fetch", "log", "select", "build", "preinst", "postinst", "elog",
               "finalize"}

\* a variable with one value for each job
PerJob(f) == f = [j \in Job |-> f[j]]

Typed ==
  /\ PerJob(pc) /\ PerJob(phase) /\ PerJob(env) /\ PerJob(stored)
  /\ PerJob(root) /\ PerJob(told) /\ PerJob(error) /\ PerJob(disk)
  /\ commitLock \in Job \cup {NoOne} /\ boundary \in Job \cup {NoOne}

\* The commit lock is held from Lock to Unlock, the boundary from BeginMutation
\* to its release.
Exclusive ==
  \A j \in Job : /\ pc[j] \in Inside \cup {"begin", "unlock"} <=> commitLock = j
                 /\ pc[j] \in Inside <=> boundary = j

Route(j) ==
  /\ j \in Binary => pc[j] \notin SourceOnly
  /\ j \notin Binary => pc[j] # "extract"

\* What a job has done to the root and whom it told, stage by stage.
Outcome(j) ==
  /\ pc[j] \in Before => root[j] = "before" /\ told[j] = "no" /\ error[j] = "none"
  /\ pc[j] \in Merging => root[j] = "partial" /\ told[j] = "no" /\ error[j] = "none"
  /\ pc[j] = "postinst" => root[j] = "after" /\ told[j] = "no" /\ error[j] = "none"
  /\ pc[j] = "record" => root[j] = "after" /\ told[j] = "no" /\ error[j] # "plain"
  /\ pc[j] = "elog" => root[j] = "after" /\ told[j] = "yes" /\ error[j] = "none"
  /\ root[j] = "partial" => pc[j] \in Merging
  /\ pc[j] \in Unwinding =>
       /\ root[j] # "partial" /\ (root[j] = "after" <=> told[j] # "no")
       /\ error[j] = "none" => told[j] = "yes" \/ j \in BuildOnly

Built(n) == {Phase[i] : i \in 1..n}
AllPhases == {Phase[i] : i \in DOMAIN Phase}
Complete == AllPhases \cup {"pkg_preinst", "pkg_postinst"}

\* The phases whose effects a source job holds, and those it has saved.
Environment(j) ==
  /\ phase[j] \in 0..Len(Phase)
  /\ pc[j] \in {"open", "fetch", "log", "select"} => phase[j] = 0 /\ env[j] = {}
  /\ pc[j] = "build" => env[j] = Built(phase[j])
  /\ pc[j] \in {"lock", "begin", "preinst"} => env[j] = AllPhases
  /\ pc[j] \in {"merge", "postinst"} \cup Merging => env[j] = AllPhases \cup {"pkg_preinst"}
  /\ pc[j] \in {"record", "elog"} \cup Unwinding /\ root[j] = "after" /\ error[j] = "none" =>
       stored[j] = Complete

\* What a job has on disk.
Leftover(j) ==
  /\ pc[j] = "open" => disk[j] = {}
  /\ pc[j] \in {"open", "fetch", "log", "extract", "clean", "returned"} => "log" \notin disk[j]
  /\ j \in Binary => "log" \notin disk[j]
  /\ pc[j] = "returned" =>
       /\ "image" \notin disk[j]
       /\ "work" \in disk[j] => error[j] # "none" /\ ~FailClean

Sound(j) ==
  Route(j) /\ Outcome(j) /\ (j \in Source => Environment(j)) /\ Leftover(j)

Routes == \A j \in Job : Route(j)
Outcomes == \A j \in Job : Outcome(j)
Environments == \A j \in Source : Environment(j)
Leftovers == \A j \in Job : Leftover(j)

-----------------------------------------------------------------------------
(* Initial states, and what another job's step leaves alone.               *)

\* No job has begun.
LEMMA InitInvariant ==
  ASSUME JobAssumption, Init
  PROVE  Typed /\ Exclusive /\ Routes /\ Outcomes /\ Environments /\ Leftovers
<1> USE DEF JobAssumption, Init
<1>1. Typed
  BY DEF Typed, PerJob
<1>2. Exclusive
  BY Zenon DEF Exclusive, Inside
<1>3. Routes
  BY Zenon DEF Routes, Route, SourceOnly
<1>4. Outcomes
  BY Zenon DEF Outcomes, Outcome, Before, Merging, Unwinding
<1>5. Environments
  <2>1. Len(Phase) \in Nat
    OBVIOUS
  <2> SUFFICES ASSUME NEW j \in Job PROVE Environment(j)
    BY Zenon DEF Environments, Source
  <2>2. pc[j] = "open" /\ phase[j] = 0 /\ env[j] = {} /\ root[j] = "before"
    OBVIOUS
  <2> QED BY ONLY <2>1, <2>2 DEF Environment, Merging
<1>6. Leftovers
  BY Zenon DEF Leftovers, Leftover
<1> QED BY <1>1, <1>2, <1>3, <1>4, <1>5, <1>6

\* Everything a job knows about itself is unchanged.
Same(k) ==
  /\ pc'[k] = pc[k] /\ phase'[k] = phase[k] /\ env'[k] = env[k]
  /\ stored'[k] = stored[k] /\ root'[k] = root[k] /\ told'[k] = told[k]
  /\ error'[k] = error[k] /\ disk'[k] = disk[k]

\* A job's step does not touch what another one knows about itself.
LEMMA OthersStay ==
  ASSUME Typed, NEW j \in Job, NEW k \in Job, k # j, Step(j)
  PROVE  Same(k)
<1> USE DEF Typed, PerJob, job, shared, Goto, Raise, Keep, Wrap, Leaves, Hook, RolledBack, Same
<1>1. CASE Open(j) \/ Fetch(j) \/ ReserveLog(j) \/ SelectReplacement(j)
  BY <1>1 DEF Open, Fetch, ReserveLog, SelectReplacement
<1>2. CASE RunBuildPhase(j) \/ Package(j) \/ Extract(j)
  BY <1>2 DEF RunBuildPhase, Package, Extract
<1>3. CASE Lock(j) \/ BeginMutation(j) \/ Preinst(j)
  BY <1>3 DEF Lock, BeginMutation, Preinst
<1>4. CASE Merge(j) \/ OldPrerm(j) \/ OldPostrm(j)
  BY <1>4, Zenon DEF Merge, OldPrerm, OldPostrm
<1>5. CASE Commit(j) \/ Postinst(j)
  BY <1>5 DEF Commit, Postinst
<1>6. CASE Record(j) \/ DeliverElog(j)
  BY <1>6 DEF Record, DeliverElog
<1>7. CASE Release(j) \/ Unlock(j) \/ FinalizeLog(j) \/ CleanUp(j)
  BY <1>7 DEF Release, Unlock, FinalizeLog, CleanUp
<1> QED BY <1>1, <1>2, <1>3, <1>4, <1>5, <1>6, <1>7 DEF Step

\* A job that is left alone keeps its part of the invariant.
LEMMA SameKeeps ==
  ASSUME NEW k \in Job, Same(k), Sound(k)
  PROVE  Sound(k)'
BY DEF Same, Sound, Route, Outcome, Environment, Leftover

-----------------------------------------------------------------------------
(* The lock and the boundary                                               *)

\* A step keeps the types.
LEMMA StepTyped ==
  ASSUME Typed, NEW j \in Job, Step(j)
  PROVE  Typed'
<1> USE DEF Typed, PerJob, job, shared, Goto, Raise, Keep, Wrap, Leaves, RolledBack
<1>1. PerJob(pc)' /\ PerJob(error)'
  <2>1. CASE Open(j) \/ Fetch(j) \/ ReserveLog(j) \/ SelectReplacement(j)
    BY <2>1 DEF Open, Fetch, ReserveLog, SelectReplacement
  <2>2. CASE RunBuildPhase(j) \/ Package(j) \/ Extract(j)
    BY <2>2 DEF RunBuildPhase, Package, Extract
  <2>3. CASE Lock(j) \/ BeginMutation(j) \/ Preinst(j)
    BY <2>3 DEF Lock, BeginMutation, Preinst
  <2>4. CASE Merge(j) \/ OldPrerm(j) \/ OldPostrm(j) \/ Commit(j)
    BY <2>4, Zenon DEF Merge, OldPrerm, OldPostrm, Commit
  <2>5. CASE Postinst(j) \/ Record(j) \/ DeliverElog(j)
    BY <2>5 DEF Postinst, Record, DeliverElog
  <2>6. CASE Release(j) \/ Unlock(j) \/ FinalizeLog(j) \/ CleanUp(j)
    BY <2>6 DEF Release, Unlock, FinalizeLog, CleanUp
  <2> QED BY <2>1, <2>2, <2>3, <2>4, <2>5, <2>6 DEF Step
<1>2. PerJob(phase)' /\ PerJob(env)' /\ PerJob(stored)'
  <2>1. CASE Open(j) \/ Fetch(j) \/ ReserveLog(j) \/ SelectReplacement(j)
    BY <2>1 DEF Open, Fetch, ReserveLog, SelectReplacement
  <2>2. CASE RunBuildPhase(j) \/ Package(j) \/ Extract(j)
    BY <2>2 DEF RunBuildPhase, Package, Extract
  <2>3. CASE Lock(j) \/ BeginMutation(j) \/ Preinst(j)
    BY <2>3 DEF Lock, BeginMutation, Preinst
  <2>4. CASE Merge(j) \/ OldPrerm(j) \/ OldPostrm(j) \/ Commit(j)
    BY <2>4, Zenon DEF Merge, OldPrerm, OldPostrm, Commit
  <2>5. CASE Postinst(j) \/ Record(j) \/ DeliverElog(j)
    BY <2>5 DEF Postinst, Record, DeliverElog
  <2>6. CASE Release(j) \/ Unlock(j) \/ FinalizeLog(j) \/ CleanUp(j)
    BY <2>6 DEF Release, Unlock, FinalizeLog, CleanUp
  <2> QED BY <2>1, <2>2, <2>3, <2>4, <2>5, <2>6 DEF Step
<1>3. PerJob(root)' /\ PerJob(told)' /\ PerJob(disk)'
  <2>1. CASE Open(j) \/ Fetch(j) \/ ReserveLog(j) \/ SelectReplacement(j)
    BY <2>1 DEF Open, Fetch, ReserveLog, SelectReplacement
  <2>2. CASE RunBuildPhase(j) \/ Package(j) \/ Extract(j)
    BY <2>2 DEF RunBuildPhase, Package, Extract
  <2>3. CASE Lock(j) \/ BeginMutation(j) \/ Preinst(j)
    BY <2>3 DEF Lock, BeginMutation, Preinst
  <2>4. CASE Merge(j) \/ OldPrerm(j) \/ OldPostrm(j) \/ Commit(j)
    BY <2>4, Zenon DEF Merge, OldPrerm, OldPostrm, Commit
  <2>5. CASE Postinst(j) \/ Record(j) \/ DeliverElog(j)
    BY <2>5 DEF Postinst, Record, DeliverElog
  <2>6. CASE Release(j) \/ Unlock(j) \/ FinalizeLog(j) \/ CleanUp(j)
    BY <2>6 DEF Release, Unlock, FinalizeLog, CleanUp
  <2> QED BY <2>1, <2>2, <2>3, <2>4, <2>5, <2>6 DEF Step
<1>4. commitLock' \in Job \cup {NoOne} /\ boundary' \in Job \cup {NoOne}
  <2>1. CASE Open(j) \/ Fetch(j) \/ ReserveLog(j) \/ SelectReplacement(j)
    BY <2>1 DEF Open, Fetch, ReserveLog, SelectReplacement
  <2>2. CASE RunBuildPhase(j) \/ Package(j) \/ Extract(j)
    BY <2>2 DEF RunBuildPhase, Package, Extract
  <2>3. CASE Lock(j) \/ BeginMutation(j) \/ Preinst(j)
    BY <2>3 DEF Lock, BeginMutation, Preinst
  <2>4. CASE Merge(j) \/ OldPrerm(j) \/ OldPostrm(j) \/ Commit(j)
    BY <2>4, Zenon DEF Merge, OldPrerm, OldPostrm, Commit
  <2>5. CASE Postinst(j) \/ Record(j) \/ DeliverElog(j)
    BY <2>5 DEF Postinst, Record, DeliverElog
  <2>6. CASE Release(j) \/ Unlock(j) \/ FinalizeLog(j) \/ CleanUp(j)
    BY <2>6 DEF Release, Unlock, FinalizeLog, CleanUp
  <2> QED BY <2>1, <2>2, <2>3, <2>4, <2>5, <2>6 DEF Step
<1> QED BY <1>1, <1>2, <1>3, <1>4

\* A step keeps the lock and the boundary with the jobs whose stages hold them.
LEMMA StepExclusive ==
  ASSUME JobAssumption, Typed, Exclusive, NEW j \in Job, Step(j)
  PROVE  Exclusive'
<1> SUFFICES ASSUME NEW k \in Job
             PROVE  /\ pc'[k] \in Inside \cup {"begin", "unlock"} <=> commitLock' = k
                    /\ pc'[k] \in Inside <=> boundary' = k
  BY DEF Exclusive
<1>1. NoOne \notin Job /\ PerJob(pc) /\ Binary \subseteq Job
  BY DEF JobAssumption, Typed
<1>2. /\ pc[k] \in Inside \cup {"begin", "unlock"} <=> commitLock = k
      /\ pc[k] \in Inside <=> boundary = k
      /\ pc[j] \in Inside \cup {"begin", "unlock"} <=> commitLock = j
      /\ pc[j] \in Inside <=> boundary = j
  BY DEF Exclusive
<1> USE DEF PerJob, shared, Goto, Raise, Inside
<1>3. CASE Open(j) \/ Fetch(j) \/ ReserveLog(j) \/ SelectReplacement(j)
  BY ONLY <1>1, <1>2, <1>3, j \in Job, k \in Job DEF Open, Fetch, ReserveLog, SelectReplacement
<1>4. CASE RunBuildPhase(j) \/ Package(j) \/ Extract(j)
  BY ONLY <1>1, <1>2, <1>4, j \in Job, k \in Job DEF RunBuildPhase, Package, Extract
<1>5. CASE Lock(j) \/ BeginMutation(j)
  BY ONLY <1>1, <1>2, <1>5, j \in Job, k \in Job DEF Lock, BeginMutation
<1>6. CASE Preinst(j) \/ Merge(j) \/ OldPrerm(j) \/ OldPostrm(j)
  BY ONLY <1>1, <1>2, <1>6, j \in Job, k \in Job, Zenon DEF Preinst, Merge, OldPrerm, OldPostrm
<1>7. CASE Commit(j) \/ Postinst(j) \/ Record(j) \/ DeliverElog(j)
  BY ONLY <1>1, <1>2, <1>7, j \in Job, k \in Job DEF Commit, Postinst, Record, DeliverElog
<1>8. CASE Release(j) \/ Unlock(j)
  BY ONLY <1>1, <1>2, <1>8, j \in Job, k \in Job DEF Release, Unlock
<1>9. CASE FinalizeLog(j) \/ CleanUp(j)
  BY ONLY <1>1, <1>2, <1>9, j \in Job, k \in Job DEF FinalizeLog, CleanUp
<1> QED BY <1>3, <1>4, <1>5, <1>6, <1>7, <1>8, <1>9 DEF Step

-----------------------------------------------------------------------------
(* What the job that takes a step knows about itself                       *)

\* A source job and a binary package go through the stages of their kind.
LEMMA StepRoute ==
  ASSUME Typed, NEW j \in Job, Route(j), Step(j)
  PROVE  Route(j)'
<1>1. PerJob(pc)
  BY DEF Typed
<1> USE DEF PerJob, Goto, Raise, Route, SourceOnly, Source
<1>2. CASE Open(j) \/ Fetch(j) \/ ReserveLog(j) \/ SelectReplacement(j)
  BY <1>1, <1>2 DEF Open, Fetch, ReserveLog, SelectReplacement
<1>3. CASE RunBuildPhase(j) \/ Package(j) \/ Extract(j)
  BY <1>1, <1>3 DEF RunBuildPhase, Package, Extract
<1>4. CASE Lock(j) \/ BeginMutation(j) \/ Preinst(j) \/ Merge(j)
  BY <1>1, <1>4 DEF Lock, BeginMutation, Preinst, Merge
<1>5. CASE OldPrerm(j) \/ OldPostrm(j) \/ Commit(j)
  BY <1>1, <1>5, Zenon DEF OldPrerm, OldPostrm, Commit
<1>6. CASE Postinst(j) \/ Record(j) \/ DeliverElog(j)
  BY <1>1, <1>6 DEF Postinst, Record, DeliverElog
<1>7. CASE Release(j) \/ Unlock(j) \/ FinalizeLog(j) \/ CleanUp(j)
  BY <1>1, <1>7 DEF Release, Unlock, FinalizeLog, CleanUp
<1> QED BY <1>2, <1>3, <1>4, <1>5, <1>6, <1>7 DEF Step

\* The root, the callback and the error follow the stage.
LEMMA StepOutcome ==
  ASSUME Typed, NEW j \in Job, Outcome(j), Step(j)
  PROVE  Outcome(j)'
<1>1. PerJob(pc) /\ PerJob(root) /\ PerJob(told) /\ PerJob(error)
  BY DEF Typed
<1> USE DEF PerJob, Goto, Raise, Keep, Wrap, RolledBack, job, Outcome, Before, Merging, Unwinding
<1>2. CASE Open(j) \/ Fetch(j)
  BY <1>1, <1>2 DEF Open, Fetch
<1>3. CASE ReserveLog(j) \/ SelectReplacement(j)
  BY <1>1, <1>3 DEF ReserveLog, SelectReplacement
<1>4. CASE RunBuildPhase(j) \/ Package(j) \/ Extract(j)
  BY <1>1, <1>4 DEF RunBuildPhase, Package, Extract
<1>5. CASE Lock(j) \/ BeginMutation(j) \/ Preinst(j)
  BY <1>1, <1>5 DEF Lock, BeginMutation, Preinst
<1>6. CASE Merge(j) \/ OldPrerm(j) \/ OldPostrm(j)
  BY <1>1, <1>6, Zenon DEF Merge, OldPrerm, OldPostrm
<1>7. CASE Commit(j) \/ Postinst(j)
  BY <1>1, <1>7 DEF Commit, Postinst
<1>8. CASE Record(j) \/ DeliverElog(j)
  BY <1>1, <1>8 DEF Record, DeliverElog
<1>9. CASE Release(j) \/ Unlock(j)
  BY <1>1, <1>9 DEF Release, Unlock
<1>10. CASE FinalizeLog(j) \/ CleanUp(j)
  BY <1>1, <1>10 DEF FinalizeLog, CleanUp
<1> QED BY <1>2, <1>3, <1>4, <1>5, <1>6, <1>7, <1>8, <1>9, <1>10, Zenon DEF Step

\* One more phase adds its effects, and after the last one all are there.
LEMMA PhasesAddUp ==
  ASSUME JobAssumption
  PROVE  /\ Len(Phase) \in Nat
         /\ Built(0) = {} /\ Built(Len(Phase)) = AllPhases
         /\ \A n \in Nat : Built(n + 1) = Built(n) \cup {Phase[n + 1]}
<1>1. Len(Phase) \in Nat /\ DOMAIN Phase = 1..Len(Phase)
  BY DEF JobAssumption
<1>2. Built(0) = {}
  BY DEF Built
<1>3. Built(Len(Phase)) = AllPhases
  BY <1>1 DEF Built, AllPhases
<1>4. ASSUME NEW n \in Nat PROVE Built(n + 1) = Built(n) \cup {Phase[n + 1]}
  <2>1. 1..(n + 1) = 1..n \cup {n + 1}
    OBVIOUS
  <2> QED BY <2>1 DEF Built
<1> QED BY <1>1, <1>2, <1>3, <1>4

\* A source job holds the effects of the phases it has run, and saves all of them.
LEMMA StepEnvironment ==
  ASSUME JobAssumption, Typed, NEW j \in Source, Route(j), Outcome(j), Environment(j), Step(j)
  PROVE  Environment(j)'
<1>1. /\ PerJob(pc) /\ PerJob(phase) /\ PerJob(env) /\ PerJob(stored) /\ PerJob(root)
      /\ PerJob(error)
  BY DEF Typed
<1>2. j \in Job /\ j \notin Binary
  BY DEF Source
<1> USE DEF PerJob, Goto, Raise, Keep, Wrap, RolledBack, job, Environment, Merging, Unwinding
<1>3. CASE Open(j) \/ Fetch(j) \/ ReserveLog(j)
  BY <1>1, <1>2, <1>3 DEF Open, Fetch, ReserveLog, Outcome, Before
<1>4. CASE SelectReplacement(j)
  BY <1>1, <1>2, <1>4, PhasesAddUp, Zenon DEF SelectReplacement
<1>5. CASE RunBuildPhase(j)
  <2>1. phase[j] \in Nat /\ phase[j] < Len(Phase) /\ env[j] = Built(phase[j]) /\ pc[j] = "build"
    BY <1>5, PhasesAddUp DEF RunBuildPhase
  <2>2. CASE Raise(j, "plain", "finalize") /\ UNCHANGED <<phase, env, stored, root>>
    BY <1>1, <1>2, <2>1, <2>2 DEF Outcome, Before
  <2>3. CASE /\ phase' = [phase EXCEPT ![j] = @ + 1]
             /\ env' = [env EXCEPT ![j] = @ \cup {Phase[phase[j] + 1]}]
             /\ UNCHANGED pc
    <3>1. phase'[j] = phase[j] + 1 /\ env'[j] = env[j] \cup {Phase[phase[j] + 1]}
      BY ONLY <1>1, <1>2, <2>3 DEF PerJob
    <3>2. pc'[j] = "build"
      BY <2>1, <2>3
    <3>3. env'[j] = Built(phase'[j])
      BY <2>1, <3>1, PhasesAddUp
    <3>4. phase'[j] \in 0..Len(Phase)
      BY <2>1, <3>1, PhasesAddUp
    <3> QED BY <3>2, <3>3, <3>4, Zenon
  <2> QED BY <1>5, <2>2, <2>3 DEF RunBuildPhase
<1>6. CASE Package(j)
  BY <1>1, <1>2, <1>6, PhasesAddUp DEF Package, Outcome, Before
<1>7. CASE Extract(j)
  BY <1>2, <1>7 DEF Extract, Route
<1>8. CASE Lock(j) \/ BeginMutation(j) \/ Preinst(j)
  BY <1>1, <1>2, <1>8 DEF Lock, BeginMutation, Preinst
<1>9. CASE Merge(j) \/ OldPrerm(j) \/ OldPostrm(j) \/ Commit(j)
  BY <1>1, <1>2, <1>9, Zenon DEF Merge, OldPrerm, OldPostrm, Commit
<1>10. CASE Postinst(j)
  <2>1. PICK ok \in BOOLEAN, saved \in BOOLEAN :
          /\ env' = [env EXCEPT ![j] = IF ok THEN @ \cup {"pkg_postinst"} ELSE @]
          /\ stored' = [stored EXCEPT ![j] = IF saved THEN env'[j] ELSE @]
          /\ error' = [error EXCEPT ![j] = IF ok /\ saved THEN "none" ELSE "postcommit"]
    BY <1>10, Zenon DEF Postinst
  <2>2. pc'[j] = "record" /\ phase'[j] = phase[j] /\ env[j] = AllPhases \cup {"pkg_preinst"}
    BY <1>1, <1>2, <1>10 DEF Postinst
  <2>3. error'[j] = "none" => stored'[j] = Complete
    <3>1. error'[j] = IF ok /\ saved THEN "none" ELSE "postcommit"
      BY ONLY <1>1, <1>2, <2>1 DEF PerJob
    <3>2. env'[j] = IF ok THEN env[j] \cup {"pkg_postinst"} ELSE env[j]
      BY ONLY <1>1, <1>2, <2>1 DEF PerJob
    <3>3. stored'[j] = IF saved THEN env'[j] ELSE stored[j]
      BY ONLY <1>1, <1>2, <2>1 DEF PerJob
    <3> QED BY ONLY <2>2, <3>1, <3>2, <3>3 DEF Complete
  <2> QED BY <2>2, <2>3
<1>11. CASE Record(j) \/ DeliverElog(j)
  BY <1>1, <1>2, <1>11 DEF Record, DeliverElog
<1>12. CASE Release(j) \/ Unlock(j)
  BY <1>1, <1>2, <1>12 DEF Release, Unlock
<1>13. CASE FinalizeLog(j) \/ CleanUp(j)
  BY <1>1, <1>2, <1>13 DEF FinalizeLog, CleanUp
<1> QED BY <1>3, <1>4, <1>5, <1>6, <1>7, <1>8, <1>9, <1>10, <1>11, <1>12, <1>13 DEF Step

\* The log is closed and the image removed on every way out.
LEMMA StepLeftover ==
  ASSUME Typed, NEW j \in Job, Route(j), Outcome(j), Leftover(j), Step(j)
  PROVE  Leftover(j)'
<1>1. PerJob(pc) /\ PerJob(disk) /\ PerJob(error)
  BY DEF Typed
<1> USE DEF PerJob, Goto, Raise, Keep, Wrap, Leaves, Leftover
<1>2. CASE Open(j)
  BY <1>1, <1>2 DEF Open, Source
<1>3. CASE Fetch(j) \/ ReserveLog(j) \/ SelectReplacement(j)
  BY <1>1, <1>3 DEF Fetch, ReserveLog, SelectReplacement, Route, SourceOnly
<1>4. CASE RunBuildPhase(j) \/ Package(j) \/ Extract(j)
  BY <1>1, <1>4 DEF RunBuildPhase, Package, Extract, Route, SourceOnly
<1>5. CASE Lock(j) \/ BeginMutation(j) \/ Preinst(j) \/ Merge(j)
  BY <1>1, <1>5 DEF Lock, BeginMutation, Preinst, Merge
<1>6. CASE OldPrerm(j) \/ OldPostrm(j) \/ Commit(j) \/ Postinst(j)
  BY <1>1, <1>6, Zenon DEF OldPrerm, OldPostrm, Commit, Postinst
<1>7. CASE Record(j) \/ DeliverElog(j) \/ Release(j) \/ Unlock(j)
  BY <1>1, <1>7 DEF Record, DeliverElog, Release, Unlock, job
<1>8. CASE FinalizeLog(j)
  BY <1>1, <1>8 DEF FinalizeLog
<1>9. CASE CleanUp(j)
  BY <1>1, <1>9 DEF CleanUp, KeepWork
<1> QED BY <1>2, <1>3, <1>4, <1>5, <1>6, <1>7, <1>8, <1>9 DEF Step

-----------------------------------------------------------------------------
(* The theorem                                                             *)

\* The inductive invariant: who holds the lock and the boundary, and per job the
\* stages of its kind, its outcome, its environment and what it left.
Invariant == Typed /\ Exclusive /\ Routes /\ Outcomes /\ Environments /\ Leftovers

\* Every step keeps it: the job that moves by the lemmas above, the others because
\* the step leaves them alone.
LEMMA NextInvariant ==
  ASSUME JobAssumption, Invariant, [Next]_vars
  PROVE  Invariant'
<1>1. ASSUME NEW j \in Job, Step(j) PROVE Invariant'
  <2>1. Typed' /\ Exclusive'
    BY <1>1, StepTyped, StepExclusive DEF Invariant
  <2>2. ASSUME NEW k \in Job
        PROVE  Sound(k)'
    <3>1. Typed /\ Sound(k)
      BY DEF Invariant, Routes, Outcomes, Environments, Leftovers, Sound
    <3>2. CASE k = j
      <4>1. Route(j)' /\ Outcome(j)' /\ Leftover(j)'
        BY <1>1, <3>1, <3>2, StepRoute, StepOutcome, StepLeftover DEF Sound
      <4>2. j \in Source => Environment(j)'
        BY <1>1, <3>1, <3>2, StepEnvironment DEF Sound
      <4> QED BY <3>2, <4>1, <4>2 DEF Sound
    <3>3. CASE k # j
      BY <1>1, <3>1, <3>3, OthersStay, SameKeeps
    <3> QED BY <3>2, <3>3
  <2> QED BY <2>1, <2>2 DEF Invariant, Routes, Outcomes, Environments, Leftovers, Source, Sound
<1>2. ASSUME UNCHANGED <<pc, phase, job, error, disk, commitLock, boundary>> PROVE Invariant'
  <2>1. Typed' /\ Exclusive'
    BY <1>2 DEF Invariant, Typed, Exclusive, PerJob, job
  <2>2. ASSUME NEW k \in Job PROVE Same(k)
    BY <1>2 DEF Same, job
  <2>3. ASSUME NEW k \in Job
        PROVE  Sound(k)'
    <3>1. Sound(k)
      BY DEF Invariant, Routes, Outcomes, Environments, Leftovers, Sound
    <3> QED BY <2>2, <3>1, SameKeeps
  <2> QED BY <2>1, <2>3 DEF Invariant, Routes, Outcomes, Environments, Leftovers, Source, Sound
<1>3. CASE CancelSiblings \/ Signal \/ UNCHANGED vars
  BY <1>2, <1>3 DEF CancelSiblings, Signal, vars, job
<1> QED BY <1>1, <1>3 DEF Next, Progress

\* Whatever jobs run at once, fail, are cancelled or interrupted: one at a time is
\* between BeginMutation and its release, a job that returned told the executor
\* of its commit exactly when there was one, the environment it saved holds every
\* phase, and it left no image, log or lock (RebuildPackage,
\* InstallBinaryPackage).
THEOREM JobsSound ==
  ASSUME JobAssumption
  PROVE  Spec => []JobsAreSound
<1>1. Init => Invariant
  BY InitInvariant DEF Invariant
<1>2. Invariant /\ [Next]_vars => Invariant'
  BY NextInvariant
<1>3. Invariant => JobsAreSound
  <2> SUFFICES ASSUME Invariant PROVE JobsAreSound
    OBVIOUS
  <2>1. MutatesAlone
    <3>1. ASSUME NEW j \in Job PROVE /\ pc[j] \in Inside => boundary = j
                                     /\ boundary = j => commitLock = j
      BY DEF Invariant, Exclusive
    <3>2. ASSUME NEW j \in Job, root[j] = "partial" PROVE boundary = j
      BY <3>1, <3>2 DEF Invariant, Outcomes, Outcome, Merging, Inside
    <3>3. boundary # NoOne => commitLock = boundary
      BY <3>1 DEF Invariant, Typed
    <3> QED BY <3>1, <3>2, <3>3 DEF MutatesAlone, Inside
  <2>2. CommitIsTold
    BY DEF Invariant, Outcomes, Outcome, Unwinding, CommitIsTold
  <2>3. EnvironmentComplete
    BY DEF Invariant, Environments, Environment, Unwinding, EnvironmentComplete, Complete, AllPhases
  <2>4. NothingLeft
    <3>1. ASSUME NEW j \in Job, pc[j] = "returned" PROVE commitLock # j /\ boundary # j
      BY <3>1 DEF Invariant, Exclusive, Inside
    <3>2. ASSUME NEW j \in Job, pc[j] = "returned"
          PROVE  /\ "log" \notin disk[j] /\ "image" \notin disk[j]
                 /\ "work" \in disk[j] => error[j] # "none" /\ ~FailClean
      BY <3>2 DEF Invariant, Leftovers, Leftover
    <3> QED BY <3>1, <3>2 DEF NothingLeft
  <2> QED BY <2>1, <2>2, <2>3, <2>4 DEF JobsAreSound
<1> QED BY <1>1, <1>2, <1>3, PTL DEF Spec

=============================================================================
