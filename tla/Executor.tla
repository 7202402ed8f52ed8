------------------------------ MODULE Executor ------------------------------
(***************************************************************************)
(* executor.Execute of internal/executor on the live root: the admission   *)
(* loop of executeConcurrent, one worker per admitted package, the locked  *)
(* mutation boundary every worker passes through, the blocker removals and *)
(* the resume checkpoint, together with the callers' packageMutationGuard  *)
(* and the run that resumes an interrupted one.                            *)
(*                                                                         *)
(* A package transaction is one step here (it commits or it leaves no      *)
(* trace): that is what Journal shows of Merge and Unmerge.                *)
(***************************************************************************)
EXTENDS Naturals, Sequences, FiniteSets, FiniteSetsExt

CONSTANTS
  Pkg,        \* planned install actions: their indexes in the plan
  Blocker,    \* planned blocker removals
  Requester,  \* Requester[b]: the packages that b must be removed before
  Jobs,       \* --jobs
  Reserve,    \* --jobs-tmpdir-require-free-gb, in units of free space
  Floor,      \* minimumSerialTmpdirBytes, in the same units
  Free,       \* the amounts of free space the work filesystem may have
  MaxRuns,    \* bound: how often the command is started
  Faults,     \* which steps may fail
  External,   \* what other processes may change: see Changes
  NoOne, Other

AllFaults == {"preflight", "save", "build", "lock", "prepare", "removal",
              "merge", "record", "mark", "leave", "finish", "signal", "kill"}

\* a package unrelated to the plan, one the remaining plan uses, the policy
Changes == {"unrelated", "protected", "policy"}

ASSUME PkgAssumption == Pkg \subseteq Nat /\ IsFiniteSet(Pkg) /\ Pkg # {}
ASSUME BlockerAssumption ==
  /\ IsFiniteSet(Blocker)
  /\ Requester \in [Blocker -> (SUBSET Pkg) \ {{}}]
ASSUME JobsAssumption == Jobs \in Nat \ {0}
ASSUME SpaceAssumption == Reserve \in Nat /\ Floor \in Nat /\ Free \subseteq Nat
ASSUME RunsAssumption == MaxRuns \in Nat
ASSUME FaultsAssumption == Faults \subseteq AllFaults /\ External \subseteq Changes
ASSUME HolderAssumption == NoOne \notin Pkg /\ Other \notin Pkg /\ NoOne # Other

VARIABLES
  prereq,    \* Prerequisites of every action
  \* what survives the process
  committed, \* packages whose merge committed
  removed,   \* blockers whose removal committed
  external,  \* what other processes changed since the plan was made
  saved,     \* the resume checkpoint exists
  pending,   \* its actions that are not marked complete
  world,     \* the world selection was recorded
  \* the run
  runs, pc, verdict,
  resume,    \* cfg.Resume
  plan,      \* the actions of this run
  blockers,  \* its removals
  remaining, ready, running, completed, results, cancelled,
  snapshot,  \* guard.snapshot: the state the guard has taken notice of
  prepared,  \* preparationComplete
  \* the workers
  work, commitLock, vdbLock

disk == <<committed, removed, saved, pending, world>>
loop == <<remaining, ready, running, completed>>
run == <<prereq, runs, resume, plan, blockers>>
guard == <<snapshot, prepared>>
locks == <<commitLock, vdbLock>>
vars == <<run, disk, external, pc, verdict, loop, results, cancelled, guard,
          work, locks>>

MainStage == {"idle", "check", "preflight", "save", "loop", "receive",
              "drain", "finish"}
Stage == {"idle", "load", "build", "commit", "lock", "validate", "prepare",
          "mutate", "record", "mark", "leave", "sent"}

\* captureMutationState: the policy and the installed packages
Seen == [committed |-> committed, removed |-> removed, external |-> external]

TypeOK ==
  /\ prereq \in [Pkg -> SUBSET Pkg]
  /\ committed \subseteq Pkg /\ removed \subseteq Blocker
  /\ external \subseteq Changes
  /\ saved \in BOOLEAN /\ pending \subseteq Pkg /\ world \in BOOLEAN
  /\ runs \in 0..MaxRuns /\ resume \in BOOLEAN /\ pc \in MainStage
  /\ verdict \in {"none", "ok", "failed", "cycle", "stalled"}
  /\ plan \subseteq Pkg /\ blockers \subseteq Blocker
  /\ remaining \in [Pkg -> 0..Cardinality(Pkg)] /\ ready \subseteq plan
  /\ running \in 0..Jobs /\ completed \in 0..Cardinality(Pkg)
  /\ results \in Seq(Pkg \X BOOLEAN) /\ cancelled \in BOOLEAN
  /\ snapshot \in [committed : SUBSET Pkg, removed : SUBSET Blocker,
                   external : SUBSET Changes]
  /\ prepared \in BOOLEAN
  /\ work \in [Pkg -> Stage]
  /\ commitLock \in Pkg \cup {NoOne}
  /\ vdbLock \in Pkg \cup {NoOne, Other}

Init ==
  /\ prereq \in [Pkg -> SUBSET Pkg]
  /\ committed = {} /\ removed = {} /\ external = {}
  /\ saved = FALSE /\ pending = {} /\ world = FALSE
  /\ runs = 0 /\ resume = FALSE /\ pc = "idle" /\ verdict = "none"
  /\ plan = {} /\ blockers = {}
  /\ remaining = [p \in Pkg |-> 0] /\ ready = {} /\ running = 0
  /\ completed = 0 /\ results = <<>> /\ cancelled = FALSE
  /\ snapshot = Seen /\ prepared = FALSE
  /\ work = [p \in Pkg |-> "idle"]
  /\ commitLock = NoOne /\ vdbLock = NoOne

Fault(f) == f \in Faults

-----------------------------------------------------------------------------
(* Execute up to the admission loop.                                       *)

Return(v) == pc' = "idle" /\ verdict' = v

\* mutant: a resumed run forgets the packages that failed in the last one
RunForgetsFailed ==
  /\ plan' = IF saved THEN pending \ {p \in Pkg : work[p] = "sent"} ELSE Pkg
  /\ blockers' = {b \in Blocker \ removed : Requester[b] \cap plan' # {}}

\* the plan of a run: resolution keeps what the checkpoint has pending, and
\* re-creates the removals that pending requesters still need
RunPlan ==
  /\ plan' = IF saved THEN pending ELSE Pkg
  /\ blockers' = {b \in Blocker \ removed : Requester[b] \cap plan' # {}}

Start ==
  /\ pc = "idle" /\ runs < MaxRuns /\ runs' = runs + 1
  /\ saved => pending # {}
  /\ verdict # "ok" /\ verdict # "cycle"
  /\ resume' = saved /\ RunPlan
  /\ pc' = "check" /\ verdict' = "none"
  /\ external' = {} /\ snapshot' = [Seen EXCEPT !.external = {}]
  /\ prepared' = FALSE /\ cancelled' = FALSE
  /\ remaining' = [p \in Pkg |-> 0] /\ ready' = {} /\ running' = 0
  /\ completed' = 0 /\ results' = <<>> /\ work' = [p \in Pkg |-> "idle"]
  /\ UNCHANGED <<prereq, disk, locks>>

\* --resume finds every action complete: only the bookkeeping is left
FinishEmptyResume ==
  /\ pc = "idle" /\ runs < MaxRuns /\ runs' = runs + 1
  /\ saved /\ pending = {} /\ verdict # "ok"
  /\ world' = TRUE /\ saved' = FALSE
  /\ Return("ok")
  /\ UNCHANGED <<prereq, resume, plan, blockers, committed, removed, pending,
                 external, loop, results, cancelled, guard, work, locks>>

Before(p) == prereq[p] \cap plan

\* mutant: an action that is ready makes the graph executable
SomeActionReady == \E p \in plan : Before(p) = {}

\* validateActionGraph takes an action off the graph once its prerequisites are
\* off it; what it cannot take off is a set in which every action waits for
\* another, and the graph is executable when there is none
Executable ==
  \A stuck \in SUBSET plan : stuck # {} => \E p \in stuck : Before(p) \cap stuck = {}

ValidateActionGraph ==
  /\ pc = "check"
  /\ IF Executable THEN pc' = "preflight" /\ UNCHANGED verdict
                   ELSE Return("cycle")
  /\ UNCHANGED <<run, disk, external, loop, results, cancelled, guard, work,
                 locks>>

Preflight ==
  /\ pc = "preflight"
  /\ \/ pc' = "save" /\ UNCHANGED verdict
     \/ Fault("preflight") /\ Return("failed")
  /\ UNCHANGED <<run, disk, external, loop, results, cancelled, guard, work,
                 locks>>

\* SaveResume and the setup of executeConcurrent
SaveResume ==
  /\ pc = "save"
  /\ saved' = TRUE /\ pending' = plan
  /\ remaining' = [p \in Pkg |-> IF p \in plan THEN Cardinality(Before(p)) ELSE 0]
  /\ ready' = {p \in plan : Before(p) = {}}
  /\ pc' = "loop"
  /\ UNCHANGED <<run, committed, removed, world, external, verdict, running,
                 completed, results, cancelled, guard, work, locks>>

\* the write fails, before or after the rename
SaveResumeFails ==
  /\ pc = "save" /\ Fault("save")
  /\ \/ UNCHANGED <<saved, pending>>
     \/ saved' = TRUE /\ pending' = plan
  /\ Return("failed")
  /\ UNCHANGED <<run, committed, removed, world, external, loop, results,
                 cancelled, guard, work, locks>>

-----------------------------------------------------------------------------
(* The admission loop of executeConcurrent.                                *)

\* tmpdirRequiredBytes
Required(others) == MapThenSumSet(LAMBDA d : Reserve \div d, 1..others + 1)

\* admitTmpdirJob
SpaceError(free) ==
  \/ free = 0
  \/ running = 0 /\ Required(0) > 0 /\ free < Min({Required(0), Floor})

SpaceWait(free) ==
  running > 0 /\ Required(running) > 0 /\ free < Required(running)

Launch(p) ==
  /\ ready' = ready \ {p} /\ running' = running + 1
  /\ work' = [work EXCEPT ![p] = "load"]

\* mutant: any action of the plan that has not started may be admitted
AdmitUnready(free) ==
  /\ pc = "loop" /\ ready # {} /\ running < Jobs
  /\ ~SpaceError(free) /\ ~SpaceWait(free)
  /\ \E p \in plan : work[p] = "idle" /\ Launch(p)
  /\ UNCHANGED <<run, disk, external, pc, verdict, remaining, completed,
                 results, cancelled, guard, locks>>

\* the smallest ready index is admitted, as long as there is room for it
Admit(free) ==
  /\ pc = "loop" /\ ready # {} /\ running < Jobs
  /\ ~SpaceError(free) /\ ~SpaceWait(free)
  /\ Launch(Min(ready))
  /\ UNCHANGED <<run, disk, external, pc, verdict, remaining, completed,
                 results, cancelled, guard, locks>>

AdmitFails(free) ==
  /\ pc = "loop" /\ ready # {} /\ running < Jobs
  /\ SpaceError(free)
  /\ cancelled' = TRUE /\ pc' = "drain"
  /\ UNCHANGED <<run, disk, external, verdict, loop, results, guard, work, locks>>

\* nothing more to admit now: wait for a result, if one can come
AwaitResult(free) ==
  /\ pc = "loop"
  /\ ready # {} /\ running < Jobs => ~SpaceError(free) /\ SpaceWait(free)
  /\ IF running = 0 THEN Return("stalled")
                    ELSE pc' = "receive" /\ UNCHANGED verdict
  /\ UNCHANGED <<run, disk, external, loop, results, cancelled, guard, work,
                 locks>>

Receive ==
  /\ pc = "receive" /\ results # <<>>
  /\ results' = Tail(results) /\ running' = running - 1
  /\ LET p == Head(results)[1]
         after == [q \in Pkg |-> IF q \in plan /\ p \in prereq[q]
                                   THEN remaining[q] - 1 ELSE remaining[q]]
     IN  IF Head(results)[2]
           THEN /\ remaining' = after
                /\ ready' = ready \cup {q \in plan : p \in prereq[q] /\ after[q] = 0}
                /\ completed' = completed + 1
                /\ pc' = IF completed' = Cardinality(plan) THEN "finish" ELSE "loop"
                /\ UNCHANGED cancelled
           ELSE /\ cancelled' = TRUE /\ pc' = "drain"
                /\ UNCHANGED <<remaining, ready, completed>>
  /\ UNCHANGED <<run, disk, external, verdict, guard, work, locks>>

\* mutant: the failed run returns without waiting for its workers
DrainNothing ==
  /\ pc = "drain" /\ Return("failed")
  /\ UNCHANGED <<run, disk, external, loop, results, cancelled, guard, work,
                 locks>>

\* after a failure the results of the running workers are awaited, unread
Drain ==
  /\ pc = "drain"
  /\ IF running = 0
       THEN Return("failed") /\ UNCHANGED <<running, results>>
       ELSE /\ results # <<>>
            /\ results' = Tail(results) /\ running' = running - 1
            /\ UNCHANGED <<pc, verdict>>
  /\ UNCHANGED <<run, disk, external, remaining, ready, completed, cancelled,
                 guard, work, locks>>

\* FinishTransaction: the world selection, then RemoveCompletedResume
Finish ==
  /\ pc = "finish"
  /\ IF blockers \subseteq removed
       THEN /\ world' = TRUE
            /\ saved' = (saved /\ ~(resume /\ pending = {}))
            /\ Return(IF resume /\ pending # {} THEN "failed" ELSE "ok")
       ELSE Return("failed") /\ UNCHANGED <<world, saved>>
  /\ UNCHANGED <<run, committed, removed, pending, external, loop, results,
                 cancelled, guard, work, locks>>

\* the world file, the removal of the checkpoint or the sync after it fails
FinishFails ==
  /\ pc = "finish" /\ blockers \subseteq removed /\ Fault("finish")
  /\ \/ UNCHANGED <<world, saved>>
     \/ /\ world' = TRUE /\ resume
        /\ saved' \in {saved, saved /\ pending # {}}
  /\ Return("failed")
  /\ UNCHANGED <<run, committed, removed, pending, external, loop, results,
                 cancelled, guard, work, locks>>

-----------------------------------------------------------------------------
(* One worker: the goroutine of launch and the runner it calls.            *)

main == <<run, pc, verdict, loop, cancelled>>

Go(p, stage) == work' = [work EXCEPT ![p] = stage] /\ UNCHANGED results

\* mutant: a worker that fails keeps the commit lock
SendKeepsLock(p, ok) ==
  /\ work' = [work EXCEPT ![p] = "sent"]
  /\ results' = Append(results, <<p, ok>>)
  /\ commitLock' = IF commitLock = p /\ ok THEN NoOne ELSE commitLock
  /\ vdbLock' = IF vdbLock = p THEN NoOne ELSE vdbLock

\* the worker reports its result and its deferred calls release the locks
Send(p, ok) ==
  /\ work' = [work EXCEPT ![p] = "sent"]
  /\ results' = Append(results, <<p, ok>>)
  /\ commitLock' = IF commitLock = p THEN NoOne ELSE commitLock
  /\ vdbLock' = IF vdbLock = p THEN NoOne ELSE vdbLock

WaitForLoad(p) ==
  /\ work[p] = "load"
  /\ IF cancelled THEN Send(p, FALSE) ELSE Go(p, "build") /\ UNCHANGED locks
  /\ UNCHANGED <<main, disk, external, guard>>

\* the build ends at "commit"; it may notice the cancellation, or be past it
Build(p) ==
  /\ work[p] = "build"
  /\ Go(p, "commit")
  /\ UNCHANGED <<main, disk, external, guard, locks>>

BuildFails(p) ==
  /\ work[p] = "build" /\ (Fault("build") \/ cancelled)
  /\ Send(p, FALSE)
  /\ UNCHANGED <<main, disk, external, guard>>

AcquireCommitLock(p) ==
  /\ work[p] = "commit" /\ commitLock = NoOne
  /\ commitLock' = p /\ Go(p, "lock")
  /\ UNCHANGED <<main, disk, external, guard, vdbLock>>

AcquireVDB(p) ==
  /\ work[p] = "lock" /\ vdbLock = NoOne
  /\ vdbLock' = p /\ Go(p, "validate")
  /\ UNCHANGED <<main, disk, external, guard, commitLock>>

AcquireVDBFails(p) ==
  /\ work[p] = "lock" /\ Fault("lock")
  /\ Send(p, FALSE)
  /\ UNCHANGED <<main, disk, external, guard>>

\* what the guard finds changed: the policy, or a package the remaining plan
\* uses (every planned package and blocker is one)
Drifted ==
  \/ {"policy", "protected"} \cap (external \ snapshot.external) # {}
  \/ committed # snapshot.committed \/ removed # snapshot.removed

\* mutant: only the first package of the run is validated
ValidateOnce(p) ==
  /\ work[p] = "validate"
  /\ IF Drifted /\ ~prepared
       THEN Send(p, FALSE) /\ UNCHANGED snapshot
       ELSE Go(p, "prepare") /\ snapshot' = Seen /\ UNCHANGED locks
  /\ UNCHANGED <<main, disk, external, prepared>>

\* ValidateLocked: an unrelated change is adopted, any other refuses
Validate(p) ==
  /\ work[p] = "validate"
  /\ IF Drifted
       THEN Send(p, FALSE) /\ UNCHANGED snapshot
       ELSE Go(p, "prepare") /\ snapshot' = Seen /\ UNCHANGED locks
  /\ UNCHANGED <<main, disk, external, prepared>>

\* PrepareMutation publishes the recovery set, once per run
PrepareMutation(p) ==
  /\ work[p] = "prepare"
  /\ Go(p, "mutate") /\ prepared' = TRUE
  /\ UNCHANGED <<main, disk, external, snapshot, locks>>

PrepareMutationFails(p) ==
  /\ work[p] = "prepare" /\ ~prepared /\ (Fault("prepare") \/ cancelled)
  /\ Send(p, FALSE)
  /\ UNCHANGED <<main, disk, external, guard>>

Removals(p) == {b \in blockers \ removed : p \in Requester[b]}

\* beforeMerge: a blocker goes under the requester's lock, before its merge
RemoveBlocker(p, b) ==
  /\ work[p] = "mutate" /\ b \in Removals(p) /\ ~cancelled
  /\ removed' = removed \cup {b}
  /\ snapshot' = [Seen EXCEPT !.removed = removed']
  /\ UNCHANGED <<main, committed, saved, pending, world, external, prepared,
                 work, results, locks>>

\* cancelled, refused by preflightRemoval, rolled back, or not recorded
RemoveBlockerFails(p, b) ==
  /\ work[p] = "mutate" /\ b \in Removals(p)
  /\ \/ (cancelled \/ Fault("removal")) /\ UNCHANGED removed
     \/ ~cancelled /\ Fault("record") /\ removed' = removed \cup {b}
  /\ Send(p, FALSE)
  /\ UNCHANGED <<main, committed, saved, pending, world, external, guard>>

\* pkg_preinst and the package transaction; a failing pkg_postinst leaves the
\* package committed and is only reported
Merge(p) ==
  /\ work[p] = "mutate" /\ Removals(p) = {}
  /\ committed' = committed \cup {p} /\ Go(p, "record")
  /\ UNCHANGED <<main, removed, saved, pending, world, external, guard, locks>>

MergeFails(p) ==
  /\ work[p] = "mutate" /\ Removals(p) = {} /\ (Fault("merge") \/ cancelled)
  /\ Send(p, FALSE)
  /\ UNCHANGED <<main, disk, external, guard>>

\* mutant: the guard is not told of the commit
RecordNothing(p) ==
  /\ work[p] = "record" /\ Go(p, "mark")
  /\ UNCHANGED <<main, disk, external, guard, locks>>

\* RecordLockedMutation
Record(p) ==
  /\ work[p] = "record"
  /\ snapshot' = Seen /\ Go(p, "mark")
  /\ UNCHANGED <<main, disk, external, prepared, locks>>

RecordFails(p) ==
  /\ work[p] = "record" /\ Fault("record")
  /\ Send(p, FALSE)
  /\ UNCHANGED <<main, disk, external, guard>>

\* MarkResumeComplete, then OnActionComplete
MarkResumeComplete(p) ==
  /\ work[p] = "mark"
  /\ pending' = pending \ {p} /\ Go(p, "leave")
  /\ UNCHANGED <<main, committed, removed, saved, world, external, guard, locks>>

MarkResumeFails(p) ==
  /\ work[p] = "mark" /\ Fault("mark")
  /\ pending' \in {pending, pending \ {p}}
  /\ Send(p, FALSE)
  /\ UNCHANGED <<main, committed, removed, saved, world, external, guard>>

\* the runner returns; delivering the elog or unlocking may still fail
LeaveMutation(p) ==
  /\ work[p] = "leave"
  /\ \/ Send(p, TRUE)
     \/ Fault("leave") /\ Send(p, FALSE)
  /\ UNCHANGED <<main, disk, external, guard>>

-----------------------------------------------------------------------------
(* The environment.                                                        *)

\* SIGINT cancels the context of the command
Signal ==
  /\ Fault("signal") /\ pc # "idle" /\ cancelled' = TRUE
  /\ UNCHANGED <<run, disk, external, pc, verdict, loop, results, guard, work,
                 locks>>

\* the process dies, and the kernel releases its lock
Kill ==
  /\ Fault("kill") /\ pc # "idle" /\ Return("failed")
  /\ work' = [p \in Pkg |-> "idle"] /\ results' = <<>> /\ running' = 0
  /\ commitLock' = NoOne
  /\ vdbLock' = IF vdbLock \in Pkg THEN NoOne ELSE vdbLock
  /\ UNCHANGED <<run, disk, external, remaining, ready, completed, cancelled,
                 guard>>

inside == <<main, disk, guard, work, results, commitLock>>

\* another package manager takes Portage's VDB lock
OtherLocks ==
  /\ External # {} /\ vdbLock = NoOne /\ vdbLock' = Other
  /\ UNCHANGED <<inside, external>>

OtherUnlocks ==
  /\ vdbLock = Other /\ vdbLock' = NoOne
  /\ \/ UNCHANGED external
     \/ \E c \in External \ {"policy"} : external' = external \cup {c}
  /\ UNCHANGED inside

\* /etc/portage and the repositories are under no lock
PolicyChanges ==
  /\ "policy" \in External /\ external' = external \cup {"policy"}
  /\ UNCHANGED <<inside, vdbLock>>

-----------------------------------------------------------------------------
Main ==
  \/ ValidateActionGraph \/ Preflight \/ SaveResume \/ SaveResumeFails
  \/ \E free \in Free : Admit(free) \/ AdmitFails(free) \/ AwaitResult(free)
  \/ Receive \/ Drain \/ Finish \/ FinishFails

\* a worker before it waits for the VDB lock, and after
Prepares(p) ==
  WaitForLoad(p) \/ Build(p) \/ BuildFails(p) \/ AcquireCommitLock(p)

Mutates(p) ==
  \/ Validate(p) \/ PrepareMutation(p) \/ PrepareMutationFails(p)
  \/ \E b \in Blocker : RemoveBlocker(p, b) \/ RemoveBlockerFails(p, b)
  \/ Merge(p) \/ MergeFails(p) \/ Record(p) \/ RecordFails(p)
  \/ MarkResumeComplete(p) \/ MarkResumeFails(p) \/ LeaveMutation(p)

Environment ==
  \/ Start \/ FinishEmptyResume
  \/ Signal \/ Kill \/ OtherLocks \/ OtherUnlocks \/ PolicyChanges

Next ==
  \/ Main
  \/ \E p \in Pkg : \/ Prepares(p) \/ AcquireVDB(p) \/ AcquireVDBFails(p)
                    \/ Mutates(p)
  \/ Environment

Spec == Init /\ [][Next]_vars

\* Goroutines are scheduled, builds end, another package manager lets go of
\* the VDB lock, and the kernel serves the waiters of the lock in turn.
Fairness ==
  /\ WF_vars(Main) /\ WF_vars(OtherUnlocks)
  /\ \A p \in Pkg :
       WF_vars(Prepares(p)) /\ WF_vars(Mutates(p)) /\ SF_vars(AcquireVDB(p))

FairSpec == Spec /\ Fairness

-----------------------------------------------------------------------------
(* Properties.                                                             *)

\* A package is committed only after every planned prerequisite of it and after
\* the blockers it asked to be removed first are gone, whichever requester
\* removed them, over all the runs that the resume checkpoint strings together.
PrerequisitesCommitted ==
  \A p \in committed :
    /\ prereq[p] \subseteq committed
    /\ \A b \in Blocker : p \in Requester[b] => b \in removed

\* The checkpoint never loses a package: whatever it does not hold as pending
\* has committed, also after a resumed run has rewritten it.
CheckpointKeepsUncommitted ==
  saved => Pkg \ pending \subseteq committed

\* The answer of a command is true: success means that every package is
\* committed, every blocker removed and the world selection recorded, and the
\* admission loop never finds itself with nothing running and nothing to admit,
\* which the graph check and the admission rule are to exclude.
VerdictIsTrue ==
  /\ verdict = "ok" => committed = Pkg /\ removed = Blocker /\ world
  /\ verdict # "stalled"

\* When Execute returns, every worker it started has reported and holds no
\* lock: no package mutates the root after the command gave its answer.
QuietAfterReturn ==
  pc = "idle" => /\ \A p \in Pkg : work[p] \in {"idle", "sent"}
                 /\ commitLock = NoOne /\ vdbLock \notin Pkg

\* Nothing is merged or removed once another process has changed an installed
\* package that the remaining plan relies on, nor before the recovery set is
\* published (BeginMutation: ValidateLocked, PrepareMutation).
BoundaryIsGuarded ==
  [][committed' # committed \/ removed' # removed
       => prepared /\ "protected" \notin external]_vars

\* The guard never refuses the run its own commits: a refusal means that the
\* policy or a package of the plan was changed by someone else.
RefusalHasOutsideCause ==
  [][\A p \in Pkg : work[p] = "validate" /\ work'[p] = "sent"
       => {"policy", "protected"} \cap external # {}]_vars

\* A package is not merged under a policy that differs from the one its plan
\* was made for, as far as the change precedes the package's validation.
PolicyOfPlan ==
  [][\A p \in Pkg : work[p] = "validate" /\ work'[p] = "prepare"
       => "policy" \notin external]_vars

\* Execute returns, whatever fails and whoever else takes the VDB lock.
Returns == pc # "idle" ~> pc = "idle"
=============================================================================
