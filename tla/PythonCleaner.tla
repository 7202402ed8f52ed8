--------------------------- MODULE PythonCleaner ---------------------------
(***************************************************************************)
(* arise python-cleaner --fix / --resume: the staged repair of the         *)
(* packages built for a Python that the policy (PYTHON_TARGETS) no longer  *)
(* names.  Repair cohorts are rebuilt one after the other, each through    *)
(* the resolver and executor; unavailable orphans are removed; the rebuilt *)
(* native modules are imported; and only then python-exec's preference is  *)
(* switched.  A companion file beside the executor's resume file records   *)
(* the stage, so that an interrupted repair can be resumed.                *)
(*                                                                         *)
(* The policy is abstracted to the one interpreter it names, a package's   *)
(* evidence (targets, owned paths, libpython, shebangs) to the interpreter *)
(* it was built for.  Target 0 is the policy's interpreter itself.         *)
(***************************************************************************)
EXTENDS Integers, Sequences, FiniteSets, SequencesExt

CONSTANTS Pkg,        \* consumers of Python, numbered in name order from 1
          Dep,        \* pairs <<p, q>>: p depends on q
          Stubborn,   \* consumers whose rebuild leaves the old evidence
          Broken,     \* consumers whose rebuilt native module does not import
          NoEbuild,   \* consumers with no ebuild left in any repository
          Orphan,     \* consumers depclean classifies as orphaned
          Policies,   \* the interpreters the policy may name
          Installed,  \* what each package may be built for, before a repair
          MaxKill, MaxEdit, MaxRun,   \* bounds on the environment
          Nothing     \* no file

VARIABLES built,      \* package |-> the interpreter it was built for, or "gone"
          interp,     \* installed interpreters of Policies
          policy,     \* the interpreter the configuration names
          pref,       \* the head of python-exec's preference
          companion,  \* the resume companion, or Nothing
          progress,   \* the executor's resume file: targets left, or Nothing
          run,        \* the running command
          kills, edits, runs,
          rebuilt,    \* history: packages rebuilt since the repair began
          lapse       \* history: what the environment did to this repair

vars == <<built, interp, policy, pref, companion, progress, run, kills, edits, runs, rebuilt, lapse>>

-----------------------------------------------------------------------------
(* Inventory and plan.                                                     *)

Stale(for) == {p \in Pkg : built[p] \notin {for, "gone"}}

(* The consumers connected to the first one by dependencies between them.  *)
(* Only the first cohort of a plan is ever applied: the plan is made anew  *)
(* after it.                                                               *)
dependencyCohort(consumers) ==
    LET joined == {e \in consumers \X consumers : e \in Dep \/ <<e[2], e[1]>> \in Dep}
        grow[n \in 0..Cardinality(consumers)] ==
            IF n = 0 THEN {CHOOSE p \in consumers : \A q \in consumers : p <= q}
            ELSE grow[n - 1] \cup {e[2] : e \in {d \in joined : d[1] \in grow[n - 1]}}
    IN  IF consumers = {} THEN {} ELSE grow[Cardinality(consumers)]

Check == [missing |-> policy \notin interp, consumers |-> Stale(policy)]

BuildPlanWithTargets ==
    [policy |-> policy,
     cohort |-> IF Check.missing THEN {0} ELSE dependencyCohort(Check.consumers \ NoEbuild),
     unavailable |-> Check.consumers \cap NoEbuild]

-----------------------------------------------------------------------------
(* The command.                                                            *)

Idle == [pc |-> "idle", plan |-> Nothing, current |-> {}, completed |-> <<>>,
         again |-> FALSE, iteration |-> 0]

Init ==
    /\ built \in {f \in [Pkg -> Policies \cup {"old", "gone"}] : \A p \in Pkg : f[p] \in Installed[p]}
    /\ policy \in Policies
    /\ interp \in SUBSET Policies
    /\ pref = "old"
    /\ companion = Nothing /\ progress = Nothing
    /\ run = Idle
    /\ kills = 0 /\ edits = 0 /\ runs = 0
    /\ rebuilt = {} /\ lapse = {}

Save(stage, plan, current, completed) ==
    companion' = [stage |-> stage, policy |-> plan.policy, current |-> current, completed |-> completed]

Fail == run' = Idle

Starts(plan, current, completed, again) ==
    run' = [Idle EXCEPT !.pc = "loop", !.plan = plan, !.current = current,
                        !.completed = completed, !.again = again]

Fix ==
    /\ run.pc = "idle" /\ runs < MaxRun
    /\ Starts(BuildPlanWithTargets, BuildPlanWithTargets.cohort, <<>>, FALSE)
    /\ runs' = runs + 1
    /\ rebuilt' = {} /\ lapse' = {}
    /\ UNCHANGED <<built, interp, policy, pref, companion, progress, kills, edits>>

(* The executor's resume file is used in the cohort stage; in any other    *)
(* stage it must record a completed plan, and is removed.                  *)
Resume ==
    /\ run.pc = "idle" /\ runs < MaxRun /\ companion # Nothing
    /\ runs' = runs + 1
    /\ LET plan == BuildPlanWithTargets
           inCohort == companion.stage = "repair-cohort"
       IN  IF companion.policy # plan.policy \/ (progress \notin {Nothing, {}} /\ ~inCohort)
           THEN Fail /\ UNCHANGED progress
           ELSE IF progress # Nothing /\ inCohort
           THEN Starts(plan, companion.current, companion.completed, TRUE) /\ UNCHANGED progress
           ELSE Starts(plan, plan.cohort, companion.completed, FALSE) /\ progress' = Nothing
    /\ UNCHANGED <<built, interp, policy, pref, companion, kills, edits, rebuilt, lapse>>

(* Head of the repair loop, or the validation checkpoint after it.         *)
Checkpoint ==
    /\ run.pc = "loop"
    /\ IF run.current # {}
       THEN /\ Save("repair-cohort", run.plan, run.current, run.completed)
            /\ run' = [run EXCEPT !.pc = "plan"]
       ELSE /\ Save("validate-runtime", run.plan, {}, run.completed)
            /\ run' = [run EXCEPT !.pc = "unavailable"]
    /\ UNCHANGED <<built, interp, policy, pref, progress, kills, edits, runs, rebuilt, lapse>>

(* runResolve: the executor saves its own progress and builds the targets  *)
(* one by one, for the policy the configuration names at that time.        *)
ResolveStarts ==
    /\ run.pc = "plan"
    /\ progress' = IF run.again THEN progress ELSE run.current
    /\ run' = [run EXCEPT !.pc = "resolve"]
    /\ UNCHANGED <<built, interp, policy, pref, companion, kills, edits, runs, rebuilt, lapse>>

Rebuild(p) ==
    /\ run.pc = "resolve" /\ p \in progress
    /\ progress' = progress \ {p}
    /\ interp' = IF p = 0 THEN interp \cup {policy} ELSE interp
    /\ built' = IF p = 0 \/ p \in Stubborn THEN built ELSE [built EXCEPT ![p] = policy]
    /\ rebuilt' = rebuilt \cup ({p} \ {0})
    /\ UNCHANGED <<policy, pref, companion, run, kills, edits, runs, lapse>>

(* A failed build ends the process and keeps the resume file; after the    *)
(* last package the file is removed.                                       *)
ResolveFails ==
    /\ run.pc = "plan" \/ (run.pc = "resolve" /\ progress # {})
    /\ Fail
    /\ UNCHANGED <<built, interp, policy, pref, companion, progress, kills, edits, runs, rebuilt, lapse>>

ResolveReturns ==
    /\ run.pc = "resolve" /\ progress = {}
    /\ progress' = Nothing
    /\ run' = [run EXCEPT !.pc = "inventory", !.again = FALSE, !.completed = Append(@, run.current)]
    /\ UNCHANGED <<built, interp, policy, pref, companion, kills, edits, runs, rebuilt, lapse>>

Inventory ==
    /\ run.pc = "inventory"
    /\ LET plan == BuildPlanWithTargets
       IN  IF plan.policy # run.plan.policy THEN Fail /\ UNCHANGED companion
           ELSE IF plan.cohort # {} /\ plan.cohort = run.current
           THEN Save("repair-cohort", plan, plan.cohort, run.completed) /\ Fail
           ELSE /\ run' = [run EXCEPT !.pc = "loop", !.plan = plan, !.current = plan.cohort,
                                      !.iteration = @ + 1]
                /\ UNCHANGED companion
    /\ UNCHANGED <<built, interp, policy, pref, progress, kills, edits, runs, rebuilt, lapse>>

(* Consumers without an ebuild are removed when all of them are orphans.   *)
SelectUnavailableRemovals ==
    /\ run.pc = "unavailable"
    /\ IF run.plan.unavailable = {}
       THEN run' = [run EXCEPT !.pc = "probe"] /\ UNCHANGED companion
       ELSE IF ~(run.plan.unavailable \subseteq Orphan)
       THEN Fail /\ UNCHANGED companion
       ELSE /\ Save("remove-unavailable", run.plan, run.plan.unavailable, run.completed)
            /\ run' = [run EXCEPT !.pc = "uninstall"]
    /\ UNCHANGED <<built, interp, policy, pref, progress, kills, edits, runs, rebuilt, lapse>>

Uninstall ==
    /\ run.pc = "uninstall"
    /\ \E removed \in SUBSET run.plan.unavailable :
         /\ built' = [p \in Pkg |-> IF p \in removed THEN "gone" ELSE built[p]]
         /\ IF removed = run.plan.unavailable THEN run' = [run EXCEPT !.pc = "reload"] ELSE Fail
    /\ UNCHANGED <<interp, policy, pref, companion, progress, kills, edits, runs, rebuilt, lapse>>

Reload ==
    /\ run.pc = "reload"
    /\ LET plan == BuildPlanWithTargets
       IN  IF plan.unavailable # {} THEN Fail
           ELSE run' = [run EXCEPT !.pc = "probe", !.plan = plan]
    /\ UNCHANGED <<built, interp, policy, pref, companion, progress, kills, edits, runs, rebuilt, lapse>>

(* The policy's interpreter must run, and the native modules of every      *)
(* package of a completed cohort must import.                              *)
ProbesFail ==
    \/ run.plan.policy \notin interp
    \/ {p \in UNION Range(run.completed) \ {0} : built[p] = run.plan.policy} \cap Broken # {}

RunRuntimeProbes ==
    /\ run.pc = "probe"
    /\ IF ProbesFail THEN Fail /\ UNCHANGED companion
       ELSE /\ Save("switch-preference", run.plan, {}, run.completed)
            /\ run' = [run EXCEPT !.pc = "publish"]
    /\ UNCHANGED <<built, interp, policy, pref, progress, kills, edits, runs, rebuilt, lapse>>

PublishPreference ==
    /\ run.pc = "publish"
    /\ pref' = run.plan.policy
    /\ run' = [run EXCEPT !.pc = "final"]
    /\ UNCHANGED <<built, interp, policy, companion, progress, kills, edits, runs, rebuilt, lapse>>

Final ==
    /\ run.pc = "final"
    /\ IF \/ BuildPlanWithTargets.policy # run.plan.policy
          \/ BuildPlanWithTargets.cohort # {}
          \/ BuildPlanWithTargets.unavailable # {}
       THEN Fail /\ UNCHANGED companion
       ELSE companion' = Nothing /\ run' = [Idle EXCEPT !.pc = "done", !.plan = run.plan]
    /\ UNCHANGED <<built, interp, policy, pref, progress, kills, edits, runs, rebuilt, lapse>>

-----------------------------------------------------------------------------
(* The environment: a kill at any point, and an edit of the policy.  The   *)
(* history records a kill between a cohort's last build and the companion  *)
(* that counts it, and an edit under a running repair.                     *)

Kill ==
    /\ run.pc \notin {"idle", "done"} /\ kills < MaxKill
    /\ kills' = kills + 1
    /\ lapse' = IF \/ run.pc = "inventory"
                   \/ run.pc = "loop" /\ run.iteration > 0
                THEN lapse \cup {"uncounted"} ELSE lapse
    /\ Fail
    /\ UNCHANGED <<built, interp, policy, pref, companion, progress, edits, runs, rebuilt>>

Edit ==
    /\ run.pc # "done" /\ edits < MaxEdit
    /\ edits' = edits + 1
    /\ \E t \in Policies \ {policy} : policy' = t
    /\ lapse' = IF run.pc = "idle" THEN lapse ELSE lapse \cup {"edited"}
    /\ UNCHANGED <<built, interp, pref, companion, progress, run, kills, runs, rebuilt>>

Command ==
    \/ Fix \/ Resume \/ Checkpoint \/ ResolveStarts \/ ResolveFails \/ ResolveReturns \/ Inventory
    \/ \E p \in Pkg \cup {0} : Rebuild(p)
    \/ SelectUnavailableRemovals \/ Uninstall \/ Reload \/ RunRuntimeProbes
    \/ PublishPreference \/ Final

Next == Command \/ Kill \/ Edit
Spec == Init /\ [][Next]_vars

-----------------------------------------------------------------------------
(* The command reports success only when no consumer is left for another   *)
(* interpreter than the one the preference now names: the final inventory  *)
(* closes the window in which the policy changes under a running repair.   *)
SuccessMeansRepaired ==
    run.pc = "done" => Stale(pref) = {} /\ pref = run.plan.policy /\ pref \in interp

(* The preference is switched only to an interpreter that is installed     *)
(* and, when the policy was not edited under the run, for which every      *)
(* consumer is already repaired.                                           *)
PreferenceFollowsRepair ==
    pref' # pref => pref' \in interp /\ ("edited" \in lapse \/ Stale(pref') = {})

(* Everything the repair rebuilt has been imported before the preference   *)
(* is switched, across interruptions and resumes, unless a kill fell       *)
(* between a cohort's last build and the companion that counts it.         *)
RebuiltIsProbed ==
    pref' # pref => lapse # {} \/ {p \in rebuilt : built[p] = pref'} \cap Broken = {}

(* Every round of the repair loop shrinks the work: the loop never runs    *)
(* more often than there are consumers, the interpreter and one resumed    *)
(* cohort, far below the cap of 256 rounds.                                *)
RepairIsBounded == run.iteration <= Cardinality(Pkg) + 2
=============================================================================
