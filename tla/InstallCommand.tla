--------------------------- MODULE InstallCommand ---------------------------
(***************************************************************************)
(* The commands install, update and uninstall, from the arguments to the   *)
(* exit code: what they read and when, what they print or save, where they *)
(* stop, and what they write (cmd/arise/install.go, uninstall.go,          *)
(* plan_authorization.go, plan_validation.go).                             *)
(*                                                                         *)
(* One command runs at a time, beside other package managers that change   *)
(* installed packages under the VDB lock and an administrator who edits    *)
(* the configuration.  The resolver (modules Planner and Resolver) is      *)
(* reduced to what the command sees of it: the packages to install, the    *)
(* conflicts, an error.  A package needs others (Needs, transitively) and  *)
(* may block others (Blocks); a masked package cannot be chosen.  Merging  *)
(* and removing one package are single steps here (modules PackageJob and  *)
(* Journal open them up), and so is each read of the VDB.                  *)
(***************************************************************************)
EXTENDS Naturals, Sequences, SequencesExt

CONSTANTS
    Pkg,          \* packages
    Needs,        \* package -> the packages it needs, directly or not
    Blocks,       \* {<<p, q>>}: p cannot be installed beside q
    Before,       \* what is installed at first
    Masked,       \* what the configuration masks at first
    Requests,     \* the sets of targets of install and update
    Removals,     \* the sequences of targets of uninstall
    Flags,        \* the sets of options commands are given
    MaxRun,       \* commands run
    MaxFault,     \* changes by other managers, edits of the configuration and kills, together
    None

VARIABLES
    present,      \* the installed packages
    config,       \* the packages the configuration masks
    selected,     \* the world file
    resumeFile,   \* None, or [remaining, select]
    savedPlan,    \* None, or the document saved under the one plan name
    recovery,     \* the recovery sets published: a set of [pkgs, status]
    command,      \* the command that runs, or ran last
    count,        \* how often each bounded thing has happened
    touched,      \* what this command has written so far
    drift         \* another manager acted between this command's reads

cvars == <<present, config, selected, resumeFile, savedPlan, recovery, command,
           count, touched, drift>>

-----------------------------------------------------------------------------
(* What the resolver tells the command.                                    *)

\* The packages a target brings in; an installed target is installed again
\* unless the command is update.
Brings(t, f, installed) ==
    ((IF "update" \in f THEN {} ELSE {t}) \cup (({t} \cup Needs[t]) \ installed))

Blocked(plan, installed) ==
    {p \in plan : \E q \in installed : <<p, q>> \in Blocks}

\* ResolveContext as the command sees it.  A masked package ends the search
\* with an error, or with a conflict under --keep-going, which goes on with
\* the other targets; a blocker is found by the verification of the plan.
Resolve(targets, f, installed, masked) ==
    LET good    == {t \in targets : Brings(t, f, installed) \cap masked = {}}
        plan    == UNION {Brings(t, f, installed) : t \in good}
        blocked == Blocked(plan, installed)
    IN  [err       |-> good # targets /\ "keepgoing" \notin f,
         conflicts |-> (targets \ good) \cup blocked,
         install   |-> plan,
         verified  |-> good = targets /\ blocked = {}]

NoResult == [err |-> FALSE, conflicts |-> {}, install |-> {}, verified |-> FALSE]

\* ValidatePlanImpact on the packages still to be installed (module PlanValidate).
validate(plan, installed, masked) ==
    /\ \A p \in plan : Needs[p] \subseteq installed \cup plan
    /\ Blocked(plan, installed) = {}
    /\ plan \cap masked = {}

\* captureMutationState: packages, selections and policy.
captureMutationState == [present |-> present, selected |-> selected, config |-> config]

\* installWorldSelections.
installWorldSelections(targets, f) ==
    IF f \cap {"oneshot", "buildonly", "resume"} # {} THEN {} ELSE targets

\* canonicalPlanSHA256 binds the operation, the options that shape the plan,
\* the selections, the actions and the state: two plans have one digest
\* exactly when these agree.
canonicalPlanSHA256(c) ==
    [kind |-> c.kind, targets |-> c.targets, options |-> c.flags \cap {"update", "oneshot", "resume"},
     selections |-> c.selections, install |-> c.result.install, state |-> c.state]

\* writePlanJSON: a complete document carries its digest.
PlanDocument(c) ==
    LET complete == /\ ~c.result.err /\ c.result.verified /\ c.result.conflicts = {}
                    /\ validate(c.result.install, c.graph, c.policy)
    IN  [complete |-> complete,
         digest   |-> IF complete /\ c.state # None THEN canonicalPlanSHA256(c) ELSE None]

\* approvedPlanDigest and validatePlanAuthorization, on the saved plan.
Authorized(c) ==
    /\ savedPlan # None
    /\ savedPlan.complete
    /\ savedPlan.digest # None
    /\ savedPlan.digest = canonicalPlanSHA256(c)

\* recoveryPackagesForActions: the installed packages the plan replaces.
recoveryPackagesForActions(plan, installed) == plan \cap installed

-----------------------------------------------------------------------------
Idle == [stage |-> "idle", kind |-> "install", flags |-> {}, targets |-> {}, order |-> <<>>,
         selections |-> {}, resumed |-> None, policy |-> {}, graph |-> {}, result |-> NoResult,
         state |-> None, basis |-> None, snapshot |-> None, checked |-> FALSE, declined |-> FALSE,
         pending |-> {}, merged |-> {}, replaced |-> {}, exit |-> 0]

Init ==
    /\ present = Before
    /\ config = Masked
    /\ selected = {}
    /\ resumeFile = None
    /\ savedPlan = None
    /\ recovery = {}
    /\ command = Idle
    /\ count = [run |-> 0, fault |-> 0]
    /\ touched = {}
    /\ drift = FALSE

At(stage) == command.stage = stage

Has(option) == option \in command.flags

Go(stage) == command' = [command EXCEPT !.stage = stage]

Exit(code) == command' = [command EXCEPT !.stage = "done", !.exit = code]

Decline == command' = [command EXCEPT !.stage = "done", !.exit = 0, !.declined = TRUE]

Writes(what) == touched' = touched \cup what

ReadOnly(f) == f \cap {"pretend", "preflight"} # {}

\* The answer to "Proceed with this plan?", asked only with --ask.
confirmInstall == IF Has("ask") THEN BOOLEAN ELSE {TRUE}

-----------------------------------------------------------------------------
(* install and update: runResolve.                                         *)

\* The configuration is loaded first, then the resume request.
StartInstall(targets, f) ==
    /\ At("idle") \/ At("done")
    /\ count.run < MaxRun
    /\ LET resuming == "resume" \in f
           c == [Idle EXCEPT !.flags = f, !.policy = config, !.resumed = resumeFile]
       IN  command' =
             IF resuming /\ resumeFile = None THEN [c EXCEPT !.stage = "done", !.exit = 1]
             ELSE IF resuming /\ resumeFile.remaining = {} THEN [c EXCEPT !.stage = "emptyresume"]
             ELSE [c EXCEPT !.stage = "graph",
                            !.targets = IF resuming THEN resumeFile.remaining ELSE targets]
    /\ count' = [count EXCEPT !.run = @ + 1]
    /\ touched' = {}
    /\ drift' = FALSE
    /\ UNCHANGED <<present, config, selected, resumeFile, savedPlan, recovery>>

\* finishEmptyResume: the checkpoint has no package left.
finishEmptyResume ==
    /\ At("emptyresume")
    /\ UNCHANGED <<present, config, savedPlan, recovery, count, drift>>
    /\ IF Has("approve") THEN Exit(1) /\ UNCHANGED <<selected, resumeFile, touched>>
       ELSE IF ReadOnly(command.flags) THEN Exit(0) /\ UNCHANGED <<selected, resumeFile, touched>>
       ELSE \E yes \in confirmInstall :
              IF ~yes THEN Decline /\ UNCHANGED <<selected, resumeFile, touched>>
              ELSE /\ selected' = selected \cup
                        (IF command.flags \cap {"oneshot", "buildonly"} = {} THEN resumeFile.select ELSE {})
                   /\ resumeFile' = None
                   /\ Writes({"world", "resume"})
                   /\ Exit(0)

\* BuildFromState and ResolveContext, then the selections the run will make.
ResolveContext ==
    /\ At("graph")
    /\ LET r == Resolve(command.targets, command.flags, present, command.policy)
       IN  command' = [command EXCEPT !.stage = "fingerprint", !.graph = present, !.result = r,
                         !.selections =
                            IF Has("resume") /\ command.flags \cap {"oneshot", "buildonly"} = {}
                            THEN command.resumed.select
                            ELSE installWorldSelections(command.targets, command.flags)]
    /\ UNCHANGED <<present, config, selected, resumeFile, savedPlan, recovery, count, touched, drift>>

\* The state the plan is bound to is read after the graph the plan was made from.
Fingerprint ==
    /\ At("fingerprint")
    /\ LET needed == /\ command.result.verified
                     /\ Has("save") \/ Has("approve") \/ ~ReadOnly(command.flags)
           s == IF needed THEN captureMutationState ELSE None
       IN  command' = [command EXCEPT !.stage = "emit", !.state = s, !.snapshot = s]
    /\ UNCHANGED <<present, config, selected, resumeFile, savedPlan, recovery, count, touched, drift>>

\* savePlanDocument: a hard link, so an existing plan is never replaced.
savePlanDocument(document) == savedPlan = None /\ savedPlan' = document

\* The audited plan is written before anything is decided about it.
Emit ==
    /\ At("emit")
    /\ UNCHANGED <<present, config, selected, resumeFile, recovery, count, touched, drift>>
    /\ \/ ~Has("save") /\ Go("report") /\ UNCHANGED savedPlan
       \/ Has("save") /\ savePlanDocument(PlanDocument(command)) /\ Go("report")
       \/ Has("save") /\ savedPlan # None /\ Exit(1) /\ UNCHANGED savedPlan

\* AutoUnmask, AutoAcceptLicense and AutoUseChanges.
AutoUnmask(conflicts) ==
    IF Has("autounmask") /\ conflicts \cap config # {}
    THEN config' = config \ conflicts /\ Writes({"config"})
    ELSE UNCHANGED <<config, touched>>

\* planExecutionVerificationError.
planExecutionVerificationError(r) == ~r.verified

\* A failed search ends the command, and so does an audit that rejects the plan;
\* otherwise the plan is printed.
Report ==
    /\ At("report")
    /\ UNCHANGED <<present, selected, resumeFile, savedPlan, recovery, count, drift>>
    /\ LET r == command.result
       IN  IF r.err THEN AutoUnmask(r.conflicts) /\ Exit(1)
           ELSE /\ UNCHANGED <<config, touched>>
                /\ IF r.verified /\ ~validate(r.install, command.graph, command.policy)
                   THEN Exit(1) ELSE Go("decide")

\* The exits between the printed plan and the confirmation.
Decide ==
    /\ At("decide")
    /\ UNCHANGED <<present, selected, resumeFile, savedPlan, recovery, count, drift>>
    /\ LET r == command.result
       IN  IF r.conflicts # {} /\ ~Has("keepgoing") THEN AutoUnmask(r.conflicts) /\ Exit(1)
           ELSE /\ UNCHANGED <<config, touched>>
                /\ IF ~r.verified /\ Has("pretend") THEN Exit(1)
                   ELSE IF r.install = {} THEN Go("noop")
                   ELSE IF Has("preflight")
                        THEN IF ~planExecutionVerificationError(r) /\ (Has("approve") => Authorized(command))
                             THEN \E code \in {0, 1} : Exit(code) ELSE Exit(1)
                   ELSE IF Has("pretend") THEN Exit(0)
                   ELSE IF planExecutionVerificationError(r) THEN Exit(1)
                   ELSE Go("confirm")

\* Nothing to install: the selections are recorded and a resumed checkpoint retired.
NothingToDo ==
    /\ At("noop")
    /\ UNCHANGED <<present, config, savedPlan, recovery, count, drift>>
    /\ IF ReadOnly(command.flags) THEN Exit(0) /\ UNCHANGED <<selected, resumeFile, touched>>
       ELSE \E yes \in confirmInstall :
              IF ~yes THEN Decline /\ UNCHANGED <<selected, resumeFile, touched>>
              ELSE IF Has("approve") /\ ~(command.state = captureMutationState /\ Authorized(command))
              THEN Exit(1) /\ UNCHANGED <<selected, resumeFile, touched>>
              ELSE /\ selected' = selected \cup command.selections
                   /\ resumeFile' = IF Has("resume") THEN None ELSE resumeFile
                   /\ Writes((IF command.selections = {} THEN {} ELSE {"world"}) \cup
                             (IF Has("resume") THEN {"resume"} ELSE {}))
                   /\ Exit(0)

Confirm ==
    /\ At("confirm")
    /\ \E yes \in confirmInstall : IF yes THEN Go("authorize") ELSE Decline
    /\ UNCHANGED <<present, config, selected, resumeFile, savedPlan, recovery, count, touched, drift>>

\* authorizeInstallExecution takes a fresh fingerprint when a plan was approved;
\* --fetchonly ends after fetching.
authorizeInstallExecution ==
    /\ At("authorize")
    /\ IF Has("approve") /\ ~(command.state = captureMutationState /\ Authorized(command))
       THEN Exit(1)
       ELSE IF Has("fetchonly") THEN \E code \in {0, 1} : Exit(code)
       ELSE command' = [command EXCEPT !.stage = "execute", !.basis = captureMutationState]
    /\ UNCHANGED <<present, config, selected, resumeFile, savedPlan, recovery, count, touched, drift>>

\* acquirePlannedBinaries, which may fail; then Execute refuses a resumed
\* checkpoint that has changed and saves its own.
BeginExecution ==
    /\ At("execute")
    /\ UNCHANGED <<present, config, selected, savedPlan, recovery, count, drift>>
    /\ \/ Exit(1) /\ UNCHANGED <<resumeFile, touched>>
       \/ /\ Has("resume") => resumeFile = command.resumed
          /\ resumeFile' = [remaining |-> command.result.install, select |-> command.selections]
          /\ Writes({"resume"})
          /\ command' = [command EXCEPT !.stage = "merging", !.pending = command.result.install]

\* Mutant: a state equal to the snapshot needs no validation, the first time too.
validateLocked_unchecked ==
    LET c    == command
        used == c.pending \cup UNION {Needs[p] : p \in c.pending}
    IN  /\ config = c.snapshot.config
        /\ \/ present = c.snapshot.present
           \/ /\ \A q \in used : q \in present <=> q \in c.snapshot.present
              /\ validate(c.pending, present, c.policy)

\* packageMutationGuard.validate, under the VDB lock (module Executor has the
\* reads one by one): the policy has not changed, and the installed packages
\* have not since the last validation, or none that the rest of the plan uses
\* has and the rest of the plan is still valid.
validateLocked ==
    LET c    == command
        used == c.pending \cup UNION {Needs[p] : p \in c.pending}
    IN  /\ config = c.snapshot.config
        /\ \/ c.checked /\ present = c.snapshot.present
           \/ /\ \A q \in used : q \in present <=> q \in c.snapshot.present
              /\ validate(c.pending, present, c.policy)

\* The recovery set of the replaced packages, published once before the first
\* package is merged.
prepareMutation(c) ==
    LET replaced == recoveryPackagesForActions(c.result.install, present)
    IN  IF c.merged = {} /\ replaced # {}
        THEN recovery \cup {[pkgs |-> replaced, status |-> "active"]}
        ELSE recovery

\* One package whose needs are no longer pending is merged under the lock; the
\* guard records the new state and the checkpoint drops the package.
MergePackage(p) ==
    /\ At("merging")
    /\ p \in command.pending
    /\ Needs[p] \cap command.pending = {}
    /\ UNCHANGED <<config, selected, savedPlan, count, drift>>
    /\ IF Has("buildonly")
       THEN /\ command' = [command EXCEPT !.pending = @ \ {p}]
            /\ resumeFile' = [resumeFile EXCEPT !.remaining = @ \ {p}]
            /\ Writes({"resume"})
            /\ UNCHANGED <<present, recovery>>
       ELSE IF ~validateLocked THEN Exit(1) /\ UNCHANGED <<present, recovery, resumeFile, touched>>
       ELSE /\ present' = present \cup {p}
            /\ recovery' = prepareMutation(command)
            /\ resumeFile' = [resumeFile EXCEPT !.remaining = @ \ {p}]
            /\ Writes({"vdb", "resume"})
            /\ command' = [command EXCEPT
                             !.pending = @ \ {p}, !.merged = @ \cup {p}, !.checked = TRUE,
                             !.replaced = @ \cup (present \cap {p}),
                             !.snapshot = [captureMutationState EXCEPT !.present = present \cup {p}]]

\* markRecoverySetOutcome on the set this command published.
markRecoverySetOutcome(sets, status) ==
    {IF s.status = "active" THEN [s EXCEPT !.status = status] ELSE s : s \in sets}

\* A build fails or the user interrupts: what is merged stays, the rest is left
\* in the checkpoint.
ExecutionFails ==
    /\ At("merging")
    /\ command.pending # {}
    /\ \E code \in {1, 130} : Exit(code)
    /\ recovery' = markRecoverySetOutcome(recovery, "failed")
    /\ UNCHANGED <<present, config, selected, resumeFile, savedPlan, count, touched, drift>>

\* FinishTransaction: the world file, then the resumed checkpoint.
FinishTransaction ==
    /\ At("merging")
    /\ command.pending = {}
    /\ UNCHANGED <<present, config, savedPlan, count, drift>>
    /\ recovery' = markRecoverySetOutcome(recovery, "pending")
    /\ IF Has("buildonly") THEN UNCHANGED <<selected, resumeFile, touched>>
       ELSE /\ selected' = selected \cup command.selections
            /\ resumeFile' = IF Has("resume") THEN None ELSE resumeFile
            /\ Writes({"world", "resume"})
    /\ Exit(0)

-----------------------------------------------------------------------------
(* uninstall: runUninstall.                                                *)

\* removePreexistingUninstallConflicts: the needs the removal breaks anew.
NovelConflicts(installed, removed) ==
    {<<p, q>> \in (installed \ removed) \X removed : q \in Needs[p]}

\* resolveUninstallTargets, prepareUninstallTargets, BuildFromState and the
\* two VerifyTransaction calls; the installed state is read here.
StartUninstall(order, f) ==
    /\ At("idle") \/ At("done")
    /\ count.run < MaxRun
    /\ LET targets == ToSet(order)
           c == [Idle EXCEPT !.kind = "uninstall", !.flags = f, !.targets = targets, !.order = order,
                   !.graph = present, !.policy = config,
                   !.result = [NoResult EXCEPT !.verified = TRUE]]
       IN  command' = IF targets \subseteq present /\ NovelConflicts(present, targets) = {}
                      THEN [c EXCEPT !.stage = "ufingerprint"]
                      ELSE [c EXCEPT !.stage = "done", !.exit = 1]
    /\ count' = [count EXCEPT !.run = @ + 1]
    /\ touched' = {}
    /\ drift' = FALSE
    /\ UNCHANGED <<present, config, selected, resumeFile, savedPlan, recovery>>

\* The fingerprint; --pretend saves the plan and ends; an approved plan must match.
UninstallPlan ==
    /\ At("ufingerprint")
    /\ UNCHANGED <<present, config, selected, resumeFile, recovery, count, touched, drift>>
    /\ LET c == [command EXCEPT !.state = captureMutationState]
       IN  IF Has("pretend")
           THEN \/ ~Has("save") /\ command' = [c EXCEPT !.stage = "done"] /\ UNCHANGED savedPlan
                \/ Has("save") /\ savePlanDocument(PlanDocument(c)) /\ command' = [c EXCEPT !.stage = "done"]
                \/ /\ Has("save") /\ savedPlan # None
                   /\ command' = [c EXCEPT !.stage = "done", !.exit = 1]
                   /\ UNCHANGED savedPlan
           ELSE /\ UNCHANGED savedPlan
                /\ IF Has("approve") /\ ~Authorized(c)
                   THEN command' = [c EXCEPT !.stage = "done", !.exit = 1]
                   ELSE \E yes \in confirmInstall :
                          command' = IF yes THEN [c EXCEPT !.stage = "ulock"]
                                     ELSE [c EXCEPT !.stage = "done", !.declined = TRUE]

\* TryAcquireVDB, the second fingerprint, and the recovery set of every target.
\* The lock may be busy and the set may fail to be published.
UninstallLock ==
    /\ At("ulock")
    /\ UNCHANGED <<present, config, selected, resumeFile, savedPlan, count, drift>>
    /\ \/ Exit(1) /\ UNCHANGED <<recovery, touched>>
       \/ /\ command.state = captureMutationState
          /\ recovery' = recovery \cup {[pkgs |-> command.targets, status |-> "active"]}
          /\ Writes({"recovery"})
          /\ command' = [command EXCEPT !.stage = "removing", !.basis = captureMutationState]

\* The targets are removed in the order given.  A removal that fails leaves the
\* package; a hook that fails is reported after its package is gone.  Both end
\* the command with the other targets still installed.
RemovePackage ==
    /\ At("removing")
    /\ command.order # <<>>
    /\ UNCHANGED <<config, selected, resumeFile, savedPlan, count, drift>>
    /\ LET p == Head(command.order)
           gone == [command EXCEPT !.order = Tail(@), !.replaced = @ \cup {p}]
       IN  \/ /\ Exit(1)
              /\ recovery' = markRecoverySetOutcome(recovery, "failed")
              /\ UNCHANGED <<present, touched>>
           \/ \E hooks \in BOOLEAN :
                /\ present' = present \ {p}
                /\ Writes({"vdb"})
                /\ IF hooks THEN command' = gone /\ UNCHANGED recovery
                   ELSE /\ command' = [gone EXCEPT !.stage = "done", !.exit = 1]
                        /\ recovery' = markRecoverySetOutcome(recovery, "failed")

UninstallDone ==
    /\ At("removing")
    /\ command.order = <<>>
    /\ recovery' = markRecoverySetOutcome(recovery, "pending")
    /\ Exit(0)
    /\ UNCHANGED <<present, config, selected, resumeFile, savedPlan, count, touched, drift>>

-----------------------------------------------------------------------------
(* The others.                                                             *)

\* Another package manager installs or removes a package, never breaking a
\* need, and never while this command holds the VDB lock.
Foreign(p) ==
    /\ count.fault < MaxFault
    /\ ~At("removing")
    /\ \/ p \notin present /\ Needs[p] \subseteq present /\ present' = present \cup {p}
       \/ /\ p \in present
          /\ \A q \in present : p \notin Needs[q]
          /\ present' = present \ {p}
    /\ count' = [count EXCEPT !.fault = @ + 1]
    /\ drift' = (drift \/ command.stage \notin {"idle", "done", "graph"})
    /\ UNCHANGED <<config, selected, resumeFile, savedPlan, recovery, command, touched>>

EditConfig(p) ==
    /\ count.fault < MaxFault
    /\ config' = IF p \in config THEN config \ {p} ELSE config \cup {p}
    /\ count' = [count EXCEPT !.fault = @ + 1]
    /\ UNCHANGED <<present, selected, resumeFile, savedPlan, recovery, command, touched, drift>>

\* The process is killed: a package being merged is rolled back by its journal,
\* everything else stays as written.
Kill ==
    /\ count.fault < MaxFault
    /\ command.stage \notin {"idle", "done"}
    /\ Exit(130)
    /\ count' = [count EXCEPT !.fault = @ + 1]
    /\ UNCHANGED <<present, config, selected, resumeFile, savedPlan, recovery, touched, drift>>

Next ==
    \/ \E f \in Flags :
         \/ \E targets \in Requests : StartInstall(targets, f)
         \/ \E order \in Removals : StartUninstall(order, f)
    \/ finishEmptyResume
    \/ ResolveContext
    \/ Fingerprint
    \/ Emit
    \/ Report
    \/ Decide
    \/ NothingToDo
    \/ Confirm
    \/ authorizeInstallExecution
    \/ BeginExecution
    \/ \E p \in Pkg : MergePackage(p)
    \/ ExecutionFails
    \/ FinishTransaction
    \/ UninstallPlan
    \/ UninstallLock
    \/ RemovePackage
    \/ UninstallDone
    \/ \E p \in Pkg : Foreign(p) \/ EditConfig(p)
    \/ Kill

Spec == Init /\ [][Next]_cvars

-----------------------------------------------------------------------------
(* Properties.                                                             *)

\* A command with --pretend or --preflight-only, or one the user declined,
\* leaves packages, world file, checkpoint and recovery sets as they were,
\* wherever it stops (install.go, runResolve; uninstall.go, runUninstall).
ReadOnlyKeepsSystem ==
    Has("pretend") \/ (Has("preflight") /\ command.kind = "install") \/ command.declined
        => touched \subseteq {"config"}

\* --pretend writes nothing at all ("Pretend is a read-only operation").
PretendWritesNothing == "pretend" \in command.flags => touched = {}

\* When packages are merged or removed under an approved plan, the plan on
\* disk is complete, is the plan being executed, and was made for the
\* packages, selections and policy found when execution was authorized
\* (authorizeInstallExecution; runUninstall's check under the lock).
ApprovedIsExecuted ==
    "approve" \in command.flags /\ "vdb" \in touched
        => /\ savedPlan.complete
           /\ savedPlan.digest = canonicalPlanSHA256(command)
           /\ savedPlan.digest.state = command.basis
           /\ command.merged \subseteq savedPlan.digest.install

\* Whatever other managers do between the reads of the state, a package that
\* was merged has what it needs, and a removal that succeeded took nothing that
\* a package left behind needs.  Left out: a removal whose graph another manager
\* made stale before the fingerprint was taken (drift).
NeedsKept ==
    /\ \A p \in command.merged \cap present : Needs[p] \subseteq present
    /\ command.kind = "uninstall" /\ command.exit = 0 /\ At("done") /\ "vdb" \in touched /\ ~drift
         => \A p \in present : Needs[p] \cap command.targets \subseteq present

\* What a command replaces or removes is in a recovery set published before.
ReplacedIsCaptured ==
    \A p \in command.replaced : \E s \in recovery : p \in s.pkgs

\* Packages, world file and checkpoint change only on behalf of a verified
\* plan: "install, update, reinstall, and uninstall execute directly after a
\* verified plan".
OnlyVerifiedPlansWrite ==
    touched \cap {"vdb", "world"} # {} =>
        command.result.verified \/ (command.resumed # None /\ command.resumed.remaining = {})

\* A resumed checkpoint is retired only when its packages are installed, or
\* were when the plan was made (FinishTransaction, removeNoopResume).
RetiredIsInstalled ==
    resumeFile # None /\ resumeFile' = None /\ "keepgoing" \notin command.flags
        => resumeFile.remaining \subseteq present \cup command.graph
=============================================================================
