---------------------------- MODULE PerlCleaner ----------------------------
(***************************************************************************)
(* arise perl-cleaner: rebuild the packages that own module paths or link  *)
(* to a libperl of another Perl than the installed one, take perl-core     *)
(* packages out of the world file first (preclean), check the final state  *)
(* and delete the generated files old Perls left behind.  The companion    *)
(* file beside the executor's resume file lets --resume continue.          *)
(*                                                                         *)
(* A package's owned module paths are abstracted to the ABIs they lie      *)
(* under, its linkage to the libperl ABI it needs.  A leftover is a file   *)
(* under a module directory: its ABI, whether its name is on the list of   *)
(* generated files, and the package whose CONTENTS lists it.               *)
(***************************************************************************)
EXTENDS Integers, FiniteSets

CONSTANTS Pkg, Abi,    \* packages, Perl ABIs
          Core,        \* packages of category perl-core
          Virtual,     \* the virtuals that stand for them: no files of their own
          File,        \* files under the module directories
          FileAbi,     \* file |-> the ABI of its path
          Known,       \* files with the name of a generated file
          Owner,       \* file |-> its package, or Nobody
          Nobody, Nothing,
          MaxKill, MaxUpgrade, MaxRun

VARIABLES modAbi,      \* package |-> the ABI of its module paths, or Nothing
          libAbi,      \* package |-> the ABI of its libperl, or Nothing
          abi,         \* the installed Perl
          files,       \* existing files
          world,       \* perl-core packages selected in the world file
          resumeState, remaining, job,
          interrupts, upgrades, starts,
          missed       \* history: a kill fell between the companion and the world update

pvars == <<modAbi, libAbi, abi, files, world, resumeState, remaining, job, interrupts, upgrades, starts, missed>>

Mode(modules, libperl, all, preclean) ==
    [modules |-> modules, libperl |-> libperl, all |-> all, preclean |-> preclean]
Modes == {Mode(TRUE, FALSE, FALSE, FALSE), Mode(TRUE, FALSE, TRUE, FALSE), Mode(FALSE, TRUE, FALSE, FALSE),
          Mode(TRUE, TRUE, FALSE, TRUE), Mode(TRUE, TRUE, TRUE, TRUE)}
FinalValidationMode(mode) == [mode EXCEPT !.all = FALSE, !.preclean = FALSE]

\* The packages Check reports.
Actions(mode) ==
    {p \in Pkg : \/ mode.modules /\ modAbi[p] # Nothing /\ (mode.all \/ modAbi[p] # abi)
                 \/ mode.libperl /\ libAbi[p] # Nothing /\ (mode.all \/ libAbi[p] # abi)}

Targets(mode) == Actions(mode) \cup (IF mode.preclean THEN Virtual ELSE {})

FindLeftovers == {f \in files : FileAbi[f] # abi}

Rest == [pc |-> "idle", mode |-> Nothing, abi |-> Nothing, targets |-> {}, resumed |-> FALSE, again |-> FALSE]

PInit ==
    /\ abi \in Abi
    /\ modAbi \in {f \in [Pkg -> Abi \cup {Nothing}] : \A p \in Virtual : f[p] = Nothing}
    /\ libAbi \in {f \in [Pkg -> Abi \cup {Nothing}] : \A p \in Virtual : f[p] = Nothing}
    /\ files = {f \in File : Owner[f] = Nobody \/ modAbi[Owner[f]] = FileAbi[f]}
    /\ world \in SUBSET Core
    /\ resumeState = Nothing /\ remaining = Nothing /\ job = Rest
    /\ interrupts = 0 /\ upgrades = 0 /\ starts = 0
    /\ missed = FALSE

Return == job' = Rest

(* A fresh run saves the companion before it changes anything.             *)
Begin(mode) ==
    /\ job.pc = "idle" /\ starts < MaxRun
    /\ starts' = starts + 1 /\ missed' = FALSE
    /\ job' = [Rest EXCEPT !.pc = IF Targets(mode) = {} THEN "check" ELSE "preclean",
                           !.mode = mode, !.abi = abi, !.targets = Targets(mode)]
    /\ resumeState' = IF Targets(mode) = {} THEN resumeState
                     ELSE [mode |-> mode, abi |-> abi, targets |-> Targets(mode)]
    /\ UNCHANGED <<modAbi, libAbi, abi, files, world, remaining, interrupts, upgrades>>

\* Mutant: the saved targets are rebuilt for whatever Perl is installed.
ResumeRun_any_abi ==
    /\ job.pc = "idle" /\ starts < MaxRun /\ resumeState # Nothing
    /\ starts' = starts + 1
    /\ job' = [pc |-> "preclean", mode |-> resumeState.mode, abi |-> resumeState.abi, targets |-> resumeState.targets,
               resumed |-> TRUE, again |-> remaining # Nothing]
    /\ UNCHANGED <<modAbi, libAbi, abi, files, world, resumeState, remaining, interrupts, upgrades, missed>>

(* --skipfirst drops the first package of the saved progress.              *)
ResumeRun ==
    /\ job.pc = "idle" /\ starts < MaxRun /\ resumeState # Nothing
    /\ starts' = starts + 1
    /\ \E skipFirst \in BOOLEAN :
         IF resumeState.abi # abi \/ (skipFirst /\ remaining = Nothing)
         THEN Return /\ UNCHANGED remaining
         ELSE /\ job' = [pc |-> "preclean", mode |-> resumeState.mode, abi |-> abi,
                         targets |-> resumeState.targets, resumed |-> TRUE, again |-> remaining # Nothing]
              /\ IF skipFirst /\ remaining # {}
                 THEN \E p \in remaining : remaining' = remaining \ {p}
                 ELSE UNCHANGED remaining
    /\ UNCHANGED <<modAbi, libAbi, abi, files, world, resumeState, interrupts, upgrades, missed>>

(* Only a fresh preclean run updates the world file; when that fails the   *)
(* companion is removed again.                                             *)
deselectPerlCore ==
    /\ job.pc = "preclean"
    /\ IF job.mode.preclean /\ ~job.resumed
       THEN \/ /\ world' = world \ Core
               /\ job' = [job EXCEPT !.pc = "resolve"]
               /\ remaining' = job.targets
               /\ UNCHANGED resumeState
            \/ /\ resumeState' = Nothing
               /\ Return
               /\ UNCHANGED <<world, remaining>>
       ELSE /\ job' = [job EXCEPT !.pc = "resolve"]
            /\ remaining' = IF job.again THEN remaining ELSE job.targets
            /\ UNCHANGED <<world, resumeState>>
    /\ UNCHANGED <<modAbi, libAbi, abi, files, interrupts, upgrades, starts, missed>>

(* runResolve rebuilds the targets for the installed Perl; the files a     *)
(* package owned under the old ABI go with its replacement.                *)
RebuildFor(p) ==
    /\ job.pc = "resolve" /\ p \in remaining
    /\ remaining' = remaining \ {p}
    /\ modAbi' = [modAbi EXCEPT ![p] = IF @ = Nothing THEN @ ELSE abi]
    /\ libAbi' = [libAbi EXCEPT ![p] = IF @ = Nothing THEN @ ELSE abi]
    /\ files' = {f \in files : Owner[f] = p => FileAbi[f] = abi}
                  \cup {f \in File : Owner[f] = p /\ modAbi[p] # Nothing /\ FileAbi[f] = abi}
    /\ UNCHANGED <<abi, world, resumeState, job, interrupts, upgrades, starts, missed>>

ResolveExits ==
    /\ job.pc = "resolve"
    /\ IF remaining = {}
       THEN remaining' = Nothing /\ job' = [job EXCEPT !.pc = "check"]
       ELSE Return /\ UNCHANGED remaining
    /\ UNCHANGED <<modAbi, libAbi, abi, files, world, resumeState, interrupts, upgrades, starts, missed>>

FinalCheck ==
    /\ job.pc = "check"
    /\ IF Actions(FinalValidationMode(job.mode)) # {} THEN Return
       ELSE job' = [job EXCEPT !.pc = "delete"]
    /\ UNCHANGED <<modAbi, libAbi, abi, files, world, resumeState, remaining, interrupts, upgrades, starts, missed>>

(* One journaled operation: all known leftovers, or none.                  *)
DeleteKnown ==
    /\ job.pc = "delete"
    /\ \E delete \in BOOLEAN : files' = IF delete THEN files \ (FindLeftovers \cap Known) ELSE files
    /\ job' = [job EXCEPT !.pc = "finish"]
    /\ UNCHANGED <<modAbi, libAbi, abi, world, resumeState, remaining, interrupts, upgrades, starts, missed>>

RemoveResume ==
    /\ job.pc = "finish"
    /\ resumeState' = Nothing
    /\ job' = [job EXCEPT !.pc = "done"]
    /\ UNCHANGED <<modAbi, libAbi, abi, files, world, remaining, interrupts, upgrades, starts, missed>>

(* The environment: a kill, and an upgrade of Perl between two runs, which *)
(* leaves the other packages behind.                                       *)
PKill ==
    /\ job.pc \notin {"idle", "done"} /\ interrupts < MaxKill
    /\ interrupts' = interrupts + 1 /\ Return
    /\ missed' = (missed \/ (job.pc = "preclean" /\ job.mode.preclean /\ ~job.resumed))
    /\ UNCHANGED <<modAbi, libAbi, abi, files, world, resumeState, remaining, upgrades, starts>>

Upgrade ==
    /\ job.pc = "idle" /\ upgrades < MaxUpgrade
    /\ upgrades' = upgrades + 1
    /\ \E a \in Abi \ {abi} : abi' = a
    /\ UNCHANGED <<modAbi, libAbi, files, world, resumeState, remaining, job, interrupts, starts, missed>>

PNext ==
    \/ \E mode \in Modes : Begin(mode)
    \/ ResumeRun \/ deselectPerlCore \/ ResolveExits \/ FinalCheck \/ DeleteKnown \/ RemoveResume
    \/ \E p \in Pkg : RebuildFor(p)
    \/ PKill \/ Upgrade
PSpec == PInit /\ [][PNext]_pvars

-----------------------------------------------------------------------------
(* A repair that covered the module paths never deletes a file that an     *)
(* installed package owns: the final check comes between the rebuilds and  *)
(* the deletion.                                                           *)
OwnedFilesStay ==
    job.pc = "delete" /\ job.mode.modules => \A f \in files \ files' : Owner[f] = Nobody

(* A preclean repair that rebuilt something and succeeded left no          *)
(* perl-core package in the world file, across kills and resumes, unless   *)
(* a kill fell between the companion and the world update.                 *)
PrecleanIsDone ==
    job.pc = "done" /\ job.mode.preclean /\ job.targets # {} /\ ~missed => world \cap Core = {}

(* All targets of a resumed repair are rebuilt for the Perl they were      *)
(* chosen for.                                                             *)
OnePerlPerRepair == job.pc \in {"resolve", "check", "delete", "finish"} => job.abi = abi
=============================================================================
