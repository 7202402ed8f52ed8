----------------------------- MODULE Checkpoint -----------------------------
(***************************************************************************)
(* The resume checkpoints that concurrent arise commands share: the lease  *)
(* of internal/executor/checkpoint.go, the checkpoint file operations of   *)
(* internal/resolve, --resume of cmd/arise, and "maintain resume --fix" of *)
(* internal/resumemaint, which removes the file through an undo journal.   *)
(*                                                                         *)
(* Every file operation is one step: it holds the short lock of the path   *)
(* and ends in a rename.                                                   *)
(***************************************************************************)
EXTENDS Naturals, FiniteSets, Sequences

CONSTANTS
  Proc,      \* processes that install and resume
  Atom,      \* the packages they merge
  Request,   \* Request[p]: the plan of a new transaction of p
  Default,   \* the default checkpoint path
  Private,   \* names CreateTemp may return
  Cleaner,   \* whether "maintain resume --fix" runs as well
  MaxUndo,   \* bound: journals that killed cleanups leave active, and one more
  Faults,    \* "fail", "kill"
  NoOne, NoFile, Empty

File == Private \cup {Default}

ASSUME FileAssumption == Default \notin Private
ASSUME AtomAssumption == IsFiniteSet(Atom)
ASSUME RequestAssumption == Request \in [Proc -> (SUBSET Atom) \ {{}}]
ASSUME CleanerAssumption == Cleaner \in BOOLEAN /\ MaxUndo \in Nat
ASSUME FaultsAssumption == Faults \subseteq {"fail", "kill"}
ASSUME NoOneAssumption == NoOne \notin Proc

\* ResumeState: the world selections (named by the process that was asked for
\* them) and the packages, completed or not
State == [selections : Proc, done : SUBSET Atom, pending : SUBSET Atom]

ASSUME ContentAssumption ==
  NoFile \notin State /\ Empty \notin State /\ NoFile # Empty

Content == State \cup {NoFile, Empty}

VARIABLES
  file,      \* the checkpoint files
  lease,     \* who holds the .active lease of each
  committed, \* packages merged so far
  world,     \* selections recorded in the world file
  started,   \* processes whose own transaction was started
  pc,
  path,      \* the checkpoint path of each command
  resuming,  \* cfg.Resume
  request,   \* result.Install and WorldSelections
  loaded,    \* the snapshot --resume planned from
  merged,    \* the package just committed, not yet marked
  cleaner,   \* where the cleaner is
  seen,      \* Remaining of its first Check
  undo,      \* preimages in the active journals of cleanups, its own the last
  marked,    \* history: packages that a checkpoint has recorded as complete
  cleaned    \* history: a cleanup has opened its journal

memory == <<path, resuming, request, loaded, merged>>
process == <<pc, started, memory>>
cleaning == <<cleaner, seen, undo, cleaned>>
merges == <<committed, marked>>
vars == <<file, lease, merges, world, process, cleaning>>

TypeOK ==
  /\ file \in [File -> Content]
  /\ lease \in [File -> Proc \cup {NoOne}]
  /\ \A f \in File : lease[f] # NoOne =>
       path[lease[f]] = f /\ pc[lease[f]] \notin {"idle", "planned"}
  /\ committed \subseteq Atom /\ world \subseteq Proc /\ started \subseteq Proc
  /\ pc \in [Proc -> {"idle", "planned", "leased", "checked", "run", "mark"}]
  /\ path \in [Proc -> File] /\ resuming \in [Proc -> BOOLEAN]
  /\ request \in [Proc -> [selections : Proc, atoms : SUBSET Atom]]
  /\ loaded \in [Proc -> Content]
  /\ merged \in [Proc -> SUBSET Atom]
  /\ cleaner \in {"idle", "checked", "locked", "captured", "removed"}
  /\ seen \in 0..Cardinality(Atom) /\ undo \in Seq(Content)
  /\ marked \subseteq Atom /\ cleaned \in BOOLEAN

NewRequest(p) == [selections |-> p, atoms |-> Request[p]]

Init ==
  /\ file = [f \in File |-> NoFile] /\ lease = [f \in File |-> NoOne]
  /\ committed = {} /\ world = {} /\ started = {}
  /\ pc = [p \in Proc |-> "idle"] /\ path = [p \in Proc |-> Default]
  /\ resuming = [p \in Proc |-> FALSE]
  /\ request = [p \in Proc |-> NewRequest(p)]
  /\ loaded = [p \in Proc |-> NoFile] /\ merged = [p \in Proc |-> {}]
  /\ cleaner = "idle" /\ seen = 0 /\ undo = <<>>
  /\ marked = {} /\ cleaned = FALSE

\* the process ends: its lease is released and its memory gone
Idle(p) ==
  /\ pc' = [pc EXCEPT ![p] = "idle"]
  /\ path' = [path EXCEPT ![p] = Default]
  /\ resuming' = [resuming EXCEPT ![p] = FALSE]
  /\ request' = [request EXCEPT ![p] = NewRequest(p)]
  /\ loaded' = [loaded EXCEPT ![p] = NoFile]
  /\ merged' = [merged EXCEPT ![p] = {}]
  /\ lease' = [f \in File |-> IF lease[f] = p THEN NoOne ELSE lease[f]]

\* withResumeLock: an update waits for whoever holds the lock of the path
PathFree(f) == f = Default => cleaner \notin {"locked", "captured", "removed"}

-----------------------------------------------------------------------------
(* Planning.                                                               *)

\* a new transaction; every process is asked for one at most once
Install(p) ==
  /\ pc[p] = "idle" /\ p \notin started /\ started' = started \cup {p}
  /\ pc' = [pc EXCEPT ![p] = "planned"]
  /\ UNCHANGED <<file, lease, merges, world, memory, cleaning>>

\* LoadResumeSnapshot: nothing is reserved while the plan is made
LoadResume(p, f) ==
  /\ pc[p] = "idle" /\ file[f] \in State
  /\ pc' = [pc EXCEPT ![p] = "planned"]
  /\ path' = [path EXCEPT ![p] = f]
  /\ resuming' = [resuming EXCEPT ![p] = TRUE]
  /\ request' = [request EXCEPT ![p] = [selections |-> file[f].selections,
                                        atoms |-> file[f].pending]]
  /\ loaded' = [loaded EXCEPT ![p] = file[f]]
  /\ UNCHANGED <<file, lease, merges, world, started, merged, cleaning>>

-----------------------------------------------------------------------------
(* reserveResumeCheckpoint, checkResumeSnapshot and SaveResume.            *)

\* mutant: the lease of another transaction does not count
ReserveAnyway(p) ==
  /\ pc[p] = "planned"
  /\ lease' = [lease EXCEPT ![path[p]] = p]
  /\ pc' = [pc EXCEPT ![p] = "leased"]
  /\ UNCHANGED <<file, merges, world, started, memory, cleaning>>

Reserve(p) ==
  /\ pc[p] = "planned" /\ lease[path[p]] = NoOne
  /\ lease' = [lease EXCEPT ![path[p]] = p]
  /\ pc' = [pc EXCEPT ![p] = "leased"]
  /\ UNCHANGED <<file, merges, world, started, memory, cleaning>>

\* CreateTemp finds an unused name; its lease cannot be taken yet
ReservePrivate(p, f) ==
  /\ pc[p] = "planned" /\ lease[path[p]] # NoOne /\ ~resuming[p]
  /\ f \in Private /\ file[f] = NoFile
  /\ file' = [file EXCEPT ![f] = Empty]
  /\ lease' = [lease EXCEPT ![f] = p]
  /\ path' = [path EXCEPT ![p] = f]
  /\ pc' = [pc EXCEPT ![p] = "leased"]
  /\ UNCHANGED <<merges, world, started, resuming, request, loaded, merged,
                 cleaning>>

ReserveBusy(p) ==
  /\ pc[p] = "planned" /\ lease[path[p]] # NoOne /\ resuming[p]
  /\ Idle(p)
  /\ UNCHANGED <<file, merges, world, started, cleaning>>

\* mutant: the checkpoint may have changed since the plan was made
CheckNothing(p) ==
  /\ pc[p] = "leased"
  /\ pc' = [pc EXCEPT ![p] = "checked"]
  /\ UNCHANGED <<file, lease, merges, world, started, memory, cleaning>>

CheckSnapshot(p) ==
  /\ pc[p] = "leased"
  /\ IF resuming[p] /\ file[path[p]] # loaded[p]
       THEN Idle(p)
       ELSE /\ pc' = [pc EXCEPT ![p] = "checked"]
            /\ loaded' = [loaded EXCEPT ![p] = NoFile]
            /\ UNCHANGED <<lease, path, resuming, request, merged>>
  /\ UNCHANGED <<file, merges, world, started, cleaning>>

Save(p) ==
  /\ pc[p] = "checked" /\ request[p].atoms # {} /\ PathFree(path[p])
  /\ file' = [file EXCEPT ![path[p]] =
                [selections |-> request[p].selections, done |-> {},
                 pending |-> request[p].atoms]]
  /\ pc' = [pc EXCEPT ![p] = "run"]
  /\ UNCHANGED <<lease, merges, world, started, memory, cleaning>>

\* finishEmptyResume: only the world selection was left to record
FinishEmptyResume(p) ==
  /\ pc[p] = "checked" /\ request[p].atoms = {}
  /\ world' = world \cup {request[p].selections}
  /\ file' = [file EXCEPT ![path[p]] = NoFile]
  /\ Idle(p)
  /\ UNCHANGED <<merges, started, cleaning>>

-----------------------------------------------------------------------------
(* Execution, one package after the other.                                 *)

\* Merge first rolls back whatever journals are active in the shared
\* directory, in the order of their random names
Commit(p, a) ==
  /\ pc[p] = "run" /\ a \in request[p].atoms
  /\ committed' = committed \cup {a}
  /\ request' = [request EXCEPT ![p].atoms = @ \ {a}]
  /\ merged' = [merged EXCEPT ![p] = {a}]
  /\ pc' = [pc EXCEPT ![p] = "mark"]
  /\ IF undo = <<>>
       THEN UNCHANGED file
       ELSE \E i \in DOMAIN undo : file' = [file EXCEPT ![Default] = undo[i]]
  /\ undo' = <<>>
  /\ UNCHANGED <<lease, marked, world, started, path, resuming, loaded, cleaner,
                 seen, cleaned>>

\* MarkResumeComplete: a missing file is ignored, a missing entry is an error
Mark(p) ==
  LET state == file[path[p]]
      absent == \/ state \notin State
                \/ ~(merged[p] \subseteq state.done \cup state.pending)
  IN  /\ pc[p] = "mark" /\ PathFree(path[p])
      /\ IF state # NoFile /\ absent
           THEN Idle(p) /\ UNCHANGED <<file, marked>>
           ELSE /\ pc' = [pc EXCEPT ![p] = "run"]
                /\ merged' = [merged EXCEPT ![p] = {}]
                /\ UNCHANGED <<lease, path, resuming, request, loaded>>
                /\ marked' = IF state = NoFile THEN marked ELSE marked \cup merged[p]
                /\ file' = IF state = NoFile THEN file
                           ELSE [file EXCEPT ![path[p]].done = @ \cup merged[p],
                                             ![path[p]].pending = @ \ merged[p]]
      /\ UNCHANGED <<committed, world, started, cleaning>>

\* mutant: the world selection is recorded before the last package
FinishEarly(p) ==
  /\ pc[p] = "run" /\ Cardinality(request[p].atoms) < 2
  /\ world' = world \cup {request[p].selections}
  /\ file' = [file EXCEPT ![path[p]] =
                IF (resuming[p] \/ path[p] \in Private)
                  THEN NoFile ELSE @]
  /\ Idle(p)
  /\ UNCHANGED <<merges, started, cleaning>>

\* FinishTransaction and RemoveCompletedResume, under the lease
Finish(p) ==
  LET state == file[path[p]]
      retire == resuming[p] \/ path[p] \in Private
  IN  /\ pc[p] = "run" /\ request[p].atoms = {} /\ (retire => PathFree(path[p]))
      /\ world' = world \cup {request[p].selections}
      /\ file' = [file EXCEPT ![path[p]] =
                    IF retire /\ state \in State /\ state.pending = {}
                      THEN NoFile ELSE @]
      /\ Idle(p)
      /\ UNCHANGED <<merges, started, cleaning>>

\* a package fails; the checkpoint stays
Fail(p) ==
  /\ "fail" \in Faults /\ pc[p] = "run" /\ request[p].atoms # {}
  /\ Idle(p)
  /\ UNCHANGED <<file, merges, world, started, cleaning>>

\* the kernel releases the lease of a dead process
Kill(p) ==
  /\ "kill" \in Faults /\ pc[p] # "idle"
  /\ Idle(p)
  /\ UNCHANGED <<file, merges, world, started, cleaning>>

-----------------------------------------------------------------------------
(* "maintain resume --fix".                                                *)

others == <<lease, merges, world, process>>

\* Check: a valid checkpoint to remove
CleanCheck ==
  /\ Cleaner /\ cleaner = "idle" /\ file[Default] \in State
  /\ cleaner' = "checked" /\ seen' = Cardinality(file[Default].pending)
  /\ UNCHANGED <<others, file, undo, cleaned>>

\* under the lock of the path the checkpoint must be as reported; what the
\* report holds of it is how many packages remain
CleanLock ==
  LET now == file[Default]
      same == /\ now \in State
              /\ Cardinality(now.pending) = seen
  IN  /\ cleaner = "checked"
      /\ cleaner' = IF same THEN "locked" ELSE "idle"
      /\ seen' = 0
      /\ UNCHANGED <<others, file, undo, cleaned>>

\* the journal of the cleaner lives in the directory Merge recovers
CleanCapture ==
  /\ cleaner = "locked" /\ Len(undo) < MaxUndo
  /\ cleaner' = "captured" /\ undo' = Append(undo, file[Default])
  /\ cleaned' = TRUE
  /\ UNCHANGED <<others, file, seen>>

CleanRemove ==
  /\ cleaner = "captured"
  /\ cleaner' = "removed" /\ file' = [file EXCEPT ![Default] = NoFile]
  /\ UNCHANGED <<others, seen, undo, cleaned>>

CleanCommit ==
  /\ cleaner = "removed"
  /\ cleaner' = "idle" /\ undo' = IF undo = <<>> THEN undo ELSE SubSeq(undo, 1, Len(undo) - 1)
  /\ UNCHANGED <<others, file, seen, cleaned>>

\* the journal stays active
CleanKilled ==
  /\ "kill" \in Faults /\ cleaner # "idle"
  /\ cleaner' = "idle"
  /\ UNCHANGED <<others, file, seen, undo, cleaned>>

-----------------------------------------------------------------------------
Transaction(p) ==
  \/ Install(p) \/ Reserve(p) \/ ReserveBusy(p) \/ CheckSnapshot(p) \/ Save(p)
  \/ FinishEmptyResume(p) \/ Mark(p) \/ Finish(p) \/ Fail(p) \/ Kill(p)
  \/ \E f \in File : LoadResume(p, f) \/ ReservePrivate(p, f)
  \/ \E a \in Atom : Commit(p, a)

Next ==
  \/ \E p \in Proc : Transaction(p)
  \/ CleanCheck \/ CleanLock \/ CleanCapture \/ CleanRemove \/ CleanCommit
  \/ CleanKilled

Spec == Init /\ [][Next]_vars

-----------------------------------------------------------------------------
(* Properties.                                                             *)

\* "preventing a concurrent command from replacing progress": while a
\* transaction merges packages, the checkpoint it was given records exactly
\* its own remaining packages and world selections.
OwnCheckpoint ==
  \A p \in Proc : pc[p] \in {"run", "mark"} =>
    /\ file[path[p]] \in State
    /\ file[path[p]].pending = request[p].atoms \cup merged[p]
    /\ file[path[p]].selections = request[p].selections

\* The lease keeps concurrent commands, new, resuming, failing or killed, from
\* replacing the checkpoint of a transaction; only a cleanup does.
OwnCheckpointUncleaned == ~cleaned => OwnCheckpoint

\* A package that a checkpoint has recorded as complete is not merged again by
\* a command that planned from an earlier state of it.
CommitOnce ==
  [][\A p \in Proc, a \in Atom : Commit(p, a) /\ ~cleaned => a \notin marked]_vars

\* A world selection is recorded only once every package it was resolved to
\* has been merged, by whichever chain of resumed commands.
WorldAfterPackages == \A p \in world : Request[p] \subseteq committed
=============================================================================
