------------------------------ MODULE Journal ------------------------------
(***************************************************************************)
(* The undo journal of internal/journal and the two package transactions   *)
(* that drive it, Merge and UnmergeWithConfig of internal/merge.           *)
(*                                                                         *)
(* An operation directory holds state.json, the capture log entries.jsonl  *)
(* and the backups of the files it captured.  Everything written is first  *)
(* in the page cache (root, dir, log, bak) and reaches the disk (the       *)
(* ...Stable variables) by an explicit sync or by writeback at any time.   *)
(* A killed process loses only its memory; a power loss also loses what    *)
(* has not reached the disk.                                               *)
(*                                                                         *)
(* One process runs at a time: every transaction holds the VDB lock.       *)
(***************************************************************************)
EXTENDS Naturals

CONSTANTS
  Path,      \* paths below the transaction root
  Value,     \* what a path can hold: file bytes, a link target, a directory
  Absent,    \* the path does not exist
  Op,        \* names of operation directories; recovery visits them in order
  NoOp,      \* no operation
  Client,    \* the transactions that run: "merge", "unmerge"
  Faults     \* what the environment may do to them

AllFaults == {"error", "kill", "power", "dirsync"}

ASSUME OpAssumption == Op \subseteq Nat /\ NoOp \notin Op
ASSUME ValueAssumption == Absent \notin Value
ASSUME ClientAssumption == Client \subseteq {"merge", "unmerge"}
ASSUME FaultsAssumption == Faults \subseteq AllFaults

VARIABLES
  root,      \* content of every path, as the running kernel shows it
  stable,    \* content of every path, as a power loss would leave it
  dir,       \* state.json of every operation directory
  dirStable,
  log,       \* paths with a complete record in the capture log
  logStable,
  bak,       \* paths whose backup file exists
  bakStable,
  pre,       \* preimage recorded for a captured path
  pc,        \* where the process is
  client,    \* which transaction the process runs
  cur,       \* the operation it has open
  mem,       \* its j.captured
  batch,     \* the paths Capture or CaptureBatch is recording
  todo,      \* entries Rollback has still to restore
  pending,   \* directories RecoverActive has still to visit
  recovering \* Rollback was called by RecoverActive

files == <<root, stable>>
journals == <<dir, dirStable, log, logStable, bak, bakStable, pre>>
process == <<pc, client, cur, mem, batch, todo, pending, recovering>>
vars == <<files, journals, process>>

Content == Value \cup {Absent}

\* "none": no directory; "made": a directory without a readable state.json
DirState == {"none", "made", "active", "committed", "rolled-back"}

Stages == {"idle", "recover", "ready", "publish-begin", "sync-begin", "open",
           "backup", "append", "sync-append", "synced", "sync-commit",
           "undo", "sync-undo"}

TypeOK ==
  /\ root \in [Path -> Content] /\ stable \in [Path -> Content]
  /\ dir \in [Op -> DirState] /\ dirStable \in [Op -> DirState]
  /\ log \in [Op -> SUBSET Path] /\ logStable \in [Op -> SUBSET Path]
  /\ bak \in [Op -> SUBSET Path] /\ bakStable \in [Op -> SUBSET Path]
  /\ pre \in [Op -> [Path -> Content]]
  /\ pc \in Stages
  /\ client \in {"merge", "unmerge"}
  /\ cur \in Op \cup {NoOp}
  /\ cur = NoOp <=> pc \in {"idle", "recover", "ready"}
  /\ mem \subseteq Path /\ batch \subseteq Path /\ todo \subseteq Path
  /\ pending \subseteq Op /\ recovering \in BOOLEAN

Init ==
  /\ root \in [Path -> Content] /\ stable = root
  /\ dir = [o \in Op |-> "none"] /\ dirStable = dir
  /\ log = [o \in Op |-> {}] /\ logStable = log
  /\ bak = log /\ bakStable = log
  /\ pre = [o \in Op |-> [p \in Path |-> Absent]]
  /\ pc = "idle" /\ client \in Client /\ cur = NoOp
  /\ mem = {} /\ batch = {} /\ todo = {} /\ pending = {}
  /\ recovering = FALSE

-----------------------------------------------------------------------------
(* The process returns, or dies: its memory is gone.                       *)

\* mutant: the next transaction still sees the journal of the last one
ExitKeepsJournal ==
  /\ pc' = "idle" /\ mem' = {} /\ batch' = {} /\ todo' = {} /\ pending' = {}
  /\ recovering' = FALSE
  /\ UNCHANGED <<client, cur>>

Exit ==
  /\ pc' = "idle" /\ cur' = NoOp
  /\ mem' = {} /\ batch' = {} /\ todo' = {} /\ pending' = {}
  /\ recovering' = FALSE
  /\ UNCHANGED client

-----------------------------------------------------------------------------
(* RecoverActive, the first thing a transaction does under the VDB lock.   *)

\* mutant: the transaction does not recover interrupted journals first
StartWithoutRecovery(c) ==
  /\ pc = "idle"
  /\ client' = c /\ pc' = "recover" /\ pending' = {} /\ recovering' = TRUE
  /\ UNCHANGED <<files, journals, cur, mem, batch, todo>>

Start(c) ==
  /\ pc = "idle"
  /\ client' = c
  /\ pc' = "recover" /\ pending' = {o \in Op : dir[o] # "none"}
  /\ recovering' = TRUE
  /\ UNCHANGED <<files, journals, cur, mem, batch, todo>>

\* sort.Strings(directories): the smallest name is opened next
NextDirectory(o) == /\ pc = "recover" /\ o \in pending
                    /\ \A q \in pending : o <= q

\* Open fails on a directory that has no state.json; the transaction returns
OpenFails(o) ==
  /\ NextDirectory(o) /\ dir[o] = "made"
  /\ Exit /\ UNCHANGED <<files, journals>>

SkipFinished(o) ==
  /\ NextDirectory(o) /\ dir[o] \in {"committed", "rolled-back"}
  /\ pending' = pending \ {o}
  /\ UNCHANGED <<files, journals, pc, client, cur, mem, batch, todo, recovering>>

\* Open reads the capture log; Rollback then restores what it names
OpenActive(o) ==
  /\ NextDirectory(o) /\ dir[o] = "active"
  /\ pending' = pending \ {o}
  /\ cur' = o /\ mem' = log[o] /\ todo' = log[o] /\ pc' = "undo"
  /\ UNCHANGED <<files, journals, client, batch, recovering>>

RecoverDone ==
  /\ pc = "recover" /\ pending = {}
  /\ pc' = "ready" /\ recovering' = FALSE
  /\ UNCHANGED <<files, journals, client, cur, mem, batch, todo, pending>>

\* recover rollback --all-active ends here; so does a failed preflight
Return ==
  /\ pc = "ready"
  /\ Exit /\ UNCHANGED <<files, journals>>

\* recover rollback <id>
RollbackActive(o) ==
  /\ pc = "idle" /\ dir[o] = "active"
  /\ cur' = o /\ mem' = log[o] /\ todo' = log[o] /\ pc' = "undo"
  /\ UNCHANGED <<files, journals, client, batch, pending, recovering>>

-----------------------------------------------------------------------------
(* begin: MkdirTemp, the backups directory and the empty log, then persist *)

MakeDirectory(o) ==
  /\ pc = "ready" /\ dir[o] = "none"
  /\ dir' = [dir EXCEPT ![o] = "made"]
  /\ log' = [log EXCEPT ![o] = {}] /\ logStable' = [logStable EXCEPT ![o] = {}]
  /\ bak' = [bak EXCEPT ![o] = {}] /\ bakStable' = [bakStable EXCEPT ![o] = {}]
  /\ cur' = o /\ pc' = "publish-begin"
  /\ UNCHANGED <<files, dirStable, pre, client, mem, batch, todo, pending, recovering>>

\* persist: a synced temporary is renamed over state.json ...
Publish(status, next) ==
  /\ dir' = [dir EXCEPT ![cur] = status]
  /\ pc' = next
  /\ UNCHANGED <<files, dirStable, log, logStable, bak, bakStable, pre,
                 client, cur, mem, batch, todo, pending, recovering>>

\* ... and the operation directory is synced
SyncDirectory ==
  /\ dirStable' = [dirStable EXCEPT ![cur] = dir[cur]]
  /\ UNCHANGED <<files, dir, log, logStable, bak, bakStable, pre>>

BeginPublish == pc = "publish-begin" /\ Publish("active", "sync-begin")

BeginSync ==
  /\ pc = "sync-begin"
  /\ SyncDirectory
  /\ pc' = "open"
  /\ UNCHANGED <<client, cur, mem, batch, todo, pending, recovering>>

\* begin returns an error before or after state.json is in place
BeginFails ==
  /\ \/ pc = "publish-begin" /\ "error" \in Faults
     \/ pc = "sync-begin" /\ "dirsync" \in Faults
  /\ Exit /\ UNCHANGED <<files, journals>>

-----------------------------------------------------------------------------
(* Capture and CaptureBatch.  A path is captured once; the batch skips the *)
(* paths that already are.                                                 *)

Capture(S) ==
  /\ pc = "open" /\ S # {} /\ S \cap mem = {}
  /\ batch' = S
  /\ pre' = [pre EXCEPT ![cur] = [p \in Path |-> IF p \in S THEN root[p] ELSE @[p]]]
  /\ bak' = [bak EXCEPT ![cur] = @ \cup {p \in S : root[p] # Absent}]
  /\ pc' = "backup"
  /\ UNCHANGED <<files, dir, dirStable, log, logStable, bakStable,
                 client, cur, mem, todo, pending, recovering>>

\* mutant: the records are appended before the backups are synced
AppendUnsyncedBackups ==
  /\ pc = "backup" /\ pc' = "append"
  /\ UNCHANGED <<files, journals, client, cur, mem, batch, todo, pending, recovering>>

\* syncFilesystem(j.dir), skipped when the batch needed no backup
CaptureSyncBackups ==
  /\ pc = "backup"
  /\ bakStable' = [bakStable EXCEPT ![cur] = bak[cur]]
  /\ pc' = "append"
  /\ UNCHANGED <<files, dir, dirStable, log, logStable, bak, pre,
                 client, cur, mem, batch, todo, pending, recovering>>

\* appendEntries writes and flushes the records
CaptureAppend ==
  /\ pc = "append"
  /\ log' = [log EXCEPT ![cur] = @ \cup batch]
  /\ pc' = "sync-append"
  /\ UNCHANGED <<files, dir, dirStable, logStable, bak, bakStable, pre,
                 client, cur, mem, batch, todo, pending, recovering>>

CaptureSyncLog ==
  /\ pc = "sync-append"
  /\ logStable' = [logStable EXCEPT ![cur] = log[cur]]
  /\ mem' = mem \cup batch /\ batch' = {}
  /\ pc' = "open"
  /\ UNCHANGED <<files, dir, dirStable, log, bak, bakStable, pre,
                 client, cur, todo, pending, recovering>>

\* An error while capturing: some records may be in the log, none is in
\* memory, and the transaction rolls back.
CaptureFails ==
  /\ "error" \in Faults
  /\ pc \in {"backup", "append", "sync-append"}
  /\ \E S \in SUBSET batch :
       /\ pc # "append" => S = {}
       /\ log' = [log EXCEPT ![cur] = @ \cup S]
  /\ batch' = {} /\ todo' = mem /\ pc' = "undo"
  /\ UNCHANGED <<files, dir, dirStable, logStable, bak, bakStable, pre,
                 client, cur, mem, pending, recovering>>

-----------------------------------------------------------------------------
(* The transaction's own writes, and how it ends.                          *)

Mutate(p, v) ==
  /\ pc = "open" /\ p \in mem
  /\ root' = [root EXCEPT ![p] = v]
  /\ UNCHANGED <<stable, journals, process>>

\* mutant: merge commits what is still in the page cache
CommitUnsyncedPayload ==
  /\ pc = "open" /\ client = "merge" /\ pc' = "synced"
  /\ UNCHANGED <<files, journals, client, cur, mem, batch, todo, pending, recovering>>

\* merge's syncFilesystems(RootDir, VdbDir); UnmergeWithConfig has none
SyncPayload ==
  /\ pc = "open" /\ client = "merge"
  /\ stable' = root
  /\ pc' = "synced"
  /\ UNCHANGED <<root, journals, client, cur, mem, batch, todo, pending, recovering>>

ReadyToCommit == pc = (IF client = "merge" THEN "synced" ELSE "open")

CommitPublish == ReadyToCommit /\ Publish("committed", "sync-commit")

CommitSync ==
  /\ pc = "sync-commit"
  /\ SyncDirectory
  /\ Exit

\* A failing step, hook or Commit: the caller rolls the journal back
Abort ==
  /\ \/ pc \in {"open", "synced"} /\ "error" \in Faults
     \/ pc = "sync-commit" /\ "dirsync" \in Faults
  /\ todo' = mem /\ pc' = "undo"
  /\ UNCHANGED <<files, journals, client, cur, mem, batch, pending, recovering>>

-----------------------------------------------------------------------------
(* Rollback                                                                *)

\* restore removes the target and copies the backup back in place: until it
\* is done the path holds anything
RestoreTorn(p, v) ==
  /\ pc = "undo" /\ p \in todo
  /\ root' = [root EXCEPT ![p] = v]
  /\ UNCHANGED <<stable, journals, process>>

\* mutant: an entry that could not be restored is passed over
RestoreSkips(p) ==
  /\ pc = "undo" /\ p \in todo
  /\ todo' = todo \ {p}
  /\ UNCHANGED <<files, journals, pc, client, cur, mem, batch, pending, recovering>>

Restore(p) ==
  /\ pc = "undo" /\ p \in todo
  /\ pre[cur][p] # Absent => p \in bak[cur]
  /\ root' = [root EXCEPT ![p] = pre[cur][p]]
  /\ todo' = todo \ {p}
  /\ UNCHANGED <<stable, journals, pc, client, cur, mem, batch, pending, recovering>>

\* mutant: "rolled-back" is published before the last entry is restored
PublishBeforeRestore == pc = "undo" /\ Publish("rolled-back", "sync-undo")

RollbackPublish ==
  pc = "undo" /\ todo = {} /\ Publish("rolled-back", "sync-undo")

\* a recovering process goes on with the remaining directories
RollbackSync ==
  /\ pc = "sync-undo"
  /\ SyncDirectory
  /\ IF recovering
       THEN /\ pc' = "recover" /\ cur' = NoOp /\ mem' = {}
            /\ UNCHANGED <<client, batch, todo, pending, recovering>>
       ELSE Exit

\* a restore or persist fails: the journal is left to the next recovery
RollbackFails ==
  /\ \/ pc = "undo" /\ ("error" \in Faults
                        \/ \E p \in todo : pre[cur][p] # Absent /\ p \notin bak[cur])
     \/ pc = "sync-undo" /\ "dirsync" \in Faults
  /\ Exit /\ UNCHANGED <<files, journals>>

-----------------------------------------------------------------------------
(* The environment                                                         *)

Kill ==
  /\ "kill" \in Faults /\ pc # "idle"
  /\ Exit /\ UNCHANGED <<files, journals>>

PowerLoss ==
  /\ "power" \in Faults
  /\ root' = stable /\ dir' = dirStable /\ log' = logStable /\ bak' = bakStable
  /\ UNCHANGED <<stable, dirStable, logStable, bakStable, pre>>
  /\ Exit

WritebackPath(p) ==
  /\ "power" \in Faults
  /\ stable' = [stable EXCEPT ![p] = root[p]]
  /\ UNCHANGED <<root, journals, process>>

WritebackDirectory(o) ==
  /\ "power" \in Faults
  /\ dirStable' = [dirStable EXCEPT ![o] = dir[o]]
  /\ UNCHANGED <<files, dir, log, logStable, bak, bakStable, pre, process>>

\* the flushed part of the log; a torn last record does not count
WritebackLog(o, p) ==
  /\ "power" \in Faults /\ p \in log[o]
  /\ logStable' = [logStable EXCEPT ![o] = @ \cup {p}]
  /\ UNCHANGED <<files, dir, dirStable, log, bak, bakStable, pre, process>>

WritebackBackup(o, p) ==
  /\ "power" \in Faults /\ p \in bak[o]
  /\ bakStable' = [bakStable EXCEPT ![o] = @ \cup {p}]
  /\ UNCHANGED <<files, dir, dirStable, log, logStable, bak, pre, process>>

Environment ==
  \/ Kill \/ PowerLoss
  \/ \E p \in Path : WritebackPath(p)
  \/ \E o \in Op : WritebackDirectory(o)
  \/ \E o \in Op, p \in Path : WritebackLog(o, p) \/ WritebackBackup(o, p)

Process ==
  \/ \E c \in Client : Start(c)
  \/ \E o \in Op : \/ OpenFails(o) \/ SkipFinished(o) \/ OpenActive(o)
                   \/ RollbackActive(o) \/ MakeDirectory(o)
  \/ RecoverDone \/ Return
  \/ BeginPublish \/ BeginSync \/ BeginFails
  \/ \E S \in SUBSET Path : Capture(S)
  \/ CaptureSyncBackups \/ CaptureAppend \/ CaptureSyncLog \/ CaptureFails
  \/ \E p \in Path, v \in Content : Mutate(p, v) \/ RestoreTorn(p, v)
  \/ \E p \in Path : Restore(p)
  \/ SyncPayload \/ CommitPublish \/ CommitSync \/ Abort
  \/ RollbackPublish \/ RollbackSync \/ RollbackFails

Next == Process \/ Environment

Spec == Init /\ [][Next]_vars

-----------------------------------------------------------------------------
(* What a recovery would make of the files, now and after a power loss.    *)

Recoverable(d, l, b, content) ==
  [p \in Path |->
     IF \E o \in Op : d[o] = "active" /\ p \in l[o]
       THEN b[CHOOSE o \in Op : d[o] = "active" /\ p \in l[o]][p]
       ELSE content[p]]

Logical == Recoverable(dir, log, pre, root)
LogicalStable == Recoverable(dirStable, logStable, pre, stable)

Store == INSTANCE AtomicStore
           WITH value <- Logical,
                open <- {o \in Op : dir[o] = "active"},
                committed <- {o \in Op : dir[o] = "committed"}

(* Whatever kills the process and whichever step fails, the files change   *)
(* only when state.json becomes "committed" (Commit), and recovery undoes  *)
(* all of an operation that did not get there (RecoverActive, Rollback).   *)
Atomic == Store!Spec

(* RecoverActive runs before begin, so there is never a second journal to  *)
(* roll back: the order in which directories are visited cannot matter.    *)
OneActive ==
  \A o, q \in Op : dir[o] = "active" /\ dir[q] = "active" => o = q

(* The recovery a transaction starts with leaves no active journal behind, *)
(* and the journal it then opens is the only one until it exits.           *)
Exclusive ==
  /\ OneActive
  /\ pc = "recover" => \A o \in Op : dir[o] = "active" => o \in pending
  /\ pc \notin {"idle", "recover"} => \A o \in Op : dir[o] = "active" => o = cur
  /\ pc = "publish-begin" => dir[cur] = "made"
  /\ pc = "sync-undo" => dir[cur] = "rolled-back"

(* Write-ahead: a path changes only once the log of the active journal     *)
(* holds its preimage, and at any point of Rollback the paths no longer to *)
(* be restored hold theirs.                                                *)
WriteAhead ==
  /\ pc \in {"sync-begin", "open", "backup", "append", "sync-append", "synced",
             "undo"} => dir[cur] = "active"
  /\ pc \in {"idle", "recover", "ready", "publish-begin", "sync-begin"} => mem = {}
  /\ pc = "publish-begin" => log[cur] = {}
  /\ pc \in {"sync-begin", "open", "backup", "append", "synced"} => log[cur] = mem
  /\ pc = "sync-append" => log[cur] = mem \cup batch
  /\ pc \in {"backup", "append", "sync-append"} =>
       \A p \in batch : pre[cur][p] = root[p]
  /\ pc = "undo" => /\ todo \subseteq log[cur]
                    /\ \A p \in log[cur] \ todo : pre[cur][p] = root[p]

(* As long as no power is lost and directory syncs succeed, every state of *)
(* the journal can be undone: the invariant behind OneActive and Atomic.   *)
Undoable == Exclusive /\ WriteAhead

(* Capture syncs the backups before it writes the records that name them:  *)
(* a record that recovery may find on disk can be restored from it.        *)
BackupBeforeRecord ==
  \A o \in Op : \A p \in logStable[o] : pre[o][p] # Absent => p \in bakStable[o]

NoRollbackYet ==
  \A o \in Op : dir[o] # "rolled-back" /\ dirStable[o] # "rolled-back"

(* Merge syncs the payload before it commits: what a power loss leaves,    *)
(* once recovered, changes only when "committed" reaches the disk, and is  *)
(* then everything the transaction wrote.                                  *)
MergeDurable ==
  [][ NoRollbackYet' =>
        \/ LogicalStable' = LogicalStable
        \/ /\ \E o \in Op : dirStable[o] = "active" /\ dirStable'[o] = "committed"
           /\ LogicalStable' = root ]_vars

-----------------------------------------------------------------------------
(* Statements of the repository that the code does not keep in full.       *)

(* "transactionally removes one VDB entry and its exclusively-owned        *)
(* payload", "enables durable rollback journaling": once the end of a      *)
(* transaction is on disk (Commit of UnmergeWithConfig, Rollback), a power *)
(* loss leaves all of what it did, or of what it undid.                    *)
FinishedDurable ==
  [][ \A o \in Op :
        /\ dirStable[o] = "active" /\ dirStable'[o] = "committed"
             => LogicalStable' = root
        /\ dirStable[o] = "active" /\ dirStable'[o] = "rolled-back"
             => LogicalStable' = LogicalStable ]_vars

(* "recover every active journal": an interrupted transaction leaves only  *)
(* operation directories that Open accepts, since RecoverActive and List   *)
(* give up at the first one that it does not.                              *)
InterruptedReadable == pc = "idle" => \A o \in Op : dir[o] # "made"

=============================================================================
