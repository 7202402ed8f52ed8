---------------------------- MODULE BinaryStore ----------------------------
(***************************************************************************)
(* PKGDIR, the directory of binary packages: concurrent builds publish     *)
(* archives and their entries of the Packages index under one lock         *)
(* (publishBuiltGPKG), planned remote binaries are downloaded into it,     *)
(* quickpkg captures installed packages into it, and the installer reads   *)
(* an archive by its name more than once.                                  *)
(*                                                                         *)
(* One package version: an archive's name is its BUILD_ID, its bytes are   *)
(* a number nothing else has, and the index holds <<build id, bytes>>.     *)
(***************************************************************************)
EXTENDS Naturals

CONSTANTS
  Builder,  \* concurrent build jobs, of one or of several processes
  Remote,   \* build ids a binhost advertises
  MaxMade,  \* bound: archives ever made
  MaxLoss   \* bound: power losses

VARIABLES
  archives, onDisk,     \* [name -> bytes, 0 if absent]: seen by processes, durable
  index, indexOnDisk,   \* Packages
  lock,                 \* holder of .arise-packages.lock
  job,                  \* [Builder -> state of publishBuiltGPKG]
  fetching, installer,  \* the download and the installation under way
  made, losses,         \* counters
  foreign               \* names written outside of the index's lock

vars == <<archives, onDisk, index, indexOnDisk, lock, job, fetching, installer,
          made, losses, foreign>>

Name == 1..MaxMade
Nobody == "nobody"

StoreAssumption == MaxMade \in Nat /\ Remote \subseteq Name /\ Nobody \notin Builder

Resting == [pc |-> "idle", seen |-> {}, id |-> 0]
NoInstall == [pc |-> "idle", name |-> 0, indexed |-> FALSE, metadata |-> 0, image |-> 0]

Init ==
  /\ archives = [n \in Name |-> 0] /\ onDisk = archives
  /\ index = {} /\ indexOnDisk = {}
  /\ lock = Nobody /\ job = [b \in Builder |-> Resting]
  /\ fetching = 0 /\ installer = NoInstall
  /\ made = 0 /\ losses = 0 /\ foreign = {}

-----------------------------------------------------------------------------
(* publishBuiltGPKG                                                        *)

\* flock waits
lockPackageIndex(b) ==
  /\ job[b].pc = "idle" /\ made < MaxMade
  /\ lock = Nobody
  /\ lock' = b /\ job' = [job EXCEPT ![b] = [Resting EXCEPT !.pc = "read"]]
  /\ UNCHANGED <<archives, onDisk, index, indexOnDisk, fetching, installer, made, losses, foreign>>

nextBuildID(entries) ==
  LET maximum == CHOOSE n \in 0..MaxMade : /\ n = 0 \/ \E e \in entries : e[1] = n
                                           /\ \A e \in entries : e[1] <= n
  IN  maximum + 1

readOrCreatePackageIndex(b) ==
  /\ job[b].pc = "read"
  /\ job' = [job EXCEPT ![b] = [pc |-> "rename", seen |-> index, id |-> nextBuildID(index)]]
  /\ UNCHANGED <<archives, onDisk, index, indexOnDisk, lock, fetching, installer, made, losses, foreign>>

\* CreateGPKG wrote and synced a temporary; it takes its final name, over
\* whatever an interrupted build or a download left there
RenameArchive(b) ==
  /\ job[b].pc = "rename" /\ made < MaxMade
  /\ archives' = [archives EXCEPT ![job[b].id] = made + 1]
  /\ made' = made + 1
  /\ job' = [job EXCEPT ![b].pc = "sync"]
  /\ UNCHANGED <<onDisk, index, indexOnDisk, lock, fetching, installer, losses, foreign>>

\* Mutant: the directory is not synced before the archive is indexed
SyncArchive_later(b) ==
  /\ job[b].pc = "sync"
  /\ job' = [job EXCEPT ![b].pc = "entry"]
  /\ UNCHANGED <<archives, onDisk, index, indexOnDisk, lock, fetching, installer, made, losses, foreign>>

SyncArchive(b) ==
  /\ job[b].pc = "sync"
  /\ onDisk' = [onDisk EXCEPT ![job[b].id] = archives[job[b].id]]
  /\ job' = [job EXCEPT ![b].pc = "entry"]
  /\ UNCHANGED <<archives, index, indexOnDisk, lock, fetching, installer, made, losses, foreign>>

\* ReadInfo and the digests of the published archive, read back by its name
NewPackageIndexEntry(b) ==
  /\ job[b].pc = "entry"
  /\ LET id == job[b].id IN
     job' = [job EXCEPT ![b] = [pc |-> "index", id |-> id,
                                seen |-> job[b].seen \cup {<<id, archives[id]>>}]]
  /\ UNCHANGED <<archives, onDisk, index, indexOnDisk, lock, fetching, installer, made, losses, foreign>>

\* WritePackagesIndex renames a synced temporary ...
RenameIndex(b) ==
  /\ job[b].pc = "index"
  /\ index' = job[b].seen
  /\ job' = [job EXCEPT ![b].pc = "syncindex"]
  /\ UNCHANGED <<archives, onDisk, indexOnDisk, lock, fetching, installer, made, losses, foreign>>

\* ... syncs the directory, and the lock is released
SyncIndex(b) ==
  /\ job[b].pc = "syncindex"
  /\ indexOnDisk' = index
  /\ lock' = Nobody /\ job' = [job EXCEPT ![b] = Resting]
  /\ UNCHANGED <<archives, onDisk, index, fetching, installer, made, losses, foreign>>

\* an error or the death of the job at any point: the lock goes with it
Abandon(b) ==
  /\ job[b].pc # "idle"
  /\ lock' = Nobody /\ job' = [job EXCEPT ![b] = Resting]
  /\ UNCHANGED <<archives, onDisk, index, indexOnDisk, fetching, installer, made, losses, foreign>>

-----------------------------------------------------------------------------
(* Writers outside of the lock                                             *)

\* acquirePlannedBinaries: an archive that can be read already is kept
StartFetch(n) ==
  /\ fetching = 0 /\ archives[n] = 0 /\ made < MaxMade
  /\ fetching' = n
  /\ UNCHANGED <<archives, onDisk, index, indexOnDisk, lock, job, installer, made, losses, foreign>>

\* downloadIndexedPackage: size, digests and container are verified, then
\* the temporary takes the name of the index entry
FinishFetch ==
  /\ fetching # 0
  /\ \/ /\ made < MaxMade
        /\ archives' = [archives EXCEPT ![fetching] = made + 1]
        /\ onDisk' = [onDisk EXCEPT ![fetching] = made + 1]
        /\ made' = made + 1 /\ foreign' = foreign \cup {fetching}
     \/ UNCHANGED <<archives, onDisk, made, foreign>>
  /\ fetching' = 0
  /\ UNCHANGED <<index, indexOnDisk, lock, job, installer, losses>>

\* CreateInstalledGPKG names the capture after the BUILD_ID of the VDB entry
QuickPkg(n) ==
  /\ installer.pc = "done" /\ installer.name = n /\ made < MaxMade
  /\ archives' = [archives EXCEPT ![n] = made + 1]
  /\ onDisk' = [onDisk EXCEPT ![n] = made + 1]
  /\ made' = made + 1 /\ foreign' = foreign \cup {n}
  /\ UNCHANGED <<index, indexOnDisk, lock, job, fetching, installer, losses>>

-----------------------------------------------------------------------------
(* InstallBinaryPackage                                                    *)

\* the plan names any archive that can be read, indexed or not
Select(n) ==
  /\ installer.pc \in {"idle", "done"} /\ archives[n] # 0
  /\ installer' = [NoInstall EXCEPT !.pc = "metadata", !.name = n,
                                    !.indexed = \E e \in index : e = <<n, archives[n]>>]
  /\ UNCHANGED <<archives, onDisk, index, indexOnDisk, lock, job, fetching, made, losses, foreign>>

\* ReadInfo and ReadGPKGWithPolicy ...
ReadMetadata ==
  /\ installer.pc = "metadata"
  /\ installer' = IF archives[installer.name] = 0 THEN NoInstall
                  ELSE [installer EXCEPT !.pc = "extract", !.metadata = archives[installer.name]]
  /\ UNCHANGED <<archives, onDisk, index, indexOnDisk, lock, job, fetching, made, losses, foreign>>

\* ... and ExtractWithGPKGPolicy open the archive anew
ExtractGPKG ==
  /\ installer.pc = "extract"
  /\ installer' = IF archives[installer.name] = 0 THEN NoInstall
                  ELSE [installer EXCEPT !.pc = "done", !.image = archives[installer.name]]
  /\ UNCHANGED <<archives, onDisk, index, indexOnDisk, lock, job, fetching, made, losses, foreign>>

-----------------------------------------------------------------------------
\* a rename that was not synced may be lost; no process survives
PowerLoss ==
  /\ losses < MaxLoss /\ losses' = losses + 1
  /\ \E lost \in SUBSET Name :
       archives' = [n \in Name |-> IF n \in lost THEN onDisk[n] ELSE archives[n]]
  /\ index' \in {index, indexOnDisk}
  /\ onDisk' = archives' /\ indexOnDisk' = index'
  /\ lock' = Nobody /\ job' = [b \in Builder |-> Resting]
  /\ fetching' = 0 /\ installer' = NoInstall
  /\ UNCHANGED <<made, foreign>>

Next ==
  \/ \E b \in Builder : \/ lockPackageIndex(b) \/ readOrCreatePackageIndex(b)
                        \/ RenameArchive(b) \/ SyncArchive(b) \/ NewPackageIndexEntry(b)
                        \/ RenameIndex(b) \/ SyncIndex(b) \/ Abandon(b)
  \/ \E n \in Remote : StartFetch(n)
  \/ \E n \in Name : Select(n) \/ QuickPkg(n)
  \/ FinishFetch \/ ReadMetadata \/ ExtractGPKG \/ PowerLoss

Spec == Init /\ [][Next]_vars

-----------------------------------------------------------------------------
(* Properties                                                              *)

\* Whatever builds run, die or lose power, the archive of an index entry
\* exists with the bytes whose digests the entry records, unless a download
\* or quickpkg wrote that name without the lock.
IndexedIsIntact ==
  \A e \in index : e[1] \notin foreign => archives[e[1]] = e[2]

\* A build publishes its entry beside the others: short of a power loss no
\* entry is ever lost to another build.
EntriesStay == losses' = losses => index \subseteq index'

\* An archive that was indexed when the plan chose it is merged as it is: its
\* metadata and its image are of one archive although each is read by name.
InstalledFromOneArchive ==
  installer.pc = "done" /\ installer.indexed /\ installer.name \notin foreign =>
    installer.metadata = installer.image

\* What the package directory promises to its readers, together.
StoreIsIntact == IndexedIsIntact /\ InstalledFromOneArchive
=============================================================================
