---------------------------- MODULE RecoverySet ----------------------------
(***************************************************************************)
(* Recovery sets (internal/recoveryset, the capture half of                *)
(* internal/binpkg and the callers in cmd/arise): before a live update the *)
(* installed packages it replaces are captured into a content-addressed    *)
(* store and published as one signed set; the set is later verified after  *)
(* a reboot, restored, or pruned.  The update and the recover commands are *)
(* separate processes: only the VDB lock (updates, restores) and the lock  *)
(* of the store (status changes, pruning) order them.                      *)
(*                                                                         *)
(* An artifact is the package and the version it holds, so content         *)
(* addressing is equality, and a set directory holds hard links of its     *)
(* own.                                                                    *)
(***************************************************************************)
EXTENDS Naturals, Sequences, FiniteSets, SequencesExt

CONSTANTS
  Set,      \* numbers that stand for set identifiers (NewID never repeats one)
  Pkg,      \* installed packages the update replaces, in capture order
  MaxBoot,  \* bound: boots
  Keep,     \* verified sets retained by prune-sets
  Alone,    \* the operator runs verify-set while no other command runs
  None

VARIABLES
  boot,      \* current boot identity
  vdb,       \* [Pkg -> installed version]
  store,     \* [Set -> published set or None]
  recency,   \* published sets in order of their status change (UpdatedAt)
  objects,   \* objects/sha256
  key,       \* signing.key: "absent", "torn", "good"
  vdbLock,   \* holder of the VDB lock
  storeLock, \* holder of the store's .lock
  update, restore, verify, prune, \* the four commands
  settled    \* boot in which the last change covered by a set completed

vars == <<boot, vdb, store, recency, objects, key, vdbLock, storeLock,
          update, restore, verify, prune, settled>>

Packages == ToSet(Pkg)

Idle == [pc |-> "idle", set |-> None, todo |-> <<>>, held |-> {}, seen |-> None,
         expect |-> None]

Init ==
  /\ boot = 1 /\ vdb = [p \in Packages |-> 1]
  /\ store = [s \in Set |-> None] /\ recency = <<>> /\ objects = {} /\ key = "absent"
  /\ vdbLock = None /\ storeLock = None
  /\ update = Idle /\ restore = Idle /\ verify = Idle /\ prune = Idle
  /\ settled = [s \in Set |-> 0]

Published == {s \in Set : store[s] # None}

\* ReadRecoveryManifest: every artifact of the manifest is there and matches
Intact(s) == s \in Published /\ store[s].files = store[s].manifest

\* Read: the manifest, its signature and every artifact check out
Readable(s) == key = "good" /\ Intact(s)

\* markStatus, under the store's lock; the capture boot is carried over
Marked(s, status, verifiedBoot) ==
  /\ storeLock = None /\ Readable(s)
  /\ store' = [store EXCEPT ![s].status = status, ![s].verifiedBoot = verifiedBoot]
  /\ recency' = Append(SelectSeq(recency, LAMBDA x : x # s), s)

disk == <<boot, vdb, store, recency, objects, key, settled>>
locks == <<vdbLock, storeLock>>

-----------------------------------------------------------------------------
(* arise install on the live root: PrepareMutation, Execute, outcome       *)

\* the other commands
besideUpdate == <<restore, verify, prune>>
besideRestore == <<update, verify, prune>>
besideVerify == <<update, restore, prune>>
besidePrune == <<update, restore, verify>>

\* Identifiers are random and nothing compares them: they are taken in order.
Used(s) == s \in Published \/ settled[s] # 0

StartUpdate(s) ==
  /\ update.pc = "idle" /\ vdbLock = None /\ ~Used(s)
  /\ \A t \in Set : t < s => Used(t)
  /\ Alone => verify.pc = "idle"
  /\ vdbLock' = "update"
  /\ update' = [Idle EXCEPT !.pc = "evidence", !.set = s, !.todo = Pkg, !.expect = vdb]
  /\ UNCHANGED <<disk, storeLock, besideUpdate>>

\* the deferred RemoveAll(staging) and the release of the lock
EndUpdate == update' = Idle /\ vdbLock' = None

\* buildRecoveryManifest: metadata and payload are read once ...
CaptureEvidence ==
  /\ update.pc = "evidence" /\ update.todo # <<>>
  /\ update' = [update EXCEPT !.pc = "copy", !.seen = vdb[Head(update.todo)]]
  /\ UNCHANGED <<disk, locks, besideUpdate>>

\* ... and the payload again while it is archived: a file edited in between
\* ends the capture
CaptureCopy ==
  /\ update.pc = "copy"
  /\ \/ update' = [update EXCEPT !.pc = "link"] /\ UNCHANGED vdbLock
     \/ EndUpdate
  /\ UNCHANGED <<disk, storeLock, besideUpdate>>

Artifact == <<Head(update.todo), update.seen>>

\* materializeObject: link the artifact into the object directory ...
LinkObject ==
  /\ update.pc = "link"
  /\ objects' = objects \cup {Artifact}
  /\ update' = [update EXCEPT !.pc = "relink"]
  /\ UNCHANGED <<boot, vdb, store, recency, key, settled, locks, besideUpdate>>

\* ... then replace the staged copy by a link to the object, which a
\* concurrent prune-sets may have collected
RelinkObject ==
  /\ update.pc = "relink"
  /\ IF Artifact \in objects
     THEN /\ update' = [update EXCEPT !.pc = "evidence", !.todo = Tail(@),
                                      !.held = @ \cup {Artifact}, !.seen = None]
          /\ UNCHANGED vdbLock
     ELSE EndUpdate
  /\ UNCHANGED <<disk, storeLock, besideUpdate>>

Captured == update.pc = "evidence" /\ update.todo = <<>>

\* loadOrCreateStoreSigner: O_EXCL creation and the write are two steps
CreateKey ==
  /\ Captured /\ key = "absent"
  /\ key' = "torn" /\ update' = [update EXCEPT !.pc = "key"]
  /\ UNCHANGED <<boot, vdb, store, recency, objects, settled, locks, besideUpdate>>

WriteKey ==
  /\ update.pc = "key"
  /\ key' = "good" /\ update' = [update EXCEPT !.pc = "evidence"]
  /\ UNCHANGED <<boot, vdb, store, recency, objects, settled, locks, besideUpdate>>

RefuseKey ==
  /\ Captured /\ key = "torn" /\ EndUpdate
  /\ UNCHANGED <<disk, storeLock, besideUpdate>>

\* manifest and status are synced in the staging directory, then renamed
Publish ==
  /\ Captured /\ key = "good"
  /\ store' = [store EXCEPT ![update.set] =
       [files |-> update.held, manifest |-> update.held, status |-> "active",
        captureBoot |-> boot, verifiedBoot |-> 0]]
  /\ recency' = Append(recency, update.set)
  /\ update' = [update EXCEPT !.pc = "mutate", !.todo = Pkg]
  /\ UNCHANGED <<boot, vdb, objects, key, settled, locks, besideUpdate>>

\* the first package is replaced under the lock of the capture, and so each
\* of the others under a lock of its own; the guard records the new state
Replace ==
  /\ update.pc = "mutate"
  /\ vdb' = [vdb EXCEPT ![Head(update.todo)] = @ + 1]
  /\ update' = [update EXCEPT !.pc = "between", !.todo = Tail(@), !.expect = vdb']
  /\ vdbLock' = None
  /\ UNCHANGED <<boot, store, recency, objects, key, settled, storeLock, besideUpdate>>

\* Mutant: the state is not validated again under the next package's lock
LockNext_unvalidated ==
  /\ update.pc = "between" /\ update.todo # <<>> /\ vdbLock = None
  /\ vdbLock' = "update" /\ update' = [update EXCEPT !.pc = "mutate"]
  /\ UNCHANGED <<disk, storeLock, besideUpdate>>

\* BeginMutation of a later package: wait for the lock, validate the state
LockNext ==
  /\ update.pc = "between" /\ update.todo # <<>> /\ vdbLock = None
  /\ IF vdb = update.expect
     THEN vdbLock' = "update" /\ update' = [update EXCEPT !.pc = "mutate"]
     ELSE update' = [update EXCEPT !.pc = "failed"] /\ UNCHANGED vdbLock
  /\ UNCHANGED <<disk, storeLock, besideUpdate>>

\* a build fails, or a merge that the journal rolls back
UpdateFails ==
  /\ \/ update.pc = "between" /\ update.todo # <<>> /\ UNCHANGED vdbLock
     \/ update.pc = "mutate" /\ vdbLock' = None
  /\ update' = [update EXCEPT !.pc = "failed"]
  /\ UNCHANGED <<disk, storeLock, besideUpdate>>

\* markRecoverySetOutcome
MarkOutcome ==
  /\ \/ update.pc = "failed"
     \/ update.pc = "between" /\ update.todo = <<>>
  /\ IF Readable(update.set)
     THEN Marked(update.set, IF update.pc = "failed" THEN "failed" ELSE "pending-verification", 0)
     ELSE UNCHANGED <<store, recency>>
  /\ settled' = [settled EXCEPT ![update.set] = boot]
  /\ update' = Idle
  /\ UNCHANGED <<boot, vdb, objects, key, locks, besideUpdate>>

-----------------------------------------------------------------------------
(* arise recover restore-set                                               *)

\* restoreVDBMetadata, in reverse capture order
InReverse(s) == Reverse(SelectSeq(Pkg, LAMBDA p : \E a \in store[s].manifest : a[1] = p))

StartRestore(s) ==
  /\ restore.pc = "idle" /\ Readable(s)
  /\ Alone => verify.pc = "idle"
  /\ restore' = [Idle EXCEPT !.pc = "mark", !.set = s, !.todo = InReverse(s)]
  /\ UNCHANGED <<disk, locks, besideRestore>>

MarkRollback ==
  /\ restore.pc = "mark" /\ storeLock = None
  /\ IF Readable(restore.set)
     THEN Marked(restore.set, "pending-rollback", 0) /\ restore' = [restore EXCEPT !.pc = "lock"]
     ELSE restore' = Idle /\ UNCHANGED <<store, recency>>
  /\ UNCHANGED <<boot, vdb, objects, key, settled, locks, besideRestore>>

LockRestore ==
  /\ restore.pc = "lock"
  /\ IF vdbLock = None
     THEN vdbLock' = "restore" /\ restore' = [restore EXCEPT !.pc = "merge"]
     ELSE restore' = Idle /\ UNCHANGED vdbLock
  /\ UNCHANGED <<disk, storeLock, besideRestore>>

EndRestore == restore' = Idle /\ vdbLock' = None

\* Mutant: the newer of the installed and the captured version is kept
RestorePackage_newest ==
  /\ restore.pc = "merge" /\ restore.todo # <<>>
  /\ IF Intact(restore.set)
     THEN \E a \in store[restore.set].files :
            /\ a[1] = Head(restore.todo)
            /\ vdb' = [vdb EXCEPT ![a[1]] = IF @ > a[2] THEN @ ELSE a[2]]
            /\ restore' = [restore EXCEPT !.todo = Tail(@)]
            /\ UNCHANGED vdbLock
     ELSE EndRestore /\ UNCHANGED vdb
  /\ UNCHANGED <<boot, store, recency, objects, key, settled, storeLock, besideRestore>>

\* restoreReplacement picks the installed version of the slot, older or newer
RestorePackage ==
  /\ restore.pc = "merge" /\ restore.todo # <<>>
  /\ IF Intact(restore.set)
     THEN \E a \in store[restore.set].files :
            /\ a[1] = Head(restore.todo)
            /\ vdb' = [vdb EXCEPT ![a[1]] = a[2]]
            /\ restore' = [restore EXCEPT !.todo = Tail(@)]
            /\ UNCHANGED vdbLock
     ELSE EndRestore /\ UNCHANGED vdb
  /\ UNCHANGED <<boot, store, recency, objects, key, settled, storeLock, besideRestore>>

RestoreFails ==
  /\ restore.pc = "merge" /\ restore.todo # <<>> /\ EndRestore
  /\ UNCHANGED <<disk, storeLock, besideRestore>>

FinishRestore ==
  /\ restore.pc = "merge" /\ restore.todo = <<>> /\ storeLock = None
  /\ IF Readable(restore.set)
     THEN /\ Marked(restore.set, "pending-verification", 0)
          /\ settled' = [settled EXCEPT ![restore.set] = boot]
     ELSE UNCHANGED <<store, recency, settled>>
  /\ EndRestore
  /\ UNCHANGED <<boot, vdb, objects, key, storeLock, besideRestore>>

-----------------------------------------------------------------------------
(* arise recover verify-set and prune-sets                                 *)

\* VerifyAfterReboot reads the status without the store's lock ...
StartVerify(s) ==
  /\ verify.pc = "idle" /\ Readable(s)
  /\ Alone => update.pc = "idle" /\ restore.pc = "idle"
  /\ store[s].status = "pending-verification" /\ store[s].captureBoot # boot
  /\ verify' = [Idle EXCEPT !.pc = "mark", !.set = s]
  /\ UNCHANGED <<disk, locks, besideVerify>>

\* ... and marks whatever status it has by then
MarkVerified ==
  /\ verify.pc = "mark" /\ storeLock = None
  /\ Alone => update.pc = "idle" /\ restore.pc = "idle"
  /\ IF Readable(verify.set) THEN Marked(verify.set, "verified", boot)
     ELSE UNCHANGED <<store, recency>>
  /\ verify' = Idle
  /\ UNCHANGED <<boot, vdb, objects, key, settled, locks, besideVerify>>

\* ReadStatus must succeed: whatever is in doubt is preserved
Prunable == SelectSeq(recency, LAMBDA s : Readable(s) /\ store[s].status = "verified")

\* everything but the Keep newest
Victims == ToSet(SubSeq(Prunable, 1, Len(Prunable) - Keep))

PruneSets ==
  /\ prune.pc = "idle" /\ storeLock = None
  /\ store' = [s \in Set |-> IF s \in Victims THEN None ELSE store[s]]
  /\ recency' = SelectSeq(recency, LAMBDA s : s \notin Victims)
  /\ storeLock' = "prune" /\ prune' = [Idle EXCEPT !.pc = "scan"]
  /\ UNCHANGED <<boot, vdb, objects, key, settled, vdbLock, besidePrune>>

\* pruneUnreferencedObjects: one unreadable set ends the collection
ScanObjects ==
  /\ prune.pc = "scan"
  /\ IF \A s \in Published : Readable(s)
     THEN prune' = [prune EXCEPT !.pc = "collect",
                    !.held = UNION {store[s].manifest : s \in Published}]
          /\ UNCHANGED storeLock
     ELSE prune' = Idle /\ storeLock' = None
  /\ UNCHANGED <<disk, vdbLock, besidePrune>>

CollectObjects ==
  /\ prune.pc = "collect"
  /\ objects' = objects \cap prune.held
  /\ prune' = Idle /\ storeLock' = None
  /\ UNCHANGED <<boot, vdb, store, recency, key, settled, vdbLock, besidePrune>>

-----------------------------------------------------------------------------
(* The world around                                                        *)

\* every process dies; the kernel drops their locks
Reboot ==
  /\ boot < MaxBoot /\ boot' = boot + 1
  /\ update' = Idle /\ restore' = Idle /\ verify' = Idle /\ prune' = Idle
  /\ vdbLock' = None /\ storeLock' = None
  /\ UNCHANGED <<vdb, store, recency, objects, key, settled>>

Next ==
  \/ \E s \in Set : StartUpdate(s) \/ StartRestore(s) \/ StartVerify(s)
  \/ CaptureEvidence \/ CaptureCopy \/ LinkObject \/ RelinkObject
  \/ CreateKey \/ WriteKey \/ RefuseKey \/ Publish \/ Replace \/ LockNext
  \/ UpdateFails \/ MarkOutcome
  \/ MarkRollback \/ LockRestore \/ RestorePackage \/ RestoreFails \/ FinishRestore
  \/ MarkVerified \/ PruneSets \/ ScanObjects \/ CollectObjects
  \/ Reboot

Spec == Init /\ [][Next]_vars

-----------------------------------------------------------------------------
(* Properties                                                              *)

\* A published set holds an artifact of every package the update replaces,
\* whatever is captured, published and collected around it: no crash, edit or
\* prune-sets leaves one behind that cannot be restored.
PublishedIsComplete ==
  \A s \in Published : /\ store[s].files = store[s].manifest
                       /\ {a[1] : a \in store[s].files} = Packages

\* The update touches a package only once the set that holds it is
\* published, and the set holds the version the package has: nothing that is
\* replaced is lost, though the lock is free between two packages.
ReplacedIsCaptured ==
  \A p \in Packages :
    update.pc = "mutate" /\ vdb'[p] > vdb[p] =>
      \E a \in store[update.set].files : a[1] = p /\ a[2] = vdb[p]

\* A restore that completes leaves every captured package as it was captured,
\* however many attempts failed or were cut short before.
RestoredIsCaptured ==
  \A s \in Published :
       restore.set = s /\ restore.pc = "merge" /\ restore.todo = <<>> =>
         \A a \in store[s].files : vdb[a[1]] = a[2]

\* prune-sets removes a set only once it is verified: an active, failed or
\* half-restored one stays, and the newest Keep verified ones as well.
OnlyVerifiedIsPruned ==
  \A s \in Published : store'[s] = None =>
    /\ store[s].status = "verified" /\ ~(s = restore.set /\ restore.pc = "merge")
    /\ Cardinality({x \in Published : store'[x] # None /\ store[x].status = "verified"}) >= Keep

\* "verified status lacks subsequent-boot evidence": verified sets carry a
\* boot later than their capture.
VerifiedAfterCapture ==
  \A s \in Published : store[s].status = "verified" =>
    store[s].verifiedBoot # 0 /\ store[s].verifiedBoot # store[s].captureBoot

\* "verification requires a successful subsequent boot": the system has been
\* booted since the change the set covers, an update or a restore, completed.
VerifiedAfterBoot ==
  \A s \in Published : store[s].status = "verified" => store[s].verifiedBoot > settled[s]
=============================================================================
