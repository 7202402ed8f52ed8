------------------------- MODULE BinaryStoreProofs -------------------------
(***************************************************************************)
(* Proofs about BinaryStore, for any builders, downloads and power losses: *)
(* the index describes the archives, an installation reads one archive,    *)
(* and no build drops the entry of another.                                *)
(***************************************************************************)
EXTENDS BinaryStore, WellFoundedInduction, TLAPS

Entry == Name \X Nat
Stages == {"idle", "read", "rename", "sync", "entry", "index", "syncindex"}
Publication == [pc : Stages, seen : SUBSET Entry, id : Nat]
Installation == [pc : {"idle", "metadata", "extract", "done"}, name : Name \cup {0},
                 indexed : BOOLEAN, metadata : Nat, image : Nat]

TypeOK ==
  /\ archives \in [Name -> Nat] /\ onDisk \in [Name -> Nat]
  /\ index \subseteq Entry /\ indexOnDisk \subseteq index
  /\ lock \in Builder \cup {Nobody} /\ job \in [Builder -> Publication]
  /\ fetching \in Name \cup {0} /\ installer \in Installation
  /\ installer.pc # "idle" => installer.name \in Name
  /\ made \in 0..MaxMade /\ losses \in Nat /\ foreign \subseteq Name

\* A build holds the lock from lockPackageIndex to the end.
Exclusive == \A b \in Builder : job[b].pc # "idle" <=> lock = b

\* An entry describes its archive, in the page cache and on disk.
Described ==
  \A e \in index : /\ e[1] <= made
                   /\ e[1] \notin foreign => archives[e[1]] = e[2] /\ onDisk[e[1]] = e[2]

\* The build id is above every entry until the index is written, what was read
\* of the index is still what it holds, and the archive is durable before the
\* entry is made.
Publishing(b) ==
  /\ job[b].pc \in {"rename", "sync", "entry", "index"} =>
       job[b].id \in 1..(made + 1) /\ \A e \in index : e[1] < job[b].id
  /\ job[b].pc \in {"sync", "entry", "index"} => job[b].id <= made
  /\ job[b].pc \in {"rename", "sync", "entry"} => job[b].seen = index
  /\ job[b].pc \in {"entry", "index"} /\ job[b].id \notin foreign =>
       onDisk[job[b].id] = archives[job[b].id]
  /\ job[b].pc = "index" =>
       /\ index \subseteq job[b].seen
       /\ \A e \in job[b].seen : \/ e \in index
                                 \/ /\ e[1] = job[b].id
                                    /\ e[1] \notin foreign => e[2] = archives[e[1]]

Publications == \A b \in Builder : Publishing(b)

\* The archive an installation chose from the index is still the indexed one.
Chosen ==
  installer.indexed /\ installer.name \notin foreign =>
    /\ installer.pc \in {"metadata", "extract"} =>
         <<installer.name, archives[installer.name]>> \in index
    /\ installer.pc = "extract" => installer.metadata = archives[installer.name]
    /\ installer.pc = "done" => installer.metadata = installer.image

Invariant == TypeOK /\ Exclusive /\ Described /\ Publications /\ Chosen

-----------------------------------------------------------------------------
(* Build ids                                                               *)

\* A set of naturals that is not empty has a least element.
LEMMA LeastNatural ==
  ASSUME NEW T \in SUBSET Nat, T # {}
  PROVE  \E m \in T : \A n \in T : m <= n
<1> DEFINE R == OpToRel(<, Nat)
<1>1. IsWellFoundedOn(R, Nat)
  BY NatLessThanWellFounded, Zenon
<1>2. \A x, y \in Nat : <<y, x>> \in R <=> y < x
  BY DEF OpToRel
<1> HIDE DEF R
<1>3. PICK m \in T : \A y \in T : ~(<<y, m>> \in R)
  BY <1>1, WFMin, Zenon
<1>4. ASSUME NEW n \in T PROVE m <= n
  <2>1. ~(n < m)
    BY <1>2, <1>3, Zenon
  <2> QED BY <2>1
<1> QED BY <1>4

\* nextBuildID is above every entry, and the archives made so far bound it.
LEMMA NextIdIsFresh ==
  ASSUME StoreAssumption, NEW made0 \in 0..MaxMade, NEW entries \in SUBSET Entry,
         \A e \in entries : e[1] <= made0
  PROVE  /\ nextBuildID(entries) \in 1..(made0 + 1)
         /\ \A e \in entries : e[1] < nextBuildID(entries)
<1> DEFINE Bound == {n \in Nat : \A e \in entries : e[1] <= n}
           Greatest(n) == /\ n = 0 \/ \E e \in entries : e[1] = n
                          /\ \A e \in entries : e[1] <= n
<1>1. MaxMade \in Nat /\ made0 \in Nat /\ made0 <= MaxMade
  BY DEF StoreAssumption
<1>2. made0 \in Bound /\ Bound \in SUBSET Nat
  BY <1>1
<1>3. PICK m \in Bound : \A n \in Bound : m <= n
  BY <1>2, LeastNatural, Zenon
<1>4. \A e \in entries : e[1] \in Nat
  BY <1>1 DEF Entry, Name
<1>5. m \in Nat /\ m <= made0 /\ \A e \in entries : e[1] <= m
  BY <1>2, <1>3
<1>6. m = 0 \/ \E e \in entries : e[1] = m
  <2> SUFFICES ASSUME m # 0, \A e \in entries : e[1] # m PROVE FALSE
    OBVIOUS
  <2>1. m - 1 \in Nat /\ \A e \in entries : e[1] <= m - 1
    BY <1>4, <1>5
  <2>2. m - 1 \in Bound
    BY <2>1
  <2> QED BY <1>3, <1>5, <2>2
<1>7. Greatest(m) /\ m \in 0..MaxMade
  BY <1>1, <1>5, <1>6
<1> DEFINE maximum == CHOOSE n \in 0..MaxMade : Greatest(n)
<1>8. maximum \in 0..MaxMade /\ Greatest(maximum)
  BY <1>7
<1>9. nextBuildID(entries) = maximum + 1
  BY DEF nextBuildID
<1> HIDE DEF maximum
<1>10. maximum <= made0
  BY <1>1, <1>8
<1> QED BY <1>1, <1>4, <1>8, <1>9, <1>10

-----------------------------------------------------------------------------
(* Publishing a built package                                              *)

\* the variables that only a part of the actions change
Readers == <<fetching, installer>>

\* A build takes the lock, or reads the index under it.
LEMMA LockSteps ==
  ASSUME StoreAssumption, Invariant, NEW b \in Builder,
         lockPackageIndex(b) \/ readOrCreatePackageIndex(b)
  PROVE  Invariant'
<1> USE DEF Invariant
<1>1. /\ UNCHANGED <<archives, onDisk, index, indexOnDisk, Readers, made, losses, foreign>>
  BY DEF lockPackageIndex, readOrCreatePackageIndex, Readers
<1>2. Described' /\ Chosen'
  BY <1>1 DEF Described, Chosen, Readers
<1>3. CASE lockPackageIndex(b)
  <2>1. /\ lock = Nobody /\ lock' = b
        /\ job' = [job EXCEPT ![b] = [pc |-> "read", seen |-> {}, id |-> 0]]
    <3>1. [Resting EXCEPT !.pc = "read"] = [pc |-> "read", seen |-> {}, id |-> 0]
      BY DEF Resting
    <3> QED BY <1>3, <3>1, Zenon DEF lockPackageIndex
  <2>2. TypeOK'
    BY <1>1, <2>1 DEF TypeOK, Publication, Stages, Readers
  <2>3. \A c \in Builder : job'[c].pc = IF c = b THEN "read" ELSE job[c].pc
    BY <2>1 DEF TypeOK
  <2>4. Exclusive'
    BY <2>1, <2>3 DEF Exclusive, StoreAssumption
  <2>5. ASSUME NEW c \in Builder PROVE Publishing(c)'
    <3>1. CASE c = b
      BY <2>3, <3>1 DEF Publishing
    <3>2. CASE c # b
      <4>1. job'[c] = job[c]
        BY <2>1, <3>2 DEF TypeOK
      <4> QED BY <1>1, <4>1 DEF Publications, Publishing
    <3> QED BY <3>1, <3>2
  <2> QED BY <1>2, <2>2, <2>4, <2>5 DEF Publications
<1>4. CASE readOrCreatePackageIndex(b)
  <2>1. /\ job[b].pc = "read" /\ lock' = lock
        /\ job' = [job EXCEPT ![b] = [pc |-> "rename", seen |-> index, id |-> nextBuildID(index)]]
    BY <1>4 DEF readOrCreatePackageIndex
  <2>2. /\ nextBuildID(index) \in 1..(made + 1)
        /\ \A e \in index : e[1] < nextBuildID(index)
    BY NextIdIsFresh DEF TypeOK, Described
  <2>3. made \in Nat
    BY DEF TypeOK, StoreAssumption
  <2>4. TypeOK'
    BY <1>1, <2>1, <2>2, <2>3 DEF TypeOK, Publication, Stages, Readers
  <2>5. job'[b] = [pc |-> "rename", seen |-> index, id |-> nextBuildID(index)]
    BY <2>1 DEF TypeOK
  <2>6. \A c \in Builder : c # b => job'[c] = job[c]
    BY <2>1 DEF TypeOK
  <2>7. Exclusive'
    BY <2>1, <2>5, <2>6 DEF Exclusive
  <2>8. ASSUME NEW c \in Builder PROVE Publishing(c)'
    <3>1. CASE c = b
      BY <1>1, <2>2, <2>5, <3>1 DEF Publishing
    <3>2. CASE c # b
      BY <1>1, <2>6, <3>2 DEF Publications, Publishing
    <3> QED BY <3>1, <3>2
  <2> QED BY <1>2, <2>4, <2>7, <2>8 DEF Publications
<1> QED BY <1>3, <1>4

\* While a build is under way no other one is.
LEMMA OthersIdle ==
  ASSUME Exclusive, NEW b \in Builder, job[b].pc # "idle", NEW c \in Builder, c # b
  PROVE  job[c].pc = "idle"
BY DEF Exclusive

\* What is to be shown of a step of build b that leaves the lock alone: its new
\* record is typed, b still publishes, and the index and the archives agree.
LEMMA BuildStep ==
  ASSUME Invariant, NEW b \in Builder, NEW r \in Publication,
         job[b].pc # "idle", r.pc # "idle", job' = [job EXCEPT ![b] = r],
         UNCHANGED <<lock, fetching, installer, losses, foreign>>,
         archives' \in [Name -> Nat], onDisk' \in [Name -> Nat], made' \in 0..MaxMade,
         index' \subseteq Entry, indexOnDisk' \subseteq index',
         Described', Chosen', job'[b] = r => Publishing(b)'
  PROVE  Invariant'
<1>1. job \in [Builder -> Publication] /\ Exclusive
  BY DEF Invariant, TypeOK
<1>2. job'[b] = r /\ \A c \in Builder : c # b => job'[c] = job[c]
  BY <1>1
<1>3. TypeOK'
  <2>1. job' \in [Builder -> Publication]
    BY <1>1
  <2> QED BY <2>1 DEF Invariant, TypeOK
<1>4. Exclusive'
  BY <1>1, <1>2 DEF Exclusive
<1>5. Publications'
  <2>1. ASSUME NEW c \in Builder, c # b PROVE Publishing(c)'
    <3>1. job'[c].pc = "idle"
      BY <1>1, <1>2, <2>1, OthersIdle
    <3> QED BY <3>1 DEF Publishing
  <2> QED BY <1>2, <2>1 DEF Publications
<1> QED BY <1>3, <1>4, <1>5 DEF Invariant

\* The archive takes a name no entry has.
LEMMA RenameStep ==
  ASSUME StoreAssumption, Invariant, NEW b \in Builder, RenameArchive(b)
  PROVE  Invariant'
<1> DEFINE id == job[b].id
           r == [job[b] EXCEPT !.pc = "sync"]
<1>1. /\ job[b].pc = "rename" /\ made < MaxMade
      /\ archives' = [archives EXCEPT ![id] = made + 1] /\ made' = made + 1
      /\ job' = [job EXCEPT ![b] = r]
      /\ UNCHANGED <<lock, fetching, installer, losses, foreign>>
      /\ UNCHANGED <<onDisk, index, indexOnDisk>>
  BY DEF RenameArchive
<1>2. TypeOK /\ Described /\ Chosen /\ Publishing(b)
  BY DEF Invariant, Publications
<1>3. job[b] \in Publication /\ made \in Nat /\ MaxMade \in Nat /\ index \subseteq Entry
  BY <1>2 DEF TypeOK, StoreAssumption
<1>4. r \in Publication /\ r.pc = "sync" /\ r.id = id /\ r.seen = job[b].seen
  BY ONLY <1>3 DEF Publication, Stages
<1>5. id \in 1..(made + 1) /\ (\A e \in index : e[1] < id) /\ job[b].seen = index
  BY <1>1, <1>2 DEF Publishing
<1>6. id \in Name /\ id <= made' /\ id \in 1..(made' + 1)
  BY <1>1, <1>3, <1>5 DEF Name
<1>7. archives' \in [Name -> Nat] /\ \A n \in Name : n # id => archives'[n] = archives[n]
  <2>1. archives \in [Name -> Nat] /\ made + 1 \in Nat
    BY <1>2, <1>3 DEF TypeOK
  <2> QED BY ONLY <1>1, <1>6, <2>1
<1>8. \A e \in index : e[1] # id /\ e[1] \in Name /\ e[1] \in Nat
  BY <1>3, <1>5, <1>6 DEF Entry, Name
<1>9. Described'
  BY <1>1, <1>2, <1>3, <1>7, <1>8 DEF Described
<1>10. Chosen'
  <2>1. ASSUME <<installer.name, archives[installer.name]>> \in index
        PROVE  archives'[installer.name] = archives[installer.name]
    <3>1. installer.name # id /\ installer.name \in Name
      BY <1>8, <2>1
    <3> QED BY <1>7, <3>1
  <2>2. ASSUME installer.indexed, installer.name \notin foreign, installer.pc = "extract"
        PROVE  archives'[installer.name] = archives[installer.name]
    BY <1>2, <2>1, <2>2 DEF Chosen
  <2>3. ASSUME installer.indexed, installer.name \notin foreign, installer.pc = "metadata"
        PROVE  archives'[installer.name] = archives[installer.name]
    BY <1>2, <2>1, <2>3 DEF Chosen
  <2> QED BY <1>1, <1>2, <2>2, <2>3 DEF Chosen
<1>11. job'[b] = r => Publishing(b)'
  <2> HIDE DEF r
  <2> SUFFICES ASSUME job'[b] = r PROVE Publishing(b)'
    OBVIOUS
  <2> QED BY <1>1, <1>4, <1>5, <1>6 DEF Publishing
<1>12. made' \in 0..MaxMade
  BY <1>1, <1>3
<1> HIDE DEF r
<1>13. onDisk' \in [Name -> Nat] /\ index' \subseteq Entry /\ indexOnDisk' \subseteq index'
  BY <1>1, <1>2 DEF TypeOK
<1>14. job[b].pc # "idle" /\ r.pc # "idle"
  BY <1>1, <1>4
<1> QED BY <1>1, <1>4, <1>7, <1>9, <1>10, <1>11, <1>12, <1>13, <1>14, BuildStep, Zenon

\* The archive is durable, then its entry is made from the bytes under its name.
LEMMA SyncSteps ==
  ASSUME StoreAssumption, Invariant, NEW b \in Builder,
         SyncArchive(b) \/ NewPackageIndexEntry(b)
  PROVE  Invariant'
<1> DEFINE id == job[b].id
<1>1. TypeOK /\ Described /\ Chosen /\ Publishing(b)
  BY DEF Invariant, Publications
<1>2. /\ job[b] \in Publication /\ made \in 0..MaxMade /\ made \in Nat /\ MaxMade \in Nat
      /\ archives \in [Name -> Nat] /\ onDisk \in [Name -> Nat]
      /\ index \subseteq Entry /\ indexOnDisk \subseteq index
  BY <1>1 DEF TypeOK, StoreAssumption
<1>3. /\ UNCHANGED <<lock, fetching, installer, losses, foreign>>
      /\ UNCHANGED <<archives, index, indexOnDisk, made>>
  BY DEF SyncArchive, NewPackageIndexEntry
<1>4. Chosen' /\ archives' \in [Name -> Nat] /\ made' \in 0..MaxMade /\ index' \subseteq Entry
      /\ indexOnDisk' \subseteq index'
  BY <1>1, <1>2, <1>3 DEF Chosen
<1>5. CASE SyncArchive(b)
  <2> DEFINE r == [job[b] EXCEPT !.pc = "entry"]
  <2>1. /\ job[b].pc = "sync" /\ onDisk' = [onDisk EXCEPT ![id] = archives[id]]
        /\ job' = [job EXCEPT ![b] = r]
    BY <1>5 DEF SyncArchive
  <2>2. r \in Publication /\ r.pc = "entry" /\ r.id = id /\ r.seen = job[b].seen
    BY ONLY <1>2 DEF Publication, Stages
  <2>3. /\ id \in 1..(made + 1) /\ id <= made /\ (\A e \in index : e[1] < id)
        /\ job[b].seen = index
    BY <1>1, <2>1 DEF Publishing
  <2>4. id \in Name
    BY <1>2, <2>3 DEF Name
  <2>5. /\ onDisk' \in [Name -> Nat] /\ onDisk'[id] = archives[id]
        /\ \A n \in Name : n # id => onDisk'[n] = onDisk[n]
    BY ONLY <1>2, <2>1, <2>4
  <2>6. \A e \in index : e[1] # id /\ e[1] \in Name
    BY <1>2, <2>3, <2>4 DEF Entry, Name
  <2>7. Described'
    BY <1>1, <1>3, <2>5, <2>6 DEF Described
  <2> HIDE DEF r
  <2>8. job'[b] = r => Publishing(b)'
    BY <1>3, <2>2, <2>3, <2>5 DEF Publishing
  <2>9. job[b].pc # "idle" /\ r.pc # "idle"
    BY <2>1, <2>2
  <2> QED BY <1>3, <1>4, <2>1, <2>2, <2>5, <2>7, <2>8, <2>9, BuildStep, Zenon
<1>6. CASE NewPackageIndexEntry(b)
  <2> DEFINE s == job[b].seen \cup {<<id, archives[id]>>}
             r == [pc |-> "index", id |-> id, seen |-> s]
  <2>1. job[b].pc = "entry" /\ onDisk' = onDisk
    BY <1>6 DEF NewPackageIndexEntry
  <2>2. job' = [job EXCEPT ![b] = r]
    BY <1>6 DEF NewPackageIndexEntry
  <2>3. /\ id \in 1..(made + 1) /\ id <= made /\ (\A e \in index : e[1] < id)
        /\ job[b].seen = index /\ (id \notin foreign => onDisk[id] = archives[id])
    BY <1>1, <2>1 DEF Publishing
  <2>4. id \in Name /\ id \in Nat
    BY <1>2, <2>3 DEF Name
  <2>5. archives[id] \in Nat
    BY <1>2, <2>4
  <2>6. s \in SUBSET Entry
    BY <1>2, <2>3, <2>4, <2>5 DEF Entry
  <2>7. r \in Publication
    BY ONLY <2>4, <2>6 DEF Publication, Stages
  <2>8. Described'
    BY <1>1, <1>3, <2>1 DEF Described
  <2>9. job'[b] = r => Publishing(b)'
    <3> SUFFICES ASSUME job'[b] = r PROVE Publishing(b)'
      OBVIOUS
    <3>1. job'[b].pc = "index" /\ job'[b].seen = s /\ job'[b].id = id
      OBVIOUS
    <3>2. index \subseteq s
      BY <2>3
    <3>3. \A e \in s : e \in index \/ (e[1] = id /\ e[2] = archives[id])
      BY <2>3
    <3> HIDE DEF s, r
    <3> QED BY <1>3, <2>1, <2>3, <3>1, <3>2, <3>3 DEF Publishing
  <2>10. job[b].pc # "idle" /\ r.pc # "idle" /\ onDisk' \in [Name -> Nat]
    BY <1>2, <2>1
  <2> HIDE DEF r
  <2> QED BY <1>3, <1>4, <2>2, <2>7, <2>8, <2>9, <2>10, BuildStep, Zenon
<1> QED BY <1>5, <1>6

\* The index that takes the place of the old one holds its entries and the new.
LEMMA RenameIndexStep ==
  ASSUME StoreAssumption, Invariant, NEW b \in Builder, RenameIndex(b)
  PROVE  Invariant' /\ index \subseteq index'
<1> DEFINE id == job[b].id
           r == [job[b] EXCEPT !.pc = "syncindex"]
<1>1. /\ job[b].pc = "index" /\ index' = job[b].seen /\ job' = [job EXCEPT ![b] = r]
      /\ UNCHANGED <<lock, fetching, installer, losses, foreign>>
      /\ UNCHANGED <<archives, onDisk, indexOnDisk, made>>
  BY DEF RenameIndex
<1>2. TypeOK /\ Described /\ Chosen /\ Publishing(b)
  BY DEF Invariant, Publications
<1>3. /\ job[b] \in Publication /\ made \in 0..MaxMade
      /\ archives \in [Name -> Nat] /\ onDisk \in [Name -> Nat] /\ indexOnDisk \subseteq index
  BY <1>2 DEF TypeOK
<1>4. r \in Publication /\ r.pc = "syncindex" /\ job[b].seen \in SUBSET Entry
  BY ONLY <1>3 DEF Publication, Stages
<1>5. /\ id <= made /\ (id \notin foreign => onDisk[id] = archives[id])
      /\ index \subseteq job[b].seen
      /\ \A e \in job[b].seen : \/ e \in index
                                \/ e[1] = id /\ (e[1] \notin foreign => e[2] = archives[e[1]])
  BY <1>1, <1>2 DEF Publishing
<1>6. Described'
  BY <1>1, <1>2, <1>5 DEF Described
<1>7. Chosen'
  BY <1>1, <1>2, <1>5 DEF Chosen
<1> HIDE DEF r
<1>8. job'[b] = r => Publishing(b)'
  BY <1>4 DEF Publishing
<1>9. /\ archives' \in [Name -> Nat] /\ onDisk' \in [Name -> Nat] /\ made' \in 0..MaxMade
      /\ index' \subseteq Entry /\ indexOnDisk' \subseteq index' /\ index \subseteq index'
  BY <1>1, <1>3, <1>4, <1>5
<1>10. job[b].pc # "idle" /\ r.pc # "idle"
  BY <1>1, <1>4
<1> QED BY <1>1, <1>4, <1>6, <1>7, <1>8, <1>9, <1>10, BuildStep, Zenon

\* The lock is released, at the end of a build or with its death.
LEMMA EndSteps ==
  ASSUME StoreAssumption, Invariant, NEW b \in Builder, SyncIndex(b) \/ Abandon(b)
  PROVE  Invariant'
<1>1. /\ job[b].pc # "idle" /\ lock' = Nobody /\ job' = [job EXCEPT ![b] = Resting]
      /\ UNCHANGED <<archives, onDisk, index, fetching, installer, made, losses, foreign>>
      /\ indexOnDisk' \in {index, indexOnDisk}
  BY DEF SyncIndex, Abandon
<1>2. TypeOK /\ Exclusive /\ Described /\ Publications /\ Chosen
  BY DEF Invariant
<1>3. job \in [Builder -> Publication] /\ indexOnDisk' \subseteq index
  BY <1>1, <1>2 DEF TypeOK
<1>4. Resting \in Publication /\ Resting.pc = "idle"
  BY DEF Resting, Publication, Stages
<1>5. job' \in [Builder -> Publication] /\ \A c \in Builder : job'[c].pc = "idle"
  <2>1. job' \in [Builder -> Publication] /\ job'[b] = Resting
    BY ONLY <1>1, <1>3, <1>4, b \in Builder
  <2>2. ASSUME NEW c \in Builder, c # b PROVE job'[c].pc = "idle"
    <3>1. job'[c] = job[c]
      BY ONLY <1>1, <1>3, <2>2
    <3> QED BY <1>1, <1>2, <2>2, <3>1, OthersIdle
  <2> QED BY <1>4, <2>1, <2>2
<1>6. TypeOK'
  BY <1>1, <1>2, <1>3, <1>5 DEF TypeOK
<1>7. Exclusive'
  BY <1>1, <1>5 DEF Exclusive, StoreAssumption
<1>8. Publications'
  BY <1>5 DEF Publications, Publishing
<1>9. Described' /\ Chosen'
  BY <1>1, <1>2 DEF Described, Chosen
<1> QED BY <1>6, <1>7, <1>8, <1>9 DEF Invariant

-----------------------------------------------------------------------------
(* Writers outside of the lock, and the installer                          *)

\* A download or quickpkg writes a name that is foreign from then on.
LEMMA ForeignWrite ==
  ASSUME StoreAssumption, Invariant, NEW n \in Name, made < MaxMade,
         archives' = [archives EXCEPT ![n] = made + 1],
         onDisk' = [onDisk EXCEPT ![n] = made + 1],
         made' = made + 1, foreign' = foreign \cup {n}, fetching' \in {0, fetching},
         UNCHANGED <<index, indexOnDisk, lock, job, installer, losses>>
  PROVE  Invariant'
<1>1. TypeOK /\ Exclusive /\ Described /\ Publications /\ Chosen
  BY DEF Invariant
<1>2. /\ archives \in [Name -> Nat] /\ onDisk \in [Name -> Nat] /\ made \in Nat /\ MaxMade \in Nat
      /\ made + 1 \in Nat
  BY <1>1 DEF TypeOK, StoreAssumption
<1>3. /\ archives' \in [Name -> Nat] /\ onDisk' \in [Name -> Nat]
      /\ \A m \in Name : m # n => archives'[m] = archives[m] /\ onDisk'[m] = onDisk[m]
  BY <1>2
<1>4. index \subseteq Entry /\ \A e \in index : e[1] \in Name /\ e[1] \in Nat
  BY <1>1 DEF TypeOK, Entry, Name
<1>5. TypeOK'
  BY <1>1, <1>2, <1>3 DEF TypeOK
<1>6. Exclusive'
  BY <1>1 DEF Exclusive
<1>7. Described'
  BY <1>1, <1>2, <1>3, <1>4 DEF Described
<1>8. ASSUME NEW b \in Builder PROVE Publishing(b)'
  <2> DEFINE id == job[b].id
  <2>1. Publishing(b) /\ job' = job /\ index' = index /\ job[b] \in Publication
    BY <1>1 DEF Publications, TypeOK
  <2>2. id \in Nat /\ job[b].seen \in SUBSET Entry
    BY ONLY <2>1 DEF Publication
  <2>3. job[b].pc \in {"rename", "sync", "entry", "index"} =>
          id \in 1..(made' + 1) /\ \A e \in index : e[1] < id
    <3>1. job[b].pc \in {"rename", "sync", "entry", "index"} =>
            id \in 1..(made + 1) /\ \A e \in index : e[1] < id
      BY ONLY <2>1 DEF Publishing
    <3>2. made' + 1 = made + 2 /\ made \in Nat
      BY <1>2
    <3>3. id \in 1..(made + 1) => id \in 1..(made' + 1)
      BY ONLY <2>2, <3>2
    <3> QED BY ONLY <3>1, <3>3
  <2>4. job[b].pc \in {"sync", "entry", "index"} => id <= made' /\ id \in Name
    <3>1. job[b].pc \in {"sync", "entry", "index"} => id <= made /\ id \in 1..(made + 1)
      BY ONLY <2>1 DEF Publishing
    <3>2. made' = made + 1 /\ made < MaxMade /\ made \in Nat /\ MaxMade \in Nat
      BY <1>2
    <3>3. id <= made /\ id \in 1..(made + 1) => id <= made' /\ id \in 1..MaxMade
      BY ONLY <2>2, <3>2
    <3> QED BY ONLY <3>1, <3>3 DEF Name
  <2>5. id \in Name /\ id \notin foreign' => archives'[id] = archives[id] /\ onDisk'[id] = onDisk[id]
    BY <1>3
  <2>6. job[b].pc \in {"entry", "index"} /\ id \notin foreign' => onDisk'[id] = archives'[id]
    BY <2>1, <2>4, <2>5 DEF Publishing
  <2>7. ASSUME job[b].pc = "index"
        PROVE  /\ index \subseteq job[b].seen
               /\ \A e \in job[b].seen : \/ e \in index
                                         \/ /\ e[1] = id
                                            /\ e[1] \notin foreign' => e[2] = archives'[e[1]]
    BY <2>1, <2>4, <2>5, <2>7 DEF Publishing
  <2>8. job[b].pc \in {"rename", "sync", "entry"} => job[b].seen = index
    BY <2>1 DEF Publishing
  <2> QED BY <2>1, <2>3, <2>4, <2>6, <2>7, <2>8 DEF Publishing
<1>9. Chosen'
  <2>1. installer' = installer /\ installer.name \in Name \cup {0}
    BY <1>1 DEF TypeOK, Installation
  <2>2. ASSUME installer.name \in Name, installer.name \notin foreign'
        PROVE  archives'[installer.name] = archives[installer.name]
    BY <1>3, <2>2
  <2>3. ASSUME <<installer.name, archives[installer.name]>> \in index PROVE installer.name \in Name
    BY <1>4, <2>3
  <2> QED BY <1>1, <2>1, <2>2, <2>3 DEF Chosen
<1> QED BY <1>5, <1>6, <1>7, <1>8, <1>9 DEF Invariant, Publications

\* Downloads, quickpkg and installations keep the invariant.
LEMMA ReaderSteps ==
  ASSUME StoreAssumption, Invariant,
         \/ \E n \in Remote : StartFetch(n)
         \/ \E n \in Name : Select(n) \/ QuickPkg(n)
         \/ FinishFetch \/ ReadMetadata \/ ExtractGPKG
  PROVE  Invariant'
<1>1. TypeOK /\ Exclusive /\ Described /\ Publications /\ Chosen
  BY DEF Invariant
<1> DEFINE Untouched == UNCHANGED <<archives, onDisk, index, indexOnDisk, lock, job, made, losses, foreign>>
<1>2. ASSUME Untouched, fetching' \in Name \cup {0}, installer' \in Installation, Chosen',
             installer'.pc # "idle" => installer'.name \in Name
      PROVE  Invariant'
  <2>1. TypeOK'
    BY <1>1, <1>2 DEF TypeOK
  <2>2. Exclusive' /\ Described' /\ Publications'
    BY <1>1, <1>2 DEF Exclusive, Described, Publications, Publishing
  <2> QED BY <1>2, <2>1, <2>2 DEF Invariant
<1>3. /\ archives \in [Name -> Nat] /\ installer \in Installation /\ fetching \in Name \cup {0}
      /\ installer.pc # "idle" => installer.name \in Name
  BY <1>1 DEF TypeOK
<1>4. NoInstall \in Installation /\ NoInstall.pc = "idle"
  BY DEF NoInstall, Installation
<1>5. ASSUME NEW n \in Remote, StartFetch(n) PROVE Invariant'
  <2>1. n \in Name /\ fetching' = n /\ Untouched /\ installer' = installer
    BY <1>5 DEF StartFetch, StoreAssumption
  <2>2. Chosen'
    BY ONLY <1>1, <2>1 DEF Chosen
  <2> QED BY <1>2, <1>3, <2>1, <2>2
<1>6. ASSUME NEW n \in Name, Select(n) PROVE Invariant'
  <2>1. /\ installer' = [NoInstall EXCEPT !.pc = "metadata", !.name = n,
                                          !.indexed = \E e \in index : e = <<n, archives[n]>>]
        /\ Untouched /\ fetching' = fetching
    BY <1>6, Zenon DEF Select
  <2>2. /\ installer' \in Installation /\ installer'.pc = "metadata" /\ installer'.name = n
        /\ installer'.indexed = \E e \in index : e = <<n, archives[n]>>
    BY <2>1, Zenon DEF NoInstall, Installation
  <2>3. Chosen'
    BY <2>1, <2>2 DEF Chosen
  <2> QED BY <1>2, <1>3, <2>1, <2>2, <2>3
<1>7. ASSUME NEW n \in Name, QuickPkg(n) PROVE Invariant'
  BY <1>7, ForeignWrite, Zenon DEF QuickPkg
<1>8. CASE FinishFetch
  <2>1. CASE made' = made + 1
    <3>1. fetching \in Name /\ made \in Nat
      BY <1>1, <1>3, <1>8 DEF FinishFetch, TypeOK
    <3> QED BY <1>8, <2>1, <3>1, ForeignWrite DEF FinishFetch
  <2>2. CASE UNCHANGED <<archives, onDisk, made, foreign>>
    <3>1. fetching' = 0 /\ Untouched /\ installer' = installer
      BY <1>8, <2>2 DEF FinishFetch
    <3>2. Chosen'
      BY <1>1, <3>1 DEF Chosen
    <3> QED BY <1>2, <1>3, <3>1, <3>2
  <2> QED BY <1>8, <2>1, <2>2 DEF FinishFetch
<1>9. CASE ReadMetadata
  <2>1. /\ installer.pc = "metadata" /\ Untouched /\ fetching' = fetching
        /\ installer' = IF archives[installer.name] = 0 THEN NoInstall
                        ELSE [installer EXCEPT !.pc = "extract", !.metadata = archives[installer.name]]
    BY <1>9 DEF ReadMetadata
  <2>2. CASE installer' = NoInstall
    <3>1. Chosen'
      BY <1>4, <2>2 DEF Chosen
    <3> QED BY <1>2, <1>3, <1>4, <2>1, <2>2, <3>1
  <2>3. CASE installer' = [installer EXCEPT !.pc = "extract", !.metadata = archives[installer.name]]
    <3>1. archives[installer.name] \in Nat /\ installer.name \in Name
      BY <1>3, <2>1
    <3>2. /\ installer' \in Installation /\ installer'.pc = "extract"
          /\ installer'.name = installer.name /\ installer'.indexed = installer.indexed
          /\ installer'.metadata = archives[installer.name]
      BY ONLY <1>3, <2>3, <3>1, Zenon DEF Installation
    <3>3. Chosen'
      BY <1>1, <2>1, <3>2 DEF Chosen
    <3> QED BY <1>2, <1>3, <2>1, <3>1, <3>2, <3>3
  <2> QED BY <2>1, <2>2, <2>3
<1>10. CASE ExtractGPKG
  <2>1. /\ installer.pc = "extract" /\ Untouched /\ fetching' = fetching
        /\ installer' = IF archives[installer.name] = 0 THEN NoInstall
                        ELSE [installer EXCEPT !.pc = "done", !.image = archives[installer.name]]
    BY <1>10 DEF ExtractGPKG
  <2>2. CASE installer' = NoInstall
    <3>1. Chosen'
      BY <1>4, <2>2 DEF Chosen
    <3> QED BY <1>2, <1>3, <1>4, <2>1, <2>2, <3>1
  <2>3. CASE installer' = [installer EXCEPT !.pc = "done", !.image = archives[installer.name]]
    <3>1. archives[installer.name] \in Nat /\ installer.name \in Name
      BY <1>3, <2>1
    <3>2. /\ installer' \in Installation /\ installer'.pc = "done"
          /\ installer'.name = installer.name /\ installer'.indexed = installer.indexed
          /\ installer'.metadata = installer.metadata
          /\ installer'.image = archives[installer.name]
      BY ONLY <1>3, <2>3, <3>1, Zenon DEF Installation
    <3>3. Chosen'
      BY <1>1, <2>1, <3>2 DEF Chosen
    <3> QED BY <1>2, <1>3, <2>1, <3>1, <3>2, <3>3
  <2> QED BY <2>1, <2>2, <2>3
<1> QED BY <1>5, <1>6, <1>7, <1>8, <1>9, <1>10

\* Whatever a power loss takes of the renames that were not synced, the index
\* that is left describes the archives that are left.
LEMMA PowerLossStep ==
  ASSUME StoreAssumption, Invariant, PowerLoss
  PROVE  Invariant'
<1>1. TypeOK /\ Described
  BY DEF Invariant
<1>2. PICK lost \in SUBSET Name :
        archives' = [n \in Name |-> IF n \in lost THEN onDisk[n] ELSE archives[n]]
  BY DEF PowerLoss
<1>3. /\ index' \in {index, indexOnDisk} /\ onDisk' = archives' /\ indexOnDisk' = index'
      /\ lock' = Nobody /\ job' = [b \in Builder |-> Resting] /\ fetching' = 0
      /\ installer' = NoInstall /\ made' = made /\ foreign' = foreign /\ losses' = losses + 1
  BY DEF PowerLoss
<1>4. archives \in [Name -> Nat] /\ onDisk \in [Name -> Nat] /\ indexOnDisk \subseteq index
      /\ index \subseteq Entry
  BY <1>1 DEF TypeOK
<1>5. archives' \in [Name -> Nat] /\ \A n \in Name : archives'[n] \in {archives[n], onDisk[n]}
  BY <1>2, <1>4
<1>6. /\ Resting \in Publication /\ Resting.pc = "idle" /\ NoInstall \in Installation
      /\ NoInstall.pc = "idle"
  BY DEF Resting, Publication, Stages, NoInstall, Installation
<1>7. TypeOK'
  BY <1>1, <1>3, <1>4, <1>5, <1>6 DEF TypeOK
<1>8. \A b \in Builder : job'[b].pc = "idle"
  BY <1>3, <1>6
<1>9. Exclusive' /\ Publications'
  BY <1>3, <1>8 DEF Exclusive, Publications, Publishing, StoreAssumption
<1>10. Described'
  <2> SUFFICES ASSUME NEW e \in index'
               PROVE  /\ e[1] <= made
                      /\ e[1] \notin foreign => archives'[e[1]] = e[2]
    BY <1>3 DEF Described
  <2>1. e \in index /\ e[1] \in Name
    BY <1>3, <1>4 DEF Entry
  <2> QED BY <1>1, <1>5, <2>1 DEF Described
<1>11. Chosen'
  BY <1>3, <1>6 DEF Chosen
<1> QED BY <1>7, <1>9, <1>10, <1>11 DEF Invariant

-----------------------------------------------------------------------------
(* The theorems                                                            *)

\* Nothing is published at first.
LEMMA InitInvariant ==
  ASSUME StoreAssumption, Init
  PROVE  Invariant
<1> USE DEF Init
<1>1. /\ Resting \in Publication /\ Resting.pc = "idle" /\ NoInstall \in Installation
      /\ NoInstall.pc = "idle"
  BY DEF Resting, Publication, Stages, NoInstall, Installation
<1>2. TypeOK
  BY <1>1 DEF TypeOK, StoreAssumption
<1>3. Exclusive /\ Publications
  BY <1>1 DEF Exclusive, Publications, Publishing, StoreAssumption
<1>4. Described /\ Chosen
  BY <1>1 DEF Described, Chosen
<1> QED BY <1>2, <1>3, <1>4 DEF Invariant

\* Every step keeps the invariant, and short of a power loss every entry.
LEMMA NextInvariant ==
  ASSUME StoreAssumption, Invariant, [Next]_vars
  PROVE  Invariant' /\ (EntriesStay \/ UNCHANGED vars)
<1>1. ASSUME NEW b \in Builder, lockPackageIndex(b) \/ readOrCreatePackageIndex(b)
      PROVE  Invariant' /\ index' = index
  BY <1>1, LockSteps DEF lockPackageIndex, readOrCreatePackageIndex
<1>2. ASSUME NEW b \in Builder, RenameArchive(b) PROVE Invariant' /\ index' = index
  BY <1>2, RenameStep, Zenon DEF RenameArchive
<1>3. ASSUME NEW b \in Builder, SyncArchive(b) \/ NewPackageIndexEntry(b)
      PROVE  Invariant' /\ index' = index
  BY <1>3, SyncSteps DEF SyncArchive, NewPackageIndexEntry
<1>4. ASSUME NEW b \in Builder, RenameIndex(b) PROVE Invariant' /\ index \subseteq index'
  BY <1>4, RenameIndexStep
<1>5. ASSUME NEW b \in Builder, SyncIndex(b) \/ Abandon(b) PROVE Invariant' /\ index' = index
  BY <1>5, EndSteps DEF SyncIndex, Abandon
<1>6. ASSUME \/ \E n \in Remote : StartFetch(n)
             \/ \E n \in Name : Select(n) \/ QuickPkg(n)
             \/ FinishFetch \/ ReadMetadata \/ ExtractGPKG
      PROVE  Invariant' /\ index' = index
  <2>1. Invariant'
    BY <1>6, ReaderSteps
  <2> QED BY <1>6, <2>1, Zenon DEF StartFetch, Select, QuickPkg, FinishFetch, ReadMetadata, ExtractGPKG
<1>7. CASE PowerLoss
  <2>1. losses' # losses
    BY <1>7 DEF PowerLoss, Invariant, TypeOK
  <2> QED BY <1>7, <2>1, PowerLossStep DEF EntriesStay
<1>8. CASE UNCHANGED vars
  <2>1. TypeOK' /\ Exclusive' /\ Described'
    BY <1>8 DEF Invariant, vars, TypeOK, Exclusive, Described
  <2>2. Publications' /\ Chosen'
    BY <1>8 DEF Invariant, vars, Publications, Publishing, Chosen
  <2> QED BY <1>8, <2>1, <2>2 DEF Invariant
<1> QED BY <1>1, <1>2, <1>3, <1>4, <1>5, <1>6, <1>7, <1>8 DEF Next, EntriesStay

\* For any number of concurrent builds, dying anywhere, of downloads, quickpkg
\* captures and power losses: the archive of an index entry has the bytes the
\* entry describes, and an installation takes metadata and image from one
\* archive (publishBuiltGPKG, InstallBinaryPackage).
THEOREM StoreStaysIntact ==
  ASSUME StoreAssumption
  PROVE  Spec => []StoreIsIntact
<1>1. Init => Invariant
  BY InitInvariant
<1>2. Invariant /\ [Next]_vars => Invariant'
  BY NextInvariant
<1>3. Invariant => StoreIsIntact
  <2> SUFFICES ASSUME Invariant PROVE StoreIsIntact
    OBVIOUS
  <2>1. IndexedIsIntact
    BY DEF Invariant, Described, IndexedIsIntact
  <2>2. InstalledFromOneArchive
    BY DEF Invariant, Chosen, InstalledFromOneArchive
  <2> QED BY <2>1, <2>2 DEF StoreIsIntact
<1> QED BY <1>1, <1>2, <1>3, PTL DEF Spec

\* No build drops the entry of another, however they interleave and die: only a
\* power loss takes entries back (readOrCreatePackageIndex, WritePackagesIndex).
THEOREM EntriesAreKept ==
  ASSUME StoreAssumption
  PROVE  Spec => [][EntriesStay]_vars
<1>1. Init => Invariant
  BY InitInvariant
<1>2. Invariant /\ [Next]_vars => Invariant' /\ [EntriesStay]_vars
  BY NextInvariant
<1> QED BY <1>1, <1>2, PTL DEF Spec

=============================================================================
