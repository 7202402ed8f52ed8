------------------------ MODULE CheckpointInvariant ------------------------
(***************************************************************************)
(* What Checkpoint relies on: the leases, the checkpoints and what each    *)
(* command has in memory, and how one step of a command changes them.      *)
(***************************************************************************)
EXTENDS Checkpoint, FiniteSetTheorems, TLAPS

\* a checkpoint lists every package of its selections that is not merged yet
Lists(c) ==
  c \in State => Request[c.selections] \subseteq committed \cup c.pending

\* Whatever a command may resume from or roll back to, or has in memory, still
\* lists the packages that are not merged.
NothingForgotten ==
  /\ \A f \in File : Lists(file[f])
  /\ \A i \in DOMAIN undo : Lists(undo[i])
  /\ \A p \in Proc :
       /\ Request[request[p].selections] \subseteq committed \cup request[p].atoms
       /\ merged[p] \subseteq committed

\* the selections s are recorded at the path f, or by a command that works there
Holds(s, f) ==
  \/ file[f] \in State /\ file[f].selections = s
  \/ \E p \in Proc : /\ resuming[p] \/ pc[p] \in {"run", "mark"}
                     /\ path[p] = f /\ request[p].selections = s
  \/ f = Default /\ \E i \in DOMAIN undo :
                      undo[i] \in State /\ undo[i].selections = s

\* the transaction of p is not recorded anywhere yet
Fresh(p) ==
  \/ p \notin started
  \/ ~resuming[p] /\ pc[p] \in {"planned", "leased", "checked"}

\* a checkpoint that nothing but its transaction can have changed
Safe(f) == f \in Private \/ ~cleaned

\* the checkpoint of p records exactly what p has left to do
Own(p) ==
  /\ file[path[p]] \in State
  /\ file[path[p]].pending = request[p].atoms \cup merged[p]
  /\ file[path[p]].selections = request[p].selections

Homes ==
  /\ \A s \in Proc, f, g \in File : Holds(s, f) /\ Holds(s, g) => f = g
  /\ \A s \in Proc : Fresh(s) => s \notin world /\ \A f \in File : ~Holds(s, f)
  /\ \A f \in Private : file[f] \in State => file[f].selections \notin world
  /\ ~cleaned => cleaner \notin {"captured", "removed"} /\ undo = <<>>

\* what the steps of one command rely on
Phases(p) ==
  /\ pc[p] = "idle" => ~resuming[p] /\ path[p] = Default
  /\ ~resuming[p] /\ pc[p] # "idle" => p \in started
  /\ pc[p] \in {"idle", "planned", "leased", "checked"} /\ ~resuming[p] =>
       request[p] = NewRequest(p)
  /\ pc[p] = "planned" /\ ~resuming[p] => path[p] = Default
  /\ pc[p] # "mark" => merged[p] = {}
  /\ merged[p] \cap request[p].atoms = {}

Leases(p) ==
  /\ pc[p] \in {"checked", "run", "mark"} => lease[path[p]] = p
  /\ pc[p] = "leased" =>
       \/ lease[path[p]] = p
       \/ /\ resuming[p] /\ path[p] \in Private
          /\ request[p].selections \in world

Planned(p) ==
  /\ pc[p] \in {"planned", "leased"} /\ resuming[p] =>
       /\ loaded[p] \in State
       /\ request[p] = [selections |-> loaded[p].selections,
                        atoms |-> loaded[p].pending]
       /\ path[p] \in Private =>
            \/ request[p].selections \in world
            \/ /\ file[path[p]] \in State
               /\ file[path[p]].selections = request[p].selections
  /\ pc[p] \in {"leased", "checked"} /\ ~resuming[p] /\ path[p] \in Private =>
       file[path[p]] = Empty

Owns(p) ==
  Safe(path[p]) =>
    /\ pc[p] \in {"run", "mark"} => Own(p)
    /\ pc[p] = "checked" /\ resuming[p] => Own(p)

Exclusive ==
  TypeOK /\ Homes /\ \A p \in Proc : Phases(p) /\ Leases(p) /\ Planned(p) /\ Owns(p)

\* no checkpoint still lists a package that one has recorded as complete
MarkedOnce ==
  ~cleaned =>
    /\ \A f \in File : file[f] \in State =>
         /\ file[f].pending \subseteq Request[file[f].selections]
         /\ file[f].pending \cap marked = {}
    /\ \A a \in marked : \E s \in Proc : a \in Request[s] /\ ~Fresh(s)

-----------------------------------------------------------------------------
(* Types.                                                                  *)

CommandsTyped ==
  /\ lease \in [File -> Proc \cup {NoOne}]
  /\ \A f \in File : lease[f] # NoOne =>
       path[lease[f]] = f /\ pc[lease[f]] \notin {"idle", "planned"}
  /\ pc \in [Proc -> {"idle", "planned", "leased", "checked", "run", "mark"}]
  /\ path \in [Proc -> File] /\ resuming \in [Proc -> BOOLEAN]
  /\ request \in [Proc -> [selections : Proc, atoms : SUBSET Atom]]
  /\ loaded \in [Proc -> Content]
  /\ merged \in [Proc -> SUBSET Atom]

FilesTyped ==
  /\ file \in [File -> Content]
  /\ committed \subseteq Atom /\ world \subseteq Proc /\ started \subseteq Proc
  /\ cleaner \in {"idle", "checked", "locked", "captured", "removed"}
  /\ seen \in 0..Cardinality(Atom) /\ undo \in Seq(Content)
  /\ marked \subseteq Atom /\ cleaned \in BOOLEAN

\* The type invariant is that of the commands and that of what they share.
LEMMA TypedParts == (TypeOK <=> CommandsTyped /\ FilesTyped)
                    /\ (TypeOK' <=> CommandsTyped' /\ FilesTyped')
BY DEF TypeOK, CommandsTyped, FilesTyped

\* The report of a cleanup counts at most every package.
LEMMA CountBound ==
  ASSUME NEW S \in SUBSET Atom
  PROVE  Cardinality(S) \in 0..Cardinality(Atom) /\ 0 \in 0..Cardinality(Atom)
<1>1. Cardinality(Atom) \in Nat
  BY AtomAssumption, FS_CardinalityType
<1>2. IsFiniteSet(S) /\ Cardinality(S) <= Cardinality(Atom)
  BY AtomAssumption, FS_Subset
<1>3. Cardinality(S) \in Nat
  BY <1>2, FS_CardinalityType
<1> QED BY <1>1, <1>2, <1>3

\* There is no file and no lease at first.
LEMMA InitTyped == Init => TypeOK
<1> SUFFICES ASSUME Init PROVE TypeOK
  OBVIOUS
<1>1. CommandsTyped
  BY RequestAssumption, NoOneAssumption DEF Init, CommandsTyped, File, Content, NewRequest
<1>2. FilesTyped
  <2>1. {} \in SUBSET Atom
    OBVIOUS
  <2>2. 0 \in 0..Cardinality(Atom)
    BY <2>1, CountBound
  <2>3. seen \in 0..Cardinality(Atom)
    BY <2>2 DEF Init
  <2>4. undo \in Seq(Content)
    BY DEF Init
  <2> QED BY Zenon, <2>3, <2>4 DEF Init, FilesTyped, Content
<1> QED BY <1>1, <1>2, TypedParts

\* A command that ends leaves its lease and nothing else of the others.
LEMMA IdleTyped ==
  ASSUME TypeOK, NEW p \in Proc, Idle(p)
  PROVE  CommandsTyped'
<1>1. NewRequest(p) \in [selections : Proc, atoms : SUBSET Atom]
  BY RequestAssumption DEF NewRequest
<1>2. Default \in File /\ NoFile \in Content
  BY DEF File, Content
<1>3. /\ pc' \in [Proc -> {"idle", "planned", "leased", "checked", "run", "mark"}]
      /\ path' \in [Proc -> File] /\ resuming' \in [Proc -> BOOLEAN]
      /\ request' \in [Proc -> [selections : Proc, atoms : SUBSET Atom]]
      /\ loaded' \in [Proc -> Content] /\ merged' \in [Proc -> SUBSET Atom]
  BY <1>1, <1>2 DEF Idle, TypeOK
<1>4. lease' \in [File -> Proc \cup {NoOne}]
  BY DEF Idle, TypeOK
<1>5. ASSUME NEW f \in File, lease'[f] # NoOne
      PROVE  path'[lease'[f]] = f /\ pc'[lease'[f]] \notin {"idle", "planned"}
  <2>1. lease'[f] = lease[f] /\ lease[f] \in Proc \ {p}
    BY <1>5 DEF Idle, TypeOK
  <2> QED BY <1>5, <2>1 DEF Idle, TypeOK
<1> QED BY ONLY <1>3, <1>4, <1>5 DEF CommandsTyped

\* A step of a command keeps every variable in its type, and a lease with a
\* command that works at its path.
LEMMA TransactionTyped ==
  ASSUME TypeOK, NEW p \in Proc, Transaction(p)
  PROVE  TypeOK'
<1> USE DEF TypeOK, CommandsTyped, FilesTyped, memory, merges, cleaning
<1>1. CASE Install(p)
  BY <1>1 DEF Install
<1>2. CASE Reserve(p)
  BY <1>2 DEF Reserve
<1>3. CASE ReserveBusy(p)
  BY <1>3, IdleTyped DEF ReserveBusy
<1>4. CASE CheckSnapshot(p)
  <2>1. FilesTyped'
    BY <1>4 DEF CheckSnapshot
  <2>2. CASE Idle(p)
    BY Zenon, <2>1, <2>2, IdleTyped, TypedParts
  <2>3. CASE ~Idle(p)
    <3>1. /\ pc[p] = "leased" /\ pc' = [pc EXCEPT ![p] = "checked"]
          /\ loaded' = [loaded EXCEPT ![p] = NoFile]
          /\ UNCHANGED <<lease, path, resuming, request, merged>>
      BY <1>4, <2>3 DEF CheckSnapshot
    <3>2. NoFile \in Content
      BY DEF Content
    <3>3. CommandsTyped
      BY TypedParts
    <3>4. CommandsTyped'
      BY ONLY <3>1, <3>2, <3>3 DEF CommandsTyped
    <3> QED BY Zenon, <2>1, <3>4, TypedParts
  <2> QED BY <2>2, <2>3
<1>5. CASE Save(p)
  <2>1. [selections |-> request[p].selections, done |-> {},
         pending |-> request[p].atoms] \in Content
    BY DEF Content, State
  <2> QED BY <1>5, <2>1 DEF Save
<1>6. CASE FinishEmptyResume(p)
  <2>1. FilesTyped'
    BY <1>6 DEF FinishEmptyResume, Content
  <2> QED BY Zenon, <1>6, <2>1, IdleTyped, TypedParts DEF FinishEmptyResume
<1>7. CASE Mark(p)
  <2>1. CASE Idle(p) /\ UNCHANGED <<file, marked>>
    <3>1. FilesTyped'
      BY <1>7, <2>1 DEF Mark
    <3> QED BY Zenon, <2>1, <3>1, IdleTyped, TypedParts
  <2>2. CASE ~(Idle(p) /\ UNCHANGED <<file, marked>>)
    <3>1. CommandsTyped'
      <4>1. /\ pc[p] = "mark" /\ pc' = [pc EXCEPT ![p] = "run"]
            /\ merged' = [merged EXCEPT ![p] = {}]
            /\ UNCHANGED <<lease, path, resuming, request, loaded>>
        BY <1>7, <2>2 DEF Mark
      <4> QED BY <4>1
    <3>2. CASE file[path[p]] = NoFile
      <4>1. FilesTyped'
        BY <1>7, <2>2, <3>2 DEF Mark
      <4> QED BY <3>1, <4>1, TypedParts
    <3>3. CASE file[path[p]] # NoFile
      <4>1. file[path[p]] \in State
        BY <1>7, <2>2, <3>3 DEF Mark
      <4>2. file' = [file EXCEPT ![path[p]].done = @ \cup merged[p],
                                 ![path[p]].pending = @ \ merged[p]]
        BY Zenon, <1>7, <2>2, <3>3 DEF Mark
      <4>3. file' \in [File -> Content]
        BY Zenon, <4>1, <4>2 DEF Content, State
      <4>4. FilesTyped'
        BY <1>7, <2>2, <3>3, <4>3 DEF Mark
      <4> QED BY <3>1, <4>4, TypedParts
    <3> QED BY <3>2, <3>3
  <2> QED BY <2>1, <2>2
<1>8. CASE Finish(p)
  <2>1. FilesTyped'
    <3>1. file' \in [File -> Content]
      BY <1>8 DEF Finish, Content
    <3>2. world' \subseteq Proc
      BY <1>8 DEF Finish
    <3> QED BY <1>8, <3>1, <3>2 DEF Finish
  <2> QED BY Zenon, <1>8, <2>1, IdleTyped, TypedParts DEF Finish
<1>9. CASE Fail(p)
  BY <1>9, IdleTyped DEF Fail
<1>10. CASE Kill(p)
  BY <1>10, IdleTyped DEF Kill
<1>11. ASSUME NEW f \in File, LoadResume(p, f) PROVE TypeOK'
  BY <1>11 DEF LoadResume, State
<1>12. ASSUME NEW f \in File, ReservePrivate(p, f) PROVE TypeOK'
  BY <1>12 DEF ReservePrivate, Content
<1>13. ASSUME NEW a \in Atom, Commit(p, a) PROVE TypeOK'
  <2>1. CommandsTyped'
    <3>1. /\ pc[p] = "run" /\ pc' = [pc EXCEPT ![p] = "mark"]
          /\ merged' = [merged EXCEPT ![p] = {a}]
          /\ request' = [request EXCEPT ![p].atoms = @ \ {a}]
          /\ UNCHANGED <<lease, path, resuming, loaded>>
      BY <1>13 DEF Commit
    <3>2. CommandsTyped
      BY TypedParts
    <3>3. request' \in [Proc -> [selections : Proc, atoms : SUBSET Atom]]
      BY ONLY <3>1, <3>2 DEF CommandsTyped
    <3> QED BY ONLY <3>1, <3>2, <3>3 DEF CommandsTyped
  <2>2. file' \in [File -> Content]
    BY <1>13 DEF Commit, File
  <2>3. FilesTyped'
    BY <1>13, <2>2 DEF Commit
  <2> QED BY Zenon, <2>1, <2>3, TypedParts
<1> QED BY Zenon, <1>1, <1>2, <1>3, <1>4, <1>5, <1>6, <1>7, <1>8, <1>9, <1>10, <1>11,
          <1>12, <1>13 DEF Transaction

\* A step of the cleaner keeps every variable in its type.
LEMMA CleaningTyped ==
  ASSUME TypeOK,
         \/ CleanCheck \/ CleanLock \/ CleanCapture \/ CleanRemove \/ CleanCommit
         \/ CleanKilled
  PROVE  TypeOK'
<1> USE DEF TypeOK, CommandsTyped, FilesTyped, others, merges, process, memory
<1>1. CASE CleanCheck
  <2>1. file[Default] \in State => file[Default].pending \in SUBSET Atom
    BY DEF State
  <2> QED BY <1>1, <2>1, CountBound DEF CleanCheck
<1>2. CASE CleanLock
  BY <1>2, CountBound DEF CleanLock
<1>3. CASE CleanCapture
  BY <1>3 DEF CleanCapture, File
<1>4. CASE CleanRemove
  BY Zenon, <1>4 DEF CleanRemove, Content
<1>5. CASE CleanCommit
  BY <1>5 DEF CleanCommit
<1>6. CASE CleanKilled
  BY <1>6 DEF CleanKilled
<1> QED BY Zenon, <1>1, <1>2, <1>3, <1>4, <1>5, <1>6

-----------------------------------------------------------------------------
(* Where selections are recorded.                                          *)

\* How one step of a command changes the recorded selections: only the first save
\* of a new transaction adds some, its own, at its path.
LEMMA TransactionHolds ==
  ASSUME TypeOK, NEW p \in Proc, Phases(p), Transaction(p),
         NEW s \in Proc, NEW f \in File, Holds(s, f)'
  PROVE  \/ Holds(s, f)
         \/ Save(p) /\ ~resuming[p] /\ s = p /\ f = path[p]
<1> USE DEF memory, merges, cleaning
<1> DEFINE Others == \A q \in Proc \ {p} :
                       /\ resuming'[q] = resuming[q] /\ pc'[q] = pc[q]
                       /\ path'[q] = path[q]
                       /\ request'[q].selections = request[q].selections
           Mine == /\ resuming'[p] \/ pc'[p] \in {"run", "mark"}
                   /\ path'[p] = f /\ request'[p].selections = s
<1>1. ASSUME Others, UNCHANGED undo,
             file'[f] \in State /\ file'[f].selections = s => Holds(s, f),
             Mine => Holds(s, f)
      PROVE  Holds(s, f)
  BY <1>1 DEF Holds
<1>2. CASE Idle(p) /\ UNCHANGED undo /\ file'[f] \in {file[f], NoFile}
  <2>1. Others /\ ~Mine
    BY <1>2 DEF Idle, TypeOK
  <2> QED BY <1>1, ContentAssumption, <1>2, <2>1 DEF Holds
<1>3. CASE Install(p)
  BY <1>1, <1>3 DEF Install, Holds, TypeOK
<1>4. CASE Reserve(p)
  BY <1>1, <1>4 DEF Reserve, Holds, TypeOK
<1>5. CASE ReserveBusy(p) \/ Fail(p) \/ Kill(p)
  BY <1>2, <1>5 DEF ReserveBusy, Fail, Kill
<1>6. CASE CheckSnapshot(p)
  <2>1. CASE Idle(p)
    BY <1>2, <1>6, <2>1 DEF CheckSnapshot
  <2>2. CASE ~Idle(p)
    <3>1. /\ pc[p] = "leased" /\ pc'[p] = "checked" /\ Others
          /\ UNCHANGED <<file, undo, path, resuming, request>>
      BY <1>6, <2>2 DEF CheckSnapshot, TypeOK
    <3> QED BY <1>1, <3>1 DEF Holds
  <2> QED BY <2>1, <2>2
<1>7. CASE Save(p)
  <2>1. /\ Others /\ undo' = undo /\ UNCHANGED memory /\ pc[p] = "checked"
        /\ file' = [file EXCEPT ![path[p]] =
                     [selections |-> request[p].selections, done |-> {},
                      pending |-> request[p].atoms]]
    BY <1>7 DEF Save, TypeOK
  <2>2. CASE resuming[p]
    <3>1. Mine => Holds(s, f)
      BY <2>1, <2>2 DEF Holds
    <3>2. file'[f] \in State /\ file'[f].selections = s => Holds(s, f)
      BY <2>1, <2>2 DEF Holds, TypeOK
    <3> QED BY <1>1, <2>1, <3>1, <3>2
  <2>3. CASE ~resuming[p]
    <3>1. request[p].selections = p
      BY <2>1, <2>3 DEF Phases, NewRequest
    <3>2. CASE s = p /\ f = path[p]
      BY <1>7, <2>3, <3>2
    <3>3. CASE ~(s = p /\ f = path[p])
      <4>1. ~Mine
        BY <2>1, <3>1, <3>3
      <4>2. file'[f] \in State /\ file'[f].selections = s => Holds(s, f)
        BY <2>1, <3>1, <3>3 DEF Holds, TypeOK
      <4> QED BY <1>1, <2>1, <4>1, <4>2
    <3> QED BY <3>2, <3>3
  <2> QED BY <2>2, <2>3
<1>8. CASE FinishEmptyResume(p)
  <2>1. file'[f] \in {file[f], NoFile}
    BY <1>8 DEF FinishEmptyResume, TypeOK
  <2> QED BY <1>2, <1>8, <2>1 DEF FinishEmptyResume
<1>9. CASE Finish(p)
  <2>1. file'[f] \in {file[f], NoFile}
    BY <1>9 DEF Finish, TypeOK
  <2> QED BY <1>2, <1>9, <2>1 DEF Finish
<1>10. CASE Mark(p)
  <2>1. CASE Idle(p) /\ UNCHANGED <<file, marked>>
    BY <1>2, <1>10, <2>1 DEF Mark
  <2>2. CASE ~(Idle(p) /\ UNCHANGED <<file, marked>>)
    <3>1. /\ pc[p] = "mark" /\ pc' = [pc EXCEPT ![p] = "run"]
          /\ UNCHANGED <<path, resuming, request, undo>>
      BY <1>10, <2>2 DEF Mark
    <3>2. Others
      BY <3>1 DEF TypeOK
    <3>3. Mine => Holds(s, f)
      BY <3>1 DEF Holds
    <3>4. file'[f] \in State /\ file'[f].selections = s => Holds(s, f)
      <4>1. CASE file' = file
        BY <4>1 DEF Holds
      <4>2. CASE file' # file
        <5>1. /\ file[path[p]] \in State
              /\ file' = [file EXCEPT ![path[p]].done = @ \cup merged[p],
                                      ![path[p]].pending = @ \ merged[p]]
          BY <1>10, <2>2, <4>2 DEF Mark
        <5>2. f # path[p] => file'[f] = file[f]
          BY <5>1 DEF TypeOK
        <5>3. file'[path[p]].selections = file[path[p]].selections
          BY <5>1 DEF TypeOK, State
        <5> QED BY Zenon, <5>1, <5>2, <5>3 DEF Holds
      <4> QED BY <4>1, <4>2
    <3> QED BY <1>1, <3>1, <3>2, <3>3, <3>4
  <2> QED BY <2>1, <2>2
<1>11. ASSUME NEW g \in File, LoadResume(p, g) PROVE Holds(s, f)
  <2>1. Others /\ UNCHANGED <<undo, file>> /\ file[g] \in State
    BY Zenon, <1>11 DEF LoadResume, TypeOK
  <2>2. path'[p] = g /\ request'[p].selections = file[g].selections
    BY <1>11 DEF LoadResume, TypeOK
  <2>3. Mine => Holds(s, f)
    BY <2>1, <2>2 DEF Holds
  <2> QED BY Zenon, <1>1, <2>1, <2>3 DEF Holds
<1>12. ASSUME NEW g \in File, ReservePrivate(p, g) PROVE Holds(s, f)
  <2>1. Others /\ ~Mine /\ undo' = undo
    BY <1>12 DEF ReservePrivate, TypeOK
  <2>2. file'[f] \in {file[f], Empty}
    BY <1>12 DEF ReservePrivate, TypeOK
  <2> QED BY ContentAssumption, <1>1, <2>1, <2>2 DEF Holds
<1>13. ASSUME NEW a \in Atom, Commit(p, a) PROVE Holds(s, f)
  <2>1. /\ pc[p] = "run" /\ pc' = [pc EXCEPT ![p] = "mark"]
        /\ request' = [request EXCEPT ![p].atoms = @ \ {a}]
        /\ UNCHANGED <<path, resuming>> /\ undo' = <<>>
    BY <1>13 DEF Commit
  <2>2. \A q \in Proc : request'[q].selections = request[q].selections
    BY <2>1 DEF TypeOK
  <2>3. \/ file'[f] = file[f]
        \/ f = Default /\ \E i \in DOMAIN undo : file'[f] = undo[i]
    BY <1>13 DEF Commit, TypeOK
  <2>4. file'[f] \in State /\ file'[f].selections = s => Holds(s, f)
    BY <2>3 DEF Holds
  <2>5. ASSUME NEW q \in Proc, resuming'[q] \/ pc'[q] \in {"run", "mark"},
               path'[q] = f, request'[q].selections = s
        PROVE  Holds(s, f)
    BY <2>1, <2>2, <2>5 DEF Holds, TypeOK
  <2> QED BY <2>1, <2>4, <2>5 DEF Holds
<1> QED BY <1>3, <1>4, <1>5, <1>6, <1>7, <1>8, <1>9, <1>10, <1>11, <1>12, <1>13
       DEF Transaction

\* The cleaner moves the default checkpoint to its journal and back.
LEMMA CleaningHolds ==
  ASSUME TypeOK, NEW s \in Proc, NEW f \in File, Holds(s, f)',
         \/ CleanCheck \/ CleanLock \/ CleanCapture \/ CleanRemove \/ CleanCommit
         \/ CleanKilled
  PROVE  Holds(s, f)
<1>1. UNCHANGED <<pc, path, resuming, request>>
  BY DEF CleanCheck, CleanLock, CleanCapture, CleanRemove, CleanCommit, CleanKilled,
         others, process, memory
<1>2. file'[f] \in {file[f], NoFile}
  BY DEF CleanCheck, CleanLock, CleanCapture, CleanRemove, CleanCommit, CleanKilled,
         TypeOK
<1>3. \A i \in DOMAIN undo' :
        undo'[i] = file[Default] \/ \E j \in DOMAIN undo : undo'[i] = undo[j]
  <2>1. CASE UNCHANGED undo
    BY Zenon, <2>1
  <2>2. CASE CleanCapture
    BY <2>2 DEF CleanCapture, TypeOK
  <2>3. CASE CleanCommit
    BY <2>3 DEF CleanCommit, TypeOK
  <2> QED BY <2>1, <2>2, <2>3 DEF CleanCheck, CleanLock, CleanRemove, CleanKilled
<1> QED BY ContentAssumption, <1>1, <1>2, <1>3 DEF Holds

-----------------------------------------------------------------------------
(* What one step of a command changes.                                     *)

\* What a step of p leaves alone of the other commands.
LEMMA OthersKept ==
  ASSUME TypeOK, NEW p \in Proc, Transaction(p), NEW q \in Proc \ {p}
  PROVE  /\ pc'[q] = pc[q] /\ path'[q] = path[q] /\ resuming'[q] = resuming[q]
         /\ request'[q] = request[q] /\ loaded'[q] = loaded[q]
         /\ merged'[q] = merged[q] /\ (q \in started' <=> q \in started)
<1> DEFINE Kept == /\ pc'[q] = pc[q] /\ path'[q] = path[q] /\ resuming'[q] = resuming[q]
                   /\ request'[q] = request[q] /\ loaded'[q] = loaded[q]
                   /\ merged'[q] = merged[q] /\ (q \in started' <=> q \in started)
<1> SUFFICES Kept
  OBVIOUS
<1> USE DEF memory
<1>0. /\ pc \in [Proc -> {"idle", "planned", "leased", "checked", "run", "mark"}]
      /\ path \in [Proc -> File] /\ resuming \in [Proc -> BOOLEAN]
      /\ request \in [Proc -> [selections : Proc, atoms : SUBSET Atom]]
      /\ loaded \in [Proc -> Content] /\ merged \in [Proc -> SUBSET Atom]
  BY Zenon DEF TypeOK
<1>1. ASSUME Idle(p), UNCHANGED started PROVE Kept
  BY ONLY <1>0, <1>1 DEF Idle
<1>2. CASE Install(p)
  BY ONLY <1>0, <1>2 DEF Install
<1>3. CASE Reserve(p) \/ Save(p)
  BY ONLY <1>0, <1>3 DEF Reserve, Save
<1>4. CASE CheckSnapshot(p) /\ ~Idle(p)
  BY ONLY <1>0, <1>4 DEF CheckSnapshot
<1>5. CASE Mark(p) /\ ~Idle(p)
  BY ONLY <1>0, <1>5 DEF Mark
<1>6. ASSUME NEW f \in File, LoadResume(p, f) PROVE Kept
  BY ONLY <1>0, <1>6 DEF LoadResume
<1>7. ASSUME NEW f \in File, ReservePrivate(p, f) PROVE Kept
  BY ONLY <1>0, <1>7 DEF ReservePrivate
<1>8. ASSUME NEW a \in Atom, Commit(p, a) PROVE Kept
  BY ONLY <1>0, <1>8 DEF Commit
<1> HIDE DEF Kept
<1>9. CASE ReserveBusy(p) \/ Fail(p) \/ Kill(p) \/ CheckSnapshot(p) \/ Mark(p)
           \/ FinishEmptyResume(p) \/ Finish(p)
  BY Zenon, <1>1, <1>4, <1>5, <1>9 DEF ReserveBusy, Fail, Kill, CheckSnapshot, Mark,
     FinishEmptyResume, Finish
<1> QED BY Zenon, <1>2, <1>3, <1>6, <1>7, <1>8, <1>9 DEF Transaction

\* A command that ends is as at first.
LEMMA IdleValues ==
  ASSUME TypeOK, NEW p \in Proc, Idle(p)
  PROVE  /\ pc'[p] = "idle" /\ path'[p] = Default /\ resuming'[p] = FALSE
         /\ request'[p] = NewRequest(p) /\ loaded'[p] = NoFile /\ merged'[p] = {}
         /\ \A f \in File : lease'[f] = IF lease[f] = p THEN NoOne ELSE lease[f]
BY DEF Idle, TypeOK

\* Each command goes through its phases in order.
LEMMA TransactionPhases ==
  ASSUME TypeOK, NEW p \in Proc, Phases(p), Transaction(p)
  PROVE  Phases(p)'
<1> USE DEF memory, merges, cleaning, Phases
<1>1. CASE Idle(p)
  BY Zenon, <1>1, IdleValues DEF NewRequest
<1>2. CASE Install(p)
  BY <1>2 DEF Install, TypeOK, NewRequest
<1>3. CASE Reserve(p)
  BY <1>3 DEF Reserve, TypeOK, NewRequest
<1>4. CASE ReserveBusy(p) \/ Fail(p) \/ Kill(p) \/ FinishEmptyResume(p) \/ Finish(p)
  BY Zenon, <1>1, <1>4 DEF ReserveBusy, Fail, Kill, FinishEmptyResume, Finish
<1>5. CASE CheckSnapshot(p) /\ ~Idle(p)
  <2>1. /\ pc[p] = "leased" /\ pc'[p] = "checked"
        /\ UNCHANGED <<path, resuming, request, merged, started>>
    BY <1>5 DEF CheckSnapshot, TypeOK
  <2> QED BY <2>1
<1>6. CASE Save(p)
  BY <1>6 DEF Save, TypeOK, NewRequest
<1>7. CASE Mark(p) /\ ~Idle(p)
  BY <1>7 DEF Mark, TypeOK, NewRequest
<1>8. ASSUME NEW f \in File, LoadResume(p, f) PROVE Phases(p)'
  BY <1>8 DEF LoadResume, TypeOK
<1>9. ASSUME NEW f \in File, ReservePrivate(p, f) PROVE Phases(p)'
  BY <1>9 DEF ReservePrivate, TypeOK, NewRequest
<1>10. ASSUME NEW a \in Atom, Commit(p, a) PROVE Phases(p)'
  <2>1. /\ pc[p] = "run" /\ pc'[p] = "mark" /\ merged'[p] = {a}
        /\ request'[p].atoms = request[p].atoms \ {a}
        /\ resuming'[p] = resuming[p] /\ started' = started
    BY <1>10 DEF Commit, TypeOK
  <2> QED BY <2>1
<1> QED BY Zenon, <1>1, <1>2, <1>3, <1>4, <1>5, <1>6, <1>7, <1>8, <1>9, <1>10 DEF Transaction

\* A transaction that is recorded nowhere was not recorded anywhere before.
LEMMA FreshBefore ==
  ASSUME TypeOK, NEW p \in Proc, Phases(p), Transaction(p), NEW s \in Proc, Fresh(s)'
  PROVE  Fresh(s)
<1>1. CASE s # p
  BY <1>1, OthersKept DEF Fresh
<1>2. CASE s = p
  <2> USE DEF memory, Fresh
  <2>1. started \subseteq started'
    BY Zenon DEF Transaction, Install, LoadResume, Reserve, ReservePrivate, ReserveBusy,
           CheckSnapshot, Save, FinishEmptyResume, Commit, Mark, Finish, Fail, Kill
  <2>2. CASE s \notin started
    BY <2>2
  <2>3. CASE s \in started
    <3>1. ~resuming'[p] /\ pc'[p] \in {"planned", "leased", "checked"}
      BY <1>2, <2>1, <2>3
    <3>2. ~Idle(p)
      BY Zenon, <3>1, IdleValues
    <3>3. CASE Reserve(p)
      BY <1>2, <3>1, <3>3 DEF Reserve, TypeOK
    <3>4. CASE CheckSnapshot(p)
      BY <1>2, <3>1, <3>2, <3>4 DEF CheckSnapshot, TypeOK
    <3>5. ASSUME NEW f \in File, ReservePrivate(p, f) PROVE Fresh(s)
      BY <1>2, <3>1, <3>5 DEF ReservePrivate, TypeOK
    <3>6. CASE Install(p)
      BY <1>2, <2>3, <3>6 DEF Install
    <3>7. CASE Save(p) \/ Mark(p)
      BY <3>1, <3>2, <3>7 DEF Save, Mark, TypeOK
    <3>8. ASSUME NEW f \in File, LoadResume(p, f) PROVE Fresh(s)
      BY <3>1, <3>8 DEF LoadResume, TypeOK
    <3>9. ASSUME NEW a \in Atom, Commit(p, a) PROVE Fresh(s)
      BY <3>1, <3>9 DEF Commit, TypeOK
    <3> QED BY <3>2, <3>3, <3>4, <3>5, <3>6, <3>7, <3>8, <3>9
           DEF Transaction, ReserveBusy, FinishEmptyResume, Finish, Fail, Kill
  <2> QED BY <2>2, <2>3
<1> QED BY <1>1, <1>2

\* A step of p changes a checkpoint by a save, by taking an unused name, by removing
\* it once all is done, by marking a package complete, or by rolling back a cleanup.
LEMMA FileSteps ==
  ASSUME TypeOK, Homes, NEW p \in Proc, Phases(p), Transaction(p),
         NEW f \in File, file'[f] # file[f]
  PROVE  \/ /\ Save(p) /\ f = path[p]
            /\ file'[f] = [selections |-> request[p].selections, done |-> {},
                           pending |-> request[p].atoms]
         \/ ReservePrivate(p, f) /\ file'[f] = Empty
         \/ /\ FinishEmptyResume(p) \/ Finish(p)
            /\ f = path[p] /\ file'[f] = NoFile
         \/ /\ Mark(p) /\ pc'[p] = "run" /\ f = path[p]
            /\ file[f] \in State /\ file'[f] \in State
            /\ file'[f].selections = file[f].selections
            /\ file'[f].pending = file[f].pending \ merged[p]
         \/ f = Default /\ cleaned /\ \E a \in Atom : Commit(p, a)
<1> USE DEF memory, merges, cleaning
<1>1. CASE Install(p) \/ Reserve(p) \/ ReserveBusy(p) \/ Fail(p) \/ Kill(p)
  BY <1>1 DEF Install, Reserve, ReserveBusy, Fail, Kill
<1>2. CASE CheckSnapshot(p)
  BY <1>2 DEF CheckSnapshot
<1>3. CASE Save(p)
  BY <1>3 DEF Save, TypeOK
<1>4. CASE FinishEmptyResume(p)
  BY <1>4 DEF FinishEmptyResume, TypeOK
<1>5. CASE Finish(p)
  BY Zenon, <1>5 DEF Finish, TypeOK
<1>6. CASE Mark(p)
  <2>1. /\ file[path[p]] \in State
        /\ file' = [file EXCEPT ![path[p]].done = @ \cup merged[p],
                                ![path[p]].pending = @ \ merged[p]]
        /\ pc' = [pc EXCEPT ![p] = "run"]
    BY <1>6 DEF Mark
  <2>2. f = path[p]
    BY <2>1 DEF TypeOK
  <2>3. /\ file'[f] \in State
        /\ file'[f].selections = file[f].selections
        /\ file'[f].pending = file[f].pending \ merged[p]
    BY Zenon, <2>1, <2>2 DEF TypeOK, State
  <2> QED BY <1>6, <2>1, <2>2, <2>3 DEF TypeOK
<1>7. ASSUME NEW g \in File, LoadResume(p, g) PROVE FALSE
  BY <1>7 DEF LoadResume
<1>8. ASSUME NEW g \in File, ReservePrivate(p, g)
      PROVE  ReservePrivate(p, f) /\ file'[f] = Empty
  BY Zenon, <1>8 DEF ReservePrivate, TypeOK
<1>9. ASSUME NEW a \in Atom, Commit(p, a) PROVE f = Default /\ cleaned
  BY <1>9 DEF Commit, Homes, TypeOK
<1> QED BY Zenon, <1>1, <1>2, <1>3, <1>4, <1>5, <1>6, <1>7, <1>8, <1>9 DEF Transaction

\* A step of p changes a lease by releasing its own, by taking a free one, or by
\* taking that of an unused name.
LEMMA LeaseSteps ==
  ASSUME TypeOK, NEW p \in Proc, Transaction(p), NEW f \in File, lease'[f] # lease[f]
  PROVE  \/ Idle(p) /\ lease[f] = p
         \/ /\ Reserve(p) /\ f = path[p]
            /\ lease[f] = NoOne /\ lease'[f] = p
         \/ ReservePrivate(p, f) /\ lease'[f] = p
<1> USE DEF memory
<1>1. CASE Idle(p)
  <2>1. lease'[f] = IF lease[f] = p THEN NoOne ELSE lease[f]
    BY <1>1 DEF Idle
  <2> QED BY <1>1, <2>1
<1>2. CASE Install(p) \/ ReserveBusy(p) \/ Fail(p) \/ Kill(p)
  BY <1>1, <1>2 DEF Install, ReserveBusy, Fail, Kill
<1>3. CASE Reserve(p)
  BY <1>3 DEF Reserve, TypeOK
<1>4. CASE CheckSnapshot(p)
  <2>1. Idle(p) \/ UNCHANGED lease
    BY <1>4 DEF CheckSnapshot
  <2> QED BY <1>1, <2>1
<1>5. CASE Save(p) \/ FinishEmptyResume(p) \/ Finish(p)
  <2>1. Idle(p) \/ UNCHANGED lease
    BY <1>5 DEF Save, FinishEmptyResume, Finish
  <2> QED BY <1>1, <2>1
<1>6. CASE Mark(p)
  <2>1. Idle(p) \/ UNCHANGED lease
    BY <1>6 DEF Mark
  <2> QED BY <1>1, <2>1
<1>7. ASSUME NEW g \in File, LoadResume(p, g) PROVE FALSE
  BY <1>7 DEF LoadResume
<1>8. ASSUME NEW g \in File, ReservePrivate(p, g)
      PROVE  ReservePrivate(p, f) /\ lease'[f] = p
  BY Zenon, <1>8 DEF ReservePrivate, TypeOK
<1>9. ASSUME NEW a \in Atom, Commit(p, a) PROVE FALSE
  BY <1>9 DEF Commit
<1> QED BY <1>1, <1>2, <1>3, <1>4, <1>5, <1>6, <1>7, <1>8, <1>9 DEF Transaction

\* World selections are only added, by a command that has nothing left to merge.
LEMMA WorldSteps ==
  ASSUME NEW p \in Proc, Transaction(p)
  PROVE  \/ world' = world
         \/ FinishEmptyResume(p) \/ Finish(p)
BY Zenon DEF memory, merges, cleaning, Transaction, Install, LoadResume, Reserve,
       ReservePrivate, ReserveBusy, CheckSnapshot, Save, Commit, Mark, Fail, Kill

\* A command that finishes records its selections, and its checkpoint goes with them
\* unless it is the default one of a new transaction.
LEMMA FinishSteps ==
  ASSUME TypeOK, Homes, NEW p \in Proc, Phases(p), Owns(p),
         FinishEmptyResume(p) \/ Finish(p)
  PROVE  /\ world' = world \cup {request[p].selections} /\ Idle(p)
         /\ pc[p] = "run" \/ (pc[p] = "checked" /\ resuming[p])
         /\ path[p] \in Private =>
              /\ file[path[p]].selections = request[p].selections
              /\ file'[path[p]] = NoFile
<1>1. CASE FinishEmptyResume(p)
  <2>1. resuming[p]
    BY <1>1, RequestAssumption DEF FinishEmptyResume, Phases, NewRequest, TypeOK
  <2>2. path[p] \in Private => file[path[p]].selections = request[p].selections
    BY <1>1, <2>1 DEF FinishEmptyResume, Owns, Own, Safe
  <2>3. file'[path[p]] = NoFile
    BY <1>1 DEF FinishEmptyResume, TypeOK
  <2> QED BY <1>1, <2>1, <2>2, <2>3 DEF FinishEmptyResume
<1>2. CASE Finish(p)
  <2>1. merged[p] = {}
    BY <1>2 DEF Finish, Phases
  <2>2. path[p] \in Private => Own(p)
    BY <1>2 DEF Finish, Owns, Safe
  <2>3. path[p] \in Private => file'[path[p]] = NoFile
    BY <1>2, <2>1, <2>2 DEF Finish, Own, TypeOK
  <2>4. path[p] \in Private => file[path[p]].selections = request[p].selections
    BY ONLY <2>2 DEF Own
  <2> QED BY <1>2, <2>3, <2>4 DEF Finish
<1> QED BY <1>1, <1>2
=============================================================================
