-------------------------- MODULE CheckpointProofs --------------------------
(***************************************************************************)
(* Proofs about Checkpoint, for every set of processes, of packages and of *)
(* checkpoint names, with every fault and with the cleaner running.        *)
(***************************************************************************)
EXTENDS CheckpointInvariant

-----------------------------------------------------------------------------
(* World selections follow their packages.                                 *)

\* What a command reads from a checkpoint that lists its packages, saves there,
\* or drops from its memory, lists them as well.
LEMMA NextNothingForgotten ==
  ASSUME TypeOK, NothingForgotten, Next
  PROVE  NothingForgotten'
<1> USE DEF NothingForgotten, Lists, memory, merges, cleaning, others, process
<1>1. ASSUME NEW p \in Proc, Idle(p),
             /\ request' = [request EXCEPT ![p] = NewRequest(p)]
             /\ merged' = [merged EXCEPT ![p] = {}],
             UNCHANGED <<committed, undo>>,
             \A f \in File : file'[f] \in {file[f], NoFile}
      PROVE  NothingForgotten'
  <2>1. \A q \in Proc : request'[q] = IF q = p THEN NewRequest(p) ELSE request[q]
    BY <1>1 DEF TypeOK
  <2>2. \A q \in Proc : merged'[q] \subseteq committed'
    BY <1>1 DEF TypeOK
  <2>3. NewRequest(p).selections = p /\ NewRequest(p).atoms = Request[p]
    BY DEF NewRequest
  <2>4. \A q \in Proc : Request[request'[q].selections]
                          \subseteq committed' \cup request'[q].atoms
    BY <1>1, <2>1, <2>3
  <2> QED BY <1>1, <2>2, <2>4, ContentAssumption
<1>2. ASSUME NEW p \in Proc, Idle(p), UNCHANGED <<committed, undo>>,
             \A f \in File : file'[f] \in {file[f], NoFile}
      PROVE  NothingForgotten'
  BY Zenon, <1>1, <1>2 DEF Idle
<1>3. ASSUME NEW p \in Proc, Install(p) \/ Reserve(p) PROVE NothingForgotten'
  BY <1>3 DEF Install, Reserve
<1>4. ASSUME NEW p \in Proc, ReserveBusy(p) \/ Fail(p) \/ Kill(p)
      PROVE  NothingForgotten'
  BY <1>2, <1>4 DEF ReserveBusy, Fail, Kill
<1>5. ASSUME NEW p \in Proc, CheckSnapshot(p) PROVE NothingForgotten'
  <2>1. CASE Idle(p)
    BY <1>2, <1>5, <2>1 DEF CheckSnapshot
  <2>2. CASE ~Idle(p)
    BY <1>5, <2>2 DEF CheckSnapshot
  <2> QED BY <2>1, <2>2
<1>6. ASSUME NEW p \in Proc, Save(p) PROVE NothingForgotten'
  <2> DEFINE new == [selections |-> request[p].selections, done |-> {},
                     pending |-> request[p].atoms]
  <2>1. \A f \in File : file'[f] = IF f = path[p] THEN new ELSE file[f]
    BY <1>6 DEF Save, TypeOK
  <2>2. new.selections = request[p].selections /\ new.pending = request[p].atoms
    OBVIOUS
  <2>3. UNCHANGED <<committed, undo, request, merged>>
    BY <1>6 DEF Save
  <2> HIDE DEF new
  <2>4. \A f \in File : Lists(file[f])'
    BY <2>1, <2>2, <2>3
  <2> QED BY <2>3, <2>4
<1>7. ASSUME NEW p \in Proc, FinishEmptyResume(p) PROVE NothingForgotten'
  <2>1. \A f \in File : file'[f] \in {file[f], NoFile}
    BY <1>7 DEF FinishEmptyResume, TypeOK
  <2> QED BY <1>2, <1>7, <2>1 DEF FinishEmptyResume
<1>8. ASSUME NEW p \in Proc, Finish(p) PROVE NothingForgotten'
  <2>1. \A f \in File : file'[f] \in {file[f], NoFile}
    BY <1>8 DEF Finish, TypeOK
  <2> QED BY Zenon, <1>2, <1>8, <2>1 DEF Finish
<1>9. ASSUME NEW p \in Proc, Mark(p) PROVE NothingForgotten'
  <2>1. CASE Idle(p) /\ UNCHANGED <<file, marked>>
    BY <1>2, <1>9, <2>1 DEF Mark
  <2>2. CASE ~(Idle(p) /\ UNCHANGED <<file, marked>>)
    <3>1. /\ merged' = [merged EXCEPT ![p] = {}] /\ request' = request
          /\ committed' = committed /\ undo' = undo
      BY <1>9, <2>2 DEF Mark
    <3>2. CASE file[path[p]] = NoFile
      BY <1>9, <2>2, <3>1, <3>2 DEF Mark, TypeOK
    <3>3. CASE file[path[p]] # NoFile
      <4>1. file[path[p]] \in State /\ path[p] \in File
        BY <1>9, <2>2, <3>3 DEF Mark, TypeOK
      <4>2. file' = [file EXCEPT ![path[p]].done = @ \cup merged[p],
                                 ![path[p]].pending = @ \ merged[p]]
        BY <1>9, <2>2, <3>3 DEF Mark
      <4>3. /\ file'[path[p]].selections = file[path[p]].selections
            /\ file'[path[p]].pending = file[path[p]].pending \ merged[p]
        BY <4>1, <4>2 DEF TypeOK, State
      <4>4. \A f \in File \ {path[p]} : file'[f] = file[f]
        BY <4>1, <4>2 DEF TypeOK
      <4>5. merged[p] \subseteq committed
        OBVIOUS
      <4>6. \A f \in File : Lists(file[f])'
        BY <3>1, <4>1, <4>3, <4>4, <4>5
      <4> QED BY <3>1, <4>6 DEF TypeOK
    <3> QED BY <3>2, <3>3
  <2> QED BY <2>1, <2>2
<1>10. ASSUME NEW p \in Proc, NEW f \in File, LoadResume(p, f) PROVE NothingForgotten'
  <2>1. UNCHANGED <<file, committed, undo, merged>> /\ file[f] \in State
    BY <1>10 DEF LoadResume
  <2>2. \A q \in Proc \ {p} : request'[q] = request[q]
    BY <1>10 DEF LoadResume, TypeOK
  <2>3. /\ request'[p].selections = file[f].selections
        /\ request'[p].atoms = file[f].pending
    BY <1>10 DEF LoadResume, TypeOK
  <2> QED BY <2>1, <2>2, <2>3
<1>11. ASSUME NEW p \in Proc, NEW f \in File, ReservePrivate(p, f)
       PROVE  NothingForgotten'
  BY <1>11, ContentAssumption DEF ReservePrivate, TypeOK
<1>12. ASSUME NEW p \in Proc, NEW a \in Atom, Commit(p, a) PROVE NothingForgotten'
  <2>1. /\ request' = [request EXCEPT ![p].atoms = @ \ {a}]
        /\ merged' = [merged EXCEPT ![p] = {a}]
        /\ committed' = committed \cup {a} /\ undo' = <<>>
    BY <1>12 DEF Commit
  <2>2. \A f \in File : \/ file'[f] = file[f]
                        \/ \E i \in DOMAIN undo : file'[f] = undo[i]
    BY <1>12 DEF Commit, TypeOK
  <2>3. \A f \in File : Lists(file[f])'
    BY <2>1, <2>2
  <2>4. \A q \in Proc : /\ request'[q].selections = request[q].selections
                        /\ request[q].atoms \subseteq request'[q].atoms \cup {a}
    BY <2>1 DEF TypeOK
  <2>5. \A q \in Proc : merged'[q] \subseteq committed'
    BY <2>1 DEF TypeOK
  <2> QED BY <2>1, <2>3, <2>4, <2>5
<1>13. CASE CleanCheck \/ CleanLock \/ CleanKilled
  BY <1>13 DEF CleanCheck, CleanLock, CleanKilled
<1>14. CASE CleanCapture
  BY <1>14 DEF CleanCapture, TypeOK, File
<1>15. CASE CleanRemove
  BY <1>15, ContentAssumption DEF CleanRemove, TypeOK
<1>16. CASE CleanCommit
  BY <1>16 DEF CleanCommit, TypeOK
<1> QED BY Zenon, <1>3, <1>4, <1>5, <1>6, <1>7, <1>8, <1>9, <1>10, <1>11, <1>12, <1>13,
          <1>14, <1>15, <1>16 DEF Next, Transaction

\* A world selection is recorded only when all its packages have been merged, over
\* any chain of failed, killed and resumed commands and any cleanup.
THEOREM WorldFollowsPackages == Spec => []WorldAfterPackages
<1> DEFINE Ind == TypeOK /\ NothingForgotten /\ WorldAfterPackages
<1>1. Init => Ind
  <2> SUFFICES ASSUME Init PROVE Ind
    OBVIOUS
  <2>1. NothingForgotten
    BY ContentAssumption DEF Init, NothingForgotten, Lists, NewRequest
  <2> QED BY <2>1, InitTyped DEF Init, WorldAfterPackages
<1>2. Ind /\ [Next]_vars => Ind'
  <2> SUFFICES ASSUME Ind, [Next]_vars PROVE Ind'
    OBVIOUS
  <2>1. CASE Next
    <3>1. TypeOK' /\ NothingForgotten'
      BY <2>1, TransactionTyped, CleaningTyped, NextNothingForgotten DEF Next
    <3>2. committed \subseteq committed'
      <4> USE DEF memory, merges, cleaning, others, process, Idle
      <4>1. ASSUME NEW p \in Proc, Transaction(p) PROVE committed \subseteq committed'
        BY Zenon, <4>1 DEF Transaction, Install, LoadResume, Reserve, ReservePrivate,
             ReserveBusy, CheckSnapshot, Save, FinishEmptyResume, Commit, Mark,
             Finish, Fail, Kill
      <4> QED BY Zenon, <2>1, <4>1 DEF Next, CleanCheck, CleanLock, CleanCapture,
            CleanRemove, CleanCommit, CleanKilled
    <3>3. world' \subseteq
            world \cup {request[p].selections : p \in {q \in Proc : request[q].atoms = {}}}
      <4> USE DEF memory, merges, cleaning, others, process
      <4>1. ASSUME NEW p \in Proc, Transaction(p)
            PROVE  \/ world' = world
                   \/ request[p].atoms = {} /\ world' = world \cup {request[p].selections}
        BY Zenon, <4>1 DEF Transaction, Install, LoadResume, Reserve, ReservePrivate,
             ReserveBusy, CheckSnapshot, Save, FinishEmptyResume, Commit, Mark,
             Finish, Fail, Kill
      <4>2. CASE \E p \in Proc : Transaction(p)
        BY <4>1, <4>2
      <4> QED BY Zenon, <2>1, <4>2 DEF Next, CleanCheck, CleanLock, CleanCapture,
            CleanRemove, CleanCommit, CleanKilled
    <3>4. \A p \in Proc : request[p].atoms = {} =>
            Request[request[p].selections] \subseteq committed
      BY DEF NothingForgotten
    <3>5. WorldAfterPackages'
      BY <3>2, <3>3, <3>4 DEF WorldAfterPackages
    <3> QED BY <3>1, <3>5
  <2>2. CASE UNCHANGED vars
    BY <2>2 DEF vars, merges, process, memory, cleaning, TypeOK, NothingForgotten,
      Lists, WorldAfterPackages
  <2> QED BY <2>1, <2>2
<1>3. Ind => WorldAfterPackages
  OBVIOUS
<1> QED BY <1>1, <1>2, <1>3, PTL DEF Spec

-----------------------------------------------------------------------------
(* The lease keeps a checkpoint for its transaction.                       *)

\* Selections keep their home, those in the world file leave no private checkpoint,
\* and nothing is recorded of a fresh transaction.
LEMMA TransactionHomes ==
  ASSUME Exclusive, NEW p \in Proc, Transaction(p)
  PROVE  Homes'
<1> USE DEF Exclusive
<1>1. \A s \in Proc, f \in File : Holds(s, f)' =>
        \/ Holds(s, f)
        \/ Save(p) /\ ~resuming[p] /\ s = p /\ f = path[p]
  BY TransactionHolds
<1>2. \A s \in Proc : Fresh(s)' => Fresh(s)
  BY FreshBefore
<1>3. Save(p) /\ ~resuming[p] => Fresh(p) /\ ~Fresh(p)'
  <2> SUFFICES ASSUME Save(p), ~resuming[p] PROVE Fresh(p) /\ ~Fresh(p)'
    OBVIOUS
  <2>1. p \in started /\ started' = started
    BY DEF Save, Phases
  <2> QED BY <2>1 DEF Save, Fresh, TypeOK
<1>4. \A s \in Proc, f, g \in File : Holds(s, f)' /\ Holds(s, g)' => f = g
  BY <1>1, <1>3 DEF Homes
<1>5. \A s \in Proc : Fresh(s)' => s \notin world' /\ \A f \in File : ~Holds(s, f)'
  <2> SUFFICES ASSUME NEW s \in Proc, Fresh(s)'
               PROVE  s \notin world' /\ \A f \in File : ~Holds(s, f)'
    OBVIOUS
  <2>1. s \notin world /\ \A f \in File : ~Holds(s, f)
    BY <1>2 DEF Homes
  <2>2. \A f \in File : ~Holds(s, f)'
    BY <1>1, <1>3, <2>1
  <2>3. CASE world' = world
    BY <2>1, <2>2, <2>3
  <2>4. CASE FinishEmptyResume(p) \/ Finish(p)
    <3>1. Holds(request[p].selections, path[p]) /\ path[p] \in File
      BY Zenon, <2>4, FinishSteps DEF Holds, TypeOK
    <3> QED BY <2>1, <2>2, <2>4, <3>1, FinishSteps
  <2> QED BY <2>3, <2>4, WorldSteps
<1>6. \A f \in Private : file'[f] \in State => file'[f].selections \notin world'
  <2> SUFFICES ASSUME NEW f \in Private, file'[f] \in State
               PROVE  file'[f].selections \notin world'
    OBVIOUS
  <2> f \in File
    BY DEF File
  <2>1. CASE FinishEmptyResume(p) \/ Finish(p)
    <3>1. f # path[p]
      BY <2>1, FinishSteps, ContentAssumption
    <3>2. file'[f] = file[f]
      BY <2>1, <3>1 DEF FinishEmptyResume, Finish, TypeOK
    <3>3. Holds(request[p].selections, path[p]) /\ path[p] \in File
      BY <2>1, FinishSteps DEF Holds, TypeOK
    <3>4. Holds(file[f].selections, f)
      BY <3>2 DEF Holds
    <3>5. request[p].selections \in Proc
      BY DEF TypeOK
    <3>6. file[f].selections # request[p].selections
      BY <3>1, <3>3, <3>4, <3>5 DEF Homes
    <3>7. world' = world \cup {request[p].selections}
      BY Zenon, <2>1 DEF FinishEmptyResume, Finish
    <3>8. file[f].selections \notin world
      BY <3>2 DEF Homes
    <3> QED BY ONLY <3>2, <3>6, <3>7, <3>8
  <2>2. CASE world' = world /\ ~(FinishEmptyResume(p) \/ Finish(p))
    <3>1. CASE file'[f] = file[f]
      BY <2>2, <3>1 DEF Homes
    <3>2. CASE Save(p) /\ f = path[p] /\ ~resuming[p]
      <4>1. request[p] = NewRequest(p)
        BY <3>2 DEF Phases, Save
      <4>2. file'[f].selections = p
        <5>1. file'[f] = [selections |-> request[p].selections, done |-> {},
                          pending |-> request[p].atoms]
          BY <3>2 DEF Save, TypeOK
        <5>2. file'[f].selections = request[p].selections
          BY ONLY <5>1
        <5>3. request[p].selections = p
          BY ONLY <4>1 DEF NewRequest
        <5> QED BY ONLY <5>2, <5>3
      <4> QED BY <1>3, <2>2, <3>2, <4>2 DEF Homes
    <3>3. CASE Save(p) /\ f = path[p] /\ resuming[p]
      <4>1. file[f] \in State /\ file[f].selections = request[p].selections
        BY Zenon, <3>3 DEF Owns, Own, Safe, Save
      <4>2. file'[f].selections = request[p].selections
        BY <3>3 DEF Save, TypeOK
      <4> QED BY <2>2, <4>1, <4>2 DEF Homes
    <3>4. CASE /\ file[f] \in State /\ file'[f] \in State
               /\ file'[f].selections = file[f].selections
      BY <2>2, <3>4 DEF Homes
    <3>5. CASE file'[f] = Empty
      BY <3>5, ContentAssumption
    <3> QED BY Zenon, <2>2, <3>1, <3>2, <3>3, <3>4, <3>5, FileSteps, FileAssumption
  <2> QED BY <2>1, <2>2, WorldSteps
<1>7. cleaned' = cleaned /\ cleaner' = cleaner /\ undo' \in {undo, <<>>}
  BY Zenon DEF memory, merges, cleaning, Transaction, Install, LoadResume, Reserve,
         ReservePrivate, ReserveBusy, CheckSnapshot, Save, FinishEmptyResume, Finish,
         Commit, Mark, Fail, Kill
<1> QED BY <1>4, <1>5, <1>6, <1>7 DEF Homes

\* The lease of a transaction that has checked its snapshot stays with it; before, a
\* lease is lost only with a checkpoint that is finished.
LEMMA TransactionLeases ==
  ASSUME Exclusive, NEW p \in Proc, Transaction(p), NEW q \in Proc
  PROVE  Leases(q)'
<1> USE DEF Exclusive
<1> path[q] \in File
  BY DEF TypeOK
<1>1. world \subseteq world'
  BY WorldSteps DEF FinishEmptyResume, Finish
<1>2. CASE q # p
  <2>1. /\ pc'[q] = pc[q] /\ path'[q] = path[q] /\ resuming'[q] = resuming[q]
        /\ request'[q] = request[q]
    BY <1>2, OthersKept
  <2>2. CASE lease'[path[q]] = lease[path[q]]
    BY <1>1, <2>1, <2>2 DEF Leases
  <2>3. CASE lease[path[q]] \in {p, NoOne}
    BY NoOneAssumption, <1>1, <1>2, <2>1, <2>3 DEF Leases
  <2>4. CASE ReservePrivate(p, path[q])
    <3>1. path[q] \in Private /\ file[path[q]] = NoFile
      BY <2>4 DEF ReservePrivate
    <3>2. ~(pc[q] \in {"checked", "run", "mark"})
      BY Zenon, ContentAssumption, <3>1 DEF Owns, Own, Safe, Planned
    <3>3. pc[q] = "leased" => resuming[q] /\ request[q].selections \in world
      BY Zenon, ContentAssumption, <3>1 DEF Planned
    <3> QED BY <1>1, <2>1, <3>1, <3>2, <3>3 DEF Leases
  <2> QED BY <2>2, <2>3, <2>4, LeaseSteps
<1>3. CASE q = p
  <2> USE DEF memory, merges, cleaning
  <2>1. CASE Idle(p)
    BY Zenon, <1>3, <2>1, IdleValues DEF Leases
  <2>2. CASE Reserve(p)
    BY <1>3, <2>2 DEF Reserve, Leases, TypeOK
  <2>3. ASSUME NEW f \in File, ReservePrivate(p, f) PROVE Leases(q)'
    BY <1>3, <2>3 DEF ReservePrivate, Leases, TypeOK
  <2>4. CASE CheckSnapshot(p) /\ ~Idle(p)
    <3>1. pc[p] = "leased" /\ UNCHANGED <<lease, path>>
      BY <2>4 DEF CheckSnapshot
    <3>2. lease[path[p]] = p
      <4> SUFFICES ASSUME lease[path[p]] # p PROVE FALSE
        OBVIOUS
      <4>1. resuming[p] /\ path[p] \in Private /\ request[p].selections \in world
        BY <3>1 DEF Leases
      <4>2. file[path[p]] = loaded[p]
        BY <2>4, <4>1 DEF CheckSnapshot
      <4>3. /\ loaded[p] \in State
            /\ request[p] = [selections |-> loaded[p].selections,
                             atoms |-> loaded[p].pending]
        BY <3>1, <4>1 DEF Planned
      <4>4. file[path[p]] \in State /\ file[path[p]].selections \in world
        BY ONLY <4>1, <4>2, <4>3
      <4> QED BY <4>1, <4>4 DEF Homes
    <3> QED BY <1>3, <3>1, <3>2 DEF Leases
  <2>5. CASE Save(p)
    BY <1>3, <2>5 DEF Save, Leases, TypeOK
  <2>6. CASE Mark(p) /\ ~Idle(p)
    BY <1>3, <2>6 DEF Mark, Leases, TypeOK
  <2>7. CASE Install(p)
    BY <1>3, <2>7 DEF Install, Leases, TypeOK
  <2>8. ASSUME NEW f \in File, LoadResume(p, f) PROVE Leases(q)'
    BY <1>3, <2>8 DEF LoadResume, Leases, TypeOK
  <2>9. ASSUME NEW a \in Atom, Commit(p, a) PROVE Leases(q)'
    BY <1>3, <2>9 DEF Commit, Leases, TypeOK
  <2> QED BY Zenon, <2>1, <2>2, <2>3, <2>4, <2>5, <2>6, <2>7, <2>8, <2>9
         DEF Transaction, ReserveBusy, FinishEmptyResume, Finish, Fail, Kill
<1> QED BY <1>2, <1>3

\* Only the transaction that holds the lease of a safe checkpoint changes it: a
\* step of p leaves alone the checkpoint another transaction works on.
LEMMA FileKept ==
  ASSUME Exclusive, NEW p \in Proc, Transaction(p), NEW q \in Proc \ {p},
         Safe(path[q]), lease[path[q]] = q
  PROVE  \/ file'[path[q]] = file[path[q]]
         \/ file[path[q]] = NoFile
<1> USE DEF Exclusive
<1>1. SUFFICES ASSUME file'[path[q]] # file[path[q]], file[path[q]] # NoFile PROVE FALSE
  OBVIOUS
<1>2. path[q] \in File
  BY DEF TypeOK
<1>3. CASE path[p] = path[q] /\ (Save(p) \/ Mark(p) \/ FinishEmptyResume(p) \/ Finish(p))
  <2>1. pc[p] \in {"checked", "run", "mark"}
    BY Zenon, <1>3 DEF Save, Mark, FinishEmptyResume, Finish
  <2> QED BY <1>3, <2>1 DEF Leases
<1>4. CASE ReservePrivate(p, path[q])
  BY <1>1, <1>4 DEF ReservePrivate
<1>5. CASE path[q] = Default /\ cleaned
  BY <1>5, FileAssumption DEF Safe
<1> QED BY Zenon, <1>1, <1>2, <1>3, <1>4, <1>5, FileSteps

\* What a command has planned from stays at its path until it is finished, and an
\* unused name stays with the command that took it.
LEMMA TransactionPlanned ==
  ASSUME Exclusive, NEW p \in Proc, Transaction(p), NEW q \in Proc
  PROVE  Planned(q)'
<1> USE DEF Exclusive
<1> path[q] \in File
  BY DEF TypeOK
<1>1. world \subseteq world'
  BY WorldSteps DEF FinishEmptyResume, Finish
<1>2. ASSUME path[q] \in Private, file[path[q]] \in State
      PROVE  \/ file[path[q]].selections \in world'
             \/ /\ file'[path[q]] \in State
                /\ file'[path[q]].selections = file[path[q]].selections
  <2>1. CASE file'[path[q]] = file[path[q]]
    BY <1>2, <2>1
  <2>2. CASE Save(p) /\ path[q] = path[p]
    <3>1. pc[p] = "checked"
      BY <2>2 DEF Save
    <3>2. resuming[p]
      BY Zenon, ContentAssumption, <1>2, <2>2, <3>1 DEF Planned
    <3>3. file[path[q]].selections = request[p].selections
      BY <1>2, <2>2, <3>1, <3>2 DEF Owns, Own, Safe
    <3>4. file'[path[q]] = [selections |-> request[p].selections, done |-> {},
                            pending |-> request[p].atoms]
      BY <2>2 DEF Save, TypeOK
    <3>5. file'[path[q]] \in State
      <4>1. request[p] \in [selections : Proc, atoms : SUBSET Atom]
        BY DEF TypeOK
      <4> QED BY ONLY <3>4, <4>1 DEF State
    <3> QED BY ONLY <3>3, <3>4, <3>5
  <2>3. CASE ReservePrivate(p, path[q])
    BY ContentAssumption, <1>2, <2>3 DEF ReservePrivate
  <2>4. CASE (FinishEmptyResume(p) \/ Finish(p)) /\ path[q] = path[p]
    <3>1. /\ world' = world \cup {request[p].selections}
          /\ path[p] \in Private => file[path[p]].selections = request[p].selections
      BY <2>4, FinishSteps
    <3> QED BY ONLY <1>2, <2>4, <3>1
  <2>5. CASE path[q] = Default
    BY <1>2, <2>5, FileAssumption
  <2> QED BY Zenon, <1>2, <2>1, <2>2, <2>3, <2>4, <2>5, FileSteps
<1>3. CASE q # p
  <2>1. /\ pc'[q] = pc[q] /\ path'[q] = path[q] /\ resuming'[q] = resuming[q]
        /\ request'[q] = request[q] /\ loaded'[q] = loaded[q]
    BY <1>3, OthersKept
  <2>2. ASSUME pc[q] \in {"planned", "leased"}, resuming[q], path[q] \in Private
        PROVE  \/ request[q].selections \in world'
               \/ /\ file'[path[q]] \in State
                  /\ file'[path[q]].selections = request[q].selections
    BY Zenon, <1>1, <1>2, <2>2 DEF Planned
  <2>3. ASSUME pc[q] \in {"leased", "checked"}, ~resuming[q], path[q] \in Private
        PROVE  file'[path[q]] = Empty
    <3>1. lease[path[q]] = q /\ Safe(path[q]) /\ file[path[q]] = Empty
      BY Zenon, <2>3 DEF Leases, Safe, Planned
    <3> QED BY ContentAssumption, <1>3, <3>1, FileKept
  <2> QED BY <2>1, <2>2, <2>3 DEF Planned
<1>4. CASE q = p
  <2> USE DEF memory, merges, cleaning
  <2>1. CASE Idle(p)
    BY Zenon, <1>4, <2>1, IdleValues DEF Planned
  <2>2. CASE Reserve(p)
    <3>1. /\ pc[p] = "planned" /\ pc'[p] = "leased"
          /\ UNCHANGED <<file, world, path, resuming, request, loaded>>
      BY <2>2 DEF Reserve, TypeOK
    <3>2. ~resuming[p] => path[p] = Default
      BY <3>1 DEF Phases
    <3> QED BY FileAssumption, <1>4, <3>1, <3>2 DEF Planned
  <2>3. ASSUME NEW f \in File, ReservePrivate(p, f) PROVE Planned(q)'
    <3>1. pc'[p] = "leased" /\ ~resuming'[p] /\ path'[p] = f /\ file'[f] = Empty
      BY <2>3 DEF ReservePrivate, TypeOK
    <3> QED BY ONLY <1>4, <3>1 DEF Planned
  <2>4. CASE CheckSnapshot(p) /\ ~Idle(p)
    <3>1. /\ pc[p] = "leased" /\ pc'[p] = "checked"
          /\ UNCHANGED <<file, world, path, resuming, request>>
      BY <2>4 DEF CheckSnapshot, TypeOK
    <3> QED BY Zenon, <1>4, <3>1 DEF Planned
  <2>5. CASE Save(p)
    <3>1. pc'[p] = "run"
      BY <2>5 DEF Save, TypeOK
    <3> QED BY Zenon, <1>4, <3>1 DEF Planned
  <2>6. CASE Mark(p) /\ ~Idle(p)
    <3>1. pc'[p] = "run"
      BY <2>6 DEF Mark, TypeOK
    <3> QED BY Zenon, <1>4, <3>1 DEF Planned
  <2>7. CASE Install(p)
    <3>1. pc'[p] = "planned" /\ resuming'[p] = FALSE
      <4>1. pc[p] = "idle" /\ pc'[p] = "planned" /\ resuming' = resuming
        BY <2>7 DEF Install, TypeOK
      <4>2. resuming[p] = FALSE
        BY <4>1 DEF Phases, TypeOK
      <4> QED BY ONLY <4>1, <4>2
    <3> QED BY <1>4, <3>1 DEF Planned
  <2>8. ASSUME NEW f \in File, LoadResume(p, f) PROVE Planned(q)'
    <3>1. /\ pc'[p] = "planned" /\ path'[p] = f /\ loaded'[p] = file[f]
          /\ file[f] \in State /\ file' = file /\ resuming'[p] = TRUE
          /\ request'[p] = [selections |-> file[f].selections, atoms |-> file[f].pending]
      BY Zenon, <2>8 DEF LoadResume, TypeOK
    <3>2. request'[p].selections = file[f].selections
      <4>1. request'[p] = [selections |-> file[f].selections, atoms |-> file[f].pending]
        BY <3>1
      <4> QED BY ONLY <4>1
    <3> QED BY Zenon, <1>4, <3>1, <3>2 DEF Planned
  <2>9. ASSUME NEW a \in Atom, Commit(p, a) PROVE Planned(q)'
    <3>1. pc'[p] = "mark"
      BY <2>9 DEF Commit, TypeOK
    <3> QED BY <1>4, <3>1 DEF Planned
  <2> QED BY Zenon, <2>1, <2>2, <2>3, <2>4, <2>5, <2>6, <2>7, <2>8, <2>9
         DEF Transaction, ReserveBusy, FinishEmptyResume, Finish, Fail, Kill
<1> QED BY <1>3, <1>4

\* A safe checkpoint records exactly what its transaction has left to do.
LEMMA TransactionOwns ==
  ASSUME Exclusive, NEW p \in Proc, Transaction(p), NEW q \in Proc
  PROVE  Owns(q)'
<1> USE DEF Exclusive
<1>1. cleaned' = cleaned
  BY Zenon DEF memory, merges, cleaning, Transaction, Install, LoadResume, Reserve,
         ReservePrivate, ReserveBusy, CheckSnapshot, Save, FinishEmptyResume, Finish,
         Commit, Mark, Fail, Kill
<1>2. CASE q # p
  <2>1. /\ pc'[q] = pc[q] /\ path'[q] = path[q] /\ resuming'[q] = resuming[q]
        /\ request'[q] = request[q] /\ merged'[q] = merged[q]
    BY <1>2, OthersKept
  <2>2. ASSUME Safe(path[q]), pc[q] \in {"checked", "run", "mark"}, Own(q)
        PROVE  Own(q)'
    <3>1. lease[path[q]] = q /\ file[path[q]] # NoFile
      BY <2>2, ContentAssumption DEF Leases, Own
    <3>2. file'[path[q]] = file[path[q]]
      BY <1>2, <2>2, <3>1, FileKept
    <3> QED BY <2>1, <2>2, <3>2 DEF Own
  <2> QED BY <1>1, <2>1, <2>2 DEF Owns, Safe
<1>3. CASE q = p
  <2> USE DEF memory, merges, cleaning
  <2>1. CASE Idle(p)
    BY Zenon, <1>3, <2>1, IdleValues DEF Owns
  <2>2. CASE Reserve(p) \/ Install(p) \/ \E f \in File : LoadResume(p, f) \/ ReservePrivate(p, f)
    <3>1. pc'[p] \in {"planned", "leased"}
      <4>1. pc' = [pc EXCEPT ![p] = "planned"] \/ pc' = [pc EXCEPT ![p] = "leased"]
        BY Zenon, <2>2 DEF Reserve, Install, LoadResume, ReservePrivate
      <4>2. pc \in [Proc -> {"idle", "planned", "leased", "checked", "run", "mark"}]
        BY DEF TypeOK
      <4> QED BY ONLY <4>1, <4>2
    <3> QED BY <1>3, <3>1 DEF Owns
  <2>3. CASE CheckSnapshot(p) /\ ~Idle(p)
    <3>1. /\ pc[p] = "leased" /\ pc'[p] = "checked"
          /\ resuming[p] => file[path[p]] = loaded[p]
          /\ UNCHANGED <<file, path, resuming, request, merged>>
      BY <2>3 DEF CheckSnapshot, TypeOK
    <3>2. resuming[p] => /\ loaded[p] \in State
                         /\ request[p] = [selections |-> loaded[p].selections,
                                          atoms |-> loaded[p].pending]
      BY <3>1 DEF Planned
    <3>3. merged[p] = {}
      BY <3>1 DEF Phases
    <3>4. resuming[p] => Own(p)'
      <4> SUFFICES ASSUME resuming[p] PROVE Own(p)'
        OBVIOUS
      <4>1. request[p].selections = loaded[p].selections /\ request[p].atoms = loaded[p].pending
        BY ONLY <3>2, resuming[p]
      <4>2. file[path[p]] = loaded[p] /\ loaded[p] \in State
        BY ONLY <3>1, <3>2, resuming[p]
      <4> QED BY ONLY <3>1, <3>3, <4>1, <4>2 DEF Own
    <3> QED BY ONLY <1>3, <3>1, <3>4 DEF Owns
  <2>4. CASE Save(p)
    <3> DEFINE new == [selections |-> request[p].selections, done |-> {},
                       pending |-> request[p].atoms]
    <3>1. /\ pc[p] = "checked" /\ UNCHANGED <<path, resuming, request, merged>>
          /\ file'[path[p]] = new
      BY <2>4 DEF Save, TypeOK
    <3>2. new \in State /\ new.selections = request[p].selections
          /\ new.pending = request[p].atoms
      BY DEF State, TypeOK
    <3>3. merged[p] = {}
      BY Zenon, <3>1 DEF Phases
    <3> HIDE DEF new
    <3>4. Own(p)'
      BY <3>1, <3>2, <3>3 DEF Own
    <3> QED BY <1>3, <3>4 DEF Owns
  <2>5. CASE Mark(p) /\ ~Idle(p)
    <3>1. /\ pc[p] = "mark" /\ pc'[p] = "run" /\ UNCHANGED <<path, resuming, request>>
          /\ merged'[p] = {}
      BY <2>5 DEF Mark, TypeOK
    <3>2. SUFFICES ASSUME Safe(path[p]) PROVE Own(p)'
      BY <1>1, <1>3, <3>1 DEF Owns, Safe
    <3>3. Own(p)
      BY <3>1, <3>2 DEF Owns
    <3>4. file' = [file EXCEPT ![path[p]].done = @ \cup merged[p],
                               ![path[p]].pending = @ \ merged[p]]
      BY <2>5, <3>3, ContentAssumption DEF Mark, Own
    <3>5. /\ file'[path[p]] \in State
          /\ file'[path[p]].selections = file[path[p]].selections
          /\ file'[path[p]].pending = file[path[p]].pending \ merged[p]
      BY Zenon, <3>3, <3>4 DEF TypeOK, State, Own
    <3>6. file'[path[p]].pending = request[p].atoms
      BY <3>3, <3>5 DEF Own, Phases
    <3> QED BY <3>1, <3>3, <3>5, <3>6 DEF Own
  <2>6. ASSUME NEW a \in Atom, Commit(p, a) PROVE Owns(q)'
    <3>1. /\ pc[p] = "run" /\ UNCHANGED <<path, resuming>>
          /\ merged'[p] = {a} /\ a \in request[p].atoms
          /\ request'[p].atoms = request[p].atoms \ {a}
          /\ request'[p].selections = request[p].selections
      BY <2>6 DEF Commit, TypeOK
    <3>2. SUFFICES ASSUME Safe(path[p]) PROVE Own(p)'
      BY <1>1, <1>3, <3>1 DEF Owns, Safe
    <3>3. Own(p) /\ merged[p] = {}
      BY <3>1, <3>2 DEF Owns, Phases
    <3>4. file'[path[p]] = file[path[p]]
      BY <2>6, <3>2, FileAssumption DEF Commit, Safe, Homes, TypeOK
    <3> QED BY <3>1, <3>3, <3>4 DEF Own
  <2> QED BY Zenon, <2>1, <2>2, <2>3, <2>4, <2>5, <2>6
         DEF Transaction, ReserveBusy, FinishEmptyResume, Finish, Fail, Kill
<1> QED BY <1>2, <1>3

\* The cleaner touches no private checkpoint, and the default one only once it has
\* opened its journal.
LEMMA CleaningExclusive ==
  ASSUME Exclusive,
         \/ CleanCheck \/ CleanLock \/ CleanCapture \/ CleanRemove \/ CleanCommit
         \/ CleanKilled
  PROVE  Exclusive'
<1> USE DEF Exclusive
<1>1. /\ UNCHANGED <<lease, world, started, pc, path, resuming, request, loaded, merged>>
      /\ cleaned => cleaned'
  <2> USE DEF others, process, memory, merges
  <2>1. CASE CleanCheck
    BY <2>1 DEF CleanCheck
  <2>2. CASE CleanLock
    BY <2>2 DEF CleanLock
  <2>3. CASE CleanCapture
    BY <2>3 DEF CleanCapture
  <2>4. CASE CleanRemove
    BY <2>4 DEF CleanRemove
  <2>5. CASE CleanCommit
    BY <2>5 DEF CleanCommit
  <2>6. CASE CleanKilled
    BY <2>6 DEF CleanKilled
  <2> QED BY <2>1, <2>2, <2>3, <2>4, <2>5, <2>6
<1>2. TypeOK'
  BY CleaningTyped
<1>3. \A f \in File : Safe(f) => file'[f] = file[f]
  BY FileAssumption DEF CleanCheck, CleanLock, CleanCapture, CleanRemove, CleanCommit,
     CleanKilled, Safe, Homes, TypeOK
<1>4. \A f \in File : Safe(f)' => Safe(f)
  BY <1>1 DEF Safe
<1>5. Homes'
  <2>1. \A s \in Proc, f \in File : Holds(s, f)' => Holds(s, f)
    BY CleaningHolds
  <2>2. \A s \in Proc : Fresh(s)' <=> Fresh(s)
    BY <1>1 DEF Fresh
  <2>3. \A f \in Private : file'[f] = file[f]
    BY <1>3 DEF Safe, File
  <2>4. ~cleaned' => cleaner' \notin {"captured", "removed"} /\ undo' = <<>>
    BY DEF CleanCheck, CleanLock, CleanCapture, CleanRemove, CleanCommit, CleanKilled,
       Homes
  <2> QED BY <1>1, <2>1, <2>2, <2>3, <2>4 DEF Homes
<1>6. ASSUME NEW p \in Proc PROVE Phases(p)' /\ Leases(p)' /\ Planned(p)' /\ Owns(p)'
  <2>1. path[p] \in File
    BY DEF TypeOK
  <2>2. Phases(p)' /\ Leases(p)'
    BY <1>1 DEF Phases, Leases
  <2>3. path[p] \in Private => file'[path[p]] = file[path[p]]
    BY <1>3, <2>1 DEF Safe
  <2>4. Planned(p)'
    BY <1>1, <2>3 DEF Planned
  <2>5. Owns(p)'
    BY Zenon, <1>1, <1>3, <1>4, <2>1 DEF Owns, Own
  <2> QED BY <2>2, <2>4, <2>5
<1> QED BY <1>2, <1>5, <1>6

\* The inductive invariant: what is selected has one home, a command past its check
\* holds the lease of its path (tryResumeLease), what it planned from is what
\* it resumes, and its checkpoint records exactly what it has left to do.
THEOREM ExclusiveAlways == Spec => []Exclusive
<1>1. Init => Exclusive
  <2> SUFFICES ASSUME Init PROVE Exclusive
    OBVIOUS
  <2>1. \A s \in Proc, f \in File : ~Holds(s, f)
    <3>1. /\ \A f \in File : file[f] \notin State
          /\ \A q \in Proc : ~resuming[q] /\ pc[q] = "idle"
      BY ContentAssumption DEF Init
    <3>2. undo = <<>>
      BY DEF Init
    <3> QED BY ONLY <3>1, <3>2 DEF Holds
  <2>2. Homes
    BY <2>1, FileAssumption DEF Init, Homes, File
  <2>3. ASSUME NEW p \in Proc PROVE Phases(p) /\ Leases(p) /\ Planned(p) /\ Owns(p)
    BY DEF Init, Phases, Leases, Planned, Owns
  <2> QED BY <2>2, <2>3, InitTyped DEF Exclusive
<1>2. Exclusive /\ [Next]_vars => Exclusive'
  <2> SUFFICES ASSUME Exclusive, [Next]_vars PROVE Exclusive'
    OBVIOUS
  <2>1. ASSUME NEW p \in Proc, Transaction(p) PROVE Exclusive'
    <3>1. TypeOK' /\ Homes'
      BY <2>1, TransactionTyped, TransactionHomes DEF Exclusive
    <3>2. ASSUME NEW q \in Proc PROVE Leases(q)' /\ Planned(q)' /\ Owns(q)'
      BY <2>1, TransactionLeases, TransactionPlanned, TransactionOwns
    <3>3. ASSUME NEW q \in Proc PROVE Phases(q)'
      <4>1. CASE q = p
        BY <2>1, <4>1, TransactionPhases DEF Exclusive
      <4>2. CASE q # p
        <5>1. /\ pc'[q] = pc[q] /\ path'[q] = path[q] /\ resuming'[q] = resuming[q]
              /\ request'[q] = request[q] /\ merged'[q] = merged[q]
              /\ q \in started' <=> q \in started
          BY <2>1, <4>2, OthersKept DEF Exclusive
        <5>2. Phases(q)
          BY DEF Exclusive
        <5> QED BY ONLY <5>1, <5>2 DEF Phases
      <4> QED BY <4>1, <4>2
    <3> QED BY <3>1, <3>2, <3>3 DEF Exclusive
  <2>2. CASE UNCHANGED vars
    <3> USE DEF vars, merges, process, memory, cleaning
    <3>1. TypeOK'
      BY Zenon, <2>2 DEF Exclusive, TypeOK
    <3>2. Homes'
      <4>1. \A s \in Proc, f \in File : Holds(s, f)' <=> Holds(s, f)
        BY ONLY <2>2 DEF Holds
      <4>2. \A s \in Proc : Fresh(s)' <=> Fresh(s)
        BY ONLY <2>2 DEF Fresh
      <4>3. Homes
        BY DEF Exclusive
      <4> QED BY ONLY <2>2, <4>1, <4>2, <4>3 DEF Homes
    <3>3. ASSUME NEW p \in Proc PROVE Phases(p)' /\ Leases(p)' /\ Planned(p)' /\ Owns(p)'
      <4>1. Phases(p) /\ Leases(p) /\ Planned(p) /\ Owns(p)
        BY Zenon DEF Exclusive
      <4>2. Phases(p)' /\ Leases(p)' /\ Planned(p)'
        BY ONLY <2>2, <4>1 DEF Phases, Leases, Planned
      <4>3. Owns(p)'
        BY ONLY <2>2, <4>1 DEF Owns, Own, Safe
      <4> QED BY <4>2, <4>3
    <3> QED BY <3>1, <3>2, <3>3 DEF Exclusive
  <2> QED BY <2>1, <2>2, CleaningExclusive DEF Next
<1> QED BY <1>1, <1>2, PTL DEF Spec

\* While a transaction merges packages, new, resuming, failing and killed commands
\* leave its checkpoint to it.
THEOREM CheckpointIsOwn == Spec => []OwnCheckpointUncleaned
<1>1. Exclusive => OwnCheckpointUncleaned
  BY DEF Exclusive, Owns, Own, Safe, OwnCheckpointUncleaned, OwnCheckpoint
<1> QED BY <1>1, ExclusiveAlways, PTL

-----------------------------------------------------------------------------
(* A package is merged once.                                               *)

\* A package recorded as complete is in no checkpoint any more, when the requests
\* of different commands do not overlap.
LEMMA NextMarkedOnce ==
  ASSUME Exclusive, MarkedOnce, Next,
         \A p, q \in Proc : p # q => Request[p] \cap Request[q] = {}
  PROVE  MarkedOnce'
<1> USE DEF Exclusive
<1>1. SUFFICES ASSUME ~cleaned' PROVE MarkedOnce'
  BY DEF MarkedOnce
<1>2. CASE CleanCheck \/ CleanLock \/ CleanCapture \/ CleanRemove \/ CleanCommit
           \/ CleanKilled
  <2>1. UNCHANGED <<marked, started, resuming, pc>>
    BY <1>2 DEF CleanCheck, CleanLock, CleanCapture, CleanRemove, CleanCommit,
       CleanKilled, others, process, memory, merges
  <2>2. ~CleanCapture
    BY <1>1 DEF CleanCapture
  <2>3. ~cleaned
    BY <1>1, <1>2, <2>2 DEF CleanCheck, CleanLock, CleanRemove, CleanCommit, CleanKilled
  <2>4. ~CleanRemove
    BY <2>3 DEF CleanRemove, Homes
  <2>5. file' = file
    BY <1>2, <2>2, <2>4 DEF CleanCheck, CleanLock, CleanCommit, CleanKilled
  <2> QED BY <2>1, <2>3, <2>5 DEF MarkedOnce, Fresh
<1>3. ASSUME NEW p \in Proc, Transaction(p) PROVE MarkedOnce'
  <2> USE DEF memory, merges, cleaning
  <2>1. ~cleaned /\ path[p] \in File
    BY Zenon, <1>1, <1>3 DEF Transaction, Install, LoadResume, Reserve, ReservePrivate,
       ReserveBusy, CheckSnapshot, Save, FinishEmptyResume, Finish, Commit, Mark, Fail,
       Kill, TypeOK
  <2>2. \A s \in Proc : ~Fresh(s) => ~Fresh(s)'
    BY <1>3, FreshBefore
  <2>3. CASE Mark(p) /\ ~(Idle(p) /\ UNCHANGED <<file, marked>>)
    <3>1. pc[p] = "mark" /\ Own(p)
      BY <2>1, <2>3 DEF Mark, Owns, Safe
    <3>2. /\ marked' = marked \cup merged[p]
          /\ file' = [file EXCEPT ![path[p]].done = @ \cup merged[p],
                                  ![path[p]].pending = @ \ merged[p]]
      BY <2>3, <3>1, ContentAssumption DEF Mark, Own
    <3>3. /\ file'[path[p]].selections = file[path[p]].selections
          /\ file'[path[p]].pending = file[path[p]].pending \ merged[p]
      BY <2>1, <3>1, <3>2 DEF TypeOK, State, Own
    <3>4. \A f \in File \ {path[p]} : file'[f] = file[f]
      BY <2>1, <3>2 DEF TypeOK
    <3> DEFINE mine == request[p].selections
    <3>5. mine \in Proc /\ merged[p] \subseteq Request[mine]
      BY <2>1, <3>1 DEF Own, MarkedOnce, TypeOK
    <3>6. Holds(mine, path[p])
      BY <3>1 DEF Holds
    <3>7. ~Fresh(mine)
      BY <2>1, <3>5, <3>6 DEF Homes
    <3> HIDE DEF mine
    <3>8. \A f \in File \ {path[p]} : file[f] \in State =>
            file[f].pending \cap merged[p] = {}
      <4> SUFFICES ASSUME NEW f \in File, f # path[p], file[f] \in State
                   PROVE  file[f].pending \cap merged[p] = {}
        OBVIOUS
      <4>1. file[f].selections \in Proc /\ Holds(file[f].selections, f)
        BY DEF State, Holds
      <4>2. file[f].selections # mine
        BY <2>1, <3>5, <3>6, <4>1 DEF Homes
      <4>3. Request[file[f].selections] \cap Request[mine] = {}
        BY <3>5, <4>1, <4>2
      <4> QED BY <2>1, <3>5, <4>3 DEF MarkedOnce
    <3>9. \A f \in File : file'[f] \in State =>
            /\ file'[f].pending \subseteq Request[file'[f].selections]
            /\ file'[f].pending \cap marked' = {}
      <4>1. ASSUME NEW f \in File, f # path[p], file'[f] \in State
            PROVE  /\ file'[f].pending \subseteq Request[file'[f].selections]
                   /\ file'[f].pending \cap marked' = {}
        <5>1. file'[f] = file[f] /\ file[f] \in State
          BY <3>4, <4>1
        <5>2. /\ file[f].pending \subseteq Request[file[f].selections]
              /\ file[f].pending \cap marked = {}
          BY <2>1, <5>1 DEF MarkedOnce
        <5>3. file[f].pending \cap merged[p] = {}
          BY <3>8, <4>1, <5>1
        <5> QED BY Zenon, <3>2, <5>1, <5>2, <5>3
      <4>2. /\ file'[path[p]].pending \subseteq Request[file'[path[p]].selections]
            /\ file'[path[p]].pending \cap marked' = {}
        BY Zenon, <2>1, <3>1, <3>2, <3>3 DEF MarkedOnce, Own
      <4> QED BY <4>1, <4>2
    <3>10. \A a \in marked' : \E s \in Proc : a \in Request[s] /\ ~Fresh(s)'
      BY <2>1, <2>2, <3>2, <3>5, <3>7 DEF MarkedOnce
    <3> QED BY <3>9, <3>10 DEF MarkedOnce
  <2>4. CASE Mark(p) => UNCHANGED <<file, marked>>
    <3>1. marked' = marked
      BY Zenon, <1>3, <2>4 DEF Transaction, Install, LoadResume, Reserve, ReservePrivate,
         ReserveBusy, CheckSnapshot, Save, FinishEmptyResume, Finish, Commit, Mark, Fail,
         Kill
    <3>2. ASSUME NEW f \in File, file'[f] \in State
          PROVE  /\ file'[f].pending \subseteq Request[file'[f].selections]
                 /\ file'[f].pending \cap marked = {}
      <4>1. CASE file'[f] = file[f]
        BY <2>1, <3>2, <4>1 DEF MarkedOnce
      <4>2. CASE Save(p) /\ f = path[p]
        <5>1. /\ file'[f].selections = request[p].selections
              /\ file'[f].pending = request[p].atoms /\ pc[p] = "checked"
          BY <4>2 DEF Save, TypeOK
        <5>2. CASE resuming[p]
          <6>1. Own(p) /\ merged[p] = {}
            BY <2>1, <5>1, <5>2 DEF Owns, Safe, Phases
          <6> QED BY Zenon, <2>1, <4>2, <5>1, <6>1 DEF Own, MarkedOnce
        <5>3. CASE ~resuming[p]
          <6>1. request[p] = NewRequest(p) /\ Fresh(p)
            BY <5>1, <5>3 DEF Phases, Fresh
          <6>2. \A s \in Proc : ~Fresh(s) => Request[s] \cap Request[p] = {}
            BY <6>1
          <6>3. Request[p] \cap marked = {}
            BY <2>1, <6>2 DEF MarkedOnce
          <6> QED BY ONLY <5>1, <6>1, <6>3 DEF NewRequest
        <5> QED BY <5>2, <5>3
      <4>3. CASE Mark(p)
        BY <2>4, <4>1, <4>3
      <4>4. CASE file'[f] \in {Empty, NoFile}
        BY <3>2, <4>4, ContentAssumption
      <4> QED BY Zenon, <1>3, <2>1, <4>1, <4>2, <4>3, <4>4, FileSteps
    <3> QED BY <2>1, <2>2, <3>1, <3>2 DEF MarkedOnce
  <2> QED BY <2>3, <2>4
<1> QED BY <1>2, <1>3 DEF Next

\* A package that a checkpoint has recorded as complete is not merged again, when
\* the requests of different commands do not overlap.
THEOREM MergedOnce ==
  ASSUME \A p, q \in Proc : p # q => Request[p] \cap Request[q] = {}
  PROVE  Spec => CommitOnce
<1>1. Init => MarkedOnce
  BY ContentAssumption DEF Init, MarkedOnce
<1>2. Exclusive /\ MarkedOnce /\ [Next]_vars => MarkedOnce'
  <2> SUFFICES ASSUME Exclusive, MarkedOnce, [Next]_vars PROVE MarkedOnce'
    OBVIOUS
  <2>1. CASE UNCHANGED vars
    BY <2>1 DEF vars, merges, process, memory, cleaning, MarkedOnce, Fresh
  <2> QED BY <2>1, NextMarkedOnce
<1>3. Exclusive /\ MarkedOnce =>
        \A p \in Proc, a \in Atom : Commit(p, a) /\ ~cleaned => a \notin marked
  <2> SUFFICES ASSUME Exclusive, MarkedOnce, NEW p \in Proc, NEW a \in Atom,
                      Commit(p, a), ~cleaned
               PROVE  a \notin marked
    OBVIOUS
  <2>1. pc[p] = "run" /\ a \in request[p].atoms
    BY DEF Commit
  <2>2. Own(p) /\ path[p] \in File
    BY <2>1 DEF Exclusive, Owns, Safe, TypeOK
  <2> QED BY <2>1, <2>2 DEF Own, MarkedOnce
<1>4. Exclusive /\ MarkedOnce /\ [Next]_vars =>
        [\A p \in Proc, a \in Atom : Commit(p, a) /\ ~cleaned => a \notin marked]_vars
  BY <1>3
<1> QED BY <1>1, <1>2, <1>4, ExclusiveAlways, PTL DEF Spec, CommitOnce
=============================================================================
