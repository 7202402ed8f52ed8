--------------------------- MODULE JournalProofs ---------------------------
(***************************************************************************)
(* Proofs about Journal: for any faults that kill a process or fail a step *)
(* the files change all or nothing; under power loss what has reached the  *)
(* disk can be restored from the disk, and a merge is there before its     *)
(* commit is.                                                              *)
(***************************************************************************)
EXTENDS Journal, TLAPS

\* Initial states are well typed.
LEMMA InitTypeOK == Init => TypeOK
<1> SUFFICES ASSUME Init PROVE TypeOK
  OBVIOUS
<1> USE DEF Init, DirState, Stages
<1>1. dir \in [Op -> DirState] /\ dirStable \in [Op -> DirState]
  OBVIOUS
<1>2. /\ log \in [Op -> SUBSET Path] /\ logStable \in [Op -> SUBSET Path]
      /\ bak \in [Op -> SUBSET Path] /\ bakStable \in [Op -> SUBSET Path]
  OBVIOUS
<1>3. pre \in [Op -> [Path -> Content]]
  BY DEF Content
<1>4. client \in {"merge", "unmerge"} /\ pc \in Stages
  BY ClientAssumption
<1> QED BY Zenon, <1>1, <1>2, <1>3, <1>4 DEF TypeOK

\* Every step preserves the types of the files, the journals and the process.
LEMMA NextTypeOK == TypeOK /\ [Next]_vars => TypeOK'
<1> SUFFICES ASSUME TypeOK, [Next]_vars PROVE TypeOK'
  OBVIOUS
<1> USE OpAssumption DEF TypeOK, DirState, Stages, files, journals, process, vars
<1>1. ASSUME NEW c \in Client, Start(c) PROVE TypeOK'
  BY ClientAssumption, <1>1 DEF Start
<1>2. ASSUME NEW o \in Op, OpenFails(o) PROVE TypeOK'
  BY Zenon, <1>2 DEF OpenFails, Exit, NextDirectory
<1>3. ASSUME NEW o \in Op, SkipFinished(o) PROVE TypeOK'
  BY <1>3 DEF SkipFinished, NextDirectory
<1>4. ASSUME NEW o \in Op, OpenActive(o) PROVE TypeOK'
  BY <1>4 DEF OpenActive, NextDirectory
<1>5. ASSUME NEW o \in Op, RollbackActive(o) PROVE TypeOK'
  BY <1>5 DEF RollbackActive
<1>6. ASSUME NEW o \in Op, MakeDirectory(o) PROVE TypeOK'
  BY <1>6 DEF MakeDirectory
<1>7. CASE RecoverDone
  BY Zenon, <1>7 DEF RecoverDone
<1>8. CASE Return
  BY Zenon, <1>8 DEF Return, Exit
<1>9. CASE BeginPublish
  BY <1>9 DEF BeginPublish, Publish
<1>10. CASE BeginSync
  BY <1>10 DEF BeginSync, SyncDirectory
<1>11. CASE BeginFails
  BY Zenon, <1>11 DEF BeginFails, Exit
<1>12. ASSUME NEW S \in SUBSET Path, Capture(S) PROVE TypeOK'
  <2>0. pc = "open" /\ cur \in Op \cup {NoOp}
    BY <1>12 DEF Capture
  <2>1. pre' \in [Op -> [Path -> Content]]
    <3>1. [p \in Path |-> IF p \in S THEN root[p] ELSE pre[cur][p]] \in [Path -> Content]
          \/ cur = NoOp
      OBVIOUS
    <3>2. pre' = [pre EXCEPT ![cur] =
                    [p \in Path |-> IF p \in S THEN root[p] ELSE pre[cur][p]]]
      BY <1>12 DEF Capture
    <3> QED BY Zenon, <3>1, <3>2
  <2>2. bak' \in [Op -> SUBSET Path]
    BY <1>12 DEF Capture
  <2> QED BY <1>12, <2>1, <2>2 DEF Capture
<1>13. CASE CaptureSyncBackups
  BY <1>13 DEF CaptureSyncBackups
<1>14. CASE CaptureAppend
  BY <1>14 DEF CaptureAppend
<1>15. CASE CaptureSyncLog
  BY <1>15 DEF CaptureSyncLog
<1>16. CASE CaptureFails
  <2>1. PICK S \in SUBSET batch : log' = [log EXCEPT ![cur] = @ \cup S]
    BY Zenon, <1>16 DEF CaptureFails
  <2>2. log' \in [Op -> SUBSET Path]
    BY Zenon, <2>1
  <2> QED BY <1>16, <2>2 DEF CaptureFails
<1>17. ASSUME NEW p \in Path, NEW v \in Content, Mutate(p, v) PROVE TypeOK'
  BY <1>17 DEF Mutate
<1>18. ASSUME NEW p \in Path, NEW v \in Content, RestoreTorn(p, v) PROVE TypeOK'
  BY <1>18 DEF RestoreTorn
<1>19. ASSUME NEW p \in Path, Restore(p) PROVE TypeOK'
  <2>1. cur \in Op /\ pre[cur][p] \in Content
    BY <1>19 DEF Restore
  <2>2. root' \in [Path -> Content]
    BY <1>19, <2>1 DEF Restore
  <2> QED BY <1>19, <2>2 DEF Restore
<1>20. CASE SyncPayload
  BY <1>20 DEF SyncPayload
<1>21. CASE CommitPublish
  <2>1. cur \in Op /\ dir' \in [Op -> DirState]
    BY <1>21 DEF CommitPublish, ReadyToCommit, Publish
  <2> QED BY <1>21, <2>1 DEF CommitPublish, Publish
<1>22. CASE CommitSync
  BY Zenon, <1>22 DEF CommitSync, Exit, SyncDirectory
<1>23. CASE Abort
  BY <1>23 DEF Abort
<1>24. CASE RollbackPublish
  BY <1>24 DEF RollbackPublish, Publish
<1>25. CASE RollbackSync
  BY Zenon, <1>25 DEF RollbackSync, Exit, SyncDirectory
<1>26. CASE RollbackFails
  BY Zenon, <1>26 DEF RollbackFails, Exit
<1>27. CASE Kill
  BY Zenon, <1>27 DEF Kill, Exit
<1>28. CASE PowerLoss
  BY Zenon, <1>28 DEF PowerLoss, Exit
<1>29. ASSUME NEW p \in Path, WritebackPath(p) PROVE TypeOK'
  BY <1>29 DEF WritebackPath
<1>30. ASSUME NEW o \in Op, WritebackDirectory(o) PROVE TypeOK'
  BY <1>30 DEF WritebackDirectory
<1>31. ASSUME NEW o \in Op, NEW p \in Path, WritebackLog(o, p) PROVE TypeOK'
  BY <1>31 DEF WritebackLog
<1>32. ASSUME NEW o \in Op, NEW p \in Path, WritebackBackup(o, p) PROVE TypeOK'
  BY <1>32 DEF WritebackBackup
<1>33. CASE UNCHANGED vars
  BY <1>33
<1> QED
  BY Zenon, <1>1, <1>2, <1>3, <1>4, <1>5, <1>6, <1>7, <1>8, <1>9, <1>10, <1>11, <1>12, <1>13, <1>14, <1>15, <1>16, <1>17, <1>18, <1>19, <1>20, <1>21, <1>22, <1>23, <1>24, <1>25, <1>26, <1>27, <1>28, <1>29, <1>30, <1>31, <1>32, <1>33 DEF Next, Process, Environment

\* The specification keeps every variable of the journal model in its type.
THEOREM TypeCorrect == Spec => []TypeOK
  BY InitTypeOK, NextTypeOK, PTL DEF Spec

-----------------------------------------------------------------------------
(* One journal at a time.                                                  *)

\* The initial state has no journal at all.
LEMMA InitExclusive == Init => Exclusive
  BY DEF Init, Exclusive, OneActive

\* A step other than a power loss keeps the active journal to the one the process
\* has open, or has still to recover.
LEMMA NextExclusive ==
  ASSUME TypeOK, Exclusive, [Next]_vars, ~PowerLoss
  PROVE  Exclusive'
<1> USE OpAssumption DEF TypeOK, Exclusive, OneActive, files, journals, process, vars
<1>1. ASSUME NEW c \in Client, Start(c) PROVE Exclusive'
  BY <1>1 DEF Start
<1>2. ASSUME NEW o \in Op, OpenFails(o) PROVE Exclusive'
  BY <1>2 DEF OpenFails, Exit, NextDirectory
<1>3. ASSUME NEW o \in Op, SkipFinished(o) PROVE Exclusive'
  BY <1>3 DEF SkipFinished, NextDirectory
<1>4. ASSUME NEW o \in Op, OpenActive(o) PROVE Exclusive'
  BY <1>4 DEF OpenActive, NextDirectory
<1>5. ASSUME NEW o \in Op, RollbackActive(o) PROVE Exclusive'
  BY <1>5 DEF RollbackActive
<1>6. ASSUME NEW o \in Op, MakeDirectory(o) PROVE Exclusive'
  BY <1>6 DEF MakeDirectory
<1>7. CASE RecoverDone
  BY <1>7 DEF RecoverDone
<1>8. CASE Return
  BY <1>8 DEF Return, Exit
<1>9. CASE BeginPublish
  BY <1>9 DEF BeginPublish, Publish
<1>10. CASE BeginSync
  BY <1>10 DEF BeginSync, SyncDirectory
<1>11. CASE BeginFails
  BY <1>11 DEF BeginFails, Exit
<1>12. ASSUME NEW S \in SUBSET Path, Capture(S) PROVE Exclusive'
  BY <1>12 DEF Capture
<1>13. CASE CaptureSyncBackups \/ CaptureAppend \/ CaptureSyncLog \/ CaptureFails
  BY Zenon, <1>13 DEF CaptureSyncBackups, CaptureAppend, CaptureSyncLog, CaptureFails
<1>14. ASSUME NEW p \in Path, NEW v \in Content, Mutate(p, v) \/ RestoreTorn(p, v)
       PROVE  Exclusive'
  BY <1>14 DEF Mutate, RestoreTorn
<1>15. ASSUME NEW p \in Path, Restore(p) PROVE Exclusive'
  BY <1>15 DEF Restore
<1>16. CASE SyncPayload
  BY <1>16 DEF SyncPayload
<1>17. CASE CommitPublish
  BY Zenon, <1>17 DEF CommitPublish, ReadyToCommit, Publish
<1>18. CASE CommitSync
  BY <1>18 DEF CommitSync, Exit, SyncDirectory
<1>19. CASE Abort
  BY Zenon, <1>19 DEF Abort
<1>20. CASE RollbackPublish
  BY <1>20 DEF RollbackPublish, Publish
<1>21. CASE RollbackSync
  BY Zenon, <1>21 DEF RollbackSync, Exit, SyncDirectory
<1>22. CASE RollbackFails
  BY <1>22 DEF RollbackFails, Exit
<1>23. CASE Kill
  BY <1>23 DEF Kill, Exit
<1>24. CASE Environment /\ ~Kill
  BY Zenon, <1>24 DEF Environment, WritebackPath, WritebackDirectory, WritebackLog, WritebackBackup
<1>25. CASE UNCHANGED vars
  BY Zenon, <1>25
<1> QED
  BY Zenon, <1>1, <1>2, <1>3, <1>4, <1>5, <1>6, <1>7, <1>8, <1>9, <1>10, <1>11, <1>12, <1>13, <1>14, <1>15, <1>16, <1>17, <1>18, <1>19, <1>20, <1>21, <1>22, <1>23, <1>24, <1>25 DEF Next, Process

\* Unless power is lost, recovery before begin leaves at most one journal that
\* a rollback would apply, however many transactions were killed before.
THEOREM OneActiveJournal ==
  ASSUME "power" \notin Faults
  PROVE  Spec => []OneActive
<1>1. Init => TypeOK /\ Exclusive
  BY InitTypeOK, InitExclusive
<1>2. TypeOK /\ Exclusive /\ [Next]_vars => (TypeOK /\ Exclusive)'
  BY NextTypeOK, NextExclusive DEF PowerLoss
<1>3. Exclusive => OneActive
  BY DEF Exclusive
<1> QED BY <1>1, <1>2, <1>3, PTL DEF Spec

-----------------------------------------------------------------------------
(* The write-ahead discipline.                                             *)

\* Initially nothing is captured.
LEMMA InitWriteAhead == Init => WriteAhead
  BY DEF Init, WriteAhead

\* As long as directory syncs succeed, a step keeps the records of the open
\* journal ahead of the changes they undo.
LEMMA NextWriteAhead ==
  ASSUME "dirsync" \notin Faults, TypeOK, Exclusive, WriteAhead, [Next]_vars
  PROVE  WriteAhead'
<1> USE OpAssumption DEF TypeOK, WriteAhead, files, journals, process, vars
<1>1. ASSUME NEW c \in Client, Start(c) PROVE WriteAhead'
  BY <1>1 DEF Start
<1>2. ASSUME NEW o \in Op, OpenFails(o) PROVE WriteAhead'
  BY <1>2 DEF OpenFails, Exit, NextDirectory
<1>3. ASSUME NEW o \in Op, SkipFinished(o) PROVE WriteAhead'
  BY <1>3 DEF SkipFinished, NextDirectory
<1>4. ASSUME NEW o \in Op, OpenActive(o) PROVE WriteAhead'
  BY <1>4 DEF OpenActive, NextDirectory
<1>5. ASSUME NEW o \in Op, RollbackActive(o) PROVE WriteAhead'
  BY <1>5 DEF RollbackActive
<1>6. ASSUME NEW o \in Op, MakeDirectory(o) PROVE WriteAhead'
  BY <1>6 DEF MakeDirectory
<1>7. CASE RecoverDone
  BY <1>7 DEF RecoverDone
<1>8. CASE Return
  BY Zenon, <1>8 DEF Return, Exit
<1>9. CASE BeginPublish
  BY Zenon, <1>9 DEF BeginPublish, Publish
<1>10. CASE BeginSync
  BY Zenon, <1>10 DEF BeginSync, SyncDirectory
<1>11. CASE BeginFails
  BY <1>11 DEF BeginFails, Exit
<1>12. ASSUME NEW S \in SUBSET Path, Capture(S) PROVE WriteAhead'
  BY Zenon, <1>12 DEF Capture
<1>13. CASE CaptureSyncBackups
  BY Zenon, <1>13 DEF CaptureSyncBackups
<1>14. CASE CaptureAppend
  BY <1>14 DEF CaptureAppend
<1>15. CASE CaptureSyncLog
  BY <1>15 DEF CaptureSyncLog
<1>16. CASE CaptureFails
  BY SMTT(30), <1>16 DEF CaptureFails
<1>17. ASSUME NEW p \in Path, NEW v \in Content, Mutate(p, v) PROVE WriteAhead'
  BY <1>17 DEF Mutate
<1>18. ASSUME NEW p \in Path, NEW v \in Content, RestoreTorn(p, v) PROVE WriteAhead'
  BY Zenon, <1>18 DEF RestoreTorn
<1>19. ASSUME NEW p \in Path, Restore(p) PROVE WriteAhead'
  BY Zenon, <1>19 DEF Restore
<1>20. CASE SyncPayload
  BY Zenon, <1>20 DEF SyncPayload
<1>21. CASE CommitPublish
  BY <1>21 DEF CommitPublish, ReadyToCommit, Publish
<1>22. CASE CommitSync
  BY Zenon, <1>22 DEF CommitSync, Exit, SyncDirectory
<1>23. CASE Abort
  BY Zenon, <1>23 DEF Abort
<1>24. CASE RollbackPublish
  BY Zenon, <1>24 DEF RollbackPublish, Publish
<1>25. CASE RollbackSync
  BY <1>25 DEF RollbackSync, Exit, SyncDirectory
<1>26. CASE RollbackFails
  BY <1>26 DEF RollbackFails, Exit
<1>27. CASE Kill
  BY Zenon, <1>27 DEF Kill, Exit
<1>28. CASE Environment /\ ~Kill
  <2>1. CASE PowerLoss
    BY <2>1 DEF PowerLoss, Exit
  <2>2. CASE ~PowerLoss
    BY Zenon, <1>28, <2>2 DEF Environment, WritebackPath, WritebackDirectory, WritebackLog, WritebackBackup
  <2> QED BY Zenon, <2>1, <2>2
<1>29. CASE UNCHANGED vars
  BY <1>29
<1> QED
  BY Zenon, <1>1, <1>2, <1>3, <1>4, <1>5, <1>6, <1>7, <1>8, <1>9, <1>10, <1>11, <1>12, <1>13, <1>14, <1>15, <1>16, <1>17, <1>18, <1>19, <1>20, <1>21, <1>22, <1>23, <1>24, <1>25, <1>26, <1>27, <1>28, <1>29 DEF Next, Process

\* Errors and kills, in any number and at any step, leave the journal able to
\* undo the transaction that is open.
THEOREM AlwaysUndoable ==
  ASSUME Faults \subseteq {"error", "kill"}
  PROVE  Spec => []Undoable
<1>1. Init => TypeOK /\ Undoable
  BY InitTypeOK, InitExclusive, InitWriteAhead DEF Undoable
<1>2. TypeOK /\ Undoable /\ [Next]_vars => (TypeOK /\ Undoable)'
  BY NextTypeOK, NextExclusive, NextWriteAhead DEF Undoable, PowerLoss
<1> QED BY <1>1, <1>2, PTL DEF Spec

-----------------------------------------------------------------------------
(* The journal implements the atomic store.                                *)

\* Without an active journal, recovery leaves the files as they are.
LEMMA NothingToRecover ==
  ASSUME NEW d, NEW l, NEW b, NEW content \in [Path -> Content],
         \A o \in Op : d[o] # "active"
  PROVE  Recoverable(d, l, b, content) = content
  BY DEF Recoverable

\* the files, with the paths in the log of o given their preimages
Undone(o, l, b, content) ==
  [p \in Path |-> IF p \in l[o] THEN b[o][p] ELSE content[p]]

\* o is the one active journal of d
OnlyActive(d, o) == d[o] = "active" /\ \A q \in Op : d[q] = "active" => q = o

\* With one active journal, recovery gives the paths of its log their preimages.
LEMMA RecoverOne ==
  ASSUME NEW d, NEW l, NEW b, NEW content, NEW o \in Op, OnlyActive(d, o)
  PROVE  Recoverable(d, l, b, content) = Undone(o, l, b, content)
<1> SUFFICES ASSUME NEW p \in Path
    PROVE (IF \E q \in Op : d[q] = "active" /\ p \in l[q]
             THEN b[CHOOSE q \in Op : d[q] = "active" /\ p \in l[q]][p]
             ELSE content[p])
          = (IF p \in l[o] THEN b[o][p] ELSE content[p])
  BY DEF Recoverable, Undone
<1> USE DEF OnlyActive
<1>1. CASE p \in l[o]
  <2> DEFINE named(q) == d[q] = "active" /\ p \in l[q]
  <2>1. (CHOOSE q \in Op : named(q)) \in Op /\ named(CHOOSE q \in Op : named(q))
    BY Zenon, <1>1
  <2>2. (CHOOSE q \in Op : named(q)) = o
    BY <2>1
  <2> QED BY <1>1, <2>2
<1>2. CASE p \notin l[o]
  BY <1>2
<1> QED BY Zenon, <1>1, <1>2

\* What recovery returns is a content for every path.
LEMMA RecoverType ==
  ASSUME NEW d, NEW l, NEW b \in [Op -> [Path -> Content]],
         NEW content \in [Path -> Content],
         \A o, q \in Op : d[o] = "active" /\ d[q] = "active" => o = q
  PROVE  Recoverable(d, l, b, content) \in [Path -> Content]
<1>1. CASE \A o \in Op : d[o] # "active"
  BY <1>1, NothingToRecover
<1>2. ASSUME NEW o \in Op, d[o] = "active"
      PROVE  Recoverable(d, l, b, content) \in [Path -> Content]
  <2>1. OnlyActive(d, o)
    BY <1>2 DEF OnlyActive
  <2>2. Recoverable(d, l, b, content) = Undone(o, l, b, content)
    BY <2>1, RecoverOne
  <2> QED BY <2>2 DEF Undone
<1> QED BY <1>1, <1>2

\* d and d2 have the same active journal, and the files and the preimages of
\* that journal agree
SameRecovery(d, l, b, content, d2, l2, b2, content2) ==
  /\ \A o, q \in Op : d[o] = "active" /\ d[q] = "active" => o = q
  /\ \A o \in Op : d[o] = "active" <=> d2[o] = "active"
  /\ (\A o \in Op : d[o] # "active") => content2 = content
  /\ \A o \in Op : d[o] = "active" =>
       \A p \in Path : (IF p \in l2[o] THEN b2[o][p] ELSE content2[p])
                        = (IF p \in l[o] THEN b[o][p] ELSE content[p])

\* Then both recover to the same files.
LEMMA RecoverSame ==
  ASSUME NEW d, NEW l, NEW b, NEW content \in [Path -> Content],
         NEW d2, NEW l2, NEW b2, NEW content2 \in [Path -> Content],
         SameRecovery(d, l, b, content, d2, l2, b2, content2)
  PROVE  Recoverable(d2, l2, b2, content2) = Recoverable(d, l, b, content)
<1>1. CASE \A o \in Op : d[o] # "active"
  <2>1. content2 = content /\ \A o \in Op : d2[o] # "active"
    BY <1>1 DEF SameRecovery
  <2> QED BY <1>1, <2>1, NothingToRecover
<1>2. ASSUME NEW o \in Op, d[o] = "active"
      PROVE  Recoverable(d2, l2, b2, content2) = Recoverable(d, l, b, content)
  <2>1. OnlyActive(d, o) /\ OnlyActive(d2, o)
    BY Zenon, <1>2 DEF OnlyActive, SameRecovery
  <2>2. Recoverable(d, l, b, content) = Undone(o, l, b, content)
    BY <2>1, RecoverOne
  <2>3. Recoverable(d2, l2, b2, content2) = Undone(o, l2, b2, content2)
    BY <2>1, RecoverOne
  <2>4. Undone(o, l2, b2, content2) = Undone(o, l, b, content)
    BY <1>2 DEF Undone, SameRecovery
  <2> QED BY <2>2, <2>3, <2>4
<1> QED BY <1>1, <1>2

\* An initial state of the journal is one of the store.
LEMMA InitStore == Init => Store!Init
<1> SUFFICES ASSUME Init PROVE Store!Init
  OBVIOUS
<1>1. Logical = root
  BY SMTT(30), NothingToRecover DEF Init, Logical
<1> QED BY <1>1 DEF Init, Store!Init

\* A step that leaves every state.json, or only one that was not and does not
\* become active or committed, as it was, is a step the store does not see.
LEMMA StoreStutters ==
  ASSUME TypeOK, TypeOK', OneActive,
         \A o \in Op : dir[o] = "active" <=> dir'[o] = "active",
         \A o \in Op : dir[o] = "committed" <=> dir'[o] = "committed",
         (\A o \in Op : dir[o] # "active") => root' = root,
         \A o \in Op : dir[o] = "active" =>
           \A p \in Path : (IF p \in log'[o] THEN pre'[o][p] ELSE root'[p])
                            = (IF p \in log[o] THEN pre[o][p] ELSE root[p])
  PROVE  UNCHANGED <<Logical, {o \in Op : dir[o] = "active"},
                     {o \in Op : dir[o] = "committed"}>>
<1>1. root \in [Path -> Content] /\ root' \in [Path -> Content]
  BY Zenon DEF TypeOK
<1>2. Recoverable(dir', log', pre', root') = Recoverable(dir, log, pre, root)
  <2>1. SameRecovery(dir, log, pre, root, dir', log', pre', root')
    BY Zenon DEF OneActive, SameRecovery
  <2> QED BY ONLY <1>1, <2>1, RecoverSame
<1>3. Logical' = Logical
  BY Zenon, <1>2 DEF Logical, Recoverable
<1> QED BY Zenon, <1>3

\* Publishing "active" begins the operation: no journal was active, and the
\* new one has no record yet.
LEMMA BeginRefines ==
  ASSUME NEW o \in Op, o = cur, TypeOK, TypeOK', Exclusive, WriteAhead, BeginPublish
  PROVE  Store!Begin(o)
<1> USE OpAssumption DEF BeginPublish, Publish
<1>1. cur \in Op /\ dir[cur] = "made" /\ log[cur] = {}
  BY Zenon DEF TypeOK, Exclusive, WriteAhead
<1>2. \A q \in Op : dir[q] # "active"
  BY Zenon, <1>1 DEF Exclusive
<1>3. /\ dir'[cur] = "active"
      /\ \A q \in Op : dir'[q] = "active" => q = cur
      /\ \A q \in Op : dir'[q] = "committed" <=> dir[q] = "committed"
  BY Zenon, <1>1, <1>2 DEF TypeOK
<1>4. Recoverable(dir, log, pre, root) = root
  BY Zenon, <1>2, NothingToRecover DEF TypeOK
<1>5. Recoverable(dir', log, pre, root) = Undone(cur, log, pre, root)
  <2>1. OnlyActive(dir', cur)
    BY Zenon, <1>3 DEF OnlyActive
  <2>2. cur \in Op
    BY <1>1
  <2> QED BY ONLY <2>1, <2>2, RecoverOne
<1>6. Undone(cur, log, pre, root) = root
  BY Zenon, <1>1 DEF Undone, TypeOK
<1>7. Logical' = Logical
  <2>1. Logical' = Recoverable(dir', log, pre, root)
    BY Zenon DEF Logical, Recoverable, journals, files
  <2> QED BY <2>1, <1>4, <1>5, <1>6 DEF Logical
<1> QED BY Zenon, <1>1, <1>2, <1>3, <1>7 DEF Store!Begin

\* Publishing "committed" commits it.
LEMMA CommitRefines ==
  ASSUME NEW o \in Op, o = cur, TypeOK, TypeOK', Exclusive, WriteAhead, OneActive', CommitPublish
  PROVE  Store!Commit(o)
<1> USE OpAssumption DEF CommitPublish, ReadyToCommit, Publish
<1>1. cur \in Op /\ dir[cur] = "active"
  BY Zenon DEF TypeOK, WriteAhead
<1>2. \A q \in Op : dir[q] = "active" => q = cur
  BY DEF Exclusive
<1>3. /\ \A q \in Op : dir'[q] # "active"
      /\ \A q \in Op : dir'[q] = "committed" <=> dir[q] = "committed" \/ q = cur
  BY Zenon, <1>1, <1>2 DEF TypeOK
<1>4. Recoverable(dir', log', pre', root') \in [Path -> Content]
  BY Zenon, RecoverType DEF TypeOK, OneActive
<1>5. Logical' \in [Path -> Content]
  BY Zenon, <1>4 DEF Logical, Recoverable
<1>6. {q \in Op : dir[q] = "active"} = {cur}
  BY Zenon, <1>1, <1>2
<1> QED BY <1>1, <1>3, <1>5, <1>6 DEF Store!Commit

\* Publishing "rolled-back" aborts it: all its paths hold their preimages.
LEMMA AbortRefines ==
  ASSUME NEW o \in Op, o = cur, TypeOK, TypeOK', Exclusive, WriteAhead, RollbackPublish
  PROVE  Store!Abort(o)
<1> USE OpAssumption DEF RollbackPublish, Publish
<1>1. cur \in Op /\ dir[cur] = "active"
  BY Zenon DEF TypeOK, WriteAhead
<1>2. \A q \in Op : dir[q] = "active" => q = cur
  BY DEF Exclusive
<1>3. /\ \A q \in Op : dir'[q] # "active"
      /\ \A q \in Op : dir'[q] = "committed" <=> dir[q] = "committed"
  BY Zenon, <1>1, <1>2 DEF TypeOK
<1>4. Recoverable(dir, log, pre, root) = Undone(cur, log, pre, root)
  <2>1. OnlyActive(dir, cur)
    BY Zenon, <1>1, <1>2 DEF OnlyActive
  <2> QED BY SMTT(30), <1>1, <2>1, RecoverOne
<1>5. Undone(cur, log, pre, root) = root
  <2>1. \A p \in log[cur] : pre[cur][p] = root[p]
    BY Zenon DEF WriteAhead
  <2> QED BY Zenon, <2>1 DEF Undone, TypeOK
<1>6. Recoverable(dir', log, pre, root) = root
  <2>1. root \in [Path -> Content] /\ \A q \in Op : dir'[q] # "active"
    BY Zenon, <1>3 DEF TypeOK
  <2> QED BY Zenon, <2>1, NothingToRecover
<1>7. Logical' = Logical
  <2>1. Logical' = Recoverable(dir', log, pre, root)
    BY Zenon DEF Logical, Recoverable, journals, files
  <2> QED BY <2>1, <1>4, <1>5, <1>6 DEF Logical
<1>8. {q \in Op : dir[q] = "active"} = {cur}
  BY Zenon, <1>1, <1>2
<1> QED BY Zenon, <1>1, <1>3, <1>7, <1>8 DEF Store!Abort

\* Every other step leaves the store as it is: the files it changes are in the
\* log of the active journal, and the records it adds hold what is in the files.
LEMMA StepRefines ==
  ASSUME TypeOK, TypeOK', Exclusive, WriteAhead, OneActive',
         Faults \subseteq {"error", "kill"}, [Next]_vars
  PROVE  [Store!Next]_<<Logical, {o \in Op : dir[o] = "active"},
                        {o \in Op : dir[o] = "committed"}>>
<1> DEFINE Stutter == UNCHANGED <<Logical, {o \in Op : dir[o] = "active"},
                                  {o \in Op : dir[o] = "committed"}>>
           Same == UNCHANGED <<root, dir, log, pre>>
<1>0. /\ \A o, q \in Op : dir[o] = "active" /\ dir[q] = "active" => o = q
      /\ pc \notin {"idle", "recover", "ready"} => cur \in Op
      /\ pc \notin {"idle", "recover"} => \A o \in Op : dir[o] = "active" => o = cur
  BY Zenon DEF TypeOK, Exclusive, OneActive
<1>s. Same => Stutter
  BY Zenon, StoreStutters DEF Exclusive, Same
<1>1. CASE BeginPublish
  <2>1. PICK o \in Op : o = cur
    BY <1>1, <1>0 DEF BeginPublish
  <2>2. Store!Begin(o)
    BY <1>1, <2>1, BeginRefines
  <2>3. Store!Next
    BY Zenon, <2>1, <2>2 DEF Store!Next
  <2> QED BY ONLY <2>3
<1>2. CASE CommitPublish
  <2>1. PICK o \in Op : o = cur
    BY <1>2, <1>0 DEF CommitPublish, ReadyToCommit
  <2>2. Store!Commit(o)
    BY <1>2, <2>1, CommitRefines
  <2>3. Store!Next
    BY Zenon, <2>1, <2>2 DEF Store!Next
  <2> QED BY ONLY <2>3
<1>3. CASE RollbackPublish
  <2>1. PICK o \in Op : o = cur
    BY <1>3, <1>0 DEF RollbackPublish
  <2>2. Store!Abort(o)
    BY <1>3, <2>1, AbortRefines
  <2>3. Store!Next
    BY Zenon, <2>1, <2>2 DEF Store!Next
  <2> QED BY ONLY <2>3
<1>4. ASSUME NEW o \in Op, MakeDirectory(o) PROVE Stutter
  <2>1. /\ \A q \in Op : dir[q] = "active" <=> dir'[q] = "active"
        /\ \A q \in Op : dir[q] = "committed" <=> dir'[q] = "committed"
        /\ \A q \in Op : dir[q] = "active" => log'[q] = log[q]
        /\ root' = root /\ pre' = pre
    BY Zenon, <1>4 DEF MakeDirectory, TypeOK, files
  <2> QED BY Zenon, <2>1, StoreStutters DEF Exclusive
<1>5. ASSUME NEW S \in SUBSET Path, Capture(S) PROVE Stutter
  <2>1. /\ root' = root /\ dir' = dir /\ log' = log
        /\ \A p \in log[cur] : pre'[cur][p] = pre[cur][p]
    BY Zenon, <1>5, <1>0 DEF Capture, TypeOK, WriteAhead, files
  <2>2. \A q \in Op : dir[q] = "active" => q = cur
    BY Zenon, <1>5, <1>0 DEF Capture
  <2> QED BY Zenon, <2>1, <2>2, StoreStutters DEF Exclusive
<1>6. CASE CaptureAppend \/ CaptureFails
  <2>1. /\ root' = root /\ dir' = dir /\ pre' = pre
        /\ \A q \in Op : dir[q] = "active" => q = cur
    BY Zenon, <1>6, <1>0 DEF CaptureAppend, CaptureFails, files
  <2>2. \A p \in Path : /\ p \in log[cur] => p \in log'[cur]
                        /\ p \in log'[cur] \ log[cur] => pre[cur][p] = root[p]
    <3>1. CASE CaptureAppend
      <4>1. log' = [log EXCEPT ![cur] = @ \cup batch] /\ \A p \in batch : pre[cur][p] = root[p]
        BY Zenon, <3>1 DEF CaptureAppend, WriteAhead
      <4>2. cur \in Op /\ log \in [Op -> SUBSET Path]
        BY Zenon, <3>1, OpAssumption DEF CaptureAppend, TypeOK
      <4> QED BY ONLY <4>1, <4>2
    <3>2. CASE CaptureFails
      <4>1. PICK S \in SUBSET batch : /\ pc # "append" => S = {}
                                      /\ log' = [log EXCEPT ![cur] = @ \cup S]
        BY Zenon, <3>2 DEF CaptureFails
      <4>2. S \subseteq batch /\ (S # {} => \A p \in batch : pre[cur][p] = root[p])
        BY Zenon, <4>1 DEF WriteAhead
      <4>3. cur \in Op /\ log \in [Op -> SUBSET Path]
        BY Zenon, <3>2, OpAssumption DEF CaptureFails, TypeOK
      <4>4. log'[cur] = log[cur] \cup S
        BY ONLY <4>1, <4>3
      <4> QED BY ONLY Zenon, <4>2, <4>4
    <3> QED BY Zenon, <1>6, <3>1, <3>2
  <2> QED BY Zenon, <2>1, <2>2, StoreStutters DEF Exclusive
<1>7. ASSUME NEW p \in Path, NEW v \in Content,
             Mutate(p, v) \/ RestoreTorn(p, v) \/ Restore(p)
      PROVE  Stutter
  <2>1. /\ dir' = dir /\ log' = log /\ pre' = pre
        /\ dir[cur] = "active" /\ cur \in Op
        /\ \A q \in Op : dir[q] = "active" => q = cur
    BY Zenon, <1>7, <1>0 DEF Mutate, RestoreTorn, Restore, WriteAhead, journals
  <2>2. p \in log[cur]
    BY Zenon, <1>7 DEF Mutate, RestoreTorn, Restore, WriteAhead
  <2>3. \A q \in Path \ {p} : root'[q] = root[q]
    BY Zenon, <1>7 DEF Mutate, RestoreTorn, Restore, TypeOK
  <2> QED BY Zenon, <2>1, <2>2, <2>3, StoreStutters DEF Exclusive
<1>8. ASSUME NEW c \in Client, Start(c) PROVE Same
  BY Zenon, <1>8 DEF Start, files, journals
<1>9. ASSUME NEW o \in Op, OpenFails(o) \/ SkipFinished(o) \/ OpenActive(o)
                            \/ RollbackActive(o)
      PROVE  Same
  BY Zenon, <1>9 DEF OpenFails, SkipFinished, OpenActive, RollbackActive, files, journals
<1>10. CASE RecoverDone \/ Return \/ BeginSync \/ BeginFails
  <2> Same
    BY <1>10 DEF RecoverDone, Return, BeginSync, BeginFails, SyncDirectory, files, journals
  <2> QED BY <1>s
<1>11. CASE CaptureSyncBackups \/ CaptureSyncLog \/ SyncPayload \/ CommitSync \/ Abort
  <2> Same
    BY Zenon, <1>11 DEF CaptureSyncBackups, CaptureSyncLog, SyncPayload, CommitSync, Abort,
                 SyncDirectory, files, journals
  <2> QED BY <1>s
<1>12. CASE RollbackSync \/ RollbackFails \/ Kill \/ UNCHANGED vars
  <2> Same
    BY Zenon, <1>12 DEF RollbackSync, RollbackFails, Kill, SyncDirectory, files, journals, vars
  <2> QED BY <1>s
<1>13. CASE Environment /\ ~Kill
  BY <1>13 DEF Environment, PowerLoss, WritebackPath, WritebackDirectory, WritebackLog, WritebackBackup
<1>14. ASSUME NEW p \in Path, Restore(p) PROVE Stutter
  <2>1. root[p] \in Content
    BY Zenon DEF TypeOK
  <2> QED BY Zenon, <1>7, <1>14, <2>1
<1> HIDE DEF Same, Stutter
<1> QED
  BY Zenon, <1>s, <1>1, <1>2, <1>3, <1>4, <1>5, <1>6, <1>7, <1>8, <1>9, <1>10, <1>11, <1>12,
     <1>13, <1>14 DEF Next, Process, Stutter

\* However the process is killed and whichever of its steps fail, the files as
\* recovery leaves them change only at a commit, all at once.
THEOREM JournalIsAtomic ==
  ASSUME Faults \subseteq {"error", "kill"}
  PROVE  Spec => Atomic
<1>1. Init => TypeOK /\ Undoable /\ Store!Init
  BY InitTypeOK, InitExclusive, InitWriteAhead, InitStore DEF Undoable
<1>2. TypeOK /\ Undoable /\ [Next]_vars => (TypeOK /\ Undoable)'
  BY NextTypeOK, NextExclusive, NextWriteAhead DEF Undoable, PowerLoss
<1>3. TypeOK /\ Undoable /\ (TypeOK /\ Undoable)' /\ [Next]_vars
      => [Store!Next]_<<Logical, {o \in Op : dir[o] = "active"},
                        {o \in Op : dir[o] = "committed"}>>
  BY Zenon, StepRefines DEF Undoable, Exclusive
<1> QED BY <1>1, <1>2, <1>3, PTL DEF Spec, Atomic, Store!Spec

-----------------------------------------------------------------------------
(* Backups before the records that name them, under every fault.           *)

\* The log in the page cache is ahead of the one on disk, the backups are ahead
\* of the log, and a capture touches only paths without a record.
Backed ==
  /\ \A o \in Op : logStable[o] \subseteq log[o] /\ bakStable[o] \subseteq bak[o]
  /\ \A o \in Op : \A p \in log[o] : pre[o][p] # Absent => p \in bakStable[o]
  /\ pc = "backup" => \A p \in batch : pre[cur][p] # Absent => p \in bak[cur]
  /\ pc = "append" => \A p \in batch : pre[cur][p] # Absent => p \in bakStable[cur]
  /\ pc \in {"idle", "recover", "ready", "publish-begin", "sync-begin"} => mem = {}
  /\ pc \in {"publish-begin", "sync-begin", "open", "backup", "append"} => log[cur] = mem
  /\ pc = "sync-append" => log[cur] = mem \cup batch

\* A step keeps the backups ahead of the log, whatever fails.
LEMMA NextBacked ==
  ASSUME TypeOK, Backed, [Next]_vars
  PROVE  Backed'
<1> USE OpAssumption DEF TypeOK, Backed, files, journals, process, vars
<1>1. ASSUME NEW c \in Client, Start(c) PROVE Backed'
  BY <1>1 DEF Start
<1>2. ASSUME NEW o \in Op, OpenFails(o) \/ SkipFinished(o) PROVE Backed'
  BY <1>2 DEF OpenFails, SkipFinished, Exit, NextDirectory
<1>3. ASSUME NEW o \in Op, OpenActive(o) PROVE Backed'
  BY <1>3 DEF OpenActive, NextDirectory
<1>4. ASSUME NEW o \in Op, RollbackActive(o) PROVE Backed'
  BY <1>4 DEF RollbackActive
<1>5. ASSUME NEW o \in Op, MakeDirectory(o) PROVE Backed'
  BY <1>5 DEF MakeDirectory
<1>6. CASE RecoverDone \/ Return
  BY <1>6 DEF RecoverDone, Return, Exit
<1>7. CASE BeginPublish
  BY <1>7 DEF BeginPublish, Publish
<1>8. CASE BeginSync
  BY <1>8 DEF BeginSync, SyncDirectory
<1>9. CASE BeginFails
  BY <1>9 DEF BeginFails, Exit
<1>10. ASSUME NEW S \in SUBSET Path, Capture(S) PROVE Backed'
  BY <1>10 DEF Capture
<1>11. CASE CaptureSyncBackups
  BY <1>11 DEF CaptureSyncBackups
<1>12. CASE CaptureAppend
  BY <1>12 DEF CaptureAppend
<1>13. CASE CaptureSyncLog
  BY <1>13 DEF CaptureSyncLog
<1>14. CASE CaptureFails
  BY <1>14 DEF CaptureFails
<1>15. ASSUME NEW p \in Path, NEW v \in Content, Mutate(p, v) \/ RestoreTorn(p, v) PROVE Backed'
  BY <1>15 DEF Mutate, RestoreTorn
<1>16. ASSUME NEW p \in Path, Restore(p) PROVE Backed'
  BY <1>16 DEF Restore
<1>17. CASE SyncPayload
  BY <1>17 DEF SyncPayload
<1>18. CASE CommitPublish
  BY <1>18 DEF CommitPublish, ReadyToCommit, Publish
<1>19. CASE CommitSync
  BY <1>19 DEF CommitSync, Exit, SyncDirectory
<1>20. CASE Abort
  BY <1>20 DEF Abort
<1>21. CASE RollbackPublish
  BY <1>21 DEF RollbackPublish, Publish
<1>22. CASE RollbackSync
  BY <1>22 DEF RollbackSync, Exit, SyncDirectory
<1>23. CASE RollbackFails \/ Kill
  BY <1>23 DEF RollbackFails, Kill, Exit
<1>24. CASE PowerLoss
  BY <1>24 DEF PowerLoss, Exit
<1>25. ASSUME NEW p \in Path, WritebackPath(p) PROVE Backed'
  BY <1>25 DEF WritebackPath
<1>26. ASSUME NEW o \in Op, WritebackDirectory(o) PROVE Backed'
  BY <1>26 DEF WritebackDirectory
<1>27. ASSUME NEW o \in Op, NEW p \in Path, WritebackLog(o, p) PROVE Backed'
  BY <1>27 DEF WritebackLog
<1>28. ASSUME NEW o \in Op, NEW p \in Path, WritebackBackup(o, p) PROVE Backed'
  BY <1>28 DEF WritebackBackup
<1>29. CASE UNCHANGED vars
  BY <1>29
<1> QED
  BY Zenon, <1>1, <1>2, <1>3, <1>4, <1>5, <1>6, <1>7, <1>8, <1>9, <1>10, <1>11, <1>12, <1>13,
     <1>14, <1>15, <1>16, <1>17, <1>18, <1>19, <1>20, <1>21, <1>22, <1>23, <1>24, <1>25,
     <1>26, <1>27, <1>28, <1>29 DEF Next, Process, Environment

\* Whatever fails, is killed or loses its power, and in whatever order the page
\* cache is written back: a record on disk can be restored from the disk.
THEOREM BackupsFirst == Spec => []BackupBeforeRecord
<1>1. Init => TypeOK /\ Backed
  BY InitTypeOK DEF Init, Backed
<1>2. TypeOK /\ Backed /\ [Next]_vars => (TypeOK /\ Backed)'
  BY NextTypeOK, NextBacked
<1>3. TypeOK /\ Backed => BackupBeforeRecord
  BY DEF TypeOK, Backed, BackupBeforeRecord
<1> QED BY <1>1, <1>2, <1>3, PTL DEF Spec

-----------------------------------------------------------------------------
(* The disk under power loss alone, for merges.                            *)

Unrolled == \A o \in Op : dirStable[o] # "rolled-back"

\* Only the open journal is ahead of the disk, and only until its next sync.
JournalsFollow ==
  /\ client = "merge"
  /\ \A o \in Op : dir[o] # dirStable[o] =>
       o = cur /\ pc \in {"publish-begin", "sync-begin", "sync-commit", "sync-undo"}
  /\ \A o \in Op : log[o] # logStable[o] => o = cur /\ pc = "sync-append"
  /\ \A o \in Op : logStable[o] \subseteq log[o]
  /\ pc = "sync-append" => mem \subseteq logStable[cur]
  /\ pc = "sync-commit" => dir[cur] = "committed"
  /\ pc = "sync-commit" => dirStable[cur] \in {"active", "committed"}
  /\ pc = "sync-begin" => dirStable[cur] \in {"none", "made", "active"}
  /\ pc = "publish-begin" => dirStable[cur] \in {"none", "made"}
  /\ pc = "sync-undo" => dirStable[cur] \in {"active", "rolled-back"}
  /\ pc \in {"synced", "sync-commit"} => root = stable

\* As long as no rollback is on disk, the files are ahead of the disk only where
\* a journal on disk has their preimage.
FilesCovered ==
  Unrolled =>
    \A p \in Path : root[p] # stable[p] =>
      \E o \in Op : dirStable[o] = "active" /\ p \in logStable[o]

\* So a merge commits what is on disk.
DiskFollows == JournalsFollow /\ FilesCovered

\* At most one journal on disk is active, the open one if one is open.
LEMMA OneActiveOnDisk ==
  ASSUME TypeOK, Exclusive, WriteAhead, DiskFollows
  PROVE  /\ \A o, q \in Op : dirStable[o] = "active" /\ dirStable[q] = "active" => o = q
         /\ pc \in {"open", "backup", "append", "sync-append", "synced", "undo", "sync-commit"} =>
              \A o \in Op : dirStable[o] = "active" => o = cur
         /\ pc \in {"open", "backup", "append", "sync-append", "synced", "undo"} =>
              dirStable[cur] = "active"
  BY OpAssumption DEF TypeOK, Exclusive, OneActive, WriteAhead, DiskFollows, JournalsFollow, FilesCovered, Stages

\* After a power loss the process starts from the one journal on disk.
LEMMA PowerExclusive ==
  ASSUME TypeOK, Exclusive, WriteAhead, DiskFollows, PowerLoss
  PROVE  Exclusive'
<1>1. \A o, q \in Op : dirStable[o] = "active" /\ dirStable[q] = "active" => o = q
  BY OneActiveOnDisk
<1> QED BY <1>1 DEF PowerLoss, Exit, Exclusive, OneActive

\* With power loss as the only fault and merge as the only client, a step keeps
\* the disk a sync behind at most.
LEMMA NextDiskFollows ==
  ASSUME Client \subseteq {"merge"}, Faults \subseteq {"power"},
         TypeOK, Exclusive, WriteAhead, DiskFollows, [Next]_vars
  PROVE  DiskFollows'
<1> USE OpAssumption DEF TypeOK, Exclusive, OneActive, WriteAhead, DiskFollows, JournalsFollow, FilesCovered, Unrolled, files, journals, process, vars
<1>0. JournalsFollow /\ FilesCovered
  BY Zenon DEF DiskFollows
<1>1. ASSUME NEW c \in Client, Start(c) PROVE DiskFollows'
  BY <1>1 DEF Start
<1>2. ASSUME NEW o \in Op, OpenFails(o) \/ SkipFinished(o) PROVE DiskFollows'
  <2>1. /\ pc = "recover" /\ pc' \in {"recover", "idle"}
        /\ UNCHANGED <<root, stable, dir, dirStable, log, logStable, client>>
    BY Zenon, <1>2 DEF OpenFails, SkipFinished, Exit, NextDirectory
  <2>2. JournalsFollow'
    BY ONLY <1>0, <2>1 DEF JournalsFollow
  <2>3. FilesCovered'
    BY ONLY <1>0, <2>1 DEF FilesCovered, Unrolled
  <2> QED BY Zenon, <2>2, <2>3
<1>3. ASSUME NEW o \in Op, OpenActive(o) PROVE DiskFollows'
  BY <1>3 DEF OpenActive, NextDirectory
<1>4. ASSUME NEW o \in Op, RollbackActive(o) PROVE DiskFollows'
  BY <1>4 DEF RollbackActive
<1>5. ASSUME NEW o \in Op, MakeDirectory(o) PROVE DiskFollows'
  BY SMTT(30), <1>5 DEF MakeDirectory
<1>6. CASE RecoverDone \/ Return
  BY SMTT(30), <1>6 DEF RecoverDone, Return, Exit
<1>7. CASE BeginPublish
  BY <1>7 DEF BeginPublish, Publish
<1>8. CASE BeginSync
  BY <1>8 DEF BeginSync, SyncDirectory
<1>9. CASE BeginFails
  <2>1. JournalsFollow'
    BY <1>9 DEF BeginFails, Exit
  <2>2. FilesCovered'
    BY <1>9 DEF BeginFails, Exit
  <2> QED BY <2>1, <2>2
<1>10. ASSUME NEW S \in SUBSET Path, Capture(S) PROVE DiskFollows'
  BY Zenon, <1>10 DEF Capture
<1>11. CASE CaptureSyncBackups
  BY <1>11 DEF CaptureSyncBackups
<1>12. CASE CaptureAppend
  BY <1>12 DEF CaptureAppend
<1>13. CASE CaptureSyncLog
  <2>1. JournalsFollow'
    BY <1>13 DEF CaptureSyncLog
  <2>2. FilesCovered'
    BY <1>13 DEF CaptureSyncLog
  <2> QED BY <2>1, <2>2
<1>14. CASE CaptureFails
  BY Zenon, <1>14 DEF CaptureFails
<1>15. ASSUME NEW p \in Path, NEW v \in Content,
              Mutate(p, v) \/ RestoreTorn(p, v) \/ Restore(p)
       PROVE  DiskFollows'
  <2>1. /\ UNCHANGED <<stable, dir, dirStable, log, logStable, pc, client, cur, mem>>
        /\ pc \in {"open", "undo"} /\ cur \in Op
    BY Zenon, <1>15 DEF Mutate, RestoreTorn, Restore
  <2>2. p \in log[cur] /\ \A q \in Path \ {p} : root'[q] = root[q]
    <3>1. p \in log[cur]
      BY Zenon, <1>15 DEF Mutate, RestoreTorn, Restore
    <3>2. \E w : root' = [root EXCEPT ![p] = w]
      BY Zenon, <1>15 DEF Mutate, RestoreTorn, Restore
    <3>3. root \in [Path -> Content]
      BY Zenon
    <3>4. \A q \in Path \ {p} : root'[q] = root[q]
      BY ONLY <3>2, <3>3
    <3> QED BY ONLY <3>1, <3>4
  <2>3. dirStable[cur] = "active" /\ logStable[cur] = log[cur]
    BY Zenon, <2>1
  <2>4. JournalsFollow'
    BY ONLY Zenon, <1>0, <2>1 DEF JournalsFollow
  <2>5. FilesCovered'
    BY ONLY Zenon, <1>0, <2>1, <2>2, <2>3 DEF FilesCovered, Unrolled
  <2> QED BY Zenon, <2>4, <2>5
<1>17. CASE SyncPayload
  BY Zenon, <1>17 DEF SyncPayload
<1>18. CASE CommitPublish
  BY <1>18 DEF CommitPublish, ReadyToCommit, Publish
<1>19. CASE CommitSync
  <2>1. /\ pc = "sync-commit" /\ pc' = "idle" /\ cur \in Op
        /\ UNCHANGED <<root, stable, dir, log, logStable, client>>
    BY Zenon, <1>19 DEF CommitSync, Exit, SyncDirectory
  <2>2. dirStable'[cur] = dir[cur] /\ \A q \in Op \ {cur} : dirStable'[q] = dirStable[q]
    <3>1. dirStable' = [dirStable EXCEPT ![cur] = dir[cur]] /\ dirStable \in [Op -> DirState]
      BY Zenon, <1>19 DEF CommitSync, SyncDirectory
    <3> QED BY ONLY <2>1, <3>1
  <2>3. JournalsFollow'
    BY ONLY Zenon, <1>0, <2>1, <2>2 DEF JournalsFollow
  <2>4. root = stable
    BY ONLY <1>0, <2>1 DEF JournalsFollow
  <2>5. FilesCovered'
    BY ONLY <2>1, <2>4 DEF FilesCovered
  <2> QED BY Zenon, <2>3, <2>5
<1>20. CASE Abort
  BY Zenon, <1>20 DEF Abort
<1>21. CASE RollbackPublish
  <2>1. JournalsFollow'
    BY <1>21 DEF RollbackPublish, Publish
  <2>2. FilesCovered'
    BY <1>21 DEF RollbackPublish, Publish
  <2> QED BY Zenon, <2>1, <2>2
<1>22. CASE RollbackSync
  <2>1. /\ pc = "sync-undo" /\ pc' \in {"recover", "idle"} /\ cur \in Op
        /\ dir[cur] = "rolled-back"
        /\ UNCHANGED <<root, stable, dir, log, logStable, client>>
    BY Zenon, <1>22 DEF RollbackSync, Exit, SyncDirectory
  <2>2. dirStable'[cur] = dir[cur] /\ \A q \in Op \ {cur} : dirStable'[q] = dirStable[q]
    <3>1. dirStable' = [dirStable EXCEPT ![cur] = dir[cur]] /\ dirStable \in [Op -> DirState]
      BY Zenon, <1>22 DEF RollbackSync, SyncDirectory
    <3> QED BY ONLY <2>1, <3>1
  <2>3. JournalsFollow'
    BY ONLY <1>0, <2>1, <2>2 DEF JournalsFollow
  <2>4. FilesCovered'
    BY ONLY <2>1, <2>2 DEF FilesCovered, Unrolled
  <2> QED BY Zenon, <2>3, <2>4
<1>23. CASE RollbackFails \/ Kill
  <2>1. /\ pc = "undo" /\ pc' = "idle"
        /\ UNCHANGED <<root, stable, dir, dirStable, log, logStable, client>>
    BY Zenon, <1>23 DEF RollbackFails, Kill, Exit
  <2>2. JournalsFollow'
    BY ONLY <1>0, <2>1 DEF JournalsFollow
  <2>3. FilesCovered'
    BY ONLY <1>0, <2>1 DEF FilesCovered, Unrolled
  <2> QED BY Zenon, <2>2, <2>3
<1>24. CASE PowerLoss
  BY Zenon, <1>24 DEF PowerLoss, Exit
<1>25. ASSUME NEW p \in Path, WritebackPath(p) PROVE DiskFollows'
  <2>1. /\ UNCHANGED <<root, dir, dirStable, log, logStable, pc, client, cur, mem>>
        /\ stable' = [stable EXCEPT ![p] = root[p]] /\ stable \in [Path -> Content]
    BY Zenon, <1>25 DEF WritebackPath
  <2>2. root = stable => stable' = stable
    BY ONLY <2>1
  <2>3. \A q \in Path : stable'[q] \in {stable[q], root[q]}
    BY ONLY <2>1
  <2>4. JournalsFollow'
    BY ONLY <1>0, <2>1, <2>2 DEF JournalsFollow
  <2>5. FilesCovered'
    BY ONLY <1>0, <2>1, <2>3 DEF FilesCovered, Unrolled
  <2> QED BY Zenon, <2>4, <2>5
<1>26. ASSUME NEW o \in Op, WritebackDirectory(o) PROVE DiskFollows'
  <2>1. /\ UNCHANGED <<root, stable, dir, log, logStable, pc, client, cur, mem>>
        /\ dirStable'[o] = dir[o] /\ \A q \in Op \ {o} : dirStable'[q] = dirStable[q]
    BY Zenon, <1>26 DEF WritebackDirectory
  <2>2. /\ pc \in {"publish-begin", "sync-begin", "sync-commit", "sync-undo"} => cur \in Op
        /\ pc = "publish-begin" => dir[cur] = "made"
        /\ pc = "sync-begin" => dir[cur] = "active"
        /\ pc = "sync-undo" => dir[cur] = "rolled-back"
    BY Zenon
  <2>3. JournalsFollow'
    BY ONLY Zenon, <1>0, <2>1, <2>2 DEF JournalsFollow
  <2>4. dirStable[o] # dir[o] =>
          \/ dir[o] = "active" /\ dirStable[o] # "rolled-back"
          \/ dir[o] = "made" /\ dirStable[o] \in {"none", "made"}
          \/ root = stable
          \/ dir[o] = "rolled-back"
    BY ONLY <1>0, <2>2 DEF JournalsFollow
  <2>5. FilesCovered'
    BY ONLY <1>0, <2>1, <2>4 DEF FilesCovered, Unrolled
  <2> QED BY Zenon, <2>3, <2>5
<1>27. ASSUME NEW o \in Op, NEW p \in Path, WritebackLog(o, p) PROVE DiskFollows'
  <2>1. /\ UNCHANGED <<root, stable, dir, dirStable, log, pc, client, cur, mem>>
        /\ p \in log[o] /\ logStable'[o] = logStable[o] \cup {p}
        /\ \A q \in Op \ {o} : logStable'[q] = logStable[q]
    BY Zenon, <1>27 DEF WritebackLog
  <2>2. pc = "sync-append" => cur \in Op
    BY Zenon
  <2>3. JournalsFollow'
    BY ONLY <1>0, <2>1, <2>2 DEF JournalsFollow
  <2>4. FilesCovered'
    BY ONLY <1>0, <2>1 DEF FilesCovered, Unrolled
  <2> QED BY Zenon, <2>3, <2>4
<1>28. ASSUME NEW o \in Op, NEW p \in Path, WritebackBackup(o, p) PROVE DiskFollows'
  BY Zenon, <1>28 DEF WritebackBackup
<1>29. CASE UNCHANGED vars
  BY Zenon, <1>29
<1> QED
  BY Zenon, <1>1, <1>2, <1>3, <1>4, <1>5, <1>6, <1>7, <1>8, <1>9, <1>10, <1>11, <1>12, <1>13,
     <1>14, <1>15, <1>17, <1>18, <1>19, <1>20, <1>21, <1>22, <1>23, <1>24, <1>25,
     <1>26, <1>27, <1>28, <1>29 DEF Next, Process, Environment

-----------------------------------------------------------------------------
(* What a power loss leaves, once recovered.                               *)

\* A step that leaves the active journal on disk, its preimages and the files it
\* has no record of as they were, leaves what recovery makes of the disk.
LEMMA StableSame ==
  ASSUME TypeOK, TypeOK', Exclusive, WriteAhead, DiskFollows,
         \A o \in Op : dirStable[o] = "active" <=> dirStable'[o] = "active",
         (\A o \in Op : dirStable[o] # "active") => stable' = stable,
         \A o \in Op : dirStable[o] = "active" =>
           \A p \in Path : (IF p \in logStable'[o] THEN pre'[o][p] ELSE stable'[p])
                            = (IF p \in logStable[o] THEN pre[o][p] ELSE stable[p])
  PROVE  LogicalStable' = LogicalStable
<1>1. stable \in [Path -> Content] /\ stable' \in [Path -> Content]
  BY DEF TypeOK
<1>2. \A o, q \in Op : dirStable[o] = "active" /\ dirStable[q] = "active" => o = q
  BY OneActiveOnDisk
<1>3. Recoverable(dirStable', logStable', pre', stable') = Recoverable(dirStable, logStable, pre, stable)
  <2>1. SameRecovery(dirStable, logStable, pre, stable, dirStable', logStable', pre', stable')
    BY <1>2 DEF SameRecovery
  <2> QED BY <1>1, <2>1, RecoverSame
<1> QED BY Zenon, <1>3 DEF LogicalStable, Recoverable

\* state.json reaches the disk: the journal has no record yet, or it commits
\* what is there.
LEMMA DirectoryReachesDisk ==
  ASSUME TypeOK, TypeOK', Exclusive, WriteAhead, DiskFollows, NoRollbackYet',
         NEW o \in Op, dirStable' = [dirStable EXCEPT ![o] = dir[o]],
         UNCHANGED <<files, dir, logStable, pre>>
  PROVE  \/ LogicalStable' = LogicalStable
         \/ /\ dirStable[o] = "active" /\ dirStable'[o] = "committed"
            /\ LogicalStable' = root
<1>1. CASE dirStable[o] = "active" <=> dir[o] = "active"
  <2>1. UNCHANGED <<stable, logStable, pre>>
    BY DEF files
  <2>2. \A q \in Op : dirStable[q] = "active" <=> dirStable'[q] = "active"
    BY Zenon, <1>1 DEF TypeOK
  <2> QED BY <2>1, <2>2, StableSame
<1>2. CASE dirStable[o] # "active" /\ dir[o] = "active"
  <2>1. o = cur /\ pc = "sync-begin" /\ log[o] = {} /\ logStable[o] = {}
    BY Zenon, <1>2, OpAssumption DEF TypeOK, Exclusive, WriteAhead, DiskFollows, JournalsFollow, FilesCovered
  <2>2. \A q \in Op : dirStable[q] # "active"
    BY Zenon, <1>2, <2>1 DEF Exclusive, DiskFollows, JournalsFollow, FilesCovered
  <2>3. dirStable'[o] = "active" /\ \A q \in Op : dirStable'[q] = "active" => q = o
    BY <1>2, <2>2 DEF TypeOK
  <2>4. stable \in [Path -> Content]
    BY DEF TypeOK
  <2>5. Recoverable(dirStable, logStable, pre, stable) = stable
    BY <2>2, <2>4, NothingToRecover
  <2>6. Recoverable(dirStable', logStable, pre, stable) = Undone(o, logStable, pre, stable)
    <3>1. OnlyActive(dirStable', o)
      BY <2>3 DEF OnlyActive
    <3> QED BY <3>1, RecoverOne
  <2>7. Undone(o, logStable, pre, stable) = stable
    BY <2>1, <2>4 DEF Undone
  <2>8. LogicalStable' = stable
    BY Zenon, <2>6, <2>7 DEF LogicalStable, Recoverable, files
  <2> QED BY <2>5, <2>8 DEF LogicalStable
<1>3. CASE dirStable[o] = "active" /\ dir[o] # "active"
  <2>1. dir[o] # "rolled-back"
    BY Zenon DEF NoRollbackYet, TypeOK
  <2>2. o = cur /\ pc = "sync-commit" /\ dir[o] = "committed" /\ root = stable
    BY Zenon, <1>3, <2>1, OpAssumption DEF TypeOK, Exclusive, WriteAhead, DiskFollows, JournalsFollow, FilesCovered
  <2>3. \A q \in Op : dirStable'[q] # "active"
    BY Zenon, <2>2, OneActiveOnDisk DEF TypeOK
  <2>4. dirStable'[o] = "committed" /\ stable' = root /\ stable' \in [Path -> Content]
    BY Zenon, <2>2 DEF TypeOK, files
  <2>5. Recoverable(dirStable', logStable', pre', stable') = stable'
    BY ONLY <2>3, <2>4, NothingToRecover
  <2>6. LogicalStable' = root
    BY <2>4, <2>5 DEF LogicalStable, Recoverable
  <2> QED BY <1>3, <2>4, <2>6
<1> QED BY <1>1, <1>2, <1>3

\* Records reach the disk: they hold what the disk has.
LEMMA RecordsReachDisk ==
  ASSUME TypeOK, TypeOK', Exclusive, WriteAhead, DiskFollows, Unrolled,
         NEW o \in Op, NEW S \in SUBSET log[o],
         logStable' = [logStable EXCEPT ![o] = @ \cup S],
         UNCHANGED <<files, dirStable, pre>>
  PROVE  LogicalStable' = LogicalStable
<1>1. \A q \in Op : dirStable[q] = "active" <=> dirStable'[q] = "active"
  OBVIOUS
<1>2. stable' = stable
  BY DEF files
<1>3. ASSUME NEW q \in Op, dirStable[q] = "active", NEW p \in Path
      PROVE  (IF p \in logStable'[q] THEN pre'[q][p] ELSE stable'[p])
              = (IF p \in logStable[q] THEN pre[q][p] ELSE stable[p])
  <2>1. CASE p \in logStable'[q] <=> p \in logStable[q]
    BY <1>2, <2>1
  <2>2. CASE p \in logStable'[q] /\ p \notin logStable[q]
    <3>1. q = o /\ p \in log[q] /\ log[q] # logStable[q]
      BY Zenon, <2>2 DEF TypeOK
    <3>2. q = cur /\ pc = "sync-append"
      BY Zenon, <3>1 DEF DiskFollows, JournalsFollow, FilesCovered
    <3>3. \A r \in Op : dirStable[r] = "active" => r = q
      BY Zenon, <1>3, OneActiveOnDisk
    <3>4. root[p] = stable[p]
      BY Zenon, <2>2, <3>3 DEF DiskFollows, JournalsFollow, FilesCovered
    <3>5. p \in batch \/ p \in mem
      BY Zenon, <3>1, <3>2 DEF WriteAhead
    <3>6. p \notin mem
      BY <2>2, <3>2 DEF DiskFollows, JournalsFollow, FilesCovered
    <3>7. pre[q][p] = root[p]
      BY <3>2, <3>5, <3>6 DEF WriteAhead
    <3> QED BY <2>2, <3>4, <3>7, <1>2
  <2>3. logStable[q] \subseteq logStable'[q]
    BY Zenon DEF TypeOK
  <2> QED BY Zenon, <2>1, <2>2, <2>3
<1> QED BY <1>1, <1>2, <1>3, StableSame

\* Files reach the disk: those ahead of it have their preimage there.
LEMMA FilesReachDisk ==
  ASSUME TypeOK, TypeOK', Exclusive, WriteAhead, DiskFollows, Unrolled,
         \A p \in Path : stable'[p] \in {stable[p], root[p]},
         UNCHANGED <<dirStable, logStable, pre>>
  PROVE  LogicalStable' = LogicalStable
<1>1. \A o \in Op : dirStable[o] = "active" <=> dirStable'[o] = "active"
  BY Zenon
<1>2. \A p \in Path : stable'[p] # stable[p] =>
        \E o \in Op : dirStable[o] = "active" /\ p \in logStable[o]
  BY Zenon DEF DiskFollows, JournalsFollow, FilesCovered
<1>3. (\A o \in Op : dirStable[o] # "active") => stable' = stable
  BY SMTT(30), <1>2 DEF TypeOK
<1>4. ASSUME NEW o \in Op, dirStable[o] = "active", NEW p \in Path
      PROVE  (IF p \in logStable'[o] THEN pre'[o][p] ELSE stable'[p])
              = (IF p \in logStable[o] THEN pre[o][p] ELSE stable[p])
  <2>1. \A q \in Op : dirStable[q] = "active" => q = o
    BY <1>4, OneActiveOnDisk
  <2> QED BY Zenon, <1>2, <2>1
<1> QED BY Zenon, <1>1, <1>3, <1>4, StableSame

\* Every step, under power loss alone and of a merge, is one that MergeDurable
\* allows.
LEMMA StepDurable ==
  ASSUME Client \subseteq {"merge"}, Faults \subseteq {"power"},
         TypeOK, TypeOK', Exclusive, WriteAhead, DiskFollows, [Next]_vars, NoRollbackYet'
  PROVE  \/ LogicalStable' = LogicalStable
         \/ /\ \E o \in Op : dirStable[o] = "active" /\ dirStable'[o] = "committed"
            /\ LogicalStable' = root
<1> DEFINE Goal == \/ LogicalStable' = LogicalStable
                   \/ /\ \E o \in Op : dirStable[o] = "active" /\ dirStable'[o] = "committed"
                      /\ LogicalStable' = root
<1>1. ASSUME UNCHANGED <<stable, dirStable, logStable, pre>> PROVE Goal
  BY <1>1 DEF LogicalStable, Recoverable
<1>2. ASSUME UNCHANGED dirStable PROVE Unrolled
  BY <1>2 DEF NoRollbackYet, Unrolled
<1>3. ASSUME cur \in Op, SyncDirectory PROVE Goal
  <2>1. dirStable' = [dirStable EXCEPT ![cur] = dir[cur]] /\ UNCHANGED <<files, dir, logStable, pre>>
    BY <1>3 DEF SyncDirectory
  <2> QED BY Zenon, <1>3, <2>1, DirectoryReachesDisk
<1>4. ASSUME BeginSync \/ CommitSync \/ RollbackSync PROVE Goal
  <2>1. cur \in Op
    BY <1>4, OpAssumption DEF TypeOK, BeginSync, CommitSync, RollbackSync
  <2> QED BY <1>3, <1>4, <2>1 DEF BeginSync, CommitSync, RollbackSync
<1>5. ASSUME NEW o \in Op, WritebackDirectory(o) PROVE Goal
  <2>1. dirStable' = [dirStable EXCEPT ![o] = dir[o]] /\ UNCHANGED <<files, dir, logStable, pre>>
    BY <1>5 DEF WritebackDirectory
  <2> QED BY Zenon, <2>1, DirectoryReachesDisk
<1>6. ASSUME NEW o \in Op, MakeDirectory(o) PROVE Goal
  <2>1. dirStable[o] = "none" /\ UNCHANGED <<stable, dirStable, pre>>
    BY Zenon, <1>6, OpAssumption DEF MakeDirectory, TypeOK, DiskFollows, JournalsFollow, FilesCovered, files
  <2>2. \A q \in Op : q # o => logStable'[q] = logStable[q]
    BY Zenon, <1>6 DEF MakeDirectory, TypeOK
  <2> QED BY Zenon, <2>1, <2>2, StableSame
<1>7. ASSUME NEW S \in SUBSET Path, Capture(S) PROVE Goal
  <2>1. cur \in Op /\ S \cap logStable[cur] = {}
    BY Zenon, <1>7, OpAssumption DEF Capture, TypeOK, WriteAhead, DiskFollows, JournalsFollow, FilesCovered
  <2>2. /\ UNCHANGED <<stable, dirStable, logStable>>
        /\ pre' = [pre EXCEPT ![cur] = [p \in Path |-> IF p \in S THEN root[p] ELSE @[p]]]
    BY <1>7 DEF Capture, files
  <2>3. ASSUME NEW o \in Op, NEW p \in logStable[o] PROVE pre'[o][p] = pre[o][p]
    BY Zenon, <2>1, <2>2, <2>3 DEF TypeOK
  <2> QED BY Zenon, <2>2, <2>3, StableSame
<1>8. ASSUME CaptureSyncLog PROVE Goal
  <2>1. cur \in Op /\ UNCHANGED <<files, dirStable, pre>> /\ logStable[cur] \subseteq log[cur]
    BY Zenon, <1>8, OpAssumption DEF CaptureSyncLog, TypeOK, DiskFollows, JournalsFollow, FilesCovered
  <2>2. logStable' = [logStable EXCEPT ![cur] = @ \cup log[cur]]
    BY Zenon, <1>8, <2>1 DEF CaptureSyncLog, TypeOK
  <2> QED BY Zenon, <1>2, <2>1, <2>2, RecordsReachDisk
<1>9. ASSUME NEW o \in Op, NEW p \in Path, WritebackLog(o, p) PROVE Goal
  <2>1. /\ logStable' = [logStable EXCEPT ![o] = @ \cup {p}] /\ {p} \in SUBSET log[o]
        /\ UNCHANGED <<files, dirStable, pre>>
    BY Zenon, <1>9 DEF WritebackLog
  <2> QED BY Zenon, <1>2, <2>1, RecordsReachDisk
<1>10. ASSUME SyncPayload PROVE Goal
  BY Zenon, <1>2, <1>10, FilesReachDisk DEF SyncPayload, journals
<1>11. ASSUME NEW p \in Path, WritebackPath(p) PROVE Goal
  BY Zenon, <1>2, <1>11, FilesReachDisk DEF WritebackPath, journals, TypeOK
<1> DEFINE Quiet == UNCHANGED <<stable, dirStable, logStable, pre>>
<1>12. ASSUME NEW c \in Client, Start(c) PROVE Quiet
  BY <1>12 DEF Start, files, journals
<1>13. ASSUME NEW o \in Op, OpenFails(o) \/ SkipFinished(o) \/ OpenActive(o) \/ RollbackActive(o)
       PROVE  Quiet
  BY Zenon, <1>13 DEF OpenFails, SkipFinished, OpenActive, RollbackActive, files, journals
<1>14. ASSUME RecoverDone \/ Return \/ BeginPublish \/ BeginFails PROVE Quiet
  BY <1>14 DEF RecoverDone, Return, BeginPublish, Publish, BeginFails, files, journals
<1>15. ASSUME CaptureSyncBackups \/ CaptureAppend \/ CaptureFails PROVE Quiet
  BY Zenon, <1>15 DEF CaptureSyncBackups, CaptureAppend, CaptureFails, files
<1>16. ASSUME NEW p \in Path, NEW v \in Content, Mutate(p, v) \/ RestoreTorn(p, v)
       PROVE  Quiet
  BY <1>16 DEF Mutate, RestoreTorn, journals
<1>17. ASSUME NEW p \in Path, Restore(p) PROVE Quiet
  BY <1>17 DEF Restore, journals
<1>18. ASSUME CommitPublish \/ Abort \/ RollbackPublish \/ RollbackFails PROVE Quiet
  BY Zenon, <1>18 DEF CommitPublish, Abort, RollbackPublish, RollbackFails, Publish, files, journals
<1>19. ASSUME Kill \/ PowerLoss PROVE Quiet
  BY <1>19 DEF Kill, PowerLoss, files, journals
<1>20. ASSUME NEW o \in Op, NEW p \in Path, WritebackBackup(o, p) PROVE Quiet
  BY <1>20 DEF WritebackBackup, files
<1>21. ASSUME UNCHANGED vars PROVE Quiet
  BY <1>21 DEF vars, files, journals
<1> HIDE DEF Goal, Quiet
<1>22. CASE Process
  <2>1. Quiet \/ Goal
    BY Zenon, <1>4, <1>6, <1>7, <1>8, <1>10, <1>12, <1>13, <1>14, <1>15, <1>16, <1>17, <1>18,
       <1>22 DEF Process
  <2> QED BY <1>1, <2>1 DEF Goal, Quiet
<1>23. CASE Environment
  <2>1. Quiet \/ Goal
    BY <1>5, <1>9, <1>11, <1>19, <1>20, <1>23 DEF Environment
  <2> QED BY <1>1, <2>1 DEF Goal, Quiet
<1> QED BY <1>1, <1>21, <1>22, <1>23 DEF Goal, Quiet, Next

\* When power is all that fails, what a power loss leaves of a sequence of merges
\* changes, once recovered, only when a commit reaches the disk, and is then all
\* that the merge wrote.
THEOREM MergesDurable ==
  ASSUME Client \subseteq {"merge"}, Faults \subseteq {"power"}
  PROVE  Spec => MergeDurable
<1> DEFINE Ind == TypeOK /\ Exclusive /\ WriteAhead /\ DiskFollows
<1>1. Init => Ind
  <2>1. Init => DiskFollows
    BY DEF Init, DiskFollows, JournalsFollow, FilesCovered
  <2> QED BY <2>1, InitTypeOK, InitExclusive, InitWriteAhead
<1>2. Ind /\ [Next]_vars => Ind'
  BY NextTypeOK, NextExclusive, PowerExclusive, NextWriteAhead, NextDiskFollows
<1>3. Ind /\ Ind' /\ [Next]_vars =>
        [ NoRollbackYet' =>
            \/ LogicalStable' = LogicalStable
            \/ /\ \E o \in Op : dirStable[o] = "active" /\ dirStable'[o] = "committed"
               /\ LogicalStable' = root ]_vars
  BY Zenon, StepDurable
<1> QED BY <1>1, <1>2, <1>3, PTL DEF Spec, MergeDurable
=============================================================================
