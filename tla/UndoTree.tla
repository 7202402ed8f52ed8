------------------------------ MODULE UndoTree ------------------------------
(***************************************************************************)
(* What the journal records and restores when the objects it protects form *)
(* a directory tree with symbolic links (internal/journal/journal.go), as  *)
(* used by the payload walk of a merge and by the removal loop of an       *)
(* unmerge (internal/merge/merge.go, removal.go).                          *)
(*                                                                         *)
(* Module Journal treats a path as an opaque cell.  Here a path is a       *)
(* sequence of names, an object is absent, a directory, a regular file or  *)
(* a symbolic link, and every system call resolves the links among the     *)
(* ancestors of its argument on the tree as it is at that moment.          *)
(*                                                                         *)
(* Bounds and abstractions: link targets are directories' own paths and    *)
(* are not links themselves; modes, owners, times, attributes and hard     *)
(* links are left out, as are CONFIG_PROTECT renames and the checks of the *)
(* targets of a live root.                                                 *)
(***************************************************************************)
EXTENDS Naturals, Sequences, SequencesExt

CONSTANTS
    Path,   \* the paths of the tree: non-empty sequences of names, prefix closed
    Walk,   \* the paths in the order filepath.WalkDir visits them
    Case    \* records [before, image, client, kills]: the tree before the
            \* operation, the image merged or the contents recorded for an
            \* unmerge, the client, how many times a rollback is killed

VARIABLES
    case,    \* the element of Case this behaviour is about
    fs,      \* the tree
    entries, \* capture log: sequence of [path, kind, was]
    roots,   \* absentSubtreeRoots of merge()
    todo,    \* image or recorded paths still to visit
    gone,    \* paths RemoveTree still has to remove
    pc,      \* where the operation is
    next,    \* index of the entry Rollback restores next
    kills    \* how many times a rollback may still be killed

vars == <<case, fs, entries, roots, todo, gone, pc, next, kills>>

Absent == <<"absent">>
Dir == <<"dir">>
NotDir == <<"notdir">>
Kind(o) == o[1]

\* What the constants are taken to be.
PathAssumption ==
    /\ \A p \in Path : Len(p) > 0 /\ (Len(p) > 1 => Front(p) \in Path)
    /\ ToSet(Walk) = Path /\ Len(Walk) = Cardinality(Path)
    /\ \A c \in Case : \A t \in {c.before, c.image} :
         /\ DOMAIN t = Path
         /\ \A p \in Path : Len(p) > 1 /\ t[p] # Absent => t[Front(p)] = Dir
         /\ \A p \in Path : Kind(t[p]) = "link" => Kind(c.before[t[p][2]]) # "link"

-----------------------------------------------------------------------------
(* Path resolution                                                         *)

Above(p) == {SubSeq(p, 1, n) : n \in 1..(Len(p) - 1)}
Within(p) == {q \in Path : IsPrefix(p, q)}

Object(t, p) == IF p \in Path THEN t[p] ELSE Absent

Follow(t, p) == IF Kind(Object(t, p)) = "link" THEN t[p][2] ELSE p

\* Journal.confined: the ancestors of p are resolved, its last name is not.
confined(t, p) ==
    Append(FoldLeft(LAMBDA at, name : Follow(t, Append(at, name)), <<>>, Front(p)),
           Last(p))

\* The kernel resolves ancestors the same way, and fails with ENOTDIR below
\* a regular file.
Lstat(t, p) ==
    LET q == confined(t, p) IN
    IF \E a \in Above(q) : Kind(Object(t, a)) = "file" THEN NotDir ELSE Object(t, q)

IsEmptyDir(t, p) == \A q \in Within(confined(t, p)) : q # confined(t, p) => t[q] = Absent

Put(t, p, o) == [t EXCEPT ![confined(t, p)] = o]

MkdirAll(t, q) ==
    [p \in Path |-> IF p \in Above(q) \union {q} /\ t[p] = Absent THEN Dir ELSE t[p]]

-----------------------------------------------------------------------------
(* The capture log                                                         *)

Recorded(log, q) == \E i \in DOMAIN log : log[i].path = q

coveredByAbsentTree(log, q) ==
    \E i \in DOMAIN log : log[i].kind = "absent-tree" /\ IsStrictPrefix(log[i].path, q)

\* Journal.Capture and one turn of CaptureBatch's loop.
Capture(log, p) ==
    LET q == confined(fs, p) IN
    IF Recorded(log, q) \/ coveredByAbsentTree(log, q) THEN log
    ELSE Append(log, [path |-> q, kind |-> Kind(Object(fs, q)), was |-> Object(fs, q)])

CaptureAll(log, paths) == FoldLeft(Capture, log, paths)

CaptureAbsentTree(log, p) ==
    LET q == confined(fs, p) IN
    IF Recorded(log, q) THEN log
    ELSE Append(log, [path |-> q, kind |-> "absent-tree", was |-> Absent])

\* What filepath.WalkDir visits below p, without following links.
Subtree(p) == SelectSeq(Walk, LAMBDA q : q \in Within(confined(fs, p)) /\ fs[q] # Absent)

CaptureTree(log, p) == CaptureAll(log, Subtree(p))

-----------------------------------------------------------------------------
(* Beginning: merge() walks the image once for preimages                   *)

image == case.image
Staged == SelectSeq(Walk, LAMBDA p : image[p] # Absent)

\* Deepest first, stable: the order UnmergeWithConfig sorts CONTENTS into.
Deepest == SortSeq(Staged, LAMBDA p, q : Len(p) > Len(q))

NewSubtree(p) == Kind(image[p]) = "dir" /\ Lstat(fs, p) = Absent

insideAbsentSubtree(R, p) == \E r \in R : IsPrefix(r, p)

SubtreeRoots == {p \in Path : NewSubtree(p) /\ \A a \in Above(p) : ~NewSubtree(a)}

Preimage ==
    /\ pc = "preimage"
    /\ roots' = SubtreeRoots
    /\ entries' = CaptureAll(
           FoldLeft(CaptureAbsentTree, entries,
                    SelectSeq(Staged, LAMBDA p : p \in SubtreeRoots)),
           SelectSeq(Staged, LAMBDA p : /\ ~insideAbsentSubtree(SubtreeRoots, p)
                                        /\ Lstat(fs, p) # NotDir))
    /\ pc' = "walk"
    /\ UNCHANGED <<case, fs, todo, gone, next, kills>>

-----------------------------------------------------------------------------
(* The mutation walk of merge()                                            *)

Journaled(p) == ~insideAbsentSubtree(roots, p)

Merging == pc = "walk" /\ case.client = "merge" /\ todo # <<>>

\* Any error of the walk: a failed call, a cancelled context.
Rollback ==
    /\ pc' = "rollback"
    /\ next' = Len(entries')

Visited ==
    /\ todo' = Tail(todo)
    /\ pc' = "walk"

\* A directory of the image meets an existing directory, or nothing.
MergeDirectory ==
    /\ Merging
    /\ LET p == Head(todo)
           live == Lstat(fs, p) IN
       /\ image[p] = Dir
       /\ live \in {Absent, Dir}
       /\ entries' = IF ~Journaled(p) THEN entries
                     ELSE IF live = Absent THEN CaptureAbsentTree(entries, p)
                     ELSE Capture(entries, p)
       /\ roots' = IF Journaled(p) /\ live = Absent THEN roots \union {p} ELSE roots
    /\ pc' = "create"
    /\ UNCHANGED <<case, fs, todo, gone, next, kills>>

\* Something that is not a directory stands where the image has a directory:
\* replaceNonDirectory.  Or a file or link of the image meets an existing
\* object that may be replaced: prepareNonDirectoryTarget.  Both remove the
\* old object with RemoveTree, outside the subtrees known to be new.
ReplaceTarget ==
    /\ Merging
    /\ LET p == Head(todo)
           live == Lstat(fs, p) IN
       /\ live \notin {Absent, NotDir}
       /\ IF image[p] = Dir THEN live # Dir ELSE live = Dir => IsEmptyDir(fs, p)
       /\ entries' = IF image[p] = Dir \/ Journaled(p) THEN CaptureTree(entries, p) ELSE entries
       /\ gone' = <<confined(fs, p)>>
    /\ pc' = "remove"
    /\ UNCHANGED <<case, fs, roots, todo, next, kills>>

\* A file or link of the image meets nothing.
PrepareAbsentTarget ==
    /\ Merging
    /\ LET p == Head(todo) IN
       /\ image[p] # Dir
       /\ Lstat(fs, p) = Absent
       /\ entries' = IF Journaled(p) THEN Capture(entries, p) ELSE entries
    /\ pc' = "create"
    /\ UNCHANGED <<case, fs, roots, todo, gone, next, kills>>

\* prepareNonDirectoryTarget refuses a directory that is not empty, and
\* nothing can be inspected below a file.
RefuseTarget ==
    /\ Merging
    /\ LET p == Head(todo)
           live == Lstat(fs, p) IN
       \/ live = NotDir
       \/ image[p] # Dir /\ live = Dir /\ ~IsEmptyDir(fs, p)
    /\ UNCHANGED <<case, fs, entries, roots, todo, gone, kills>>
    /\ Rollback

RemoveTarget ==
    /\ pc = "remove"
    /\ fs' = [fs EXCEPT ![Head(gone)] = Absent]
    /\ gone' = Tail(gone)
    /\ IF gone' # <<>> THEN UNCHANGED <<pc, todo>>
       ELSE CASE case.client = "merge" -> pc' = "create" /\ UNCHANGED todo
              [] case.client = "record" -> pc' = "walk" /\ UNCHANGED todo
              [] case.client = "unmerge" -> Visited
    /\ UNCHANGED <<case, entries, roots, next, kills>>

CreateTarget ==
    /\ pc = "create"
    /\ fs' = Put(fs, Head(todo), image[Head(todo)])
    /\ Visited
    /\ UNCHANGED <<case, entries, roots, gone, next, kills>>

-----------------------------------------------------------------------------
(* The package database entry: merge() removes an existing entry as a tree *)
(* and writes every file of the new one after capturing its path           *)

BeginRecord ==
    /\ pc = "record"
    /\ LET p == Head(todo) IN
       IF Lstat(fs, p) = Absent
       THEN /\ entries' = CaptureAbsentTree(entries, p)
            /\ pc' = "walk" /\ UNCHANGED gone
       ELSE /\ entries' = CaptureTree(entries, p)
            /\ gone' = Reverse(Subtree(p))
            /\ pc' = "remove"
    /\ UNCHANGED <<case, fs, roots, todo, next, kills>>

WriteRecord ==
    /\ pc = "walk" /\ case.client = "record" /\ todo # <<>>
    /\ entries' = Capture(entries, Head(todo))
    /\ pc' = "create"
    /\ UNCHANGED <<case, fs, roots, todo, gone, next, kills>>

-----------------------------------------------------------------------------
(* The removal loop of UnmergeWithConfig: removeRecordedPath               *)

Unmerging == pc = "walk" /\ case.client = "unmerge" /\ todo # <<>>

\* recordedObjectMatches, and a directory only once it is empty.
Removable(p) == /\ Lstat(fs, p) = image[p]
                /\ image[p] = Dir => IsEmptyDir(fs, p)

\* Mutant: removed without a preimage.
RemoveRecordedFirst ==
    /\ Unmerging
    /\ Removable(Head(todo))
    /\ gone' = <<confined(fs, Head(todo))>>
    /\ pc' = "remove"
    /\ UNCHANGED <<case, fs, entries, roots, todo, next, kills>>

RemoveRecorded ==
    /\ Unmerging
    /\ Removable(Head(todo))
    /\ entries' = Capture(entries, Head(todo))
    /\ gone' = <<confined(fs, Head(todo))>>
    /\ pc' = "remove"
    /\ UNCHANGED <<case, fs, roots, todo, next, kills>>

KeepRecorded ==
    /\ Unmerging
    /\ ~Removable(Head(todo))
    /\ Lstat(fs, Head(todo)) # NotDir
    /\ Visited
    /\ UNCHANGED <<case, fs, entries, roots, gone, next, kills>>

RefuseRecorded ==
    /\ Unmerging
    /\ Lstat(fs, Head(todo)) = NotDir
    /\ UNCHANGED <<case, fs, entries, roots, todo, gone, kills>>
    /\ Rollback

-----------------------------------------------------------------------------
(* Ending                                                                  *)

Commit ==
    /\ pc = "walk" /\ todo = <<>>
    /\ pc' = "committed"
    /\ UNCHANGED <<case, fs, entries, roots, todo, gone, next, kills>>

\* The walk fails, or the process is killed and the next one calls
\* RecoverActive: the entries are restored from the last to the first.
Abort ==
    /\ pc \in {"preimage", "record", "walk", "remove", "create"}
    /\ UNCHANGED <<case, fs, entries, roots, todo, gone, kills>>
    /\ Rollback

\* restore() fails below a regular file, and when something other than a
\* directory must replace a directory that is not empty.
restoreFails(t, e) ==
    LET q == confined(t, e.path) IN
    \/ Lstat(t, e.path) = NotDir
    \/ /\ e.kind \notin {"absent-tree", "dir"}
       /\ Object(t, q) = Dir /\ ~IsEmptyDir(t, q)

restore(t, e) ==
    LET q == confined(t, e.path) IN
    CASE e.kind = "absent-tree" -> [p \in Path |-> IF p \in Within(q) THEN Absent ELSE t[p]]
      [] e.kind = "absent" -> [t EXCEPT ![q] = Absent]
      [] e.kind = "dir" -> MkdirAll(IF t[q] = Dir THEN t ELSE [t EXCEPT ![q] = Absent], q)
      [] OTHER -> [MkdirAll(t, Front(q)) EXCEPT ![q] = e.was]

RestoreEntry ==
    /\ pc = "rollback" /\ next > 0
    /\ IF restoreFails(fs, entries[next])
       THEN pc' = "stuck" /\ UNCHANGED <<fs, next>>
       ELSE /\ fs' = restore(fs, entries[next])
            /\ next' = next - 1
            /\ UNCHANGED pc
    /\ UNCHANGED <<case, entries, roots, todo, gone, kills>>

RolledBack ==
    /\ pc = "rollback" /\ next = 0
    /\ pc' = "rolled-back"
    /\ UNCHANGED <<case, fs, entries, roots, todo, gone, next, kills>>

\* The process is killed inside Rollback: the journal is still active, and
\* the next process starts again from the last entry.
KillRollback ==
    /\ pc = "rollback" /\ next < Len(entries) /\ kills > 0
    /\ kills' = kills - 1
    /\ next' = Len(entries)
    /\ UNCHANGED <<case, fs, entries, roots, todo, gone, pc>>

Init ==
    /\ case \in Case
    /\ fs = case.before
    /\ entries = <<>> /\ roots = {} /\ gone = <<>> /\ next = 0
    /\ todo = IF case.client = "unmerge" THEN Deepest ELSE Staged
    /\ pc = [merge |-> "preimage", unmerge |-> "walk", record |-> "record"][case.client]
    /\ kills = case.kills

Next ==
    \/ Preimage
    \/ MergeDirectory \/ ReplaceTarget \/ PrepareAbsentTarget \/ RefuseTarget
    \/ RemoveTarget \/ CreateTarget
    \/ BeginRecord \/ WriteRecord
    \/ RemoveRecorded \/ KeepRecorded \/ RefuseRecorded
    \/ Commit \/ Abort \/ RestoreEntry \/ RolledBack \/ KillRollback

Spec == Init /\ [][Next]_vars

-----------------------------------------------------------------------------
(* Properties                                                              *)

\* The variables keep their types; the tree stays a tree: whatever exists
\* lies in a directory (no system call of the walks or of restore leaves an
\* object below something that is not a directory).
TypeOK ==
    /\ case \in Case /\ roots \subseteq Path /\ kills \in 0..case.kills
    /\ next \in 0..Len(entries)
    /\ ToSet(todo) \subseteq Path /\ ToSet(gone) \subseteq Path
    /\ \A i \in DOMAIN entries : entries[i].path \in Path
    /\ DOMAIN fs = Path
    /\ \A p \in Path : Len(p) > 1 /\ fs[p] # Absent => fs[Front(p)] = Dir

\* A rolled back operation leaves exactly the tree it found: every object it
\* created is gone and every object it replaced or removed is back
\* (Journal.Rollback after any failure of merge or UnmergeWithConfig).
TreeRestored == pc = "rolled-back" => fs = case.before

\* A rollback never fails for a reason that lies in the tree itself: the
\* entries, restored in reverse order, always find a place to go
\* (restore's ENOTDIR and ENOTEMPTY returns are never taken).
RollbackSucceeds == pc # "stuck"

\* A committed merge left every object of the image in place, as seen
\* through the links of the final tree, and changed nothing the image does
\* not name: files of other owners below a shared directory survive.  A
\* package database entry is replaced as a whole: no file of the old one
\* is left in it.
MergeExact ==
    pc = "committed" /\ case.client # "unmerge" =>
        \A p \in Path : IF image[p] # Absent THEN Lstat(fs, p) = image[p]
                        ELSE fs[p] = IF case.client = "record" /\ image[<<p[1]>>] # Absent
                                     THEN Absent ELSE case.before[p]

\* A committed unmerge removed only objects equal to what was recorded, and
\* kept every object recorded differently or not at all, even through links
\* (removeRecordedPath).
UnmergeExact ==
    pc = "committed" /\ case.client = "unmerge" =>
        \A p \in Path :
          \/ fs[p] = case.before[p]
          \/ /\ fs[p] = Absent
             /\ \E r \in Path : image[r] = case.before[p] /\ confined(case.before, r) = p
=============================================================================
