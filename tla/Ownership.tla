----------------------------- MODULE Ownership ------------------------------
(***************************************************************************)
(* Who owns which file of a live root: what merging, updating, reinstalling*)
(* and unmerging packages does to the payload, to the CONTENTS records of  *)
(* the package database and to the preserved-libraries registry, while the *)
(* user edits, deletes and creates files (internal/merge: merge.go,        *)
(* collision.go, removal.go, needed.go).                                   *)
(*                                                                         *)
(* One operation is one step: it runs under the package database lock and  *)
(* inside one journal, and modules Journal and UndoTree are about the      *)
(* steps within it.  Directories are shared between packages and are left  *)
(* out, so the files form a flat set; a link points to a path, not to      *)
(* another link.  A file's value stands for its bytes and its time stamp.  *)
(* FEATURES=preserve-libs is on and the root is live.                      *)
(***************************************************************************)
EXTENDS Naturals, Sequences, FiniteSets, SequencesExt

CONSTANTS
    Version,      \* package versions
    Slot,         \* [Version -> slot keys]: category/package:slot
    Image,        \* [Version -> set of images]: functions from paths to objects
    Needs,        \* [Version -> set of sonames] (NEEDED.ELF.2, fifth field)
    Path,         \* the files
    Order,        \* the paths in the order of CONTENTS
    Pending,      \* [protected paths -> the names nextProtectedPath tries]
    Soname,       \* [file values -> soname], NoSoname for what is not a library
    NoSoname,
    BaseName,     \* [Path -> the soname a link of that name stands for]
    UserValue,    \* what the user writes
    MaxEdits      \* bound on the user's edits

VARIABLES
    fs,           \* [Path -> object]: <<"absent">>, <<"obj", value>>, <<"link", path>>
    installed,    \* the versions with a package database entry
    contents,     \* [Version -> CONTENTS, a function from paths to objects]
    elf,          \* [Version -> NEEDED.ELF.2 providers, soname -> path]
    registry,     \* [slot keys -> [owner, paths]], only registered keys
    edits

vars == <<fs, installed, contents, elf, registry, edits>>

Absent == <<"absent">>
Obj(v) == <<"obj", v>>
IsObj(o) == o[1] = "obj"
IsLink(o) == o[1] = "link"
Nothing == [p \in {} |-> Absent]
Protected == DOMAIN Pending
Key == {Slot[v] : v \in Version}

\* elfSONAME opens the path, so it follows a link.
elfSONAME(t, p) ==
    LET o == IF IsLink(t[p]) THEN t[t[p][2]] ELSE t[p] IN
    IF IsObj(o) THEN Soname[o[2]] ELSE NoSoname

\* canonicalLiveOwnershipPath, or the path itself where it does not resolve.
Canonical(t, p) == IF IsLink(t[p]) /\ IsObj(t[t[p][2]]) THEN t[p][2] ELSE p

\* ownershipExcluding: what the entries other than the excluded ones record.
Owned(vs) == UNION {DOMAIN contents[v] : v \in installed \ vs}

Drop(t, ps) == [p \in Path |-> IF p \in ps THEN Absent ELSE t[p]]
Only(f, ps) == [p \in DOMAIN f \intersect ps |-> f[p]]

-----------------------------------------------------------------------------
(* Preflight                                                               *)

\* Mutant: only files that exist can collide.
NoCollisionOnDisk(im, replaced) ==
    {p \in DOMAIN im : fs[p] # Absent} \intersect Owned(replaced) = {}

\* CheckCollisions.
NoCollision(im, replaced) == DOMAIN im \intersect Owned(replaced) = {}

\* validateLiveNewInstallTargets.
NewTargets(im) ==
    \A p \in DOMAIN im :
        \/ fs[p] = Absent
        \/ p \in Protected /\ IsObj(im[p]) /\ IsObj(fs[p])
        \/ IsLink(im[p]) /\ im[p] = fs[p]

ownsPendingConfigUpdate(owned, p) == ToSet(Pending[p]) \intersect owned # {}

\* validateLiveReplacementTargetsWithConfig.
ReplacementTargets(im, old) ==
    LET owned == DOMAIN contents[old] \union {Canonical(fs, p) : p \in DOMAIN contents[old]} IN
    \A p \in DOMAIN im :
        \/ fs[p] = Absent
        \/ Canonical(fs, p) \in owned
        \/ p \in Protected /\ ownsPendingConfigUpdate(owned, Canonical(fs, p))

-----------------------------------------------------------------------------
(* The payload                                                             *)

\* A protected regular file that differs stays; the new one goes beside it.
Diverted(im, p) == /\ p \in Protected /\ IsObj(im[p]) /\ IsObj(fs[p])
                   /\ im[p] # fs[p]

Free(p) == SelectSeq(Pending[p], LAMBDA q : fs[q] = Absent)

\* nextProtectedPath finds a name for every diverted file.
Placeable(im) == \A p \in DOMAIN im : Diverted(im, p) => Free(p) # <<>>

Target(im, p) == IF Diverted(im, p) THEN Head(Free(p)) ELSE p

\* The lines of CONTENTS, which name the path written.
Lines(im) ==
    [q \in {Target(im, p) : p \in DOMAIN im} |->
        im[CHOOSE p \in DOMAIN im : Target(im, p) = q]]

Merged(im) == [p \in Path |-> IF p \in DOMAIN Lines(im) THEN Lines(im)[p] ELSE fs[p]]

\* nativeNeededMetadata: the sonames the image provides.
Providers(im) ==
    LET libs == {p \in DOMAIN im : IsObj(im[p]) /\ Soname[im[p][2]] # NoSoname} IN
    [s \in {Soname[im[p][2]] : p \in libs} |-> CHOOSE p \in libs : Soname[im[p][2]] = s]

-----------------------------------------------------------------------------
(* Preserved libraries                                                     *)

\* requiredPreservedPaths: sonames of the old version that some other package
\* needs and the new one does not provide, where they are and the link that
\* bears the soname.
Preserved(t, old, new, im) ==
    LET rec == contents[old]
        found == {p \in DOMAIN rec : IsObj(rec[p]) /\ elfSONAME(t, p) # NoSoname}
        sonames == DOMAIN elf[old] \union {elfSONAME(t, p) : p \in found}
        needed == UNION {Needs[v] : v \in installed \ {old, new}}
        kept == (sonames \intersect needed) \ DOMAIN Providers(im)
        provider(s) == IF \E p \in found : elfSONAME(t, p) = s
                       THEN CHOOSE p \in found : elfSONAME(t, p) = s ELSE elf[old][s]
    IN {provider(s) : s \in kept}
         \union {p \in DOMAIN rec : IsLink(rec[p]) /\ BaseName[p] \in kept}

\* removeRecordedPath over CONTENTS, skipping what may not be removed; the
\* paths are resolved as they are met.
RemoveObsolete(t, rec, keep) ==
    FoldLeft(LAMBDA u, p : IF u[p] = rec[p] /\ Canonical(u, p) \notin keep
                           THEN [u EXCEPT ![p] = Absent] ELSE u,
             t, SelectSeq(Order, LAMBDA p : p \in DOMAIN rec))

\* prunePreservedRegistry: a record none of whose libraries is needed any
\* more is dropped, with the files nobody else owns.  The state is carried
\* in a record [fs, contents, registry].
needed(vs) == UNION {Needs[v] : v \in vs}

\* Mutant: libraries are known by their file name.
PruneKeyByName(s, vs, k) ==
    LET r == s.registry[k]
        regular == {p \in r.paths : IsObj(s.fs[p])}
        aimed(ps) == {p \in r.paths : IsLink(s.fs[p]) /\ s.fs[p][2] \in ps}
        name(p) == BaseName[p]
        others == UNION {DOMAIN s.contents[v] : v \in vs \ {r.owner}}
        loose == regular \ others
        removed == loose \union (aimed(loose) \ others)
    IN IF \E p \in regular \union aimed(regular) : name(p) \in needed(vs) THEN s
       ELSE [fs |-> Drop(s.fs, removed),
             contents |-> IF r.owner \in vs
                          THEN [s.contents EXCEPT ![r.owner] = Only(@, Path \ removed)]
                          ELSE s.contents,
             registry |-> [j \in DOMAIN s.registry \ {k} |-> s.registry[j]]]

PruneKey(s, vs, k) ==
    LET r == s.registry[k]
        regular == {p \in r.paths : IsObj(s.fs[p])}
        aimed(ps) == {p \in r.paths : IsLink(s.fs[p]) /\ s.fs[p][2] \in ps}
        name(p) == IF elfSONAME(s.fs, p) # NoSoname THEN elfSONAME(s.fs, p) ELSE BaseName[p]
        others == UNION {DOMAIN s.contents[v] : v \in vs \ {r.owner}}
        loose == regular \ others
        removed == loose \union (aimed(loose) \ others)
    IN IF \E p \in regular \union aimed(regular) : name(p) \in needed(vs) THEN s
       ELSE [fs |-> Drop(s.fs, removed),
             contents |-> IF r.owner \in vs
                          THEN [s.contents EXCEPT ![r.owner] = Only(@, Path \ removed)]
                          ELSE s.contents,
             registry |-> [j \in DOMAIN s.registry \ {k} |-> s.registry[j]]]

Prune(s, vs) == FoldLeft(LAMBDA u, k : PruneKey(u, vs, k), s, SetToSeq(DOMAIN s.registry))

Finish(s, vs) ==
    LET u == Prune(s, vs) IN
    /\ fs' = u.fs /\ contents' = u.contents /\ registry' = u.registry
    /\ installed' = vs
    /\ UNCHANGED edits

-----------------------------------------------------------------------------
(* Operations                                                              *)

\* A new package: no version of its slot is installed.
Install(v, im) ==
    /\ \A w \in installed : Slot[w] # Slot[v]
    /\ NewTargets(im) /\ NoCollision(im, {v}) /\ Placeable(im)
    /\ elf' = [elf EXCEPT ![v] = Providers(im)]
    /\ Finish([fs |-> Merged(im), contents |-> [contents EXCEPT ![v] = Lines(im)],
               registry |-> registry], installed \union {v})

\* The same version again: the entry is rewritten, obsolete files stay.
Reinstall(v, im) ==
    /\ v \in installed
    /\ ReplacementTargets(im, v) /\ NoCollision(im, {v}) /\ Placeable(im)
    /\ elf' = [elf EXCEPT ![v] = Providers(im)]
    /\ Finish([fs |-> Merged(im), contents |-> [contents EXCEPT ![v] = Lines(im)],
               registry |-> registry], installed)

\* Another version of the slot: its obsolete files are removed, libraries
\* still needed are kept and change owner.  A library that must be kept and
\* is missing fails the operation.
Update(v, old, im) ==
    /\ old \in installed /\ v \notin installed /\ Slot[v] = Slot[old]
    /\ ReplacementTargets(im, old) /\ NoCollision(im, {v, old}) /\ Placeable(im)
    /\ LET t == Merged(im)
           saved == Preserved(t, old, v, im)
           retained == {Canonical(t, p) : p \in DOMAIN im}
           u == RemoveObsolete(t, contents[old], retained \union Owned({v, old}) \union saved)
           moved == saved \ DOMAIN Lines(im)
           lines == [p \in DOMAIN Lines(im) \union moved |->
                        IF p \in moved THEN u[p] ELSE Lines(im)[p]]
       IN /\ \A p \in moved : u[p] # Absent
          /\ Finish([fs |-> u,
                     contents |-> [contents EXCEPT ![v] = lines, ![old] = Nothing],
                     registry |-> IF saved = {} THEN registry
                                  ELSE [k \in DOMAIN registry \union {Slot[v]} |->
                                          IF k = Slot[v] THEN [owner |-> v, paths |-> saved]
                                          ELSE registry[k]]],
                    (installed \ {old}) \union {v})
    /\ elf' = [elf EXCEPT ![v] = Providers(im), ![old] = Nothing]

\* UnmergeWithConfig skips by the recorded path, without resolving it.
RemoveEntry(v) ==
    Drop(fs, {p \in DOMAIN contents[v] : fs[p] = contents[v][p] /\ p \notin Owned({v})})

Unmerge(v) ==
    /\ v \in installed
    /\ elf' = [elf EXCEPT ![v] = Nothing]
    /\ Finish([fs |-> RemoveEntry(v), contents |-> [contents EXCEPT ![v] = Nothing],
               registry |-> registry], installed \ {v})

\* The user writes or deletes a file.
UserEdit(p, o) ==
    /\ edits < MaxEdits /\ edits' = edits + 1
    /\ fs[p] # o
    /\ fs' = [fs EXCEPT ![p] = o]
    /\ UNCHANGED <<installed, contents, elf, registry>>

Init ==
    /\ fs = [p \in Path |-> Absent]
    /\ installed = {} /\ edits = 0
    /\ contents = [v \in Version |-> Nothing]
    /\ elf = [v \in Version |-> Nothing]
    /\ registry = Nothing

Merge == \E v \in Version : \E im \in Image[v] :
            Install(v, im) \/ Reinstall(v, im) \/ \E old \in Version : Update(v, old, im)

Next ==
    \/ Merge
    \/ \E v \in Version : Unmerge(v)
    \/ \E p \in Path, o \in {Absent, Obj(UserValue)} : UserEdit(p, o)

Spec == Init /\ [][Next]_vars

-----------------------------------------------------------------------------
(* Properties                                                              *)

\* The variables keep their types, and only installed packages have records.
TypeOK ==
    /\ installed \subseteq Version /\ edits \in 0..MaxEdits
    /\ DOMAIN fs = Path
    /\ \A v \in Version : DOMAIN contents[v] \subseteq Path
                          /\ (v \notin installed => contents[v] = Nothing)
    /\ DOMAIN registry \subseteq Key
    /\ \A k \in DOMAIN registry : registry[k].owner \in Version /\ registry[k].paths \subseteq Path

Updates == UNION {ToSet(Pending[p]) : p \in Protected}

\* No file is recorded by two installed packages and no slot holds two
\* versions (CheckCollisions, findInstalledReplacement), whatever sequence
\* of diverted configuration files and adopted libraries led here.  The
\* names of pending configuration updates are excepted: once the user has
\* merged one, nextProtectedPath hands the name out again.
OneOwner ==
    \A v, w \in installed : v # w =>
        /\ DOMAIN contents[v] \intersect DOMAIN contents[w] \subseteq Updates
        /\ Slot[v] # Slot[w]

\* What the user wrote is never lost, except where an update or a reinstall
\* writes its own version of an unprotected file that the replaced version had
\* recorded, and where the path is a library that the linkage metadata names or
\* that is registered as preserved: updatePreservedRegistry records what it
\* finds there, and prunePreservedRegistry removes what it finds there
\* (validateLive...Targets, removeRecordedPath, nextProtectedPath).
UserFilesKept ==
    \A p \in Path : fs[p] = Obj(UserValue) /\ fs'[p] # fs[p] =>
        \/ /\ p \notin Protected
           /\ \E v \in installed, w \in installed' :
                 /\ Slot[v] = Slot[w]
                 /\ p \in DOMAIN contents[v] \intersect DOMAIN contents'[w]
                 /\ fs'[p] = contents'[w][p]
        \/ \E k \in DOMAIN registry : p \in registry[k].paths
        \/ \E v \in installed : \E s \in DOMAIN elf[v] : elf[v][s] = p

Provided(t, s) == \E p \in Path : IsObj(t[p]) /\ Soname[t[p][2]] = s

\* A merge never takes away a library another installed package needs: the
\* soname is provided by the new version or the old file is preserved, over
\* any sequence of updates and reinstalls (requiredPreservedPaths,
\* prunePreservedRegistry).
LibrariesKept ==
    ~(installed' \subseteq installed /\ installed' # installed) =>
        \A w \in installed \intersect installed' : \A s \in Needs[w] :
            Provided(fs, s) => Provided(fs', s)

\* The recorded files of every package whose own record is kept are left alone,
\* or brought back to what is recorded (CheckCollisions, ownershipExcluding, the
\* registry's other owners).
OthersUntouched ==
    \A w \in installed \intersect installed' : contents'[w] = contents[w] =>
        \A p \in DOMAIN contents[w] \ Updates : fs'[p] \in {fs[p], contents[w][p]}

\* No operation on packages costs anybody a file: the user's files, the
\* libraries that installed packages need and the files of other packages stay
\* (Merge, Unmerge and the preserved-libraries registry).
FilesKept == [][edits' = edits => UserFilesKept /\ LibrariesKept /\ OthersUntouched]_vars
=============================================================================
