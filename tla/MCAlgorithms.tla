---------------------------- MODULE MCAlgorithms ----------------------------
(***************************************************************************)
(* The program's pure algorithms, each on all of its cases: a case is      *)
(* given, and one step solves it.  The properties compare the answer with  *)
(* what it is meant to be.  They stand with the cases: plans and policy in *)
(* MCPlans, and artifacts here: binary packages and their index, shared    *)
(* libraries and those who load them, and source files.                    *)
(***************************************************************************)
EXTENDS MCPlans

Bin == INSTANCE BinaryPackage
Link == INSTANCE Linkage WITH Default <- {"lib"}, NoSoname <- ""
Dist == INSTANCE Distfiles WITH Supported <- {"sha"}

-----------------------------------------------------------------------------
(* Containers: what createGPKG writes, and the same with a member lost,    *)
(* repeated, added, changed or moved, and with a changed Manifest.         *)

Made == [metadata : {1, 2}, image : {5}, signed : {"no", "good", "bad"},
         policy : [require : BOOLEAN, verifier : BOOLEAN]]
Whole(k) == Bin!createGPKG(k.metadata, k.image, k.signed)
Damaged(c) == {c} \cup {RemoveAt(c, i) : i \in DOMAIN c} \cup {Append(c, c[i]) : i \in DOMAIN c}
         \cup {Append(c, Bin!Member("metadata.tar.gz", "metadata", 9))}
         \cup {[c EXCEPT ![i].data = 8] : i \in 1..3}
         \cup {[c EXCEPT ![i].prefix = "other"] : i \in DOMAIN c}
         \cup {[c EXCEPT ![4].manifest = RemoveAt(@, i)] : i \in 1..3}
         \cup {[c EXCEPT ![4].signed = "bad"]}

\* readVerifiedGPKG returns the metadata and the image that were packed or
\* nothing, only what carries a good signature if one is required, and never
\* refuses an undamaged container whose signature is in order.
ReadAsPacked ==
    Solved("container") =>
        /\ answer.ok => answer.metadata = given.made.metadata /\ answer.image = given.made.image
        /\ answer.ok /\ given.made.policy.require => given.made.policy.verifier /\ given.made.signed = "good"
        /\ given.container = Whole(given.made)
             /\ Bin!verifyGPKGManifest(Last(given.container), given.made.policy) => answer.ok

(* Trees of directories, files that may share an inode, and links.         *)
Paths == << <<"a">>, <<"a", "x">>, <<"a", "y">>, <<"b">>, <<"b", "x">> >>
Nodes == {[type |-> "dir", inode |-> 1, data |-> d] : d \in {1, 2}}
         \cup {[type |-> "file", inode |-> i, data |-> i] : i \in {1, 2}}
         \cup {[type |-> "sym", inode |-> 1, data |-> 7]}
Images == {t \in UNION {[S -> Nodes] : S \in SUBSET ToSet(Paths)} :
             \A p \in DOMAIN t : \A q \in Bin!Parents(p) : q \in DOMAIN t /\ t[q].type = "dir"}
WalkOf(t) == SelectSeq(Paths, LAMBDA p : p \in DOMAIN t)
ContentsOf(t, backwards) ==
    LET walk == IF backwards THEN Reverse(WalkOf(t)) ELSE WalkOf(t)
    IN  [i \in DOMAIN walk |-> [type |-> t[walk[i]].type, path |-> walk[i]]]

\* An image that is packed and unpacked again is the same tree, modes of
\* directories and hard links included; also when the archive of an installed
\* package lists its files before their directories.
UnpackedAsPacked ==
    Solved("image") => answer.ok /\ Bin!SameTree(given.tree, answer.out)

(* CONTENTS with a protected file, its pending updates and another file.   *)
Recorded == [type : {"obj", "dir"}, path : {"f"}, update : {"f"}]
       \cup [type : {"obj"}, path : {"u1", "u2"}, update : {"f"}]
       \cup [type : {"obj"}, path : {"g"}, update : {"g"}]

\* installedCaptureEntries: a capture that is not refused holds no path twice,
\* every recorded path, a pending update exactly when it still exists, and with
\* it the file it is for.
CaptureIsComplete ==
    Solved("capture") =>
        LET paths == {e.path : e \in ToSet(answer.result)}
        IN  answer.ok =>
              /\ Cardinality(paths) = Len(answer.result)
              /\ \A e \in ToSet(given.entries) :
                    IF e.type = "obj" /\ e.update # e.path
                    THEN /\ e.path \in given.present <=> e.path \in paths
                         /\ e.update \in given.present => e.update \in paths
                    ELSE e.path \in paths

\* The Packages index: decoding what Encode wrote gives the entries back, with
\* the header's CHOST where they have none, and a second round changes nothing.
IndexRoundTrip ==
    Solved("index") /\ answer.ok =>
        LET once == Bin!ParsePackagesIndex(answer.text)
            again == Bin!Encode(once.header, once.entries)
            plain(es) == {[e EXCEPT !.chost = 0] : e \in ToSet(es)}
        IN  /\ plain(once.entries) = plain(given.entries)
            /\ \A e \in ToSet(given.entries) : e.chost # 0 => e \in ToSet(once.entries)
            /\ again.ok /\ Bin!ParsePackagesIndex(again.text) = once

\* FindCompatibleCandidate finds a package exactly when one fits the policy, and
\* then the latest build of the highest version among those that fit.
BestBuildChosen ==
    Solved("choice") =>
        LET fit == {p \in ToSet(given.pkgs) : Bin!matchesPolicy(p, given.policy)
                                              /\ (given.policy.respect => Bin!useOk(p, given.policy))}
        IN  /\ answer = <<>> <=> fit = {}
            /\ answer # <<>> =>
                  /\ answer[1] \in fit
                  /\ \A p \in fit : \/ p.version < answer[1].version
                                    \/ p.version = answer[1].version /\ p.id <= answer[1].id

-----------------------------------------------------------------------------
(* Two libraries and a program.  A library lies in a default directory, a  *)
(* private one or one ld.so.conf names, may need the other library and may *)
(* carry a RUNPATH; the files of a package may be gone.                    *)

Row(dir, name, soname, runpath, needed) ==
    [at |-> <<dir, name>>, class |-> 64, soname |-> soname, runpath |-> runpath, needed |-> needed]
Libs(n, m) == {Row(d, n, n, rp, nd) : d \in {"lib", "priv", "conf"}, rp \in {{}, {"priv"}}, nd \in {{}, {m}}}
Programs == {Row("bin", "p", "", rp, nd) : rp \in {{}, {"priv"}}, nd \in {{"l1"}, {"l1", "l2"}}}
Owners == 1..3
Kept(owner) == [at |-> <<"lib", "l1">>, owner |-> owner, soname |-> "l1"]
Linked == \E a \in {{}} \cup {{x} : x \in Libs("l1", "l2")}, b \in Libs("l2", "l1"), c \in Programs,
             meta \in {Owners, {2, 3}}, conf \in {{}, {"conf"}}, gone \in {{}, {1}},
             kept \in {{Kept(1)}, {Kept(3)}} :
            LET rows == (1 :> a) @@ (2 :> {b}) @@ (3 :> {c})
            IN  given = [rows |-> rows, meta |-> meta, conf |-> conf, kept |-> kept,
                         files |-> {r.at : r \in UNION {rows[p] : p \in Owners \ gone}}]
System == [x \in DOMAIN given \ {"kept"} |-> given[x]]

\* ReverseELFRemovalClosure ends in the package asked for, and its order is one
\* that validateELFRemovalOrder accepts.
ClosureAccepted ==
    Solved("linkage") =>
        \A p \in Owners : answer[p].ok => /\ Link!validateELFRemovalOrder(System, answer[p].order)
                                          /\ Last(answer[p].order) = p

\* unavailablePreservedRepairs, of a package without an ebuild: the removal it
\* proposes takes no package that is selected or can be replaced, and is one that
\* validateELFRemovalOrder accepts.
RetirementAccepted ==
    Solved("linkage") =>
        \A p \in Owners : Link!ReverseELFConsumers(System, p).ok =>
            \A kept \in SUBSET (Owners \ {p}) :
                LET repair == Link!unavailablePreservedRepair(System, p, kept \cap {1, 2}, kept \cap {3})
                IN  repair.order # <<>> => /\ Link!validateELFRemovalOrder(System, repair.order)
                                           /\ ToSet(repair.order) \cap kept = {}

Removals == UNION {[1..n -> Owners] : n \in 1..3}

\* After every step of a removal order that is accepted, what remains installed
\* still loads the libraries it loaded before; provided that all packages have
\* linkage records, and that no object with a RUNPATH relies on ld.so.conf.
RemovalsKeepLoading ==
    Solved("linkage") /\ given.meta = Owners
        /\ (given.conf = {} \/ \A p \in Owners : \A r \in given.rows[p] : r.runpath = {}) =>
        \A order \in Removals : Link!validateELFRemovalOrder(System, order) =>
            \A i \in DOMAIN order :
                LET gone == {order[j] : j \in 1..i}
                IN  Link!KeepsLoading(System, Link!Uninstalled(System, gone), Owners \ gone)

\* Once the preserved libraries are gone, a package that RebuildNeeded does not
\* name still loads every library it loaded before.
UnnamedNeedNoPreserved ==
    Solved("linkage") =>
        LET left == [System EXCEPT !.files = @ \ {l.at : l \in given.kept}]
        IN  \A p \in Owners \ Link!RebuildNeeded(System, given.kept) : \A r \in given.rows[p] :
                r.at \in left.files => \A n \in r.needed : Link!Loads(System, r, n) => Link!Loads(left, r, n)

\* The libraries that a package needs are somewhere on disk unless RevdepRebuild
\* names the package.
RevdepFindsMissing ==
    Solved("linkage") /\ given.meta = Owners =>
        \A p \in Owners \ Link!RevdepRebuild(System) : \A r \in given.rows[p] :
            r.at \in given.files => \A n \in r.needed : \E f \in given.files : f[2] = n

\* What is removed or no longer preserved is loaded by nothing that stays, and
\* what is broken is named (validateELFRemovalOrder, ReverseELFRemovalClosure,
\* unavailablePreservedRepairs, RebuildNeeded, RevdepRebuild).
LibrariesAreFound ==
    ClosureAccepted /\ RetirementAccepted /\ RemovalsKeepLoading /\ UnnamedNeedNoPreserved /\ RevdepFindsMissing

-----------------------------------------------------------------------------
(* SRC_URI: files, renamed files and two levels of conditions.             *)

Uri(v, to) == [k |-> "uri", v |-> v, neg |-> FALSE, to |-> to, sub |-> <<>>]
If(flag, neg, sub) == [k |-> "flag", v |-> flag, neg |-> neg, to |-> "", sub |-> sub]
Uris == {Uri("u", ""), Uri("v", "u"), Uri("w", "")}
Conditions(S) == {If(f, n, s) : f \in {"f", "g"}, n \in BOOLEAN, s \in S}
Lists(S) == {<<x>> : x \in S} \cup {<<x, y>> : x, y \in S}
Inner == Lists(Uris) \cup {<<c, u>> : c \in Conditions({<<x>> : x \in Uris}), u \in Uris}
SourceLists == {<<c, u>> : c \in Conditions(Inner), u \in Uris} \cup {<<u, c>> : c \in Conditions(Inner), u \in Uris}

Record(name, size) == [name |-> name, size |-> size, digests |-> [a \in {"sha"} |-> name]]
Manifest == <<Record("u", 1), Record("w", 2), Record("x", 4)>>

\* The sources parseSourceTokens selects are those that USE enables, in the order
\* of SRC_URI, and Plan gives every file of them one entry: its Manifest record
\* and all its addresses, in that order.
SourcesAsWritten ==
    Solved("sources") =>
        LET enabled == Dist!Enabled(given.nodes, given.use)
            Of(name) == SelectSeq(enabled, LAMBDA s : s.name = name)
        IN  /\ answer = enabled
            /\ LET plan == Dist!Plan(Dist!ParseManifest(Manifest), answer).list
               IN  /\ {plan[i].record.name : i \in DOMAIN plan} = {s.name : s \in ToSet(enabled)}
                   /\ \A i, j \in DOMAIN plan : plan[i].record.name = plan[j].record.name => i = j
                   /\ \A i \in DOMAIN plan : LET of == Of(plan[i].record.name)
                                             IN  plan[i].uris = [j \in DOMAIN of |-> of[j].uri]

Entries == {Record("u", 1), Record("u", 3), Record("w", 2)}
Bundles == {S \in SUBSET (Entries \cup {Record("x", 4)}) : \A r, s \in S : r.name = s.name => r = s}
OnDisk == {[size |-> s, digests |-> [a \in {"sha"} |-> d]] : s \in {1, 3}, d \in {"u", "torn"}}
DistDirs == {<<>>} \cup {("u" :> file) : file \in OnDisk}
        \cup {("u" :> file) @@ ("w" :> [size |-> 2, digests |-> [a \in {"sha"} |-> "w"]]) : file \in OnDisk}

RECURSIVE Sizes(_, _, _)
\* What DownloadSizer says of the packages one after the other.
Sizes(seen, packages, files) ==
    IF packages = <<>> THEN <<>>
    ELSE LET one == Dist!Size(seen, Head(packages), files)
         IN  <<one>> \o Sizes(one.seen, Tail(packages), files)

\* Whatever order its lines are in, a Manifest means the same.
ManifestOrderIrrelevant ==
    Solved("sizes") => LET lines == SetToSeq(UNION ToSet(given.packages))
                       IN  Dist!ParseManifest(lines) = Dist!ParseManifest(Reverse(lines))

\* The downloads of several packages add up to the size of the distinct files
\* that DISTDIR does not hold whole, however the packages share them.
SharedFilesCountOnce ==
    Solved("sizes") /\ (\A i \in DOMAIN answer : answer[i].ok) =>
        MapThenSumSet(LAMBDA i : answer[i].total, DOMAIN answer) =
            MapThenSumSet(LAMBDA r : r.size, {r \in UNION ToSet(given.packages) :
                                                  ~(r.name \in DOMAIN given.files
                                                    /\ given.files[r.name] = [size |-> r.size, digests |-> r.digests])})

\* Packages come out as they went in, and sources and sizes are those of the
\* files that USE enables (readVerifiedGPKG, untar, installedCaptureEntries,
\* ParsePackagesIndex, FindCompatibleCandidate, parseSourceTokens, Plan, Size).
ArtifactsAreFaithful ==
    /\ ReadAsPacked /\ UnpackedAsPacked /\ CaptureIsComplete /\ IndexRoundTrip /\ BestBuildChosen
    /\ SourcesAsWritten /\ ManifestOrderIrrelevant /\ SharedFilesCountOnce

-----------------------------------------------------------------------------
ArtifactTopics == {"container", "image", "capture", "index", "choice", "linkage", "sources", "sizes"}

ArtifactCase ==
    \/ topic = "container" /\ \E k \in Made : \E c \in Damaged(Whole(k)) : given = [made |-> k, container |-> c]
    \/ topic = "image" /\ \E t \in Images, order \in {"walk", "contents", "backwards"} :
                             given = [tree |-> t, order |-> order]
    \/ topic = "capture" /\ \E n \in 0..3 : given \in [entries : [1..n -> Recorded], present : SUBSET {"f", "u1", "u2", "g"}]
    \/ topic = "index" /\ \E n \in 0..2 :
            given \in [header : [chost : {0, 1}],
                       entries : [1..n -> [cpv : {1, 2}, id : {0, 1}, path : {1, 2}, chost : {0, 1, 2}]]]
    \/ topic = "choice" /\ \E p, q \in [version : {1, 2}, id : {1, 2}, time : {1}, use : SUBSET {"f"}, chost : {0, 1}] :
            given \in [pkgs : {<<p, q>>},
                       policy : [lower : {1, 2}, iuse : {{"f"}}, named : {{}, {"f"}}, use : SUBSET {"f"},
                                 respect : BOOLEAN, chost : {1}]]
    \/ topic = "linkage" /\ Linked
    \/ topic = "sources" /\ given \in [nodes : SourceLists, use : SUBSET {"f", "g"}]
    \/ topic = "sizes" /\ given \in [packages : Bundles \X Bundles, files : DistDirs]

ArtifactAnswer ==
    CASE topic = "container" -> Bin!readVerifiedGPKG(given.container, given.made.policy)
      [] topic = "image" ->
            Bin!untar(IF given.order = "walk" THEN Bin!buildGPKGImageArchive(given.tree, WalkOf(given.tree))
                      ELSE Bin!buildInstalledGPKGImageArchive(given.tree,
                                                             ContentsOf(given.tree, given.order = "backwards")))
      [] topic = "capture" -> Bin!installedCaptureEntries(given.entries, given.present)
      [] topic = "index" -> Bin!Encode(given.header, given.entries)
      [] topic = "choice" -> Bin!FindCompatibleCandidate(given.pkgs, given.policy)
      [] topic = "linkage" -> [p \in Owners |-> Link!ReverseELFRemovalClosure(System, p)]
      [] topic = "sources" -> Dist!parseSourceTokens(Dist!Written(given.nodes), given.use)
      [] topic = "sizes" -> Sizes({}, given.packages, given.files)

-----------------------------------------------------------------------------
(* All cases.                                                              *)

problem == <<topic, given, solved, answer>>

Init == /\ solved = FALSE
        /\ answer = <<>>
        /\ PlanCase \/ PolicyCase \/ ArtifactCase

Solve == /\ ~solved
         /\ solved' = TRUE
         /\ answer' = (CASE topic \in PlanTopics -> PlanAnswer
                         [] topic \in PolicyTopics -> PolicyAnswer
                         [] topic \in ArtifactTopics -> ArtifactAnswer)
         /\ UNCHANGED <<topic, given>>

Spec == Init /\ [][Solve]_problem
=============================================================================
