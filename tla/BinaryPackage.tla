--------------------------- MODULE BinaryPackage ---------------------------
(***************************************************************************)
(* Binary packages (internal/binpkg): the GPKG container and its Manifest, *)
(* the archive of an image and its extraction, which installed paths a     *)
(* capture holds, the Packages index, and the choice of a compatible       *)
(* archive.                                                                *)
(*                                                                         *)
(* Bytes are numbers, equal digests are equal numbers.  A path is a        *)
(* sequence of names below the root.                                       *)
(***************************************************************************)
EXTENDS Integers, Sequences, FiniteSets, SequencesExt, FiniteSetsExt

NoBytes == 0
Refused == [ok |-> FALSE, metadata |-> NoBytes, image |-> NoBytes, signed |-> FALSE]

-----------------------------------------------------------------------------
(* The container: a sequence of members [prefix, base, kind, data]; kind   *)
(* is the inner name without its codec.  The Manifest's data is            *)
(* [records, signed]: the records are a sequence of <<base, bytes>>.       *)

Member(base, kind, data) ==
  [prefix |-> "pf", base |-> base, kind |-> kind, data |-> data, manifest |-> <<>>, signed |-> "no"]

\* createGPKGFromImageArchive; signed is "no" or the verdict on the signature
createGPKG(metadata, image, signed) ==
  LET members == << Member("gpkg-1", "version", 3),
                    Member("metadata.tar.zst", "metadata", metadata),
                    Member("image.tar.zst", "image", image) >>
      records == [i \in 1..3 |-> <<members[i].base, members[i].data>>]
  IN  Append(members, [Member("Manifest", "manifest", 4) EXCEPT !.manifest = records, !.signed = signed])

\* verifyGPKGManifest: policy is [require, verifier]; a signature is checked
\* when there is a verifier, and only then
verifyGPKGManifest(manifest, policy) ==
  IF manifest.signed = "no" THEN ~policy.require
  ELSE IF policy.verifier THEN manifest.signed = "good" ELSE ~policy.require

\* parseGPKGManifest: no record twice
parseGPKGManifest(records) == \A i, j \in DOMAIN records : records[i][1] = records[j][1] => i = j

\* the capture callback of readVerifiedGPKG: one member of each kind
Captured(container, kind) == SelectSeq(container, LAMBDA m : m.kind = kind)

\* one prefix, no member twice, a version and a Manifest, and the members and
\* the records of the Manifest are the same
inspectGPKG(container, policy) ==
  LET manifests == SelectSeq(container, LAMBDA m : m.base = "Manifest")
      members == SelectSeq(container, LAMBDA m : m.base # "Manifest")
      manifest == Last(manifests)
  IN  /\ \A i, j \in DOMAIN container : container[i].prefix = container[j].prefix
      /\ \A i, j \in DOMAIN container : container[i].base = container[j].base => i = j
      /\ manifests # <<>> /\ \E i \in DOMAIN members : members[i].base = "gpkg-1"
      /\ verifyGPKGManifest(manifest, policy)
      /\ parseGPKGManifest(manifest.manifest)
      /\ {<<members[i].base, members[i].data>> : i \in DOMAIN members} = ToSet(manifest.manifest)

readVerifiedGPKG(container, policy) ==
  LET metadata == Captured(container, "metadata")
      image == Captured(container, "image")
  IN  IF inspectGPKG(container, policy) /\ Len(metadata) = 1 /\ Len(image) = 1
      THEN [ok |-> TRUE, metadata |-> metadata[1].data, image |-> image[1].data,
            signed |-> \E i \in DOMAIN container : container[i].base = "Manifest" /\ container[i].signed # "no"]
      ELSE Refused

-----------------------------------------------------------------------------
(* The image: a tree is a function from paths to nodes                     *)
(* [type, inode, data]: the target of a symlink or the bytes and mode of a *)
(* file are its data.  A header of the archive is [type, path, data, link].*)

Parents(path) == {SubSeq(path, 1, n) : n \in 1..(Len(path) - 1)}
Header(type, path, data, link) == [type |-> type, path |-> path, data |-> data, link |-> link]

\* the walk of buildGPKGImageArchive: the first path of an inode carries the
\* bytes, the later ones are links to it
imageHeader(tree, done, path) ==
  LET node == tree[path]
      earlier == SelectSeq(done, LAMBDA p : tree[p].type = "file" /\ tree[p].inode = node.inode)
  IN  IF node.type = "file" /\ earlier # <<>>
      THEN Header("link", path, 0, earlier[1])
      ELSE Header(node.type, path, node.data, <<>>)

buildGPKGImageArchive(tree, walk) ==
  [i \in DOMAIN walk |-> imageHeader(tree, SubSeq(walk, 1, i - 1), walk[i])]

\* buildInstalledGPKGImageArchive: the entries are those of CONTENTS, [type,
\* path]; a path whose parent is a symlink or whose type changed is refused
installedImageOk(tree, entries) ==
  \A e \in ToSet(entries) :
    /\ e.path \in DOMAIN tree /\ tree[e.path].type = e.type
    /\ \A p \in Parents(e.path) : p \in DOMAIN tree => tree[p].type = "dir"

buildInstalledGPKGImageArchive(tree, entries) ==
  IF ~installedImageOk(tree, entries) THEN <<>>
  ELSE buildGPKGImageArchive(tree, [i \in DOMAIN entries |-> entries[i].path])

\* rejectSymlinkParents, and what MkdirAll makes of the missing ones
ParentsAreDirectories(out, path) == \A p \in Parents(path) : p \in DOMAIN out => out[p].type = "dir"

\* a new name in a directory changes the directory's times
WithParents(out, path) ==
  LET parent == Front(path)
      made == [p \in Parents(path) \ DOMAIN out |-> [type |-> "dir", inode |-> 0, data |-> 0]] @@ out
  IN  IF path \in DOMAIN out \/ parent = <<>> THEN made ELSE [made EXCEPT ![parent].data = 0]

\* one entry of untar; the inode of a file is the number of the entry that
\* created it
untarEntry(state, hdr) ==
  LET out == state.out
      count == state.count + 1
      ok == /\ state.ok /\ hdr.path \notin state.seen /\ ParentsAreDirectories(out, hdr.path)
            /\ CASE hdr.type = "dir" -> hdr.path \in DOMAIN out => out[hdr.path].type = "dir"
                 [] hdr.type = "file" -> hdr.path \in DOMAIN out => out[hdr.path].type = "file"
                 [] hdr.type = "link" -> hdr.link \in state.seen /\ hdr.path \notin DOMAIN out
                 [] OTHER -> hdr.path \notin DOMAIN out
      node == IF hdr.type = "link" THEN out[hdr.link]
              ELSE [type |-> hdr.type, inode |-> count, data |-> hdr.data]
  IN  IF ok THEN [ok |-> TRUE, count |-> count, seen |-> state.seen \cup {hdr.path},
                  out |-> (hdr.path :> node) @@ WithParents(out, hdr.path)]
      ELSE [state EXCEPT !.ok = FALSE]

\* the pass over the directories at the end of untar
applyDirectories(out, headers) ==
  FoldRight(LAMBDA hdr, tree : IF hdr.type = "dir" THEN [tree EXCEPT ![hdr.path].data = hdr.data] ELSE tree,
            headers, out)

untar(headers) ==
  LET end == FoldLeft(untarEntry, [ok |-> TRUE, count |-> 0, seen |-> {}, out |-> <<>>], headers)
  IN  [ok |-> end.ok, out |-> IF end.ok THEN applyDirectories(end.out, headers) ELSE end.out]

\* two trees hold the same nodes, hard links included
SameTree(a, b) ==
  /\ DOMAIN a = DOMAIN b
  /\ \A p \in DOMAIN a : a[p].type = b[p].type /\ a[p].data = b[p].data
  /\ \A p, q \in DOMAIN a : a[p].type = "file" /\ a[q].type = "file" =>
       ((a[p].inode = a[q].inode) <=> (b[p].inode = b[q].inode))

-----------------------------------------------------------------------------
(* installedCaptureEntries: an entry is [type, path, update]: update is    *)
(* the path without the ._cfgNNNN_ of its name, or the path itself.        *)

\* Mutant: a consumed update is dropped with the configuration it became
captureEntry_pending(state, entry) ==
  IF entry.type # "obj" \/ entry.update = entry.path THEN [state EXCEPT !.result = Append(@, entry)]
  ELSE IF entry.path \in state.present THEN [state EXCEPT !.result = Append(@, entry)] ELSE state

captureEntry(state, entry) ==
  IF entry.type # "obj" \/ entry.update = entry.path THEN [state EXCEPT !.result = Append(@, entry)]
  ELSE LET pending == entry.path \in state.present
           kept == IF pending THEN Append(state.result, entry) ELSE state.result
       IN  IF entry.update \notin state.present
           THEN [state EXCEPT !.ok = @ /\ pending, !.result = kept]
           ELSE IF entry.update \in state.recorded \cup state.added
                THEN [state EXCEPT !.result = kept]
                ELSE [state EXCEPT !.added = @ \cup {entry.update},
                        !.result = Append(kept, [entry EXCEPT !.path = entry.update])]

installedCaptureEntries(entries, present) ==
  LET recorded == {e.path : e \in ToSet(entries)}
  IN  IF Cardinality(recorded) # Len(entries) THEN [ok |-> FALSE, result |-> <<>>]
      ELSE LET end == FoldLeft(captureEntry,
                        [ok |-> TRUE, result |-> <<>>, recorded |-> recorded,
                         added |-> {}, present |-> present], entries)
           IN  [ok |-> end.ok, result |-> end.result]

-----------------------------------------------------------------------------
(* The Packages index: a header and a sequence of entries                  *)
(* [cpv, id, path, chost].  Empty is a field without value; cpv, id and    *)
(* path are ranked, as Encode sorts them.                                  *)

Empty == 0

entryBefore(a, b) ==
  \/ a.cpv < b.cpv
  \/ a.cpv = b.cpv /\ a.id < b.id
  \/ a.cpv = b.cpv /\ a.id = b.id /\ a.path < b.path

\* a field the entry lacks is taken from the header
inherit(header, entry) == [entry EXCEPT !.chost = IF @ = Empty THEN header.chost ELSE @]

\* records is [header, count, entries] as written
ParsePackagesIndex(text) ==
  LET entries == text.entries
      ok == /\ \A i \in DOMAIN entries : entries[i].cpv # Empty /\ entries[i].path # Empty
            /\ \A i, j \in DOMAIN entries :
                 (\A f \in {"cpv", "id", "path"} : entries[i][f] = entries[j][f]) => i = j
            /\ text.count = Len(entries)
  IN  [ok |-> ok, header |-> text.header,
       entries |-> [i \in DOMAIN entries |-> inherit(text.header, entries[i])]]

Encode(header, entries) ==
  LET text == [header |-> header, count |-> Len(entries), entries |-> SortSeq(entries, entryBefore)]
  IN  [ok |-> ParsePackagesIndex(text).ok, text |-> text]

-----------------------------------------------------------------------------
(* The choice of an archive: a package is [version, id, time, use, chost]; *)
(* use is the set of enabled flags, chost may be Empty.  policy is         *)
(* [lower, iuse, use, respect, chost]: versions from lower on match.       *)

\* the comparison of FindCompatibleCandidate's sort
laterBuild(a, b) ==
  \/ a.version > b.version
  \/ a.version = b.version /\ (a.id > b.id \/ (a.id = b.id /\ a.time > b.time))

\* useFlagsCompatibleInDomain over the flags IUSE declares; without IUSE,
\* useFlagsCompatible over the flags both name (parseUseFlags names the
\* enabled ones)
useOk(pkg, policy) ==
  IF policy.iuse # {} THEN pkg.use \cap policy.iuse = policy.use \cap policy.iuse
  ELSE \A f \in pkg.use : f \in policy.named => f \in policy.use

matchesPolicy(pkg, policy) ==
  /\ pkg.version >= policy.lower
  /\ pkg.chost = Empty \/ policy.chost = Empty \/ pkg.chost = policy.chost

\* None is <<>>, a package p is <<p>>
FindCompatibleCandidate(pkgs, policy) ==
  LET sorted == SortSeq(SelectSeq(pkgs, LAMBDA p : matchesPolicy(p, policy)), laterBuild)
      fit == IF policy.respect THEN SelectSeq(sorted, LAMBDA p : useOk(p, policy)) ELSE sorted
  IN  IF fit = <<>> THEN <<>> ELSE <<fit[1]>>
=============================================================================
