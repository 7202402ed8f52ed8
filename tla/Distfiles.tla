----------------------------- MODULE Distfiles -----------------------------
(***************************************************************************)
(* Which source files a package needs (internal/distfiles): the entries of *)
(* SRC_URI that USE enables, their records in the Manifest, and how many   *)
(* bytes a list of packages still has to download.                         *)
(*                                                                         *)
(* SRC_URI is a sequence of tokens [k, v, neg]: k is "uri" (v its address, *)
(* which is also the file name it ends in), "flag" (v?, !v? with neg),     *)
(* "(", ")", "->" or "||".  A Manifest record is [name, size, digests] and *)
(* a file is [size, digests], digests a function from algorithms to values.*)
(***************************************************************************)
EXTENDS Naturals, Sequences, FiniteSets, SequencesExt, FiniteSetsExt

CONSTANT Supported   \* the digest algorithms Verify computes

Token(k) == [k |-> k, v |-> "", neg |-> FALSE]

Condition(token, use) == (token.v \in use) # token.neg

\* parseSourceTokens from the first token on: the enabled sources, in order, as
\* [uri, name].  An opening parenthesis that no flag precedes is skipped, and
\* every closing one ends the list it is found in.
parseSourceTokens(tokens, use) ==
    LET n == Len(tokens)
        Is(i, k) == i <= n /\ tokens[i].k = k
        f[i \in 1 .. n + 1, enabled \in BOOLEAN] ==
            IF i > n THEN [list |-> <<>>, next |-> i]
            ELSE IF Is(i, ")") THEN [list |-> <<>>, next |-> i + 1]
            ELSE IF Is(i, "flag") /\ Is(i + 1, "(")
            THEN LET child == f[i + 2, enabled /\ Condition(tokens[i], use)]
                     rest  == f[child.next, enabled]
                 IN  [list |-> child.list \o rest.list, next |-> rest.next]
            ELSE IF enabled /\ tokens[i].k \in {"uri", "flag"}
            THEN LET renamed == i + 2 <= n /\ Is(i + 1, "->")
                     name    == IF renamed THEN tokens[i + 2].v ELSE tokens[i].v
                     rest    == f[IF renamed THEN i + 3 ELSE i + 1, enabled]
                 IN  [list |-> <<[uri |-> tokens[i].v, name |-> name]>> \o rest.list, next |-> rest.next]
            ELSE f[i + 1, enabled]
    IN  f[1, TRUE].list

\* ParseManifest: one record per name; two that differ are an error.
ParseManifest(lines) ==
    LET records == ToSet(lines)
        names   == {r.name : r \in records}
    IN  IF \E r, s \in records : r.name = s.name /\ r # s THEN [ok |-> FALSE, of |-> <<>>]
        ELSE [ok |-> TRUE, of |-> [name \in names |-> CHOOSE r \in records : r.name = name]]

\* Plan: the selected sources joined to their records; sources of one file are
\* fallbacks, in the order in which they are listed.
Plan(manifest, sources) ==
    LET names == FoldLeft(LAMBDA seen, s : IF s.name \in ToSet(seen) THEN seen ELSE Append(seen, s.name),
                          <<>>, sources)
        Of(name) == SelectSeq(sources, LAMBDA s : s.name = name)
    IN  IF ~manifest.ok \/ ~(ToSet(names) \subseteq DOMAIN manifest.of) THEN [ok |-> FALSE, list |-> <<>>]
        ELSE [ok   |-> TRUE,
              list |-> [i \in DOMAIN names |->
                          [record |-> manifest.of[names[i]],
                           uris   |-> [j \in DOMAIN Of(names[i]) |-> Of(names[i])[j].uri]]]]

\* Verify: the size, and every digest of the record that is supported, of which
\* there must be one.
Verify(file, record) ==
    LET checked == DOMAIN record.digests \cap Supported
    IN  /\ file.size = record.size
        /\ checked # {}
        /\ \A a \in checked : file.digests[a] = record.digests[a]

\* DownloadSizer.size: what one more package adds, given the records seen so
\* far, each counted once, and the `files' of DISTDIR by name; a name seen with
\* another identity is an error, and then the package leaves no trace.
Size(seen, records, files) ==
    LET known == {s.name : s \in seen}
        cached(r) == r.name \in DOMAIN files /\ Verify(files[r.name], r)
    IN  IF \E r \in records, s \in seen : r.name = s.name /\ r # s
        THEN [ok |-> FALSE, total |-> 0, seen |-> seen]
        ELSE [ok    |-> TRUE,
              total |-> FoldSet(LAMBDA r, sum : sum + r.size, 0,
                                {r \in records : r.name \notin known /\ ~cached(r)}),
              seen  |-> seen \cup records]

-----------------------------------------------------------------------------
(* What SRC_URI means.  A node is [k, v, neg, to, sub]: a "uri", stored    *)
(* under `to' unless that is "", a "flag" with the nodes it guards, or a   *)
(* plain "group".                                                          *)

RECURSIVE Written(_), Enabled(_, _)

\* The tokens in which a list of nodes is written.
Written(nodes) ==
    FlattenSeq([i \in DOMAIN nodes |->
        LET node == nodes[i]
        IN  CASE node.k = "uri" -> <<[k |-> "uri", v |-> node.v, neg |-> FALSE]>>
                                   \o (IF node.to = "" THEN <<>>
                                       ELSE <<Token("->"), [k |-> "uri", v |-> node.to, neg |-> FALSE]>>)
              [] node.k = "flag" -> <<[k |-> "flag", v |-> node.v, neg |-> node.neg], Token("(")>>
                                    \o Written(node.sub) \o <<Token(")")>>
              [] node.k = "group" -> <<Token("(")>> \o Written(node.sub) \o <<Token(")")>>])

\* The sources that a list of nodes enables.
Enabled(nodes, use) ==
    FlattenSeq([i \in DOMAIN nodes |->
        LET node == nodes[i]
        IN  CASE node.k = "uri" -> <<[uri |-> node.v, name |-> IF node.to = "" THEN node.v ELSE node.to]>>
              [] node.k = "flag" -> IF (node.v \in use) # node.neg THEN Enabled(node.sub, use) ELSE <<>>
              [] node.k = "group" -> Enabled(node.sub, use)])

=============================================================================
