------------------------------ MODULE DepExpr ------------------------------
(***************************************************************************)
(* Dependency, REQUIRED_USE and LICENSE expressions: the parser and the     *)
(* renderer of internal/depstring, the flat annotation of atoms the         *)
(* resolver builds its edges from, and the evaluators of                    *)
(* internal/resolve that walk the same trees.                               *)
(*                                                                          *)
(* A token is a record [t, v]: t is its shape and v the name it carries.    *)
(* Tokens are what readToken cuts out of the text; white space is gone.     *)
(* A tree node is [kind, name, neg, kids]; an atom is only a name here, and *)
(* the package it names is installed or it is not.                          *)
(***************************************************************************)
EXTENDS Integers, Sequences, FiniteSets, SequencesExt, FiniteSetsExt

CONSTANTS EULA,     \* the licences whose name contains EULA
          Rank      \* the names' places in the order of strings

Tok(t, v) == [t |-> t, v |-> v]
Node(kind, name, neg, kids) ==
    [kind |-> kind, name |-> name, neg |-> neg, kids |-> kids]
Leaf(kind, name) == Node(kind, name, FALSE, <<>>)
Group(kind, kids) == Node(kind, "", FALSE, kids)
Cond(flag, neg, kids) == Node("use", flag, neg, kids)

Openers == {"any", "xor", "most"}
Leaves == {"atom", "block", "weak"}

----------------------------------------------------------------------------
(* Rendering and parsing.                                                   *)

RECURSIVE String(_)
joinNodes(nodes) == FlattenSeq([i \in DOMAIN nodes |-> String(nodes[i])])
String(node) ==
    LET body == joinNodes(node.kids)
        paren == <<Tok("open", "")>> \o body \o <<Tok("close", "")>>
    IN  CASE node.kind \in Leaves -> <<Tok(node.kind, node.name)>>
          [] node.kind = "top" -> body
          [] node.kind = "all" -> paren
          [] node.kind \in Openers -> <<Tok(node.kind, "")>> \o paren
          [] node.kind = "use" ->
                <<Tok(IF node.neg THEN "notuse" ELSE "use", node.name)>> \o paren

RECURSIVE Atoms(_)
collectAtoms(nodes) == FlattenSeq([i \in DOMAIN nodes |-> Atoms(nodes[i])])
Atoms(node) == IF node.kind \in Leaves THEN <<node.name>> ELSE collectAtoms(node.kids)

\* A parse is [ok, node or nodes, rest]: what was built and what is unread.
Failed == [ok |-> FALSE, nodes |-> <<>>, rest |-> <<>>]
Parsed(nodes, rest) == [ok |-> TRUE, nodes |-> nodes, rest |-> rest]
Opened(toks) == toks # <<>> /\ Head(toks).t = "open"

RECURSIVE parseNode(_), parseChildren(_, _)
\* One kind of bracketed group: it must open at once.
parseGroup(kind, name, neg, toks) ==
    IF ~Opened(toks) THEN Failed
    ELSE LET c == parseChildren(Tail(toks), <<>>)
         IN  IF c.ok THEN Parsed(<<Node(kind, name, neg, c.nodes)>>, c.rest) ELSE Failed
parseNode(toks) ==
    IF toks = <<>> THEN Failed
    ELSE LET tok == Head(toks)
             rest == Tail(toks)
         IN  CASE tok.t \in Openers -> parseGroup(tok.t, "", FALSE, rest)
               [] tok.t = "open" -> parseGroup("all", "", FALSE, toks)
               [] tok.t = "close" -> Failed
               [] tok.t \in {"use", "notuse"} ->
                     IF tok.v = "" THEN Failed
                     ELSE parseGroup("use", tok.v, tok.t = "notuse", rest)
               [] tok.t \in Leaves ->
                     IF tok.v = "" THEN Failed ELSE Parsed(<<Leaf(tok.t, tok.v)>>, rest)
parseChildren(toks, done) ==
    CASE toks = <<>> -> Failed
      [] Head(toks).t = "close" -> Parsed(done, Tail(toks))
      [] OTHER -> LET n == parseNode(toks)
                  IN  IF n.ok THEN parseChildren(n.rest, done \o n.nodes) ELSE Failed

RECURSIVE parseTop(_, _)
parseTop(toks, done) ==
    IF toks = <<>> THEN Parsed(<<Group("top", done)>>, <<>>)
    ELSE LET n == parseNode(toks)
         IN  IF n.ok THEN parseTop(n.rest, done \o n.nodes) ELSE Failed
\* Parse: an empty input has no tree.
Parse(toks) == IF toks = <<>> THEN Parsed(<<>>, <<>>) ELSE parseTop(toks, <<>>)

\* ValidatePackageDependencies: what a package dependency may not contain.
RECURSIVE ValidatePackageDependencies(_)
ValidatePackageDependencies(node) ==
    CASE node.kind \in Leaves -> TRUE
      [] node.kind \in {"xor", "most"} -> FALSE
      [] OTHER -> /\ node.kind # "top" => node.kids # <<>>
                  /\ \A i \in DOMAIN node.kids : ValidatePackageDependencies(node.kids[i])

----------------------------------------------------------------------------
(* The flat annotation.  The walk carries the number of the next any-of     *)
(* group and, per group, the number of its next option; a nested any-of     *)
(* keeps the group it is in and draws new options from it.                  *)

At(cond, group, option, outer) ==
    [cond |-> cond, group |-> group, option |-> option, outer |-> outer]
Walk(metas, id, options) == [metas |-> metas, id |-> id, options |-> options]

RECURSIVE visitMeta(_, _, _), visitAll(_, _, _), visitOptions(_, _, _)
visitAll(nodes, at, w) ==
    IF nodes = <<>> THEN w ELSE visitAll(Tail(nodes), at, visitMeta(Head(nodes), at, w))
\* Mutant: the members of a group share one option.
visitOptions_shared(nodes, at, w) ==
    IF nodes = <<>> THEN w
    ELSE visitOptions(Tail(nodes), at, visitMeta(Head(nodes), [at EXCEPT !.option = 1], w))
visitOptions(nodes, at, w) ==
    IF nodes = <<>> THEN w
    ELSE LET opt == w.options[at.group] + 1
             w1 == [w EXCEPT !.options[at.group] = opt]
         IN  visitOptions(Tail(nodes), at,
                          visitMeta(Head(nodes), [at EXCEPT !.option = opt], w1))
visitMeta(node, at, w) ==
    CASE node.kind \in Leaves ->
            [w EXCEPT !.metas = Append(@, [kind |-> node.kind, atom |-> node.name, at |-> at])]
      [] node.kind = "any" ->
            LET fresh == at.group = 0
                id == IF fresh THEN w.id + 1 ELSE w.id
                inner == IF fresh THEN [at EXCEPT !.group = id, !.outer = at.cond] ELSE at
                w1 == IF fresh THEN Walk(w.metas, id, Append(w.options, 0)) ELSE w
            IN  visitOptions(node.kids, inner, w1)
      [] node.kind = "use" ->
            visitAll(node.kids,
                     [at EXCEPT !.cond = Append(@, [flag |-> node.name, neg |-> node.neg])], w)
      [] OTHER -> visitAll(node.kids, at, w)
CollectMeta(node) == visitMeta(node, At(<<>>, 0, 0, <<>>), Walk(<<>>, 0, <<>>)).metas

\* conditionsEnabled: the conjunction of the conditions around an atom.
Enabled(use, c) == (c.flag \in use) # c.neg
conditionsEnabled(use, conds) == \A i \in DOMAIN conds : Enabled(use, conds[i])
\* The part of an atom's condition that lies inside its any-of group.
optionCondition(m) == SubSeq(m.at.cond, Len(m.at.outer) + 1, Len(m.at.cond))

\* What the edges built from the annotation ask for: every atom outside a
\* group, and one option of every group whose members that are switched on
\* are all there.  A group with no option switched on asks for nothing
\* before EAPI 7.
Edges(metas, installed, use, needsActive) ==
    LET plain == {i \in DOMAIN metas : metas[i].at.group = 0
                                       /\ conditionsEnabled(use, metas[i].at.cond)}
        groups == {metas[i].at.group : i \in DOMAIN metas} \ {0}
        In(g) == {i \in DOMAIN metas : metas[i].at.group = g}
        On(g, o) == {i \in In(g) : /\ metas[i].at.option = o
                                   /\ metas[i].kind = "atom"
                                   /\ conditionsEnabled(use, optionCondition(metas[i]))}
        Opts(g) == {metas[i].at.option : i \in In(g)}
        Active(g) == {o \in Opts(g) : On(g, o) # {}}
        Outer(g) == metas[CHOOSE i \in In(g) : TRUE].at.outer
    IN  /\ \A i \in plain : metas[i].kind = "atom" => metas[i].atom \in installed
        /\ \A i \in plain : metas[i].kind = "block" => metas[i].atom \notin installed
        /\ \A g \in groups :
              \/ ~conditionsEnabled(use, Outer(g))
              \/ Active(g) = {} /\ ~needsActive
              \/ \E o \in Active(g) : \A i \in On(g, o) : metas[i].atom \in installed

----------------------------------------------------------------------------
(* The evaluators over trees.                                               *)

\* Satisfy: is the tree satisfied by what is installed?
RECURSIVE Satisfy(_, _, _)
Satisfy(node, installed, use) ==
    LET good == {i \in DOMAIN node.kids : Satisfy(node.kids[i], installed, use)}
    IN  CASE node.kind = "atom" -> node.name \in installed
          [] node.kind = "block" -> node.name \notin installed
          [] node.kind = "weak" -> TRUE
          [] node.kind \in {"top", "all"} -> good = DOMAIN node.kids
          [] node.kind = "any" -> good # {}
          [] node.kind = "xor" -> Cardinality(good) = 1
          [] node.kind = "most" -> Cardinality(good) <= 1
          [] node.kind = "use" ->
                Enabled(use, [flag |-> node.name, neg |-> node.neg])
                    => good = DOMAIN node.kids

\* checkRequiredUseNode: a leaf is a USE flag, and a flag that is not known
\* is as good as disabled.
RECURSIVE CheckRequiredUse(_, _)
CheckRequiredUse(node, use) ==
    LET good == {i \in DOMAIN node.kids : CheckRequiredUse(node.kids[i], use)}
    IN  CASE node.kind = "atom" -> node.name \in use
          [] node.kind = "block" -> node.name \notin use
          [] node.kind = "weak" -> TRUE
          [] node.kind \in {"top", "all"} -> good = DOMAIN node.kids
          [] node.kind = "any" -> good # {}
          [] node.kind = "xor" -> Cardinality(good) = 1
          [] node.kind = "most" -> Cardinality(good) <= 1
          [] node.kind = "use" ->
                Enabled(use, [flag |-> node.name, neg |-> node.neg])
                    => good = DOMAIN node.kids

\* requiredUseFlags: the flags a repair may turn.  A negated leaf is a
\* Block, which the walk does not visit.
RECURSIVE requiredUseFlags(_)
requiredUseFlags(node) ==
    CASE node.kind = "atom" -> {node.name}
      [] node.kind \in {"block", "weak"} -> {}
      [] OTHER -> UNION {requiredUseFlags(node.kids[i]) : i \in DOMAIN node.kids}
                  \cup (IF node.kind = "use" THEN {node.name} ELSE {})

\* requiredUseChanges: the smallest set of flags to flip that satisfies the
\* expression, in the order of the flags' names; a masked flag may not be
\* turned on nor a forced one off.  {} when there is none.  At most
\* MaxRepairFlags flags are tried.
MaxRepairFlags == 18
Flip(use, s) == (use \ s) \cup (s \ use)
requiredUseChanges(node, use, masked, forced) ==
    LET flags == requiredUseFlags(node)
        allowed(s) == (s \ use) \cap masked = {} /\ s \cap use \cap forced = {}
        good == {s \in SUBSET flags \ {{}} :
                    allowed(s) /\ CheckRequiredUse(node, Flip(use, s))}
    IN  IF flags = {} \/ Cardinality(flags) > MaxRepairFlags THEN {}
        ELSE IF good = {} THEN {}
        ELSE CHOOSE s \in good : \A t \in good : Cardinality(s) <= Cardinality(t)

----------------------------------------------------------------------------
(* Licences.  A word of ACCEPT_LICENSE is [neg, name]; the names "*" and    *)
(* "@EULA" are the wildcard and the group.                                  *)

Plus(name) == [neg |-> FALSE, name |-> name]
Minus(name) == [neg |-> TRUE, name |-> name]

LicenseAccepted(license, accept) ==
    LET clears == {i \in DOMAIN accept : accept[i] = Minus("*")}
        from == Max(clears \cup {0})
        since(S) == {i \in DOMAIN accept : i > from /\ accept[i] \in S}
        \* "*" is only undone by "-*".
        acceptAll == since({Plus("*")}) # {}
        eula == since({Plus("@EULA"), Minus("@EULA")})
        own == since({Plus(license), Minus(license)})
    IN  CASE accept = <<>> -> TRUE
          [] own # {} -> ~accept[Max(own)].neg
          [] license \in EULA -> eula # {} /\ ~accept[Max(eula)].neg
          [] OTHER -> acceptAll

RECURSIVE LicenseExpressionAccepted(_, _, _)
LicenseExpressionAccepted(node, accept, use) ==
    LET good == {i \in DOMAIN node.kids :
                    LicenseExpressionAccepted(node.kids[i], accept, use)}
    IN  CASE node.kind = "atom" -> LicenseAccepted(node.name, accept)
          [] node.kind \in {"top", "all"} -> good = DOMAIN node.kids
          [] node.kind = "any" -> good # {}
          [] node.kind = "use" ->
                Enabled(use, [flag |-> node.name, neg |-> node.neg])
                    => good = DOMAIN node.kids
          [] OTHER -> FALSE

\* missing: the licences to accept, [ok, names], with the repetitions of the
\* expression; a node that is no licence expression has no answer.  Among
\* alternatives the shortest list wins, and then the joined names.
Sorted(names) == SortSeq(names, LAMBDA m, n : Rank[m] < Rank[n])
Joined(a, b) == \* the order of the joined names of two lists of one length
    \E i \in DOMAIN a : Rank[a[i]] < Rank[b[i]] /\ \A j \in 1 .. i - 1 : a[j] = b[j]
NoAnswer == [ok |-> FALSE, names |-> <<>>]
Answer(names) == [ok |-> TRUE, names |-> names]

RECURSIVE missing(_, _, _)
missing(node, accept, use) ==
    LET kid == [i \in DOMAIN node.kids |-> missing(node.kids[i], accept, use)]
        oks == {i \in DOMAIN kid : kid[i].ok}
        all == IF oks = DOMAIN kid THEN Answer(FlattenSeq([i \in oks |-> kid[i].names]))
               ELSE NoAnswer
        choice(i) == Sorted(kid[i].names)
        better(i, j) == \/ Len(choice(i)) < Len(choice(j))
                        \/ Len(choice(i)) = Len(choice(j)) /\ Joined(choice(i), choice(j))
        best == CHOOSE i \in oks : \A j \in oks : ~better(j, i)
    IN  CASE node.kind = "atom" ->
                Answer(IF LicenseAccepted(node.name, accept) THEN <<>> ELSE <<node.name>>)
          [] node.kind \in {"top", "all"} -> all
          [] node.kind = "any" -> IF oks = {} THEN NoAnswer ELSE Answer(choice(best))
          [] node.kind = "use" ->
                IF Enabled(use, [flag |-> node.name, neg |-> node.neg]) THEN all
                ELSE Answer(<<>>)
          [] OTHER -> NoAnswer
missingLicenseChoices(node, accept, use) ==
    LET m == missing(node, accept, use)
        names == ToSet(m.names)
        more == accept \o SetToSeq({Plus(n) : n \in names})
    IN  IF m.ok /\ LicenseExpressionAccepted(node, more, use) THEN names ELSE {}
=============================================================================
