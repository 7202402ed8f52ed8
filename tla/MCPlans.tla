------------------------------ MODULE MCPlans -------------------------------
(***************************************************************************)
(* A pure algorithm of the program at work: it is given a case of some     *)
(* topic and finds the answer.  The topics here are plans and the policy   *)
(* they are made under.  Plans: the order of their actions and the         *)
(* validation of their effect, on small dependency graphs and on small     *)
(* systems.  Policy: the order of versions, the layers of the              *)
(* configuration and the expressions over USE flags, packages and          *)
(* licences.                                                               *)
(***************************************************************************)
EXTENDS Integers, Sequences, FiniteSets, SequencesExt, FiniteSetsExt, TLC

VARIABLES topic, given, solved, answer

Solved(t) == solved /\ topic = t

Order == INSTANCE PlanOrder
V == INSTANCE PlanValidate WITH MaxViolationRecords <- 4

-----------------------------------------------------------------------------
(* Orders.  Three actions with any dependency between any two of them, and *)
(* four with up to three dependencies.                                     *)

Pairs3 == {p \in (1..3) \X (1..3) : p[1] # p[2]}
Typed(f) == {[parent |-> p[1], dep |-> p[2], type |-> f[p]] : p \in {q \in Pairs3 : f[q] # "none"}}
Dense == {[n |-> 3, deps |-> Typed(f), rebuilds |-> {}] : f \in [Pairs3 -> {"none", "run", "build"}]}
Rebuilt == {[n |-> 3, deps |-> Typed(f), rebuilds |-> {<<3, 1>>}] : f \in [Pairs3 -> {"none", "build"}]}
Post == {[n |-> 3, deps |-> Typed(f), rebuilds |-> {}] :
            f \in {g \in [Pairs3 -> {"none", "post", "build"}] :
                     Cardinality({p \in Pairs3 : g[p] # "none"}) <= 3}}
Edge4 == {d \in [parent : 1..4, dep : 1..4, type : {"run", "build"}] : d.parent # d.dep}
Sparse == {[n |-> 4, deps |-> d, rebuilds |-> {}] : d \in {{a, b, c} : a, b, c \in Edge4}}

Out == Order!plannedOrderGraph(given.deps, given.rebuilds)
Reach == Order!Reaches(Out, given.n)
Everything == 1..given.n

\* sortPlannedActions places every action once, and a dependency that lies on no
\* cycle before what depends on it; validatePlanOrder accepts the result.
OrderFollowsDependencies ==
    Solved("order") =>
        /\ ToSet(answer) = Everything /\ Len(answer) = given.n
        /\ \A p \in Out : ~Reach[p[2], p[1]] => Order!Before(answer, p[1], p[2])
        /\ Order!validatePlanOrder(answer, given.deps, given.rebuilds) = {}

\* The prerequisites attachPlanPrerequisites leaves to the executor follow the
\* order, and following them alone keeps every dependency: with several jobs,
\* no action starts before what it depends on, and two actions of a cycle never
\* run at the same time.
PrerequisitesSuffice ==
    Solved("order") =>
        LET pre == Order!attachPlanPrerequisites(answer, given.deps, given.rebuilds)
            waits == Order!Reaches(pre, given.n)
        IN  /\ \A p \in pre : Order!Before(answer, p[1], p[2])
            /\ \A p \in Out : waits[p[1], p[2]] \/ waits[p[2], p[1]]
            /\ \A p \in Out : ~Reach[p[2], p[1]] => waits[p[1], p[2]]

\* stronglyConnectedPlanComponents: two actions share a component exactly when
\* each depends on the other.
ComponentsAreMutual ==
    Solved("order") =>
        Order!stronglyConnectedPlanComponents(Out, given.n) =
            {{b \in Everything : a = b \/ (Reach[a, b] /\ Reach[b, a])} : a \in Everything}

\* SortByDeps: every package once, and all dependencies first if there is no cycle.
SortedByDependencies ==
    Solved("order") =>
        LET sorted == Order!SortByDeps(given.n, given.deps)
            edges == {<<d.dep, d.parent>> : d \in given.deps}
            acyclic == \A a \in Everything : ~Order!Reaches(edges, given.n)[a, a]
        IN  /\ ToSet(sorted) = Everything /\ Len(sorted) = given.n
            /\ acyclic => \A p \in edges : Order!Before(sorted, p[1], p[2])

\* The order of a plan is sound for one job and for several (sortPlannedActions,
\* attachPlanPrerequisites, stronglyConnectedPlanComponents, SortByDeps).
PlansAreOrdered ==
    OrderFollowsDependencies /\ PrerequisitesSuffice /\ ComponentsAreMutual /\ SortedByDependencies

-----------------------------------------------------------------------------
(* Effects.  A library with slots and subslots, its users bound to a       *)
(* subslot or not, a blocker, and a package with REQUIRED_USE.             *)

Atom(cp) == [V!NoAtom EXCEPT !.cp = cp]
Pkg(cp, ver, slot, sub, deps) ==
    [cp |-> cp, ver |-> ver, slot |-> slot, subslot |-> sub, use |-> {}, iuse |-> {"x"}, deps |-> deps,
     required |-> V!Group("all", <<>>), vdb |-> FALSE, binary |-> FALSE, eapi |-> 8]
Old(p) == [p EXCEPT !.vdb = TRUE]
Runs(node) == [c \in {"RDEPEND"} |-> node]
NoDeps == [c \in {} |-> V!Need(V!NoAtom)]
AnySlot == V!Need([Atom("a") EXCEPT !.bind = TRUE])
Slot0 == V!Need([Atom("a") EXCEPT !.bind = TRUE, !.slot = "0"])
Bound1 == V!Need([Atom("a") EXCEPT !.bind = TRUE, !.slot = "0", !.subslot = "1"])
AtLeast(cp, v) == [Atom(cp) EXCEPT !.op = ">=", !.ver = v]

a1 == Pkg("a", 10, "0", "1", NoDeps)
a2 == Pkg("a", 20, "0", "2", NoDeps)
a3 == Pkg("a", 30, "1", "3", NoDeps)
a4 == Pkg("a", 40, "1", "4", NoDeps)
b1 == Pkg("b", 10, "0", "0", Runs(Slot0))
b1old == Old([b1 EXCEPT !.deps = Runs(Bound1)])
b1bin == [b1 EXCEPT !.binary = TRUE, !.deps = Runs(Bound1)]
b2 == Pkg("b", 20, "0", "0",
          Runs(V!Group("all", <<AnySlot, V!Group("any", <<V!Need(Atom("c")), V!Need(AtLeast("a", 20))>>)>>)))
c1 == Pkg("c", 10, "0", "0",
          [c \in {"RDEPEND", "DEPEND"} |-> IF c = "RDEPEND" THEN V!Block([Atom("a") EXCEPT !.op = ">", !.ver = 10])
                                           ELSE V!Need(Atom("d"))])
d1 == [Pkg("d", 10, "0", "0", NoDeps) EXCEPT !.required = V!Flag("x"), !.use = {"x"}]
d1bad == [d1 EXCEPT !.use = {}]

OnePerSlot(S) == \A p, q \in S : p.cp = q.cp /\ p.slot = q.slot => p = q
Systems == {S \in SUBSET {Old(a1), Old(a2), Old(a3), b1old, Old(b2), Old(c1), Old(d1bad)} : OnePerSlot(S)}

Action(id, kind, p, replaces, prereq) ==
    [id |-> id, kind |-> kind, pkg |-> p, replaces |-> replaces, prereq |-> prereq]
Actions == {Action("a2", "install", a2, r, {}) : r \in {<<>>, <<"a", 10>>}}
      \cup {Action(x[1], "install", x[2], <<"a", 10>>, {}) : x \in {<<"a3", a3>>, <<"a4", a4>>}}
      \cup {Action("b1", "install", b1, <<"b", 10>>, pre) : pre \in {{}, {"a2"}}}
      \cup {Action("bb", "install", b1bin, <<>>, {}), Action("b2", "install", b2, <<"b", 10>>, {})}
      \cup {Action("c1", "install", c1, r, {}) : r \in {<<>>, <<"c", 10>>}}
      \cup {Action("d1", "install", d1, <<"d", 10>>, {})}
      \cup {Action("ra", "remove", a1, <<>>, {}), Action("rd", "remove", d1bad, <<>>, {})}
Chosen(acts) == {[outcome |-> "selected", action |-> acts[i].id, pkg |-> V!packageIdentity(acts[i].pkg),
                  reqs |-> {}] : i \in DOMAIN acts}
Asks(targets, partial, build) ==
    [operation |-> "install", targets |-> targets, partial |-> partial, build |-> build]
Many == {AtLeast("a", 20), Atom("b"), Atom("c"), Atom("d")}

Problem(S, acts, request) ==
    [installed |-> S, available |-> {a2, a3, a4, b1, b1bin, b2, c1, d1, d1bad}, request |-> request, alias |-> TRUE,
     sysroot |-> {Old(d1)}, broot |-> {}, refused |-> {}, actions |-> acts]
Few == {S \in Systems : Old(d1bad) \notin S}
Pairs == {<<x, y>> \in Actions \X Actions : x.pkg.cp # y.pkg.cp /\ "d" \notin {x.pkg.cp, y.pkg.cp}}
Effect == \/ \E S \in Few, acts \in Pairs : given = Problem(S, acts, Asks(Many, "", FALSE))
          \/ \E S \in Systems, x \in Actions, t \in {{Atom("b")}, Many} :
                given = Problem(S, <<x>>, Asks(t, "", FALSE))
          \/ \E S \in Few, x \in Actions : given = Problem(S, <<x>>, Asks({}, "", TRUE))
          \/ \E S \in Systems, t \in {{}, {Atom("b")}, Many}, p \in {"", "onlydeps"} :
                given = Problem(S, <<>>, Asks(t, p, FALSE))

Facts == [x \in DOMAIN given \ {"actions"} |-> given[x]]
ThePlan == [actions |-> given.actions, records |-> Chosen(given.actions)]
Final == V!ApplyPlan(given.installed, given.actions).packages
Accepted == answer = {} /\ ~given.request.build

RECURSIVE Conjuncts(_, _), Holds(_, _, _), Named(_)
\* The requirements of a dependency that USE switches on.
Conjuncts(n, use) ==
    CASE n.kind = "all" \/ (n.kind = "use" /\ V!Enabled(n, use)) ->
            UNION {Conjuncts(n.kids[i], use) : i \in DOMAIN n.kids}
      [] n.kind = "use" -> {}
      [] OTHER -> {n}
Holds(n, p, S) ==
    CASE n.kind = "atom" -> V!stateMatches(S, n.atom, <<p>>)
      [] n.kind = "block" -> ~V!stateMatches(S, n.atom, <<p>>)
      [] n.kind = "any" -> \E i \in DOMAIN n.kids : Holds(n.kids[i], p, S)
      [] n.kind = "all" -> \A i \in DOMAIN n.kids : Holds(n.kids[i], p, S)
      [] OTHER -> V!Enabled(n, p.use) => \A i \in DOMAIN n.kids : Holds(n.kids[i], p, S)
Named(n) == IF n.kind = "atom" THEN {n.atom.cp} ELSE UNION {Named(n.kids[i]) : i \in DOMAIN n.kids}

Runtime(p) == UNION {Conjuncts(p.deps[c], p.use) : c \in DOMAIN p.deps \cap {"RDEPEND", "PDEPEND"}}

\* An accepted plan breaks no run-time dependency: in its final state one of an
\* installed package holds, or already failed before for the same package.
AcceptedBreaksNothing ==
    Solved("effect") /\ Accepted =>
        \A p \in Final : \A n \in Runtime(p) :
            Holds(n, p, Final) \/ (p \in given.installed /\ ~Holds(n, p, given.installed))

\* A plan without actions is judged alike by validateNoActionImpact, the short
\* cut, and by the comparison with the state before.
NoActionShortCut ==
    Solved("effect") /\ given.actions = <<>> =>
        (V!validateNoActionImpact(Facts, ThePlan) = {} <=> V!Introduced(Facts, ThePlan) = {})

\* ApplyPlan never leaves two versions of a package in one slot.
AppliedOnePerSlot == Solved("effect") => OnePerSlot(Final)

\* No action depends on a package that a later action installs.
ProvidersFirst ==
    \A i, j \in DOMAIN given.actions : (i < j /\ given.actions[i].kind = "install") =>
        given.actions[j].pkg.cp \notin
            UNION {Named(given.actions[i].pkg.deps[c]) : c \in DOMAIN given.actions[i].pkg.deps}

\* What PredictCommittedState expects, slot operators bound, is what executing
\* the accepted plan action by action commits, provided that providers go first.
CommittedAsPredicted ==
    Solved("effect") /\ Accepted /\ V!Predictable(Final) /\ ProvidersFirst =>
        V!ValidateCommittedState(V!PredictCommittedState(Final),
                                 V!Execute(given.installed, given.actions)) = {}

\* The validator's verdict is right about the state it predicts, and the state
\* it predicts is the one execution commits (ValidatePlanImpact, ApplyPlan,
\* validateNoActionImpact, PredictCommittedState).
PlansAreValidated ==
    AcceptedBreaksNothing /\ NoActionShortCut /\ AppliedOnePerSlot /\ CommittedAsPredicted

-----------------------------------------------------------------------------
PlanTopics == {"order", "effect"}

PlanCase == \/ topic = "order" /\ given \in Dense \cup Rebuilt \cup Post \cup Sparse
            \/ topic = "effect" /\ Effect

PlanAnswer == IF topic = "order" THEN Order!sortPlannedActions(given.n, given.deps, given.rebuilds)
              ELSE V!ValidatePlanImpact(Facts, ThePlan)

-----------------------------------------------------------------------------
(* Policy.                                                                 *)

Ver == INSTANCE Versions WITH MaxInt <- 10
Conf == INSTANCE Config
Names == {"a", "b", "c"}
Expr == INSTANCE DepExpr WITH EULA <- {"b"}, Rank <- [n \in Names |-> CASE n = "a" -> 1 [] n = "b" -> 2 [] OTHER -> 3]

-----------------------------------------------------------------------------
(* Versions with one or two components, a letter, at most one suffix and a *)
(* revision; MaxInt is ten, so a revision of two digits may not fit.       *)

Written(n, l, s, r) == [n |-> n, l |-> l, s |-> s, r |-> r]
Components == {<<1>>, <<0>>, <<0, 1>>, <<1, 0>>, <<0, 0>>}
Plain == {Written(n, l, <<>>, r) : n \in {<< <<1>> >>, << <<0, 1>> >>} \cup {<< <<1>>, c >> : c \in Components},
                                   l \in {0}, r \in {<<>>, <<1>>}}
    \cup {Written(<<c>>, 1, <<>>, <<>>) : c \in Components}
Suffixed == {Written(<< <<1>> >>, 0, s, r) :
               s \in {<<>>} \cup {<< <<n, d>> >> : n \in {"_alpha", "_p"}, d \in {<<>>, <<0>>, <<1>>}},
               r \in {<<>>, <<0>>, <<1, 1>>, <<1, 2>>}}
Texts == Plain \cup Suffixed
Parsed(t) == Ver!parseVersionString(t.n, t.l, t.s, t.r)
Compare(t, u) == Ver!Compare(Parsed(t), Parsed(u))

\* Version.Compare orders the versions with at most one suffix: neither of two
\* versions is above the other unless the other is below it, and what is above a
\* version is above all versions at or below that one.
VersionsOrdered ==
    Solved("version") =>
        /\ answer = -Compare(given[2], given[1])
        /\ answer > 0 => \A t \in Texts : Compare(given[2], t) >= 0 => Compare(given[1], t) > 0

\* "~" matches the versions that differ in their revision only, as long as the
\* revisions fit an int.
TildeIgnoresRevision ==
    Solved("version") =>
        LET fits == \A i \in {1, 2} : Len(given[i].r) < 2
            base(t) == [t EXCEPT !.r = <<>>]
        IN  fits => (Ver!tildeMatch(Parsed(given[1]), Parsed(given[2]))
                        <=> Compare(base(given[1]), base(given[2])) = 0)

Text(t) == Ver!Text(t.n, t.l, t.s, t.r)

\* "=...*" matches by whole components: a version matches itself, what matches
\* a version that matches matches too, and the first component is never cut
\* short.
GlobByComponents ==
    Solved("version") =>
        LET glob(t, u) == Ver!globMatch(Text(t), Text(u))
            value(t) == Ver!Value(t.n[1])
        IN  /\ glob(given[1], given[1])
            /\ glob(given[1], given[2]) =>
                  /\ value(given[1]) = value(given[2])
                  /\ \A t \in Texts : glob(given[2], t) => glob(given[1], t)

-----------------------------------------------------------------------------
(* Configuration: layers of up to two words about the flags a and b.       *)

Off(name) == [name |-> name, off |-> TRUE]
Words == {Conf!On("a"), Off("a"), Conf!On("b"), Conf!Clear}
Short == {<<>>} \cup {<<w>> : w \in Words}
Layers == Short \cup {<<v, w>> : v, w \in Words}
NoClear(S) == {l \in S : Conf!Clear \notin ToSet(l)}
Rules == {<<>>} \cup {<<[matches |-> m, words |-> w]>> : m \in BOOLEAN, w \in NoClear(Short)}
Policies == [force : {<<>>, <<Conf!On("a")>>}, mask : {<<>>, <<Conf!On("a")>>},
             stableForce : {<<>>, <<Conf!On("a")>>}, stableMask : {<<>>, <<Off("a")>>},
             packageForce : Rules, packageMask : Rules, packageStableForce : {<<>>},
             packageStableMask : {<<>>, <<[matches |-> TRUE, words |-> <<Off("a")>>]>>}, packageUse : {<<>>}]
Stacks == NoClear(Layers) \X NoClear(Short)
Keywords == {Conf!On("~arch"), Off("arch"), Conf!On("**"), Off("**"), Conf!On("*"), Conf!On("~*"), Conf!Clear}
KeywordLists == {<<>>} \cup {<<w>> : w \in Keywords} \cup {<<v, w>> : v, w \in Keywords}
Repos == {"r1", "r2", "r3"}
MasterLists == {<<>>} \cup {<<x>> : x \in Repos \cup {"r0"}} \cup {<<x, y>> : x, y \in Repos}

\* The package.env files that apply to a package, merged with one another and
\* only then with the rest, say what all files say one after the other; "-*" in
\* such a file is the exception.
EnvironmentInOrder ==
    Solved("env") /\ Conf!Clear \notin ToSet(FlattenSeq(given.files)) =>
        answer = Conf!mergeConfigAssignments(given.base, given.files \o given.command, TRUE)

\* EffectiveUseForStability, which folds the layers into lists, agrees with
\* UseMaskedFor and UseForcedFor, which look for the last word: a mask decides,
\* then forcing, then USE.
MaskThenForce ==
    Solved("use") =>
        answer = IF Conf!UseMaskedFor(given.policy, "a", given.stable) THEN FALSE
                 ELSE IF Conf!UseForcedFor(given.policy, "a", given.stable) THEN TRUE
                 ELSE Conf!LastSays(given.use, "a")

\* Where ExplicitUseOverride finds no layer that mentions the flag, no layer has
\* turned it on: the default of IUSE may decide.
DefaultsOnlyUnmentioned ==
    Solved("use") /\ answer =>
        Conf!ExplicitUseOverride(given.use, <<>>, given.policy, "a", given.stable)

\* The last word that is about a name, or about every name, adds it.
LastAdds(words, n) ==
    LET i == SelectLastInSeq(words, LAMBDA w : w.name = n \/ w = Conf!Clear)
    IN  i # 0 /\ ~words[i].off

\* removalOnlyIncremental keeps a name exactly when the last word of all layers
\* about it, or about every name, adds it.
LastWordDecides ==
    Solved("incremental") =>
        \A n \in {"a", "b"} : n \in ToSet(answer) <=> LastAdds(FlattenSeq(given), n)

\* ACCEPT_LICENSE: the user's words replace those of the profiles, and what the
\* merged value says of a name is their last word about it.
LicencesFromUser ==
    Solved("incremental") =>
        LET user == given[3]
            kept == Conf!effectiveAcceptLicense(<<given[1], given[2]>>, IF user = <<>> THEN <<>> ELSE <<user>>)
        IN  \A n \in {"a", "b"} :
                LastAdds(kept, n) <=> LastAdds(IF user = <<>> THEN given[1] \o given[2] ELSE user, n)

\* Masks and unmasks of the repositories, the profiles and the user: a package
\* is masked exactly when the last word about some atom that matches it masks
\* it and the last word about none that matches it unmasks it.
MaskedByLastWord ==
    Solved("mask") =>
        LET says(layers, n) == Conf!LastSays(FlattenSeq(layers), n)
        IN  answer <=> /\ \E n \in given.matching : says(given.masks, n)
                       /\ \A n \in given.matching : ~says(given.unmasks, n)

\* ACCEPT_KEYWORDS with the rules of package.accept_keywords: a version is
\* accepted exactly when it has a keyword, not marked broken, whose acceptance,
\* or that of all of its kind, is the last word, or when everything is accepted.
KeywordsByLastWord ==
    Solved("keywords") =>
        LET rule == IF given.rule = <<>> THEN <<Conf!On("~arch")>> ELSE given.rule
            words == <<Conf!On("arch")>> \o given.global \o (IF given.matches THEN rule ELSE <<>>)
            kind(k) == IF k.name = "~arch" THEN "~*" ELSE "*"
        IN  answer <=> \/ LastAdds(words, "**")
                       \/ \E k \in given.keywords : ~k.bad /\ (LastAdds(words, k.name) \/ LastAdds(words, kind(k)))

\* repos.conf read in several files: every repository is listed once, where it
\* is named first, and each of its fields has the last value that is set.
FieldsByLastFile ==
    Solved("reposconf") =>
        /\ Cardinality({r.name : r \in ToSet(answer)}) = Len(answer)
        /\ \A r \in ToSet(answer) :
              LET of == SelectSeq(given, LAMBDA e : e.name = r.name)
                  last == SelectLastInSeq(of, LAMBDA e : e.location # "")
              IN  of # <<>> /\ r.location = IF last = 0 THEN "" ELSE of[last].location
        /\ \A i, j \in DOMAIN answer : i < j =>
              SelectInSeq(given, LAMBDA e : e.name = answer[i].name)
                  < SelectInSeq(given, LAMBDA e : e.name = answer[j].name)
        /\ {e.name : e \in ToSet(given)} = {r.name : r \in ToSet(answer)}

MasterOf == {p \in Repos \X Repos : p[2] \in ToSet(given.masters[p[1]])}

\* repositoryPolicyOrder places every repository reached once and after its
\* masters, and fails exactly when one of them is unknown or its own master.
MastersFirst ==
    Solved("repos") =>
        LET up == Conf!TransitiveClosure([p \in Repos \X Repos |-> p \in MasterOf], Repos)
            reached == ToSet(given.names) \cup {b \in Repos : \E a \in ToSet(given.names) : up[a, b]}
        IN  /\ answer.error <=> \E a \in reached : up[a, a] \/ ~(ToSet(given.masters[a]) \subseteq Repos)
            /\ ~answer.error =>
                  /\ ToSet(answer.order) = reached /\ Len(answer.order) = Cardinality(reached)
                  /\ \A i, j \in DOMAIN answer.order : up[answer.order[i], answer.order[j]] => j < i

\* EclassLookupDirectories looks into the repository itself first, then into
\* its masters and theirs, each once, and fails when repositoryPolicyOrder does.
EclassesOwnFirst ==
    Solved("repos") =>
        \A r \in Repos :
            LET look == Conf!EclassLookupDirectories(r, given.masters)
                rank == Conf!repositoryPolicyOrder(<<r>>, given.masters)
            IN  /\ look.error = rank.error
                /\ ~look.error => look.child[1] = r /\ ToSet(look.child) = ToSet(rank.order)
                                  /\ Len(look.child) = Len(rank.order)

\* The comparison of versions is an order that the operators respect, and every
\* way the program reads the layers of the configuration agrees with the last
\* word about a name (Version.Compare, tildeMatch, globMatch,
\* PackageExecutionEnvironmentFor, EffectiveUseForStability,
\* removalOnlyIncremental, PackageMaskStatus, EffectiveAcceptedKeywordsFor,
\* repositoryPolicyOrder, EclassLookupDirectories, ReadEffectiveReposConf).
PolicyIsOrdered ==
    /\ VersionsOrdered /\ TildeIgnoresRevision /\ GlobByComponents
    /\ EnvironmentInOrder /\ MaskThenForce /\ DefaultsOnlyUnmentioned /\ LastWordDecides
    /\ LicencesFromUser /\ MaskedByLastWord /\ KeywordsByLastWord
    /\ MastersFirst /\ EclassesOwnFirst /\ FieldsByLastFile

-----------------------------------------------------------------------------
(* Expressions: all token strings of up to four tokens, and trees.         *)

Leaves == {Expr!Leaf("atom", n) : n \in Names} \cup {Expr!Leaf("block", "a")}
Kinds == {"all", "any", "xor", "most"}
Groups == {Expr!Group(k, s) : k \in Kinds, s \in {<<>>} \cup {<<p>> : p \in Leaves} \cup {<<p, q>> : p, q \in Leaves}}
     \cup {Expr!Cond("f", n, <<p>>) : n \in BOOLEAN, p \in Leaves}
Nested == {Expr!Group(k, <<p, q>>) : k \in Kinds, p \in Groups, q \in Leaves}
     \cup {Expr!Group("any", <<Expr!Leaf("atom", "c"), Expr!Group("all", <<Expr!Leaf("atom", "a"), g>>)>>) : g \in Groups}
     \cup {Expr!Cond("f", n, <<p>>) : n \in BOOLEAN, p \in Groups}
Trees == {Expr!Group("top", <<p>>) : p \in Leaves \cup Groups \cup Nested}
Tokens == {Expr!Tok("any", ""), Expr!Tok("open", ""), Expr!Tok("close", ""), Expr!Tok("atom", "a"),
           Expr!Tok("use", "f"), Expr!Tok("block", "")}
Strings == UNION {[1..n -> Tokens] : n \in 1..4}
Accepts == {<<v, w>> : v, w \in {Expr!Plus("*"), Expr!Minus("*"), Expr!Plus("a"), Expr!Minus("a"),
                                 Expr!Plus("@EULA"), Expr!Plus("b")}} \cup {<<>>, <<Expr!Minus("a")>>}

RECURSIVE Has(_, _), Inside(_, _, _)
Has(n, kinds) == n.kind \in kinds \/ \E i \in DOMAIN n.kids : Has(n.kids[i], kinds)
\* A node of a kind, with a node of another kind somewhere below it.
Inside(n, outer, inner) ==
    \/ n.kind = outer /\ \E i \in DOMAIN n.kids : Has(n.kids[i], inner)
    \/ \E i \in DOMAIN n.kids : Inside(n.kids[i], outer, inner)
AnyInAllInAny(n) ==
    \E i \in DOMAIN n.kids : n.kids[i].kind = "any" /\
        \E j \in DOMAIN n.kids[i].kids : Inside(n.kids[i].kids[j], "all", {"any"})

\* Parsing and rendering are inverse: a string that parses is rendered again
\* token by token, and a rendered tree parses to itself.
ParseInvertsString ==
    /\ Solved("string") => (answer.ok => Expr!String(answer.nodes[1]) = given)
    /\ Solved("tree") => Expr!Parse(answer) = IF answer = <<>> THEN Expr!Parsed(<<>>, <<>>)
                                              ELSE Expr!Parsed(<<given>>, <<>>)

\* The flat annotation of atoms (CollectMeta) asks for what the tree means:
\* the edges built from it are met by exactly the sets of packages that satisfy
\* the tree.  Conditions and blockers inside an any-of group, and a group below
\* a conjunction below another group, are the exceptions.
EdgesMeanTree ==
    Solved("tree") /\ Expr!ValidatePackageDependencies(given)
        /\ ~Inside(given, "any", {"use", "block"}) /\ ~AnyInAllInAny(given) =>
        \A installed \in SUBSET Names, use \in SUBSET {"f"} :
            Expr!Edges(Expr!CollectMeta(given), installed, use, TRUE) = Expr!Satisfy(given, installed, use)

\* requiredUseChanges: flipping the flags it proposes meets REQUIRED_USE and the
\* profile's masks and forces; without negated flags it finds a repair if there
\* is one, and no smaller one exists.
RequiredUseRepaired ==
    Solved("tree") =>
        \A use \in SUBSET {"a", "f"}, masked \in {{}, {"a"}}, forced \in {{}, {"a"}} :
            LET allowed(s) == (s \ use) \cap masked = {} /\ s \cap use \cap forced = {}
                meets(s) == allowed(s) /\ Expr!CheckRequiredUse(given, Expr!Flip(use, s))
                repair == Expr!requiredUseChanges(given, use, masked, forced)
            IN  ~Expr!CheckRequiredUse(given, use) =>
                    /\ repair # {} => meets(repair)
                    /\ ~Has(given, {"block"}) =>
                          \A s \in SUBSET (Names \cup {"f"}) :
                              meets(s) => repair # {} /\ Cardinality(repair) <= Cardinality(s)

\* missingLicenseChoices: the licences it names make the expression accepted,
\* and it names some whenever accepting licences can help.
LicencesSuffice ==
    Solved("tree") /\ ~Has(given, {"block", "xor", "most"}) =>
        \A accept \in Accepts, use \in SUBSET {"f"} :
            LET accepted(s) == Expr!LicenseExpressionAccepted(given, accept \o SetToSeq({Expr!Plus(n) : n \in s}), use)
                missing == Expr!missingLicenseChoices(given, accept, use)
            IN  ~accepted({}) => /\ missing # {} => accepted(missing)
                                 /\ \A s \in SUBSET Names : accepted(s) => missing # {}

\* Expressions keep their meaning from the text to the edges, and the changes
\* proposed for an expression that fails make it hold (Parse, String,
\* CollectMeta, requiredUseChanges, missingLicenseChoices).
ExpressionsKeepMeaning ==
    ParseInvertsString /\ EdgesMeanTree /\ RequiredUseRepaired /\ LicencesSuffice

-----------------------------------------------------------------------------
PolicyTopics == {"version", "env", "use", "incremental", "mask", "keywords", "repos", "reposconf", "string", "tree"}

PolicyCase ==
    \/ topic = "version" /\ given \in Texts \X Texts
    \/ topic = "env" /\ given \in [base : Short, files : {<<a, b>> : a \in Layers, b \in Short},
                                   command : {<<>>, << <<Conf!On("a")>> >>}]
    \/ topic = "use" /\ given \in [policy : Policies, stable : BOOLEAN, use : {<<>>, <<Conf!On("a")>>}]
    \/ topic = "incremental" /\ given \in {<<a, b, c>> : a \in Layers, b \in Short, c \in Layers}
    \/ topic = "repos" /\ given \in [names : {<<"r1", "r2", "r3">>, <<"r2", "r1">>}, masters : [Repos -> MasterLists]]
    \/ topic = "mask" /\ given \in [masks : Stacks, unmasks : {s \in Stacks : Len(s[1]) < 2}, matching : SUBSET {"a", "b"}]
    \/ topic = "keywords" /\ given \in [global : KeywordLists, rule : KeywordLists, matches : BOOLEAN,
                                        keywords : SUBSET [name : {"arch", "~arch"}, bad : BOOLEAN]]
    \/ topic = "reposconf" /\ \E n \in 0..4 :
            given \in [1..n -> [name : {"r1", "r2"}, location : {"", "here", "there"}]]
    \/ topic = "string" /\ given \in Strings
    \/ topic = "tree" /\ given \in Trees

PolicyAnswer ==
    CASE topic = "version" -> Compare(given[1], given[2])
      [] topic = "env" -> Conf!PackageExecutionEnvironmentFor(given.base, given.files, given.command, <<>>, TRUE)
      [] topic = "use" -> Conf!EffectiveUseForStability(given.use, given.policy, "a", given.stable)
      [] topic = "incremental" -> Conf!removalOnlyIncremental(given)
      [] topic = "repos" -> Conf!repositoryPolicyOrder(given.names, given.masters)
      [] topic = "mask" -> Conf!PackageMaskStatus(Conf!loadProfileMaskStack(<<given.masks[1]>>, given.masks[2]),
                                                  Conf!loadProfileMaskStack(<<given.unmasks[1]>>, given.unmasks[2]),
                                                  given.matching)
      [] topic = "keywords" ->
            Conf!keywordSetAccepts(given.keywords,
                Conf!EffectiveAcceptedKeywordsFor("arch", "~arch", given.global,
                    <<[matches |-> given.matches, words |-> given.rule]>>), {"~arch"})
      [] topic = "reposconf" -> Conf!ReadEffectiveReposConf(given)
      [] topic = "string" -> Expr!Parse(given)
      [] topic = "tree" -> Expr!String(given)
=============================================================================
