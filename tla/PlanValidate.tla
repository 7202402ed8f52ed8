---------------------------- MODULE PlanValidate ----------------------------
(***************************************************************************)
(* The independent plan validator, internal/planvalidate: a plan is applied *)
(* to the frozen installed packages and the result is checked without the   *)
(* resolver.  The merge-time binding of := operators                        *)
(* (internal/rebuild/rebuild.go) is here too, because the validator         *)
(* predicts it.                                                             *)
(*                                                                          *)
(* A package is [cp, ver, slot, subslot, use, iuse, deps, required, vdb,    *)
(* binary, eapi]; ver is an integer whose last digit is the revision.  `use` and  *)
(* `iuse` are sets of flags, `deps` maps a dependency class to a tree, and  *)
(* `required` is the tree of REQUIRED_USE.  A tree node is [kind, atom,     *)
(* flag, neg, kids]; an atom is [cp, op, ver, slot, subslot, bind, uses].   *)
(* Metadata parses, schemas are the current one, and installed identities   *)
(* are distinct (they are directory names of the VDB).  A violation keeps   *)
(* what the comparison of two reports tells apart.                          *)
(***************************************************************************)
EXTENDS Integers, Sequences, FiniteSets, SequencesExt, FiniteSetsExt

CONSTANT MaxViolationRecords

None == <<>>
Unversioned == -1
Cpv(p) == <<p.cp, p.ver>>
packageIdentity(p) == <<p.cp, p.ver, p.slot>>

NoAtom == [cp |-> "", op |-> "any", ver |-> Unversioned, slot |-> "", subslot |-> "",
           bind |-> FALSE, uses |-> <<>>]
Group(kind, kids) == [kind |-> kind, atom |-> NoAtom, flag |-> "", neg |-> FALSE, kids |-> kids]
Need(a) == [Group("atom", <<>>) EXCEPT !.atom = a]
Block(a) == [Group("block", <<>>) EXCEPT !.atom = a]
Flag(f) == [Group("flag", <<>>) EXCEPT !.flag = f]
Cond(f, neg, kids) == [Group("use", kids) EXCEPT !.flag = f, !.neg = neg]

violation(kind, pkg, req) ==
  [kind |-> kind, pkg |-> pkg, req |-> req, class |-> "", build |-> FALSE]

-----------------------------------------------------------------------------
(* Matching.                                                                *)

CompareVersion(op, left, right) ==
  CASE op = "any" -> TRUE
    [] op = "=" -> left = right
    [] op = "<" -> left < right
    [] op = "<=" -> left <= right
    [] op = ">" -> left > right
    [] op = ">=" -> left >= right
    [] op = "~" -> left \div 10 = right \div 10
    [] op = "=*" -> IF right % 10 = 0 THEN left \div 10 = right \div 10 ELSE left = right

matches(p, a) ==
  /\ p.cp = a.cp
  /\ a.slot \in {"", p.slot}
  /\ a.subslot \in {"", p.subslot}
  /\ CompareVersion(a.op, p.ver, a.ver)

\* A requirement is [name, form, neg, default]: form is "plain", "cond" (x?)
\* or "equal" (x=), default the state of an undeclared flag ("none", "on", "off").
\* An atom with no owner (a request target) has owner None.
UseRequired(target, r, owner) ==
  LET held == owner # None /\ r.name \in owner[1].use
      active == r.form = "cond" => owner # None /\ (held # r.neg)
      declared == r.name \in target.iuse
      enabled == IF declared THEN r.name \in target.use ELSE r.default = "on"
  IN  CASE r.form # "plain" /\ owner = None -> FALSE
        [] ~active -> TRUE
        [] ~declared /\ r.default = "none" -> FALSE
        [] r.form = "equal" -> enabled = (held # r.neg)
        [] r.form = "cond" -> enabled
        [] OTHER -> enabled # r.neg
useDependenciesMatch(target, uses, owner) ==
  \A i \in DOMAIN uses : UseRequired(target, uses[i], owner)

stateMatches(packages, a, owner) ==
  \E p \in packages : matches(p, a) /\ useDependenciesMatch(p, a.uses, owner)

Enabled(node, use) == (node.flag \in use) # node.neg

-----------------------------------------------------------------------------
(* One package in one state.                                                *)

\* The violations a tree adds; a tree is satisfied when it adds none.
RECURSIVE validateNode(_, _, _)
validateNode(node, owner, packages) ==
  LET kid(i) == validateNode(node.kids[i], owner, packages)
      all == UNION {kid(i) : i \in DOMAIN node.kids}
      report(kind) == {violation(kind, Cpv(owner), <<node>>)}
  IN  CASE node.kind = "atom" ->
             IF stateMatches(packages, node.atom, <<owner>>) THEN {} ELSE report("unsatisfied-dependency")
        [] node.kind = "block" ->
             IF stateMatches(packages, node.atom, <<owner>>) THEN report("blocker-violation") ELSE {}
        [] node.kind = "all" -> all
        [] node.kind = "any" ->
             IF \E i \in DOMAIN node.kids : kid(i) = {} THEN {} ELSE report("unsatisfied-any-of")
        [] node.kind = "use" -> IF Enabled(node, owner.use) THEN all ELSE {}
        [] OTHER -> report("unsupported-dependency-expression")

RECURSIVE requiredUseSatisfied(_, _)
requiredUseSatisfied(node, use) ==
  LET held == {i \in DOMAIN node.kids : requiredUseSatisfied(node.kids[i], use)}
  IN  CASE node.kind = "flag" -> Enabled(node, use)
        [] node.kind = "all" -> held = DOMAIN node.kids
        [] node.kind = "any" -> held # {}
        [] node.kind = "xor" -> Cardinality(held) = 1
        [] node.kind = "most" -> Cardinality(held) <= 1
        [] node.kind = "use" -> Enabled(node, use) => held = DOMAIN node.kids
        [] OTHER -> FALSE

validatePackageRequiredUse(p) ==
  IF requiredUseSatisfied(p.required, p.use) THEN {}
  ELSE {violation("required-use-violation", Cpv(p), <<p.required>>)}

mergeTimeDependency(class) == class \in {"DEPEND", "BDEPEND", "IDEPEND"}

\* Where a class is looked up; SYSROOT and BROOT are ROOT or states of their own.
dependencyDomainState(f, class, eapi, finalRoot) ==
  CASE class \in {"RDEPEND", "PDEPEND"} \/ f.alias -> finalRoot
    [] class = "DEPEND" /\ eapi >= 7 -> f.sysroot
    [] OTHER -> f.broot

validatePackageDependencies(f, p, installing, finalRoot) ==
  LET checked == {c \in DOMAIN p.deps :
                    /\ f.request.partial # "nodeps"
                    /\ installing \/ ~mergeTimeDependency(c)
                    /\ ~(p.binary /\ c \in {"DEPEND", "BDEPEND"})}
      of(c) == validateNode(p.deps[c], p, dependencyDomainState(f, c, p.eapi, finalRoot))
  IN  UNION {{[v EXCEPT !.class = c] : v \in of(c)} : c \in checked}

-----------------------------------------------------------------------------
(* Applying a plan.  An action is [id, kind, pkg, replaces, prereq]; the    *)
(* state is [packages, violations], and a rejected action changes nothing.  *)

applyInstallAction(packages, action) ==
  LET replaced == IF action.replaces = None THEN {}
                  ELSE {p \in packages : Cpv(p) = action.replaces}
      rest == packages \ replaced
      p == action.pkg
      reject(kind) == [packages |-> packages, violations |-> {violation(kind, Cpv(p), <<>>)}]
  IN  CASE action.replaces # None /\ Cardinality(replaced) # 1 -> reject("invalid-replacement-target")
        [] \E q \in rest : packageIdentity(q) = packageIdentity(p) -> reject("already-installed")
        [] \E q \in rest : q.cp = p.cp /\ q.slot = p.slot -> reject("slot-collision")
        [] OTHER -> [packages |-> rest \cup {p}, violations |-> {}]

applyAction(packages, action) ==
  IF action.kind = "install" THEN applyInstallAction(packages, action)
  ELSE LET gone == {p \in packages : packageIdentity(p) = packageIdentity(action.pkg)}
       IN  [packages |-> packages \ gone,
            violations |-> IF gone # {} THEN {}
                           ELSE {violation("missing-removal-target", Cpv(action.pkg), <<>>)}]

ApplyPlan(installed, actions) ==
  LET key(i) == <<actions[i].kind, packageIdentity(actions[i].pkg), actions[i].replaces>>
      step[i \in 0 .. Len(actions)] ==
        IF i = 0 THEN [packages |-> installed, violations |-> {}]
        ELSE LET before == step[i - 1]
                 after == applyAction(before.packages, actions[i])
             IN  IF \E j \in 1 .. i - 1 : key(j) = key(i)
                 THEN [before EXCEPT !.violations =
                         @ \cup {violation("duplicate-action", Cpv(actions[i].pkg), <<>>)}]
                 ELSE [packages |-> after.packages, violations |-> before.violations \cup after.violations]
  IN  step[Len(actions)]

-----------------------------------------------------------------------------
(* The plan as a whole.                                                     *)

Installs(actions) == {actions[i] : i \in {j \in DOMAIN actions : actions[j].kind = "install"}}

\* The plan's package is the available one, whose metadata was evaluated.
validateActionAuthority(available, actions) ==
  UNION {LET same == {p \in available : packageIdentity(p) = packageIdentity(a.pkg)}
         IN  CASE same = {} -> {violation("unavailable-package", Cpv(a.pkg), <<>>)}
               [] a.pkg \notin same -> {violation("non-authoritative-package-metadata", Cpv(a.pkg), <<>>)}
               [] OTHER -> {} : a \in Installs(actions)}

validateActionOrder(actions) ==
  LET position(id) == {i \in DOMAIN actions : actions[i].id = id}
      faults(i) ==
        {violation("duplicate-action-id", Cpv(actions[i].pkg), <<>>) :
            j \in {k \in position(actions[i].id) : k < i}}
        \cup {violation("missing-prerequisite-action", Cpv(actions[i].pkg), <<>>) :
                 q \in {r \in actions[i].prereq : position(r) = {}}}
        \cup {violation("transaction-order-violation", Cpv(actions[i].pkg), <<>>) :
                 q \in {r \in actions[i].prereq : position(r) # {} /\ Min(position(r)) >= i}}
  IN  UNION {faults(i) : i \in DOMAIN actions}

\* Every action is linked by a selected record that names the same package.  A
\* record is [outcome, action, pkg, reqs]: a package identity, and the atoms that
\* asked for it.
validateDecisionLedger(actions, records) ==
  LET ids == {actions[i].id : i \in DOMAIN actions}
      of(id) == CHOOSE a \in {actions[i] : i \in DOMAIN actions} : a.id = id
      selected == {r \in records : r.outcome = "selected"}
      linked == {r \in selected : r.action \in ids /\ packageIdentity(of(r.action).pkg) = r.pkg}
  IN  {violation("selected-decision-without-action", None, <<>>) : r \in {s \in selected : s.action \notin ids}}
      \cup {violation("decision-action-mismatch", None, <<>>) :
               r \in {s \in selected : s.action \in ids} \ linked}
      \cup {violation("nonselected-decision-with-action", None, <<>>) :
               r \in {s \in records \ selected : s.action # ""}}
      \cup {violation("action-without-selected-decision", Cpv(of(id).pkg), <<>>) :
               id \in ids \ {r.action : r \in linked}}

runtimeDependenciesSatisfied(p, root) ==
  \A c \in {"RDEPEND", "PDEPEND"} \cap DOMAIN p.deps : validateNode(p.deps[c], p, root) = {}

\* A rebuild is justified when the installed package breaks in the final state
\* and its replacement does not.
actionRepairsRuntimeDependency(installed, final, action) ==
  /\ action.replaces # None
  /\ \E old \in installed :
       /\ Cpv(old) = action.replaces /\ old.slot = action.pkg.slot /\ old.cp = action.pkg.cp
       /\ ~runtimeDependenciesSatisfied(old, final)
       /\ runtimeDependenciesSatisfied(action.pkg, final)

validateActionJustification(f, actions, records, final) ==
  LET installs == Installs(actions)
      own == {a.id : a \in {b \in installs :
                \/ \E t \in f.request.targets : stateMatches({b.pkg}, t, None)
                \/ \E r \in records : /\ r.outcome = "selected" /\ r.action = b.id
                                      /\ \E t \in r.reqs : stateMatches({b.pkg}, t, None)
                \/ actionRepairsRuntimeDependency(f.installed, final, b)}}
      wider(ids) == ids \cup UNION {actions[i].prereq : i \in {j \in DOMAIN actions : actions[j].id \in ids}}
      closure[n \in 0 .. Len(actions)] == IF n = 0 THEN own ELSE wider(closure[n - 1])
  IN  {violation("unjustified-action", Cpv(a.pkg), <<>>) :
          a \in {b \in installs : b.id \notin closure[Len(actions)]}}

validateTargets(request, packages) ==
  {violation(IF request.operation = "remove" THEN "retained-removal-target" ELSE "unsatisfied-request-target",
             None, <<Need(t)>>) :
      t \in {u \in request.targets :
               stateMatches(packages, u, None) = (request.operation = "remove")}}

validatePartialMode(request) ==
  IF request.partial \in {"", "nodeps", "onlydeps"} THEN {}
  ELSE {violation("unsupported-partial-mode", None, <<>>)}

\* Policy is what Config and DepExpr model; a masked, unkeyworded or unlicensed
\* package is refused by name here.
validateActionPolicy(f, actions) ==
  {violation("masked-package", Cpv(a.pkg), <<>>) : a \in {b \in Installs(actions) : Cpv(b.pkg) \in f.refused}}

\* The archives of a build-only plan supply nothing to each other.
validateBuildOnly(f, plan) ==
  LET actions == plan.actions
      baseline == UNION {validatePackageDependencies([f EXCEPT !.request.build = FALSE], p, FALSE, f.installed)
                         \cup validatePackageRequiredUse(p) : p \in f.installed}
      built == {a.pkg : a \in {b \in Installs(actions) : ~b.pkg.binary}}
      outputs == f.installed \cup built
      tools(p) == [p EXCEPT !.deps = [c \in DOMAIN p.deps \cap {"DEPEND", "BDEPEND"} |-> p.deps[c]]]
      own == validateActionAuthority(f.available, actions) \cup validateActionPolicy(f, actions)
             \cup validateActionOrder(actions) \cup validateDecisionLedger(actions, plan.records)
             \cup {violation("unsupported-build-action", Cpv(actions[i].pkg), <<>>) :
                      i \in {j \in DOMAIN actions : actions[j].pkg \notin built \/ actions[j].kind # "install"}}
             \cup UNION {validatePackageDependencies(f, tools(p), TRUE, f.installed)
                         \cup validatePackageRequiredUse(p) : p \in built}
             \cup IF f.request.partial = "onlydeps" THEN {}
                  ELSE validateTargets(f.request, outputs) \cup validateActionJustification(f, actions, plan.records, outputs)
  IN  baseline \cup validatePartialMode(f.request) \cup {[v EXCEPT !.build = TRUE] : v \in own}

ValidateFinalState(f, plan) ==
  LET applied == ApplyPlan(f.installed, plan.actions)
      final == applied.packages
      installing == {packageIdentity(a.pkg) : a \in Installs(plan.actions)}
  IN  IF f.request.build THEN validateBuildOnly(f, plan)
      ELSE applied.violations \cup validatePartialMode(f.request)
           \cup validateActionAuthority(f.available, plan.actions)
           \cup validateActionPolicy(f, plan.actions)
           \cup validateActionOrder(plan.actions)
           \cup validateDecisionLedger(plan.actions, plan.records)
           \cup UNION {validatePackageDependencies(f, p, packageIdentity(p) \in installing, final)
                       \cup validatePackageRequiredUse(p) : p \in final}
           \cup IF f.request.partial = "onlydeps" THEN {}
                ELSE validateTargets(f.request, final) \cup validateActionJustification(f, plan.actions, plan.records, final)

-----------------------------------------------------------------------------
(* The impact of a plan: what it introduces.  A report at the cap of        *)
(* records cannot prove that nothing is missing from it.                    *)

nonWaivableViolation(v) ==
  v.kind \in {"unsatisfied-request-target", "retained-removal-target", "duplicate-action",
              "duplicate-action-id", "duplicate-decision-id", "missing-removal-target",
              "invalid-replacement-target", "already-installed", "slot-collision"}
Full(violations) == Cardinality(violations) >= MaxViolationRecords
Inconclusive == {violation("comparison-inconclusive", None, <<>>)}

NoPlan == [actions |-> <<>>, records |-> {}]
Baseline(f) ==
  ValidateFinalState([f EXCEPT !.request = [operation |-> "install", targets |-> {},
                                            partial |-> f.request.partial, build |-> FALSE]], NoPlan)

validateNoActionImpact(f, plan) ==
  LET baseline == Baseline(f)
  IN  IF Full(baseline) THEN Inconclusive
      ELSE {v \in baseline : nonWaivableViolation(v)}
           \cup validateDecisionLedger(plan.actions, plan.records)
           \cup IF f.request.partial = "onlydeps" THEN {} ELSE validateTargets(f.request, f.installed)

\* Mutant: a defect of the same version is waived although the plan installs it.
Introduced_not_reinstalled(f, plan) ==
  LET baseline == Baseline(f)
      planned == ValidateFinalState(f, plan)
  IN  IF Full(baseline) \/ Full(planned) THEN Inconclusive
      ELSE {v \in planned : nonWaivableViolation(v) \/ v \notin baseline}

Introduced(f, plan) ==
  LET baseline == Baseline(f)
      planned == ValidateFinalState(f, plan)
      installing == {Cpv(a.pkg) : a \in Installs(plan.actions)}
  IN  IF Full(baseline) \/ Full(planned) THEN Inconclusive
      ELSE {v \in planned : \/ ~f.request.build /\ v.pkg \in installing
                            \/ nonWaivableViolation(v)
                            \/ v \notin baseline}

ValidatePlanImpact(f, plan) ==
  IF plan.actions = <<>> THEN validateNoActionImpact(f, plan) ELSE Introduced(f, plan)

-----------------------------------------------------------------------------
(* := operators.  A merge binds each of them to the slot of the best        *)
(* package that is installed at that moment; the prediction binds all of    *)
(* them in the final state.                                                 *)

Unbound(node) == node.kind = "atom" /\ node.atom.bind /\ node.atom.subslot = ""
Best(owner, a, packages) ==
  LET found == {p \in packages : matches(p, a) /\ useDependenciesMatch(p, a.uses, <<owner>>)}
  IN  {p \in found : \A q \in found : q.ver <= p.ver}

RECURSIVE Bound(_, _, _)
Bound(node, owner, packages) ==
  LET best == Best(owner, node.atom, packages)
      p == CHOOSE q \in best : TRUE
  IN  IF Unbound(node) /\ best # {}
      THEN [node EXCEPT !.atom.slot = p.slot, !.atom.subslot = p.subslot]
      ELSE [node EXCEPT !.kids = [i \in DOMAIN node.kids |-> Bound(node.kids[i], owner, packages)]]
\* Two best providers of one version leave the operator ambiguous.
RECURSIVE Ambiguous(_, _, _)
Ambiguous(node, owner, packages) ==
  \/ Unbound(node) /\ Cardinality(Best(owner, node.atom, packages)) > 1
  \/ \E i \in DOMAIN node.kids : Ambiguous(node.kids[i], owner, packages)

bindBuiltSlotOperators(p, packages) ==
  [p EXCEPT !.deps = [c \in DOMAIN p.deps |-> Bound(p.deps[c], p, packages)]]

PredictCommittedState(packages) ==
  {IF p.vdb \/ p.binary THEN p ELSE bindBuiltSlotOperators(p, packages) : p \in packages}
Predictable(packages) ==
  \A p \in packages : p.vdb \/ p.binary \/ \A c \in DOMAIN p.deps : ~Ambiguous(p.deps[c], p, packages)

\* One merge: the operators of a source package are bound among the packages
\* that are installed before it.
expandBuiltSlotOperators(p, installed) ==
  IF p.binary THEN p ELSE bindBuiltSlotOperators(p, installed)
Merged(packages, action) ==
  LET rest == {p \in packages : packageIdentity(p) # packageIdentity(action.pkg) /\ Cpv(p) # action.replaces}
  IN  IF action.kind = "remove" THEN rest
      ELSE rest \cup {expandBuiltSlotOperators(action.pkg, packages)}
Execute(installed, actions) == FoldLeft(Merged, installed, actions)

normalizedEffectiveUse(p) == p.use \cap p.iuse
ValidateCommittedState(predicted, actual) ==
  LET key(p) == <<p.cp, p.slot>>
      keys == {key(p) : p \in predicted \cup actual}
      in(S, k) == {p \in S : key(p) = k}
      kind(p, q) ==
        CASE Cpv(p) # Cpv(q) \/ p.subslot # q.subslot -> {"actual-package-identity-mismatch"}
          [] normalizedEffectiveUse(p) # normalizedEffectiveUse(q) -> {"actual-use-mismatch"}
          [] p.deps # q.deps -> {"actual-dependency-mismatch"}
          [] OTHER -> {}
  IN  UNION {CASE in(predicted, k) = {} -> {"unexpected-actual-package"}
               [] in(actual, k) = {} -> {"missing-actual-package"}
               [] OTHER -> UNION {kind(p, q) : p \in in(predicted, k), q \in in(actual, k)} : k \in keys}
=============================================================================
