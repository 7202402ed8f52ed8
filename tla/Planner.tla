------------------------------ MODULE Planner ------------------------------
(***************************************************************************)
(* The candidate search of internal/resolve/resolve.go: which version each  *)
(* requirement selects, and how a selection pulls in its dependencies,      *)
(* replaces an earlier selection, and removes what it blocks.               *)
(*                                                                          *)
(* A package version is a pair <<cp, ver>>.  The repository and the         *)
(* installed database are one function repo from versions to records:       *)
(* slot, sub (the subslot), installed, available, masked, keyword,          *)
(* changed (its USE or dependencies differ from the installed build), use   *)
(* and had (the value of the one USE flag now and when it was built), fixed *)
(* (policy pins the flag), gate (the policy that refuses it), deps and      *)
(* ideps (dependencies in the repository and as recorded when installed).   *)
(* One root, one repository, and no old-style virtual providers.            *)
(*                                                                          *)
(* The search is one recursive walk over the resolver's state, the record r *)
(* of `Start`; every operator takes it and returns it, with r.err set where *)
(* the code returns an error.                                               *)
(***************************************************************************)
EXTENDS Integers, Sequences, FiniteSets, SequencesExt, FiniteSetsExt

CONSTANT Extends    \* pairs <<cp, longer>>: the second name begins with the first and "-"

VARIABLES repo,     \* what the tree offers and what is installed
          cfg       \* the options of the run

None == <<"", 0>>
Cp(v) == v[1]
Ver(v) == v[2]
Versions(cp) == {v \in DOMAIN repo : Cp(v) = cp}
Best(S) == IF S = {} THEN None ELSE CHOOSE v \in S : \A w \in S : Ver(w) <= Ver(v)

----------------------------------------------------------------------------
(* Atoms: op and lit are the version operator and the version it names,     *)
(* eqop the slot operator, use the state required of the flag.              *)

Atom(cp, op, lit, slot) ==
    [cp |-> cp, op |-> op, lit |-> lit, slot |-> slot, sub |-> "", eqop |-> FALSE, use |-> ""]
Plain(cp) == Atom(cp, "", 0, "")
Exact(v) == [Atom(Cp(v), "eq", Ver(v), repo[v].slot) EXCEPT !.sub = repo[v].sub]
\* versionedConstraintAtom keeps what the requirement says about USE.
Pinned(a, v) == [Exact(v) EXCEPT !.use = a.use, !.eqop = a.eqop]

versionAtomMatches(a, v, on) ==
    /\ Cp(v) = a.cp
    /\ CASE a.op = "" -> TRUE
         [] a.op = "ge" -> Ver(v) >= a.lit
         [] a.op = "le" -> Ver(v) <= a.lit
         [] a.op = "eq" -> Ver(v) = a.lit
    /\ a.slot = "" \/ a.slot = repo[v].slot
    /\ a.sub = "" \/ a.sub = repo[v].sub
    /\ a.use = "" \/ (a.use = "on") = on

candidateUse(r, v) == repo[v].use # (v \in r.over)
Offers(r, a, v) == versionAtomMatches(a, v, candidateUse(r, v))
Holds(a, v) == versionAtomMatches(a, v, repo[v].had)      \* as installed
versionExcluded(v) == Cp(v) \in cfg.exclude

Installed(cp) == {v \in Versions(cp) : repo[v].installed}
GetInstalledVersionForSlot(cp, slot) == Best({v \in Installed(cp) : repo[v].slot = slot})
matchingInstalledVersion(a) == Best({v \in Installed(a.cp) : Holds(a, v)})

Visible(v) == /\ ~repo[v].masked
              /\ repo[v].installed \/ repo[v].keyword
              /\ repo[v].installed \/ ~versionExcluded(v)
findMatchingVersion(r, a) == Best({v \in Versions(a.cp) : Offers(r, a, v) /\ Visible(v)})
versionsSatisfyingAll(r, cp, slot, cons) ==
    {v \in Versions(cp) : /\ repo[v].slot = slot /\ Visible(v)
                          /\ repo[v].installed \/ repo[v].available
                          /\ \A i \in DOMAIN cons : Offers(r, cons[i], v)}

\* matchingVersionUseChanges: the best version that only the flag rules out.
matchingVersionUseChanges(r, a) ==
    IF a.use = "" THEN None
    ELSE Best({v \in Versions(a.cp) : /\ Offers(r, [a EXCEPT !.use = ""], v)
                                      /\ ~Offers(r, a, v)
                                      /\ repo[v].available /\ ~repo[v].masked
                                      /\ repo[v].keyword /\ ~repo[v].fixed})

----------------------------------------------------------------------------
(* The resolver's state.                                                    *)

Start == [inst |-> {},          \* toInstall
          owners |-> {},        \* actionOwners: pairs <<action, parent version>>
          roots |-> {},         \* rootActionKeys
          unin |-> {},          \* toUninstall
          conf |-> <<>>,        \* conflicts
          seen |-> {},          \* seenDeps
          active |-> {},        \* activeDeps
          path |-> <<>>,        \* dependencyPath
          sel |-> {},           \* selectedCPs
          cons |-> <<>>,        \* constraints, as <<cp, slot, atom>>
          over |-> {},          \* useOverrides: versions with the flag turned
          asked |-> {},         \* useChangeSeen
          pending |-> Plain(""),
          left |-> cfg.backtrack,
          paid |-> {},          \* decisionHistory
          err |-> FALSE]

Slotted(r, cp, slot) == {v \in r.inst : Cp(v) = cp /\ repo[v].slot = slot}
\* What is recorded of a conflict: its kind, and the packages it names.
Conflict(r, kind, cp, a) == [r EXCEPT !.conf = Append(@, <<kind, cp, a>>)]
\* Without --keep-going a conflict is also an error.
Fail(r, kind, cp, a) == [Conflict(r, kind, cp, a) EXCEPT !.err = ~cfg.keepGoing]
persistentRepairConflict(c) == c[1] \in {"use-change", "masked", "license"}
constraintsOf(r, cp, slot) ==
    LET mine == SelectSeq(r.cons, LAMBDA c : c[1] = cp /\ c[2] = slot)
    IN  [i \in DOMAIN mine |-> mine[i][3]]

deleteInstall(r, S) ==
    [r EXCEPT !.inst = @ \ S, !.owners = {p \in @ : p[1] \notin S}]
addOwner(r, v) == IF r.path = <<>> THEN r
                  ELSE [r EXCEPT !.owners = @ \cup {<<v, Last(r.path)>>}]
setInstall(r, v) == addOwner([r EXCEPT !.inst = @ \cup {v}], v)

\* scheduledReplacement: the action that will take the installed version's slot.
scheduledReplacement(r, v) ==
    IF v = None THEN None ELSE Best(Slotted(r, Cp(v), repo[v].slot))
packageScheduled(r, cp) == \E v \in r.inst : Cp(v) = cp

\* A decision that was already paid for is free.
consumeBacktrack(r, d) ==
    CASE d \in r.paid -> r
      [] d \notin r.paid /\ r.left = 0 -> [Conflict(r, "budget", d[1], Plain(d[1])) EXCEPT !.err = TRUE]
      [] OTHER -> [r EXCEPT !.left = @ - 1, !.paid = @ \cup {d}]

\* retractSupersededParent: the parents of cp other than keep give up the
\* actions they caused, and an action nobody wants any more goes with its own.
RECURSIVE removeOwners(_, _)
removeOwners(r, queue) ==
    IF queue = {} THEN r
    ELSE LET o == CHOOSE q \in queue : TRUE
             had == {v \in r.inst : <<v, o>> \in r.owners}
             left == {p \in r.owners : p[2] # o \/ p[1] \notin r.inst}
             gone == {v \in had : ~(\E p \in left : p[1] = v) /\ v \notin r.roots}
             r1 == [r EXCEPT !.owners = left, !.seen = @ \ {o}]
         IN  removeOwners(deleteInstall(r1, gone), (queue \ {o}) \cup gone)
retractSupersededParent(r, cp, keep) ==
    removeOwners(r, {p[2] : p \in {q \in r.owners : /\ q[2] # keep
                                                    /\ Cp(q[2]) = cp \/ <<cp, Cp(q[2])>> \in Extends}})

\* findMatchingVersionWithUseChanges turns the flag and asks for the change once.
withUseChange(r, v, a) ==
    LET r0 == [r EXCEPT !.over = IF v \in @ THEN @ \ {v} ELSE @ \cup {v}, !.seen = @ \ {v}]
        r1 == IF v \in r.inst THEN addOwner(r0, v) ELSE r0
    IN  IF <<a.cp, a.use>> \in r.asked THEN r1
        ELSE [Conflict(r1, "use-change", a.cp, a) EXCEPT !.asked = @ \cup {<<a.cp, a.use>>}]

----------------------------------------------------------------------------
(* Dependencies of a version: an edge is [type, kind, cond, options];       *)
(* options are conjunctions of atoms, and only an any-of has several.       *)

Active(cond, on) == cond = "" \/ (cond = "on") = on
dependenciesForVersionMetadata(r, v, forced) ==
    LET scheduled == v \in r.inst
        vdb == forced \/ (repo[v].installed /\ ~scheduled /\ (~cfg.dynamic \/ ~repo[v].available))
        raw == IF vdb /\ repo[v].ideps # <<>> THEN repo[v].ideps ELSE repo[v].deps
        on == IF vdb THEN repo[v].had ELSE candidateUse(r, v)
        retained == repo[v].installed /\ ~scheduled
    IN  SelectSeq(raw, LAMBDA e : /\ Active(e.cond, on)
                                  /\ retained => /\ e.type # "install"
                                                 /\ e.type \in {"depend", "build"} => cfg.bdeps)
dependenciesForVersion(r, v) == dependenciesForVersionMetadata(r, v, FALSE)

\* anyOfInstalledAlternativeIsNotNewest
notNewest(v) == \E w \in Installed(Cp(v)) : Ver(w) > Ver(v)

\* One alternative of an any-of: its members, and whether each can be had.
Fits(r, a, pick) ==
    LET cons == constraintsOf(r, a.cp, repo[pick].slot)
    IN  pick # None /\ (cons # <<>> =>
            versionsSatisfyingAll(r, a.cp, repo[pick].slot, Append(cons, a)) # {})
Member(r, a) ==
    LET of(have, best, turn) ==
            [atom |-> a, have |-> have, best |-> IF turn # None THEN turn ELSE best,
             turn |-> turn # None,
             ok |-> Fits(r, a, IF best # None THEN best ELSE IF turn # None THEN turn ELSE have)]
        found(have, best) ==
            of(have, best, IF have = None /\ best = None THEN matchingVersionUseChanges(r, a) ELSE None)
    IN  found(matchingInstalledVersion(a), findMatchingVersion(r, a))
\* The loop stops at the first member that cannot be had; the ones before it count.
Alternative(r, idx, atoms) ==
    LET of(kept) ==
            [idx |-> idx, members |-> kept, ok |-> Len(kept) = Len(atoms),
             installed |-> \A i \in DOMAIN kept : kept[i].have # None,
             scheduled |-> \E i \in DOMAIN kept : packageScheduled(r, kept[i].atom.cp),
             provider |-> \E i \in DOMAIN kept : Installed(kept[i].atom.cp) # {}]
        upToFirst(ms, bad) == IF bad = {} THEN ms ELSE SubSeq(ms, 1, Min(bad) - 1)
        tried(ms) == of(upToFirst(ms, {i \in DOMAIN ms : ~ms[i].ok}))
    IN  tried([i \in DOMAIN atoms |-> Member(r, atoms[i])])

\* The order of processAnyOf's sort: not transitive once a conjunction sits
\* between two single alternatives.
Preferred(a, b) ==
    LET single == Len(a.members) = 1 /\ Len(b.members) = 1
        inst == IF a.installed THEN a ELSE b
        stale == cfg.deep /\ cfg.update /\ notNewest(inst.members[1].have)
    IN  CASE single /\ a.scheduled # b.scheduled -> a.scheduled
          [] single /\ a.scheduled = b.scheduled /\ a.installed # b.installed /\ ~stale -> a.installed
          [] single /\ a.scheduled = b.scheduled /\ ~a.installed /\ ~b.installed
                    /\ a.provider # b.provider -> a.provider
          [] OTHER -> a.idx < b.idx
\* sort.Slice is an insertion sort for the dozen alternatives at most there are.
RECURSIVE Sink(_, _)
Sink(s, j) ==
    IF j = 1 \/ ~Preferred(s[j], s[j - 1]) THEN s
    ELSE Sink([s EXCEPT ![j] = s[j - 1], ![j - 1] = s[j]], j - 1)
insertionSort(s) == FoldLeftDomain(LAMBDA acc, i : Sink(acc, i), s, s)

\* The walk goes deeper by planPackage for a requirement, by processDeps for the
\* dependencies of a version and by processEdge for one of them.  Visit, below,
\* makes the call.
RECURSIVE Visit(_, _, _), tryAlternatives(_, _, _, _)
Package(t) == [call |-> "planPackage", atom |-> t]
Dependencies(v) == [call |-> "processDeps", version |-> v]
Dependency(v, e) == [call |-> "processEdge", version |-> v, edge |-> e]

planDependency(r, selected, constraint, depth) ==
    [Visit([r EXCEPT !.pending = constraint], Package(selected), depth) EXCEPT !.pending = r.pending]

Newer(v, w) == Ver(v) > Ver(w)
\* Update and rebuild policy for a dependency that is already installed.
wantsReplacing(have, best) ==
    /\ best # None
    /\ \/ cfg.update /\ Newer(best, have)
       \/ cfg.rebuild /\ repo[best].changed
Retain(r, v, depth) == IF cfg.deep THEN Visit(r, Dependencies(v), depth) ELSE r

processDependency(r, e, a, depth) ==
    LET cp == a.cp
        choose(have, rep, best) ==
            LET kept == rep # None /\ Offers(r, a, rep) /\
                        ~(cfg.deep /\ cfg.update /\ best # None /\ Newer(best, rep))
                stays == have # None /\ rep = None
                turn == IF best = None THEN matchingVersionUseChanges(r, a) ELSE None
            IN  CASE kept -> IF cfg.deep \/ e.type = "build" THEN Visit(r, Dependencies(rep), depth + 1) ELSE r
                  [] /\ stays
                     /\ \/ a.eqop /\ best # None /\ repo[have].sub # repo[best].sub
                        \/ cfg.deep /\ wantsReplacing(have, best) -> planDependency(r, Exact(best), a, depth)
                  [] stays -> Retain(r, have, depth + 1)
                  [] best # None -> planDependency(r, Pinned(a, best), a, depth)
                  [] turn # None -> planDependency(withUseChange(r, turn, a), Pinned(a, turn), a, depth)
                  [] OTHER -> Fail(r, "no-version", cp, a)
        found(have) == choose(have, scheduledReplacement(r, have), findMatchingVersion(r, a))
    IN  IF Versions(cp) = {} THEN Fail(r, "missing", cp, a) ELSE found(matchingInstalledVersion(a))

takeMember(r, m, depth) ==
    CASE r.err -> r
      [] m.have # None /\ cfg.deep /\ wantsReplacing(m.have, m.best) ->
            planDependency(r, Pinned(m.atom, m.best), m.atom, depth)
      [] m.have # None -> Retain(r, m.have, depth)
      [] m.turn -> planDependency(withUseChange(r, m.best, m.atom), Pinned(m.atom, m.best), m.atom, depth)
      [] OTHER -> planDependency(r, Pinned(m.atom, m.best), m.atom, depth)

\* A branch that failed is rolled back: everything but rootActionKeys.
tryAlternatives(r, v, alts, depth) ==
    LET after(r1) ==
            LET new == SubSeq(r1.conf, Len(r.conf) + 1, Len(r1.conf))
                good == ~r1.err /\ \A i \in DOMAIN new : persistentRepairConflict(new[i])
                back == [r EXCEPT !.roots = r1.roots]
                paid == consumeBacktrack(back, <<Cp(v), "any", Head(alts).idx, alts[2].idx>>)
            IN  CASE good -> r1
                  [] ~good /\ (Len(alts) = 1 \/ paid.err) -> Fail(back, "any-of", Cp(v), Plain(Cp(v)))
                  [] OTHER -> tryAlternatives(paid, v, Tail(alts), depth)
    IN  IF alts = <<>> THEN Fail(r, "any-of", Cp(v), Plain(Cp(v)))
        ELSE after(FoldLeft(LAMBDA acc, m : takeMember(acc, m, depth), r, Head(alts).members))

processAnyOf(r, v, e, depth) ==
    LET choose(live) ==
            LET good == SelectSeq(live, LAMBDA c : c.ok)
            IN  CASE good # <<>> -> tryAlternatives(r, v, insertionSort(good), depth)
                  [] good = <<>> /\ live = <<>> /\ ~e.active -> r     \* before EAPI 7
                  [] OTHER -> Fail(r, "any-of", Cp(v), Plain(Cp(v)))
        alts == [i \in DOMAIN e.options |-> Alternative(r, i, e.options[i])]
    IN  choose(SelectSeq(alts, LAMBDA c : c.members # <<>>))

processBlock(r, v, a) ==
    LET stays(w) == LET rep == scheduledReplacement(r, w) IN rep = None \/ Offers(r, a, rep)
        world == \/ a.cp \in cfg.world
                 \/ \E i \in DOMAIN cfg.targets : cfg.targets[i].cp = a.cp
                 \/ packageScheduled(r, a.cp)
        clear(blocked, best) ==
            CASE blocked = {} -> r
              [] /\ blocked # {} /\ cfg.update /\ Cardinality(blocked) = 1 /\ best # None
                 /\ Newer(best, Best(blocked)) /\ ~Offers(r, a, best) -> Visit(r, Package(Exact(best)), 0)
              [] world -> Fail(r, "blocked", a.cp, a)
              [] \E w \in blocked : versionExcluded(w) -> Fail(r, "excluded", a.cp, a)
              [] OTHER -> [r EXCEPT !.unin = @ \cup blocked]
    IN  clear({w \in Installed(a.cp) : Holds(a, w) /\ stays(w)}, findMatchingVersion(r, Plain(a.cp)))

processEdge(r, v, e, depth) ==
    CASE e.kind = "any" -> processAnyOf(r, v, e, depth)
      [] e.kind # "any" /\ e.type = "build" /\ ~packageScheduled(r, Cp(v)) /\ ~cfg.bdeps -> r
      [] e.kind = "block" -> processBlock(r, v, e.options[1][1])
      [] OTHER -> processDependency(r, e, e.options[1][1], depth)

processDeps(r, v, depth) ==
    LET rep == scheduledReplacement(r, v)
        w == IF repo[v].installed /\ rep # None THEN rep ELSE v
        r1 == [r EXCEPT !.seen = @ \cup {w}, !.active = @ \cup {w}, !.path = Append(@, w)]
        r2 == FoldLeft(LAMBDA acc, e : IF acc.err THEN acc ELSE processEdge(acc, w, e, depth),
                       r1, dependenciesForVersion(r1, w))
    IN  IF w \in r.active \/ w \in r.seen THEN r
        ELSE [r2 EXCEPT !.active = @ \ {w}, !.path = r.path]

----------------------------------------------------------------------------
(* planPackage.                                                             *)

MaxChain == 100     \* the depth at which a dependency chain is given up

\* The version the slot settles on once this requirement joins the earlier
\* ones; [r, v], with the backtrack decision paid when it replaces a selection.
Settle(r, v, constraint) ==
    LET cp == Cp(v)
        slot == repo[v].slot
        r1 == [r EXCEPT !.cons = Append(@, <<cp, slot, constraint>>)]
        choices == versionsSatisfyingAll(r1, cp, slot, constraintsOf(r1, cp, slot))
        old == Best(Slotted(r, cp, slot))
        w == Best(choices)
    IN  CASE choices = {} -> [r |-> Fail(r1, "slot-conflict", cp, constraint), v |-> v]
          [] choices # {} /\ old # None /\ old # w ->
                [r |-> consumeBacktrack(r1, <<cp, slot, old, w>>), v |-> w]
          [] OTHER -> [r |-> r1, v |-> w]

\* The installed version stays: a selection it rules out is cancelled.
Keep(r, v, constraint, depth) ==
    LET ruledOut(r1) == {w \in Slotted(r1, Cp(v), repo[v].slot) : w \notin r1.roots /\ ~Offers(r1, constraint, w)}
        cancelled(r1) == deleteInstall(r1, ruledOut(r1))
    IN  Retain(cancelled(retractSupersededParent(r, Cp(v), v)), v, depth + 1)

\* Mark for install: one action per slot, owned by the parent being expanded.
Select(r, v, depth) ==
    LET placed(r1) == setInstall(deleteInstall(r1, Slotted(r1, Cp(v), repo[v].slot) \ {v}), v)
        r2 == [placed(retractSupersededParent(r, Cp(v), v))
                  EXCEPT !.roots = IF depth = 0 THEN @ \cup {v} ELSE @]
    IN  Visit(r2, Dependencies(v), depth + 1)

planPackage(r0, t, depth) ==
    LET cp == t.cp
        explicit == cp \in cfg.explicit
        r == [r0 EXCEPT !.sel = @ \cup {cp}]
        v0 == findMatchingVersion(r, t)
        have0 == matchingInstalledVersion(t)
        matching == {w \in Versions(cp) : Offers(r, t, w)}
        masked == {w \in matching : repo[w].masked}
        avail == {w \in matching : repo[w].available}
        allMasked == avail # {} /\ avail \subseteq masked
        constraint == IF r.pending.cp = cp THEN r.pending ELSE t
        allowUpdate == (cfg.update \/ (depth = 0 /\ explicit)) /\ (depth = 0 \/ cfg.deep)
        force == cfg.reinstall /\ depth = 0 /\ explicit
        settled(r1, v) ==
            LET have == GetInstalledVersionForSlot(cp, repo[v].slot)
                fits == have # None /\ Holds(constraint, have)
                need == \/ allowUpdate /\ Newer(v, have)
                        \/ cfg.rebuild /\ repo[v].changed
                same == cfg.noReplace /\ v = have
            IN  CASE r1.err -> r1
                  [] repo[v].gate # "" -> Fail(r1, repo[v].gate, cp, t)
                  [] fits /\ (versionExcluded(v) \/ same) -> Retain(r1, have, depth + 1)
                  [] fits /\ ~need /\ ~force -> Keep(r1, have, constraint, depth)
                  [] force /\ ~repo[v].available -> Fail(r1, "no-ebuild", cp, t)
                  [] OTHER -> Select(r1, v, depth)
        choice(s) == settled(s.r, s.v)
    IN  CASE depth > MaxChain -> [r0 EXCEPT !.err = TRUE]
          [] Versions(cp) = {} -> Fail(r0, "missing", cp, t)
          [] v0 = None /\ have0 # None /\ (masked # {} \/ ~explicit) -> Retain(r, have0, depth + 1)
          [] v0 = None /\ ~(have0 # None /\ (masked # {} \/ ~explicit)) ->
                Fail(r, IF allMasked THEN "masked" ELSE "no-version", cp, t)
          [] v0 # None /\ repo[v0].installed /\ ~repo[v0].available /\ ~explicit -> Retain(r, v0, depth + 1)
          [] OTHER -> choice(Settle(r, v0, constraint))

Visit(r, c, depth) ==
    CASE c.call = "planPackage" -> planPackage(r, c.atom, depth)
      [] c.call = "processDeps" -> processDeps(r, c.version, depth)
      [] c.call = "processEdge" -> processEdge(r, c.version, c.edge, depth)

\* resolveTargets: every target in turn, from an empty plan.
resolveTargets(targets) ==
    FoldLeft(LAMBDA acc, t : IF acc.err THEN acc ELSE Visit(acc, Package(t), 0), Start, targets)
=============================================================================
