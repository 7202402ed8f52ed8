---------------------------- MODULE MCResolver ----------------------------
(***************************************************************************)
(* Small trees for the resolver: a target a, a library b with an old and a  *)
(* new version in one slot or two, and a third package c that may be        *)
(* installed and use b.  The menus below give each of them the dependencies *)
(* that make plans hard: bounds on either side, a USE requirement, an       *)
(* any-of, blockers, slot operators and cycles.                             *)
(*                                                                          *)
(* The undo log and the search over replayed attempts are checked beside it *)
(* on instances of their own: part says which of the three a behaviour is   *)
(* of, and the slots t1..t12 hold the variables of the other two.           *)
(***************************************************************************)
EXTENDS Resolver, TLC

CONSTANTS Nothing, Something

VARIABLES part, t1, t2, t3, t4, t5, t6, t7, t8, t9, t10, t11, t12

NamesInOrder == <<"a", "b", "c">>
LongerNames == {<<"b", "c">>}     \* c is called b- and something

Edge(type, kind, options) ==
    [type |-> type, kind |-> kind, cond |-> "", active |-> TRUE, options |-> options]
Dep(type, at) == <<Edge(type, "dep", <<<<at>>>>)>>
Block(at) == <<Edge("run", "block", <<<<at>>>>)>>
AnyOf(opts) == <<Edge("run", "any", opts)>>

Base(slot, sub) ==
    [slot |-> slot, sub |-> sub, installed |-> FALSE, available |-> TRUE, masked |-> FALSE,
     keyword |-> TRUE, changed |-> FALSE, use |-> FALSE, had |-> FALSE, fixed |-> FALSE,
     gate |-> "", deps |-> <<>>, ideps |-> <<>>]
Present(v) == [v EXCEPT !.installed = TRUE]

A == Plain("a")
B == Plain("b")
C == Plain("c")
NewB == Atom("b", "ge", 2, "")
OldB == Atom("b", "le", 1, "")
BuiltB == [Atom("b", "", 0, "0") EXCEPT !.sub = "1", !.eqop = TRUE]
LinkedB == [B EXCEPT !.eqop = TRUE]

NeedsOfA == {<<>>, Dep("run", B), Dep("build", NewB), Dep("run", Atom("b", "eq", 1, "")),
             Dep("run", [B EXCEPT !.use = "on"]), AnyOf(<<<<NewB>>, <<C>>>>), Block(OldB),
             Block(C), Dep("run", LinkedB), Dep("run", NewB) \o Dep("run", C)}
NeedsOfB == {<<>>, Dep("run", C), Block(C), Dep("run", Atom("c", "ge", 2, "")), Dep("run", A)}
NeedsOfC == {<<>>, Dep("run", B), Dep("run", OldB), Dep("run", BuiltB), AnyOf(<<<<B>>, <<A>>>>)}

Options ==
    [mode |-> "resolve", targets |-> <<A>>, explicit |-> {"a"}, deep |-> FALSE, update |-> FALSE,
     complete |-> FALSE, keepGoing |-> FALSE, scoped |-> FALSE, rebuild |-> FALSE,
     dynamic |-> FALSE, bdeps |-> FALSE, ignoreSlotOps |-> FALSE, onlyDeps |-> FALSE,
     reinstall |-> FALSE, noReplace |-> FALSE, backtrack |-> 2, exclude |-> {}, world |-> {},
     installs |-> {}, removals |-> {}]
OptionSets ==
    {[Options EXCEPT !.deep = d, !.update = u, !.complete = c, !.targets = t] :
        d \in BOOLEAN, u \in BOOLEAN, c \in BOOLEAN, t \in {<<A>>, <<C, A>>}}
    \cup {[Options EXCEPT !.keepGoing = TRUE, !.deep = TRUE, !.world = {"c"}],
          [Options EXCEPT !.rebuild = TRUE, !.deep = TRUE, !.bdeps = TRUE],
          [Options EXCEPT !.exclude = {"b"}, !.noReplace = TRUE],
          [Options EXCEPT !.backtrack = 0, !.deep = TRUE, !.update = TRUE]}

\* A search over every combination of the menus.
Searched ==
    /\ \E na \in NeedsOfA, nb \in NeedsOfB, nc \in NeedsOfC, slot \in {"0", "2"},
          b \in {"absent", "installed", "orphaned"}, haveC \in BOOLEAN :
        repo = <<"a", 1>> :> [Base("0", "") EXCEPT !.deps = na]
            @@ <<"b", 1>> :> [Base("0", "1") EXCEPT !.installed = b # "absent", !.available = b # "orphaned"]
            @@ <<"b", 2>> :> [Base(slot, "2") EXCEPT !.deps = nb, !.changed = TRUE]
            @@ <<"c", 1>> :> (IF haveC THEN [Present(Base("0", "")) EXCEPT !.ideps = nc, !.deps = nc]
                                       ELSE Base("0", ""))
            @@ <<"c", 2>> :> Base("0", "")
    /\ cfg \in OptionSets

\* A transaction that another command put together: a, b-2 or nothing is
\* installed, b-1, b-2 or nothing is removed.
Certified ==
    /\ \E na \in NeedsOfA, nc \in NeedsOfC \cup {Dep("run", Atom("b", "ge", 1, "")), Dep("run", LinkedB)},
          slot \in {"0", "2"}, both \in BOOLEAN :
        repo = <<"a", 1>> :> [Base("0", "") EXCEPT !.deps = na]
            @@ <<"b", 1>> :> Present(Base("0", "1"))
            @@ <<"b", 2>> :> [Base(slot, "2") EXCEPT !.installed = both /\ slot = "2"]
            @@ <<"c", 1>> :> [Present(Base("0", "")) EXCEPT !.ideps = nc, !.deps = nc]
    /\ \E new \in {{}, {<<"a", 1>>}, {<<"b", 2>>}}, old \in {{}, {<<"b", 1>>}, {<<"b", 2>>}} :
        /\ old \subseteq AllInstalled
        /\ cfg = [Options EXCEPT !.mode = "certify", !.installs = new, !.removals = old]

\* The resolver's undo log: nested branches over one package and one decision.
T == INSTANCE ResolverTx WITH
  Key <- {"a"}, Value <- {Something}, Owner <- {"o"}, Decision <- {"d"},
  PlainMap <- {"seen"}, Charged <- {}, Limit <- 1, MaxDepth <- 2,
  MaxGeneration <- 2, None <- Nothing, table <- t1, history <- t2, remaining <- t3,
  generation <- t4, transactions <- t5, cache <- t6

ASSUME BudgetIsANumber == T!TxAssumption

\* The resolver's search: two decisions of three options, one or two jobs.
S == INSTANCE Replay WITH
  Decisions <- 2, Options <- 3, Limits <- {4}, Jobs <- {1, 2}, MaxBroken <- 1,
  MaxVerified <- 2, MaxTerminal <- 1, broken <- t1, verdict <- t2, limit <- t3,
  jobs <- t4, pc <- t5, overrides <- t6, visited <- t7, charged <- t8,
  history <- t9, remaining <- t10, speculation <- t11, result <- t12

From7 == <<t7, t8, t9, t10, t11, t12>>
slots == <<t1, t2, t3, t4, t5, t6, From7>>
Empty7 == t7 = 0 /\ t8 = 0 /\ t9 = 0 /\ t10 = 0 /\ t11 = 0 /\ t12 = 0
Empty == t1 = 0 /\ t2 = 0 /\ t3 = 0 /\ t4 = 0 /\ t5 = 0 /\ t6 = 0 /\ Empty7
NoPlan == repo = 0 /\ cfg = 0 /\ r = 0 /\ phase = "none" /\ persistent = <<>> /\ attempt = 0

Planned == part = "plan" /\ Begin /\ Empty
Init ==
    \/ (Searched \/ Certified) /\ Planned
    \/ part = "undo log" /\ T!Init /\ Empty7 /\ NoPlan
    \/ part = "search" /\ S!Init /\ NoPlan

Plan == part = "plan" /\ Next /\ UNCHANGED <<part, slots>>
UndoLog == part = "undo log" /\ T!Next /\ UNCHANGED <<part, vars, From7>>
Replays == part = "search" /\ S!Next /\ UNCHANGED <<part, vars>>

Spec == Init /\ [][Plan \/ UndoLog \/ Replays]_<<part, vars, slots>>

----------------------------------------------------------------------------
Final(q) == UNION {finalVersions(q, Names[i], q.unin) : i \in DOMAIN Names}
Met(q, e) ==
    IF e.kind = "block" THEN ~finalAtomSatisfied(q, e.options[1][1], q.unin)
    ELSE \E i \in DOMAIN e.options : \A k \in DOMAIN e.options[i] :
            finalAtomSatisfied(q, e.options[i][k], q.unin)
NeedsMet(q, v) == \A e \in Range(dependenciesForVersion(q, v)) : Met(q, e)
\* What a package that stays needed at run time and had, it still has.
Undisturbed(q, v, about(_)) ==
    \A e \in Range(dependenciesForVersion(q, v)) :
        e.type = "run" /\ about(e) /\ Met(Start, e) => Met(q, e)
Given == [Start EXCEPT !.inst = cfg.installs, !.unin = cfg.removals]

\* A plan that the resolver calls verified gives every package in it all its
\* dependencies and none of its blockers, in the state the plan leads to
\* (verifyPlannedState, and the search before it).
VerifiedPlanIsComplete ==
    Verified /\ cfg.mode = "resolve" => \A v \in r.inst : NeedsMet(r, v)

\* A verified plan breaks no package that stays installed: a runtime dependency
\* that held before the transaction holds after it.
VerifiedPlanBreaksNothing ==
    Verified /\ cfg.mode = "resolve" =>
        \A v \in Final(r) \ r.inst : Undisturbed(r, v, LAMBDA e : TRUE)

\* A plan never holds two versions for one slot of a package, in any step of
\* the search, the rebuilds and the repairs ("Exactly one candidate may occupy
\* a CP/slot in the final plan", planPackage).
OneVersionPerSlot ==
    part = "plan" => \A v, w \in r.inst : Cp(v) = Cp(w) /\ repo[v].slot = repo[w].slot => v = w

\* What was asked for is there when a verified plan has run.
VerifiedPlanMeetsTargets ==
    Verified /\ cfg.mode = "resolve" =>
        \A i \in DOMAIN cfg.targets : finalAtomSatisfied(r, cfg.targets[i], r.unin)

\* The verifier settles after two repairs at most in these trees: repairing
\* never undoes an earlier repair for ever (verifyPlannedState's loop).
RepairsSettle == attempt <= 2

\* A removal that VerifyTransaction accepts takes nothing from a package that
\* names its dependency without version, slot or alternative.
CertifiedRemovalKeepsPlainNeeds ==
    Verified /\ cfg.mode = "certify" /\ cfg.installs = {} =>
        \A v \in Final(Given) : Undisturbed(Given, v, LAMBDA e :
            /\ e.kind = "dep" /\ e.options[1][1].op = "" /\ e.options[1][1].slot = ""
            /\ ~e.options[1][1].eqop)

\* The verdict of verifyPlannedState is right: a verified plan is complete,
\* breaks nothing and meets the targets, a certified removal keeps plain needs,
\* and on the way to either no plan holds two versions for a slot and the repairs
\* settle.
VerdictIsRight ==
    /\ VerifiedPlanIsComplete /\ VerifiedPlanBreaksNothing /\ VerifiedPlanMeetsTargets
    /\ CertifiedRemovalKeepsPlainNeeds /\ OneVersionPerSlot /\ RepairsSettle

\* The resolver's undo log implements Snapshots: a branch that is given up puts
\* back what it found, whatever nested branches did (rollbackTransaction); the
\* ledger of decisions and the budget left add up to config.Backtrack after every
\* step, and a candidate is served only under the flag overrides it was found
\* with.
SnapshotsKept ==
    /\ part = "undo log" => T!Promise!Init
    /\ [][part = "undo log" => T!SnapshotsKept /\ T!LedgerIsBudget' /\ T!CacheFresh']_<<part, slots>>

\* ResolveContext: a conflict with budget left is final; with one job the plan
\* returned is the most preferred one that verifies; no set of overrides is
\* attempted twice (nextUnvisitedReplayState).
SearchIsComplete ==
    part = "search" => S!SearchIsComplete /\ S!PreferredPlanFound /\ S!ReplaysAreNew

\* A removal that VerifyTransaction accepts takes nothing any retained package
\* needs at run time ("Removal-oriented commands use this entry point so they
\* receive the same whole-state dependency ... checks").
CertifiedRemovalBreaksNothing ==
    Verified /\ cfg.installs = {} => \A v \in Final(Given) : Undisturbed(Given, v, LAMBDA e : TRUE)

\* VerifyTransaction certifies exactly the transaction it was given: the
\* packages in it find what they need without any further action.
CertifiedAsGiven == Verified => \A v \in cfg.installs : NeedsMet(Given, v)

=============================================================================
