------------------------------ MODULE Resolver ------------------------------
(***************************************************************************)
(* One attempt of the resolver, internal/resolve/resolve.go, from the       *)
(* candidate search to the verdict on the plan: the search of Planner, the  *)
(* refresh of committed updates, the rebuilds that a changed subslot asks   *)
(* for, and the verifier, which checks the state the plan leads to, repairs *)
(* the plan and checks again until nothing is left to repair.  The same     *)
(* verifier, without the search, certifies a transaction that some other    *)
(* command put together (VerifyTransaction).                                *)
(***************************************************************************)
EXTENDS Planner

CONSTANT Names      \* every package name, in the order the verifier visits them

VARIABLES r,          \* the resolver's state
          phase,      \* the step of resolveAttempt that comes next
          persistent, \* conflicts that survive a verifier pass
          attempt     \* verifier passes made

vars == <<repo, cfg, r, phase, persistent, attempt>>

MaxAttempts == 100

FoldSeqOf(op(_, _), base, s) == FoldLeft(LAMBDA acc, x : op(acc, x), base, s)
Ordered(S) == SetToSortSeq(S, LAMBDA v, w : LET i == CHOOSE k \in DOMAIN Names : Names[k] = Cp(v)
                                               j == CHOOSE k \in DOMAIN Names : Names[k] = Cp(w)
                                           IN  i < j \/ (i = j /\ Ver(v) < Ver(w)))

----------------------------------------------------------------------------
(* refreshCommittedDirectUpdates: every version the search expanded has its *)
(* plain dependencies looked at once more.                                  *)

RefreshOne(acc, v) ==
    LET rep == scheduledReplacement(acc, v)
        w == IF repo[v].installed /\ rep # None THEN rep ELSE v
        edges == SelectSeq(dependenciesForVersion(acc, w), LAMBDA e : e.kind = "dep")
        acc1 == FoldSeqOf(LAMBDA a, e : IF a.err THEN a ELSE Visit(a, Dependency(w, e), 1),
                          [acc EXCEPT !.path = Append(@, w)], edges)
    IN  IF acc.err THEN acc ELSE [acc1 EXCEPT !.path = acc.path]
refreshCommittedDirectUpdates(s) == FoldSeqOf(RefreshOne, s, Ordered(s.seen))

----------------------------------------------------------------------------
(* processCompleteGraph: rebuild the installed packages bound to a subslot  *)
(* that changed, or that no installed provider has any more.                *)

InstalledAtoms(v) ==      \* the atoms of the dependencies recorded for it
    UNION {UNION {Range(opt) : opt \in Range(e.options)} :
           e \in {x \in Range(dependenciesForVersionMetadata(Start, v, TRUE)) : TRUE}}
Bindings(v) == {a \in InstalledAtoms(v) : a.eqop /\ a.sub # ""}
AllInstalled == {v \in DOMAIN repo : repo[v].installed}

\* Only the first installed version in the slot is compared.
installedVersionHasStaleBinding(v) ==
    \E a \in Bindings(v) : \E w \in Installed(a.cp) :
        (a.slot = "" \/ repo[w].slot = a.slot) /\ repo[w].sub # a.sub
staleInstalledSlotOperatorDependents(s) ==
    {v \in AllInstalled : /\ cfg.scoped => Cp(v) \in s.sel \/ v \in s.seen
                          /\ installedVersionHasStaleBinding(v)}
installedSlotOperatorDependents(cp, slot) ==
    {v \in AllInstalled : \E a \in Bindings(v) : a.cp = cp /\ (a.slot = "" \/ a.slot = slot)}

Rebuild(acc, v) ==
    LET best == findMatchingVersion(acc, Atom(Cp(v), "", 0, repo[v].slot))
    IN  IF \/ scheduledReplacement(acc, v) # None \/ v \in acc.unin
           \/ best = None \/ ~repo[best].available \/ versionExcluded(best)
        THEN acc ELSE setInstall(acc, best)

RECURSIVE rebuildClosure(_, _)
rebuildClosure(s, processed) ==
    LET todo == Ordered(s.inst \ processed)
        one(acc, p) ==
            LET have == GetInstalledVersionForSlot(Cp(p), repo[p].slot)
            IN  IF \/ findMatchingVersion(acc, Exact(p)) = None \/ have = None
                   \/ repo[have].sub = "" \/ repo[p].sub = "" \/ repo[have].sub = repo[p].sub
                THEN acc
                ELSE FoldSeqOf(Rebuild, acc, Ordered(installedSlotOperatorDependents(Cp(p), repo[p].slot)))
        s1 == FoldSeqOf(one, s, todo)
    IN  IF s1.inst = s.inst THEN s1 ELSE rebuildClosure(s1, processed \cup s.inst)
processCompleteGraph(s) ==
    IF cfg.ignoreSlotOps THEN s
    ELSE rebuildClosure(FoldSeqOf(Rebuild, s, Ordered(staleInstalledSlotOperatorDependents(s))), {})

----------------------------------------------------------------------------
(* The state the plan leads to.                                             *)

finalVersions(s, cp, removed) ==
    {v \in Versions(cp) : \/ v \in s.inst
                          \/ /\ repo[v].installed /\ v \notin removed
                             /\ Slotted(s, cp, repo[v].slot) = {}}
finalAtomSatisfied(s, a, removed) ==
    \E v \in finalVersions(s, a.cp, removed) :
        IF v \in s.inst THEN Offers(s, a, v) ELSE Holds(a, v)

\* The text of a version's dependencies, as far as a substring search sees it:
\* a search for a name also finds the longer names that begin with it.
TextAtoms(v) == UNION {UNION {Range(opt) : opt \in Range(e.options)} :
                       e \in Range(repo[v].deps) \cup Range(repo[v].ideps)}
Longer(cp, name) == <<cp, name>> \in Extends
\* Mutant: what is installed anew affects nobody.
mention_removals_only(v, changed, removals) ==
    \E a \in TextAtoms(v) : \E w \in removals : a.cp = Cp(w)
versionDependenciesMentionTransaction(v, changed, removals) ==
    LET text == TextAtoms(v)
        names(cp) == \E a \in text : a.cp = cp \/ Longer(cp, a.cp)
        dash(cp) == \E a \in text : (a.cp = cp /\ a.op # "") \/ Longer(cp, a.cp)
        colon(cp) == \E a \in text : a.cp = cp /\ a.op = "" /\ (a.slot # "" \/ a.eqop)
        affects(w) ==
            CASE ~names(Cp(w)) -> FALSE
              [] names(Cp(w)) /\ dash(Cp(w)) ->
                    \E a \in text : a.cp = Cp(w) /\ a.op # "" /\ a.lit = Ver(w)
              [] names(Cp(w)) /\ ~dash(Cp(w)) /\ colon(Cp(w)) ->
                    \E a \in text : a.cp = Cp(w) /\ a.slot = repo[w].slot
              [] OTHER -> TRUE
    IN  (\E cp \in changed : names(cp)) \/ (\E w \in removals : affects(w))

----------------------------------------------------------------------------
(* One pass of the verifier.  s is [r, repaired]; changed and removed are   *)
(* what the pass found planned when it began.                               *)

Issue(s, c) == IF \E i \in DOMAIN s.r.conf : s.r.conf[i] = c THEN s
               ELSE [s EXCEPT !.r.conf = Append(@, c)]
Recovered(q) == [q EXCEPT !.err = FALSE]     \* an error the verifier turns into a conflict

scheduleVerificationRebuild(s, v) ==         \* [s, added, err]
    LET best == findMatchingVersion(s.r, Atom(Cp(v), "", 0, repo[v].slot))
        rebuilt(q) == [s |-> [s EXCEPT !.r = Recovered(q)], added |-> TRUE, err |-> q.err]
    IN  IF best = None \/ ~repo[best].available \/ versionExcluded(best) \/ best \in s.r.inst
        THEN [s |-> s, added |-> FALSE, err |-> FALSE]
        ELSE rebuilt(Visit(setInstall(s.r, best), Dependencies(best), 1))

addIssue(s, v, changing, c) ==
    LET try == cfg.complete /\ ~changing
        orphan == ~changing /\ cfg.mode = "resolve" /\ ~\E w \in Versions(Cp(v)) : repo[w].available
        judged(rb) ==
            CASE rb.added /\ rb.err -> Issue(rb.s, <<"repair-failed", c[2], c[3]>>)
              [] rb.added /\ ~rb.err -> [rb.s EXCEPT !.repaired = TRUE]
              [] ~rb.added /\ orphan /\ v \notin s.r.seen -> s          \* a warning
              [] ~rb.added /\ orphan /\ v \in s.r.seen -> Issue(s, <<"installed-only", Cp(v), Plain(Cp(v))>>)
              [] OTHER -> Issue(s, c)
    IN  judged(IF try THEN scheduleVerificationRebuild(s, v) ELSE [added |-> FALSE])

\* repairDependency for a dependency of a planned package; [s, done].
repairDependency(s, a) ==
    LET best0 == findMatchingVersion(s.r, a)
        turn == IF best0 = None THEN matchingVersionUseChanges(s.r, a) ELSE None
        best == IF best0 # None THEN best0 ELSE turn
        q0 == IF turn # None THEN withUseChange(s.r, turn, a) ELSE s.r
        planned(q) ==
            LET same == <<q.inst, q.unin, q.cons>> = <<q0.inst, q0.unin, q0.cons>>
            IN  CASE q.err -> [s |-> Issue([s EXCEPT !.r = Recovered(q)], <<"repair-failed", a.cp, a>>),
                               done |-> FALSE]
                  [] ~q.err /\ same -> [s |-> [s EXCEPT !.r = q], done |-> FALSE]
                  [] OTHER -> [s |-> [s EXCEPT !.r = q, !.repaired = TRUE], done |-> TRUE]
    IN  IF best = None THEN [s |-> s, done |-> FALSE]
        ELSE planned(planDependency(q0, Pinned(a, best), a, 1))

verifyEdge(s, v, e, changing, changed, removed) ==
    LET a == e.options[1][1]
        met(opt) == \A i \in DOMAIN opt : finalAtomSatisfied(s.r, opt[i], removed)
        anyMet == \E i \in DOMAIN e.options : met(e.options[i])
        touched == \E i \in DOMAIN e.options : \E k \in DOMAIN e.options[i] : e.options[i][k].cp \in changed
        fixed(rp) == IF rp.done THEN rp.s ELSE addIssue(rp.s, v, changing, <<"unsatisfied", Cp(v), a>>)
    IN  CASE ~changing /\ e.type \in {"build", "depend", "install"} -> s
          [] e.kind = "any" /\ ~anyMet /\ (changing \/ touched) -> addIssue(s, v, changing, <<"no-alternative", Cp(v), Plain(Cp(v))>>)
          [] e.kind = "any" /\ ~(~anyMet /\ (changing \/ touched)) -> s
          [] e.kind # "any" /\ ~changing /\ a.cp \notin changed \cup {Cp(w) : w \in removed} -> s
          [] e.kind = "block" /\ finalAtomSatisfied(s.r, a, removed) -> addIssue(s, v, changing, <<"still-blocked", Cp(v), a>>)
          [] e.kind = "dep" /\ ~finalAtomSatisfied(s.r, a, removed) ->
                fixed(IF changing THEN repairDependency(s, a) ELSE [s |-> s, done |-> FALSE])
          [] OTHER -> s

verifyVersion(s, v, changed, removed) ==
    LET changing == v \in s.r.inst
        skip == \/ cfg.scoped /\ cfg.complete /\ ~changing /\ v \notin s.r.seen
                \/ ~changing /\ ~versionDependenciesMentionTransaction(v, changed, s.r.unin)
    IN  IF skip THEN s
        ELSE FoldSeqOf(LAMBDA acc, e : verifyEdge(acc, v, e, changing, changed, removed),
                       s, dependenciesForVersion(s.r, v))

verifyPackage(s, cp, changed, removed) ==
    LET skip == \/ cp \notin changed /\ Installed(cp) = {}
                \/ /\ cfg.scoped /\ cfg.complete /\ cp \notin changed /\ cp \notin s.r.sel
                   /\ \E w \in Versions(cp) : repo[w].available
        bySlot == SetToSortSeq(finalVersions(s.r, cp, removed),
                               LAMBDA v, w : v # w /\ Ver(v) < Ver(w))
    IN  IF skip THEN s
        ELSE FoldSeqOf(LAMBDA acc, v : verifyVersion(acc, v, changed, removed), s, bySlot)

verifyPlannedStatePass(q) ==
    LET changed == {Cp(v) : v \in q.inst}
    IN  FoldSeqOf(LAMBDA acc, cp : verifyPackage(acc, cp, changed, q.unin),
                  [r |-> q, repaired |-> FALSE], Names)

transactionKey(q) == <<q.inst, q.over \cap q.inst, q.unin>>

----------------------------------------------------------------------------
(* resolveAttempt and VerifyTransaction, step by step.                      *)

\* cfg.mode says which entry point runs; cfg.installs and cfg.removals are the
\* transaction VerifyTransaction is given.
Enter == [Start EXCEPT !.inst = cfg.installs, !.unin = cfg.removals]

Search ==
    /\ phase = "search"
    /\ r' = resolveTargets(cfg.targets)
    /\ phase' = IF r'.err THEN "failed" ELSE "refresh"
    /\ UNCHANGED <<repo, cfg, persistent, attempt>>

\* With --keep-going an error of the refresh becomes a conflict.
Refresh ==
    LET own(q) == {v \in q.inst : \E i \in DOMAIN cfg.targets : cfg.targets[i].cp = Cp(v)}
    IN  /\ phase = "refresh"
        /\ \E q \in {IF cfg.deep /\ (cfg.update \/ cfg.rebuild) THEN refreshCommittedDirectUpdates(r) ELSE r} :
              /\ r' = IF cfg.onlyDeps THEN deleteInstall(q, own(q)) ELSE q
              /\ phase' = IF q.err THEN "failed" ELSE "complete"
        /\ UNCHANGED <<repo, cfg, persistent, attempt>>

Complete ==
    /\ phase = "complete"
    /\ r' = IF cfg.complete THEN processCompleteGraph(r) ELSE r
    /\ persistent' = r'.conf
    /\ phase' = "verify"
    /\ UNCHANGED <<repo, cfg, attempt>>

VerifyTransaction ==
    /\ phase = "certify"
    /\ r' = Enter
    /\ phase' = "verify"
    /\ UNCHANGED <<repo, cfg, persistent, attempt>>

\* One turn of verifyPlannedState's loop, on what the pass left in s.
Judge(s) ==
    LET new == SubSeq(s.r.conf, Len(persistent) + 1, Len(s.r.conf))
        lasting == SelectSeq(new, LAMBDA c : persistentRepairConflict(c) /\ c \notin Range(persistent))
        late == attempt = MaxAttempts
        stuck == s.repaired /\ transactionKey(s.r) = transactionKey(r)
        again == ~late /\ s.repaired /\ ~stuck
    IN  /\ r' = CASE late -> Conflict([r EXCEPT !.conf = persistent], "not-converged", "", Plain(""))
                  [] ~late /\ stuck -> Conflict(s.r, "no-progress", "", Plain(""))
                  [] OTHER -> s.r
        /\ persistent' = IF again THEN persistent \o lasting ELSE persistent
        /\ attempt' = IF again THEN attempt + 1 ELSE attempt
        /\ phase' = IF again THEN "verify" ELSE "done"
verifyPlannedState ==
    /\ phase = "verify"
    /\ \E s \in {verifyPlannedStatePass([r EXCEPT !.conf = persistent])} : Judge(s)
    /\ UNCHANGED <<repo, cfg>>

Next == Search \/ Refresh \/ Complete \/ VerifyTransaction \/ verifyPlannedState

Begin == /\ phase = IF cfg.mode = "certify" THEN "certify" ELSE "search"
         /\ r = Start /\ persistent = <<>> /\ attempt = 0

Verified == phase = "done" /\ r.conf = <<>>
=============================================================================
