---------------------------- MODULE Maintenance ----------------------------
(***************************************************************************)
(* The maintenance commands that rewrite package state outside a package   *)
(* transaction: `maintain world` (internal/worldmaint), `maintain          *)
(* moveinst` (internal/moveinst) and `maintain merges`                     *)
(* (internal/mergemaint), with the world file's locked update              *)
(* (internal/world).  Every command makes a report, fingerprints the state *)
(* the report is about, takes a lock, checks the fingerprint again and     *)
(* applies the report.  Several commands, package merges and kills         *)
(* interleave.                                                             *)
(*                                                                         *)
(* A VDB entry is a directory named after its package; its version plays   *)
(* no part and is left out, as are the tree of a dependency (the set of    *)
(* its atoms is kept) and the files a repair does not touch.  A            *)
(* fingerprint is the state itself: SHA-256 is taken to be injective.      *)
(***************************************************************************)
EXTENDS Naturals, Sequences, FiniteSets, SequencesExt

CONSTANTS Proc,          \* the commands that run at the same time
          Names,         \* the package names, in their order
          Rules,         \* profiles/updates of the repository, in order
          Available,     \* repository candidates, <<name, slot>>
          Hidden,        \* the candidates a mask or a keyword hides
          Recipe,        \* name -> the dependencies of its ebuild
          Before,        \* the VDB before the first command
          Selections,    \* the world file before the first command
          Wanted,        \* what users select meanwhile
          MaxRun, MaxKill, MaxMerge, MaxHalf,   \* bounds on commands, kills, package merges, half merges
          None

VARIABLES vdb,           \* name -> its VDB entry, or None
          half,          \* the packages with a -MERGING- directory in the VDB
          world,         \* the entries of the world file
          tracking,      \* the entries of the failed-merges file
          owed,          \* cleaned failed merges not rebuilt yet
          journals,      \* the active journals
          locks,         \* resource -> the command that holds it
          cmd,           \* each command's state
          plan,          \* a package merge another command planned: <<candidate, VDB>> or None
          count,         \* commands, kills, merges and half merges so far
          lost,          \* history: selections a repair dropped without having read them
          late,          \* history: the state changed between a report and its fingerprint
          undone,        \* history: who committed what a recovery rolled back
          shifted,       \* history: a recovery changed the VDB a merge had validated
          waived         \* history: how a failed merge came to be forgotten

vars == <<vdb, half, world, tracking, owed, journals, locks, cmd, plan, count,
          lost, late, undone, shifted, waived>>

Dir == ToSet(Names)
Slots == <<"", "0", "1">>

-----------------------------------------------------------------------------
(* internal/moveinst: what the rules make of the installed packages.       *)

\* One rule on one dependency atom.
updateNode(atom, rule) ==
    CASE rule.kind = "move" /\ atom.cp = rule.pkg -> [atom EXCEPT !.cp = rule.to]
      [] rule.kind = "slotmove" /\ atom.cp = rule.pkg /\ atom.slot = rule.from
            -> [atom EXCEPT !.slot = rule.to]
      [] OTHER -> atom

\* The rules in order on the identity, the slot and every dependency.
checkPackage(dir, entry) ==
    LET step(now, rule) ==
          [from |-> dir,
           to   |-> IF rule.kind = "move" /\ now.to = rule.pkg THEN rule.to ELSE now.to,
           slot |-> IF rule.kind = "slotmove" /\ now.to = rule.pkg /\ now.slot = rule.from
                      THEN rule.to ELSE now.slot,
           deps |-> {updateNode(d, rule) : d \in now.deps}]
    IN  FoldLeft(step, [from |-> dir, to |-> dir, slot |-> entry.slot, deps |-> entry.deps], Rules)

Outdated(state) ==
    {a \in {checkPackage(d, state[d]) : d \in {e \in Dir : state[e] # None}} :
        a.from # a.to \/ a.slot # state[a.from].slot \/ a.deps # state[a.from].deps}

Taken(state, a) == a.from # a.to /\ state[a.to] # None

\* The whole report fails when another build has the target's name.
CheckFails(state) ==
    \E a \in Outdated(state) : Taken(state, a) /\ state[a.to].build # state[a.from].build

\* A target of the same BUILD_TIME is the package itself, moved before: only
\* the metadata is repaired.
Check(state) ==
    {a \in {IF Taken(state, b) THEN [b EXCEPT !.to = b.from] ELSE b : b \in Outdated(state)} :
        a.from # a.to \/ a.slot # state[a.from].slot \/ a.deps # state[a.from].deps}

\* Apply's two writes for one action: the directory is renamed, then the
\* metadata files that differ are replaced.
Renamed(state, a) ==
    IF a.from = a.to THEN state
    ELSE [state EXCEPT ![a.to] = state[a.from], ![a.from] = None]

Rewritten(state, a) ==
    LET cat == IF a.from = a.to THEN state[a.to].cat ELSE a.to
    IN  [state EXCEPT ![a.to] = [@ EXCEPT !.slot = a.slot, !.deps = a.deps, !.cat = cat]]

\* What Apply captures before it changes anything.
Touched(actions) == {a.from : a \in actions} \cup {a.to : a \in actions}

InOrder(actions) ==
    LET dirs == SelectSeq(Names, LAMBDA d : \E a \in actions : a.from = d)
    IN  [i \in DOMAIN dirs |-> CHOOSE a \in actions : a.from = dirs[i]]

-----------------------------------------------------------------------------
(* internal/worldmaint: what becomes of each world entry.                  *)

\* readMoves: a later line overrides an earlier one; one step is followed.
Moved(cp) == SelectSeq(Rules, LAMBDA r : r.kind = "move" /\ r.pkg = cp)

matchCandidates(e) == {c \in Available : c[1] = e.cp /\ e.slot \in {"", c[2]}}

matchInstalled(e, state) ==
    {d \in Dir : state[d] # None /\ d = e.cp /\ e.slot \in {"", state[d].slot}}

Keep == [act |-> "keep", to |-> ""]
Drop == [act |-> "remove", to |-> ""]

Verdict(e, entries, state) ==
    CASE e.cp \notin Dir -> Drop                                          \* invalid
      [] e.slot # "" /\ [cp |-> e.cp, slot |-> ""] \in entries -> Drop     \* redundant
      [] matchCandidates(e) = {} ->
            IF Moved(e.cp) # <<>> THEN [act |-> "replace", to |-> Last(Moved(e.cp)).to] ELSE Drop
      [] matchCandidates(e) # {} /\ matchInstalled(e, state) = {} -> Drop   \* not installed
      [] matchCandidates(e) # {} /\ matchCandidates(e) \subseteq Hidden -> Drop
      [] OTHER -> Keep

\* Check and Apply together: the actions are applied in the order of their
\* entries, so a replacement can be removed again by a later action.
EntryOrder ==
    FlattenSeq([i \in DOMAIN Names |-> [j \in DOMAIN Slots |-> [cp |-> Names[i], slot |-> Slots[j]]]])
      \o <<[cp |-> "bad", slot |-> ""]>>

Repairs(entries, state) ==
    SelectSeq(EntryOrder, LAMBDA e : e \in entries /\ Verdict(e, entries, state) # Keep)

Apply(entries, state) ==
    LET one(values, e) ==
          LET v == Verdict(e, entries, state)
          IN  (values \ {e}) \cup (IF v.act = "replace" THEN {[e EXCEPT !.cp = v.to]} ELSE {})
    IN  FoldLeft(one, entries, Repairs(entries, state))

-----------------------------------------------------------------------------
(* Locks, journals and the commands' common steps.                         *)

Resource == {"vdb", "world", "tracking"}
Free(r) == locks[r] = None
Idle == [pc |-> "idle", kind |-> "", report |-> {}, entries |-> {}, basis |-> <<>>, state |-> <<>>]

\* mergemaint.Check: the entries in the VDB and those the tracking file names.
FailedMerges == half \cup tracking

\* WorldSet.Save: the file is replaced atomically.
Save(entries) == world' = entries

\* What each command fingerprints: the files under the VDB root include the
\* -MERGING- directories.
StateOf(kind) ==
    CASE kind = "world" -> <<world, vdb, half>>
      [] kind = "moveinst" -> <<vdb, half>>
      [] OTHER -> <<half, tracking>>

Init ==
    /\ vdb = Before /\ world = Selections /\ half = {} /\ tracking = {} /\ owed = {}
    /\ journals = {} /\ locks = [r \in Resource |-> None]
    /\ cmd = [p \in Proc |-> Idle]
    /\ count = [run |-> 0, kill |-> 0, merge |-> 0, half |-> 0]
    /\ lost = {} /\ late = FALSE /\ undone = {} /\ shifted = FALSE /\ waived = {}
    /\ plan = None

History == <<lost, late, undone, shifted, waived>>
Files == <<vdb, half, world, tracking, owed, journals>>

Goto(p, pc) == cmd' = [cmd EXCEPT ![p].pc = pc]
\* A command ends: the deferred releases run.
Finish(p) ==
    /\ cmd' = [cmd EXCEPT ![p] = Idle]
    /\ locks' = [r \in Resource |-> IF locks[r] = p THEN None ELSE locks[r]]

\* A committed operation on names D, by a command of this kind: an active
\* journal that captured one of them would now undo it.
Committed(js, D, kind) ==
    {[j EXCEPT !.over = @ \cup (IF D \cap DOMAIN j.saved # {} THEN {kind} ELSE {})] : j \in js}

\* journal.RecoverActive: every active journal is rolled back, in the order
\* of its random name.
RollBack(state, j) == [d \in Dir |-> IF d \in DOMAIN j.saved THEN j.saved[d] ELSE state[d]]

RecoverActive ==
    \E order \in SetToSeqs(journals) :
        /\ vdb' = FoldLeft(RollBack, vdb, order)
        /\ half' = half \cup UNION {j.halves : j \in journals}
        /\ undone' = undone \cup UNION {j.over : j \in journals}
        /\ journals' = {}
-----------------------------------------------------------------------------
(* The commands.                                                           *)

\* The report is made first and what it read is fingerprinted afterwards.
Report(p, kind) ==
    /\ cmd[p] = Idle /\ count.run < MaxRun
    /\ count' = [count EXCEPT !.run = @ + 1]
    /\ IF kind = "moveinst" /\ CheckFails(vdb)
         THEN UNCHANGED cmd
         ELSE cmd' = [cmd EXCEPT ![p] =
                [pc |-> "fingerprint", kind |-> kind,
                 report |-> CASE kind = "world" -> ToSet(Repairs(world, vdb))
                              [] kind = "moveinst" -> Check(vdb)
                              [] OTHER -> FailedMerges,
                 entries |-> CASE kind = "world" -> Apply(world, vdb)
                               [] kind = "merges" -> half
                               [] OTHER -> {},
                 basis |-> StateOf(kind), state |-> <<>>]]
    /\ UNCHANGED <<Files, locks, History, plan>>

\* Nothing to repair ends the command.  `maintain merges` has no fingerprint:
\* its report is compared itself.
Fingerprint(p) ==
    /\ cmd[p].pc = "fingerprint"
    /\ LET now == IF cmd[p].kind = "merges" THEN cmd[p].basis ELSE StateOf(cmd[p].kind)
       IN  /\ cmd' = [cmd EXCEPT ![p] = IF @.report = {} THEN Idle
                                        ELSE [@ EXCEPT !.state = now, !.pc = "lock"]]
           /\ late' = (late \/ now # cmd[p].basis)
    /\ UNCHANGED <<Files, locks, count, lost, undone, waived, plan, shifted>>

\* The locks are tried, never waited for.
Needs(kind) ==
    CASE kind = "world" -> {"world"}
      [] kind = "moveinst" -> {"vdb"}
      [] kind = "merges" -> {"vdb", "tracking"}

Lock(p) ==
    /\ cmd[p].pc = "lock"
    /\ IF \A r \in Needs(cmd[p].kind) : Free(r)
         THEN /\ locks' = [r \in Resource |-> IF r \in Needs(cmd[p].kind) THEN p ELSE locks[r]]
              /\ Goto(p, "revalidate")
         ELSE Finish(p)
    /\ UNCHANGED <<Files, count, History, plan>>

\* The state is fingerprinted again beneath the lock.
\* `maintain merges` compares the failed merges and which are present, not
\* which are tracked.
Unchanged(p) ==
    IF cmd[p].kind = "merges"
      THEN cmd[p].report = FailedMerges /\ cmd[p].entries = half
      ELSE cmd[p].state = StateOf(cmd[p].kind)

Revalidate(p) ==
    /\ cmd[p].pc = "revalidate"
    /\ IF Unchanged(p) THEN Goto(p, "apply") /\ UNCHANGED locks ELSE Finish(p)
    /\ UNCHANGED <<Files, count, History, plan>>

\* `maintain world` writes the entries its report made, not those it reloads.
SaveWorld(p) ==
    /\ cmd[p].pc = "apply" /\ cmd[p].kind = "world"
    /\ Save(cmd[p].entries)
    /\ lost' = lost \cup (world \ cmd[p].basis[1])
    /\ Finish(p)
    /\ UNCHANGED <<vdb, half, tracking, owed, journals, count, late, undone, waived, plan, shifted>>

\* moveinst.Apply: one journal captures every entry the report names.  No
\* journal that a kill left active is recovered first.
Capture(p) ==
    /\ cmd[p].pc = "apply" /\ cmd[p].kind = "moveinst"
    /\ journals' = journals \cup
         {[owner |-> p, saved |-> [d \in Touched(cmd[p].report) |-> vdb[d]], halves |-> {}, over |-> {}]}
    /\ cmd' = [cmd EXCEPT ![p].pc = "rename", ![p].state = InOrder(cmd[p].report)]
    /\ UNCHANGED <<vdb, half, world, tracking, owed, locks, count, History, plan>>

Mine(p) == {j \in journals : j.owner = p}

\* An error rolls the command's journal back.
Fails(p) ==
    /\ vdb' = FoldLeft(RollBack, vdb, SetToSeq(Mine(p)))
    /\ journals' = journals \ Mine(p)
    /\ Finish(p)

\* A rename of a missing directory, or onto an existing one, fails.
Rename(p) ==
    /\ cmd[p].pc = "rename"
    /\ LET a == Head(cmd[p].state) IN
       IF vdb[a.from] = None \/ Taken(vdb, a)
         THEN Fails(p)
         ELSE vdb' = Renamed(vdb, a) /\ Goto(p, "write") /\ UNCHANGED <<journals, locks>>
    /\ UNCHANGED <<half, world, tracking, owed, count, History, plan>>

\* A full disk fails a write.
WriteMetadata(p) ==
    /\ cmd[p].pc = "write"
    /\ \/ /\ vdb' = Rewritten(vdb, Head(cmd[p].state))
          /\ cmd' = [cmd EXCEPT ![p].state = Tail(@),
                                ![p].pc = IF Len(cmd[p].state) = 1 THEN "commit" ELSE "rename"]
          /\ UNCHANGED <<journals, locks>>
       \/ Fails(p)
    /\ UNCHANGED <<half, world, tracking, owed, count, History, plan>>

Commit(p) ==
    /\ cmd[p].pc = "commit" /\ cmd[p].kind = "moveinst"
    /\ journals' = Committed(journals \ Mine(p), Touched(cmd[p].report), "moveinst")
    /\ Finish(p)
    /\ UNCHANGED <<vdb, half, world, tracking, owed, count, History, plan>>

\* mergemaint: the tracking file is saved, then the -MERGING- directories are
\* removed under a journal of their own.
SaveTracking(p) ==
    /\ cmd[p].pc = "apply" /\ cmd[p].kind = "merges"
    /\ tracking' = cmd[p].report
    /\ Goto(p, "cleanup")
    /\ UNCHANGED <<vdb, half, world, owed, journals, locks, count, History, plan>>

Cleanup(p) ==
    /\ cmd[p].pc = "cleanup"
    /\ journals' = journals \cup
         {[owner |-> p, saved |-> [d \in {} |-> None], halves |-> cmd[p].entries, over |-> {}]}
    /\ half' = half \ cmd[p].entries
    /\ owed' = owed \cup cmd[p].entries
    /\ Goto(p, "cleaned")
    /\ UNCHANGED <<vdb, world, tracking, locks, count, History, plan>>

\* The journal is committed and both locks are released for the rebuild.
Cleaned(p) ==
    /\ cmd[p].pc = "cleaned"
    /\ journals' = journals \ Mine(p)
    /\ cmd' = [cmd EXCEPT ![p].pc = "rebuild"]
    /\ locks' = [r \in Resource |-> IF locks[r] = p THEN None ELSE locks[r]]
    /\ UNCHANGED <<vdb, half, world, tracking, owed, count, History, plan>>

\* The rebuild through runResolve: a failure exits the process and keeps the
\* tracking; a declined prompt, --fetchonly or --buildpkgonly returns.
Rebuild(p) ==
    /\ cmd[p].pc = "rebuild" /\ Free("vdb")
    /\ \/ /\ RecoverActive
          /\ owed' = owed \ cmd[p].report
          /\ Goto(p, "purge")
          /\ UNCHANGED waived
       \/ /\ Goto(p, "purge")
          /\ waived' = waived \cup {"returned"}
          /\ UNCHANGED <<vdb, half, owed, journals, undone>>
       \/ /\ cmd' = [cmd EXCEPT ![p] = Idle]
          /\ UNCHANGED <<vdb, half, owed, journals, undone, waived>>
    /\ UNCHANGED <<world, tracking, locks, count, lost, late, plan, shifted>>

\* PurgeTracking after the rebuild holds no lock.
PurgeTracking(p) ==
    /\ cmd[p].pc = "purge"
    /\ tracking' = {}
    /\ waived' = waived \cup (IF tracking \subseteq cmd[p].report THEN {} ELSE {"unlocked"})
    /\ Finish(p)
    /\ UNCHANGED <<vdb, half, world, owed, journals, count, lost, late, undone, plan, shifted>>

\* `maintain merges --purge`.
Purge ==
    /\ Free("tracking") /\ tracking # {}
    /\ tracking' = {} /\ waived' = waived \cup {"purged"}
    /\ UNCHANGED <<vdb, half, world, owed, journals, locks, cmd, count, lost, late, undone, plan, shifted>>

\* world.Update with Add: load, change and save beneath the world lock.
Select(entry) ==
    /\ Free("world") /\ entry \notin world
    /\ Save(world \cup {entry})
    /\ UNCHANGED <<vdb, half, tracking, owed, journals, locks, cmd, count, History, plan>>

Satisfied(state, atom) ==
    \E d \in Dir : state[d] # None /\ d = atom.cp /\ atom.slot \in {"", state[d].slot}

\* Another command plans a package merge on the VDB it reads.
PlanMerge(c) ==
    /\ count.merge < MaxMerge /\ plan = None
    /\ \A atom \in Recipe[c[1]] : Satisfied(vdb, atom)
    /\ count' = [count EXCEPT !.merge = @ + 1]
    /\ plan' = <<c, vdb>>
    /\ UNCHANGED <<Files, locks, cmd, History>>

\* Mutant: the active journals are left for a later command.
Merge_unrecovered ==
    /\ plan # None /\ Free("vdb")
    /\ plan' = None
    /\ IF vdb # plan[2]
         THEN UNCHANGED <<vdb, half, journals, undone, shifted>>
         ELSE /\ vdb' = [vdb EXCEPT ![plan[1][1]] = [build |-> 10 + count.merge, cat |-> plan[1][1],
                                                    slot |-> plan[1][2], deps |-> Recipe[plan[1][1]]]]
              /\ journals' = Committed(journals, {plan[1][1]}, "merge")
              /\ UNCHANGED <<half, undone, shifted>>
    /\ UNCHANGED <<world, tracking, owed, locks, cmd, count, lost, late, waived>>

\* Beneath the VDB lock the plan's state is validated, then the active journals
\* are recovered, then the package is merged.
Merge ==
    /\ plan # None /\ Free("vdb")
    /\ plan' = None
    /\ IF vdb # plan[2]
         THEN UNCHANGED <<vdb, half, journals, undone, shifted>>
         ELSE \E order \in SetToSeqs(journals) :
              LET now == FoldLeft(RollBack, vdb, order)
                  d == plan[1][1]
              IN  /\ vdb' = [now EXCEPT ![d] = [build |-> 10 + count.merge, cat |-> d,
                                                    slot |-> plan[1][2], deps |-> Recipe[d]]]
                  /\ half' = half \cup UNION {j.halves : j \in journals}
                  /\ undone' = undone \cup UNION {j.over : j \in journals}
                  /\ journals' = Committed({}, {d}, "merge")
                  /\ shifted' = (shifted \/ now # plan[2])
    /\ UNCHANGED <<world, tracking, owed, locks, cmd, count, lost, late, waived>>

\* Another package manager dies in a merge.
HalfMerge(d) ==
    /\ count.half < MaxHalf /\ Free("vdb")
    /\ count' = [count EXCEPT !.half = @ + 1]
    /\ half' = half \cup {d}
    /\ UNCHANGED <<vdb, world, tracking, owed, journals, locks, cmd, History, plan>>

\* The kernel drops the locks of a killed command; its journal stays active.
Kill(p) ==
    /\ cmd[p] # Idle /\ count.kill < MaxKill
    /\ count' = [count EXCEPT !.kill = @ + 1]
    /\ Finish(p)
    /\ journals' = {[j EXCEPT !.owner = IF @ = p THEN None ELSE @] : j \in journals}
    /\ UNCHANGED <<vdb, half, world, tracking, owed, History, plan>>

Step(p) ==
    \/ \E kind \in {"world", "moveinst", "merges"} : Report(p, kind)
    \/ Fingerprint(p) \/ Lock(p) \/ Revalidate(p)
    \/ SaveWorld(p)
    \/ Capture(p) \/ Rename(p) \/ WriteMetadata(p) \/ Commit(p)
    \/ SaveTracking(p) \/ Cleanup(p) \/ Cleaned(p) \/ Rebuild(p) \/ PurgeTracking(p)
    \/ Kill(p)

Next ==
    \/ \E p \in Proc : Step(p)
    \/ Purge
    \/ \E e \in Wanted : Select(e)
    \/ \E c \in Available : PlanMerge(c) \/ HalfMerge(c[1])
    \/ Merge

Spec == Init /\ [][Next]_vars

-----------------------------------------------------------------------------
(* Properties.                                                             *)

\* A world repair drops a selection it never read only when the file changed
\* between its report and its fingerprint: everything selected later is
\* noticed beneath the lock.
LateSelectionsKept == lost # {} => late

\* The same without the exception, as world.Update's comment has it: no
\* concurrent operation loses a world entry.
SelectionsKept == lost = {}

Quiet == journals = {} /\ Free("vdb")

\* Once no repair is under way and no journal is active, every VDB directory
\* holds the metadata of its own name: a kill or a failed rename leaves no
\* entry half moved.
EntriesCoherent == Quiet => \A d \in Dir : vdb[d] # None => vdb[d].cat = d

\* Package moves never break a dependency: one that was satisfied is
\* satisfied by the moved package in every quiet state, as long as no report
\* went stale before its fingerprint and no merge was applied to another VDB
\* than it was validated on.
DependenciesFollow ==
    Quiet /\ ~late /\ ~shifted => \A d \in Dir : vdb[d] # None => \A atom \in vdb[d].deps : Satisfied(vdb, atom)

\* A package merge is applied to the VDB its plan was validated against
\* beneath the lock.
MergedAsValidated == ~shifted

\* Recovering a journal never rolls back what a package merge committed after
\* it: a merge recovers the active journals first.
MergesStay == "merge" \notin undone

\* The same of the repairs themselves.
RepairsStay == undone = {}

\* A failed merge whose VDB entry was cleaned stays in the tracking file until
\* its package is rebuilt, unless the tracking is purged, the rebuild returns
\* without building or another command's purge comes too late.
FailedMergesTracked == waived = {} => owed \subseteq tracking \cup half

\* The same for every run without `--purge`.
FailedMergesAlwaysTracked == "purged" \notin waived => owed \subseteq tracking \cup half
=============================================================================
