---------------------------- MODULE MCCommands ----------------------------
(***************************************************************************)
(* The commands that change the installed system, each on its own small    *)
(* instance.  They do not interact here, so a behaviour of the union is a  *)
(* behaviour of one of them: part says which, and the slots hold its       *)
(* variables.                                                              *)
(***************************************************************************)
EXTENDS Naturals, Sequences, FiniteSets, SequencesExt

CONSTANTS
  None,
  Links  \* only the trees in which a directory takes the place of a link

VARIABLES part, s1, s2, s3, s4, s5, s6, s7, s8, s9, s10, s11, s12, s13, s14, s15

slots == <<part, s1, s2, s3, s4, s5, s6, s7, s8, s9, s10, s11, s12, s13, s14, s15>>

\* Rollback of a tree: two top-level directories with one directory level and
\* one file level below each; the first may be a link to the second.
Absent == <<"absent">>
Dir == <<"dir">>
Kind(n) == n[1]

WalkOrder == << <<"d">>, <<"d", "g">>, <<"d", "g", "f">>,
             <<"e">>, <<"e", "g">>, <<"e", "g", "f">> >>
Paths == ToSet(WalkOrder)

FileOf(v) == <<"file", v>>
Link == <<"link", <<"e">> >>

\* The trees over one top-level name whose files hold v.
Branch(n, v) ==
    {[top |-> t, mid |-> m, low |-> l] :
        t \in {Absent, Dir, FileOf(v)} \union (IF n = "d" THEN {Link} ELSE {}),
        m \in {Absent, Dir, FileOf(v)}, l \in {Absent, FileOf(v)}}

Sound(b) == (b.mid # Absent => b.top = Dir) /\ (b.low # Absent => b.mid = Dir)

Tree(d, e) ==
    [p \in Paths |-> LET b == IF p[1] = "d" THEN d ELSE e IN
                      IF Len(p) = 1 THEN b.top ELSE IF Len(p) = 2 THEN b.mid ELSE b.low]

Trees(v) == {Tree(d, e) : d \in {b \in Branch("d", v) : Sound(b)},
                          e \in {b \in Branch("e", v) : Sound(b)}}

OldTrees == Trees("old")
NewTrees == Trees("new")

\* The image has a directory where the tree has a link, or a file.
Over(k, t, i) == \E p \in Paths : Kind(t[p]) = k /\ i[p] = Dir

Cases(who, n, olds, news) ==
    [before : olds, image : news, client : {who}, kills : {n}]

\* No directory replaces anything else: rollbacks may be interrupted.
Ordinary == {c \in Cases("merge", 1, OldTrees, NewTrees) :
                ~Over("link", c.before, c.image) /\ ~Over("file", c.before, c.image)}
\* Directories replace files: rollbacks run to their end.
FileToDir == {c \in Cases("merge", 0, OldTrees, NewTrees) :
                ~Over("link", c.before, c.image) /\ Over("file", c.before, c.image)}
LinkToDir == {c \in Cases("merge", 0, OldTrees, NewTrees) : Over("link", c.before, c.image)}

\* Recorded contents that agree with the tree, and that do not.
Unmerges == Cases("unmerge", 1, OldTrees, OldTrees \union NewTrees)

\* Package database entries below d, over nothing or over an older entry;
\* an entry holds files only.
Records == {c \in Cases("record", 1, OldTrees, NewTrees) :
               /\ c.before[<<"d", "g">>] # Dir /\ c.image[<<"d", "g">>] # Dir
               /\ c.before[<<"d">>] \in {Absent, Dir}
               /\ c.image[<<"d">>] = Dir /\ c.image[<<"e">>] = Absent}

TreeCases == IF Links THEN LinkToDir ELSE Ordinary \union FileToDir \union Unmerges \union Records

U == INSTANCE UndoTree WITH
  Path <- Paths, Walk <- WalkOrder, Case <- TreeCases, case <- s1, fs <- s2,
  entries <- s3, roots <- s4, todo <- s5, gone <- s6, pc <- s7, next <- s8,
  kills <- s9

ASSUME TreesAreWalked == U!PathAssumption

\* Two recovery sets over two packages, one reboot.
R == INSTANCE RecoverySet WITH
  Set <- {1, 2}, Pkg <- <<"a", "b">>, MaxBoot <- 2, Keep <- 1, Alone <- TRUE,
  None <- None, boot <- s1, vdb <- s2, store <- s3, recency <- s4, objects <- s5,
  key <- s6, vdbLock <- s7, storeLock <- s8, update <- s9, restore <- s10,
  verify <- s11, prune <- s12, settled <- s13

\* Two jobs build, a third process downloads; one power loss.
B == INSTANCE BinaryStore WITH
  Builder <- {"x", "y"}, Remote <- {1, 2}, MaxMade <- 3, MaxLoss <- 1,
  archives <- s1, onDisk <- s2, index <- s3, indexOnDisk <- s4, lock <- s5,
  job <- s6, fetching <- s7, installer <- s8, made <- s9, losses <- s10,
  foreign <- s11

ASSUME StoreIsNamed == B!StoreAssumption

\* One protected file: three versions of its package, a user, sessions.
C == INSTANCE ConfigUpdates WITH
  MaxVersion <- 3, MaxWrites <- 2, MaxMerges <- 2,
  Options <- {{}, {"unmodified", "premerged"}, {"masked"}}, current <- s1,
  updates <- s2, order <- s3, premerged <- s4, record <- s5, archived <- s6,
  backups <- s7, dist <- s8, distNew <- s9, session <- s10, writes <- s11,
  merges <- s12, settled <- s13, overwritten <- s14, irregular <- s15

\* Five consumers: a dependency, a stubborn rebuild, a broken one, an orphan.
PythonBuilds == <<{"old", "a"}, {"old", "gone"}, {"old", "gone"}, {"a", "gone"}, {"old", "gone"}>>
Py == INSTANCE PythonCleaner WITH
  Pkg <- 1..5, Dep <- {<<1, 2>>}, Stubborn <- {2}, Broken <- {1},
  NoEbuild <- {4, 5}, Orphan <- {4}, Policies <- {"a", "b"}, MaxKill <- 1,
  MaxEdit <- 1, MaxRun <- 2, Nothing <- None, Installed <- PythonBuilds,
  built <- s1, interp <- s2, policy <- s3, pref <- s4, companion <- s5,
  progress <- s6, run <- s7, kills <- s8, edits <- s9, runs <- s10, rebuilt <- s11,
  lapse <- s12

\* A package, a perl-core package, its virtual; a file nobody owns.
PerlFileAbi == ("f" :> 1) @@ ("g" :> 1) @@ ("h" :> 2)
PerlOwner == ("f" :> "none") @@ ("g" :> "p") @@ ("h" :> "p")
Pe == INSTANCE PerlCleaner WITH
  Pkg <- {"p", "q", "v"}, Virtual <- {"v"}, Abi <- {1, 2}, Core <- {"q"},
  File <- {"f", "g", "h"}, FileAbi <- PerlFileAbi, Owner <- PerlOwner,
  Known <- {"f", "g"}, Nobody <- "none", Nothing <- None, MaxKill <- 1,
  MaxUpgrade <- 1, MaxRun <- 2, modAbi <- s1, libAbi <- s2, abi <- s3, files <- s4,
  world <- s5, resumeState <- s6, remaining <- s7, job <- s8, interrupts <- s9,
  upgrades <- s10, starts <- s11, missed <- s12

\* A package that was renamed, then moved to another slot; one that needs it.
AnySlot(cp) == [cp |-> cp, slot |-> ""]
UpdateRules == << [kind |-> "move", pkg |-> "a", from |-> "", to |-> "b"],
                  [kind |-> "slotmove", pkg |-> "b", from |-> "0", to |-> "1"] >>
Recipes == ("a" :> {}) @@ ("b" :> {}) @@ ("c" :> {AnySlot("b")})
Entry(c, deps) == [build |-> 1, cat |-> c, slot |-> "0", deps |-> deps]
VdbBefore == ("a" :> Entry("a", {})) @@ ("b" :> None)
             @@ ("c" :> Entry("c", {[cp |-> "a", slot |-> "0"]}))
M == INSTANCE Maintenance WITH
  Proc <- {"p", "q"}, Names <- <<"a", "b", "c">>, Rules <- UpdateRules,
  Available <- {<<"b", "1">>, <<"c", "0">>}, Hidden <- {}, Recipe <- Recipes,
  Before <- VdbBefore, Selections <- {AnySlot("a"), AnySlot("bad")},
  Wanted <- {AnySlot("c")}, MaxRun <- 2, MaxKill <- 1, MaxMerge <- 1, MaxHalf <- 1,
  None <- None, vdb <- s1, half <- s2, world <- s3, tracking <- s4, owed <- s5,
  journals <- s6, locks <- s7, cmd <- s8, plan <- s9, count <- s10, lost <- s11,
  late <- s12, undone <- s13, shifted <- s14, waived <- s15

\* a needs b; m is masked and cannot stand beside c.
InstallNeeds == ("a" :> {"b"}) @@ ("b" :> {}) @@ ("c" :> {}) @@ ("m" :> {})
InstallFlags == {{}, {"pretend", "save"}, {"approve"}, {"keepgoing", "update"}, {"resume"},
                 {"autounmask", "pretend", "update"}, {"ask", "update"},
                 {"preflight", "approve"}, {"buildonly"}, {"fetchonly", "oneshot"}}
I == INSTANCE InstallCommand WITH
  Pkg <- {"a", "b", "c", "m"}, Needs <- InstallNeeds, Blocks <- {<<"m", "c">>},
  Before <- {"b", "c"}, Masked <- {"m"}, Requests <- {{"a"}, {"b", "m"}},
  Removals <- {<<"b">>, <<"b", "a">>}, Flags <- InstallFlags, MaxRun <- 2,
  MaxFault <- 1, None <- None, present <- s1, config <- s2, selected <- s3,
  resumeFile <- s4, savedPlan <- s5, recovery <- s6, command <- s7, count <- s8,
  touched <- s9, drift <- s10

\* Repository synchronisation and the index.  One command at a time on a Git
\* and an rsync repository, with a failure; two syncs of a Git repository; a
\* sync and index commands, until a prune meets a candidate under way.
GitRevisions == << {<<"k1", {"a"}>>}, {<<"k1", {"b"}>>, <<"k2", {"a"}>>} >>
RsyncRevisions == << {<<"k3", {"a"}>>}, {<<"k3", {"b"}>>} >>
X1 == INSTANCE RepositoryIndex WITH
  Proc <- {"p"}, Commands <- [p |-> {"sync", "index"}], Repo <- {"git", "rsync"},
  Rsync <- {"rsync"}, Start <- [git |-> 1, rsync |-> 0],
  Contents <- [git |-> GitRevisions, rsync |-> RsyncRevisions], Limit <- 1,
  Retain <- 2, MaxGen <- 2, MaxFault <- 1, None <- None, tree <- s1, upstream <- s2,
  task <- s3, cmd <- s4, gens <- s5, recency <- s6, active <- s7, made <- s8,
  faults <- s9, raced <- s10, cut <- s11
X2 == INSTANCE RepositoryIndex WITH
  Proc <- {"p", "q"}, Commands <- [p |-> {"sync"}, q |-> {"sync"}], Repo <- {"git"},
  Rsync <- {}, Start <- [git |-> 0], Contents <- [git |-> GitRevisions], Limit <- 1,
  Retain <- 2, MaxGen <- 2, MaxFault <- 0, None <- None, tree <- s1, upstream <- s2,
  task <- s3, cmd <- s4, gens <- s5, recency <- s6, active <- s7, made <- s8,
  faults <- s9, raced <- s10, cut <- s11
X3 == INSTANCE RepositoryIndex WITH
  Proc <- {"p", "q"}, Commands <- [p |-> {"sync"}, q |-> {"index"}], Repo <- {"git"},
  Rsync <- {}, Start <- [git |-> 1], Contents <- [git |-> GitRevisions], Limit <- 1,
  Retain <- 2, MaxGen <- 3, MaxFault <- 0, None <- None, tree <- s1, upstream <- s2,
  task <- s3, cmd <- s4, gens <- s5, recency <- s6, active <- s7, made <- s8,
  faults <- s9, raced <- s10, cut <- s11

-----------------------------------------------------------------------------

\* The slots a part leaves empty.
From10 == <<s10, s11, s12, s13, s14, s15>>
From11 == <<s11, s12, s13, s14, s15>>
From12 == <<s12, s13, s14, s15>>
From13 == <<s13, s14, s15>>
From14 == <<s14, s15>>

Empty14 == s14 = 0 /\ s15 = 0
Empty13 == s13 = 0 /\ Empty14
Empty12 == s12 = 0 /\ Empty13
Empty11 == s11 = 0 /\ Empty12
Empty10 == s10 = 0 /\ Empty11

Init ==
  \/ part = "undo" /\ U!Init /\ Empty10
  \/ /\ ~Links
     /\ \/ part = "recovery" /\ R!Init /\ Empty14
        \/ part = "store" /\ B!Init /\ Empty12
        \/ part = "configs" /\ C!Init
        \/ part = "python" /\ Py!Init /\ Empty13
        \/ part = "perl" /\ Pe!PInit /\ Empty13
        \/ part = "maintain" /\ M!Init
        \/ part = "install" /\ I!Init /\ Empty11
        \/ part = "sync" /\ X1!Init /\ Empty12
        \/ part = "two syncs" /\ X2!Init /\ Empty12
        \/ part = "sync and index" /\ X3!Init /\ Empty12

Undo == part = "undo" /\ U!Next /\ UNCHANGED <<part, From10>>
Recover == part = "recovery" /\ R!Next /\ UNCHANGED <<part, From14>>
Store == part = "store" /\ B!Next /\ UNCHANGED <<part, From12>>
Configs == part = "configs" /\ C!Next /\ UNCHANGED part
Python == part = "python" /\ Py!Next /\ UNCHANGED <<part, From13>>
Perl == part = "perl" /\ Pe!PNext /\ UNCHANGED <<part, From13>>
Maintain == part = "maintain" /\ M!Next /\ UNCHANGED part
Install == part = "install" /\ I!Next /\ UNCHANGED <<part, From11>>

Index ==
  /\ \/ part = "sync" /\ X1!Next
     \/ part = "two syncs" /\ X2!Next
     \/ part = "sync and index" /\ X3!Next
  /\ UNCHANGED <<part, From12>>

Next == Undo \/ Recover \/ Store \/ Configs \/ Python \/ Perl \/ Maintain \/ Install \/ Index

Spec == Init /\ [][Next]_slots

-----------------------------------------------------------------------------
\* Undo journal: a rolled back operation leaves exactly the tree it found, and
\* no rollback fails for a reason that lies in the tree (restore's ENOTDIR and
\* ENOTEMPTY); a committed merge put every object of the image in place and
\* changed nothing else; a committed unmerge removed only objects equal to what
\* was recorded (merge, UnmergeWithConfig, Journal.Rollback).
UndoIsExact ==
  part = "undo" => U!TreeRestored /\ U!RollbackSucceeds /\ U!MergeExact /\ U!UnmergeExact

\* Rollback restores the tree as it was, whatever the merge put in its place
\* (Journal.Rollback).
RollbackSucceeds == part = "undo" => U!RollbackSucceeds

\* Recovery sets: a published set holds an artifact of every package its update
\* replaces; a set that passed verify-set carries a boot other than the one it
\* was captured in; a completed restore leaves every captured package as it was
\* captured, after any number of failed or interrupted attempts (captureUpdate,
\* MarkVerified, Restore).
RecoverySetsHold ==
  part = "recovery" => R!PublishedIsComplete /\ R!VerifiedAfterCapture /\ R!RestoredIsCaptured

\* Binary packages: the archive of an index entry exists with the bytes the
\* entry describes, across deaths of builds and power loss, and metadata and
\* image of a merged package come from one archive, though the installer opens
\* the name more than once (publishBuiltGPKG, InstallBinaryPackage).
StoreIsIntact == part = "store" => B!StoreIsIntact

\* dispatch-conf: what a session overwrote is archived, an automatic replacement
\* never overwrites what a person wrote (replace-unmodified), and an update
\* older than one that was used or zapped is not offered again.
ConfigWorkIsKept ==
  part = "configs" => C!OverwrittenIsArchived /\ C!AutomaticKeepsEdits /\ C!SettledStaysSettled

\* The cleaners: a python-cleaner run that succeeds leaves no consumer stale for
\* the interpreter the preference names, in a number of rounds bounded by the
\* consumers; a successful preclean left no perl-core package in the world file,
\* and a resumed perl repair rebuilds for the Perl its targets were chosen for.
RepairsAreWhole ==
  /\ part = "python" => Py!SuccessMeansRepaired /\ Py!RepairIsBounded
  /\ part = "perl" => Pe!PrecleanIsDone /\ Pe!OnePerlPerRepair

\* Maintenance: a world repair loses no selection made after its fingerprint; no
\* kill or failed rename leaves a VDB entry half moved once the journals are
\* recovered; moves keep satisfied dependencies satisfied; recovering a journal
\* never rolls back a package merge committed after it; a cleaned failed merge
\* stays tracked until its package is rebuilt.
MaintenanceKeepsState ==
  part = "maintain" => /\ M!LateSelectionsKept /\ M!EntriesCoherent /\ M!DependenciesFollow
                       /\ M!MergesStay /\ M!FailedMergesTracked

\* install, update and uninstall, whatever other managers do between two reads:
\* read-only and declined commands leave packages, world file, checkpoint and
\* recovery sets alone; under --approve the plan on disk is the one executed and
\* was made for the state found; a merged package has what it needs, and a
\* successful removal took nothing that is needed; what a command replaces or
\* removes is in a recovery set (runResolve, authorizeInstallExecution,
\* prepareMutation, runUninstall).
CommandsKeepPromises ==
  part = "install" => /\ I!ReadOnlyKeepsSystem /\ I!ApprovedIsExecuted
                      /\ I!NeedsKept /\ I!ReplacedIsCaptured

\* The published index is what one walk of the repositories found, secondary
\* keys included, unless a prune met a candidate under way; and an undisturbed
\* sync that succeeds leaves every repository whole and current and the index
\* theirs, after any earlier failure (runSync, runIndex, ReconcileWithProgress,
\* Publish).
IndexFollowsRepositories ==
  /\ part = "sync" => X1!ActiveIsComplete /\ X1!SyncedIsIndexed
  /\ part = "two syncs" => X2!ActiveIsComplete /\ X2!SyncedIsIndexed
  /\ part = "sync and index" => X3!ActiveIsComplete /\ X3!SyncedIsIndexed

\* What is given up is no longer needed.  An update replaces a version only when
\* the published set holds it, and prune-sets removes verified sets only and
\* never the newest; no build drops the index entry of another; the preferred
\* Python is switched only after the repair and after the rebuilt modules were
\* imported; a perl repair deletes no file a package owns; a checkpoint is
\* retired only when its packages are installed.
NothingGivenUpEarly ==
  [][/\ part = "recovery" => R!ReplacedIsCaptured /\ R!OnlyVerifiedIsPruned
     /\ part = "store" => B!EntriesStay
     /\ part = "python" => Py!PreferenceFollowsRepair /\ Py!RebuiltIsProbed
     /\ part = "perl" => Pe!OwnedFilesStay
     /\ part = "install" => I!RetiredIsInstalled]_slots
=============================================================================
