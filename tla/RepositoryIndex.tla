-------------------------- MODULE RepositoryIndex --------------------------
(***************************************************************************)
(* arise sync and arise index: the repositories are cloned or updated by a *)
(* bounded pool (cmd/arise/sync.go, internal/sync), and the metadata they  *)
(* hold is reconciled into a new generation of the database, published by  *)
(* a rename of a link (cmd/arise/index.go, internal/ingest,                *)
(* internal/snapshotstore).  No lock orders the commands.                  *)
(*                                                                         *)
(* A repository is at a revision, 0 when it has not been cloned; a         *)
(* revision stands for its records <<key, attributes>>.  A work tree is    *)
(* torn while it is being rewritten and after a rewrite was cut short.     *)
(* The built-in Git and the system Git it falls back on are one transport  *)
(* that succeeds or fails.                                                 *)
(***************************************************************************)
EXTENDS Naturals, Sequences, FiniteSets, SequencesExt

CONSTANTS
    Proc,      \* where commands are run, one after the other
    Commands,  \* [Proc -> subset of {"sync", "index"}]
    Repo,      \* configured repositories
    Rsync,     \* those synchronised by rsync, in place
    Start,     \* [Repo -> revision at first]
    Contents,  \* [Repo -> sequence of the record sets of its revisions]
    Limit,     \* size of the pool
    Retain,    \* generations Prune keeps
    MaxGen,    \* bound: generations ever made
    MaxFault,  \* bound: kills, interruptions and failed transfers
    None

VARIABLES
    tree,      \* [Repo -> [rev, torn]]
    upstream,  \* [Repo -> newest revision of the remote]
    task,      \* [Proc -> [Repo -> [st, to]]], the goroutines of a sync
    cmd,       \* [Proc -> the command]
    gens,      \* [generation -> database, or None]
    recency,   \* the generation directories, oldest modification first
    active,    \* where the link at the logical path leads, 0 before the first
    made,      \* generations made
    faults,
    raced,     \* a prune chose a generation that a command was still making
    cut        \* Git repositories with a reset cut short or disturbed by another

vars == <<tree, upstream, task, cmd, gens, recency, active, made, faults, raced, cut>>
trees == <<tree, upstream, cut>>
store == <<gens, recency, active, made, raced>>

Gen == 1..MaxGen
Known(r) == UNION Range(Contents[r])
Rest == [st |-> "none", to |-> 0]
Idle == [pc |-> "idle", kind |-> "", cancelled |-> FALSE, alone |-> TRUE, from |-> [r \in Repo |-> 0],
         gen |-> 0, seen |-> <<>>, doomed |-> {}]
Empty == [records |-> {}, second |-> {}, walk |-> None]

Init ==
    /\ tree = [r \in Repo |-> [rev |-> Start[r], torn |-> FALSE]]
    /\ upstream = [r \in Repo |-> 1]
    /\ task = [p \in Proc |-> [r \in Repo |-> Rest]]
    /\ cmd = [p \in Proc |-> Idle]
    /\ gens = [g \in Gen |-> None] /\ recency = <<>> /\ active = 0 /\ made = 0
    /\ faults = 0 /\ raced = FALSE /\ cut = {}

Running(p) == cmd[p].pc \notin {"idle", "synced", "indexed", "failed"}
At(p, l) == cmd[p].pc = l
Fault == faults < MaxFault /\ faults' = faults + 1

\* The remote gets a new revision.
Release(r) ==
    /\ upstream[r] < Len(Contents[r])
    /\ upstream' = [upstream EXCEPT ![r] = @ + 1]
    /\ UNCHANGED <<tree, cut, task, cmd, store, faults>>

Run(p, kind) ==
    /\ ~Running(p) /\ made < MaxGen
    /\ cmd' = [q \in Proc |->
                IF q = p THEN [Idle EXCEPT !.pc = IF kind = "sync" THEN "sync" ELSE "prepare",
                                           !.kind = kind, !.from = upstream,
                                           !.alone = \A o \in Proc : ~Running(o)]
                ELSE [cmd[q] EXCEPT !.alone = FALSE]]
    /\ task' = [task EXCEPT ![p] = [r \in Repo |-> IF kind = "sync" THEN [Rest EXCEPT !.st = "wait"] ELSE Rest]]
    /\ UNCHANGED <<trees, store, faults>>

-----------------------------------------------------------------------------
(* The pool of executeSyncTargets, and Sync                                *)

On(p, r, st) == At(p, "sync") /\ task[p][r].st = st
Ended == {"ok", "failed", "cancelled"}
Rewriting == {"rewriting", "clashing"}
End(p, r, st) ==
    /\ task' = [task EXCEPT ![p][r].st = st]
    /\ cmd' = IF st = "failed" THEN [cmd EXCEPT ![p].cancelled = TRUE] ELSE cmd
Step(p, r, st, to) == task' = [task EXCEPT ![p][r] = [st |-> st, to |-> to]] /\ UNCHANGED cmd

Acquire(p, r) ==
    /\ On(p, r, "wait")
    /\ \/ cmd[p].cancelled /\ End(p, r, "cancelled")
       \/ /\ ~cmd[p].cancelled
          /\ Cardinality({x \in Repo : task[p][x].st \notin Ended \cup {"wait"}}) < Limit
          /\ IF r \in Rsync THEN Step(p, r, "rewrite", upstream[r])
             ELSE Step(p, r, IF tree[r].rev = 0 THEN "clone" ELSE "fetch", 0)
    /\ UNCHANGED <<trees, store, faults>>

\* cloneGitRepoAtomically: the clone and the check of its identity happen in
\* a directory beside the target.
Clone(p, r) ==
    /\ On(p, r, "clone")
    /\ IF tree[r].rev # 0 THEN End(p, r, "failed") /\ UNCHANGED faults
       ELSE \/ Fault /\ End(p, r, "failed")
            \/ cmd[p].cancelled /\ End(p, r, "cancelled") /\ UNCHANGED faults
            \/ ~cmd[p].cancelled /\ Step(p, r, "publish", upstream[r]) /\ UNCHANGED faults
    /\ UNCHANGED <<trees, store>>

PublishClone(p, r) ==
    /\ On(p, r, "publish")
    /\ IF tree[r].rev # 0 THEN End(p, r, "failed") /\ UNCHANGED tree
       ELSE /\ tree' = [tree EXCEPT ![r] = [rev |-> task[p][r].to, torn |-> FALSE]]
            /\ End(p, r, "ok")
    /\ UNCHANGED <<upstream, cut, store, faults>>

\* updateGitRepo: nothing more happens when the branch is where the remote is;
\* local changes are looked for only when it is not.
Fetch(p, r) ==
    /\ On(p, r, "fetch")
    /\ \/ Fault /\ End(p, r, "failed")
       \/ cmd[p].cancelled /\ End(p, r, "cancelled") /\ UNCHANGED faults
       \/ /\ ~cmd[p].cancelled /\ UNCHANGED faults
          /\ IF tree[r].rev = upstream[r] THEN End(p, r, "ok")
             ELSE IF tree[r].torn THEN End(p, r, "failed")
             ELSE Step(p, r, "rewrite", upstream[r])
    /\ UNCHANGED <<trees, store>>

\* The hard reset, or rsync --delete, starts to rewrite the work tree, perhaps
\* while that of another command is at it ...
BeginRewrite(p, r) ==
    /\ On(p, r, "rewrite")
    /\ LET clash == {q \in Proc : task[q][r].st \in Rewriting} IN
       task' = [q \in Proc |-> [task[q] EXCEPT ![r].st =
                  IF clash # {} /\ q \in clash \cup {p} THEN "clashing" ELSE IF q = p THEN "rewriting" ELSE @]]
    /\ tree' = [tree EXCEPT ![r].torn = TRUE]
    /\ UNCHANGED <<upstream, cut, cmd, store, faults>>

\* ... and ends.  A done context kills rsync; it can only fail what follows a
\* reset.  The repository may then turn out to be another one.
FinishRewrite(p, r) ==
    /\ On(p, r, "rewriting") \/ On(p, r, "clashing")
    /\ tree' = [tree EXCEPT ![r] = [rev |-> task[p][r].to, torn |-> task[p][r].st = "clashing"]]
    /\ cut' = IF r \notin Rsync /\ task[p][r].st = "clashing" THEN cut \cup {r} ELSE cut
    /\ \/ ~(r \in Rsync /\ cmd[p].cancelled) /\ End(p, r, "ok") /\ UNCHANGED faults
       \/ cmd[p].cancelled /\ r \notin Rsync /\ End(p, r, "cancelled") /\ UNCHANGED faults
       \/ Fault /\ End(p, r, "failed")
    /\ UNCHANGED <<upstream, store>>

\* A rewrite that fails or is killed half-way.  The system Git tried after a
\* failed reset takes the branch for up to date if it was moved already, and
\* finds local changes if it was not.
FailRewrite(p, r) ==
    /\ On(p, r, "rewriting") \/ On(p, r, "clashing")
    /\ \/ /\ r \in Rsync /\ UNCHANGED <<tree, cut>>
          /\ \/ cmd[p].cancelled /\ End(p, r, "cancelled") /\ UNCHANGED faults
             \/ Fault /\ End(p, r, "failed")
       \/ /\ r \notin Rsync /\ Fault
          /\ cut' = cut \cup {r}
          /\ \/ tree' = [tree EXCEPT ![r].rev = task[p][r].to] /\ End(p, r, "ok")
             \/ UNCHANGED tree /\ End(p, r, "failed")
    /\ UNCHANGED <<upstream, store>>

\* Mutant: a failed repository does not keep the others from being indexed.
Wait_any(p) ==
    /\ At(p, "sync") /\ \A r \in Repo : task[p][r].st \in Ended
    /\ cmd' = [cmd EXCEPT ![p].pc = "prepare"]
    /\ task' = [task EXCEPT ![p] = [r \in Repo |-> Rest]]
    /\ UNCHANGED <<trees, store, faults>>

\* runSync: the index is refreshed only when every repository succeeded.
Wait(p) ==
    /\ At(p, "sync") /\ \A r \in Repo : task[p][r].st \in Ended
    /\ cmd' = [cmd EXCEPT ![p].pc =
                 IF \A r \in Repo : task[p][r].st = "ok" /\ ~cmd[p].cancelled THEN "prepare" ELSE "failed"]
    /\ task' = [task EXCEPT ![p] = [r \in Repo |-> Rest]]
    /\ UNCHANGED <<trees, store, faults>>

-----------------------------------------------------------------------------
(* runIndex                                                                *)

Go(p, pc) == cmd' = [cmd EXCEPT ![p].pc = pc]
Mine(p) == cmd[p].gen
Lost(p) == gens[Mine(p)] = None
Touched(g) == Append(SelectSeq(recency, LAMBDA x : x # g), g)

Prepare(p) ==
    /\ At(p, "prepare") /\ made < MaxGen
    /\ made' = made + 1
    /\ gens' = [gens EXCEPT ![made'] = Empty]
    /\ recency' = Append(recency, made')
    /\ cmd' = [cmd EXCEPT ![p].pc = "seed", ![p].gen = made']
    /\ UNCHANGED <<trees, task, active, faults, raced>>

\* The active generation is linked and copied, unless it is gone; opening the
\* database creates the directory again if the candidate is.
SeedFromActive(p) ==
    /\ At(p, "seed")
    /\ LET seeded == active # 0 /\ gens[active] # None IN
       IF Lost(p) /\ seeded THEN Go(p, "failed") /\ UNCHANGED <<gens, recency>>
       ELSE /\ Go(p, "walk")
            /\ gens' = [gens EXCEPT ![Mine(p)] = IF seeded THEN [gens[active] EXCEPT !.walk = None] ELSE Empty]
            /\ recency' = Touched(Mine(p))
    /\ UNCHANGED <<trees, task, active, made, faults, raced>>

\* What a walk may find: of a torn tree, any mixture of the revisions.
Found(r) ==
    IF tree[r].torn THEN {m \in SUBSET Known(r) : \A x, y \in m : x[1] = y[1] => x = y}
    ELSE {IF tree[r].rev = 0 THEN {} ELSE Contents[r][tree[r].rev]}

\* The repositories are read at their own moments; metadata errors, which a
\* torn tree may show, end the command.
Walk(p, r) ==
    /\ At(p, "walk") /\ r \notin DOMAIN cmd[p].seen
    /\ \/ tree[r].torn /\ Go(p, "failed")
       \/ \E found \in Found(r) : cmd' = [cmd EXCEPT ![p].seen = (r :> found) @@ @]
    /\ UNCHANGED <<trees, task, store, faults>>

Seen(p) == UNION {cmd[p].seen[r] : r \in Repo}
Secondary(rec) == {<<a, rec[1]>> : a \in rec[2]}
SecondaryOf(records) == UNION {Secondary(rec) : rec \in records}

\* Records with another fingerprint replace theirs; in the batch the secondary
\* keys of the previous record are deleted before those of the new are set.
ReconcileWithProgress(db, seen) ==
    LET changed  == {rec \in seen : rec \notin db.records}
        previous == {old \in db.records : \E rec \in changed : rec[1] = old[1]}
    IN  [db EXCEPT !.records = (@ \ previous) \cup changed,
                   !.second = (@ \ SecondaryOf(previous)) \cup SecondaryOf(changed)]

RemoveMissing(db, seen) ==
    LET stale == {rec \in db.records : ~\E s \in seen : s[1] = rec[1]}
    IN  [db EXCEPT !.records = @ \ stale, !.second = @ \ SecondaryOf(stale)]

Reconcile(p) ==
    /\ At(p, "walk") /\ DOMAIN cmd[p].seen = Repo
    /\ IF Lost(p) THEN Go(p, "failed") /\ UNCHANGED gens
       ELSE /\ Go(p, "sidecars")
            /\ gens' = [gens EXCEPT ![Mine(p)] = RemoveMissing(ReconcileWithProgress(@, Seen(p)), Seen(p))]
    /\ UNCHANGED <<trees, task, recency, active, made, faults, raced>>

\* The name index and the resolver snapshot are written beside the database,
\* and its records are counted.
WriteSidecars(p) ==
    /\ At(p, "sidecars")
    /\ IF Lost(p) \/ Cardinality(gens[Mine(p)].records) # Cardinality({rec[1] : rec \in Seen(p)})
       THEN Go(p, "failed") /\ UNCHANGED <<gens, recency>>
       ELSE /\ Go(p, "stat")
            /\ gens' = [gens EXCEPT ![Mine(p)].walk = Seen(p)]
            /\ recency' = Touched(Mine(p))
    /\ UNCHANGED <<trees, task, active, made, faults, raced>>

\* Publish looks at the candidate ...
Stat(p) ==
    /\ At(p, "stat")
    /\ Go(p, IF Lost(p) THEN "failed" ELSE "publish")
    /\ UNCHANGED <<trees, task, store, faults>>

\* ... and renames a new link over the logical path.
Publish(p) ==
    /\ At(p, "publish")
    /\ active' = Mine(p) /\ Go(p, "list")
    /\ UNCHANGED <<trees, task, gens, recency, made, faults, raced>>

\* The active generation and the newest others, Retain in all.
Retained ==
    LET others == SelectSeq(recency, LAMBDA g : g # active)
        n      == Len(others)
    IN  {active} \cup {others[i] : i \in {j \in 1..n : j > n + 1 - Retain}}

Prune(p) ==
    /\ At(p, "list")
    /\ LET doomed == IF gens[active] = None THEN {} ELSE ToSet(recency) \ Retained IN
       /\ cmd' = [cmd EXCEPT ![p].pc = "remove", ![p].doomed = doomed]
       /\ raced' = (raced \/ \E q \in Proc \ {p} : Running(q) /\ Mine(q) \in doomed)
    /\ UNCHANGED <<trees, task, gens, recency, active, made, faults>>

RemoveGeneration(p, g) ==
    /\ At(p, "remove") /\ g \in cmd[p].doomed
    /\ gens' = [gens EXCEPT ![g] = None]
    /\ recency' = SelectSeq(recency, LAMBDA x : x # g)
    /\ cmd' = [cmd EXCEPT ![p].doomed = @ \ {g}]
    /\ UNCHANGED <<trees, task, active, made, faults, raced>>

Return(p) ==
    /\ At(p, "remove") /\ cmd[p].doomed = {}
    /\ Go(p, IF cmd[p].kind = "sync" THEN "synced" ELSE "indexed")
    /\ UNCHANGED <<trees, task, store, faults>>

-----------------------------------------------------------------------------
(* The operator                                                            *)

Interrupt(p) ==
    /\ At(p, "sync") /\ ~cmd[p].cancelled /\ Fault
    /\ cmd' = [cmd EXCEPT ![p].cancelled = TRUE]
    /\ UNCHANGED <<trees, task, store>>

\* A killed command leaves its candidate behind and its rewrites half done:
\* the branch of a reset may have been moved already.
Kill(p) ==
    /\ Running(p) /\ Fault
    /\ LET half == {r \in Repo \ Rsync : task[p][r].st \in Rewriting} IN
       /\ cut' = cut \cup half
       /\ \E moved \in SUBSET half :
            tree' = [r \in Repo |-> IF r \in moved THEN [tree[r] EXCEPT !.rev = task[p][r].to] ELSE tree[r]]
    /\ cmd' = [cmd EXCEPT ![p] = Idle]
    /\ task' = [task EXCEPT ![p] = [r \in Repo |-> Rest]]
    /\ UNCHANGED <<upstream, store>>

Next ==
    \/ \E r \in Repo : Release(r)
    \/ \E p \in Proc :
         \/ \E kind \in Commands[p] : Run(p, kind)
         \/ \E r \in Repo : \/ Acquire(p, r) \/ Clone(p, r) \/ PublishClone(p, r) \/ Fetch(p, r)
                            \/ BeginRewrite(p, r) \/ FinishRewrite(p, r) \/ FailRewrite(p, r) \/ Walk(p, r)
         \/ Wait(p) \/ Prepare(p) \/ SeedFromActive(p) \/ Reconcile(p) \/ WriteSidecars(p)
         \/ Stat(p) \/ Publish(p) \/ Prune(p) \/ Return(p)
         \/ \E g \in Gen : RemoveGeneration(p, g)
         \/ Interrupt(p) \/ Kill(p)

Spec == Init /\ [][Next]_vars

-----------------------------------------------------------------------------
(* Properties                                                              *)

\* The link at the logical path leads to a generation that holds exactly what
\* one walk of the repositories found, secondary keys included, whoever
\* fails, dies or prunes; unless a prune chose the candidate of a command that
\* had not published it yet, which it does once two newer ones exist.
ActiveIsComplete ==
    active # 0 /\ ~raced =>
        /\ gens[active] # None
        /\ gens[active].records = gens[active].walk
        /\ gens[active].second = SecondaryOf(gens[active].records)

\* When a sync that nobody disturbed reports success, every repository is at
\* least where its remote was at the start, none is torn, and the index is
\* exactly theirs, whatever failed or was killed before.  A Git repository
\* whose reset was once cut short is the exception: the next update takes its
\* branch for up to date before it looks for local changes.
SyncedIsIndexed ==
    \A p \in Proc : At(p, "synced") /\ cmd[p].alone =>
        /\ active = Mine(p)
        /\ \A r \in Repo \ cut :
             /\ tree[r].rev >= cmd[p].from[r] /\ ~tree[r].torn
             /\ gens[active].records \cap Known(r) = Contents[r][tree[r].rev]
=============================================================================
