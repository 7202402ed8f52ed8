----------------------------- MODULE PackageJob -----------------------------
(***************************************************************************)
(* The jobs of internal/rebuild: RebuildPackage with the phase protocol    *)
(* (rebuild.go), InstallBinaryPackage (binpkg.go) and the installed        *)
(* lifecycle hooks, several at a time.  A job builds or extracts an image, *)
(* takes the commit lock, enters the mutation boundary, merges inside one  *)
(* journal and unwinds its deferred calls in reverse order.                *)
(*                                                                         *)
(* Phases run in a worker process and either succeed, which extends the    *)
(* saved environment, or fail.  The journal (module Journal) makes the     *)
(* payload and the database entry of a merge one unit, so a merge is       *)
(* "partial" until it is committed or rolled back.                         *)
(***************************************************************************)
EXTENDS Naturals, Sequences

CONSTANTS
  Job,
  Binary,     \* jobs that install a binary package
  Replaces,   \* jobs that replace another version of their slot
  BuildOnly,  \* jobs that stop once the package is published
  Phase,      \* protocolBuildPhases, in order
  FailClean,  \* FEATURES=fail-clean
  NoOne

VARIABLES
  pc,         \* [Job -> the step a job is at]
  phase,      \* [Job -> how many build phases have run]
  env,        \* [Job -> phases whose effects the saved environment holds]
  stored,     \* [Job -> the same for environment.bz2 of the new entry]
  root,       \* [Job -> its payload and entry: "before", "partial", "after"]
  ran,        \* [Job -> lifecycle hooks run, in order]
  early,      \* [Job -> hooks run on the post-commit context before the commit]
  told,       \* [Job -> OnTransactionCommit: "no", "yes", "failed"]
  error,      \* [Job -> the error returned: "none", "plain", "postcommit"]
  disk,       \* [Job -> what it left: work directory, image, open log, archive]
  commitLock, \* cfg.CommitLock
  boundary,   \* who is inside BeginMutation
  cancelled,  \* a sibling failed: the context of the jobs is done
  signalled   \* the operator interrupted: the outer context is done

vars == <<pc, phase, env, stored, root, ran, early, told, error, disk, commitLock,
          boundary, cancelled, signalled>>

Source == Job \ Binary

JobAssumption == Binary \subseteq Job /\ NoOne \notin Job /\ Phase \in Seq(STRING)

\* the context of a job, and PostCommitContext
Done == cancelled \/ signalled
PostCommitDone == signalled

Goto(j, s) == pc' = [pc EXCEPT ![j] = s]
Leaves(j, what) == disk' = [disk EXCEPT ![j] = @ \cup {what}]

\* a job returns e: deferred calls are next
Raise(j, e, s) == error' = [error EXCEPT ![j] = e] /\ Goto(j, s)

\* an error of a deferred call: %v keeps only the text of the first one
Wrap(j) == error' = [error EXCEPT ![j] = "plain"]

Keep == UNCHANGED error

Init ==
  /\ pc = [j \in Job |-> "open"] /\ phase = [j \in Job |-> 0]
  /\ env = [j \in Job |-> {}] /\ stored = [j \in Job |-> {}]
  /\ root = [j \in Job |-> "before"] /\ ran = [j \in Job |-> <<>>]
  /\ early = [j \in Job |-> {}] /\ told = [j \in Job |-> "no"]
  /\ error = [j \in Job |-> "none"] /\ disk = [j \in Job |-> {}]
  /\ commitLock = NoOne /\ boundary = NoOne
  /\ cancelled = FALSE /\ signalled = FALSE

-----------------------------------------------------------------------------
(* Preparing the image                                                     *)

job == <<env, stored, root, ran, early, told>>
shared == <<commitLock, boundary, cancelled, signalled>>

\* the checks that need no workspace, then the temporary directories
Open(j) ==
  /\ pc[j] = "open"
  /\ \/ /\ disk' = [disk EXCEPT ![j] = IF j \in Binary THEN {"image"} ELSE {"work", "image"}]
        /\ Goto(j, IF j \in Binary THEN "extract" ELSE "fetch") /\ Keep
     \/ Raise(j, "plain", "returned") /\ UNCHANGED disk
     \/ j \in Source /\ Leaves(j, "work") /\ Raise(j, "plain", "clean")
  /\ UNCHANGED <<phase, job, shared>>

\* AcquireManifest; a failure runs the package's own pkg_nofetch
Fetch(j) ==
  /\ pc[j] = "fetch"
  /\ \/ ~Done /\ Goto(j, "log") /\ Keep /\ UNCHANGED ran
     \/ /\ Raise(j, "plain", "clean")
        /\ \/ ran' = [ran EXCEPT ![j] = Append(@, "pkg_nofetch")]
           \/ UNCHANGED ran
  /\ UNCHANGED <<phase, env, stored, root, early, told, disk, shared>>

\* the durable log is reserved; from here its Finalize is deferred
ReserveLog(j) ==
  /\ pc[j] = "log"
  /\ \/ Leaves(j, "log") /\ Goto(j, "select") /\ Keep
     \/ Raise(j, "plain", "clean") /\ UNCHANGED disk
  /\ UNCHANGED <<phase, job, shared>>

\* policy, has_version answers, findInstalledReplacement and its environment
SelectReplacement(j) ==
  /\ pc[j] = "select"
  /\ \/ Goto(j, "build") /\ Keep
     \/ Raise(j, "plain", "finalize")
  /\ UNCHANGED <<phase, job, disk, shared>>

RunBuildPhase(j) ==
  /\ pc[j] = "build" /\ phase[j] < Len(Phase)
  /\ \/ /\ ~Done
        /\ phase' = [phase EXCEPT ![j] = @ + 1]
        /\ env' = [env EXCEPT ![j] = @ \cup {Phase[phase[j] + 1]}]
        /\ UNCHANGED pc /\ Keep
     \/ Raise(j, "plain", "finalize") /\ UNCHANGED <<phase, env>>
  /\ UNCHANGED <<stored, root, ran, early, told, disk, shared>>

\* metadata, publishBuiltGPKG (module BinaryStore) and --buildpkgonly, which
\* ends here
Package(j) ==
  /\ pc[j] = "build" /\ phase[j] = Len(Phase)
  /\ \/ /\ ~Done
        /\ Leaves(j, "archive")
        /\ Goto(j, IF j \in BuildOnly THEN "finalize" ELSE "lock") /\ Keep
     \/ Raise(j, "plain", "finalize") /\ UNCHANGED disk
  /\ UNCHANGED <<phase, job, shared>>

\* InstallBinaryPackage: ExtractWithGPKGPolicy
Extract(j) ==
  /\ pc[j] = "extract"
  /\ \/ ~Done /\ Goto(j, "lock") /\ Keep
     \/ Raise(j, "plain", "clean")
  /\ UNCHANGED <<phase, job, disk, shared>>

-----------------------------------------------------------------------------
(* Inside the commit lock                                                  *)

Lock(j) ==
  /\ pc[j] = "lock" /\ commitLock = NoOne
  /\ commitLock' = j /\ Goto(j, "begin")
  /\ UNCHANGED <<phase, job, error, disk, boundary, cancelled, signalled>>

BeginMutation(j) ==
  /\ pc[j] = "begin"
  /\ \/ /\ ~Done /\ boundary' = j /\ Keep
        /\ Goto(j, IF j \in Binary THEN "merge" ELSE "preinst")
     \/ Raise(j, "plain", "unlock") /\ UNCHANGED boundary
  /\ UNCHANGED <<phase, job, disk, commitLock, cancelled, signalled>>

\* a hook of the new package; its environment is saved when it succeeds
Hook(j, name) == ran' = [ran EXCEPT ![j] = Append(@, name)]

Preinst(j) ==
  /\ pc[j] = "preinst" /\ Hook(j, "pkg_preinst")
  /\ \/ /\ ~Done /\ env' = [env EXCEPT ![j] = @ \cup {"pkg_preinst"}]
        /\ Goto(j, "merge") /\ Keep
     \/ Raise(j, "plain", "release") /\ UNCHANGED env
  /\ UNCHANGED <<phase, stored, root, early, told, disk, shared>>

RolledBack(j) == root' = [root EXCEPT ![j] = "before"]

\* payload and database entry, with the environment as pkg_preinst left it
Merge(j) ==
  /\ pc[j] = "merge"
  /\ \/ /\ ~Done /\ root' = [root EXCEPT ![j] = "partial"]
        /\ stored' = [stored EXCEPT ![j] = env[j]]
        /\ Goto(j, IF j \in Replaces THEN "prerm" ELSE "commit") /\ Keep
     \/ Raise(j, "plain", "release") /\ RolledBack(j) /\ UNCHANGED stored
  /\ UNCHANGED <<phase, env, ran, early, told, disk, shared>>

\* BeforeReplacementRemoval: a failing hook is a notice; binary packages are
\* only merged over entries that have no hooks
OldPrerm(j) ==
  /\ pc[j] = "prerm"
  /\ IF j \in Source THEN Hook(j, "old pkg_prerm") ELSE UNCHANGED ran
  /\ \/ Goto(j, "postrm") /\ Keep /\ UNCHANGED root
     \/ Raise(j, "plain", "release") /\ RolledBack(j)
  /\ UNCHANGED <<phase, env, stored, early, told, disk, shared>>

\* AfterReplacementRemoval, on the post-commit context
OldPostrm(j) ==
  /\ pc[j] = "postrm"
  /\ IF j \in Source
     THEN /\ Hook(j, "old pkg_postrm")
          /\ early' = [early EXCEPT ![j] = @ \cup {"old pkg_postrm"}]
     ELSE UNCHANGED <<ran, early>>
  /\ Goto(j, "commit")
  /\ UNCHANGED <<phase, env, stored, root, told, error, disk, shared>>

\* preserved libraries, sync and Commit, or Rollback
Commit(j) ==
  /\ pc[j] = "commit"
  /\ \/ /\ root' = [root EXCEPT ![j] = "after"] /\ Keep
        /\ Goto(j, IF j \in Binary THEN "record" ELSE "postinst")
     \/ Raise(j, "plain", "release") /\ RolledBack(j)
  /\ UNCHANGED <<phase, env, stored, ran, early, told, disk, shared>>

\* AfterCommit: pkg_postinst, then whatever its outcome the environment of
\* the entry is replaced and the info index and environment are refreshed;
\* any failure is a PostCommitError
Postinst(j) ==
  /\ pc[j] = "postinst" /\ Hook(j, "pkg_postinst")
  /\ Goto(j, "record")
  /\ \E ok, saved \in BOOLEAN :
       /\ ok => ~PostCommitDone
       /\ env' = [env EXCEPT ![j] = IF ok THEN @ \cup {"pkg_postinst"} ELSE @]
       /\ stored' = [stored EXCEPT ![j] = IF saved THEN env'[j] ELSE @]
       /\ error' = [error EXCEPT ![j] = IF ok /\ saved THEN "none" ELSE "postcommit"]
  /\ UNCHANGED <<phase, root, early, told, disk, shared>>

\* Mutant: a post-commit error returns before the callback
Record_clean_only(j) ==
  /\ pc[j] = "record"
  /\ \/ /\ told' = [told EXCEPT ![j] = IF error[j] = "none" THEN "yes" ELSE @]
        /\ Goto(j, IF error[j] = "none" /\ j \in Source THEN "elog" ELSE "release") /\ Keep
     \/ told' = [told EXCEPT ![j] = "failed"] /\ Raise(j, "postcommit", "release")
  /\ UNCHANGED <<phase, env, stored, root, ran, early, disk, shared>>

\* OnTransactionCommit, for a clean merge and for a post-commit error alike
Record(j) ==
  /\ pc[j] = "record"
  /\ \/ /\ told' = [told EXCEPT ![j] = "yes"]
        /\ Goto(j, IF error[j] = "none" /\ j \in Source THEN "elog" ELSE "release") /\ Keep
     \/ told' = [told EXCEPT ![j] = "failed"] /\ Raise(j, "postcommit", "release")
  /\ UNCHANGED <<phase, env, stored, root, ran, early, disk, shared>>

DeliverElog(j) ==
  /\ pc[j] = "elog"
  /\ \/ Goto(j, "release") /\ Keep
     \/ Raise(j, "plain", "release")
  /\ UNCHANGED <<phase, job, disk, shared>>

-----------------------------------------------------------------------------
(* The deferred calls, last one first                                      *)

Release(j) ==
  /\ pc[j] = "release" /\ boundary' = NoOne
  /\ Goto(j, "unlock") /\ (Keep \/ Wrap(j))
  /\ UNCHANGED <<phase, job, disk, commitLock, cancelled, signalled>>

Unlock(j) ==
  /\ pc[j] = "unlock" /\ commitLock' = NoOne
  /\ boundary' = IF boundary = j THEN NoOne ELSE boundary
  /\ Goto(j, IF j \in Binary THEN "clean" ELSE "finalize")
  /\ UNCHANGED <<phase, job, error, disk, cancelled, signalled>>

FinalizeLog(j) ==
  /\ pc[j] = "finalize"
  /\ disk' = [disk EXCEPT ![j] = @ \ {"log"}]
  /\ Goto(j, "clean") /\ (Keep \/ Wrap(j))
  /\ UNCHANGED <<phase, job, shared>>

\* a failed build keeps its work directory for diagnosis, an interrupted one
\* does not
KeepWork(j) == error[j] # "none" /\ ~FailClean /\ ~Done

CleanUp(j) ==
  /\ pc[j] = "clean"
  /\ disk' = [disk EXCEPT ![j] = @ \ (IF KeepWork(j) THEN {"image"} ELSE {"image", "work"})]
  /\ Goto(j, "returned")
  /\ UNCHANGED <<phase, job, error, shared>>

-----------------------------------------------------------------------------
(* The executor and the operator                                           *)

\* The executor reports a post-commit error it was told of as a warning.
Failed(j) ==
  pc[j] = "returned" /\ error[j] # "none" /\ ~(error[j] = "postcommit" /\ told[j] = "yes")

CancelSiblings ==
  /\ ~cancelled /\ \E j \in Job : Failed(j)
  /\ cancelled' = TRUE
  /\ UNCHANGED <<pc, phase, job, error, disk, commitLock, boundary, signalled>>

Signal ==
  /\ ~signalled /\ signalled' = TRUE
  /\ UNCHANGED <<pc, phase, job, error, disk, commitLock, boundary, cancelled>>

Step(j) ==
  \/ Open(j) \/ Fetch(j) \/ ReserveLog(j) \/ SelectReplacement(j)
  \/ RunBuildPhase(j) \/ Package(j) \/ Extract(j)
  \/ Lock(j) \/ BeginMutation(j) \/ Preinst(j) \/ Merge(j)
  \/ OldPrerm(j) \/ OldPostrm(j) \/ Commit(j) \/ Postinst(j) \/ Record(j) \/ DeliverElog(j)
  \/ Release(j) \/ Unlock(j) \/ FinalizeLog(j) \/ CleanUp(j)

Progress == \E j \in Job : Step(j)

Next == Progress \/ CancelSiblings \/ Signal

\* every phase ends (its worker is killed when the context is done), and while a
\* job can go on some job does
Spec == Init /\ [][Next]_vars /\ WF_vars(Progress)

-----------------------------------------------------------------------------
(* Properties                                                              *)

\* Payload, database entry and hooks of two jobs never overlap: whoever is
\* between BeginMutation and its release is alone, holds the commit lock, and
\* nobody else has a half-merged root (CommitLock, BeginMutation).
MutatesAlone ==
  /\ boundary # NoOne => commitLock = boundary
  /\ \A j \in Job : root[j] = "partial" => boundary = j
  /\ \A j \in Job : pc[j] \in {"preinst", "merge", "prerm", "postrm", "commit",
                               "postinst", "record", "elog", "release"} => boundary = j

\* A job that returned has either committed or left the root as it was; a
\* committed one has told the executor, also when a hook failed after the
\* commit, so that it is never built again; an uncommitted one never told.
CommitIsTold ==
  \A j \in Job : pc[j] = "returned" =>
    /\ root[j] # "partial"
    /\ (root[j] = "after") <=> (told[j] # "no")
    /\ error[j] = "none" => told[j] = "yes" \/ j \in BuildOnly

\* The environment of an installed entry, which later removal hooks run in,
\* holds every phase that ran: an incomplete one is reported.
EnvironmentComplete ==
  \A j \in Source : pc[j] = "returned" /\ root[j] = "after" /\ error[j] = "none" =>
    stored[j] = {Phase[i] : i \in DOMAIN Phase} \cup {"pkg_preinst", "pkg_postinst"}

\* A job that returned has no image, no open log and no lock, and it keeps a
\* work directory only when it failed: none after an interruption that the
\* job itself met ("Always reclaim its uniquely named workspace").
NothingLeft ==
  \A j \in Job : pc[j] = "returned" =>
    /\ commitLock # j /\ boundary # j
    /\ disk[j] \cap {"image", "log"} = {}
    /\ "work" \in disk[j] => error[j] # "none" /\ ~FailClean

\* What a package job promises, together.
JobsAreSound == MutatesAlone /\ CommitIsTold /\ NothingLeft /\ EnvironmentComplete

Returned(j) == pc[j] = "returned"

\* PostCommitContext "drives lifecycle hooks after the payload/VDB transaction
\* is durable ... pkg_postrm/pkg_postinst": no hook runs on it earlier, so none
\* has run for a transaction that is rolled back.
PostCommitHooksAreDurable ==
  \A j \in Job : early[j] # {} /\ pc[j] = "returned" => root[j] = "after"
=============================================================================
