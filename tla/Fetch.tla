------------------------------- MODULE Fetch -------------------------------
(***************************************************************************)
(* Acquiring source files (internal/fetch and the pool of fetchPlanActions *)
(* in cmd/arise/install.go).  Each process has one Fetcher and a pool of   *)
(* workers that take the actions of its plan in order.  Workers that want  *)
(* the same file share one call of acquireLeader; processes are kept apart *)
(* by a lock file in DISTDIR.  The pool stands for the builds of a run too *)
(* (rebuild.go), which are the only ones that honour RESTRICT=fetch.       *)
(*                                                                         *)
(* An artifact stands for a Manifest identity; a file is intact for it     *)
(* when its content is that artifact.  An endpoint is <<host, layout>>.    *)
(***************************************************************************)
EXTENDS Naturals, Sequences, FiniteSets, SequencesExt, FiniteSetsExt

CONSTANTS
    Proc,         \* processes, each with one Fetcher
    Worker,       \* workers
    ProcOf,       \* the process of a worker
    Actions,      \* process -> the actions of its plan: [wants, policy]
    Artifact,     \* Manifest identities
    NameOf,       \* the file name of an artifact
    Sources,      \* artifact -> its SRC_URI entries: [mirror, host]
    GentooMirrors, \* GENTOO_MIRRORS: hosts, in order
    MirrorLines,  \* thirdpartymirrors: lines <<group, hosts>>
    Servers,      \* what the endpoints may serve: functions endpoint -> {"good", "bad", "down"}
    Initially,    \* what DISTDIR holds at first: a function from names to contents
    MaxFaults,    \* how often a command is interrupted or killed, or DISTDIR changed by others
    None

VARIABLES
    disk,         \* file name -> [content, stamp]
    locked,       \* file name -> the worker holding its lock file
    inflight,     \* process -> artifact -> the leading worker
    verified,     \* process -> artifact -> the stamp of the file last verified, or 0
    job,          \* worker -> what it is doing
    queue,        \* process -> [next, state, errs]
    cancelled,    \* the processes whose context is done
    serves,       \* endpoint -> what it serves
    endpoints,    \* <<artifact, policy>> -> its endpoints, from the configuration read at the start
    clock,        \* the stamps handed out
    fetched,      \* artifact -> how often it was downloaded
    accepted,     \* what Acquire took for verified: <<process, artifact, content>>
    blamed,       \* leaders' failures: <<action policy, artifact>>
    faults        \* [foreign, kill]

fvars == <<disk, locked, inflight, verified, job, queue, cancelled, serves, endpoints, clock, fetched, accepted,
           blamed, faults>>
net   == <<serves, endpoints>>

Bad    == "bad"
Absent == "absent"
Names  == {NameOf[a] : a \in Artifact}

-----------------------------------------------------------------------------
(* The endpoints of an artifact.                                           *)

\* ParseMirrorGroups: lines of one group add up, in order.
ParseMirrorGroups(lines) ==
    LET names == {line[1] : line \in ToSet(lines)}
    IN  [g \in names |-> FoldLeft(LAMBDA hosts, line : IF line[1] = g THEN hosts \o line[2] ELSE hosts,
                                  <<>>, lines)]

Groups == ParseMirrorGroups(MirrorLines)

\* automaticGentooSources: every mirror in the hashed layout, then in the flat one.
automaticGentooSources ==
    LET bases == FoldLeft(LAMBDA seen, m : IF m \in ToSet(seen) THEN seen ELSE Append(seen, m), <<>>, GentooMirrors)
    IN  [i \in DOMAIN bases |-> <<bases[i], "hashed">>] \o [i \in DOMAIN bases |-> <<bases[i], "flat">>]

\* expandMirrorSource: an address stands for itself, a mirror:// entry for the
\* hosts of its group; nothing when the group has none.
expandMirrorSource(source) ==
    LET bases == IF source.mirror = "gentoo" /\ GentooMirrors # <<>> THEN GentooMirrors
                 ELSE IF source.mirror \in DOMAIN Groups THEN Groups[source.mirror] ELSE <<>>
    IN  IF source.mirror = "" THEN <<<<source.host, "path">>>>
        ELSE [i \in DOMAIN bases |-> <<bases[i], "path">>]

\* acquireLeader's endpoints: the automatic mirrors unless RESTRICT=mirror,
\* before or, with primaryuri, after those of SRC_URI; each one once.
Endpoints(a, policy) ==
    LET automatic == IF "mirror" \in policy THEN <<>> ELSE automaticGentooSources
        own       == FlattenSeq([i \in DOMAIN Sources[a] |-> expandMirrorSource(Sources[a][i])])
        all       == IF "primaryuri" \in policy THEN own \o automatic ELSE automatic \o own
    IN  FoldLeft(LAMBDA seen, e : IF e \in ToSet(seen) THEN seen ELSE Append(seen, e), <<>>, all)

-----------------------------------------------------------------------------

\* The policies of the plans.
Policies == UNION {{p.policy : p \in ToSet(Actions[f])} : f \in Proc}

Idle == [pc |-> "idle", action |-> 0, left |-> <<>>, ends |-> <<>>, stamp |-> 0, err |-> FALSE]

Init ==
    /\ disk = [n \in Names |-> [content |-> Initially[n], stamp |-> 1]]
    /\ locked = [n \in Names |-> None]
    /\ inflight = [f \in Proc |-> [a \in Artifact |-> None]]
    /\ verified = [f \in Proc |-> [a \in Artifact |-> 0]]
    /\ job = [w \in Worker |-> Idle]
    /\ queue = [f \in Proc |-> [next |-> 1, state |-> "run", errs |-> {}]]
    /\ cancelled = {}
    /\ serves \in Servers
    /\ endpoints = [a \in Artifact, policy \in Policies |-> Endpoints(a, policy)]
    /\ clock = 1
    /\ fetched = [a \in Artifact |-> 0]
    /\ accepted = {}
    /\ blamed = {}
    /\ faults = [foreign |-> 0, kill |-> 0]

Wanted(w) == job[w].left[1]
File(w)   == NameOf[Wanted(w)]
Policy(w) == Actions[ProcOf[w]][job[w].action].policy
Live(w)   == queue[ProcOf[w]].state = "run"
At(w, pc) == Live(w) /\ job[w].pc = pc

\* The action ends in an error.
Failed(w) == job' = [job EXCEPT ![w] = [@ EXCEPT !.pc = "ended", !.err = TRUE]]

\* acquireOne returned nil: the next artifact of the action, or its end.
Next1(w) ==
    job' = [job EXCEPT ![w] = [@ EXCEPT !.pc = IF Len(job[w].left) = 1 THEN "ended" ELSE "look",
                                        !.left = Tail(@), !.ends = <<>>, !.stamp = 0]]

Accepts(w) == accepted' = accepted \cup {<<ProcOf[w], Wanted(w), disk[File(w)].content>>}

\* fetchPlanActions hands the next action to an idle worker; an action without
\* sources is done at once.
Take(w) ==
    LET f == ProcOf[w]
    IN  /\ At(w, "idle") /\ f \notin cancelled
        /\ queue[f].next <= Len(Actions[f])
        /\ LET wants == Actions[f][queue[f].next].wants
           IN  job' = [job EXCEPT ![w] = [Idle EXCEPT !.pc = IF wants = <<>> THEN "ended" ELSE "look",
                                                      !.action = queue[f].next, !.left = wants]]
        /\ queue' = [queue EXCEPT ![f].next = @ + 1]
        /\ UNCHANGED <<disk, locked, inflight, verified, cancelled, net, clock, fetched, accepted, blamed, faults>>

\* The worker notes the result of its action and is free again.
Deliver(w) ==
    LET f == ProcOf[w]
    IN  /\ At(w, "ended")
        /\ queue' = [queue EXCEPT ![f].errs = IF job[w].err THEN @ \cup {job[w].action} ELSE @]
        /\ job' = [job EXCEPT ![w] = Idle]
        /\ UNCHANGED <<disk, locked, inflight, verified, cancelled, net, clock, fetched, accepted, blamed, faults>>

\* fetchPlanActions returns when all workers have: an error when the context was
\* done before the last action was handed out, or when an action failed.
Return(f) ==
    LET all == queue[f].next > Len(Actions[f])
    IN  /\ queue[f].state = "run"
        /\ all \/ f \in cancelled
        /\ \A w \in Worker : ProcOf[w] = f => job[w].pc = "idle"
        /\ queue' = [queue EXCEPT ![f].state = IF all /\ queue[f].errs = {} THEN "ok" ELSE "error"]
        /\ UNCHANGED <<disk, locked, inflight, verified, job, cancelled, net, clock, fetched, accepted, blamed, faults>>

\* The second half of acquireOne's entry, under the mutex: forget the stamp, then
\* join the running call or lead one.
Join(w) ==
    LET f == ProcOf[w]
        a == Wanted(w)
    IN  /\ verified' = [verified EXCEPT ![f][a] = 0]
        /\ IF inflight[f][a] # None
           THEN /\ job' = [job EXCEPT ![w].pc = "wait"]
                /\ UNCHANGED inflight
           ELSE /\ job' = [job EXCEPT ![w].pc = "lock"]
                /\ inflight' = [inflight EXCEPT ![f][a] = w]

\* acquireOne: with a stamp on record the file is looked at outside the mutex.
Look(w) ==
    /\ At(w, "look")
    /\ IF verified[ProcOf[w]][Wanted(w)] = 0 THEN Join(w)
       ELSE /\ job' = [job EXCEPT ![w].pc = "stat", ![w].stamp = verified[ProcOf[w]][Wanted(w)]]
            /\ UNCHANGED <<inflight, verified>>
    /\ UNCHANGED <<disk, locked, queue, cancelled, net, clock, fetched, accepted, blamed, faults>>

\* Mutant: a file that was verified once is not looked at again.
Stat_trusts(w) ==
    /\ At(w, "stat")
    /\ Next1(w)
    /\ Accepts(w)
    /\ UNCHANGED <<disk, locked, inflight, verified, queue, cancelled, net, clock, fetched, blamed, faults>>

\* The file is the one that was verified, or the entry is dropped.
Stat(w) ==
    /\ At(w, "stat")
    /\ IF disk[File(w)].content # Absent /\ disk[File(w)].stamp = job[w].stamp
       THEN /\ Next1(w)
            /\ Accepts(w)
            /\ UNCHANGED <<inflight, verified>>
       ELSE Join(w) /\ UNCHANGED accepted
    /\ UNCHANGED <<disk, locked, queue, cancelled, net, clock, fetched, blamed, faults>>

\* A waiting worker whose context is done gives up.
GiveUp(w) ==
    /\ At(w, "wait") /\ ProcOf[w] \in cancelled
    /\ Failed(w)
    /\ UNCHANGED <<disk, locked, inflight, verified, queue, cancelled, net, clock, fetched, accepted, blamed, faults>>

\* A waiting worker whose leader has returned takes its result.
Follow(w) ==
    /\ At(w, "told")
    /\ IF job[w].err THEN Failed(w) /\ UNCHANGED accepted
       ELSE Next1(w) /\ Accepts(w)
    /\ UNCHANGED <<disk, locked, inflight, verified, queue, cancelled, net, clock, fetched, blamed, faults>>

\* acquireArtifactLock: polls until the lock file is free or the context is done.
Lock(w) ==
    /\ At(w, "lock")
    /\ \/ /\ locked[File(w)] = None
          /\ locked' = [locked EXCEPT ![File(w)] = w]
          /\ job' = [job EXCEPT ![w].pc = "check"]
       \/ /\ locked[File(w)] # None /\ ProcOf[w] \in cancelled
          /\ job' = [job EXCEPT ![w].pc = "publish", ![w].err = TRUE]
          /\ UNCHANGED locked
    /\ UNCHANGED <<disk, inflight, verified, queue, cancelled, net, clock, fetched, accepted, blamed, faults>>

\* acquireLeader verifies what is there; without it, RESTRICT=fetch and an empty
\* SRC_URI are errors.
Check(w) ==
    /\ At(w, "check")
    /\ IF disk[File(w)].content = Wanted(w)
       THEN job' = [job EXCEPT ![w].pc = "unlock"] /\ UNCHANGED blamed
       ELSE IF "fetch" \in Policy(w) \/ Sources[Wanted(w)] = <<>>
       THEN /\ job' = [job EXCEPT ![w].pc = "unlock", ![w].err = TRUE]
            /\ blamed' = blamed \cup {<<Policy(w), Wanted(w)>>}
       ELSE /\ job' = [job EXCEPT ![w].pc = "get", ![w].ends = endpoints[Wanted(w), Policy(w)]]
            /\ UNCHANGED blamed
    /\ UNCHANGED <<disk, locked, inflight, verified, queue, cancelled, net, clock, fetched, accepted, faults>>

\* downloadVerified: the body goes to a temporary file, which is verified before
\* it is renamed; the next endpoint is tried when any of that fails.  With the
\* context done every request fails.
Download(w) ==
    /\ At(w, "get")
    /\ IF job[w].ends = <<>>
       THEN /\ job' = [job EXCEPT ![w].pc = "unlock", ![w].err = TRUE]
            /\ blamed' = IF ProcOf[w] \in cancelled THEN blamed ELSE blamed \cup {<<Policy(w), Wanted(w)>>}
       ELSE /\ UNCHANGED blamed
            /\ IF ProcOf[w] \in cancelled \/ serves[job[w].ends[1]] # "good"
               THEN job' = [job EXCEPT ![w].ends = Tail(@)]
               ELSE job' = [job EXCEPT ![w].pc = "rename"]
    /\ UNCHANGED <<disk, locked, inflight, verified, queue, cancelled, net, clock, fetched, accepted, faults>>

Rename(w) ==
    /\ At(w, "rename")
    /\ clock' = clock + 1
    /\ disk' = [disk EXCEPT ![File(w)] = [content |-> Wanted(w), stamp |-> clock']]
    /\ fetched' = [fetched EXCEPT ![Wanted(w)] = @ + 1]
    /\ job' = [job EXCEPT ![w].pc = "unlock"]
    /\ UNCHANGED <<locked, inflight, verified, queue, cancelled, net, accepted, blamed, faults>>

Unlock(w) ==
    /\ At(w, "unlock")
    /\ locked' = [locked EXCEPT ![File(w)] = None]
    /\ job' = [job EXCEPT ![w].pc = "publish"]
    /\ UNCHANGED <<disk, inflight, verified, queue, cancelled, net, clock, fetched, accepted, blamed, faults>>

Waiters(w) == {v \in Worker : ProcOf[v] = ProcOf[w] /\ job[v].pc = "wait" /\ job[v].left[1] = Wanted(w)}

\* Mutant: those waiting are told only of a failure.
Publish_errors_only(w) ==
    LET f == ProcOf[w]
        a == Wanted(w)
        mine == [job[w] EXCEPT !.pc = IF job[w].err \/ Len(job[w].left) = 1 THEN "ended" ELSE "look",
                               !.left = Tail(@), !.ends = <<>>]
    IN  /\ At(w, "publish")
        /\ inflight' = [inflight EXCEPT ![f][a] = None]
        /\ verified' = [verified EXCEPT ![f][a] =
                            IF job[w].err \/ disk[File(w)].content = Absent THEN @ ELSE disk[File(w)].stamp]
        /\ job' = [v \in Worker |-> IF v = w THEN mine
                                    ELSE IF v \in Waiters(w) /\ job[w].err THEN [job[v] EXCEPT !.pc = "told", !.err = TRUE]
                                    ELSE job[v]]
        /\ IF job[w].err THEN UNCHANGED accepted ELSE Accepts(w)
        /\ UNCHANGED <<disk, locked, queue, cancelled, net, clock, fetched, blamed, faults>>

\* The end of acquireOne, under the mutex: the stamp of a verified file is kept,
\* the call is over and those waiting for it are told.
Publish(w) ==
    LET f == ProcOf[w]
        a == Wanted(w)
        mine == [job[w] EXCEPT !.pc = IF job[w].err \/ Len(job[w].left) = 1 THEN "ended" ELSE "look",
                               !.left = Tail(@), !.ends = <<>>]
    IN  /\ At(w, "publish")
        /\ inflight' = [inflight EXCEPT ![f][a] = None]
        /\ verified' = [verified EXCEPT ![f][a] =
                            IF job[w].err \/ disk[File(w)].content = Absent THEN @ ELSE disk[File(w)].stamp]
        /\ job' = [v \in Worker |-> IF v = w THEN mine
                                    ELSE IF v \in Waiters(w) THEN [job[v] EXCEPT !.pc = "told", !.err = job[w].err]
                                    ELSE job[v]]
        /\ IF job[w].err THEN UNCHANGED accepted ELSE Accepts(w)
        /\ UNCHANGED <<disk, locked, queue, cancelled, net, clock, fetched, blamed, faults>>

MayFail == faults.foreign + faults.kill + Cardinality(cancelled) < MaxFaults

\* The command is interrupted.
Cancel(f) ==
    /\ queue[f].state = "run" /\ f \notin cancelled /\ MayFail
    /\ cancelled' = cancelled \cup {f}
    /\ UNCHANGED <<disk, locked, inflight, verified, job, queue, net, clock, fetched, accepted, blamed, faults>>

\* A process is killed: its locks go with it, its temporary files stay.
Kill(f) ==
    /\ queue[f].state = "run" /\ MayFail
    /\ queue' = [queue EXCEPT ![f].state = "killed"]
    /\ locked' = [n \in Names |-> IF locked[n] # None /\ ProcOf[locked[n]] = f THEN None ELSE locked[n]]
    /\ faults' = [faults EXCEPT !.kill = @ + 1]
    /\ UNCHANGED <<disk, inflight, verified, job, cancelled, net, clock, fetched, accepted, blamed>>

InUse(n) == \E w \in Worker : Live(w) /\ job[w].left # <<>> /\ job[w].pc # "look" /\ File(w) = n

\* Somebody else replaces or removes a file of DISTDIR, though not while an
\* acquisition of that file is under way.
Foreign(n, content) ==
    /\ MayFail /\ ~InUse(n)
    /\ faults' = [faults EXCEPT !.foreign = @ + 1]
    /\ clock' = clock + 1
    /\ disk' = [disk EXCEPT ![n] = [content |-> content, stamp |-> clock']]
    /\ UNCHANGED <<locked, inflight, verified, job, queue, cancelled, net, fetched, accepted, blamed>>

Step(w) == \/ Take(w) \/ Deliver(w) \/ Look(w) \/ Stat(w) \/ GiveUp(w) \/ Follow(w) \/ Lock(w)
           \/ Check(w) \/ Download(w) \/ Rename(w) \/ Unlock(w) \/ Publish(w)

Progress == (\E w \in Worker : Step(w)) \/ (\E f \in Proc : Return(f))

Next ==
    \/ Progress
    \/ \E f \in Proc : Cancel(f) \/ Kill(f)
    \/ \E n \in Names, content \in {Bad, Absent} : Foreign(n, content)

\* While a goroutine can go on some goroutine does; the lock is polled until it
\* is free, requests time out.
Spec == Init /\ [][Next]_fvars /\ WF_fvars(Progress)

-----------------------------------------------------------------------------

\* What Acquire takes for verified is intact at that moment, and a plan reported
\* as fetched had every file of every action accepted: stamps, shared calls and
\* the pool never report a file nobody verified ("Acquire returns only after
\* every artifact exists in DISTDIR and passes its Manifest size and digest checks").
FetchedIsIntact ==
    /\ \A t \in accepted : t[2] = t[3]
    /\ \A f \in Proc : queue[f].state = "ok" =>
           \A i \in DOMAIN Actions[f] : \A a \in ToSet(Actions[f][i].wants) : <<f, a, a>> \in accepted

\* A file is downloaded once for all workers and all processes, and again only
\* when somebody else has changed it: the shared call, and the look at DISTDIR
\* under the lock, spare every other download.
FetchedOnce == \A a \in Artifact : fetched[a] <= 1 + faults.foreign

\* A leader fails, with its context alive, only when RESTRICT=fetch forbids the
\* download or none of the addresses its policy allows serves the file: a bad
\* source, or one that cannot be expanded, does not end the search.
FailureIsExplained ==
    \A t \in blamed :
        \/ "fetch" \in t[1]
        \/ \A i \in DOMAIN Sources[t[2]] :
               \A e \in ToSet(expandMirrorSource(Sources[t[2]][i])) : serves[e] # "good"

Returned(f) == queue[f].state # "run"

=============================================================================
