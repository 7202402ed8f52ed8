---------------------------- MODULE MCWorkers -----------------------------
(***************************************************************************)
(* The processes and goroutines that build and fetch, each on its own      *)
(* small instance: part says which component a behaviour is of, and the    *)
(* slots hold its variables.                                               *)
(***************************************************************************)
EXTENDS Naturals, Sequences, FiniteSets, TLC

CONSTANT None

VARIABLES part, s1, s2, s3, s4, s5, s6, s7, s8, s9, s10, s11, s12, s13, s14

slots == <<part, s1, s2, s3, s4, s5, s6, s7, s8, s9, s10, s11, s12, s13, s14>>

\* A source build that replaces a version, and a binary package.
J == INSTANCE PackageJob WITH
  Job <- {"r", "b"}, Binary <- {"b"}, Replaces <- {"r"}, BuildOnly <- {},
  Phase <- <<"src_compile", "src_install">>, FailClean <- FALSE, NoOne <- "none",
  pc <- s1, phase <- s2, env <- s3, stored <- s4, root <- s5, ran <- s6,
  early <- s7, told <- s8, error <- s9, disk <- s10, commitLock <- s11,
  boundary <- s12, cancelled <- s13, signalled <- s14

ASSUME JobsAreNamed == J!JobAssumption

\* A process with two workers and one with a single worker, which want the same
\* artifact under different RESTRICTs; a damaged file is on disk at first.
FetchProc == [w1 |-> "f1", w2 |-> "f1", w3 |-> "f2"]
FetchActions ==
  [f1 |-> << [wants |-> <<"a">>, policy |-> {"mirror"}],
             [wants |-> <<"a", "b">>, policy |-> {}] >>,
   f2 |-> << [wants |-> <<>>, policy |-> {"primaryuri"}], [wants |-> <<"a">>, policy |-> {"fetch"}] >>]
FetchName == [a |-> "a.tar", b |-> "b.tar"]
FetchSources ==
  [a |-> << [mirror |-> "lost", host |-> ""], [mirror |-> "", host |-> "h1"] >>,
   b |-> << [mirror |-> "gnu", host |-> ""] >>]
Endpoint == ({"m"} \X {"hashed", "flat", "path"}) \cup ({"h1", "h2"} \X {"path"})
FetchServers == {[e \in Endpoint |-> IF e = <<"h1", "path">> THEN "good" ELSE "bad"]}
FetchBefore == ("a.tar" :> "absent") @@ ("b.tar" :> "bad")
F == INSTANCE Fetch WITH
  Proc <- {"f1", "f2"}, Worker <- {"w1", "w2", "w3"}, ProcOf <- FetchProc,
  Actions <- FetchActions, Artifact <- {"a", "b"}, NameOf <- FetchName,
  Sources <- FetchSources, GentooMirrors <- <<"m">>,
  MirrorLines <- << <<"gnu", <<"h1">> >>, <<"gnu", <<"h2">> >> >>,
  Servers <- FetchServers, Initially <- FetchBefore, MaxFaults <- 1, None <- None,
  disk <- s1, locked <- s2, inflight <- s3, verified <- s4, job <- s5, queue <- s6,
  cancelled <- s7, serves <- s8, endpoints <- s9, clock <- s10, fetched <- s11,
  accepted <- s12, blamed <- s13, faults <- s14

\* Two packages, two requests each; a phase prints nothing, an elog line, or a
\* line the protocol refuses.
W == INSTANCE PhaseWorker WITH
  Package <- {"p", "q"},
  Requests <- << <<"pkg_setup">>, <<"src_compile", "src_install">> >>,
  Lines <- {<<>>, <<"elog">>, <<"bad", "log">>}, Cap <- 1, Compress <- TRUE,
  MaxKill <- 1, None <- None, log <- s1, boss <- s2, shell <- s3, pipe <- s4,
  built <- s5, kills <- s6

-----------------------------------------------------------------------------

From7 == <<s7, s8, s9, s10, s11, s12, s13, s14>>

Init ==
  \/ part = "job" /\ J!Init
  \/ part = "fetch" /\ F!Init
  \/ /\ part = "phase" /\ W!Init
     /\ s7 = 0 /\ s8 = 0 /\ s9 = 0 /\ s10 = 0 /\ s11 = 0 /\ s12 = 0 /\ s13 = 0 /\ s14 = 0

InJob == part = "job" /\ UNCHANGED part
InFetch == part = "fetch" /\ UNCHANGED part
InPhase == part = "phase" /\ UNCHANGED <<part, From7>>

JobStep == InJob /\ J!Next
FetchStep == InFetch /\ F!Next
PhaseStep == InPhase /\ W!Next

Next == JobStep \/ FetchStep \/ PhaseStep

\* The fairness of each component, as its own specification states it.
Progress ==
  \/ InJob /\ J!Progress
  \/ InFetch /\ F!Progress
  \/ InPhase /\ W!Progress

Spec == Init /\ [][Next]_slots /\ WF_slots(Progress)

-----------------------------------------------------------------------------
\* Package jobs: only one of two is between BeginMutation and its release, and
\* it holds the commit lock; a job that returned committed and said so, or left
\* the root as it was, and leaves no image, open log or lock behind; the saved
\* environment of an installed entry holds every phase that ran (RebuildPackage,
\* InstallBinaryPackage).
JobsAreSound ==
  part = "job" => J!JobsAreSound

\* Fetching: what Acquire reports as verified is intact at that moment, for every
\* worker; a file is downloaded once for all workers and processes, and again
\* only when somebody else changed it; a fetch fails only when RESTRICT forbids
\* it or no allowed address serves the file.
FetchesAreSound ==
  part = "fetch" => F!FetchedIsIntact /\ F!FetchedOnce /\ F!FailureIsExplained

\* Phases: a request succeeds only when the worker ran every phase and the manager
\* read every event; the log of a finished build tells its outcome and its marker
\* is gone; no kill of the manager loses what a log holds (Session, LogManager).
PhasesAreTold ==
  part = "phase" => W!SuccessIsReal /\ W!FinishedLogTells /\ W!LogSurvives

\* Everyone returns: every job, whatever fails and whoever waits for the commit
\* lock; every fetch command, since nobody waits for a call that is over or a
\* lock nobody holds; every build, unless its worker waits for a manager that
\* stopped reading.
EveryoneReturns ==
  /\ \A j \in {"r", "b"} : <>(part = "job" => J!Returned(j))
  /\ \A f \in {"f1", "f2"} : <>(part = "fetch" => F!Returned(f))
  /\ (part = "phase" /\ W!Building) ~> (part = "phase" => ~W!Building \/ W!Stuck)
=============================================================================
