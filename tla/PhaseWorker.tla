----------------------------- MODULE PhaseWorker -----------------------------
(***************************************************************************)
(* Running the phases of a package (internal/phaseproto): the manager      *)
(* starts one Bash worker per request, reads its events from a pipe,       *)
(* judges the phase by the events, the exit status and the cancellation,   *)
(* and writes what it read to the package's log, which is marked active    *)
(* until it is finalized.                                                  *)
(*                                                                         *)
(* An event is [kind, seq, code]: "phase", "log", "elog", "result" (with   *)
(* its exit code) or "bad", an elog event whose class is not known.        *)
(***************************************************************************)
EXTENDS Naturals, Sequences, FiniteSets, SequencesExt

CONSTANTS
    Package,     \* packages, built one after the other
    Requests,    \* the requests of a build: sequences of phases
    Lines,       \* what a phase may print: a set of sequences over {"log", "elog", "bad"}
    Cap,         \* how many events the pipe holds
    Compress,    \* whether logs are compressed
    MaxKill,     \* how often the manager is killed
    None

VARIABLES
    log,         \* package -> [plain, gz, marker, last], last the kind of its last record
    boss,        \* the manager
    shell,       \* the worker
    pipe,        \* the events in the pipe
    built,       \* package -> "none", "ok", "failed", "refused" or "killed"
    kills

wvars == <<log, boss, shell, pipe, built, kills>>

NoLog == [plain |-> FALSE, gz |-> FALSE, marker |-> "none", last |-> None]
Rest  == [pc |-> "rest", pkg |-> None, at |-> 0, next |-> 0, finished |-> FALSE, events |-> <<>>,
          refused |-> FALSE, cancelled |-> FALSE, unstarted |-> FALSE, err |-> FALSE]
Gone  == [pc |-> "gone", at |-> 0, seq |-> 0, lines |-> <<>>, status |-> 0, sent |-> <<>>,
          saved |-> FALSE, code |-> 0, stray |-> FALSE]

Init ==
    /\ log = [p \in Package |-> NoLog]
    /\ boss = Rest
    /\ shell = Gone
    /\ pipe = <<>>
    /\ built = [p \in Package |-> "none"]
    /\ kills = 0

Phases == Requests[boss.at]

-----------------------------------------------------------------------------
(* The log of a package.                                                   *)

\* NewPackageLog reserves the file ...
Reserve(p) ==
    /\ boss.pc = "rest" /\ built[p] = "none"
    /\ log' = [log EXCEPT ![p].plain = TRUE]
    /\ boss' = [Rest EXCEPT !.pc = "mark", !.pkg = p]
    /\ UNCHANGED <<shell, pipe, built, kills>>

\* ... creates its marker, and then writes the path into it.
Mark ==
    /\ boss.pc \in {"mark", "fill"}
    /\ log' = [log EXCEPT ![boss.pkg].marker = IF boss.pc = "mark" THEN "empty" ELSE "written"]
    /\ boss' = [boss EXCEPT !.pc = IF boss.pc = "mark" THEN "fill" ELSE "launch", !.at = 1]
    /\ UNCHANGED <<shell, pipe, built, kills>>

\* After a request the next one, or the end of the build.
Proceed ==
    /\ boss' = IF boss.err \/ boss.at = Len(Requests) THEN [boss EXCEPT !.pc = "close", !.events = <<>>]
               ELSE [boss EXCEPT !.pc = "launch", !.at = @ + 1, !.events = <<>>]
    /\ shell' = Gone /\ pipe' = <<>>

\* persistWorkerEvents: a record per event, and one for the error.
Persist ==
    /\ boss.pc = "persist"
    /\ log' = [log EXCEPT ![boss.pkg].last = IF boss.err THEN "terminal-error" ELSE Last(boss.events).kind]
    /\ Proceed
    /\ UNCHANGED <<built, kills>>

Outcome == IF boss.unstarted THEN "refused" ELSE IF boss.err THEN "failed" ELSE "ok"

\* Mutant: the log is removed before the compressed one has its name.
Finalize_removes_first ==
    /\ boss.pc \in {"close", "remove", "clear"}
    /\ LET p == boss.pkg
       IN  CASE boss.pc = "close" /\ Compress -> log' = [log EXCEPT ![p].plain = FALSE]
             [] boss.pc = "remove" -> log' = [log EXCEPT ![p].gz = TRUE]
             [] OTHER -> log' = [log EXCEPT ![p].marker = "none"]
    /\ IF boss.pc = "clear" \/ ~Compress
       THEN boss' = Rest /\ built' = [built EXCEPT ![boss.pkg] = Outcome]
       ELSE boss' = [boss EXCEPT !.pc = IF boss.pc = "close" THEN "remove" ELSE "clear"] /\ UNCHANGED built
    /\ UNCHANGED <<shell, pipe, kills>>

\* Finalize, whether the build succeeded or not: the compressed log is complete
\* before it gets its name, then the plain one and at last the marker go.
Finalize ==
    /\ boss.pc \in {"close", "remove", "clear"}
    /\ LET p == boss.pkg
       IN  CASE boss.pc = "close" /\ Compress -> log' = [log EXCEPT ![p].gz = TRUE]
             [] boss.pc = "remove" -> log' = [log EXCEPT ![p].plain = FALSE]
             [] OTHER -> log' = [log EXCEPT ![p].marker = "none"]
    /\ IF boss.pc = "clear" \/ ~Compress
       THEN boss' = Rest /\ built' = [built EXCEPT ![boss.pkg] = Outcome]
       ELSE boss' = [boss EXCEPT !.pc = IF boss.pc = "close" THEN "remove" ELSE "clear"] /\ UNCHANGED built
    /\ UNCHANGED <<shell, pipe, kills>>

\* InterruptedPackageLogs: the logs with a marker; one marker that is empty, or
\* whose log is not there, fails the whole scan, which then finds nothing.
InterruptedPackageLogs ==
    LET marked == {p \in Package : log[p].marker # "none"}
    IN  IF \E p \in marked : log[p].marker = "empty" \/ ~log[p].plain THEN {} ELSE marked

-----------------------------------------------------------------------------
(* The worker.                                                             *)

\* RunBashWorkerWithOptions: a request that is not valid, whose distfiles no
\* longer verify or for which a tool is missing is refused, and nothing is
\* written to the log.
Launch ==
    /\ boss.pc = "launch"
    /\ boss' \in {[boss EXCEPT !.pc = "start"], [boss EXCEPT !.pc = "close", !.err = TRUE, !.unstarted = TRUE]}
    /\ UNCHANGED <<log, shell, pipe, built, kills>>

\* runWorkerCommandWithOptions up to the start of the process, which fails with
\* the context done, a key the environment may not hold, or for lack of resources.
StartWorker ==
    /\ boss.pc = "start"
    /\ \/ /\ boss' = [boss EXCEPT !.pc = "persist", !.err = TRUE]
          /\ UNCHANGED shell
       \/ /\ ~boss.cancelled
          /\ boss' = [boss EXCEPT !.pc = "read", !.next = 0, !.finished = FALSE]
          /\ shell' = [Gone EXCEPT !.pc = "source", !.at = 1]
    /\ UNCHANGED <<log, pipe, built, kills>>

Alive    == shell.pc # "gone"
Unseen   == UNCHANGED <<log, boss, built, kills>>
Exits(c) == shell' = [shell EXCEPT !.pc = "gone", !.code = c]

\* ___arise_emit: the next number of the sequence file; blocks while the pipe is full.
Emit(kind, code, after) ==
    LET event == [kind |-> kind, seq |-> shell.seq, code |-> code]
    IN  /\ Len(pipe) < Cap
        /\ pipe' = Append(pipe, event)
        /\ shell' = [after EXCEPT !.seq = @ + 1, !.sent = Append(@, event)]

\* The package is sourced: it succeeds, fails (its EAPI, or a bad snapshot), or
\* exits, in which case the EXIT trap reports a failure.
Source ==
    /\ shell.pc = "source"
    /\ \/ shell' = [shell EXCEPT !.pc = "phase"]
       \/ shell' = [shell EXCEPT !.pc = "drain", !.status = 126]
       \/ shell' = [shell EXCEPT !.pc = "trap"]
    /\ UNCHANGED pipe /\ Unseen

\* The EXIT trap: a result of 1.
Trap ==
    /\ shell.pc = "trap"
    /\ Emit("result", 1, [shell EXCEPT !.pc = "exit", !.status = 1])
    /\ Unseen

\* ___arise_run_one_phase announces the phase ...
Announce ==
    /\ shell.pc = "phase"
    /\ Emit("phase", 0, [shell EXCEPT !.pc = "run"])
    /\ Unseen

\* ... and runs it with the event pipe closed, so that a process it leaves
\* behind does not hold the pipe.  Its ordinary status is ignored; die and a
\* safety violation end the request.
RunPhase ==
    /\ shell.pc = "run"
    /\ \E out \in Lines, end \in {0, 1, 125} :
         shell' = [shell EXCEPT !.lines = @ \o out, !.status = end,
                                !.at = IF end = 0 THEN @ + 1 ELSE @,
                                !.pc = IF end # 0 THEN "drain" ELSE IF shell.at = Len(Phases) THEN "save" ELSE "phase"]
    /\ UNCHANGED pipe /\ Unseen

\* ___arise_save_phase_environment: written beside, then moved.
SaveEnvironment ==
    /\ shell.pc = "save"
    /\ \/ shell' = [shell EXCEPT !.pc = "drain", !.saved = TRUE]
       \/ shell' = [shell EXCEPT !.pc = "drain", !.status = 1]
    /\ UNCHANGED pipe /\ Unseen

\* What the phases printed, line by line, and then the result.
Drain ==
    /\ shell.pc = "drain"
    /\ IF shell.lines # <<>> THEN Emit(Head(shell.lines), 0, [shell EXCEPT !.lines = Tail(@)])
       ELSE Emit("result", shell.status, [shell EXCEPT !.pc = "exit"])
    /\ Unseen

Exit ==
    /\ shell.pc = "exit"
    /\ Exits(shell.status)
    /\ UNCHANGED pipe /\ Unseen

-----------------------------------------------------------------------------
(* The manager.                                                            *)

\* Decoder.accept: the number is the next one, the kind is known, and nothing
\* follows the result.
accept(event) == ~boss.finished /\ event.seq = boss.next /\ event.kind # "bad"

\* The loop of runWorkerCommandWithOptions over the pipe: it stops at an event it
\* refuses, and at the end of the stream, which comes when nobody can write.
Read ==
    /\ boss.pc = "read"
    /\ IF pipe # <<>>
       THEN /\ pipe' = Tail(pipe)
            /\ boss' = IF accept(Head(pipe))
                       THEN [boss EXCEPT !.next = @ + 1, !.finished = Head(pipe).kind = "result",
                                         !.events = Append(@, Head(pipe))]
                       ELSE [boss EXCEPT !.pc = "wait", !.refused = TRUE]
       ELSE /\ ~Alive /\ ~shell.stray
            /\ boss' = [boss EXCEPT !.pc = "wait"]
            /\ UNCHANGED pipe
    /\ UNCHANGED <<log, shell, built, kills>>

\* What makes the phase a failure, in the order in which it is asked.
Verdict ==
    \/ boss.refused
    \/ boss.cancelled
    \/ ~boss.finished
    \/ shell.code # 0
    \/ Last(boss.events).code # 0

\* command.Wait, and the verdict; a refused event discards all of them, and a
\* cancelled worker adds one that says so.
Wait ==
    /\ boss.pc = "wait" /\ ~Alive
    /\ boss' = [boss EXCEPT !.pc = "persist", !.err = Verdict,
                            !.events = IF boss.refused THEN <<>>
                                       ELSE IF boss.cancelled
                                       THEN Append(@, [kind |-> "signal", seq |-> boss.next, code |-> 0])
                                       ELSE @]
    /\ UNCHANGED <<log, shell, pipe, built, kills>>

\* The context of the build is done: the worker's process group gets TERM.
\* Bash dies of it or runs its EXIT trap first; a phase may ignore it.
Cancel ==
    /\ boss.pc \in {"launch", "start", "read", "wait"} /\ ~boss.cancelled
    /\ boss' = [boss EXCEPT !.cancelled = TRUE]
    /\ \/ UNCHANGED shell
       \/ Alive /\ Exits(143)
       \/ Alive /\ shell.pc # "exit" /\ shell' = [shell EXCEPT !.pc = "trap"]
    /\ UNCHANGED <<log, pipe, built, kills>>

\* After the grace period the group is killed.
KillGroup ==
    /\ boss.pc \in {"read", "wait"} /\ boss.cancelled /\ Alive
    /\ Exits(137)
    /\ UNCHANGED <<log, boss, pipe, built, kills>>

\* The manager is killed; its worker, which nobody reads any more, is no longer
\* observed.
Kill ==
    /\ boss.pc # "rest" /\ kills < MaxKill
    /\ kills' = kills + 1
    /\ built' = [built EXCEPT ![boss.pkg] = "killed"]
    /\ boss' = Rest /\ shell' = Gone /\ pipe' = <<>>
    /\ UNCHANGED log

Manager == Mark \/ Persist \/ Finalize \/ Launch \/ StartWorker \/ Read \/ Wait \/ KillGroup
Worker  == Source \/ Trap \/ Announce \/ RunPhase \/ SaveEnvironment \/ Drain \/ Exit
Progress == Manager \/ Worker
Next    == Progress \/ Cancel \/ Kill \/ \E p \in Package : Reserve(p)

\* While one of the two processes can go on one of them does; a phase ends by
\* itself, the grace period passes.
Spec == Init /\ [][Next]_wvars /\ WF_wvars(Progress)

-----------------------------------------------------------------------------

\* A request counts as successful only when the worker ran every phase of it to
\* its end, saved the environment and exited with 0, and the manager has read
\* exactly the events that it sent.
SuccessIsReal ==
    boss.pc = "persist" /\ ~boss.err =>
        shell.at > Len(Phases) /\ shell.saved /\ shell.code = 0 /\ boss.events = shell.sent

\* A build that came to its end has cleared its marker, has one log, plain or
\* compressed, and the log ends with the result of a successful build or with
\* the error of a failed one, unless the last request was refused before its
\* worker was started.
FinishedLogTells ==
    \A p \in Package : built[p] \in {"ok", "failed"} =>
        /\ log[p].marker = "none" /\ log[p].plain # log[p].gz
        /\ log[p].last = IF built[p] = "ok" THEN "result" ELSE "terminal-error"

\* Wherever the manager is killed, what was written to a log is still there,
\* plain or compressed.
LogSurvives == \A p \in Package : log[p].last # None => log[p].plain \/ log[p].gz

\* The manager has refused an event, and the worker, which nobody reads then,
\* waits for room in the pipe.
Stuck == boss.refused /\ boss.pc = "wait" /\ Alive /\ Len(pipe) = Cap
Building == boss.pc # "rest"

\* The log of a build that died before it was finalized is found by the scan
\* for interrupted logs.  Not so: killed between the removal of the plain log
\* and of the marker, a build leaves a marker that fails every later scan.
InterruptedLogIsFound ==
    \A p \in Package : built[p] = "killed" /\ log[p].marker = "written" /\ log[p].plain =>
        p \in InterruptedPackageLogs

=============================================================================
