------------------------------- MODULE Replay -------------------------------
(* ResolveContext of internal/resolve/resolve.go: resolution is attempted again
   and again, each time with some of its decisions overridden, until a plan
   verifies, nothing is left to override or the backtrack budget is spent.  With
   several jobs the remaining alternatives of one decision are attempted at the
   same time.

   One attempt is abstracted to what the search sees of it.  It meets the
   decisions 1..Decisions in order; each takes its overridden option, or the
   first, and moves on to the next while the option fails by itself (an element
   of `broken`), paying for every move it has not paid for before.  What all the
   choices together lead to is `verdict`. *)
EXTENDS Naturals, Integers, Sequences, FiniteSets, SequencesExt, FiniteSetsExt

CONSTANTS Decisions,   \* decisions an attempt meets
          Options,     \* alternatives of each, in order of preference
          Limits,      \* values of config.Backtrack
          Jobs,        \* values of config.Jobs
          MaxBroken, MaxVerified, MaxTerminal

Key == 1..Decisions
Option == 1..Options
Vector == [Key -> Option]

VARIABLES broken, verdict,          \* the dependency graph
          limit, jobs,              \* the configuration
          pc, overrides, visited, charged, history, remaining,
          speculation,              \* the decision being speculated on, and results by option
          result

graph == <<broken, verdict, limit, jobs>>
vars == <<broken, verdict, limit, jobs, pc, overrides, visited, charged, history,
          remaining, speculation, result>>

NoResult == [outcome |-> "none", choices |-> <<>>, moves |-> <<>>]
Idle == [option |-> 0, key |-> 0, prefix |-> <<>>, results |-> <<>>]

Init == /\ broken \in {b \in SUBSET (Key \X Option) : Cardinality(b) <= MaxBroken}
        /\ \E v \in {s \in SUBSET Vector : Cardinality(s) <= MaxVerified},
              t \in {s \in SUBSET Vector : Cardinality(s) <= MaxTerminal} :
             verdict = [c \in Vector |-> IF c \in v THEN "verified"
                                         ELSE IF c \in t THEN "terminal" ELSE "conflict"]
        /\ limit \in Limits
        /\ jobs \in Jobs
        /\ pc = "attempt"
        /\ overrides = <<>>
        /\ visited = {}
        /\ charged = {}
        /\ history = <<>>
        /\ remaining = limit
        /\ speculation = Idle
        /\ result = NoResult

-----------------------------------------------------------------------------
\* consumeBacktrack
Pay(s, move) ==
  CASE move \in charged \cup ToSet(s.moves) -> s
    [] s.left = 0 -> [s EXCEPT !.stuck = TRUE]
    [] OTHER -> [s EXCEPT !.left = @ - 1, !.moves = Append(@, move)]

\* processAnyOf from option `from` of decision k on
RECURSIVE Try(_, _, _)
Try(s, k, from) ==
  IF <<k, from>> \notin broken THEN [s EXCEPT !.choices = Append(@, from)]
  ELSE IF from = Options THEN [s EXCEPT !.stuck = TRUE]
  ELSE LET paid == Pay(s, <<k, from, from + 1>>) IN
       IF paid.stuck THEN paid ELSE Try(paid, k, from + 1)

RECURSIVE Meet(_, _, _)
Meet(s, k, forced) ==
  IF s.stuck \/ k > Decisions THEN s
  ELSE Meet(Try(s, k, IF k \in DOMAIN forced THEN forced[k] ELSE 1), k + 1, forced)

resolveAttempt(forced, budget) ==
  LET s == Meet([choices |-> <<>>, moves |-> <<>>, left |-> budget, stuck |-> FALSE], 1, forced) IN
  [outcome |-> IF s.stuck THEN "conflict" ELSE verdict[s.choices],
   choices |-> s.choices, moves |-> s.moves]

\* The deepest decision with an alternative that was not replayed yet.  Its own
\* override replaces everything below it.
Rewind(choices, k, o) == Append(SubSeq(choices, 1, k - 1), o)

\* Mutant: the least preferred alternative comes first
nextUnvisited_reversed(choices, seen) ==
  LET open == {<<k, o>> \in (DOMAIN choices) \X Option :
                 o > choices[k] /\ Rewind(choices, k, o) \notin seen} IN
  IF open = {} THEN <<0, 0>>
  ELSE LET k == Max({p[1] : p \in open}) IN <<k, Max({p[2] : p \in {q \in open : q[1] = k}})>>

nextUnvisitedReplayState(choices, seen) ==
  LET open == {<<k, o>> \in (DOMAIN choices) \X Option :
                 o > choices[k] /\ Rewind(choices, k, o) \notin seen} IN
  IF open = {} THEN <<0, 0>>
  ELSE LET k == Max({p[1] : p \in open}) IN <<k, Min({p[2] : p \in {q \in open : q[1] = k}})>>

-----------------------------------------------------------------------------
Return(r) == /\ pc' = "done"
             /\ result' = r
             /\ UNCHANGED <<overrides, speculation>>

\* give up on the choices of the last attempt and override one of them
Replay(choices, next) ==
  /\ pc' = "attempt"
  /\ overrides' = Rewind(choices, next[1], next[2])
  /\ speculation' = Idle

Attempt ==
  /\ pc = "attempt"
  /\ LET r == resolveAttempt(overrides, remaining)
         left == remaining - Len(r.moves)
         paid == history \o r.moves
         next == nextUnvisitedReplayState(r.choices, visited \cup {overrides}) IN
     /\ visited' = visited \cup {overrides}
     /\ charged' = charged \cup ToSet(r.moves)
     /\ \/ /\ \/ r.outcome \in {"verified", "terminal"}
              \/ left <= 0
              \/ next = <<0, 0>>
           /\ Return(r)
           /\ remaining' = left
           /\ history' = paid
        \/ /\ r.outcome = "conflict" /\ left > 0 /\ next # <<0, 0>>
           /\ IF jobs > 1 /\ Options - r.choices[next[1]] >= 2 /\ left > 1
              THEN /\ pc' = "speculate"
                   /\ speculation' = [option |-> next[2], key |-> next[1], prefix |-> r.choices,
                                      results |-> <<>>]
                   /\ remaining' = left
                   /\ history' = paid
                   /\ UNCHANGED overrides
              ELSE /\ Replay(r.choices, next)
                   /\ remaining' = left - 1
                   /\ history' = Append(paid, <<"rewind", next[1], next[2]>>)
           /\ UNCHANGED result
  /\ UNCHANGED graph

\* the context is cancelled: the attempt under way returns an incomplete result
Cancel ==
  /\ pc = "attempt"
  /\ Return([NoResult EXCEPT !.outcome = "incomplete"])
  /\ UNCHANGED <<graph, visited, charged, history, remaining>>

Alternatives == (speculation.prefix[speculation.key] + 1)..Options

\* one worker finishes one alternative; the workers finish in any order
Work(o) ==
  /\ pc = "speculate"
  /\ o \in Alternatives \ {e[1] : e \in ToSet(speculation.results)}
  /\ Cardinality({p \in Alternatives \ {e[1] : e \in ToSet(speculation.results)} : p < o}) < jobs
  /\ speculation' = [speculation EXCEPT !.results =
       Append(@, <<o, resolveAttempt(Rewind(speculation.prefix, speculation.key, o), remaining - 1)>>)]
  /\ UNCHANGED <<graph, pc, overrides, visited, charged, history, remaining, result>>

\* The first alternative, in order of preference, that verified within the
\* budget; or the sequential search goes on as if nothing had been tried.
Collect ==
  /\ pc = "speculate"
  /\ Len(speculation.results) = Cardinality(Alternatives)
  /\ LET of(o) == (CHOOSE e \in ToSet(speculation.results) : e[1] = o)[2]
         used(o) == (o - speculation.prefix[speculation.key]) + Len(of(o).moves)
         winners == {o \in Alternatives : of(o).outcome = "verified" /\ used(o) <= remaining}
         w == Min(winners) IN
     \/ /\ winners # {}
        /\ Return(of(w))
        /\ remaining' = remaining - used(w)
        /\ history' = Append(history, <<"rewind", speculation.key, w>>) \o of(w).moves
     \/ /\ winners = {}
        /\ Replay(speculation.prefix, <<speculation.key, speculation.option>>)
        /\ remaining' = remaining - 1
        /\ history' = Append(history, <<"rewind", speculation.key, speculation.option>>)
        /\ UNCHANGED result
  /\ UNCHANGED <<graph, visited, charged>>

Next == Attempt \/ Cancel \/ (\E o \in Option : Work(o)) \/ Collect

Spec == Init /\ [][Next]_vars

-----------------------------------------------------------------------------
(* Properties                                                              *)

Feasible(c) == \A k \in Key : <<k, c[k]>> \notin broken

\* A conflict with budget left is final: no combination of options that work
\* by themselves verifies (ResolveContext gives up only when
\* nextUnvisitedReplayState finds nothing).
SearchIsComplete ==
  pc = "done" /\ result.outcome = "conflict" /\ remaining > 0 =>
    ~\E c \in Vector : verdict[c] = "verified" /\ Feasible(c)

Preferred(a, b) == \E k \in Key : a[k] < b[k] /\ \A j \in 1..(k - 1) : a[j] = b[j]

\* With one job the plan returned is the one preferred among all that verify,
\* earlier decisions counting more.
PreferredPlanFound ==
  pc = "done" /\ result.outcome = "verified" /\ jobs = 1 =>
    ~\E c \in Vector : verdict[c] = "verified" /\ Feasible(c) /\ Preferred(c, result.choices)

\* No set of overrides is attempted twice, so no budget is spent on a known
\* failure.
ReplaysAreNew == pc = "attempt" => overrides \notin visited
=============================================================================
