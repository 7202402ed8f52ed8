----------------------------- MODULE ResolverTx -----------------------------
(* The undo log of internal/resolve/resolve.go: the resolver mutates its maps in
   place and every open resolverTransaction remembers, per key, the value the
   key had when that transaction first saw it change.  The maps (toInstall,
   actionOwners, useOverrides, seenDeps and the others, which are all logged the
   same way) are one function `table` over pairs <<map, key>>; decisionHistory and
   backtrackRemaining are the ledger and the budget it is charged to.  The other
   append-only lists (conflicts, warnings, replayChoices, conflictDetails) are
   cut back to their length exactly as the ledger is and have no variable. *)
EXTENDS Sequences, Naturals

CONSTANTS Key,        \* action keys, dependency keys
          Value,      \* actions, constraints, flag settings
          Owner,      \* parent versions that caused an action
          Decision,   \* backtrack decisions
          Charged,    \* decisions paid for by an earlier attempt
          Limit,      \* config.Backtrack
          PlainMap,      \* the maps that are only set and deleted: "seen", "uninstall", ...
          MaxDepth, MaxGeneration,
          None

Slot == ({"install", "owners", "use"} \cup PlainMap) \X Key

\* config.Backtrack is a number, and the maps have names of their own
TxAssumption == Limit \in Nat /\ PlainMap \cap {"install", "owners", "use"} = {}

VARIABLES table, history, remaining, generation, transactions, cache

vars == <<table, history, remaining, generation, transactions, cache>>

Init == /\ table = [s \in Slot |-> IF s[1] = "owners" THEN {} ELSE None]
        /\ history = <<>>
        /\ remaining = Limit
        /\ generation = 0
        /\ transactions = <<>>
        /\ cache = {}

\* Mutant: only the innermost transaction logs
Log_innermost(slots) ==
  transactions' = [i \in DOMAIN transactions |->
     LET undo == transactions[i].undo
         new == IF i = Len(transactions) THEN slots \ DOMAIN undo ELSE {} IN
     [transactions[i] EXCEPT !.undo =
        [s \in DOMAIN undo \cup new |-> IF s \in new THEN table[s] ELSE undo[s]]]]

\* every open transaction logs the old value of a slot the first time it changes
Log(slots) ==
  transactions' = [i \in DOMAIN transactions |->
     LET undo == transactions[i].undo
         new == slots \ DOMAIN undo IN
     [transactions[i] EXCEPT !.undo =
        [s \in DOMAIN undo \cup new |-> IF s \in new THEN table[s] ELSE undo[s]]]]

Write(updates) ==
  /\ Log(DOMAIN updates)
  /\ table' = [s \in Slot |-> IF s \in DOMAIN updates THEN updates[s] ELSE table[s]]

Ledger == <<history, remaining>>

\* the action is owned by the parent on top of dependencyPath, if there is one
setInstall(k, v, owner) ==
  /\ Write([s \in {<<"install", k>>} \cup (IF owner = None THEN {} ELSE {<<"owners", k>>}) |->
              IF s[1] = "install" THEN v ELSE table[s] \cup {owner}])
  /\ UNCHANGED <<Ledger, generation, cache>>

deleteInstall(k) ==
  /\ Write([s \in {<<"install", k>>, <<"owners", k>>} |->
              IF s[1] = "install" THEN None ELSE {}])
  /\ UNCHANGED <<Ledger, generation, cache>>

\* a superseded parent gives up an action; without an owner the action goes too
setActionOwners(k, owner) ==
  /\ owner \in table[<<"owners", k>>]
  /\ LET left == table[<<"owners", k>>] \ {owner} IN
     Write([s \in {<<"owners", k>>} \cup (IF left = {} THEN {<<"install", k>>} ELSE {}) |->
              IF s[1] = "owners" THEN left ELSE None])
  /\ UNCHANGED <<Ledger, generation, cache>>

setPlain(map, k, v) ==
  /\ Write([s \in {<<map, k>>} |-> v])
  /\ UNCHANGED <<Ledger, generation, cache>>

setUseOverride(k, v) ==
  /\ generation < MaxGeneration
  /\ Write([s \in {<<"use", k>>} |-> v])
  /\ generation' = generation + 1
  /\ UNCHANGED <<Ledger, cache>>

\* a decision already paid for, here or by an earlier attempt, is free
consumeBacktrack(d) ==
  /\ d \notin Charged /\ d \notin {history[i] : i \in DOMAIN history}
  /\ remaining > 0
  /\ remaining' = remaining - 1
  /\ history' = Append(history, d)
  /\ UNCHANGED <<table, generation, transactions, cache>>

beginTransaction ==
  /\ Len(transactions) < MaxDepth
  /\ transactions' = Append(transactions,
       [undo |-> [s \in {} |-> None],
        historyLen |-> Len(history), remaining |-> remaining])
  /\ UNCHANGED <<table, Ledger, generation, cache>>

commitTransaction ==
  /\ transactions # <<>>
  /\ transactions' = SubSeq(transactions, 1, Len(transactions) - 1)
  /\ UNCHANGED <<table, Ledger, generation, cache>>

Restored(tx) == [s \in Slot |-> IF s \in DOMAIN tx.undo THEN tx.undo[s] ELSE table[s]]

UseLogged(tx) == \E s \in DOMAIN tx.undo : s[1] = "use"

rollbackTransaction ==
  /\ transactions # <<>>
  /\ LET tx == transactions[Len(transactions)] IN
     /\ UseLogged(tx) => generation < MaxGeneration
     /\ table' = Restored(tx)
     /\ history' = SubSeq(history, 1, tx.historyLen)
     /\ remaining' = tx.remaining
     /\ generation' = IF UseLogged(tx) THEN generation + 1 ELSE generation
     /\ transactions' = SubSeq(transactions, 1, Len(transactions) - 1)
  /\ UNCHANGED cache

\* candidateCache: what a search found is kept under the current generation; the
\* model follows one entry at a time, whichever it likes
Overrides == [k \in Key |-> table[<<"use", k>>]]

findMatchingVersion ==
  /\ \A e \in cache : e.generation # generation
  /\ cache' = {[generation |-> generation, overrides |-> Overrides]}
  /\ UNCHANGED <<table, Ledger, generation, transactions>>

Next == \/ \E k \in Key, v \in Value, o \in Owner \cup {None} : setInstall(k, v, o)
        \/ \E k \in Key : deleteInstall(k)
        \/ \E k \in Key, o \in Owner : setActionOwners(k, o)
        \/ \E m \in PlainMap, k \in Key, v \in Value \cup {None} : setPlain(m, k, v)
        \/ \E k \in Key, v \in Value : setUseOverride(k, v)
        \/ \E d \in Decision : consumeBacktrack(d)
        \/ beginTransaction \/ commitTransaction \/ rollbackTransaction
        \/ findMatchingVersion

Spec == Init /\ [][Next]_vars

(* What every open transaction would restore, given up right now. *)
Branch(i) == <<Restored(transactions[i]),
               SubSeq(history, 1, transactions[i].historyLen), transactions[i].remaining>>

Promise == INSTANCE Snapshots WITH
  State <- [Slot -> Value \cup {None} \cup SUBSET Owner] \X Seq(Decision) \X Nat,
  current <- <<table, history, remaining>>,
  saved <- [i \in DOMAIN transactions |-> Branch(i)]

\* The undo log implements Snapshots: each step is one of its steps, and a
\* branch that is given up leaves the maps, the ledger and the budget as they
\* were when it began, whatever nested branches wrote, kept or gave up
\* (rollbackTransaction).
SnapshotsKept == Promise!Next \/ UNCHANGED <<table, history, remaining, transactions>>

\* Every decision in the ledger was paid for, and nothing else was: the budget
\* left and the ledger add up to config.Backtrack in every branch.
LedgerIsBudget == Len(history) + remaining = Limit

\* A candidate found under one set of flag overrides is never served under
\* another: overrides never return to a generation (candidateCache).
CacheFresh == \A e \in cache : e.generation = generation => e.overrides = Overrides
=============================================================================
