-------------------------- MODULE ResolverTxProofs --------------------------
(***************************************************************************)
(* Proofs about ResolverTx, for any keys, values, decisions and depth of   *)
(* nesting: the undo log implements Snapshots, the ledger is the budget,   *)
(* and the candidate cache is never stale.                                 *)
(***************************************************************************)
EXTENDS ResolverTx, SequenceTheorems, TLAPS

Plain == Value \cup {None}
Held(s) == IF s[1] = "owners" THEN SUBSET Owner ELSE Plain
Maps == {t \in [Slot -> Plain \cup SUBSET Owner] : \A s \in Slot : t[s] \in Held(s)}

\* what an open transaction remembers
Undo(u) == /\ u = [s \in DOMAIN u |-> u[s]] /\ DOMAIN u \subseteq Slot
           /\ \A s \in DOMAIN u : u[s] \in Held(s)
IsTransaction(t) ==
  /\ t = [undo |-> t.undo, historyLen |-> t.historyLen, remaining |-> t.remaining]
  /\ Undo(t.undo) /\ t.historyLen \in Nat /\ t.remaining \in Nat

\* a sequence, whatever its elements
Indexed(f) == Len(f) \in Nat /\ f = [i \in 1..Len(f) |-> f[i]]

Open == DOMAIN transactions

TypeOK ==
  /\ table \in Maps /\ history \in Seq(Decision) /\ remaining \in Nat /\ generation \in Nat
  /\ Indexed(transactions)
  /\ \A i \in Open : IsTransaction(transactions[i])

\* An outer transaction has logged whatever an inner one has, and began with no
\* more decisions; each began with the ledger and the budget in balance.
Nested ==
  /\ \A i, j \in Open : i <= j =>
       /\ DOMAIN transactions[j].undo \subseteq DOMAIN transactions[i].undo
       /\ transactions[i].historyLen <= transactions[j].historyLen
  /\ \A i \in Open : /\ transactions[i].historyLen <= Len(history)
                     /\ transactions[i].historyLen + transactions[i].remaining = Limit

\* No candidate was found under a generation that is still to come.
CacheKnown == \A e \in cache : e.generation \in Nat /\ e.generation <= generation

Invariant == TypeOK /\ Nested /\ LedgerIsBudget /\ CacheKnown /\ CacheFresh

-----------------------------------------------------------------------------
(* Sequences as functions on 1..n                                          *)

\* A function on 1..n is a sequence of its own values.
LEMMA IndexedIsSeq ==
  ASSUME NEW f, Indexed(f)
  PROVE  f \in Seq({f[i] : i \in DOMAIN f}) /\ DOMAIN f = 1..Len(f)
<1> DEFINE S == {f[i] : i \in 1..Len(f)}
<1>1. DOMAIN f = 1..Len(f)
  BY DEF Indexed
<1>2. f \in [1..Len(f) -> S]
  BY DEF Indexed
<1>3. f \in Seq(S)
  BY <1>2, SeqDef DEF Indexed
<1> QED
  BY <1>1, <1>3

\* Its length is n.
LEMMA MadeIndexed ==
  ASSUME NEW n \in Nat, NEW f, DOMAIN f = 1..n, f = [i \in DOMAIN f |-> f[i]]
  PROVE  Indexed(f) /\ Len(f) = n
<1>1. Len(f) = n
  OBVIOUS
<1> QED
  BY <1>1 DEF Indexed

\* What Append and a prefix of it are, point by point.
LEMMA IndexedAppend ==
  ASSUME NEW f, Indexed(f), NEW e
  PROVE  Append(f, e) = [i \in 1..(Len(f) + 1) |-> IF i = Len(f) + 1 THEN e ELSE f[i]]
<1> DEFINE S == {f[i] : i \in DOMAIN f} \cup {e}
           g == [i \in 1..(Len(f) + 1) |-> IF i = Len(f) + 1 THEN e ELSE f[i]]
<1>1. f \in Seq(S)
  <2> DEFINE R == {f[i] : i \in DOMAIN f}
  <2>1. f \in Seq(R) /\ R \subseteq S
    BY IndexedIsSeq
  <2> HIDE DEF R, S
  <2> QED
    BY <2>1, SeqMonotonic
<1>2. /\ Append(f, e) \in Seq(S)
      /\ Len(Append(f, e)) = Len(f) + 1
      /\ \A i \in 1..Len(f) : Append(f, e)[i] = f[i]
      /\ Append(f, e)[Len(f) + 1] = e
  BY <1>1, AppendProperties
<1>3. Append(f, e) \in [1..(Len(f) + 1) -> S]
  BY <1>2, LenProperties, Zenon
<1>4. \A i \in 1..(Len(f) + 1) : Append(f, e)[i] = g[i]
  BY <1>2 DEF Indexed
<1> QED
  BY <1>3, <1>4, Zenon

\* A prefix, as beginTransaction's marks cut the ledger.
LEMMA IndexedFront ==
  ASSUME NEW f, Indexed(f), NEW m \in Nat, m <= Len(f)
  PROVE  SubSeq(f, 1, m) = [i \in 1..m |-> f[i]]
<1> DEFINE S == {f[i] : i \in DOMAIN f}
           g == SubSeq(f, 1, m)
<1>1. f \in Seq(S) /\ DOMAIN f = 1..Len(f)
  BY IndexedIsSeq
<1>2. \A i \in 1..m : f[i] \in S
  BY <1>1 DEF Indexed
<1>3. g \in Seq(S) /\ Len(g) = m /\ \A i \in 1..m : g[i] = f[i]
  BY <1>2, SubSeqProperties
<1>4. g \in [1..m -> S]
  BY <1>3, LenProperties, Zenon
<1> QED
  BY <1>3, <1>4

-----------------------------------------------------------------------------
(* Writing under the log                                                   *)

\* What is to be known of a write: the slots and the values it gives them.
Updates(u) == /\ DOMAIN u \subseteq Slot /\ \A s \in DOMAIN u : u[s] \in Held(s)

\* Every open transaction keeps its ledger and budget, and logs the slots.
LEMMA LogKeeps ==
  ASSUME TypeOK, NEW slots \in SUBSET Slot, Log(slots)
  PROVE  /\ Indexed(transactions') /\ Len(transactions') = Len(transactions)
         /\ DOMAIN transactions' = Open
         /\ \A i \in Open :
              /\ transactions'[i].historyLen = transactions[i].historyLen
              /\ transactions'[i].remaining = transactions[i].remaining
              /\ DOMAIN transactions'[i].undo = DOMAIN transactions[i].undo \cup slots
              /\ \A s \in DOMAIN transactions[i].undo \cup slots :
                   transactions'[i].undo[s] = IF s \in DOMAIN transactions[i].undo
                                              THEN transactions[i].undo[s] ELSE table[s]
              /\ IsTransaction(transactions'[i])
<1> DEFINE n == Len(transactions)
           U(i) == transactions[i].undo
           new(i) == slots \ DOMAIN U(i)
           V(i) == [s \in DOMAIN U(i) \cup new(i) |-> IF s \in new(i) THEN table[s] ELSE U(i)[s]]
           T(i) == [transactions[i] EXCEPT !.undo = V(i)]
<1>1. n \in Nat /\ Open = 1..n
  BY DEF TypeOK, Open, Indexed
<1>2. transactions' = [i \in Open |-> T(i)]
  BY DEF Log, Open
<1> HIDE DEF T
<1>3. DOMAIN transactions' = 1..n /\ Indexed(transactions') /\ Len(transactions') = n
  BY ONLY <1>1, <1>2, MadeIndexed
<1>4. ASSUME NEW i \in Open
      PROVE  /\ T(i).historyLen = transactions[i].historyLen
             /\ T(i).remaining = transactions[i].remaining
             /\ DOMAIN T(i).undo = DOMAIN transactions[i].undo \cup slots
             /\ \A s \in DOMAIN transactions[i].undo \cup slots :
                  T(i).undo[s] = IF s \in DOMAIN transactions[i].undo
                                 THEN transactions[i].undo[s] ELSE table[s]
             /\ IsTransaction(T(i))
  <2>1. IsTransaction(transactions[i])
    BY <1>4 DEF TypeOK
  <2>2. T(i) = [undo |-> V(i), historyLen |-> transactions[i].historyLen,
                remaining |-> transactions[i].remaining]
    BY ONLY <2>1 DEF IsTransaction, T
  <2>3. /\ DOMAIN V(i) = DOMAIN U(i) \cup slots
        /\ \A s \in DOMAIN U(i) \cup slots : V(i)[s] = IF s \in DOMAIN U(i) THEN U(i)[s] ELSE table[s]
        /\ V(i) = [s \in DOMAIN V(i) |-> V(i)[s]]
    OBVIOUS
  <2>4. \A s \in Slot : table[s] \in Held(s)
    BY DEF TypeOK, Maps
  <2>5. Undo(U(i))
    BY <2>1 DEF IsTransaction
  <2>6. DOMAIN U(i) \subseteq Slot /\ \A s \in DOMAIN U(i) : U(i)[s] \in Held(s)
    BY ONLY <2>5 DEF Undo
  <2> HIDE DEF V
  <2>7. Undo(V(i))
    BY ONLY <2>3, <2>4, <2>6, slots \in SUBSET Slot DEF Undo
  <2>8. IsTransaction(T(i))
    BY ONLY <2>1, <2>2, <2>7 DEF IsTransaction
  <2> QED
    BY ONLY <2>2, <2>3, <2>8
<1> QED
  BY ONLY <1>1, <1>2, <1>3, <1>4

\* What a transaction would restore is not touched by a write it has logged.
LEMMA RestoredStays ==
  ASSUME TypeOK, NEW u, Updates(u), Write(u), NEW i \in Open
  PROVE  Restored(transactions[i])' = Restored(transactions[i])
<1> DEFINE U == transactions[i].undo
           W == transactions'[i].undo
<1>1. DOMAIN u \in SUBSET Slot /\ Log(DOMAIN u)
  BY DEF Updates, Write
<1>2. /\ DOMAIN W = DOMAIN U \cup DOMAIN u
      /\ \A s \in DOMAIN U \cup DOMAIN u : W[s] = IF s \in DOMAIN U THEN U[s] ELSE table[s]
  BY ONLY <1>1, TypeOK, LogKeeps, i \in Open
<1>3. table' = [s \in Slot |-> IF s \in DOMAIN u THEN u[s] ELSE table[s]]
  BY DEF Write
<1>4. \A s \in Slot : (IF s \in DOMAIN W THEN W[s] ELSE table'[s])
                      = (IF s \in DOMAIN U THEN U[s] ELSE table[s])
  BY ONLY <1>2, <1>3
<1>5. Restored(transactions[i])' = [s \in Slot |-> IF s \in DOMAIN W THEN W[s] ELSE table'[s]]
  BY DEF Restored
<1>6. Restored(transactions[i]) = [s \in Slot |-> IF s \in DOMAIN U THEN U[s] ELSE table[s]]
  BY DEF Restored
<1> HIDE DEF U, W
<1> QED
  BY ONLY <1>4, <1>5, <1>6

\* A write of the maps: only one that gives the flag overrides a new generation
\* may change them.
Writes(u) ==
  /\ Updates(u) /\ Write(u)
  /\ UNCHANGED <<history, remaining, cache>>
  /\ \/ generation' = generation /\ \A s \in DOMAIN u : s[1] # "use"
     \/ generation' = generation + 1

\* A write keeps the types: each slot holds what its map may hold.
LEMMA WritesTyped ==
  ASSUME Invariant, NEW u, Writes(u)
  PROVE  TypeOK'
<1>1. TypeOK /\ Updates(u) /\ Write(u) /\ DOMAIN u \in SUBSET Slot /\ Log(DOMAIN u)
  BY DEF Invariant, Writes, Updates, Write
<1>2. /\ Indexed(transactions') /\ DOMAIN transactions' = Open
      /\ \A i \in Open : IsTransaction(transactions'[i])
  BY ONLY <1>1, LogKeeps
<1>3. table' \in Maps
  <2>1. /\ table' = [s \in Slot |-> IF s \in DOMAIN u THEN u[s] ELSE table[s]]
        /\ \A s \in DOMAIN u : u[s] \in Held(s)
        /\ \A s \in Slot : table[s] \in Held(s)
    BY <1>1 DEF Write, Updates, TypeOK, Maps
  <2>2. \A s \in Slot : table'[s] \in Held(s)
    BY ONLY <2>1
  <2>3. \A s \in Slot : table'[s] \in Plain \cup SUBSET Owner
    BY ONLY <2>2 DEF Held
  <2>4. table' \in [Slot -> Plain \cup SUBSET Owner]
    BY ONLY <2>1, <2>3
  <2> QED
    BY ONLY <2>2, <2>4 DEF Maps
<1>4. history' \in Seq(Decision) /\ remaining' \in Nat /\ generation' \in Nat
  BY <1>1 DEF TypeOK, Writes
<1> QED
  BY ONLY <1>2, <1>3, <1>4, Zenon DEF TypeOK, Open, IsTransaction, Undo, Held, Maps, Indexed

\* Every open transaction logs the same slots, so the logs stay nested.
LEMMA WritesNested ==
  ASSUME Invariant, NEW u, Writes(u)
  PROVE  Nested'
<1>1. TypeOK /\ DOMAIN u \in SUBSET Slot /\ Log(DOMAIN u)
  BY DEF Invariant, Writes, Updates, Write
<1>2. /\ DOMAIN transactions' = Open
      /\ \A i \in Open : /\ transactions'[i].historyLen = transactions[i].historyLen
                         /\ transactions'[i].remaining = transactions[i].remaining
                         /\ DOMAIN transactions'[i].undo = DOMAIN transactions[i].undo \cup DOMAIN u
  BY ONLY <1>1, LogKeeps
<1>3. Nested /\ history' = history
  BY DEF Invariant, Writes
<1> QED
  BY ONLY <1>2, <1>3 DEF Nested, Open

\* A write leaves the ledger alone, and overrides change with the generation.
LEMMA WritesFresh ==
  ASSUME Invariant, NEW u, Writes(u)
  PROVE  LedgerIsBudget' /\ CacheKnown' /\ CacheFresh'
<1>1. LedgerIsBudget'
  BY DEF Invariant, Writes, LedgerIsBudget
<1>2. generation \in Nat /\ cache' = cache /\ CacheKnown /\ CacheFresh
  BY DEF Invariant, Writes, TypeOK
<1>3. CASE generation' = generation + 1
  BY ONLY <1>2, <1>3, <1>1 DEF CacheKnown, CacheFresh
<1>4. CASE generation' = generation /\ \A s \in DOMAIN u : s[1] # "use"
  <2>1. table' = [s \in Slot |-> IF s \in DOMAIN u THEN u[s] ELSE table[s]]
    BY DEF Writes, Write
  <2>2. \A k \in Key : <<"use", k>> \in Slot /\ <<"use", k>>[1] = "use"
    BY DEF Slot
  <2>3. \A k \in Key : table'[<<"use", k>>] = table[<<"use", k>>]
    BY ONLY <1>4, <2>1, <2>2, Zenon
  <2>4. Overrides' = Overrides
    BY ONLY <2>3 DEF Overrides
  <2> QED
    BY ONLY <1>1, <1>2, <1>4, <2>4 DEF CacheKnown, CacheFresh
<1> QED
  BY <1>3, <1>4 DEF Writes

-----------------------------------------------------------------------------
(* Each setter is a write                                                  *)

\* Which values a slot of each map may hold.
LEMMA Slots ==
  ASSUME NEW m \in {"install", "owners", "use"} \cup PlainMap, NEW k \in Key
  PROVE  /\ <<m, k>> \in Slot /\ <<m, k>>[1] = m
         /\ m = "owners" => Held(<<m, k>>) = SUBSET Owner
         /\ m # "owners" => Held(<<m, k>>) = Plain
BY DEF Slot, Held

\* setInstall writes the action and adds its owner.
LEMMA InstallWrites ==
  ASSUME Invariant, NEW k \in Key, NEW v \in Value, NEW o \in Owner \cup {None}, setInstall(k, v, o)
  PROVE  \E u : Writes(u)
<1> DEFINE D == {<<"install", k>>} \cup (IF o = None THEN {} ELSE {<<"owners", k>>})
           u == [s \in D |-> IF s[1] = "install" THEN v ELSE table[s] \cup {o}]
<1>1. /\ <<"install", k>> \in Slot /\ <<"install", k>>[1] = "install" /\ Held(<<"install", k>>) = Plain
      /\ <<"owners", k>> \in Slot /\ <<"owners", k>>[1] = "owners" /\ Held(<<"owners", k>>) = SUBSET Owner
  BY Slots
<1>2. table[<<"owners", k>>] \subseteq Owner
  BY <1>1 DEF Invariant, TypeOK, Maps
<1>3. /\ DOMAIN u \subseteq {<<"install", k>>, <<"owners", k>>}
      /\ u[<<"install", k>>] = v
      /\ <<"owners", k>> \in DOMAIN u => o \in Owner /\ u[<<"owners", k>>] = table[<<"owners", k>>] \cup {o}
  BY <1>1
<1>4. Write(u) /\ UNCHANGED <<history, remaining, cache>> /\ generation' = generation
  BY DEF setInstall, Ledger
<1> HIDE DEF u
<1>5. Updates(u) /\ \A s \in DOMAIN u : s[1] # "use"
  BY ONLY <1>1, <1>2, <1>3, v \in Value DEF Updates, Plain
<1> QED
  BY ONLY <1>4, <1>5 DEF Writes

\* deleteInstall clears the action and its owners.
LEMMA DeleteWrites ==
  ASSUME Invariant, NEW k \in Key, deleteInstall(k)
  PROVE  \E u : Writes(u)
<1> DEFINE u == [s \in {<<"install", k>>, <<"owners", k>>} |-> IF s[1] = "install" THEN None ELSE {}]
<1>1. /\ <<"install", k>> \in Slot /\ <<"install", k>>[1] = "install" /\ Held(<<"install", k>>) = Plain
      /\ <<"owners", k>> \in Slot /\ <<"owners", k>>[1] = "owners" /\ Held(<<"owners", k>>) = SUBSET Owner
  BY Slots
<1>2. /\ DOMAIN u = {<<"install", k>>, <<"owners", k>>}
      /\ u[<<"install", k>>] = None /\ u[<<"owners", k>>] = {}
  BY <1>1
<1>3. Write(u) /\ UNCHANGED <<history, remaining, cache>> /\ generation' = generation
  BY DEF deleteInstall, Ledger
<1> HIDE DEF u
<1>4. Updates(u) /\ \A s \in DOMAIN u : s[1] # "use"
  BY ONLY <1>1, <1>2 DEF Updates, Plain
<1> QED
  BY ONLY <1>3, <1>4 DEF Writes

\* setActionOwners drops an owner, and the action with the last one.
LEMMA OwnersWrites ==
  ASSUME Invariant, NEW k \in Key, NEW o \in Owner, setActionOwners(k, o)
  PROVE  \E u : Writes(u)
<1> DEFINE left == table[<<"owners", k>>] \ {o}
           D == {<<"owners", k>>} \cup (IF left = {} THEN {<<"install", k>>} ELSE {})
           u == [s \in D |-> IF s[1] = "owners" THEN left ELSE None]
<1>1. /\ <<"install", k>> \in Slot /\ <<"install", k>>[1] = "install" /\ Held(<<"install", k>>) = Plain
      /\ <<"owners", k>> \in Slot /\ <<"owners", k>>[1] = "owners" /\ Held(<<"owners", k>>) = SUBSET Owner
  BY Slots
<1>2. left \subseteq Owner
  BY <1>1 DEF Invariant, TypeOK, Maps
<1>3. /\ DOMAIN u \subseteq {<<"install", k>>, <<"owners", k>>}
      /\ u[<<"owners", k>>] = left
      /\ <<"install", k>> \in DOMAIN u => u[<<"install", k>>] = None
  BY <1>1
<1>4. Write(u) /\ UNCHANGED <<history, remaining, cache>> /\ generation' = generation
  BY DEF setActionOwners, Ledger
<1> HIDE DEF u, left
<1>5. Updates(u) /\ \A s \in DOMAIN u : s[1] # "use"
  BY ONLY <1>1, <1>2, <1>3 DEF Updates, Plain
<1> QED
  BY ONLY <1>4, <1>5 DEF Writes

\* The maps that are only set and deleted hold no flag override.
LEMMA PlainWrites ==
  ASSUME Invariant, TxAssumption,
         NEW m \in PlainMap, NEW k \in Key, NEW v \in Value \cup {None}, setPlain(m, k, v)
  PROVE  \E u : Writes(u)
<1> DEFINE u == [s \in {<<m, k>>} |-> v]
<1>1. m # "owners" /\ m # "use"
  BY DEF TxAssumption
<1>2. <<m, k>> \in Slot /\ <<m, k>>[1] = m /\ Held(<<m, k>>) = Plain
  BY <1>1, Slots, Zenon
<1>3. DOMAIN u = {<<m, k>>} /\ u[<<m, k>>] = v
  OBVIOUS
<1>4. Write(u) /\ UNCHANGED <<history, remaining, cache>> /\ generation' = generation
  BY DEF setPlain, Ledger
<1> HIDE DEF u
<1>5. Updates(u) /\ \A s \in DOMAIN u : s[1] # "use"
  BY ONLY <1>1, <1>2, <1>3, v \in Value \cup {None} DEF Updates, Plain
<1> QED
  BY ONLY <1>4, <1>5 DEF Writes

\* setUseOverride opens a new generation.
LEMMA UseWrites ==
  ASSUME Invariant, NEW k \in Key, NEW v \in Value, setUseOverride(k, v)
  PROVE  \E u : Writes(u)
<1> DEFINE u == [s \in {<<"use", k>>} |-> v]
<1>1. <<"use", k>> \in Slot /\ Held(<<"use", k>>) = Plain
  BY Slots
<1>2. DOMAIN u = {<<"use", k>>} /\ u[<<"use", k>>] = v
  OBVIOUS
<1>3. Write(u) /\ UNCHANGED <<history, remaining, cache>> /\ generation' = generation + 1
  BY DEF setUseOverride, Ledger
<1> HIDE DEF u
<1>4. Updates(u)
  BY ONLY <1>1, <1>2, v \in Value DEF Updates, Plain
<1> QED
  BY ONLY <1>3, <1>4 DEF Writes

-----------------------------------------------------------------------------
(* The other steps keep the invariant                                      *)

\* g is f with e on top; g is f without its top
Pushes(f, e, g) ==
  /\ Len(f) \in Nat /\ DOMAIN f = 1..Len(f)
  /\ Indexed(g) /\ Len(g) = Len(f) + 1 /\ DOMAIN g = 1..(Len(f) + 1)
  /\ g[Len(f) + 1] = e /\ \A i \in 1..Len(f) : g[i] = f[i]
Pops(f, g) ==
  /\ Len(f) \in Nat \ {0} /\ DOMAIN f = 1..Len(f)
  /\ Indexed(g) /\ Len(g) = Len(f) - 1 /\ DOMAIN g = 1..(Len(f) - 1)
  /\ \A i \in 1..(Len(f) - 1) : g[i] = f[i]

\* What the log is after commitTransaction and rollbackTransaction.
LEMMA Popped ==
  ASSUME NEW f, Indexed(f), f # <<>>, NEW g, g = SubSeq(f, 1, Len(f) - 1)
  PROVE  Pops(f, g)
<1>1. Len(f) \in Nat /\ DOMAIN f = 1..Len(f) /\ Len(f) # 0
  BY DEF Indexed
<1>2. Len(f) - 1 \in Nat /\ Len(f) - 1 <= Len(f)
  BY ONLY <1>1
<1>3. g = [i \in 1..(Len(f) - 1) |-> f[i]]
  BY ONLY <1>2, IndexedFront, Indexed(f), g = SubSeq(f, 1, Len(f) - 1)
<1>4. DOMAIN g = 1..(Len(f) - 1) /\ \A i \in 1..(Len(f) - 1) : g[i] = f[i]
  BY ONLY <1>3
<1>5. g = [i \in DOMAIN g |-> g[i]]
  BY ONLY <1>3
<1>6. Indexed(g) /\ Len(g) = Len(f) - 1
  BY ONLY <1>2, <1>4, <1>5, MadeIndexed
<1> QED
  BY ONLY <1>1, <1>4, <1>6 DEF Pops

\* What the log is after beginTransaction, the ledger after a charge.
LEMMA Pushed ==
  ASSUME NEW f, Indexed(f), NEW e, NEW g, g = Append(f, e)
  PROVE  Pushes(f, e, g)
<1>1. Len(f) \in Nat /\ DOMAIN f = 1..Len(f) /\ Len(f) + 1 \in Nat
  BY DEF Indexed
<1>2. g = [i \in 1..(Len(f) + 1) |-> IF i = Len(f) + 1 THEN e ELSE f[i]]
  BY ONLY IndexedAppend, Indexed(f), g = Append(f, e)
<1>3. /\ DOMAIN g = 1..(Len(f) + 1) /\ g = [i \in DOMAIN g |-> g[i]]
      /\ g[Len(f) + 1] = e /\ \A i \in 1..Len(f) : g[i] = f[i]
  BY ONLY <1>1, <1>2
<1>4. Indexed(g) /\ Len(g) = Len(f) + 1
  BY ONLY <1>1, <1>3, MadeIndexed
<1> QED
  BY ONLY <1>1, <1>3, <1>4 DEF Pushes

\* consumeBacktrack moves one unit from the budget to the ledger.
LEMMA ConsumeKeeps ==
  ASSUME Invariant, NEW d \in Decision, consumeBacktrack(d)
  PROVE  Invariant'
<1>1. /\ history \in Seq(Decision) /\ remaining \in Nat /\ remaining > 0
      /\ history' = Append(history, d) /\ remaining' = remaining - 1
      /\ UNCHANGED <<table, generation, transactions, cache>>
  BY DEF Invariant, TypeOK, consumeBacktrack
<1>2. history' \in Seq(Decision) /\ Len(history') = Len(history) + 1 /\ Len(history) \in Nat
  BY ONLY <1>1, AppendProperties, LenProperties, d \in Decision
<1>3. TypeOK'
  BY <1>1, <1>2 DEF Invariant, TypeOK, Open, IsTransaction, Undo, Held, Maps, Indexed
<1>4. Nested'
  <2>1. \A i \in Open : transactions[i].historyLen \in Nat
    BY Zenon DEF Invariant, TypeOK, IsTransaction
  <2> QED
    BY <1>1, <1>2, <2>1 DEF Invariant, Nested, Open
<1>5. LedgerIsBudget' /\ CacheKnown' /\ CacheFresh'
  BY <1>1, <1>2 DEF Invariant, LedgerIsBudget, CacheKnown, CacheFresh, Overrides
<1> QED
  BY ONLY <1>3, <1>4, <1>5 DEF Invariant

\* beginTransaction: an empty log is inside every other.
LEMMA BeginKeeps ==
  ASSUME Invariant, beginTransaction
  PROVE  Invariant'
<1> DEFINE n == Len(transactions)
           tx == [undo |-> [s \in {} |-> None], historyLen |-> Len(history), remaining |-> remaining]
<1>1. /\ transactions' = Append(transactions, tx) /\ Indexed(transactions)
      /\ UNCHANGED <<table, history, remaining, generation, cache>>
  BY DEF Invariant, TypeOK, beginTransaction, Ledger
<1>2. /\ n \in Nat /\ Open = 1..n /\ Indexed(transactions') /\ DOMAIN transactions' = 1..(n + 1)
      /\ transactions'[n + 1] = tx /\ \A i \in 1..n : transactions'[i] = transactions[i]
  <2> HIDE DEF tx
  <2>1. Pushes(transactions, tx, transactions')
    BY ONLY <1>1, Pushed, Zenon
  <2> QED
    BY ONLY <2>1 DEF Open, Pushes
<1>3. /\ history \in Seq(Decision) /\ remaining \in Nat /\ Len(history) \in Nat
      /\ \A i \in Open : IsTransaction(transactions[i])
  BY LenProperties DEF Invariant, TypeOK
<1>4. IsTransaction(tx)
  BY ONLY <1>3 DEF IsTransaction, Undo
<1>5. tx.undo = [s \in {} |-> None] /\ tx.historyLen = Len(history) /\ tx.remaining = remaining
  OBVIOUS
<1>6. DOMAIN tx.undo = {}
  BY ONLY <1>5
<1> HIDE DEF tx, n
<1>7. TypeOK'
  <2>1. \A i \in 1..(n + 1) : IsTransaction(transactions'[i])
    BY ONLY <1>2, <1>3, <1>4
  <2> QED
    BY <1>1, <1>2, <2>1, Zenon DEF Invariant, TypeOK, Open, IsTransaction, Undo, Held, Maps, Indexed
<1>8. Nested'
  <2>1. Nested /\ Len(history) + remaining = Limit /\ history' = history
    BY <1>1 DEF Invariant, LedgerIsBudget
  <2>2. \A i \in 1..n : /\ transactions[i].historyLen \in Nat /\ transactions[i].historyLen <= Len(history)
                        /\ transactions[i].historyLen + transactions[i].remaining = Limit
    BY ONLY <1>2, <1>3, <2>1, Zenon DEF Nested, IsTransaction
  <2>3. \A i \in 1..(n + 1) : /\ transactions'[i].historyLen <= Len(history)
                              /\ transactions'[i].historyLen + transactions'[i].remaining = Limit
    <3> TAKE i \in 1..(n + 1)
    <3>1. CASE i = n + 1
      BY ONLY <3>1, <1>2, <1>3, <1>5, <2>1
    <3>2. CASE i # n + 1
      <4>1. i \in 1..n
        BY ONLY <3>2, <1>2, i \in 1..(n + 1)
      <4> QED
        BY ONLY <4>1, <1>2, <2>2
    <3> QED
      BY ONLY <3>1, <3>2
  <2>4. ASSUME NEW i \in 1..(n + 1), NEW j \in 1..(n + 1), i <= j
        PROVE  /\ DOMAIN transactions'[j].undo \subseteq DOMAIN transactions'[i].undo
               /\ transactions'[i].historyLen <= transactions'[j].historyLen
    <3>1. CASE j = n + 1
      BY ONLY <3>1, <1>2, <1>5, <1>6, <2>3
    <3>2. CASE j # n + 1
      <4>1. i \in 1..n /\ j \in 1..n
        BY ONLY <3>2, <2>4, <1>2
      <4> QED
        BY ONLY <4>1, <2>1, <2>4, <1>2 DEF Nested
    <3> QED
      BY ONLY <3>1, <3>2
  <2> QED
    BY ONLY <1>2, <2>1, <2>3, <2>4 DEF Nested, Open
<1>9. LedgerIsBudget' /\ CacheKnown' /\ CacheFresh'
  BY <1>1 DEF Invariant, LedgerIsBudget, CacheKnown, CacheFresh, Overrides
<1> QED
  BY ONLY <1>7, <1>8, <1>9 DEF Invariant

\* Without its innermost transaction the log is nested as before.
LEMMA PopTyped ==
  ASSUME Invariant, Pops(transactions, transactions')
  PROVE  /\ Open' = 1..(Len(transactions) - 1) /\ Open' \subseteq Open /\ Len(transactions) \in Open
         /\ \A i \in Open' : transactions'[i] = transactions[i] /\ IsTransaction(transactions'[i])
         /\ \A i \in Open' : i <= Len(transactions)
<1>1. /\ Len(transactions) \in Nat \ {0} /\ Open = 1..Len(transactions)
      /\ Open' = 1..(Len(transactions) - 1)
      /\ \A i \in 1..(Len(transactions) - 1) : transactions'[i] = transactions[i]
  BY DEF Pops, Open
<1>2. \A i \in Open : IsTransaction(transactions[i])
  BY DEF Invariant, TypeOK
<1> QED
  BY ONLY <1>1, <1>2

\* commitTransaction drops a log that the outer ones contain.
LEMMA CommitKeeps ==
  ASSUME Invariant, commitTransaction
  PROVE  Invariant'
<1>1. UNCHANGED <<table, history, remaining, generation, cache>>
  BY DEF commitTransaction, Ledger
<1>2. Pops(transactions, transactions')
  BY Popped, Zenon DEF Invariant, TypeOK, commitTransaction
<1>3. /\ Open' \subseteq Open
      /\ \A i \in Open' : transactions'[i] = transactions[i] /\ IsTransaction(transactions'[i])
  BY <1>2, PopTyped
<1>4. TypeOK'
  <2>1. TypeOK
    BY DEF Invariant
  <2>2. table' \in Maps /\ history' \in Seq(Decision) /\ remaining' \in Nat /\ generation' \in Nat
    BY ONLY <1>1, <2>1 DEF TypeOK
  <2>3. Indexed(transactions')
    BY ONLY <1>2 DEF Pops
  <2>4. \A i \in Open' : IsTransaction(transactions[i])'
    BY ONLY <1>3, Zenon DEF IsTransaction, Undo, Held
  <2>5. (table \in Maps)'
    BY ONLY <1>1, <2>2 DEF Maps, Held
  <2> QED
    BY ONLY <2>2, <2>3, <2>4, <2>5 DEF TypeOK, Indexed
<1>5. Nested'
  <2>1. Nested
    BY DEF Invariant
  <2> QED
    BY ONLY <1>1, <1>3, <2>1 DEF Nested
<1>6. LedgerIsBudget' /\ CacheKnown' /\ CacheFresh'
  BY <1>1 DEF Invariant, LedgerIsBudget, CacheKnown, CacheFresh, Overrides
<1> QED
  BY ONLY <1>4, <1>5, <1>6 DEF Invariant

\* What giving up the innermost transaction does, in terms of its record.
GivesUp(tx) ==
  /\ table' = Restored(tx)
  /\ history' = SubSeq(history, 1, tx.historyLen) /\ remaining' = tx.remaining
  /\ generation' = (IF UseLogged(tx) THEN generation + 1 ELSE generation)
  /\ cache' = cache

\* rollbackTransaction in terms of the innermost transaction.
LEMMA RollbackStep ==
  ASSUME Invariant, rollbackTransaction
  PROVE  Pops(transactions, transactions') /\ GivesUp(transactions[Len(transactions)])
<1>1. Pops(transactions, transactions')
  BY Popped, Zenon DEF Invariant, TypeOK, rollbackTransaction
<1>2. GivesUp(transactions[Len(transactions)])
  BY DEF rollbackTransaction, GivesUp
<1> QED
  BY <1>1, <1>2

\* What a transaction would restore are maps again.
LEMMA RestoredTyped ==
  ASSUME TypeOK, NEW tx, IsTransaction(tx)
  PROVE  Restored(tx) \in Maps
<1> DEFINE R == [s \in Slot |-> IF s \in DOMAIN tx.undo THEN tx.undo[s] ELSE table[s]]
<1>1. /\ \A s \in Slot : table[s] \in Held(s)
      /\ \A s \in DOMAIN tx.undo : tx.undo[s] \in Held(s)
  BY DEF TypeOK, Maps, IsTransaction, Undo
<1>2. \A s \in Slot : R[s] \in Held(s)
  BY ONLY <1>1
<1>3. \A s \in Slot : R[s] \in Plain \cup SUBSET Owner
  BY ONLY <1>2 DEF Held
<1>4. R \in [Slot -> Plain \cup SUBSET Owner]
  BY ONLY <1>3
<1>5. R = Restored(tx)
  BY DEF Restored
<1> QED
  BY ONLY <1>2, <1>4, <1>5 DEF Maps

\* The ledger is cut back to what the transaction began with.
LEMMA CutBack ==
  ASSUME Invariant, NEW i \in Open
  PROVE  LET hl == transactions[i].historyLen IN
         /\ hl \in Nat /\ hl <= Len(history) /\ transactions[i].remaining \in Nat
         /\ SubSeq(history, 1, hl) \in Seq(Decision) /\ Len(SubSeq(history, 1, hl)) = hl
<1> DEFINE hl == transactions[i].historyLen
<1>1. hl \in Nat /\ transactions[i].remaining \in Nat /\ hl <= Len(history)
  BY Zenon DEF Invariant, TypeOK, Nested, IsTransaction
<1>2. history \in Seq(Decision) /\ Len(history) \in Nat /\ history \in [1..Len(history) -> Decision]
  BY LenProperties DEF Invariant, TypeOK
<1>3. \A j \in 1..hl : history[j] \in Decision
  BY <1>1, <1>2
<1>4. SubSeq(history, 1, hl) \in Seq(Decision) /\ Len(SubSeq(history, 1, hl)) = hl
  BY ONLY <1>1, <1>3, SubSeqProperties
<1> QED
  BY ONLY <1>1, <1>4

\* rollbackTransaction: the outer marks lie within the restored ledger, its
\* budget balances, and restored overrides are a new generation.
LEMMA RollbackKeeps ==
  ASSUME Invariant, rollbackTransaction
  PROVE  Invariant'
<1> DEFINE n == Len(transactions)
           tx == transactions[n]
<1>1. Pops(transactions, transactions') /\ GivesUp(tx)
  BY RollbackStep
<1>2. /\ Open' \subseteq Open /\ n \in Open /\ \A i \in Open' : i <= n
      /\ \A i \in Open' : transactions'[i] = transactions[i] /\ IsTransaction(transactions'[i])
  BY <1>1, PopTyped
<1>3. IsTransaction(tx) /\ generation \in Nat /\ TypeOK /\ Nested
  BY <1>2 DEF Invariant, TypeOK
<1>4. /\ history' \in Seq(Decision) /\ Len(history') = tx.historyLen
      /\ remaining' = tx.remaining /\ remaining' \in Nat
  BY <1>1, <1>2, CutBack DEF GivesUp
<1>5. table' \in Maps
  BY ONLY <1>1, <1>3, RestoredTyped DEF GivesUp
<1> HIDE DEF n, tx
<1>6. TypeOK'
  <2>1. generation' \in Nat
    BY ONLY <1>1, <1>3 DEF GivesUp
  <2> QED
    BY ONLY <1>1, <1>2, <1>4, <1>5, <2>1 DEF TypeOK, Pops, Open, IsTransaction, Undo, Held, Maps, Indexed
<1>7. Nested'
  BY ONLY <1>2, <1>3, <1>4 DEF Nested, tx
<1>8. LedgerIsBudget'
  BY ONLY <1>2, <1>3, <1>4 DEF Nested, tx, LedgerIsBudget
<1>9. CacheKnown' /\ CacheFresh'
  <2>1. CacheKnown /\ CacheFresh /\ cache' = cache
    BY <1>1 DEF Invariant, GivesUp
  <2>2. CASE UseLogged(tx)
    BY ONLY <1>1, <1>3, <2>1, <2>2 DEF GivesUp, CacheKnown, CacheFresh
  <2>3. CASE ~UseLogged(tx)
    <3>1. \A k \in Key : <<"use", k>> \in Slot /\ <<"use", k>>[1] = "use"
      BY DEF Slot
    <3>2. \A k \in Key : table'[<<"use", k>>] = table[<<"use", k>>]
      BY ONLY <1>1, <2>3, <3>1, Zenon DEF GivesUp, Restored, UseLogged
    <3>3. Overrides' = Overrides /\ generation' = generation
      BY ONLY <1>1, <2>3, <3>2 DEF Overrides, GivesUp
    <3> QED
      BY ONLY <2>1, <3>3 DEF CacheKnown, CacheFresh
  <2> QED
    BY ONLY <2>2, <2>3
<1> QED
  BY ONLY <1>6, <1>7, <1>8, <1>9 DEF Invariant

\* findMatchingVersion keeps a candidate under the current generation.
LEMMA FindKeeps ==
  ASSUME Invariant, findMatchingVersion
  PROVE  Invariant'
<1>1. /\ UNCHANGED <<table, history, remaining, generation, transactions>>
      /\ cache' = {[generation |-> generation, overrides |-> Overrides]}
  BY DEF findMatchingVersion, Ledger
<1>2. TypeOK'
  BY <1>1 DEF Invariant, TypeOK, Open, IsTransaction, Undo, Held, Maps, Indexed
<1>3. Nested' /\ LedgerIsBudget'
  BY <1>1 DEF Invariant, Nested, Open, LedgerIsBudget
<1>4. generation \in Nat /\ Overrides' = Overrides
  BY <1>1 DEF Invariant, TypeOK, Overrides
<1>5. CacheKnown' /\ CacheFresh'
  BY ONLY <1>1, <1>4 DEF CacheKnown, CacheFresh
<1> QED
  BY ONLY <1>2, <1>3, <1>5 DEF Invariant

-----------------------------------------------------------------------------
(* Each step of the log is one of Snapshots                                *)

States == [Slot -> Value \cup {None} \cup SUBSET Owner] \X Seq(Decision) \X Nat
Current == <<table, history, remaining>>
Saved == [i \in DOMAIN transactions |-> Branch(i)]

\* One saved state per open transaction.
LEMMA SavedIndexed ==
  ASSUME Invariant
  PROVE  Indexed(Saved) /\ Len(Saved) = Len(transactions) /\ DOMAIN Saved = 1..Len(transactions)
<1>1. Len(transactions) \in Nat /\ DOMAIN transactions = 1..Len(transactions)
  BY DEF Invariant, TypeOK, Indexed
<1>2. DOMAIN Saved = 1..Len(transactions) /\ Saved = [i \in DOMAIN Saved |-> Saved[i]]
  BY <1>1 DEF Saved
<1> QED
  BY ONLY <1>1, <1>2, MadeIndexed

\* The resolver's maps, ledger and budget are a state of Snapshots.
LEMMA CurrentTyped ==
  ASSUME Invariant
  PROVE  Current \in States
<1>1. table \in [Slot -> Value \cup {None} \cup SUBSET Owner]
  BY DEF Invariant, TypeOK, Maps, Plain
<1>2. history \in Seq(Decision) /\ remaining \in Nat
  BY DEF Invariant, TypeOK
<1> QED
  BY ONLY <1>1, <1>2 DEF Current, States

\* No write changes what an open transaction would restore.
LEMMA WritesChange ==
  ASSUME Invariant, NEW u, Writes(u)
  PROVE  UNCHANGED Saved
<1>1. TypeOK /\ Updates(u) /\ Write(u) /\ history' = history
  BY DEF Invariant, Writes
<1>2. DOMAIN u \in SUBSET Slot /\ Log(DOMAIN u)
  BY ONLY <1>1 DEF Updates, Write
<1>3. /\ DOMAIN transactions' = Open
      /\ \A i \in Open : /\ transactions'[i].historyLen = transactions[i].historyLen
                         /\ transactions'[i].remaining = transactions[i].remaining
  BY ONLY <1>1, <1>2, LogKeeps
<1>4. ASSUME NEW i \in Open
      PROVE  Branch(i)' = Branch(i)
  <2>1. Restored(transactions[i])' = Restored(transactions[i])
    BY ONLY <1>1, RestoredStays, i \in Open
  <2> QED
    BY <1>1, <1>3, <2>1, Zenon DEF Branch
<1> QED
  BY <1>3, <1>4 DEF Saved, Open

\* A decision that is charged lies behind every open transaction's mark.
LEMMA ConsumeChange ==
  ASSUME Invariant, NEW d \in Decision, consumeBacktrack(d)
  PROVE  UNCHANGED Saved
<1>1. history' = Append(history, d) /\ UNCHANGED <<table, transactions>>
  BY DEF consumeBacktrack
<1>2. history \in Seq(Decision)
  BY DEF Invariant, TypeOK
<1>3. Indexed(history)
  <2>1. Len(history) \in Nat /\ history \in [1..Len(history) -> Decision]
    BY <1>2, LenProperties
  <2> QED
    BY ONLY <2>1 DEF Indexed
<1>4. Pushes(history, d, history')
  BY ONLY <1>1, <1>3, Pushed, Zenon
<1>5. ASSUME NEW i \in Open
      PROVE  Branch(i)' = Branch(i)
  <2> DEFINE hl == transactions[i].historyLen
  <2>1. hl \in Nat /\ hl <= Len(history)
    BY CutBack
  <2>2. Indexed(history') /\ hl <= Len(history')
    BY ONLY <1>4, <2>1 DEF Pushes
  <2>3. SubSeq(history, 1, hl) = [j \in 1..hl |-> history[j]]
    BY ONLY <1>3, <2>1, IndexedFront
  <2>4. SubSeq(history', 1, hl) = [j \in 1..hl |-> history'[j]]
    BY ONLY <2>1, <2>2, IndexedFront
  <2>5. \A j \in 1..hl : history'[j] = history[j]
    BY ONLY <1>4, <2>1 DEF Pushes
  <2>6. SubSeq(history', 1, hl) = SubSeq(history, 1, hl)
    BY ONLY <2>3, <2>4, <2>5, Zenon
  <2> QED
    BY <1>1, <2>6, Zenon DEF Branch, Restored
<1> QED
  BY <1>1, <1>5 DEF Saved, Open

\* beginTransaction saves the current state.
LEMMA BeginBegins ==
  ASSUME Invariant, beginTransaction
  PROVE  Saved' = Append(Saved, Current) /\ UNCHANGED Current
<1> DEFINE n == Len(transactions)
           tx == [undo |-> [s \in {} |-> None], historyLen |-> Len(history), remaining |-> remaining]
<1>1. /\ transactions' = Append(transactions, tx) /\ Indexed(transactions)
      /\ UNCHANGED <<table, history, remaining>>
  BY DEF Invariant, TypeOK, beginTransaction, Ledger
<1>2. tx.undo = [s \in {} |-> None] /\ tx.historyLen = Len(history) /\ tx.remaining = remaining
  OBVIOUS
<1>3. DOMAIN tx.undo = {}
  BY ONLY <1>2
<1> HIDE DEF tx
<1>4. Pushes(transactions, tx, transactions')
  BY ONLY <1>1, Pushed, Zenon
<1>5. /\ n \in Nat /\ DOMAIN transactions' = 1..(n + 1)
      /\ transactions'[n + 1] = tx /\ \A i \in 1..n : transactions'[i] = transactions[i]
  BY ONLY <1>4 DEF Pushes
<1>6. Indexed(Saved) /\ Len(Saved) = n /\ DOMAIN Saved = 1..n
  BY SavedIndexed
<1>7. Append(Saved, Current) = [i \in 1..(n + 1) |-> IF i = n + 1 THEN Current ELSE Saved[i]]
  BY ONLY <1>6, IndexedAppend
<1>8. ASSUME NEW i, i = n + 1
      PROVE  Branch(i)' = Current
  <2>1. table = [s \in Slot |-> table[s]] /\ history \in Seq(Decision)
    BY DEF Invariant, TypeOK, Maps
  <2>2. SubSeq(history, 1, Len(history)) = history
    BY ONLY <2>1, SubSeqFull
  <2>3. Restored(transactions[i])' = table
    <3>1. Restored(transactions[i])'
          = [s \in Slot |-> IF s \in DOMAIN transactions'[i].undo
                            THEN transactions'[i].undo[s] ELSE table'[s]]
      BY DEF Restored
    <3> QED
      BY ONLY <3>1, <1>1, <1>3, <1>5, <1>8, <2>1
  <2> QED
    BY <1>1, <1>2, <1>5, <1>8, <2>2, <2>3 DEF Branch, Current
<1>9. ASSUME NEW i \in 1..n
      PROVE  Branch(i)' = Saved[i]
  BY <1>1, <1>5, <1>6 DEF Branch, Restored, Saved
<1>10. Saved' = [i \in 1..(n + 1) |-> Branch(i)']
  BY <1>5 DEF Saved
<1>11. \A i \in 1..(n + 1) : Branch(i)' = (IF i = n + 1 THEN Current ELSE Saved[i])
  <2>1. \A i \in 1..(n + 1) : i # n + 1 => i \in 1..n
    BY ONLY <1>5
  <2> QED
    BY ONLY <1>8, <1>9, <2>1
<1>12. Saved' = Append(Saved, Current)
  BY ONLY <1>7, <1>10, <1>11
<1> QED
  BY <1>1, <1>12 DEF Current

\* The saved states lose the innermost one with its transaction.
LEMMA PopSaved ==
  ASSUME Invariant, Pops(transactions, transactions'),
         \A i \in Open' : Branch(i)' = Branch(i)
  PROVE  Saved # <<>> /\ Saved' = SubSeq(Saved, 1, Len(Saved) - 1)
<1> DEFINE n == Len(transactions)
<1>1. n \in Nat \ {0} /\ DOMAIN transactions = 1..n /\ DOMAIN transactions' = 1..(n - 1)
  BY DEF Pops
<1>2. Indexed(Saved) /\ Len(Saved) = n /\ DOMAIN Saved = 1..n
  BY SavedIndexed
<1>3. Saved # <<>>
  BY ONLY <1>1, <1>2
<1>4. SubSeq(Saved, 1, n - 1) = [i \in 1..(n - 1) |-> Saved[i]]
  <2>1. n - 1 \in Nat /\ n - 1 <= Len(Saved)
    BY ONLY <1>1, <1>2
  <2> HIDE DEF n
  <2> QED
    BY ONLY <1>2, <2>1, IndexedFront
<1>5. Saved' = [i \in 1..(n - 1) |-> Branch(i)']
  BY <1>1 DEF Saved
<1>6. \A i \in 1..(n - 1) : Branch(i)' = Saved[i]
  <2>1. \A i \in 1..(n - 1) : i \in 1..n
    BY ONLY <1>1
  <2>2. \A i \in 1..n : Saved[i] = Branch(i)
    BY <1>1 DEF Saved
  <2>3. \A i \in 1..(n - 1) : Branch(i)' = Branch(i)
    BY <1>1 DEF Open
  <2> QED
    BY ONLY <2>1, <2>2, <2>3
<1>7. Saved' = SubSeq(Saved, 1, n - 1)
  BY ONLY <1>4, <1>5, <1>6
<1> QED
  BY <1>2, <1>3, <1>7

\* commitTransaction keeps the current state and forgets the saved one.
LEMMA CommitCommits ==
  ASSUME Invariant, commitTransaction
  PROVE  Saved # <<>> /\ Saved' = SubSeq(Saved, 1, Len(Saved) - 1) /\ UNCHANGED Current
<1>1. UNCHANGED <<table, history, remaining>>
  BY DEF commitTransaction, Ledger
<1>2. Pops(transactions, transactions')
  BY Popped, Zenon DEF Invariant, TypeOK, commitTransaction
<1>3. \A i \in Open' : transactions'[i] = transactions[i]
  BY <1>2, PopTyped
<1>4. \A i \in Open' : Branch(i)' = Branch(i)
  BY <1>1, <1>3, Zenon DEF Branch, Restored
<1> QED
  BY <1>1, <1>2, <1>4, PopSaved DEF Current

\* Giving up the innermost transaction changes nothing an outer one would
\* restore: the outer one has logged whatever the inner one puts back.
LEMMA RollbackGivesUp ==
  ASSUME Invariant, rollbackTransaction
  PROVE  /\ Saved # <<>> /\ Saved' = SubSeq(Saved, 1, Len(Saved) - 1)
         /\ Current' = Saved[Len(Saved)]
<1> DEFINE n == Len(transactions)
           tx == transactions[n]
<1>1. Pops(transactions, transactions') /\ GivesUp(tx)
  BY RollbackStep
<1>2. /\ Open' \subseteq Open /\ n \in Open /\ \A i \in Open' : i <= n
      /\ \A i \in Open' : transactions'[i] = transactions[i]
  BY <1>1, PopTyped
<1>3. Current' = Saved[Len(Saved)]
  <2>1. Len(Saved) = n
    BY SavedIndexed
  <2>2. Saved[n] = Branch(n)
    BY <1>2 DEF Saved, Open
  <2>3. Current' = Branch(n)
    BY <1>1 DEF GivesUp, Branch, Current
  <2> QED
    BY ONLY <2>1, <2>2, <2>3
<1>4. ASSUME NEW i \in Open'
      PROVE  Branch(i)' = Branch(i)
  <2> DEFINE U == transactions[i].undo
             hi == transactions[i].historyLen
             hn == tx.historyLen
  <2>1. i \in Open /\ i <= n /\ transactions'[i] = transactions[i]
    BY ONLY <1>2, i \in Open'
  <2>2. DOMAIN tx.undo \subseteq DOMAIN U /\ hi <= hn
    BY ONLY <1>2, <2>1, Invariant DEF Invariant, Nested
  <2>3. Restored(transactions[i])' = Restored(transactions[i])
    <3>1. Restored(transactions[i])' = [s \in Slot |-> IF s \in DOMAIN U THEN U[s] ELSE table'[s]]
      BY <2>1 DEF Restored
    <3>2. Restored(transactions[i]) = [s \in Slot |-> IF s \in DOMAIN U THEN U[s] ELSE table[s]]
      BY DEF Restored
    <3>3. table' = [s \in Slot |-> IF s \in DOMAIN tx.undo THEN tx.undo[s] ELSE table[s]]
      BY <1>1 DEF GivesUp, Restored
    <3> HIDE DEF U, tx
    <3>4. \A s \in Slot : s \notin DOMAIN U => table'[s] = table[s]
      BY ONLY <2>2, <3>3
    <3> QED
      BY ONLY <3>1, <3>2, <3>4
  <2>4. SubSeq(history', 1, hi) = SubSeq(history, 1, hi)
    <3>1. hi \in Nat /\ hn \in Nat /\ hn <= Len(history) /\ Len(history) \in Nat
      <4>1. hi \in Nat
        BY <2>1, CutBack
      <4>2. hn \in Nat /\ hn <= Len(history)
        BY <1>2, CutBack
      <4>3. Len(history) \in Nat
        BY LenProperties DEF Invariant, TypeOK
      <4> QED
        BY ONLY <4>1, <4>2, <4>3
    <3>2. Indexed(history)
      <4>1. Len(history) \in Nat /\ history \in [1..Len(history) -> Decision]
        BY LenProperties DEF Invariant, TypeOK
      <4> QED
        BY ONLY <4>1 DEF Indexed
    <3>3. history' = SubSeq(history, 1, hn)
      BY <1>1 DEF GivesUp
    <3> HIDE DEF hi, hn
    <3>4. history' = [j \in 1..hn |-> history[j]]
      BY ONLY <3>1, <3>2, <3>3, IndexedFront
    <3>5. DOMAIN history' = 1..hn /\ history' = [j \in DOMAIN history' |-> history'[j]]
      BY ONLY <3>4
    <3>6. Indexed(history') /\ Len(history') = hn
      BY ONLY <3>1, <3>5, MadeIndexed
    <3>7. SubSeq(history', 1, hi) = [j \in 1..hi |-> history'[j]]
      BY ONLY <3>1, <2>2, <3>6, IndexedFront
    <3>8. SubSeq(history, 1, hi) = [j \in 1..hi |-> history[j]]
      <4>1. hi <= Len(history)
        BY ONLY <2>2, <3>1
      <4> QED
        BY ONLY <3>1, <3>2, <4>1, IndexedFront
    <3>9. \A j \in 1..hi : history'[j] = history[j]
      BY ONLY <2>2, <3>1, <3>4
    <3> QED
      BY ONLY <3>7, <3>8, <3>9, Zenon
  <2>5. Branch(i)' = <<Restored(transactions[i])', SubSeq(history', 1, hi), transactions[i].remaining>>
    BY ONLY <2>1 DEF Branch
  <2> QED
    BY ONLY <2>3, <2>4, <2>5, Zenon DEF Branch
<1> QED
  BY <1>1, <1>3, <1>4, PopSaved

\* A write keeps the invariant and is a Change of Snapshots.
LEMMA WriteSteps ==
  ASSUME Invariant, NEW u, Writes(u)
  PROVE  Invariant' /\ Promise!Next
<1>1. Invariant'
  BY WritesTyped, WritesNested, WritesFresh DEF Invariant
<1>2. Current' \in States
  <2>1. Invariant' => (Current \in States)'
    BY CurrentTyped, PTL
  <2> QED
    BY <1>1, <2>1 DEF States
<1>3. Promise!Change
  BY <1>2, WritesChange DEF Promise!Change, Current, Saved, States
<1> QED
  BY <1>1, <1>3 DEF Promise!Next

\* Every step keeps the invariant and is one of Snapshots, or changes nothing
\* that Snapshots sees.
LEMMA Steps ==
  ASSUME TxAssumption, Invariant, [Next]_vars
  PROVE  Invariant' /\ SnapshotsKept
<1>1. CASE \E u : Writes(u)
  BY <1>1, WriteSteps DEF SnapshotsKept
<1>2. CASE \E d \in Decision : consumeBacktrack(d)
  <2>1. PICK d \in Decision : consumeBacktrack(d)
    BY <1>2
  <2>2. Invariant'
    BY <2>1, ConsumeKeeps
  <2>3. Current' \in States
    <3>1. Invariant' => (Current \in States)'
      BY CurrentTyped, PTL
    <3> QED
      BY <2>2, <3>1 DEF States
  <2>4. Promise!Change
    BY <2>1, <2>3, ConsumeChange DEF Promise!Change, Current, Saved, States
  <2> QED
    BY <2>2, <2>4 DEF SnapshotsKept, Promise!Next
<1>3. CASE beginTransaction
  <2>1. Promise!Begin
    BY <1>3, BeginBegins, Zenon DEF Promise!Begin, Current, Saved
  <2> QED
    BY <1>3, <2>1, BeginKeeps DEF SnapshotsKept, Promise!Next
<1>4. CASE commitTransaction
  <2>1. Promise!Keep
    BY <1>4, CommitCommits DEF Promise!Keep, Current, Saved
  <2> QED
    BY <1>4, <2>1, CommitKeeps DEF SnapshotsKept, Promise!Next
<1>5. CASE rollbackTransaction
  <2>1. Promise!GiveUp
    BY <1>5, RollbackGivesUp DEF Promise!GiveUp, Current, Saved
  <2> QED
    BY <1>5, <2>1, RollbackKeeps DEF SnapshotsKept, Promise!Next
<1>6. CASE findMatchingVersion
  BY <1>6, FindKeeps DEF SnapshotsKept, findMatchingVersion, Ledger
<1>7. CASE UNCHANGED vars
  <2>1. UNCHANGED <<table, history, remaining, generation, transactions, cache>>
    BY <1>7 DEF vars
  <2>2. TypeOK'
    BY <2>1 DEF Invariant, TypeOK, Open, IsTransaction, Undo, Held, Maps, Indexed
  <2>3. Nested'
    BY <2>1 DEF Invariant, Nested, Open
  <2>4. LedgerIsBudget' /\ CacheKnown' /\ CacheFresh'
    BY <2>1 DEF Invariant, LedgerIsBudget, CacheKnown, CacheFresh, Overrides
  <2> QED
    BY <2>1, <2>2, <2>3, <2>4 DEF Invariant, SnapshotsKept
<1>8. CASE \E k \in Key, v \in Value, o \in Owner \cup {None} : setInstall(k, v, o)
  BY <1>1, <1>8, InstallWrites
<1>9. CASE \E k \in Key : deleteInstall(k)
  BY <1>1, <1>9, DeleteWrites
<1>10. CASE \E k \in Key, o \in Owner : setActionOwners(k, o)
  BY <1>1, <1>10, OwnersWrites
<1>11. CASE \E m \in PlainMap, k \in Key, v \in Value \cup {None} : setPlain(m, k, v)
  BY <1>1, <1>11, PlainWrites
<1>12. CASE \E k \in Key, v \in Value : setUseOverride(k, v)
  BY <1>1, <1>12, UseWrites
<1> QED
  BY <1>2, <1>3, <1>4, <1>5, <1>6, <1>7, <1>8, <1>9, <1>10, <1>11, <1>12 DEF Next

\* The resolver starts with empty maps and no transaction.
LEMMA Starts ==
  ASSUME TxAssumption, Init
  PROVE  Invariant /\ Promise!Init
<1>1. table \in Maps
  <2>1. \A s \in Slot : table[s] \in Held(s)
    BY DEF Init, Held, Plain
  <2>2. table \in [Slot -> Plain \cup SUBSET Owner]
    BY DEF Init, Plain
  <2> QED
    BY ONLY <2>1, <2>2 DEF Maps
<1>2. transactions = <<>> /\ Indexed(transactions) /\ Open = {}
  <2>1. transactions = <<>>
    BY DEF Init
  <2>2. Len(transactions) = 0 /\ DOMAIN transactions = {} /\ 1..0 = {}
    BY ONLY <2>1
  <2>3. transactions = [i \in 1..0 |-> transactions[i]]
    BY ONLY <2>1
  <2> QED
    BY ONLY <2>1, <2>2, <2>3 DEF Indexed, Open
<1>3. history = <<>> /\ history \in Seq(Decision) /\ Len(history) = 0 /\ remaining = Limit
      /\ Limit \in Nat /\ generation = 0 /\ cache = {}
  BY DEF Init, TxAssumption
<1>4. Invariant
  BY ONLY <1>1, <1>2, <1>3 DEF Invariant, TypeOK, Nested, LedgerIsBudget, CacheKnown, CacheFresh
<1>5. Current \in States
  BY <1>4, CurrentTyped
<1>6. Saved = <<>>
  BY ONLY <1>2 DEF Saved, Open
<1> QED
  BY <1>4, <1>5, <1>6 DEF Promise!Init, Current, States, Saved

-----------------------------------------------------------------------------
(* The theorems                                                            *)

\* However branches of the search nest, every step of the undo log is a step of
\* Snapshots, so giving a branch up leaves the maps, the ledger and the budget
\* as they were when it began (rollbackTransaction); the ledger and the budget
\* left always add up to config.Backtrack (consumeBacktrack); and a candidate
\* found under other flag overrides is never served (candidateCache).
THEOREM BranchesRestore ==
  ASSUME TxAssumption
  PROVE  Spec => [][SnapshotsKept /\ LedgerIsBudget' /\ CacheFresh']_vars
<1>1. Init => Invariant
  BY Starts
<1>2. Invariant /\ [Next]_vars => Invariant' /\ SnapshotsKept
  BY Steps
<1>3. Invariant' => LedgerIsBudget' /\ CacheFresh'
  BY DEF Invariant
<1> QED
  BY <1>1, <1>2, <1>3, PTL DEF Spec

\* The undo log of resolverTransaction implements Snapshots.
THEOREM ImplementsSnapshots ==
  ASSUME TxAssumption
  PROVE  Spec => Promise!Spec
<1>1. Init => Invariant /\ Promise!Init
  BY Starts
<1>2. Invariant /\ [Next]_vars => Invariant' /\ SnapshotsKept
  BY Steps
<1>3. SnapshotsKept => [Promise!Next]_<<<<table, history, remaining>>,
                                        [i \in DOMAIN transactions |-> Branch(i)]>>
  BY Zenon DEF SnapshotsKept, Branch, Restored
<1> QED
  BY <1>1, <1>2, <1>3, PTL DEF Spec, Promise!Spec
=============================================================================
