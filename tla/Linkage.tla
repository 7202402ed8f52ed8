------------------------------ MODULE Linkage ------------------------------
(***************************************************************************)
(* Shared-library linkage of an installed system: which packages still     *)
(* need a preserved library (RebuildReasons), which are broken             *)
(* (RevdepRebuild), and which packages must go before a library provider   *)
(* (ReverseELFConsumers, ReverseELFRemovalClosure and the order check of   *)
(* the uninstall command).                                                 *)
(*                                                                         *)
(* A system is a record                                                    *)
(*   rows   package |-> set of its NEEDED.ELF.2 rows                       *)
(*   meta   packages that have a NEEDED.ELF.2 file                         *)
(*   files  the <<directory, name>> pairs that exist                       *)
(*   conf   directories named by ld.so.conf                                *)
(* and a row is an ELF object [at |-> <<directory, name>>, class, soname,  *)
(* runpath (a set of directories), needed (a set of SONAMEs)].  A library  *)
(* is stored under its SONAME.  A row is in the VDB whether or not its     *)
(* file still exists.  Packages are numbered in the order of their names.  *)
(***************************************************************************)
EXTENDS Integers, Sequences, FiniteSets, SequencesExt

CONSTANTS Default,     \* the directories the loader always searches
          NoSoname     \* the SONAME column of a program

Packages(s) == DOMAIN s.rows
Dir(row) == row.at[1]
loaderSearchDirectories(s) == Default \cup s.conf
loaderLibraryNames(s) == {f[2] : f \in {g \in s.files : g[1] \in loaderSearchDirectories(s)}}

-----------------------------------------------------------------------------
(* Reverse consumers of a package's libraries.                             *)

packageOwnsELFWithoutLinkageMetadata(s, p) == \E r \in s.rows[p] : r.at \in s.files

\* Mutant: a RUNPATH hides the default directories.
providerReachable_runpath_only(runpath, dirs) ==
    /\ dirs # {}
    /\ runpath = {} \/ runpath \cap dirs # {}

providerReachableFromRunpath(runpath, dirs) ==
    /\ dirs # {}
    /\ runpath = {} \/ runpath \cap dirs # {} \/ Default \cap dirs # {}

ReverseELFConsumers(s, p) ==
    LET provided(n) == {Dir(r) : r \in {q \in s.rows[p] : q.soname = n}}
    IN  IF p \notin s.meta
        THEN [ok |-> ~packageOwnsELFWithoutLinkageMetadata(s, p), set |-> {}]
        ELSE [ok |-> TRUE,
              set |-> {c \in s.meta \ {p} : \E r \in s.rows[c] : \E n \in r.needed \ {NoSoname} :
                          providerReachableFromRunpath(r.runpath, provided(n))}]

-----------------------------------------------------------------------------
(* The retirement closure of a provider, consumers first.                  *)

ConsumersOf(s, set) == UNION {ReverseELFConsumers(s, p).set : p \in set}
Fails(s, set) == \E p \in set : ~ReverseELFConsumers(s, p).ok

Closure(s, seed) ==
    LET grow[n \in 0..Cardinality(Packages(s))] ==
            IF n = 0 THEN {seed}
            ELSE IF Fails(s, grow[n - 1]) THEN grow[n - 1]
            ELSE grow[n - 1] \cup ConsumersOf(s, grow[n - 1])
    IN  grow[Cardinality(Packages(s))]

Leaves(s, remaining) ==
    {p \in remaining : ReverseELFConsumers(s, p).set \cap remaining = {}}

(* Leaves are taken until nothing, or only a cycle, remains.               *)
ReverseELFRemovalClosure(s, seed) ==
    LET all == Closure(s, seed)
        peel[n \in 0..Cardinality(all)] ==
            IF n = 0 THEN [remaining |-> all, order |-> <<>>]
            ELSE LET last == peel[n - 1]
                     leaves == Leaves(s, last.remaining)
                 IN  [remaining |-> last.remaining \ leaves,
                      order |-> last.order \o SetToSortSeq(leaves, <)]
        end == peel[Cardinality(all)]
    IN  [ok |-> ~Fails(s, all) /\ end.remaining = {}, order |-> end.order]

validateELFRemovalOrder(s, order) ==
    /\ IsInjective(order)
    /\ \A i \in DOMAIN order :
         /\ ReverseELFConsumers(s, order[i]).ok
         /\ \A c \in ReverseELFConsumers(s, order[i]).set : \E j \in 1..(i - 1) : order[j] = c

(* What the preserved-rebuild report proposes for an installed consumer    *)
(* with no ebuild left: `selected` are the packages of the world file,     *)
(* `slots` the packages whose installed slot some repository still has.    *)
removableUnavailableClosure(order, selected, slots) == Range(order) \cap (selected \cup slots) = {}

unavailablePreservedRepair(s, p, selected, slots) ==
    LET consumers == ReverseELFConsumers(s, p)
        closure == ReverseELFRemovalClosure(s, p)
    IN  IF consumers.ok /\ consumers.set # {}
        THEN IF closure.ok /\ removableUnavailableClosure(closure.order, selected, slots)
             THEN [action |-> "evaluate-removal-closure", order |-> closure.order]
             ELSE [action |-> "replacement-required", order |-> <<>>]
        ELSE [action |-> "evaluate-removal", order |-> <<p>>]

-----------------------------------------------------------------------------
(* Rebuild lists.                                                          *)

(* `registry` is a set of [at, owner, soname]: preserved library objects.  *)
scanPreservedRegistry(s, registry) == {l \in registry : l.at \in s.files}

RebuildReasons(s, registry) ==
    {x \in [package : Packages(s), row : UNION Range(s.rows), library : scanPreservedRegistry(s, registry)] :
        /\ x.row \in s.rows[x.package]
        /\ x.row.at \in s.files
        /\ \A l \in scanPreservedRegistry(s, registry) : l.at # x.row.at
        /\ x.library.soname \in x.row.needed}

RebuildNeeded(s, registry) == {x.package : x \in RebuildReasons(s, registry)}

Providers(s) ==
    {<<r.class, r.soname>> : r \in {q \in UNION {s.rows[p] : p \in s.meta} :
                                       q.soname # NoSoname /\ q.at \in s.files}}

RevdepRebuild(s) ==
    {p \in s.meta : \E r \in s.rows[p] :
        /\ r.at \in s.files
        /\ \E n \in r.needed \ {NoSoname} :
             <<r.class, n>> \notin Providers(s) /\ n \notin loaderLibraryNames(s)}

-----------------------------------------------------------------------------
(* What the dynamic loader does, as the properties need it: a needed       *)
(* SONAME is searched in the RUNPATH, then in the loader's directories.    *)
Loads(s, row, n) == \E d \in row.runpath \cup loaderSearchDirectories(s) : <<d, n>> \in s.files

(* A package removal deletes its entry and the files no other package has. *)
Uninstalled(s, gone) ==
    [s EXCEPT !.rows = [p \in Packages(s) \ gone |-> s.rows[p]],
              !.meta = @ \ gone,
              !.files = @ \ ({r.at : r \in UNION {s.rows[p] : p \in gone}}
                             \ {r.at : r \in UNION {s.rows[p] : p \in Packages(s) \ gone}})]

\* Every object of `keep` that could be loaded in s can be loaded in t.
KeepsLoading(s, t, keep) ==
    \A p \in keep : \A r \in s.rows[p] : \A n \in r.needed :
        Loads(s, r, n) => Loads(t, r, n)
=============================================================================
