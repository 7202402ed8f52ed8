------------------------------- MODULE Config -------------------------------
(* The layered policy of internal/portage/portage.go.  A word of an incremental
   variable or of a package rule is [name, off]: "flag" or "-flag"; the word
   "-*" is Clear.  A rule is [matches, words]: whether its atom matches the
   package asked about is what PackageAtomMatches answered. *)
EXTENDS Naturals, Sequences, FiniteSets, SequencesExt, Relation

Clear == [name |-> "*", off |-> TRUE]
On(name) == [name |-> name, off |-> FALSE]
Without(seq, name) == SelectSeq(seq, LAMBDA n : n # name)

LastSays(words, flag) ==
  LET i == SelectLastInSeq(words, LAMBDA w : w.name = flag) IN i # 0 /\ ~words[i].off

-----------------------------------------------------------------------------
\* a list of names changed by words in order
applyOrderedChanges(previous, changes) ==
  FoldLeft(LAMBDA list, w : CASE w = Clear -> <<>>
                              [] w.off -> Without(list, w.name)
                              [] OTHER -> Append(Without(list, w.name), w.name),
           previous, changes)

\* package.mask and package.unmask: duplicates stay, "-atom" removes every copy
applyAtomChanges(previous, changes) ==
  FoldLeft(LAMBDA list, w : IF w.off THEN Without(list, w.name) ELSE Append(list, w.name),
           previous, changes)

\* two values of one variable: the later word for a name takes the earlier's place
mergeIncremental(previous, next) ==
  FoldLeft(LAMBDA list, w :
             IF w = Clear THEN <<>>
             ELSE LET i == SelectInSeq(list, LAMBDA v : v.name = w.name) IN
                  IF i = 0 THEN Append(list, w) ELSE [list EXCEPT ![i] = w],
           <<>>, previous \o next)

\* mergeConfigAssignments of one variable
mergeConfigAssignments(target, layers, incremental) ==
  FoldLeft(LAMBDA value, layer : IF incremental THEN mergeIncremental(value, layer) ELSE layer,
           target, layers)

\* the last word about a name is "-name"
trackIncrementalRemovals(layers) ==
  LET words == FlattenSeq(layers) IN
  {n \in {w.name : w \in ToSet(words)} \ {"*"} : ~LastSays(words, n)}

\* FEATURES and USE_EXPAND: what survives the removals of every layer
removalOnlyIncremental(layers) ==
  SelectSeq(applyOrderedChanges(<<>>, mergeConfigAssignments(<<>>, layers, TRUE)),
            LAMBDA n : n \notin trackIncrementalRemovals(layers))

\* an explicit user ACCEPT_LICENSE replaces what the profiles accumulated
effectiveAcceptLicense(profiles, user) ==
  mergeConfigAssignments(IF user # <<>> THEN <<>> ELSE mergeConfigAssignments(<<>>, profiles, TRUE),
                         user, TRUE)

-----------------------------------------------------------------------------

\* package.env files are merged with one another first, then with the rest
PackageEnvironmentFor(files, incremental) == mergeConfigAssignments(<<>>, files, incremental)

PackageExecutionEnvironmentFor(base, files, command, request, incremental) ==
  mergeConfigAssignments(base, <<PackageEnvironmentFor(files, incremental)>> \o command \o request,
                         incremental)

-----------------------------------------------------------------------------
packagePolicyChangesFor(rules) ==
  FlattenSeq([i \in DOMAIN rules |-> IF rules[i].matches THEN rules[i].words ELSE <<>>])

\* policy = [force, mask, stableForce, stableMask, packageForce, ...]
ForceLayers(p, stable) ==
  <<p.force>> \o (IF stable THEN <<p.stableForce>> ELSE <<>>) \o <<packagePolicyChangesFor(p.packageForce)>>
  \o (IF stable THEN <<packagePolicyChangesFor(p.packageStableForce)>> ELSE <<>>)

MaskLayers(p, stable) ==
  <<p.mask>> \o (IF stable THEN <<p.stableMask>> ELSE <<>>) \o <<packagePolicyChangesFor(p.packageMask)>>
  \o (IF stable THEN <<packagePolicyChangesFor(p.packageStableMask)>> ELSE <<>>)

UseMaskedFor(p, flag, stable) == LastSays(FlattenSeq(MaskLayers(p, stable)), flag)
UseForcedFor(p, flag, stable) == LastSays(FlattenSeq(ForceLayers(p, stable)), flag)

\* what the layers leave in a list; the first layer was reduced by the profile
Policy(layers) ==
  FoldLeft(applyOrderedChanges, [i \in DOMAIN layers[1] |-> layers[1][i].name], Tail(layers))

EffectiveUseForStability(use, p, flag, stable) ==
  IF flag \in ToSet(Policy(MaskLayers(p, stable))) THEN FALSE
  ELSE IF flag \in ToSet(Policy(ForceLayers(p, stable))) THEN TRUE
  ELSE LastSays(use \o packagePolicyChangesFor(p.packageUse), flag)

\* whether a layer above the package's own IUSE defaults mentions the flag
ExplicitUseOverride(userUse, commandUse, p, flag, stable) ==
  \E w \in ToSet(userUse \o commandUse \o packagePolicyChangesFor(p.packageUse)
                 \o FlattenSeq(ForceLayers(p, stable)) \o FlattenSeq(MaskLayers(p, stable))) : w.name = flag

-----------------------------------------------------------------------------
\* a mask or unmask list holds atoms; `matching` are those that match the package
PackageMaskStatus(masks, unmasks, matching) ==
  /\ ToSet(masks) \cap matching # {}
  /\ ToSet(unmasks) \cap matching = {}

\* repository-wide lists, then the profile directories parents first, then the user's
loadProfileMaskStack(layers, user) == FoldLeft(applyAtomChanges, <<>>, Append(layers, user))

\* an empty rule accepts the unstable keyword of the architecture
PackageAcceptKeywordsFor(rules, unstable) ==
  FlattenSeq([i \in DOMAIN rules |->
    IF ~rules[i].matches THEN <<>> ELSE IF rules[i].words = <<>> THEN <<On(unstable)>> ELSE rules[i].words])

EffectiveAcceptedKeywordsFor(arch, unstable, global, rules) ==
  applyOrderedChanges(applyOrderedChanges(<<arch>>, global), PackageAcceptKeywordsFor(rules, unstable))

\* keywords are [name, bad]; "-arch" marks a version broken there
keywordSetAccepts(keywords, accepted, unstable) ==
  \E allow \in ToSet(accepted) :
    \/ allow = "**"
    \/ \E k \in keywords : /\ ~k.bad
                           /\ \/ allow = k.name
                              \/ allow = "*" /\ k.name \notin unstable
                              \/ allow = "~*" /\ k.name \in unstable

-----------------------------------------------------------------------------
(* Repositories and their masters.  The searches fail on a cycle or on a name
   without a repository. *)
RECURSIVE VisitMaster(_, _, _), VisitMasters(_, _, _)

VisitMaster(s, name, masters) ==
  CASE s.error \/ name \in s.done -> s
    [] name \in s.open \/ name \notin DOMAIN masters -> [s EXCEPT !.error = TRUE]
    [] OTHER ->
       LET t == VisitMasters([s EXCEPT !.open = @ \cup {name}, !.child = Append(@, name)],
                             masters[name], masters) IN
       IF t.error THEN t
       ELSE [t EXCEPT !.open = @ \ {name}, !.done = @ \cup {name}, !.order = Append(@, name)]

VisitMasters(s, names, masters) ==
  FoldLeft(LAMBDA t, name : VisitMaster(t, name, masters), s, names)

Start == [error |-> FALSE, open |-> {}, done |-> {}, order |-> <<>>, child |-> <<>>]

repositoryPolicyOrder(names, masters) == VisitMasters(Start, names, masters)
EclassLookupDirectories(selected, masters) == VisitMaster(Start, selected, masters)

\* the fields a later repos.conf sets replace the earlier ones
mergeRepoEntry(base, override) ==
  [f \in DOMAIN base |-> IF override[f] # "" THEN override[f] ELSE base[f]]

ReadEffectiveReposConf(entries) ==
  FoldLeft(LAMBDA repos, e :
             LET i == SelectInSeq(repos, LAMBDA r : r.name = e.name) IN
             IF i = 0 THEN Append(repos, e) ELSE [repos EXCEPT ![i] = mergeRepoEntry(@, e)],
           <<>>, entries)
=============================================================================
