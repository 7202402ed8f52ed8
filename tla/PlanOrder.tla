----------------------------- MODULE PlanOrder -----------------------------
(* The ordering of a plan in internal/resolve/resolve.go.  Actions are numbered
   1..n in the order the resolver found them.  A dependency is a record
   [parent, dep, type]: the exact version selected for action `parent` has an
   active dependency of that type on an atom which action `dep` matches.
   `rebuilds` holds the pairs <<provider, dependent>> of RebuildAfterCP. *)
EXTENDS Naturals, Sequences, FiniteSets, SequencesExt, FiniteSetsExt, Relation

BuildTypes == {"build", "depend"}
DepTypes == BuildTypes \cup {"run", "post"}

-----------------------------------------------------------------------------
\* pairs <<before, after>>; a post dependency follows its parent
plannedOrderGraphFiltered(deps, types) ==
  {IF d.type = "post" THEN <<d.parent, d.dep>> ELSE <<d.dep, d.parent>> :
     d \in {e \in deps : e.type \in types /\ e.parent # e.dep}}

plannedOrderGraph(deps, rebuilds) ==
  plannedOrderGraphFiltered(deps, DepTypes) \cup {p \in rebuilds : p[1] # p[2]}

After(out, node) == {b \in {p[2] : p \in out} : <<node, b>> \in out}

-----------------------------------------------------------------------------
(* The depth-first search with its stack and low links. *)
Unseen == 0

RECURSIVE Visit(_, _, _), VisitAll(_, _, _, _)
Visit(s, node, out) ==
  LET entered == [s EXCEPT !.next = @ + 1, !.index[node] = s.next, !.low[node] = s.next,
                           !.stack = Append(@, node)]
      t == VisitAll(entered, node, SetToSortSeq(After(out, node), <), out)
      from == SelectInSeq(t.stack, LAMBDA m : m = node) IN
  IF t.low[node] # t.index[node] THEN t
  ELSE [t EXCEPT !.components = Append(@, ToSet(SubSeq(t.stack, from, Len(t.stack)))),
                 !.stack = SubSeq(@, 1, from - 1)]

VisitAll(s, node, nexts, out) ==
  IF nexts = <<>> THEN s
  ELSE LET n == Head(nexts)
           t == IF s.index[n] = Unseen THEN Visit(s, n, out) ELSE s
           link == CASE s.index[n] = Unseen -> t.low[n]
                     [] n \in ToSet(s.stack) -> s.index[n]
                     [] OTHER -> t.low[node] IN
       VisitAll([t EXCEPT !.low[node] = Min({@, link})], node, Tail(nexts), out)

stronglyConnectedPlanComponents(out, count) ==
  LET start == [next |-> 1, index |-> [m \in 1..count |-> Unseen], low |-> [m \in 1..count |-> Unseen],
                stack |-> <<>>, components |-> <<>>] IN
  ToSet(FoldLeft(LAMBDA s, node : IF s.index[node] = Unseen THEN Visit(s, node, out) ELSE s,
                 start, [m \in 1..count |-> m]).components)

-----------------------------------------------------------------------------
\* Repeatedly the first member whose build providers are all placed, or simply
\* the first when a build cycle leaves none.
RECURSIVE PlaceMembers(_, _, _)
PlaceMembers(ordered, remaining, build) ==
  IF remaining = {} THEN ordered
  ELSE LET ready == {m \in remaining : ~\E b \in remaining : <<b, m>> \in build}
           chosen == Min(IF ready # {} THEN ready ELSE remaining) IN
       PlaceMembers(Append(ordered, chosen), remaining \ {chosen}, build)

orderPlanCycleByBuildDependencies(component, deps) ==
  PlaceMembers(<<>>, component, plannedOrderGraphFiltered(deps, BuildTypes))

\* Kahn's algorithm over the components, the one found first going first
RECURSIVE PlaceComponents(_, _, _, _)

PlaceComponents(placed, left, out, ordered) ==
  IF left = {} THEN placed
  ELSE LET ready == {c \in left : ~\E b \in left \ {c} : \E x \in b, y \in c : <<x, y>> \in out}
           c == CHOOSE c \in ready : \A d \in ready : ordered[c][1] <= ordered[d][1] IN
       PlaceComponents(placed \o ordered[c], left \ {c}, out, ordered)

sortPlannedActions(n, deps, rebuilds) ==
  LET out == plannedOrderGraph(deps, rebuilds)
      components == stronglyConnectedPlanComponents(out, n) IN
  PlaceComponents(<<>>, components, out,
                  [c \in components |-> orderPlanCycleByBuildDependencies(c, deps)])

Position(order, a) == SelectInSeq(order, LAMBDA b : b = a)

\* Mutant: a component waits for the first, not the last, of those before it.
attachPlanPrerequisites_first(order, deps, rebuilds) ==
  LET out == plannedOrderGraph(deps, rebuilds)
      components == stronglyConnectedPlanComponents(out, Len(order))
      Earliest(c) == order[Min({Position(order, a) : a \in c})]
      Of(a) == CHOOSE c \in components : a \in c IN
  {<<Earliest(Of(p[1])), Earliest(Of(p[2]))>> : p \in {q \in out : Of(q[1]) # Of(q[2])}}
  \cup {p \in out : Of(p[1]) = Of(p[2]) /\ Position(order, p[1]) < Position(order, p[2])}

\* The prerequisites the executor waits for, action by action: the members of a
\* cycle wait for one another in turn, and the first of a component waits for
\* the last of every component it depends on.
attachPlanPrerequisites(order, deps, rebuilds) ==
  LET out == plannedOrderGraph(deps, rebuilds)
      components == stronglyConnectedPlanComponents(out, Len(order))
      at(c) == {Position(order, a) : a \in c}
      Earliest(c) == order[Min(at(c))]
      Latest(c) == order[Max(at(c))]
      Of(a) == CHOOSE c \in components : a \in c
      chain == {<<order[i], order[j]>> : <<i, j>> \in
                  {p \in (1..Len(order)) \X (1..Len(order)) :
                     /\ p[1] < p[2]
                     /\ Of(order[p[1]]) = Of(order[p[2]])
                     /\ ~\E k \in (p[1] + 1)..(p[2] - 1) : Of(order[k]) = Of(order[p[1]])}} IN
  chain \cup {<<Latest(Of(p[1])), Earliest(Of(p[2]))>> : p \in {q \in out : Of(q[1]) # Of(q[2])}}

\* the dependencies a plan order is rejected for
validatePlanOrder(order, deps, rebuilds) ==
  LET components == stronglyConnectedPlanComponents(plannedOrderGraph(deps, rebuilds), Len(order)) IN
  {d \in deps : /\ ~\E c \in components : {d.parent, d.dep} \subseteq c
                /\ IF d.type = "post" THEN Position(order, d.dep) < Position(order, d.parent)
                                      ELSE Position(order, d.dep) > Position(order, d.parent)}

-----------------------------------------------------------------------------
\* The order of a fixture without version metadata: Kahn's algorithm on edges
\* between packages, with a queue; what a cycle holds back comes last.
RECURSIVE Drain(_, _, _)

Drain(sorted, queue, deps) ==
  IF queue = <<>> THEN sorted
  ELSE LET done == Append(sorted, Head(queue))
           free == {d.parent : d \in {e \in deps : e.dep = Head(queue)}}
           ready == {p \in free : \A d \in deps : d.parent = p => d.dep \in ToSet(done)} IN
       Drain(done, Tail(queue) \o SetToSortSeq(ready, <), deps)

SortByDeps(n, deps) ==
  LET start == SetToSortSeq({a \in 1..n : ~\E d \in deps : d.parent = a}, <)
      sorted == Drain(<<>>, start, deps) IN
  sorted \o SetToSortSeq((1..n) \ ToSet(sorted), <)

-----------------------------------------------------------------------------
(* What the order is for. *)
Reaches(out, n) == TransitiveClosure([p \in (1..n) \X (1..n) |-> p \in out], 1..n)

Before(order, a, b) == Position(order, a) < Position(order, b)

=============================================================================
