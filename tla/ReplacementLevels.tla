--------------------------- MODULE ReplacementLevels ---------------------------
(***************************************************************************)
(* Replacement levels: the league's active slots are filled with the       *)
(* projected players of the highest total by a min-cost flow, and the best *)
(* player left at a position is its replacement.                           *)
(* Code: backend/app/valuations/replacement.py.                            *)
(*                                                                         *)
(* A candidate is [id, name, pts, fppg, positions]; name stands for the    *)
(* casefolded name and is a number.  The flow's nodes are numbered as in   *)
(* the code: 0 the source, then players, then slots, then the sink.  Every *)
(* capacity is 1, so the state of the flow is the set of edges in use.     *)
(***************************************************************************)
EXTENDS RosterSlots, Functions

\* _sort_candidates
CandidateKey(c) == <<-c.pts, -c.fppg, c.name, c.id>>
SortCandidates(cands) == SortedBy(cands, [c \in cands |-> CandidateKey(c)])

\* active_slot_demand, as one slot per unit of demand in _slot_order, and
\* drafted_player_target.
ActiveSlotDemand(slots, teams) ==
    [k \in {key \in ActiveSlotKeys : SlotCount(slots, key) > 0} |->
        SlotCount(slots, k) * teams]
DemandedSlots(demand) ==
    LET units == UNION {{<<k, i>> : i \in 1..demand[k]} : k \in DOMAIN demand}
        order == SortedBy(units, [u \in units |-> <<Place(SlotOrder, u[1]), u[2]>>])
    IN  [j \in DOMAIN order |-> order[j][1]]
DraftedPlayerTarget(slots, teams) == DraftRounds(slots) * teams

-------------------------------------------------------------------------------
\* The network of _optimized_active_assignments.
Network(ordered, slots) ==
    LET n == Len(ordered)
        sink == n + Len(slots) + 1
    IN  [players |-> n, sink |-> sink, pts |-> [i \in 1..n |-> ordered[i].pts],
         edges |-> ({0} \X (1..n))
                   \cup {<<x[1], n + x[2]>> :
                             x \in {y \in (1..n) \X DOMAIN slots :
                                       Fits(ordered[y[1]].positions, slots[y[2]])}}
                   \cup (((n + 1)..(sink - 1)) \X {sink})]

\* Edges with capacity left, the reverse ones included (a mutant forgets
\* those, which makes the augmentation greedy), and their cost.
ResidualEdges_Greedy(net, used) == net.edges \ used
ResidualEdges(net, used) == (net.edges \ used) \cup {<<e[2], e[1]>> : e \in used}

EdgeCost(net, u, v) ==
    CASE u \in 1..net.players /\ v > net.players -> -net.pts[u]
      [] v \in 1..net.players /\ u > net.players -> net.pts[v]
      [] OTHER -> 0

\* A search labels the nodes it has reached with a distance, None elsewhere, and
\* the node before.
Searches(net) ==
    LET nodes == 0..net.sink
    IN  [reached : SUBSET nodes, distance : [nodes -> Int], previous : [nodes -> nodes],
         queue : Seq(nodes)]
StartOfSearch(net) ==
    [reached |-> {0}, distance |-> [v \in 0..net.sink |-> 0],
     previous |-> [v \in 0..net.sink |-> 0], queue |-> <<0>>]

\* One node taken off the queue of the label-correcting search: its edges, in
\* the order of their targets, improve distances and enqueue what they improve.
Scan(net, residual, s) ==
    LET u == Head(s.queue)
        through(v) == s.distance[u] + EdgeCost(net, u, v)
        better == {v \in 0..net.sink : /\ <<u, v>> \in residual
                                       /\ v \notin s.reached \/ through(v) < s.distance[v]}
        entering == better \ Range(Tail(s.queue))
    IN  [reached |-> s.reached \cup better,
         distance |-> [v \in 0..net.sink |-> IF v \in better THEN through(v) ELSE s.distance[v]],
         previous |-> [v \in 0..net.sink |-> IF v \in better THEN u ELSE s.previous[v]],
         queue |-> Tail(s.queue) \o SortedBy(entering, [v \in entering |-> <<v>>])]

ShortestPaths(net, residual) ==
    LET search[s \in Searches(net)] ==
            IF s.queue = <<>> THEN s ELSE search[Scan(net, residual, s)]
    IN  search[StartOfSearch(net)]

PathTo(previous, node) ==
    LET path[v \in DOMAIN previous] ==
            IF v = 0 THEN {} ELSE {<<previous[v], v>>} \cup path[previous[v]]
    IN  path[node]

\* _MinCostFlow.flow: augment along a shortest path until the sink is out of
\* reach.  The bound on the flow is the number of slots, which the edges into
\* the sink enforce too.
Augment(net, used, path) ==
    (used \cup (path \cap net.edges)) \ {<<e[2], e[1]>> : e \in path}
Flow(net) ==
    LET flow[used \in SUBSET net.edges] ==
            LET search == ShortestPaths(net, ResidualEdges(net, used))
            IN  IF net.sink \notin search.reached THEN used
                ELSE flow[Augment(net, used, PathTo(search.previous, net.sink))]
    IN  flow[{}]

\* The places in the ordered list of the players that fill a slot: none at all
\* when some slot stays empty.
OptimizedActiveAssignments(ordered, slots) ==
    LET net == Network(ordered, slots)
        used == Flow(net)
    IN  IF Cardinality({e \in used : e[1] = 0}) < Len(slots) THEN {}
        ELSE {i \in 1..net.players : \E e \in used : e[1] = i}

-------------------------------------------------------------------------------
\* Mutant of ReplacementAt: the replacement is the best player, starters included.
ReplacementAt_Best(ordered, assigned, position) ==
    {i \in DOMAIN ordered : position \in ordered[i].positions}

\* The places of the candidates left for a position; the first one replaces.
ReplacementAt(ordered, assigned, position) ==
    {i \in DOMAIN ordered \ assigned : position \in ordered[i].positions}

\* calculate_replacement_levels: failed where the code raises
\* InsufficientEligiblePlayerPoolError.
CalculateReplacementLevels(cands, slots, teams) ==
    LET ordered == SortCandidates(cands)
        demand == ActiveSlotDemand(slots, teams)
        wanted == DemandedSlots(demand)
        assigned == OptimizedActiveAssignments(ordered, wanted)
        left == [q \in BasePositions |-> ReplacementAt(ordered, assigned, q)]
    IN  IF wanted = <<>> \/ assigned = {} \/ \E q \in BasePositions : left[q] = {}
        THEN [failed |-> TRUE]
        ELSE [failed |-> FALSE, demand |-> demand,
              target |-> DraftedPlayerTarget(slots, teams),
              assigned |-> {ordered[i].id : i \in assigned},
              level |-> [q \in BasePositions |-> ordered[Min(left[q])]]]
===============================================================================
