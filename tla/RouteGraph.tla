------------------------------- MODULE RouteGraph -------------------------------
(***************************************************************************)
(* The physical route graph and its alternative routes: which chains of    *)
(* the skeleton are feasible and kept (robot_route_planner/feasibility.py) *)
(* and the k shortest loopless routes between two nodes (multiroute.py),   *)
(* with the heap of _shortest_route popped entry by entry.                 *)
(*                                                                         *)
(* A chain is a corridor of the skeleton, two directed edges of the graph. *)
(* Two nodes may be joined by several: lanes 1, 2 .. in the order of their *)
(* polylines.  What the sweep of the footprint says of a chain, and its    *)
(* cost, are inputs.                                                       *)
(***************************************************************************)
EXTENDS Integers, FiniteSets, Sequences

CONSTANTS
  Nodes,         \* ids
  Corridors,     \* pairs of nodes that a chain joins
  Doubled,       \* pairs that two chains join
  Costs,         \* final_cost_m of a chain
  K,             \* routes asked for
  Start, Goal    \* the query

VARIABLES
  sweep,         \* classify_edge of a chain by its own polyline
  cost,
  class,         \* static_traversability
  kept,          \* chains of the retained component
  stage,
  accepted,      \* routes, in the order they were found
  candidates,
  spur,          \* spur_index; 0 is the search for the first route
  queue, best    \* of _shortest_route

searchVars == <<queue, best>>
graphVars == <<sweep, cost, class, kept, stage, accepted, candidates, spur, searchVars>>

\* What the graph and a query are: the callers ask for two nodes that differ.
GraphAssumption ==
  /\ IsFiniteSet(Nodes) /\ Nodes \subseteq Int /\ Corridors \cup Doubled \subseteq SUBSET Nodes
  /\ Costs \subseteq Nat /\ K \in Nat \ {0} /\ {Start, Goal} \subseteq Nodes /\ Start # Goal

Chains == {<<p, 1>> : p \in Corridors \cup Doubled} \cup {<<p, 2>> : p \in Doubled}

\* INFEASIBLE is treated like UNKNOWN wherever a chain is asked for.
Traversabilities == {"feasible", "unknown"}

LeastOf(s) == CHOOSE a \in s : \A b \in s : a <= b

Init ==
  /\ sweep \in [Chains -> Traversabilities] /\ cost \in [Chains -> Costs]
  /\ \A c \in Chains : sweep[c] # "feasible" => cost[c] = LeastOf(Costs)
  /\ class = [c \in Chains |-> "unknown"] /\ kept = {} /\ stage = "built"
  /\ accepted = <<>> /\ candidates = {} /\ spur = 0
  /\ queue = {} /\ best = <<>>

-------------------------------------------------------------------------------
(* The feasible graph *)

\* The cache of apply_footprint_feasibility: its key is the pair of nodes, so
\* the first chain of a pair is swept for all of them.
Swept(c) == sweep[<<c[1], 1>>]

ApplyFootprintFeasibility ==
  /\ stage = "built" /\ stage' = "classified"
  /\ class' = [c \in Chains |-> Swept(c)]
  /\ UNCHANGED <<sweep, cost, kept, accepted, candidates, spur, searchVars>>

Feasible == {c \in Chains : class[c] = "feasible"}

\* The component of a node: no feasible chain leads out of it, nor out of a part.
Leaves(s) == \E c \in Feasible : c[1] \cap s # {} /\ ~(c[1] \subseteq s)
Component(n) ==
  CHOOSE s \in SUBSET Nodes :
    /\ n \in s /\ ~Leaves(s)
    /\ \A t \in SUBSET s : n \in t /\ ~Leaves(t) => t = s
Components == {Component(n) : n \in UNION {c[1] : c \in Feasible}}

\* The largest, among these the one with the least node.
Retained ==
  CHOOSE s \in Components : \A t \in Components \ {s} :
    \/ Cardinality(s) > Cardinality(t)
    \/ Cardinality(s) = Cardinality(t) /\ LeastOf(s) < LeastOf(t)

\* retain_largest_feasible_component, which raises without a component.
RetainLargestFeasibleComponent ==
  /\ stage = "classified"
  /\ IF Components = {}
       THEN stage' = "failed" /\ UNCHANGED kept
       ELSE stage' = "ready" /\ kept' = {c \in Feasible : c[1] \subseteq Retained}
  /\ UNCHANGED <<sweep, cost, class, accepted, candidates, spur, searchVars>>

-------------------------------------------------------------------------------
(* k_shortest_loopless_routes *)

Entry(c, nodes, lanes) == [cost |-> c, nodes |-> nodes, lanes |-> lanes]
End(r) == r.nodes[Len(r.nodes)]

\* The order of tuples.
Before(s, t) ==
  \E i \in 1..Len(t) :
    /\ \A j \in 1..(i - 1) : j <= Len(s) /\ s[j] = t[j]
    /\ i > Len(s) \/ s[i] < t[i]

Precedes(r, o) ==
  \/ r.cost < o.cost
  \/ r.cost = o.cost /\ Before(r.nodes, o.nodes)
  \/ r.cost = o.cost /\ r.nodes = o.nodes /\ Before(r.lanes, o.lanes)

\* Mutant of FirstOf: the nodes come first in the tuples of the heap.
FirstByNodes(routes) ==
  CHOOSE r \in routes : \A o \in routes \ {r} :
    \/ Before(r.nodes, o.nodes)
    \/ r.nodes = o.nodes /\ Precedes(r, o)

\* The least entry of a heap.
FirstOf(routes) == CHOOSE r \in routes : \A o \in routes \ {r} : Precedes(r, o)

ChainOf(nodes, lanes, i) == <<{nodes[i], nodes[i + 1]}, lanes[i]>>
TotalCost(nodes, lanes) ==
  LET sum[i \in 0..Len(lanes)] == IF i = 0 THEN 0 ELSE sum[i - 1] + cost[ChainOf(nodes, lanes, i)]
  IN sum[Len(lanes)]

\* A search from n, with nothing known yet.
Search(n) == queue' = {Entry(0, <<n>>, <<>>)} /\ best' = <<>>

Query ==
  /\ stage = "ready" /\ stage' = "search"
  /\ {Start, Goal} \subseteq UNION {c[1] : c \in kept}
  /\ Search(Start)
  /\ UNCHANGED <<sweep, cost, class, kept, accepted, candidates, spur>>

\* The route that the spurs leave: its first spur nodes are the root.
Previous == accepted[Len(accepted)]
Root ==
  LET nodes == SubSeq(Previous.nodes, 1, spur)
      lanes == SubSeq(Previous.lanes, 1, spur - 1)
  IN Entry(TotalCost(nodes, lanes), nodes, lanes)

BannedNodes == {Previous.nodes[i] : i \in 1..(spur - 1)}

SameRoot(r) == Len(r.nodes) >= spur /\ SubSeq(r.nodes, 1, spur) = Root.nodes
NextChain(r) == ChainOf(r.nodes, r.lanes, spur)

\* The edges by which the accepted routes leave the same root.
BannedEdges ==
  IF spur = 0 THEN {}
  ELSE {NextChain(accepted[i]) : i \in {j \in DOMAIN accepted : SameRoot(accepted[j])}}

OnRoute(n, r) == \E i \in DOMAIN r.nodes : r.nodes[i] = n

Extensions(r) ==
  {Entry(r.cost + cost[<<{End(r), y[1]}, y[2]>>], Append(r.nodes, y[1]), Append(r.lanes, y[2])) :
     y \in {x \in Nodes \X {1, 2} :
       /\ ~OnRoute(x[1], r) /\ x[1] \notin BannedNodes
       /\ <<{End(r), x[1]}, x[2]>> \in kept \ BannedEdges}}

\* Its node was reached at less cost before.
Worse(r) == End(r) \in DOMAIN best /\ r.cost > best[End(r)]

\* One pass of the loop of _shortest_route that does not end it.
Pop ==
  /\ stage = "search" /\ queue # {}
  /\ LET r == FirstOf(queue) IN
     /\ Worse(r) \/ End(r) # Goal
     /\ best' = IF Worse(r) THEN best
                ELSE [n \in DOMAIN best \cup {End(r)} |-> IF n = End(r) THEN r.cost ELSE best[n]]
     /\ queue' = (queue \ {r}) \cup (IF Worse(r) THEN {} ELSE Extensions(r))
  /\ UNCHANGED <<sweep, cost, class, kept, stage, accepted, candidates, spur>>

\* What the search found: the goal's first entry, or nothing.
Arrived == queue # {} /\ End(FirstOf(queue)) = Goal /\ ~Worse(FirstOf(queue))
SearchOver == stage = "search" /\ (queue = {} \/ Arrived)

FirstRoute ==
  /\ SearchOver /\ spur = 0
  /\ IF Arrived
       THEN accepted' = <<FirstOf(queue)>> /\ stage' = (IF K = 1 THEN "done" ELSE "search")
       ELSE stage' = "done" /\ UNCHANGED accepted
  /\ spur' = 1 /\ Search(Start)
  /\ UNCHANGED <<sweep, cost, class, kept, candidates>>

Known(r) ==
  \/ \E i \in DOMAIN accepted : accepted[i].nodes = r.nodes /\ accepted[i].lanes = r.lanes
  \/ \E o \in candidates : o.nodes = r.nodes /\ o.lanes = r.lanes

\* The root and the spur make a candidate, unless it is known.
Joined(s) ==
  Entry(Root.cost + s.cost, Root.nodes \o Tail(s.nodes), Root.lanes \o s.lanes)
Found == IF Arrived /\ ~Known(Joined(FirstOf(queue))) THEN {Joined(FirstOf(queue))} ELSE {}

\* The next node of the previous route is the spur.
NextSpur ==
  /\ SearchOver /\ spur > 0 /\ spur < Len(Previous.nodes) - 1
  /\ candidates' = candidates \cup Found
  /\ spur' = spur + 1 /\ Search(Previous.nodes[spur + 1])
  /\ UNCHANGED <<sweep, cost, class, kept, stage, accepted>>

\* All spurs of the previous route were tried: the first candidate is accepted.
Select ==
  /\ SearchOver /\ spur > 0 /\ spur = Len(Previous.nodes) - 1
  /\ LET all == candidates \cup Found IN
     IF all = {}
       THEN stage' = "done" /\ UNCHANGED <<accepted, candidates>>
       ELSE /\ accepted' = Append(accepted, FirstOf(all))
            /\ candidates' = all \ {FirstOf(all)}
            /\ stage' = IF Len(accepted) + 1 = K THEN "done" ELSE "search"
  /\ spur' = 1 /\ Search(Start)
  /\ UNCHANGED <<sweep, cost, class, kept>>

Next == \/ ApplyFootprintFeasibility \/ RetainLargestFeasibleComponent
        \/ Query \/ Pop \/ FirstRoute \/ NextSpur \/ Select

Spec == Init /\ [][Next]_graphVars

-------------------------------------------------------------------------------
(* Properties *)

\* "Retain only the largest connected graph proven feasible by footprint sweep"
\* (feasibility.py:198): every chain that is kept was swept and found free.
RetainedIsSwept == \A c \in kept : sweep[c] = "feasible"

\* The loopless routes of the kept graph, by definition.
Inner == UNION {[1..n -> Nodes \ {Start, Goal}] : n \in 0..(Cardinality(Nodes) - 2)}
SimplePaths ==
  {<<Start>> \o p \o <<Goal>> : p \in {q \in Inner : \A i, j \in DOMAIN q : q[i] = q[j] => i = j}}
Routes ==
  UNION {{Entry(TotalCost(nodes, lanes), nodes, lanes) :
            lanes \in {l \in [1..(Len(nodes) - 1) -> {1, 2}] :
                         \A i \in DOMAIN l : ChainOf(nodes, l, i) \in kept}} : nodes \in SimplePaths}

SingleLanes == \A c, d \in kept : c[1] = d[1] => c = d

\* "Return deterministic Yen-style K shortest loopless physical routes"
\* (multiroute.py:99): where no two chains join the same nodes, the routes that
\* were accepted are at any time the first of all, in order, and in the end K or
\* all, although each round looks for deviations from the last route only and
\* prunes its heap by node.
FirstRoutesFound ==
  stage \in {"search", "done"} /\ spur = 1 /\ SingleLanes =>
    LET found == {accepted[i] : i \in DOMAIN accepted} IN
    /\ found \subseteq Routes
    /\ \A i, j \in DOMAIN accepted : i < j => Precedes(accepted[i], accepted[j])
    /\ \A r \in Routes \ found : accepted # <<>> /\ Precedes(accepted[Len(accepted)], r)
    /\ stage = "done" => Len(accepted) = K \/ found = Routes
=================================================================================
