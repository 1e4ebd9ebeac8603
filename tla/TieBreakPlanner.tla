---------------------------- MODULE TieBreakPlanner ----------------------------
(***************************************************************************)
(* The planner plugin BioNavGridBased with its search                      *)
(* (LexicographicSmacSearch2D): a plan is searched twice, first without    *)
(* scores and then with the scores of a prior that break ties between      *)
(* entries of the same f-cost.  Whatever is missing or fails on the way    *)
(* leads to the stock planner.  One request is followed, over a small      *)
(* costmap; distances are tenths of a cell.                                *)
(***************************************************************************)
EXTENDS Integers, FiniteSets

CONSTANTS
  Width, Height,     \* of the costmap
  Goals,             \* goal points, in tenths of a cell
  Costly,            \* traversal cost of a cell that is not free
  Tolerance,         \* _tolerance, in tenths of a cell
  MaxApproach,       \* max_on_approach_iterations_
  MaxIterations,     \* max_iterations_
  MaxSpecial,        \* bound: cells that are blocked, and cells that are costly
  MaxFavoured        \* bound: cells with a score

VARIABLES
  map,         \* the costmap: cells that are blocked and cells that are costly
  favoured,    \* cells with a tie break score, by the prior
  goal,
  stage,       \* of createPlan and of its searches
  reason,      \* fallback_reason of the decision
  open,        \* the priority queue
  serial,
  visited, accumulated,
  best,        \* best_heuristic
  approach,    \* approach_iterations
  iterations,
  reached,     \* the node the backtrace starts from
  baseline     \* of the search without scores: its primary_cost and expanded_indices

searchVars == <<open, serial, visited, accumulated, best, approach, iterations, reached>>
plannerVars == <<map, favoured, goal, stage, reason, searchVars, baseline>>

Infinity == 9999
Cells == (0..(Width - 1)) \X (0..(Height - 1))
Start == <<0, 0>>
GoalCell == <<goal[1] \div 10, goal[2] \div 10>>

Away(a, b) == IF a > b THEN a - b ELSE b - a

\* The traversal cost of a step (external: Node2D), a fee on costly cells.
Traversal(to, from) ==
  (IF to[1] # from[1] /\ to[2] # from[2] THEN 14 ELSE 10)
  + (IF to \in map.costly THEN Costly ELSE 0)

\* The straight distance from a cell's integer coordinates to the point of the goal
\* (external: Node2D), rounded up to tenths; a hundredth shorter, as 14 is than ten
\* times the root of 2, so that like the planner's it falls by no more than a step
\* costs.
Heuristic(c) ==
  LET dx == Away(10 * c[1], goal[1])
      dy == Away(10 * c[2], goal[2])
      square == 98 * (dx * dx + dy * dy)
  IN CHOOSE h \in 0..(10 * (Width + Height)) :
       100 * (h * h) >= square /\ (h = 0 \/ 100 * ((h - 1) * (h - 1)) < square)

\* isNodeValid
Free(c) == c \notin map.blocked

Adjacent(c) == {d \in Cells \ {c} : Away(c[1], d[1]) <= 1 /\ Away(c[2], d[2]) <= 1 /\ Free(d)}

\* tieScore; the first search has scores of zero.
TieScore(c) == IF stage = "scored" /\ c \in favoured THEN 1 ELSE 0

Entry(c, f, number) == [cell |-> c, f |-> f, tie |-> TieScore(c), serial |-> number]

Few(max) == {s \in SUBSET (Cells \ {Start}) : Cardinality(s) <= max}

Init ==
  /\ goal \in Goals
  /\ map \in [blocked : Few(MaxSpecial), costly : Few(MaxSpecial)]
  /\ map.blocked \cap map.costly = {}
  /\ favoured = {} /\ stage = "request" /\ reason = "none"
  /\ open = {} /\ serial = 0 /\ visited = {} /\ accumulated = [c \in Cells |-> Infinity]
  /\ best = [h |-> Infinity, cell |-> Start] /\ approach = 0 /\ iterations = 0
  /\ reached = Start /\ baseline = [cost |-> 0, expanded |-> {}]

-------------------------------------------------------------------------------
(* createPlan *)

\* stockPlan and its decision
StockPlan(why) ==
  /\ stage' = "stock" /\ reason' = why
  /\ UNCHANGED <<map, favoured, goal, searchVars, baseline>>

\* A search starts: start, which no prior favours, is queued with an f-cost of zero.
StartSearch ==
  /\ open' = {[cell |-> Start, f |-> 0, tie |-> 0, serial |-> 0]}
  /\ serial' = 1 /\ visited' = {}
  /\ accumulated' = [c \in Cells |-> IF c = Start THEN 0 ELSE Infinity]
  /\ best' = [h |-> Infinity, cell |-> Start] /\ approach' = 0 /\ iterations' = 0
  /\ reached' = Start

\* createPlan up to its request: without a fresh identity or the service there
\* is none.
Request ==
  /\ stage = "request"
  /\ \/ \E why \in {"no_planning_prior", "planning_prior_stale",
                    "goal_prior_service_unavailable"} : StockPlan(why)
     \/ /\ stage' = "waiting"
        /\ UNCHANGED <<map, favoured, goal, reason, searchVars, baseline>>

\* The wait for the service and the tests of its answer.
Answer ==
  /\ stage = "waiting"
  /\ \/ \E why \in {"goal_prior_timeout", "goal_prior_rejected", "goal_prior_identity_mismatch",
                    "goal_prior_nonfinite"} : StockPlan(why)
     \/ GoalCell = Start /\ stage' = "used"
        /\ UNCHANGED <<map, favoured, goal, reason, searchVars, baseline>>
     \/ /\ GoalCell # Start /\ stage' = "plain" /\ StartSearch
        /\ UNCHANGED <<map, favoured, goal, reason, baseline>>

-------------------------------------------------------------------------------
(* createPath *)

\* Mutant of Top: the score goes before the f-cost.
TopByScore ==
  CHOOSE e \in open : \A other \in open :
    \/ e.tie > other.tie
    \/ e.tie = other.tie /\ e.f < other.f
    \/ e.tie = other.tie /\ e.f = other.f /\ e.serial <= other.serial

\* OpenWorse: the least f-cost, then the highest score, then the oldest entry.
Top ==
  CHOOSE e \in open : \A other \in open :
    \/ e.f < other.f
    \/ e.f = other.f /\ e.tie > other.tie
    \/ e.f = other.f /\ e.tie = other.tie /\ e.serial <= other.serial

Searching == stage \in {"plain", "scored"}

\* An entry of a cell that was expanded already is skipped.
SkipVisited ==
  /\ Searching /\ open # {} /\ iterations < MaxIterations /\ reached = Start
  /\ Top.cell \in visited
  /\ open' = open \ {Top}
  /\ UNCHANGED <<map, favoured, goal, stage, reason, serial, visited, accumulated, best,
                 approach, iterations, reached, baseline>>

Approached == best.h < Tolerance
Improved(c) == {d \in Adjacent(c) \ visited : accumulated[c] + Traversal(d, c) < accumulated[d]}

\* The neighbours are queued in one order, which their serials record.
Rank(c) == c[2] * Width + c[1]
Place(c, cells) == Cardinality({d \in cells : Rank(d) < Rank(c)})

Nearest(cells) ==
  CHOOSE c \in cells : \A d \in cells :
    \/ Heuristic(c) < Heuristic(d)
    \/ Heuristic(c) = Heuristic(d) /\ Rank(c) <= Rank(d)

\* One iteration: the goal's cell ends the search, and so do enough iterations near
\* it, with the nearest cell that was queued, whatever it costs so far.
Expand ==
  /\ Searching /\ open # {} /\ iterations < MaxIterations /\ reached = Start
  /\ Top.cell \notin visited
  /\ LET current == Top.cell
         improved == Improved(current)
         g == [d \in improved |-> accumulated[current] + Traversal(d, current)]
     IN /\ iterations' = iterations + 1
        /\ visited' = visited \cup {current}
        /\ approach' = IF Approached /\ current # GoalCell THEN approach + 1 ELSE approach
        /\ IF current = GoalCell \/ approach' >= MaxApproach
             THEN /\ reached' = IF current = GoalCell THEN GoalCell ELSE best.cell
                  /\ open' = open \ {Top}
                  /\ UNCHANGED <<serial, accumulated, best>>
             ELSE /\ accumulated' = [d \in Cells |-> IF d \in improved THEN g[d] ELSE accumulated[d]]
                  /\ open' = (open \ {Top}) \cup
                       {Entry(d, g[d] + Heuristic(d), serial + Place(d, improved)) : d \in improved}
                  /\ serial' = serial + Cardinality(improved)
                  /\ best' = IF improved # {} /\ Heuristic(Nearest(improved)) < best.h
                               THEN [h |-> Heuristic(Nearest(improved)), cell |-> Nearest(improved)]
                               ELSE best
                  /\ UNCHANGED reached
  /\ UNCHANGED <<map, favoured, goal, stage, reason, baseline>>

\* The end of createPath, and what createPlanWithTieBreak does with it.
Over == Searching /\ (reached # Start \/ open = {} \/ iterations = MaxIterations)
Found == reached # Start \/ Approached
PathEnd == IF reached # Start THEN reached ELSE best.cell
PrimaryCost == accumulated[PathEnd]

\* The scores of the prior matter from here on.
PlainSearchEnds ==
  /\ Over /\ stage = "plain"
  /\ \/ ~Found /\ StockPlan("cognitive_search")
     \/ /\ Found /\ stage' = "scored" /\ StartSearch
        /\ baseline' = [cost |-> PrimaryCost, expanded |-> visited]
        /\ favoured' \in Few(MaxFavoured)
        /\ UNCHANGED <<map, goal, reason>>

ScoredSearchEnds ==
  /\ Over /\ stage = "scored"
  /\ IF Found /\ PrimaryCost = baseline.cost
       THEN /\ stage' = "used"
            /\ UNCHANGED <<map, favoured, goal, reason, searchVars, baseline>>
       ELSE StockPlan(IF Found THEN "cost_changed" ELSE "cognitive_search")

\* The planner is cancelled or its time is up (every terminal_checking_interval_),
\* or an exception ends the search.
Abandon == Searching /\ ~Over /\ StockPlan("cognitive_search")

Next == \/ Request \/ Answer \/ SkipVisited \/ Expand
        \/ PlainSearchEnds \/ ScoredSearchEnds \/ Abandon

Spec == Init /\ [][Next]_plannerVars

-------------------------------------------------------------------------------
(* Properties *)

\* docs/module2_nav2_planning_risk_fusion.md, "认知分数不得改变 primary cost": when
\* both searches have expanded the goal's cell they have found the same cost, in
\* whatever order the scores had the cells expanded.  A search that ends near the
\* goal has a cost that depends on that order; the comparison at its end rejects it.
ScoresKeepTheCost ==
  stage = "scored" /\ GoalCell \in visited /\ GoalCell \in baseline.expanded =>
    accumulated[GoalCell] = baseline.cost
===============================================================================
