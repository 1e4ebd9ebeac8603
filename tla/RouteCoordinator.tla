--------------------------- MODULE RouteCoordinator ---------------------------
(***************************************************************************)
(* The route coordinator (robot_route_planner/ros_node.py with             *)
(* runtime_edges.py and structural_updates.py) between the goals it is     *)
(* given, Module2, the route server and NavigateToPose.                    *)
(*                                                                         *)
(* The callbacks of the node are in one exclusive group and so are atomic. *)
(* The done-callbacks of service futures are tasks of the four-threaded    *)
(* executor outside of any group: the one that adopts a rebuilt graph is   *)
(* therefore two steps, between which other callbacks see the new graph    *)
(* with the old support table, and the one that retires a route may run in *)
(* the middle of a progress callback.  Stamps of the runtime edges and of  *)
(* the monitor are "recent" until they grow "old" beyond their threshold.  *)
(***************************************************************************)
EXTENDS Integers, Sequences, FiniteSets

CONSTANTS Edges,           \* canonical edges that get runtime observations
          Maps,            \* structural snapshots other than the first map, 1
          BlockAfter,      \* block_after_consecutive_failures
          MaxRequests,     \* bound: route goals
          MaxNavs,         \* bound: NavigateToPose goals
          MaxCalls,        \* bound: calls of one kind in flight
          MaxRevision,     \* bound: graph revisions
          MaxFaults        \* bound: rejected, failed and lost calls

ASSUME BlockAssumption == BlockAfter \in Nat \ {0}
ASSUME MapAssumption == Maps \subseteq Nat \ {0, 1}
ASSUME BoundAssumption == {MaxRequests, MaxNavs, MaxCalls, MaxRevision, MaxFaults} \subseteq Nat

None == 0

VARIABLES
  module2,    \* the parameter module2_enabled, fixed at the start
  alive,      \* no callback has raised: the executor still spins
  request,    \* request_id
  pending,    \* the request whose goal pending_goal holds (route_active), or None
  deadline,   \* pending_deadline_ns is set
  asked,      \* route contexts Module2 has not answered
  priors,     \* latest_priors: the context they answer, or {}
  tracker,    \* the route tracked: a set with at most one computation
  nav,        \* navigation_goal_pending, _handle, _targets_final, _failed
  pose,       \* a map pose is known
  ready,      \* the services and action servers are up
  edge,       \* RuntimeEdgeManager.edges
  graph,      \* graph.revision
  support,    \* the revision of support, support_node_positions and map
  map,        \* the snapshot the current map was taken from
  monitor,    \* StructuralChangeMonitor: baseline, last_candidate
  candidate,  \* pending_structural_map, or None for none
  updates,    \* DynamicEdges requests in flight, in order
  computes,   \* ComputeRoute goals in flight, in order
  rebuilds,   \* SetRouteGraph requests in flight, in order
  adopting,   \* the answer _finish_rebuild has adopted half of
  server,     \* external: the route server's graph revision and closed edges
  navs,       \* external: the NavigateToPose goals
  faults      \* bound: faults so far

goalVars == <<request, pending, deadline, asked, priors>>
graphVars == <<graph, support, map, monitor, candidate, rebuilds, adopting>>
envVars == <<pose, ready, faults>>
vars == <<module2, alive, goalVars, tracker, nav, edge, graphVars, updates, computes,
          server, navs, envVars>>

Idle == [sent |-> FALSE, handle |-> None, final |-> FALSE, failed |-> FALSE]
\* An edge is OPEN, SUSPECT, BLOCKED or UNKNOWN; a stamp is none, recent or old.
FreshEdge == [state |-> "OPEN", failures |-> 0, occupied |-> "none",
              clear |-> "none", observed |-> "none"]

Blocked == {e \in Edges : edge[e].state = "BLOCKED"}
FirstMap == 1

Init ==
  /\ module2 \in BOOLEAN /\ alive = TRUE
  /\ request = 0 /\ pending = None /\ deadline = FALSE /\ asked = {} /\ priors = {}
  /\ tracker = {} /\ nav = Idle
  /\ pose = FALSE /\ ready = FALSE /\ faults = 0
  /\ edge = [e \in Edges |-> FreshEdge]
  /\ graph = 0 /\ support = 0 /\ map = FirstMap /\ candidate = None
  /\ monitor = [baseline |-> FirstMap, last |-> None, stable |-> FALSE]
  /\ updates = <<>> /\ computes = <<>> /\ rebuilds = <<>> /\ adopting = {}
  /\ server = [revision |-> 0, closed |-> {}]
  /\ navs = <<>>

-------------------------------------------------------------------------------
(* Requests *)

\* _prepare_route for the goal of request r with priors p and blocked edges b:
\* one DynamicEdges request, unless the pose or the service is missing.  Between
\* the two steps of an adoption the support table may name an edge the graph no
\* longer has, and the lookup raises.
PrepareRoute(r, p, b) ==
  LET send == [for |-> r, revision |-> support, priors |-> p, closed |-> b] IN
  IF r = None \/ ~pose THEN UNCHANGED <<updates, alive>>
  ELSE \/ graph # support /\ alive' = FALSE /\ UNCHANGED updates
       \/ /\ UNCHANGED alive
          /\ IF ready THEN Len(updates) < MaxCalls /\ updates' = Append(updates, send)
                      ELSE UNCHANGED updates

Context == [for |-> request, revision |-> graph]

\* _publish_route_context, when a goal is pending.
PublishContext(r) ==
  asked' = IF module2 THEN asked \cup {[for |-> r, revision |-> graph]} ELSE asked

Cancelled(n) == IF n = None THEN navs ELSE [navs EXCEPT ![n].cancelled = TRUE]

\* Mutant of OnGoal: the priors of the previous request are kept.
OnGoalKeepingPriors ==
  /\ alive /\ request < MaxRequests
  /\ navs' = Cancelled(nav.handle) /\ nav' = Idle
  /\ request' = request + 1 /\ pending' = request + 1 /\ UNCHANGED priors
  /\ PublishContext(request + 1)
  /\ deadline' = module2
  /\ IF module2 THEN UNCHANGED <<updates, alive>>
                ELSE PrepareRoute(request + 1, {}, Blocked)
  /\ UNCHANGED <<tracker, edge, graphVars, computes, server, envVars>>

OnGoal ==
  /\ alive /\ request < MaxRequests
  /\ navs' = Cancelled(nav.handle) /\ nav' = Idle
  /\ request' = request + 1 /\ pending' = request + 1 /\ priors' = {}
  /\ PublishContext(request + 1)
  /\ deadline' = module2
  /\ IF module2 THEN UNCHANGED <<updates, alive>>
                ELSE PrepareRoute(request + 1, {}, Blocked)
  /\ UNCHANGED <<tracker, edge, graphVars, computes, server, envVars>>

\* The contexts whose priors _on_priors accepts.
Current(context) == pending # None /\ context = Context

\* Mutant of OnPriors: the deadline is cleared before the identity tests.
OnPriorsOfAnyRequest(context, usable) ==
  /\ alive /\ asked' = asked \ {context} /\ deadline' = FALSE
  /\ IF ~Current(context) THEN UNCHANGED <<priors, updates, alive>>
     ELSE LET p == IF usable THEN {context} ELSE {} IN
          priors' = p /\ PrepareRoute(pending, p, Blocked)
  /\ UNCHANGED <<request, pending, tracker, nav, edge, graphVars, computes, server,
                 navs, envVars>>

\* _on_priors: Module2 answers a context; priors that are unhealthy or name
\* wrong edges count as none, those of another request or graph are dropped.
OnPriors(context, usable) ==
  /\ alive /\ asked' = asked \ {context}
  /\ IF ~Current(context) THEN UNCHANGED <<deadline, priors, updates, alive>>
     ELSE LET p == IF usable THEN {context} ELSE {} IN
          deadline' = FALSE /\ priors' = p /\ PrepareRoute(pending, p, Blocked)
  /\ UNCHANGED <<request, pending, tracker, nav, edge, graphVars, computes, server,
                 navs, envVars>>

\* _check_prior_timeout
PriorTimeout ==
  /\ alive /\ pending # None /\ deadline
  /\ deadline' = FALSE /\ PrepareRoute(pending, {}, Blocked)
  /\ UNCHANGED <<request, pending, asked, priors, tracker, nav, edge, graphVars,
                 computes, server, navs, envVars>>

-------------------------------------------------------------------------------
(* The answers of the route server *)

Fault == faults < MaxFaults /\ faults' = faults + 1
NoFault == UNCHANGED faults

\* DynamicEdges is served and _after_edge_update runs: on success a
\* ComputeRoute goal is sent; a failure ends the attempt.
AfterEdgeUpdate(ok) ==
  /\ alive /\ updates # <<>>
  /\ LET u == Head(updates) IN
     /\ updates' = Tail(updates)
     /\ IF ok
        THEN /\ server' = [server EXCEPT !.closed = u.closed]
             /\ Len(computes) < MaxCalls
             /\ computes' = Append(computes, [for |-> u.for, priors |-> u.priors,
                                              revision |-> server.revision, closed |-> u.closed])
             /\ NoFault
        ELSE Fault /\ UNCHANGED <<server, computes>>
  /\ UNCHANGED <<alive, goalVars, tracker, nav, edge, graphVars, navs, pose, ready>>

\* _on_route_goal_handle and _on_route_result: whichever request or graph the
\* computation was for, its route is tracked; a rejection, a failure and a
\* route without canonical edges end the attempt.  Between the two steps of an
\* adoption the support table may name an edge the graph no longer has, and the
\* lookup raises.
OnRouteResult(ok) ==
  /\ alive /\ computes # <<>>
  /\ computes' = Tail(computes)
  /\ \/ /\ ok /\ tracker' = {Head(computes)}
        /\ nav' = [nav EXCEPT !.failed = FALSE]
        /\ NoFault /\ UNCHANGED alive
     \/ /\ ok /\ graph # support /\ alive' = FALSE
        /\ NoFault /\ UNCHANGED <<tracker, nav>>
     \/ ~ok /\ Fault /\ UNCHANGED <<alive, tracker, nav>>
  /\ UNCHANGED <<goalVars, edge, graphVars, updates, server, navs, pose, ready>>

-------------------------------------------------------------------------------
(* NavigateToPose *)

\* _publish_progress from the goal update on, for request r: nav and navs are
\* what it finds.  The first update of a goal starts the child action.
GoalUpdate(r, final, found, goals) ==
  IF found.failed \/ found.sent \/ found.handle # None \/ ~ready \/ Len(goals) >= MaxNavs
  THEN nav' = [found EXCEPT !.final = final] /\ navs' = goals
  ELSE /\ nav' = [found EXCEPT !.final = final, !.sent = TRUE]
       /\ navs' = Append(goals, [for |-> r, state |-> "sent", cancelled |-> FALSE])

Progressing == tracker # {} /\ pending # None /\ pose

\* _publish_progress undisturbed: the goal update carries the final pose once
\* the tracked route is nearly done (which depends on the position).
PublishProgress(final) ==
  /\ alive /\ Progressing
  /\ GoalUpdate(pending, final, nav, navs)
  /\ UNCHANGED <<alive, goalVars, tracker, edge, graphVars, updates, computes, server,
                 envVars>>

\* Nav2 accepts a goal and preempts the one it was executing.
Accepted(n) ==
  [m \in DOMAIN navs |->
     CASE m = n -> [navs[m] EXCEPT !.state = "running"]
       [] m # n /\ navs[m].state = "running" -> [navs[m] EXCEPT !.cancelled = TRUE]
       [] OTHER -> navs[m]]

\* _on_navigation_goal_handle
OnNavigationGoalHandle(n, accepted) ==
  /\ alive /\ navs[n].state = "sent"
  /\ IF accepted
     THEN /\ navs' = Accepted(n) /\ nav' = [nav EXCEPT !.sent = FALSE, !.handle = n]
          /\ NoFault
     ELSE /\ navs' = [navs EXCEPT ![n].state = "ended"]
          /\ nav' = [nav EXCEPT !.sent = FALSE, !.failed = TRUE] /\ Fault
  /\ UNCHANGED <<alive, goalVars, tracker, edge, graphVars, updates, computes, server,
                 pose, ready>>

\* _rebuild_structural_graph: SetRouteGraph is called with a graph of the
\* candidate; a failed build or a missing service leaves everything as it is.
Rebuild(m) ==
  \/ UNCHANGED rebuilds
  \/ /\ ready /\ Len(rebuilds) < MaxCalls /\ graph < MaxRevision
     /\ rebuilds' = Append(rebuilds, [map |-> m, revision |-> graph + 1, answer |-> "none"])

\* _finish_active_route, navs being goals: before or after a _publish_progress,
\* or in the middle of one, which then reads the tracker or the goal that is gone
\* and raises, or goes on to the goal update of a route that is retired.
FinishActiveRoute(goals) ==
  /\ pending' = None /\ tracker' = {}
  /\ \/ nav' = Idle /\ navs' = goals /\ UNCHANGED alive
     \/ Progressing /\ nav' = Idle /\ navs' = goals /\ alive' = FALSE
     \/ /\ Progressing /\ UNCHANGED alive
        /\ \E final \in BOOLEAN : GoalUpdate(pending, final, Idle, goals)
  /\ IF candidate # None THEN Rebuild(candidate) ELSE UNCHANGED rebuilds

\* _on_navigation_result: a success far from the goal, or of a lookahead, goes
\* on with the same route; any other result retires the active route, whichever
\* goal the child action was started for.
OnNavigationResult(n, succeeded, near) ==
  /\ alive /\ navs[n].state = "running"
  /\ IF succeeded \/ navs[n].cancelled THEN NoFault ELSE Fault
  /\ LET ended == [navs EXCEPT ![n].state = "ended"] IN
     IF succeeded /\ ~(pose /\ pending # None /\ nav.final /\ near)
     THEN /\ nav' = [Idle EXCEPT !.final = nav.final] /\ navs' = ended
          /\ UNCHANGED <<alive, pending, tracker, rebuilds>>
     ELSE FinishActiveRoute(ended)
  /\ UNCHANGED <<request, deadline, asked, priors, edge, graph, support, map,
                 monitor, candidate, adopting, updates, computes, server, pose, ready>>

-------------------------------------------------------------------------------
(* Runtime edges *)

\* observe_failure; ahead: the cell in front of the robot is occupied.
ObserveFailure(e, ahead) ==
  LET failures == IF e.failures < BlockAfter THEN e.failures + 1 ELSE BlockAfter
      occupied == CASE ~ahead -> "none"
                    [] ahead /\ e.occupied = "none" -> "recent"
                    [] OTHER -> e.occupied IN
  [state |-> IF e.state = "BLOCKED" \/ (occupied = "old" /\ failures = BlockAfter)
             THEN "BLOCKED" ELSE "SUSPECT",
   failures |-> failures, occupied |-> occupied, clear |-> "none", observed |-> "recent"]

\* observe_clear
ObserveClear(e) ==
  [state |-> IF e.clear = "old" THEN "OPEN" ELSE e.state,
   failures |-> 0, occupied |-> "none",
   clear |-> IF e.clear = "none" THEN "recent" ELSE e.clear, observed |-> "recent"]

\* _on_runtime_observation: the route is prepared again when the edge enters
\* or leaves BLOCKED.
RuntimeObservation(e, observed) ==
  /\ alive
  /\ edge' = [edge EXCEPT ![e] = observed]
  /\ IF observed.state # edge[e].state /\ "BLOCKED" \in {observed.state, edge[e].state}
     THEN PrepareRoute(pending, priors, {d \in Edges : edge'[d].state = "BLOCKED"})
     ELSE UNCHANGED <<updates, alive>>
  /\ UNCHANGED <<goalVars, tracker, nav, graphVars, computes, server, navs, envVars>>

\* The edges tick makes UNKNOWN.
Forgotten == {e \in Edges : edge[e].observed = "old" /\ edge[e].state # "UNKNOWN"}

\* Mutant of RuntimeTick: only BLOCKED edges are sent to the server.
RuntimeTickWithoutPreparing(due) ==
  /\ alive
  /\ IF due /\ pending # None THEN PublishContext(pending) ELSE UNCHANGED asked
  /\ edge' = [e \in Edges |-> IF e \in Forgotten THEN [edge[e] EXCEPT !.state = "UNKNOWN"]
                                                 ELSE edge[e]]
  /\ UNCHANGED <<request, pending, deadline, priors, tracker, nav, graphVars, updates,
                 alive, computes, server, navs, envVars>>

\* _runtime_tick: the context is published again every refresh period (due),
\* and forgotten edges become UNKNOWN.
RuntimeTick(due) ==
  /\ alive
  /\ IF due /\ pending # None THEN PublishContext(pending) ELSE UNCHANGED asked
  /\ edge' = [e \in Edges |-> IF e \in Forgotten THEN [edge[e] EXCEPT !.state = "UNKNOWN"]
                                                 ELSE edge[e]]
  /\ IF Forgotten # {}
     THEN PrepareRoute(pending, priors, Blocked \ Forgotten)
     ELSE UNCHANGED <<updates, alive>>
  /\ UNCHANGED <<request, pending, deadline, priors, tracker, nav, graphVars, computes,
                 server, navs, envVars>>

\* Time passes beyond the threshold of a stamp.
StampAges(e, field) ==
  /\ edge[e][field] = "recent"
  /\ edge' = [edge EXCEPT ![e][field] = "old"]
  /\ UNCHANGED <<alive, goalVars, tracker, nav, graphVars, updates, computes, server,
                 navs, envVars>>

-------------------------------------------------------------------------------
(* Structural rebuilds *)

\* _on_structural_map with observe: a snapshot equal to the baseline forgets the
\* candidate of the monitor, one that stays equal long and often enough becomes
\* the pending map, and the graph is rebuilt at once when no route is active.
StructuralMap(m, persists) ==
  /\ alive
  /\ monitor' = CASE m = monitor.baseline -> [monitor EXCEPT !.last = None, !.stable = FALSE]
                  [] m # monitor.baseline /\ m # monitor.last ->
                       [monitor EXCEPT !.last = m, !.stable = FALSE]
                  [] OTHER -> [monitor EXCEPT !.stable = @ \/ persists]
  /\ IF m = monitor.last /\ (monitor.stable \/ persists)
     THEN /\ candidate' = m
          /\ IF pending = None THEN Rebuild(m) ELSE UNCHANGED rebuilds
     ELSE UNCHANGED <<candidate, rebuilds>>
  /\ UNCHANGED <<alive, goalVars, tracker, nav, edge, graph, support, map, adopting,
                 updates, computes, server, navs, envVars>>

\* External: the route server answers SetRouteGraph.
ServeRebuild(ok) ==
  /\ rebuilds # <<>> /\ Head(rebuilds).answer = "none"
  /\ rebuilds' = [rebuilds EXCEPT ![1].answer = IF ok THEN "ok" ELSE "error"]
  /\ IF ok THEN server' = [server EXCEPT !.revision = Head(rebuilds).revision] /\ NoFault
           ELSE UNCHANGED server /\ Fault
  /\ UNCHANGED <<alive, goalVars, tracker, nav, edge, graph, support, map, monitor,
                 candidate, adopting, updates, computes, navs, pose, ready>>

\* _finish_rebuild, up to the assignment of the graph.
AdoptGraph ==
  /\ alive /\ adopting = {} /\ rebuilds # <<>> /\ Head(rebuilds).answer # "none"
  /\ rebuilds' = Tail(rebuilds)
  /\ IF Head(rebuilds).answer = "ok"
     THEN graph' = Head(rebuilds).revision /\ adopting' = {Head(rebuilds)}
     ELSE UNCHANGED <<graph, adopting>>
  /\ UNCHANGED <<alive, goalVars, tracker, nav, edge, support, map, monitor, candidate,
                 updates, computes, server, navs, envVars>>

\* _finish_rebuild, the rest: accept_rebuild raises without a candidate.
AdoptSupport(r) ==
  /\ alive /\ r \in adopting /\ adopting' = {}
  /\ support' = r.revision /\ map' = r.map
  /\ IF monitor.last = None
     THEN alive' = FALSE /\ UNCHANGED <<monitor, candidate>>
     ELSE /\ monitor' = [baseline |-> monitor.last, last |-> None, stable |-> FALSE]
          /\ candidate' = None /\ UNCHANGED alive
  /\ UNCHANGED <<goalVars, tracker, nav, edge, graph, rebuilds, updates, computes, server,
                 navs, envVars>>

-------------------------------------------------------------------------------
PoseKnown ==
  /\ ~pose /\ pose' = TRUE
  /\ UNCHANGED <<alive, goalVars, tracker, nav, edge, graphVars, updates, computes,
                 server, navs, ready, faults>>

ServersReady ==
  /\ ~ready /\ ready' = TRUE
  /\ UNCHANGED <<alive, goalVars, tracker, nav, edge, graphVars, updates, computes,
                 server, navs, pose, faults>>

Observations(e) ==
  {ObserveFailure(edge[e], TRUE), ObserveFailure(edge[e], FALSE), ObserveClear(edge[e])}

Steps ==
  \/ OnGoal \/ PriorTimeout
  \/ \E c \in asked, usable \in BOOLEAN : OnPriors(c, usable)
  \/ \E ok \in BOOLEAN : AfterEdgeUpdate(ok) \/ OnRouteResult(ok) \/ ServeRebuild(ok)
  \/ \E final \in BOOLEAN : PublishProgress(final)
  \/ \E n \in DOMAIN navs, a \in BOOLEAN : OnNavigationGoalHandle(n, a)
  \/ \E n \in DOMAIN navs, s, near \in BOOLEAN : OnNavigationResult(n, s, near)
  \/ \E e \in Edges : \E o \in Observations(e) : RuntimeObservation(e, o)
  \/ \E e \in Edges, f \in {"occupied", "clear", "observed"} : StampAges(e, f)
  \/ \E due \in BOOLEAN : RuntimeTick(due)
  \/ \E m \in Maps \cup {FirstMap}, p \in BOOLEAN : StructuralMap(m, p)
  \/ AdoptGraph \/ \E r \in adopting : AdoptSupport(r)
  \/ PoseKnown \/ ServersReady

Next == UNCHANGED module2 /\ Steps

Spec == Init /\ [][Next]_vars

\* The timers fire, the servers come up, a pose is known in the end, and the
\* route server answers every call.  Nothing is assumed of Module2.
FairSpec ==
  /\ Spec
  /\ WF_vars(PoseKnown /\ UNCHANGED module2) /\ WF_vars(ServersReady /\ UNCHANGED module2)
  /\ WF_vars(PriorTimeout /\ UNCHANGED module2)
  /\ WF_vars(RuntimeTick(TRUE) /\ UNCHANGED module2)
  /\ WF_vars((\E ok \in BOOLEAN : AfterEdgeUpdate(ok)) /\ UNCHANGED module2)
  /\ WF_vars((\E ok \in BOOLEAN : OnRouteResult(ok)) /\ UNCHANGED module2)

-------------------------------------------------------------------------------
(* Properties *)

\* No costs are ever sent for a goal with the priors of another one: the priors
\* outlive an answer (an observation of an edge sends them again), so this needs
\* the reset in _on_goal and the filter of _on_priors together.
PriorsOfThisRequest ==
  \A i \in DOMAIN updates : \A c \in updates[i].priors : c.for = updates[i].for

\* A goal comes when the pose and the servers are there, and no call fails.
Undisturbed == [](pending # None => pose /\ ready /\ faults = 0)

\* Module2 is there and answers every context that is published again.
Module2Answers ==
  /\ module2
  /\ WF_vars((\E c \in asked, usable \in BOOLEAN : OnPriors(c, usable)) /\ UNCHANGED module2)

\* A goal is routed in the end, unless it ends or another one takes its place, which
\* is routed then: without a word from Module2 by the deadline of _on_goal, in
\* geometry-only mode at once ("the system falls back to geometry-only",
\* README.md:108), whatever answers to older requests arrive.  A failed attempt,
\* which nothing repeats, is made good if the context that _runtime_tick publishes
\* again is answered.
EveryGoalRouted ==
  Undisturbed \/ Module2Answers =>
    (pending # None ~> pending = None \/ ~alive \/ \E c \in tracker : c.for = pending)

\* "Keep DynamicEdges synchronized with every state transition" (_runtime_tick):
\* while a goal is pending, an edge that is blocked gets closed at the server,
\* and one that is not gets opened, under the same conditions.
ServerInSync ==
  Undisturbed \/ Module2Answers =>
    \A e \in Edges :
      (pending # None /\ (e \in server.closed) # (e \in Blocked))
        ~> (pending = None \/ ~alive \/ (e \in server.closed) = (e \in Blocked))

\* A click on a new goal cancels the current one and is routed
\* (docs/rivermark_outdoor_demo.md:284): a goal ends only by the result of a
\* child action that was started for it.
GoalKept ==
  [][pending # None /\ pending' = None =>
       \E n \in DOMAIN navs : navs[n].state # navs'[n].state /\ navs[n].for = pending]_vars
=============================================================================
