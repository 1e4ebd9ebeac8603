# Verification of the Isaac Sim / ROS 2 / Nav2 stack

TLA+ models of the control logic of this repository, the TLC runs that check
them on small instances, and TLAPS proofs of the properties that matter most
for every instance.  Paths below are relative to `src/ros2_ws/src/` unless
they start with `isaac_sim/` (then `src/isaac_sim/src/`).

## 1. The system

Isaac Sim runs the robot and publishes `/clock`, scan, odometry and TF.  A
reset of the simulation makes its clock jump; `/simulation/reset_event`
announces it.  Navigation is Nav2: a lifecycle manager and seven managed nodes
(`docs/interfaces.md` counts six; the default list of the gate has seven),
which this repository does not start by themselves.  Around them:

| component | source | state it keeps | operations | talks to |
|---|---|---|---|---|
| activation gate | `robot_bringup/activation_gate.py` | stage of the recovery, attempts, one state query, one lifecycle request, one recovery call, one map call, generation | steady-clock timer, `/clock`, reset event, scan, odom, map, nine kinds of service answers | lifecycle manager, managed nodes, map server, cancel/clear/reseed services |
| lifecycle policy | `robot_bringup/lifecycle_policy.py` | none | decision on a snapshot, next repair transition, retry budget | activation gate |
| readiness tracker | `robot_bringup/readiness.py` | epoch, last samples with stamps, transform with its stability window | mark clock/scan/odom/map/reset, observe transform, missing requirements | activation gate |
| route coordinator | `robot_route_planner/ros_node.py`, `tracking.py`, `runtime_edges.py`, `structural_updates.py` | request id, goal, edge states, tracker, goal handles, pending rebuild | goal, priors, edge update, ComputeRoute and NavigateToPose answers, rebuild, ticks | Nav2 route server, bt_navigator, bio-nav priors |
| reset service bridge | `isaac_sim/bridge/reset_service.py`, `isaac_sim/robot/reset.py` | one transaction with its pending futures, initial-pose republisher | start, seal, complete, time out, apply the pose policy | activation gate, controllers, costmaps, obstacles |
| initial pose publisher | `robot_experiments/initial_pose_publisher.py` | pending pose, barrier of the rearm, manual override | clock, scan, reset event, reseed, manual pose, tick | localization, activation gate |
| ordered shutdown | `robot_bringup/ordered_shutdown.py` | deadline | the steps in order | every process |
| keyboard teleop, idle brake | `robot_teleop/safety.py`, `keyboard_teleop.py`, `isaac_sim/robot/idle_brake.py` | lease deadline, speed, last command; age of the last command heard | keys, tick, close, signals; a frame of the simulator | `/cmd_vel` |
| dynamic obstacles | `isaac_sim/experiment/dynamic_obstacles.py` | phase of an actor, start of its motion | trigger, update, yield, complete, reset | simulation |
| trial runner | `robot_experiments/experiment_runner.py` (`run_all`) | trial, leg, goal, files of evidence | resume, reset, dispatch, goal, cancel, write, seal | simulation, Nav2, route coordinator, disk |
| campaign supervisor | `src/scripts/run_rivermark_campaign.sh` | attempts | start the runner, audit, contract | trial runner, disk |
| free-space diagnostics | `src/isaac_sim/apps/navigation_sim.py` (main loop), `isaac_sim/diagnostics/r2c1_free_space_probe.py` | segment, phase, preflight, contexts by stamp | frame, reset, preflight, publish, receive | reset bridge, observer thread |
| risk layers | `bio_nav_fusion/src/cognitive_risk_layer.cpp`, `local_risk_grid_layer.cpp` | last message, reset epoch, active cells, streak, box of the last update | message, reset event, clear, `enabled`, the two halves of an update | Module2, Global Costmap |
| planner plugin | `bio_nav_fusion/src/bio_nav_grid_based.cpp`, `tie_break_smac_planner_2d.cpp` | identity of the last prior; open list and nodes of a search | createPlan | goal prior service, stock planner |
| route graph | `robot_route_planner/feasibility.py`, `multiroute.py` | class of each edge; accepted and candidate routes, heap of a search | classify, retain, k shortest routes | route coordinator, benchmarks |
| supervisor of the ROS stack | `src/scripts/run_ros.sh`, `lib/common.sh`, `clean_runtime.sh` | stop request, force, traps, lock and `ros.pid` | start, traps, waits with stronger signals, clean-up | ros2 launch, ordered shutdown |
| route geometry and cost, other campaigns, RViz panel, SLAM solver, perception, launch files, simulator set-up | | numeric state, text | numeric algorithms, orchestration, user interface | |

How they interact.  A reset goes from the bridge (after every call of its
transaction has completed) as `reset_event` to the gate, to the initial pose
publisher and to the route coordinator.  The gate then owns the lifecycle: it
cancels the NavigateToPose goals, pauses the managed nodes, clears both costmaps,
asks the initial pose publisher for a reseed, waits until the readiness tracker
sees fresh data of the new epoch, and resumes.  The route coordinator sits on
top: it asks Nav2 for routes and starts NavigateToPose goals, which the gate
may cancel under its hands.

What is hard.  All of them are event driven: answers of services arrive after
the thing they were asked for has been superseded by a reset, a timeout or a new
goal.  The gate has three kinds of time-outs that race late answers, a budget of
retries shared by several failure paths, and an external manager that goes on
executing a command after the gate has disowned it.  The readiness tracker
compares stamps of two clocks, one of which jumps.  `PROJECT.json` lists these
hazards at the lines where they bite.

What makes each component correct:

* gate: one lifecycle request at a time; an answer of an old generation changes
  nothing; the budget holds; a recovery ends active only when every step it
  owes was performed in this epoch; nodes are paused while costmaps are
  rebuilt; it always ends active or fatal.
* policy: every mixture of labels is repaired in dependency order.
* tracker: a verdict rests on evidence of the current epoch, a live transform
  and a still pose; an epoch begins only by a discontinuity.
* route coordinator: a result belongs to the goal it was computed for; a
  rejected or cancelled goal does not leave the route stuck; a rebuild never
  replaces the graph under an active route.
* reset bridge: `reset_event` follows every call of the transaction and only a
  transaction without errors; a late answer does not touch the next one; the
  response tells whether the reset was announced; one automatic pose per
  announced reset, on a scan taken after the robot was moved.
* initial pose: a manual pose is never overwritten by an automatic one of the
  same epoch; a rearm publishes only after a scan that follows it.
* shutdown: no manager is asked to stop while an earlier one is still stopping,
  and the exit status is true.  Teleop: no command outlives its lease, and a dead
  teleop stops the robot.  Obstacles: a kinematic actor never jumps.
* trial runner and campaign: no goal without a record on disk, nothing counted
  that is not sealed, no evidence lost, no failure hidden, whatever crashes.
* risk layers: what a rejected or expired message has left in the costmap goes with the
  next updates.  Planner plugin: scores change the path, never its cost.
* supervisor: it ends when it is asked to, and only after its whole launch group.
* diagnostics: every odometry message finds its frame; no motion without the
  preflight of its own segment.

## 2. Modules

| module | models | lines of code it follows |
|---|---|---|
| `LifecyclePolicy` | `lifecycle_decision`, `normalization_transition`, `can_retry`, and the plan of the (external) lifecycle manager, as operators | `lifecycle_policy.py` |
| `ActivationGate` | the gate, as a state machine composed with Nav2, the map server and the recovery services; EXTENDS `LifecyclePolicy` | `activation_gate.py` |
| `RecoveryContract` | what the gate promises: steps in order, then serving; or failed | abstract |
| `LifecycleRepair` | the loop of snapshots, commands and repairs alone, for more nodes | `lifecycle_policy.py`, the decisions of `activation_gate.py` |
| `Readiness` | the tracker with a simulator, publishers and a transform buffer | `readiness.py` |
| `ResetBridge` | the reset transaction with its hooks, futures, timer, response, and the automatic initial pose | `isaac_sim/bridge/reset_service.py`, `isaac_sim/robot/reset.py` |
| `ResetContract` | what the bridge promises: one reset at a time, announced only when no call is open; and every reset ends | abstract |
| `RouteCoordinator` | the coordinator between goals, Module2, the route server and NavigateToPose, with the runtime edges and the structural monitor | `robot_route_planner/ros_node.py`, `runtime_edges.py`, `structural_updates.py` |
| `RouteTracker` | the tracked edge and arc length along a route | `robot_route_planner/tracking.py` |
| `TeleopLease` | keyboard teleop and the idle brake that backs it up | `robot_teleop/`, `isaac_sim/robot/idle_brake.py` |
| `InitialPose` | the automatic initial pose | `robot_experiments/initial_pose_publisher.py` |
| `OrderedShutdown` | the steps of the shutdown under one deadline | `robot_bringup/ordered_shutdown.py` |
| `Obstacles` | one actor of a case | `isaac_sim/experiment/dynamic_obstacles.py` |
| `DiagnosticRun` | the free-space diagnostics in a frame of the main loop, with the observer thread | `src/isaac_sim/apps/navigation_sim.py`, `isaac_sim/diagnostics/r2c1_free_space_probe.py` |
| `TrialRunner` | the process that runs trials and resumes them | `robot_experiments/experiment_runner.py` |
| `TrialCampaign` | the supervisor around it; EXTENDS `TrialRunner` | `src/scripts/run_rivermark_campaign.sh` |
| `RiskLayer` | the two costmap layers, with the update of the layered costmap that they are part of | `bio_nav_fusion/src/cognitive_risk_layer.cpp`, `local_risk_grid_layer.cpp` |
| `TieBreakPlanner` | one request of the planner plugin, with both searches | `bio_nav_fusion/src/bio_nav_grid_based.cpp`, `tie_break_smac_planner_2d.cpp` |
| `RuntimeInstances` | the supervisor of the ROS stack, its launch group and the clean-up | `src/scripts/run_ros.sh`, `lib/common.sh`, `clean_runtime.sh` |
| `RouteGraph` | feasibility of the chains, the retained component, the k shortest routes | `robot_route_planner/feasibility.py`, `multiroute.py` |
| `RouteSlices` | three slices of the inputs of `RouteCoordinator`, for TLC | |
| `Machines` | the small machines side by side, one per behaviour; their constants are its own | |
| `Nav2Inputs` | `Readiness`, `RiskLayer`, `TieBreakPlanner`, `RouteGraph` and `TrialCampaign` side by side, one per behaviour; their constants are its own | |
| `MCActivationGate`, `MCResetBridge` | joint bounds for the runs of the gate and the bridge | |
| `LifecyclePolicy_proofs`, `ActivationGate_proofs`, `ResetBridge_proofs`, `RouteCoordinator_proofs`, `TrialCampaign_proofs`, `RouteGraph_proofs` | theorems about the module they are named after | |
| `Machines_proofs` | theorems about `RouteTracker`, `OrderedShutdown`, `RuntimeInstances`, `TeleopLease`, `DiagnosticRun`, `Obstacles` and `LifecycleRepair`, as parts of `Machines` | |
| `Nav2Inputs_proofs` | theorems about `Readiness`, `RiskLayer`, `TieBreakPlanner` and, through instances of `RouteGraph_proofs` and `TrialCampaign_proofs`, about `RouteGraph` and `TrialCampaign`, as parts of `Nav2Inputs` | |

### ActivationGate

A callback of the gate is one action: the node is spun by `rclpy.spin`
(one thread, `main`, line 1311), and `_state_query_lock` makes each handler atomic
even under more threads.  Everything a handler calls is part of its action:
the last answer of a snapshot (`StateQueryDone`) includes the decision and the
lifecycle request it leads to.

| variables | attribute of the code |
|---|---|
| `activated`, `stage`, `verifying` | `_activated`, `_recovery_stage` (`"none"` when not `_recovering`), the three `_*_verifying` flags |
| `attempts`, `normalizationAttempts`, `stageAttempts`, `mapAttempts` | the counters of the same names |
| `backoff`, `mapBackoff` | `now < _next_attempt_at`, `now < _next_map_attempt_at` |
| `late` | now past `_startup_timeout` / `_recovery_timeout` |
| `fatal`, `raised` | `_fatal_error`, and that the timer has raised it: the process ends |
| `generation`, `query`, `request`, `service`, `mapOp` | the generation and the tokens of what is in flight |
| `stateCalls`, `lifecycleCalls`, `serviceCalls`, `mapCalls` | futures, each with the token it carries and its answer once served |
| `node`, `manager`, `changes`, `mapNode`, `up`, `ready`, `duplicate` | the environment: labels, the manager's queue, ROS graph |
| `effects`, `stray`, `query.serial`, `query.mixed` | history for the properties; the code keeps none of it |

The actions are one per branch of the timer (`TickRaise`, `TickTimeout`,
`TickStartup`, `TickServiceTimeout`, `TickServiceUnavailable`, `TickCallService`,
`TickSkipReseed`, `TickReadinessRestored`, `TickQuery`), one per callback
(`EpochEvent`, `StateQueryDone`, `StateQueryFailed`, `LifecycleDone`,
`MapStateDone`, `MapTransitionDone`, `RecoveryServiceDone`), and the environment.
Wall time is abstracted to three flags that may turn at any moment: a
backoff ends, the mandatory deadline of the start-up or the recovery passes
(`late`, tested in every stage), the timeout of a call in flight fires
(`TickServiceTimeout` is enabled as long as the call is in flight).  The
checks hold whatever the configured durations.  `ready` stands for an empty
`missing_requirements` except the map, which `Readiness` models by itself.
The lifecycle manager executes commands one at a time, node by node,
and stops at the first failing node; a node that is asked for its state while
it performs a transition may answer the transitional label.  All of these are
external and modelled from how the gate uses them.

Not modelled here: a `call_async` that raises at once (it leads to the same
`_record_failure` as the exception in the future, which is modelled), the
unreachable branches for an unknown context or stage, and log messages.

### Readiness

Time is discrete; the timer fires once per instant, every other callback
any number of times.  A pose is a number (the translation on a line); the yaw
comparison has the same shape and is left out.  The future tolerance and the
relation of stamps to `/clock` are modelled.  `EveryTickEvaluates` says whether
every tick reaches `missing_requirements`: in the gate it does not, since the
timer returns before it while querying, backing off or recovering.

### ResetBridge

The main loop of `navigation_sim.py` updates the application and then spins the
node once, in one thread.  A callback is therefore atomic, with one exception
that matters: `ResetManager.reset` updates the application while it runs (`step`,
`play`), so simulation time may pass and scans may be taken between the hooks.
The hooks are one action each; nothing but `Close` (an interrupt) comes between.

| variables | attribute of the code |
|---|---|
| `generation`, `active`, `closed` | `_transaction_generation`, `_active_transaction is not None`, `_closed` |
| `tx` | the last `_ResetTransaction`: `initial_pose_name` set, `sealed`, `finished`, and the labels that `_pending` counts |
| `failed` | the generations whose `errors` is not empty |
| `futures` | submitted calls: `counted` while in `_pending_futures`, `due` while `completed` of `add_call` is still to run |
| `pc` | the hook `reset` is at |
| `awaiting`, `replies` | coroutines of `_reset_callback` that await `completion`; what they answered |
| `source`, `deferred`, `barrier` | `_initial_pose_source`, `_deferred_initial_pose_name`, `_after_stamp_s` of the republisher |
| `sim`, `epoch`, `scans` | simulation time, how often it was restarted, `/scan` messages in transit |
| `placed`, `events`, `seeds` | history: which reset last moved the robot, announced resets, poses published |

rclpy runs the two done-callbacks of a future as separate tasks, so `Discard` and
`Completed` come in either order, and a timed-out reset leaves futures behind for
which neither has run.  A refused request changes nothing and is the absence of a
step.  A call may be answered, fail, raise at once, find its service
unavailable, or stay open for ever.  The startup reset runs before the loop
spins; if it fails, the loop raises and spins no more.

Not modelled: the choice of pose and seed, `publish_count` other than the 1 the
bridge passes (with it `_last_scan_stamp_s` has no effect), the tolerance of one
microsecond in the comparison of clocks, and exceptions out of the bridge's own
publishers.

Two things the model shows that are as designed, or at least as coded.  A
call that is never answered makes the bridge refuse every later reset
(`_pending_futures`, line 442).  And a scan from before a restart of the clock
may pass a barrier that fell with the clock, if its stamp is within
`clock_scan_tolerance_s`; `SeedSeesTheTeleport` states exactly this exception.  The order of the
hooks is the code's: `docs/interfaces.md` lists the pose (step 3) before the odometry and
costmap requests (steps 4 and 6) and the physics step (7), while `reset.py`
applies it last (line 87), after the step, for the reason its comment gives.

### RouteCoordinator

The callbacks of the node share one exclusive callback group and are atomic.  The
done-callbacks of service futures are tasks of the four-threaded executor outside of any
group.  Two of them are cut where another callback can see the difference: the one that adopts a
rebuilt graph first and its support table later (`AdoptGraph`, `AdoptSupport`), and
`_finish_active_route` (line 1219), which can take the tracker away in the middle of
`_publish_progress` and so end the node with an exception.  `OnRouteResult` looks up the
edges of a route by their ids (line 930) and ends it in the same way when graph and support differ.
`module2` is the parameter `module2_enabled`: both values are initial states, so a run covers the
geometry-only mode too.

| variables | attribute of the code |
|---|---|
| `request`, `pending`, `deadline` | `request_id`, `pending_goal` with `route_active`, `pending_deadline_ns` |
| `priors`, `asked` | `latest_priors` as the context it answers; contexts published to Module2 |
| `tracker`, `nav` | `tracker` with the computation it came from; `navigation_goal_pending`, `_handle`, `_targets_final`, `_failed` |
| `edge` | `RuntimeEdgeManager.edges`; stamps are recent or older than their threshold |
| `graph`, `support`, `map`, `monitor`, `candidate` | `graph.revision`, the revision of the support table, the map, the structural monitor, `pending_structural_map` |
| `updates`, `computes`, `rebuilds`, `adopting` | calls in flight and answers, each with what it was sent for |
| `server`, `navs` | external: revision and closed edges of the route server; NavigateToPose goals |
| `module2` | `module2_enabled`, fixed at the start |
| `alive` | no callback has raised out of the executor |

A position is a known pose or none; a goal, an edge and a map are names.  Costs are the
priors and the closed edges they are computed from; the cognitive regions add further
terms and are left out.  The child target is the final one or an intermediate one.

### RouteTracker

An edge is one segment along an axis of an integer grid, so that a projection is exact.
`TrackPosition` is the whole of `update`: the window, the projection on each candidate, the hysteresis
with its projection onto the earlier edge, and the bounded step back.

### TeleopLease, InitialPose, OrderedShutdown, Obstacles

Each is one process.  Time is kept as what is left of a deadline or as a saturating age,
so that the state space is finite and the deadlines can be any numbers.  In `TeleopLease`
the terminal loop, a frame of the simulator, and the kill of the process interleave.
In `InitialPose` a stamp of before a restart of the clock is `Future`: it lies ahead of the
restarted clock.  In `OrderedShutdown` a manager that was given up goes on.  In
`Obstacles` the path is a line with a dwell, and the clearance to the robot is
any of the three classes the code compares.

### TrialRunner and TrialCampaign

A directory of evidence is a record: the trial it is for, its receipt, how many of the five
writes at the end of a trial are done (`step`), whether the next one is torn, and whether it is torn
at the end of a line (`cutAtLine`).  A crash
leaves the file it was writing as it was, torn, or written (`Crash`); a list of checksums that is cut at
the end of a line verifies, because `_checksums_are_verified` tests the lines that are there (`Sealed` says so); the process
starts again through `TrialCampaign`, whose script may itself be started again.  Goals at Nav2
outlive the process (`live`).  `guided` chooses the backend; the direct one is
a runner started by hand once and has no supervisor.  The stages of a reset, and the
files of samples and snapshots, are one action each.

### DiagnosticRun

A frame is cut where the observer thread can see a difference: at the top, before the application
updates, before the command, before the registration, at the publication, and after it.  The
stamp of a frame is its number.  `Spun` steps are what the update and `spin_once` let happen:
a reset finishes, the service arms, another reset comes and goes.  The two instances R2C1
and R2C3 are the flag `r2c3`; R2D2 is R2C3 that is not armed yet.  Rows of the trace that nothing reads
back are left out, TF and collision receipts among them.

### RiskLayer

One layer of either kind (`layer`) under an update that is cut where the locks are given back:
`Begin` (`useExtraBounds`), `UpdateBounds`, `ReadGrid`, `UpdateCosts`.  Messages, resets, the
switch and the age of a message come between any two of them; a clear of the costmap does not,
it holds the costmap.  `window` is what all layers together asked for, so another layer may ask for
more or for nothing.  `refused` counts updates in a row, up to 2, that found nothing acceptable from their beginning to
their end; `stray` holds the cells that the local layer wrote outside the box it remembers.

### TieBreakPlanner

`Expand` is one iteration of `createPath` with all neighbours; `SkipVisited` its `continue`.
`Top` is the comparator of the queue, `Traversal`, `Heuristic` and `Adjacent` are Nav2's `Node2D`
and external.  Distances are tenths of a cell, so 14 stands for a diagonal.  The goal is a point in tenths
of a cell, as `createPlan` passes it (line 277): the heuristic is the straight distance from a cell's
coordinates to that point, so the goal's cell has a heuristic of its own, which is 0 only when the point is its
corner, and a neighbour may be nearer than it.  The heuristic is rounded up and taken a hundredth shorter, as 14 is than ten
times the root of 2: so it keeps what the planner's own has, that no step brings
the distance down by more than it costs.  A search ends when the goal's cell is expanded, or after `MaxApproach` iterations
within `Tolerance`, at the nearest cell.
The scores of the prior are a set of favoured cells, chosen when the second search starts.  A request that has no usable prior, or a search that fails, ends at `stock`.

### RouteGraph

A chain is a corridor between two nodes, both of its directed edges; `<<{a, b}, 2>>` is a second one
between the same nodes.  What `classify_edge` says of its own polyline (`sweep`) and its cost are inputs.
`Swept` is the cache of `apply_footprint_feasibility`, `Retained` the choice of the component.  A search is
`Pop` per heap entry; `FirstRoute`, `NextSpur` and `Select` are what `k_shortest_loopless_routes` does with
its result.  `best` is the dict of the code, defined for the nodes that were reached.  `Routes` defines the loopless routes anew, for the property.

### RuntimeInstances

`at` is the line of `run_ros.sh` the supervisor is at, `handler` what its traps do now: ordered
stop, force, hard stop, ignore.  A signal that arrives is `pending` until bash runs its trap, which it
does not while a command runs in the foreground (`Interruptible`); two requests of the same kind are one.
Launch leader and the rest of its group end by themselves at any time, or never before
`SIGKILL`.  `clean_runtime.sh` signals the group of the supervisor that wrote `ros.pid`, and
waits for it.  A supervisor may itself be killed (`killed`).

## 3. Runs

Every number below is TLC's, with two workers.

| run | instance | asks | distinct states |
|---|---|---|---|
| `gate_faults` | 2 nodes, 2 attempts, auto seeding, deadlines; two disturbances (faults of node / death / query / service / duplicate, or a reset) | `IInv` (the invariant of the proof), `OneCommandOutstanding`, `CommandBudget`, `PausedWhileRebuilding`, `RecoveryIsComplete`, `StaleAnswersInert` | 0.91 M |
| `gate_contract` | 1 node, 2 attempts, rviz seeding, map to be repaired, 1 reset, 1 fault of map / data / discovery / service / query, timer fairness | `ImplementsContract` (refinement of `RecoveryContract`, liveness included) | 0.47 M |
| `gate_converges` | 3 nodes, 2 attempts, a deadline that may elapse at any moment or never, 1 reset, 1 failing recovery service, cooperative environment | `EndsActive` | 0.66 M |
| `nav2_inputs` | readiness: 3 units of time and of simulation time, 1 epoch by a jump or a reset, 2 poses; a layer of either kind: 2 cells, 2 grids, 1 reset; the planner: 4 x 2 cells, up to 2 blocked, 2 costly and 1 favoured, 3 points for a goal, in reach of the tolerance and in the start's cell among them; the route graph: 5 nodes, 7 chains of two costs, each feasible or not, 4 routes; the campaign: 2 trials of 2 legs, 2 directories, 2 attempts, 3 runners started | `EvidenceOfThisEpoch`, `WindowIsStill`, `EpochsHaveACause`, `RejectedIsCleared`, `ScoresKeepTheCost`, `FirstRoutesFound`, `GoalsOnRecord`, `FaultlessTrialEnded`, `NoFailureHidden`, `SkippedIsSealed`, `EvidenceKept` | 1.31 M |
| `reset_calls` | 3 resets, 1 odometry and 1 costmap call, 2 units of time, 1 restart of the clock, 2 scans in transit (the third reset with the clock unmoved) | `IInv` (the invariant of the proof, types included), `ArmedOnlyWhenQuiet`, `ResponseTruthful`, `OneSeedPerEvent`, `SeedSeesTheTeleport`, `ImplementsContract` (refinement of `ResetContract`, liveness included) | 0.82 M |
| `route` | three slices: 2 goals with child actions and a fault; 2 goals with observations of an edge and a fault; 1 goal with a child action and structural rebuilds of 2 maps; each with Module2 and in geometry-only mode | `PriorsOfThisRequest`, `EveryGoalRouted`, `ServerInSync` | 0.29 M |
| `machines` | repair of 4 nodes from every mixture of stable labels with 2 refused transitions; a route of 4 edges that turns back; teleop and brake; pose with 2 rearms; 3 managers; an actor with a dwell and 1 reset; 2 segments in 12 frames; 2 supervisors, 1 of them killed | `DependencyOrder`, `Repaired`, `OnTrackedEdge`, `DeadMan`, `StopsWithoutTeleop`, `SequenceEnds`, `StrictOrder`, `TruthfulResult`, `NoJump`, `MovesInClearedSegment`, `OneStack`, `StopIsServed` | 98 k |

Bounds, and why they are enough.  Two nodes already give every kind of mixed
snapshot and an order to keep; three are used where the repair must take several
rounds.  Two attempts distinguish the first, the retry and the exhausted one.
`MaxCalls = 2` calls of a kind outstanding: the current one and one of an
earlier generation or of an abandoned attempt; a third is not issued until one
is answered (the only action the bound disables is the issue of a call).  One
fault suffices for each failure path and two exhaust the budget of two attempts.  A reset
counts as a disturbance like a fault (`MaxDisturbances`), so a fault and a reset come in either
order; further combinations, and answers that are several generations old, are covered
by the proofs, which have no bound.  In `Readiness` the window is
two instants and freshness one, so a window needs two samples, and three units of time
leave room for a window after a jump or a reset; three units of simulation time are what a sample must be
late by to violate `EvidenceOfThisEpoch` (with 4 units of time, 1.4 M states of its own, the part passes as well).  Three resets allow one that times out, one
that is refused or delayed by what it left open, and one after it; two calls
are enough for each order of four done-callbacks, and the proof has any number
(two odometry calls and three resets also pass).  A scan from before the
teleport and one from after it need two in transit.  A third reset with a moving
clock is covered by the proof only.  In `route` two goals are
needed for an answer to the first under the second, and two maps for a rebuild
that is overtaken by a return to the first; the slices leave inputs out, never parts of a step.
In `nav2_inputs` three runners let one resume what two others left, two trials one that is
skipped and one that is not, and two directories a trial that is done again (with three, and two runners, 2.0 M states of its
own, the part passes as well); a risk layer needs two cells, so that a
grid can move away from a cell, one reset, and two messages of a streak; the planner needs room for a
detour, so that a search by score would find a dearer path, and the route graph for more loopless routes
than are asked for, with ties.  The
numbers of `machines` are the smallest for which every action fires: a teleop timeout and
period of two, one unit of brake timeout, a corner with a dwell in a path of three.  All runs have
`CHECK_DEADLOCK FALSE`: the gate's process ends after a fatal error, and the
bounded environments run out of steps.

Properties in words are at their definitions.  The least obvious:

* `CommandBudget`: the senders increment `attempts` and never call `can_retry`;
  the failure handlers do.  That no command beyond the budget is ever sent
  is a fact about every path together.
* `OneCommandOutstanding`: the reservation made under the lock matches exactly
  one future of the current generation, so the gate neither waits for nothing
  nor commands twice.
* `PausedWhileRebuilding` and `EndsActive` exclude behaviours in which a command
  the reset could not recall was still moving nodes (`stray`).  This is a
  limit of the code, not of the model: see below.
* `ImplementsContract` under `TimedSpec`: even if no service ever answers.
* `ArmedOnlyWhenQuiet` is the comment at lines 547-549 of `reset_service.py`: no
  pose is armed while a stale call may still change an estimator or a costmap.
  It rests on the refusal of a new reset while futures of an old one are counted,
  and on `_finish` being reachable with an empty `errors` only through `_pending = 0`.
* `ResponseTruthful`: `success` is computed when the coroutine resumes, which
  may be after a later reset has begun; it still agrees with what was announced.
* `OneSeedPerEvent`, `SeedSeesTheTeleport`: the policy topic is repeated and late, the
  clock restarts, scans are delayed; neither a second pose nor one on an old scan.

* `PriorsOfThisRequest`: answers of Module2 outlive goals, are stored, and are sent again
  by every observation of an edge.
* `EveryGoalRouted`, `ServerInSync`: nothing repeats a call of the route server that failed, or that was not made because
  the server was not up.  If nothing fails and the servers and a pose are there when the goal comes (`Undisturbed`), a goal is routed without
  a word from Module2, by the deadline of `_on_goal` or at once in geometry-only mode.  After a failure only
  an answer of Module2 to a context that `_runtime_tick` publishes again makes it good (`Module2Answers`).  Where neither holds,
  as in geometry-only mode with a failed call, the goal stays as it is, and the properties claim nothing.
* `EvidenceOfThisEpoch`: the tracker compares receipts with the epoch, and stamps with the clock it has seen.  A sample that was taken
  before a reset and arrives after it counts only if its stamp is within twice the freshness of the simulator's time:
  once for the sample and once for the clock, unless the clock jumped since (`disturbed`).
* `GoalsOnRecord`, `NoFailureHidden`, `SkippedIsSealed`: between any two writes the process may
  die, directories are moved aside and counted again, goals go on without it.
* `StrictOrder`: a request that is given up is still executed; only the fact that it has
  used up the whole budget keeps the next manager from being asked.
* `OnTrackedEdge`: with the hysteresis the arc length is that of the earlier edge although
  the projection is nearer to a later one.
* `WindowIsStill` includes that the window rests on a second transform: `opening` is the stamp
  it began with.
* `RejectedIsCleared`: the update is two calls with a lock each, the callbacks run between them, and
  for the cognitive layer between the two statements of a reset too.  One update without an acceptable message clears the local
  layer; the cognitive layer needs two, since a reset between `useExtraBounds` and `updateBounds` leaves the first without bounds.
* `ScoresKeepTheCost`: `createPlanWithTieBreak` compares the costs and falls back if they differ (line 337);
  the property says that when both searches have expanded the goal's cell this test never fails.  A search that ends near the goal
  instead, after `MaxApproach` iterations within the tolerance, may have a cost that depends on the order of
  the scores, and the test is what keeps the promise.
* `FirstRoutesFound`: a spur search bans edges by the node prefix of the accepted routes, looks from the last
  route only and drops entries by node; nevertheless no loopless route that comes earlier is left out, ties
  included.
* `OneStack`, `StopIsServed`: requests of three kinds arrive in any number while traps, the ordered
  shutdown and three waits are under way.
* `NoJump`: a yield shifts the start of the motion so that the position is continuous, through dwells
  and repeated yields.

### Violations found

Each run checks one sentence of the repository that the code does not keep.

* `reset_while_verifying`: a reset that arrives after the manager reported
  success and before the verifying snapshot finds `_activated` false, no request
  in flight and no recovery, so it starts none (lines 263-269): the stack goes
  active on localization and costmaps of the old epoch.  `docs/interfaces.md`
  says that a reset after a successful STARTUP pauses, clears and reseeds.
* `pause_of_a_mixture`: a STARTUP that is under way while a reset is being handled
  leaves configured and unconfigured nodes.  The pause asks for a normalization
  towards `inactive`, for which there is no step: it sends nothing, counts nothing and backs
  off, snapshot after snapshot, although every node is down already.  `docs/interfaces.md` says that the gate normalizes a mixed
  stable state and uses at most three attempts.  What ends this is the deadline (`recovery_timeout`), which makes the gate fail.
* `teleop_promise`: the lease of 0.18 s is tested every 0.05 s, so a command stands for up to 0.23 s after the last key
  (0.30 s with values that the node accepts), where the help text of `keyboard_teleop.py` promises 0.20 s, a test names a
  0.20 s contract and `docs/user_manual.md` says 0.18 s.  `DeadMan` is what does hold: timeout plus one period.
* `route_goal_lost`: a new goal cancels the child action of the old one and forgets its
  handle, not its callback.  `_on_navigation_result` compares no identity, takes the cancelled
  result for the new goal's and retires the route.  `docs/rivermark_outdoor_demo.md:284` says that a
  click cancels the current goal and routes the new one.
* `parallel_corridors`: `apply_footprint_feasibility` caches the class of an edge by its pair of nodes.  Two
  corridors around an obstacle join the same junctions; the first is swept, and the second is feasible
  on its account.  `retain_largest_feasible_component` says that what it keeps was proven feasible.

Seen beside the runs.

* A query of the gate has no token.  An answer to a query that was abandoned (another node's `get_state`
  failed) is counted in the next query of the same generation: `SnapshotIsOneQuery` of `ActivationGate` is
  violated, though the docs call the snapshot atomic.
* With two corridors 1-2 and two 2-3, `k_shortest_loopless_routes` finds three of the four routes from 1 to 3:
  the edges are banned for every route with the same nodes, not with the same edges.  `FirstRoutesFound` speaks
  of graphs without such corridors.
* Without the exclusion of `stray`, `EndsActive` is violated
  for 3 nodes and 3 attempts, or 4, and holds for 3 nodes and 6 attempts,
  2 nodes and 3: a STARTUP interrupted by a reset can use up one normalization per
  node, so the default of 3 attempts is short for seven nodes.
* The window of stability of the transforms is ended by `missing_requirements` alone, so a gap
  in ticks that do not evaluate it goes by.  With `EveryTickEvaluates = TRUE` a window
  has no gap; in the gate the timer returns before it while querying, backing off or recovering.
* A snapshot equal to the baseline drops the candidate while `SetRouteGraph` is in flight; the answer
  is adopted, and `accept_rebuild` raises (`structural_updates.py:52`) after the graph was
  replaced.  A goal prepared between the two halves of an adoption may
  name an edge the new graph does not have.
* `observed_run_count` counts the summaries of directories that were moved aside, so a campaign
  can exhaust its attempts, or fail its contract, with every trial collected.  Without
  `fail_stop` an audit that finds a failure ends the script with status 5.
* `docs/module2_nav2_planning_risk_fusion.md:50` promises that the whole layer is cleared in the next cycle when a message has
  expired or is rejected.  `RejectedIsCleared` says so of the local layer, but for the cells in `stray`: a grid that arrives between the two
  locks of `LocalRiskGridLayer` (`updateBounds`, line 218, and `updateCosts`, line 365) is written into whatever window the
  other layers asked for, but `previous_bounds` does not cover it.  When the grid expires, the
  cells stay until another window reaches them.  Here the code deviates from the document; without the exclusion TLC
  finds the property violated.
* A supervisor that is killed leaves its launch group running in a session of its own, while its lock is
  released and `ros.pid` names its own group: `clean_runtime.sh` removes the file and the next supervisor
  starts a second stack.  A stop request before `launch_pid` is set (line 180) is
  swallowed.
* A collision in the last frame of a segment can arrive after `record_segment_end`, and one of an
  earlier segment after the reset of the next has been recorded: the trace keeps them by time only.

## 4. Fairness

`Spec` has none.  `TimedSpec` adds what the process itself guarantees: the
steady-clock timer fires every `check_period` whatever simulation time does
(weak fairness of `Tick`), and wall time passes (weak fairness of `BackoffElapses`
and `DeadlinePasses`).  This is all that "active or fatal in the end" rests on.
`PatientSpec` has the timer and a cooperative environment instead: inputs become ready, services appear,
every call is served and every answer delivered.  It says nothing of the deadline, which may
elapse at any moment or never; `EndsActive` speaks of the behaviours in which it does not.  `ResetBridge` assumes that the hooks of a reset run
on (they are a function that returns or raises) and that the main loop lets the steady
timer of an open transaction fire; of the called services and of the restart of the
simulation it assumes nothing, so `ImplementsContract` says that every reset ends even
if no call is ever answered.  `LifecycleRepair` has weak fairness of its
next-state relation: the gate's timer keeps snapshotting.  `RouteCoordinator` (`FairSpec`, and `SliceSpec`)
assumes that the timers fire, that a pose becomes known and the servers come up, and that the route server answers every call,
successfully or not; a failure counts against `MaxFaults`.  Of Module2 it assumes
nothing, not even that it exists: a lost context is no fault.  Where a property needs its answers it says so itself
(`Module2Answers`, weak fairness of `OnPriors`).  In `Machines` each part has its own: in
`TeleopLease` time passes and the simulator keeps running frames, of the teleop process
nothing is assumed; in `InitialPose` clock, scans and transforms keep coming and an acceptable scan
is not lost for ever (strong fairness: scans are frequent and a loss is not systematic); in
`RuntimeInstances` the supervisor goes on (RViz is waited for 3 s, the ordered shutdown has a timeout, each wait for
the group a number of attempts), of the launch group nothing is assumed but that `SIGKILL` ends it; the
others have none.  `MCResetBridge` weakens the fairness of the bridge to the bounded steps.

## 5. Proofs

A theorem holds for every value of the constants: any number of nodes, attempts, calls, faults,
resets, trials or cells.  It rests on the named assumptions of the module alone, which are what
the code validates or cannot help: `LifecyclePolicy`: N and MaxAttempts positive;
`ActivationGate`: the bounds are naturals, the seeding mode is one of the code's two; `ResetBridge`:
the labels of the two kinds of calls differ, the bounds are naturals, the tolerance is positive; `Machines`:
the teleop's timeout and period are positive, there is a manager to shut down, a corner lies on its path,
a segment of the diagnostics settles before and moves before it idles; `Readiness` and `Nav2Inputs`: the durations are naturals,
cells are integers; goals lie on the costmap, the tolerance is less than the largest float, and the iterations near the
goal are bounded by a positive number (`SmacPlanner2D` takes 0 or less for no bound); a graph has finitely many nodes
with numbers for ids, its chains join these nodes, no cost is negative, and a query asks for one route or more between
two nodes of the graph that differ.  TLC evaluates each of them in the runs.  One theorem has a hypothesis of its own,
see `PoseHoldsStill`.

### Gate

* `TypeCorrect`: `Spec => []TypeOK`, one lemma per handler.
* `Invariance`: `Spec => []IInv`.  `OneCommandOutstanding` and `CommandBudget` are
  not inductive.  The strengthening says: futures are told apart by their tokens
  and none is of a later generation (`FuturesDistinct`); whatever is in flight was
  asked for in the present stage, and a stage admits one context (`InStage`);
  a spent budget leaves no query out of which a command could come
  (`BudgetSpent`); and each stage presupposes the effects of the
  ones before it (`StepsDone`).  The same invariant is checked by `gate_faults`.
* `OneCommandAlways`, `BudgetKept`: two of its conjuncts.
* `StackHeldDown`: `PausedWhileRebuilding`.  The gate sees the nodes paused one by one and at different
  times, and enters `clear_global` on the last answer; that none of those seen down is up again by
  then needs the rest of `HeldDown`: before the resume, everything this generation has asked of the lifecycle
  manager or of a node takes nodes down (`OnlyDownwards`); so a node that has answered with a label
  that is not up is down as long as only this generation moves nodes, whether its answer has been counted
  or is on its way, and to whichever query (`SeenDown`).  An epoch event leaves no such answers.
* `RecoveryCompleted`: the action property, from `StepsDone` and from the fact that
  only a snapshot taken in the resume stages can make the gate active.
* `StaleInert`: by the guards of the answer handlers, and because no other
  step removes a future.
* `ContractSafety`: every step of the gate maps to a step of `RecoveryContract` or to none.  `PhaseStep` sorts the
  steps into those that leave mode and debt alone, discharge one step of the recovery, restart it, end it
  active, or give up; `InStage` says that a snapshot of one stage is never handled in another.
* `StopsLastActive`, `StartsFirstStopped`: what the two directions of
  `normalization_transition` return: nothing exactly when no node is active, or all are, and otherwise the step of
  the last active or the first stopped node.  By well-foundedness of the naturals.
* `RepairInOrder` (`DependencyOrder` of `LifecycleRepair`): from these two, for a snapshot that is
  one of the labels as they are, and for the manager's commands, which at any position have done the nodes at one end.

### Reset bridge

* `ResetInvariance`: `Spec => []IInv` of the bridge, for any sets of calls.  None of its
  properties is inductive: that an announced reset has no open call
  (`NoOpenCall`) needs to know that the transaction waits for each future whose
  `completed` is due (`FuturesCounted`), that a label has one future per reset
  (`FuturesDistinct`, from `SubmittedSoFar`: the two hooks queue different labels), and
  that no other generation has open futures.  `AnnouncedOrFailed` ties errors, events
  and responses together, `PlacedByClean` the robot's pose, and `ScansBehindBarrier` the
  scans in transit.  `ResetTypeCorrect`, `ArmedQuiet`, `Truthful` follow from it, and
  `SeedSafe` is the action property.
* `SeedCount`: an armed pose belongs to an announced reset that has not spent its
  seed; by the cardinality of the announced resets.
* `ContractSafety`: every step of the bridge maps to a step of `ResetContract` or
  to none.

### Campaign

`CampaignInv` is the invariant of the runner (`RunnerInv`) and of the script (`ScriptInv`); TLC agrees with it on
the instance of `nav2_inputs`.  A number names one directory (`Distinct`); the open directory is the last one made, and
has its receipt before a goal is sent (`OpenDirectory`); the goal of the leg is at Nav2 only while its answer is
awaited (`OwnGoal`); and the runner is off unless the script waits for it (`ScriptInv`).

* `GoalsAreRecorded`, `TrialsStayIsolated`, `CampaignIsHonest`: `GoalsOnRecord`, `FaultlessTrialEnded` and
  `NoFailureHidden`, conjuncts of the invariant, after a crash at any point.
* `ResumingSkipsSealed`, `ClosedEvidenceSurvives`: the action properties `SkippedIsSealed` and `EvidenceKept`.  A write touches only the
  directory with the last number, and this number is not given again after a crash.

`TrialCampaign_proofs` proves them of `TrialCampaign`; `Nav2Inputs_proofs`, which names them as here, has an instance of it, and
shows that the campaign in a behaviour of `Nav2Inputs` is one of `TrialCampaign` (`SameCampaign`, `CampaignSteps`).

### Route

* `OwnPriors`: `PriorsOfThisRequest`.  The priors that are kept answer the last request even after it has ended, and
  at most the last request is pending (`PriorsOfLastRequest`); every request to `DynamicEdges` was built from
  these two (`CallsOK`, the types of the calls).
* `Tracking` (in `Machines_proofs`): the tracked edge and the arc length agree (`OnTrackedEdge`), for any route
  of axis-parallel edges, any window, hysteresis and step back, and wherever the robot goes.  The
  invariant is inductive with the types of the two variables.

### What reaches Nav2

* `EvidenceIsCurrent`, `PoseHoldsStill`, `NoSpuriousEpochs`, from `ReadinessInv`.  What was received was received in
  this epoch and not in the future; its stamp is within the freshness of the clock that was seen; the clock that was seen is behind the simulator's by no more than
  the time that passed (`ClockFollows`), so that neither a lost nor a late sample looks like a jump; and an
  open window has a pose within the tolerance of its anchor, and a transform later than the one that
  opened it unless it was opened just now (`Window`).  That a verdict rests on a second transform
  needs `FreshnessTimeout < TfStableDuration`, the hypothesis of `PoseHoldsStill`: a single transform that stays fresh
  for a whole window would do otherwise.  The code demands only that both are positive;
  `activation_gate.yaml` has 0.50 and 1.00.
* `RejectedRiskIsCleared`: `RejectedIsCleared`, from `RiskInv`: which cells an update has left where, in terms of the
  box the layer remembers, the window of the update and the lock that is held.

### The two searches

Both theorems speak of all paths of a graph, which suggests an induction over paths.  It is avoided: what is said of a path is said of a number
or a set instead, and the only induction used is that a set of naturals has a least element (`LeastNatural`).

`ScoresNeverChangeTheCost`: `ScoresKeepTheCost`, for any costmap, goal, fee, tolerance and limit of iterations, and
whatever cells the prior scores.

* The cost of the cheapest path is defined without paths (`LeastCost`): a *potential* rises along a step by no more than the step
  costs, so no path can be cheaper than what a potential has at the goal, and the highest potential has the least cost there.
  There is one least cost (`OneLeastCost`), it depends on the costmap alone (`SamePotentials`), and if both searches find it they agree.
* `SearchInv` is the invariant of one search: a queued cell is queued with its cost (`QueueOK`), what was expanded was
  expanded in the order of the f-costs, all its neighbours included (`VisitedOK`), and no cost is below a potential
  (`CostsOK`).  That a closed cell need not be opened again rests on the heuristic: it falls along a step by no more than the
  step costs (`Consistent`, from `StraightStep` and `DiagonalStep`).  Nothing is assumed of the heuristic at the goal's cell, which is the distance from its corner to the point
  of the goal.
* When the goal's cell is taken from the queue, the costs that were found, each capped by what the heuristic leaves of the f-cost
  of the goal, are a potential (`GoalIsCheapest`): so the goal's cost is that of the cheapest path.  The tie break decides among entries of one f-cost alone, and nothing above depends on it (`TopIsLeast`).

`FirstRoutesAreFound`: `FirstRoutesFound`, for any graph, costs, query and number of routes, where no two chains join the same
nodes.  `RouteGraph_proofs` proves it of `RouteGraph` (`FirstRoutes`); `Nav2Inputs_proofs` has an instance of that module and shows that
the two say the same (`SameGraph`, `SameSteps`, `SameProperty`).

* The cost of a route is the last value of a recursive function.  `CostIs` says what the function is, `AllNaturals` is
  induction for a set of naturals, and from these come `PartOfPath` and `JoinOfPaths`: the cost of a part, and of two paths in a row.
* `Searching`, of one search: every entry is a way from its source that avoids what is banned; what was reached was reached by a way; and of every
  cheapest way to the goal a part is in the heap.  When the heap's first entry is thrown away because its node was
  reached at less cost, it cannot have been part of a cheapest way: the cheaper beginning and the rest, with its loop left out, would
  make a cheaper one (`Shortcut`).  So the first entry at the goal is the first of all ways (`ArrivedIsFirst`), ties included, and
  an empty heap means that there is none (`NothingFound`).
* `Yen`, of the rounds: the accepted routes are in order and come before every other, and every route that is left
  is `Covered`.  It leaves the accepted ones after some number of its nodes, and there either a spur of the last route is still
  to come, or a candidate leaves that is this route or comes before it.  This is why each round need look for deviations from the last route
  only: the other places were covered in earlier rounds, and the candidate that covered them is still there.  When it is accepted itself,
  whatever it covered leaves it later, at a spur of the next round (`SelectStep`).
* `RoutesAreAll`: `Routes`, as the property defines it, is every loopless path from start to goal, since none has more nodes than there are.

### The other machines

Each has an invariant of its own in `Machines_proofs`; a step of another part leaves it alone.

* `ShutdownTruthful`, `ShutdownInOrder` (`TruthfulResult`, `StrictOrder`): while time is left no earlier manager is still
  stopping, since whoever gives a request up has used up the budget of all.
* `SingleStack` (`OneStack`): a launch group that is alive belongs to the supervisor that runs, between its start and
  the end of its waits, or to one that was killed.
* `DeadManSwitch` (`DeadMan`): what is left of the lease and of the period bounds the age of the
  last motion key.
* `ClearBeforeMotion` (`MovesInClearedSegment`): the phases of a segment, its clock and its preflight.
* `ActorNeverJumps` (`NoJump`): a yield shifts the start of the motion so that the position by the clock is the
  one it stands at, also within the dwell.

### Only model-checked, and why

* Everything temporal beyond invariance: `EndsActive`, `Repaired`, `EveryGoalRouted`, `ServerInSync`,
  `StopsWithoutTeleop`, `SequenceEnds`, `StopIsServed`, and the liveness of both `ImplementsContract`.  The provers here
  have no treatment of fairness.
* The violations.  Every invariant and every action property of a passing run is proved.

## 6. Plan

Done: the gate, its policy, its contract and its readiness; the reset bridge and
its contract; the route coordinator and its tracker; the initial pose; the
shutdown; teleop and brake; obstacles; the trial runner with its campaign; the
free-space diagnostics; the risk layers, the planner plugin, the route graph and the supervisor; proofs of every
safety property, the two searches among them.  Next, in this order:

1. An invariant of `RouteCoordinator` about the tracker, the computation it came from and the child action, to be
   found with TLC first.
2. Composition of the reset bridge and the gate through `ResetContract` and
   `RecoveryContract`: the event reaches the gate after the calls it must follow.
3. A rule for graphs with two chains between the same nodes, where `FirstRoutesFound` does not hold: which routes are lost.

## 7. Not modelled, and why

Route geometry (the skeleton, sweeps and costs of chains), map processing, the SLAM solver,
perception and odometry filters are sequential numeric code with unit tests.  Of the experiments
the other campaign scripts and the profilers are offline orchestration and statistics
over the evidence `TrialRunner` models.  The RViz panel,
launch descriptions, scenario files and bringup contracts are interface or validation of text.
The set-up of the simulator and the diagnostics other than the free-space ones call Isaac Sim.
Of the dynamic obstacles the actors without a case are left out: their position is a
linear function of time.  Of the trial runner the metrics, samples and snapshots are left out: the
model keeps what the summary says about them and when they are written.
Of the risk layers the shadow mode, which writes no cost, and the size of a cost are left
out; the auditor and the observer layer of the same package only count and publish.
`equalCostSearch` of the planner plugin is used by its tests alone, and the panel of RViz is
derived from Nav2's.  Of the scripts `run_teleop.sh` and `run_isaac.sh` are left out: the ownership
of `/cmd_vel` between teleop and navigation rests on one look of each process at the other before
either has started, which no model is needed to see through.
