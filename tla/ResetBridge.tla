------------------------------ MODULE ResetBridge ------------------------------
(***************************************************************************)
(* The reset transaction of the simulator (bridge/reset_service.py with    *)
(* robot/reset.py).  One thread runs everything: the main loop updates the *)
(* simulation and then spins the node once, so a callback is atomic, and   *)
(* the hooks of a reset run to their end inside the callback that started  *)
(* it.  What comes in between are the answers of the called services, the  *)
(* two done-callbacks of each answered future (rclpy runs them as tasks,   *)
(* in either order), the steady timer, scans, the pose policy and the end  *)
(* of the process.  Simulation time is counted in scan periods.            *)
(***************************************************************************)
EXTENDS Integers, FiniteSets

CONSTANTS OdometryCalls,   \* labels of the calls queued by reset_ros_odometry
          CostmapCalls,    \* labels of the calls queued by clear_costmaps
          Localization,    \* navigation_mode is "localization"
          Tolerance,       \* clock_scan_tolerance_s
          MaxGeneration,   \* bound: transactions
          MaxTime,         \* bound: simulation time
          MaxEpoch,        \* bound: restarts of the simulator's clock
          MaxScans         \* bound: scans in transit

ASSUME LabelAssumption == OdometryCalls \cap CostmapCalls = {}
ASSUME ModeAssumption == Localization \in BOOLEAN
ASSUME ToleranceAssumption == Tolerance \in Nat \ {0}
ASSUME BoundAssumption ==
  MaxGeneration \in Nat /\ MaxTime \in Nat /\ MaxEpoch \in Nat /\ MaxScans \in Nat

Labels == OdometryCalls \cup CostmapCalls

VARIABLES
  generation,   \* _transaction_generation
  active,       \* _active_transaction is set
  closed,       \* _closed
  pc,           \* the hook ResetManager.reset is at, "idle" outside of it
  tx,           \* the last transaction: pose (initial_pose_name is set),
                \* sealed, finished, waiting (calls its _pending counts)
  failed,       \* generations whose transaction has recorded an error
  futures,      \* submitted calls until both done-callbacks have run
  awaiting,     \* generations whose service callback awaits completion
  replies,      \* the Trigger response of each generation
  source,       \* _initial_pose_source
  deferred,     \* _deferred_initial_pose_name is set
  barrier,      \* _after_stamp_s, None unless the republisher is pending
  sim,          \* the simulation clock
  epoch,        \* how often the simulation clock was restarted
  scans,        \* /scan messages on their way
  placed,       \* history: the generation that last teleported the robot
  events,       \* history: generations announced on reset_event
  seeds         \* history: initial poses published

txVars == <<generation, active, tx, failed, futures>>
poseVars == <<source, deferred, barrier, seeds>>
simVars == <<sim, epoch, scans>>
vars == <<txVars, closed, pc, awaiting, replies, poseVars, simVars, placed, events>>

None == -1

Init ==
  /\ generation = 0 /\ active = FALSE /\ closed = FALSE /\ pc = "idle"
  /\ tx = [pose |-> FALSE, sealed |-> TRUE, finished |-> TRUE, waiting |-> {}]
  /\ failed = {} /\ futures = {}
  /\ awaiting = {} /\ replies = [g \in 1..MaxGeneration |-> "none"]
  /\ source = "none" /\ deferred = FALSE /\ barrier = None /\ seeds = 0
  /\ sim = 0 /\ epoch = 0 /\ scans = {}
  /\ placed = 0 /\ events = {}

\* The main loop raises when the startup reset has failed, and spins no more.
StartupFailed == tx.finished /\ 1 \in failed

Spinning == ~closed /\ pc = "idle" /\ generation > 0 /\ ~StartupFailed

-------------------------------------------------------------------------------
(* The initial pose: policy and republisher *)

\* Mutant of ArmPolicy: the deferred pose is not consumed.
ArmPolicyAgain(policy, pending) ==
  /\ deferred' = (pending /\ policy # "rviz")
  /\ barrier' = CASE policy = "rviz" -> None
                  [] policy = "auto" /\ pending -> sim
                  [] OTHER -> barrier

\* _apply_initial_pose_policy, with schedule.
ArmPolicy(policy, pending) ==
  /\ deferred' = (pending /\ policy = "none")
  /\ barrier' = CASE policy = "rviz" -> None
                  [] policy = "auto" /\ pending -> sim
                  [] OTHER -> barrier

\* cancel, and the deferred name forgotten with it.
CancelPose == deferred' = FALSE /\ barrier' = None

SourcePolicy(policy) ==
  /\ Spinning
  /\ source' = policy
  /\ ArmPolicy(policy, deferred)
  /\ UNCHANGED <<txVars, closed, pc, awaiting, replies, seeds, simVars, placed, events>>

\* Mutant of Accepted: a scan of the barrier's own instant will do.
AcceptedAtBarrier(scan, after) ==
  scan.stamp >= after /\ scan.stamp - sim <= Tolerance /\ sim - scan.stamp <= Tolerance

\* What observe_scan asks of a scan, after is the barrier.
Accepted(scan, after) ==
  scan.stamp > after /\ scan.stamp - sim <= Tolerance /\ sim - scan.stamp <= Tolerance

\* _scan_callback: a clock that went back lowers the barrier; the first
\* acceptable scan publishes the pose (publish_count is 1) and disarms.
ObserveScan(scan) ==
  /\ Spinning
  /\ scans' = scans \ {scan}
  /\ IF barrier = None
     THEN UNCHANGED <<barrier, seeds>>
     ELSE LET after == IF sim < barrier THEN sim ELSE barrier IN
          IF Accepted(scan, after) THEN seeds' = seeds + 1 /\ barrier' = None
                                   ELSE barrier' = after /\ UNCHANGED seeds
  /\ UNCHANGED <<txVars, closed, pc, awaiting, replies, source, deferred, sim, epoch,
                 placed, events>>

-------------------------------------------------------------------------------
(* The transaction *)

\* Mutant of FinishTransaction: the event published before the errors are
\* looked at.
FinishAnnouncing(t, errors) ==
  /\ active' = FALSE
  /\ tx' = [t EXCEPT !.finished = TRUE]
  /\ failed' = errors
  /\ events' = events \cup {generation}
  /\ IF generation \in errors THEN CancelPose
     ELSE IF t.pose THEN ArmPolicy(source, TRUE) ELSE UNCHANGED <<deferred, barrier>>

\* _finish and _finish_transaction, with the errors recorded so far.
FinishTransaction(t, errors) ==
  /\ active' = FALSE
  /\ tx' = [t EXCEPT !.finished = TRUE]
  /\ failed' = errors
  /\ IF generation \in errors
     THEN CancelPose /\ UNCHANGED events
     ELSE /\ events' = events \cup {generation}
          /\ IF t.pose THEN ArmPolicy(source, TRUE) ELSE UNCHANGED <<deferred, barrier>>

\* _finish_if_ready.
FinishIfReady(t, errors) ==
  IF t.sealed /\ t.waiting = {}
  THEN FinishTransaction(t, errors)
  ELSE /\ tx' = t /\ failed' = errors
       /\ UNCHANGED <<active, deferred, barrier, events>>

\* Mutant of CanStart: the futures of a timed-out reset are not waited for.
CanStartOverPending == ~closed /\ ~active
CanStart == ~closed /\ ~active /\ \A f \in futures : ~f.counted

\* Mutant of Disarm: the pose of the previous reset stays armed.
DisarmDeferredOnly == deferred' = FALSE /\ UNCHANGED barrier
Disarm == CancelPose

\* start_reset up to the call of ResetManager.reset; a refused request
\* changes nothing.
StartReset ==
  /\ CanStart /\ pc = "idle"
  /\ generation < MaxGeneration
  /\ Disarm
  /\ generation' = generation + 1
  /\ active' = TRUE
  /\ tx' = [pose |-> FALSE, sealed |-> FALSE, finished |-> FALSE, waiting |-> {}]
  /\ pc' = "validate"
  /\ UNCHANGED <<failed, futures, closed, replies, source, seeds, simVars, placed, events>>

\* The main loop resets once before it spins; nobody awaits that one.
StartupReset == generation = 0 /\ StartReset /\ UNCHANGED awaiting

\* _reset_callback: the coroutine then awaits the completion.
ResetRequested ==
  /\ Spinning /\ StartReset
  /\ awaiting' = awaiting \cup {generation'}

-------------------------------------------------------------------------------
(* ResetManager.reset, hook by hook; the poses and sinks are not modelled *)

InHook(hook) == pc = hook /\ ~closed

RestUnchanged == UNCHANGED <<closed, awaiting, replies, source, seeds>>

Fail == failed' = failed \cup {generation}

Validate ==
  /\ InHook("validate")
  /\ \/ pc' = "odometry" /\ UNCHANGED failed
     \/ pc' = "seal" /\ Fail
  /\ UNCHANGED <<generation, active, tx, futures, deferred, barrier, simVars, placed, events>>
  /\ RestUnchanged

\* _queue_service_call for each label: an unavailable service is skipped, a
\* call that raises at once is an error, the others are submitted.
QueueCalls(labels) ==
  \E submitted \in SUBSET labels : \E raised \in SUBSET (labels \ submitted) :
    /\ futures' = futures \cup
         {[label |-> l, generation |-> generation, answer |-> "none",
           counted |-> TRUE, due |-> TRUE] : l \in submitted}
    /\ tx' = [tx EXCEPT !.waiting = @ \cup submitted]
    /\ IF raised = {} THEN UNCHANGED failed ELSE Fail

ResetOdometry ==
  /\ InHook("odometry") /\ pc' = "costmaps"
  /\ QueueCalls(OdometryCalls)
  /\ UNCHANGED <<generation, active, deferred, barrier, simVars, placed, events>>
  /\ RestUnchanged

ClearCostmaps ==
  /\ InHook("costmaps") /\ pc' = "step"
  /\ QueueCalls(CostmapCalls)
  /\ UNCHANGED <<generation, active, deferred, barrier, simVars, placed, events>>
  /\ RestUnchanged

Step ==
  /\ InHook("step") /\ pc' = "teleport"
  /\ sim' \in {sim, sim + 1} /\ sim' <= MaxTime
  /\ UNCHANGED <<txVars, deferred, barrier, epoch, scans, placed, events>>
  /\ RestUnchanged

\* apply_usd_pose, then publish_map_initial_pose in localization.
Teleport ==
  /\ InHook("teleport") /\ pc' = "play"
  /\ placed' = generation
  /\ tx' = [tx EXCEPT !.pose = Localization]
  /\ UNCHANGED <<generation, active, failed, futures, deferred, barrier, simVars, events>>
  /\ RestUnchanged

\* A hook raises: the rest is skipped but for the resume of the timeline.
HookFails ==
  /\ pc \in {"odometry", "costmaps", "step", "teleport"} /\ ~closed
  /\ pc' = "play" /\ Fail
  /\ placed' \in {placed} \cup (IF pc = "teleport" THEN {generation} ELSE {})
  /\ UNCHANGED <<generation, active, tx, futures, deferred, barrier, simVars, events>>
  /\ RestUnchanged

\* One update of the application: time may pass and a scan may be taken.
UpdateApplication ==
  /\ sim' \in {sim, sim + 1} /\ sim' <= MaxTime
  /\ \/ UNCHANGED scans
     \/ /\ Cardinality(scans) < MaxScans
        /\ scans' = scans \cup {[stamp |-> sim', placed |-> placed, epoch |-> epoch]}
  /\ UNCHANGED epoch

Play ==
  /\ InHook("play") /\ pc' = "seal"
  /\ UpdateApplication
  /\ UNCHANGED failed \/ Fail
  /\ UNCHANGED <<generation, active, tx, futures, deferred, barrier, placed, events>>
  /\ RestUnchanged

Seal ==
  /\ InHook("seal") /\ pc' = "idle"
  /\ FinishIfReady([tx EXCEPT !.sealed = TRUE], failed)
  /\ UNCHANGED <<generation, futures, simVars, placed>>
  /\ RestUnchanged
-------------------------------------------------------------------------------
(* Callbacks while a transaction waits *)

\* A called service answers, or its client raises: the future is done.
Answer(f, answer) ==
  /\ Spinning /\ f.answer = "none"
  /\ futures' = (futures \ {f}) \cup {[f EXCEPT !.answer = answer]}
  /\ UNCHANGED <<generation, active, tx, failed, closed, pc, awaiting, replies, poseVars,
                 simVars, placed, events>>

\* The task of one done-callback of f has run, g is what is left of it.
Consume(f, g) == futures' = (futures \ {f}) \cup (IF g.counted \/ g.due THEN {g} ELSE {})

\* The done-callback of _queue_service_call.
Discard(f) ==
  /\ Spinning /\ f.answer # "none" /\ f.counted
  /\ Consume(f, [f EXCEPT !.counted = FALSE])
  /\ UNCHANGED <<generation, active, tx, failed, closed, pc, awaiting, replies, poseVars,
                 simVars, placed, events>>

\* The done-callback of add_call; a transaction that is not the last one has
\* finished, since it was active until then.
Completed(f) ==
  /\ Spinning /\ f.answer # "none" /\ f.due
  /\ Consume(f, [f EXCEPT !.due = FALSE])
  /\ IF f.generation # generation \/ tx.finished
     THEN UNCHANGED <<active, tx, failed, deferred, barrier, events>>
     ELSE FinishIfReady([tx EXCEPT !.waiting = @ \ {f.label}],
                        IF f.answer = "error" THEN failed \cup {generation} ELSE failed)
  /\ UNCHANGED <<generation, pc, simVars, placed>>
  /\ RestUnchanged

\* The steady timer of the transaction, which ends it whatever is open.
Timeout ==
  /\ Spinning /\ ~tx.finished
  /\ FinishTransaction(tx, failed \cup {generation})
  /\ UNCHANGED <<generation, futures, pc, simVars, placed>>
  /\ RestUnchanged

\* _reset_callback resumes after completion.
Respond(g) ==
  /\ Spinning /\ g \in awaiting /\ (g = generation => tx.finished)
  /\ awaiting' = awaiting \ {g}
  /\ replies' = [replies EXCEPT ![g] = IF g \in failed THEN "failure" ELSE "success"]
  /\ UNCHANGED <<txVars, closed, pc, poseVars, simVars, placed, events>>

\* close, at the end of the main loop or after an interrupt inside a hook:
\* the open futures are cancelled and nothing is spun any more.
Close ==
  /\ ~closed /\ closed' = TRUE /\ pc' = "idle"
  /\ IF active
     THEN FinishTransaction(tx, failed \cup {generation})
     ELSE CancelPose /\ UNCHANGED <<active, tx, failed, events>>
  /\ futures' = {}
  /\ UNCHANGED <<generation, awaiting, replies, source, seeds, simVars, placed>>

-------------------------------------------------------------------------------
(* The simulator (external) *)

Simulate ==
  /\ Spinning
  /\ UpdateApplication
  /\ UNCHANGED <<txVars, closed, pc, awaiting, replies, poseVars, placed, events>>

\* The timeline is stopped and started: simulation time begins again.
RestartClock ==
  /\ Spinning /\ epoch < MaxEpoch
  /\ sim' = 0 /\ epoch' = epoch + 1
  /\ UNCHANGED <<txVars, closed, pc, awaiting, replies, poseVars, scans, placed, events>>

LoseScan(scan) ==
  /\ scans' = scans \ {scan}
  /\ UNCHANGED <<txVars, closed, pc, awaiting, replies, poseVars, sim, epoch, placed, events>>

-------------------------------------------------------------------------------
Hook == Validate \/ ResetOdometry \/ ClearCostmaps \/ Step \/ Teleport \/ HookFails
          \/ Play \/ Seal

Next ==
  \/ StartupReset \/ ResetRequested \/ Hook \/ Timeout \/ Close
  \/ \E f \in futures : Answer(f, "ok") \/ Answer(f, "error") \/ Discard(f) \/ Completed(f)
  \/ \E g \in awaiting : Respond(g)
  \/ \E policy \in {"auto", "rviz"} : SourcePolicy(policy)
  \/ \E scan \in scans : ObserveScan(scan) \/ LoseScan(scan)
  \/ Simulate \/ RestartClock

\* The hooks run on, the main loop spins and its steady timer fires: nothing
\* is assumed of the services that were called.
Spec == Init /\ [][Next]_vars /\ WF_vars(Hook) /\ WF_vars(Timeout)

-------------------------------------------------------------------------------
(* Properties *)

Transaction ==
  [pose : BOOLEAN, sealed : BOOLEAN, finished : BOOLEAN, waiting : SUBSET Labels]
Scan == [stamp : 0..MaxTime, placed : 0..MaxGeneration, epoch : 0..MaxEpoch]
Future == [label : Labels, generation : 1..MaxGeneration,
           answer : {"none", "ok", "error"}, counted : BOOLEAN, due : BOOLEAN]

TransactionTypes ==
  /\ generation \in 0..MaxGeneration /\ active \in BOOLEAN
  /\ tx \in Transaction
  /\ failed \subseteq 1..MaxGeneration /\ futures \subseteq Future
LoopTypes ==
  /\ closed \in BOOLEAN
  /\ pc \in {"idle", "validate", "odometry", "costmaps", "step", "teleport", "play", "seal"}
  /\ awaiting \subseteq 1..MaxGeneration
  /\ replies \in [1..MaxGeneration -> {"none", "success", "failure"}]
  /\ placed \in 0..MaxGeneration /\ events \subseteq 1..MaxGeneration
PoseTypes ==
  /\ source \in {"none", "auto", "rviz"} /\ deferred \in BOOLEAN
  /\ barrier \in {None} \cup 0..MaxTime /\ seeds \in Nat
  /\ sim \in 0..MaxTime /\ epoch \in 0..MaxEpoch /\ scans \subseteq Scan

\* A transaction is active exactly until it is marked finished, and no
\* callback runs while a hook does.
Phases ==
  /\ active <=> ~tx.finished
  /\ active => generation > 0
  /\ pc # "idle" => active /\ ~tx.sealed

\* The type of every variable, with the phases of a transaction.
TypeOK == TransactionTypes /\ LoopTypes /\ PoseTypes /\ Phases

Outstanding == \E f \in futures : f.answer = "none"

\* "do not arm an initial pose while stale reset calls may still mutate
\* wheel/EKF/costmap state" (lines 547-549): while a pose waits to be
\* published the last reset has been announced, it has moved the robot, no
\* call of any reset is open, and the operator has not claimed the pose.
ArmedOnlyWhenQuiet ==
  (deferred \/ barrier # None) =>
    /\ ~active /\ ~Outstanding
    /\ generation \in events /\ placed = generation
    /\ source # "rviz"

\* At most one automatic pose per announced reset, whatever the policy topic
\* says again and however often the clock restarts.
OneSeedPerEvent ==
  seeds + (IF deferred \/ barrier # None THEN 1 ELSE 0) <= Cardinality(events)

\* A request is answered with success exactly when its reset was announced,
\* and an announced reset moved the robot: also if a later reset has begun or
\* a late answer has come in before the response is written.
ResponseTruthful ==
  \A g \in 1..MaxGeneration :
    replies[g] # "none" => (replies[g] = "success" <=> g \in events)

\* The pose is published on a scan of the robot where the last reset put it,
\* never on one that was on its way then; only a restarted clock can make an
\* older scan look new, and then not beyond the tolerance ahead of the clock.
SeedSeesTheTeleport ==
  [][seeds' > seeds =>
       \A scan \in scans \ scans' :
         \/ scan.placed = placed
         \/ scan.epoch # epoch /\ scan.stamp - sim <= Tolerance]_vars

Contract == INSTANCE ResetContract WITH
  turn <- generation, running <- active, outstanding <- Outstanding, epochs <- events

\* The transaction implements ResetContract, liveness included.
ImplementsContract == Contract!Spec
=============================================================================
