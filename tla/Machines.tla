-------------------------------- MODULE Machines --------------------------------
(***************************************************************************)
(* The small machines of the repository side by side.  They are processes  *)
(* that share no state with each other, so a behaviour is one of one       *)
(* machine: part says which, and the others stay in their initial states.  *)
(* Each machine is a module of its own, and its constants are constants    *)
(* here; its properties are repeated here for its part.                    *)
(***************************************************************************)
EXTENDS LifecycleRepair, RouteTracker

CONSTANTS
  Timeout, Period, BrakeTimeout, MinSpeed, MaxSpeed, DefaultSpeed,     \* TeleopLease
  PublishCount, Tolerance, MaxAge, MaxRearms,                          \* InitialPose
  Steps, Budget,                                                       \* OrderedShutdown
  Length, Corner, Dwell, Delay, Parks, ByTrigger, MaxTime, MaxResets,  \* Obstacles
  Segments, Settle, Idle, Duration, MaxFrames, MaxInFlight,            \* DiagnosticRun
  MaxRuns, MaxKills                                                    \* RuntimeInstances

\* The teleop's parameters are validated to be positive.
ASSUME TeleopAssumption ==
  /\ Timeout \in Nat \ {0} /\ Period \in Nat \ {0} /\ BrakeTimeout \in Nat
  /\ {MinSpeed, MaxSpeed, DefaultSpeed} \subseteq Nat
\* shutdown_steps is never empty, and the timeout may be used up at once.
ASSUME ShutdownAssumption == Steps \in Nat \ {0} /\ Budget \in Nat
\* A corner lies on the path.
ASSUME ObstacleAssumption ==
  /\ Length \in Nat /\ Corner \in 0..Length /\ Dwell \in Nat /\ Delay \in Nat
\* R2C1Script: a segment settles, moves and idles for a while before it ends.
ASSUME DiagnosticAssumption ==
  Settle \in Nat \ {0} /\ Idle \in Nat /\ Duration \in Nat /\ Idle < Duration
ASSUME RuntimeAssumption == MaxRuns \in Nat /\ MaxKills \in Nat

VARIABLES
  part,
  (* TeleopLease *)
  teleop, lease, teleopCommand, speed, untilTick, sinceKey, published, undelivered, twist,
  heardAge, active, driven,
  (* InitialPose *)
  manual, complete, failure, sentPoses, timerOn, ready, barrier, clockAge, clockSeen, tfKnown,
  scansOut, inputs,
  (* OrderedShutdown *)
  stepOf, stage, budget, stepBudget, overall, service,
  (* Obstacles *)
  actor, retired, enabled, gateAt, motionAt, yieldAt, actorPosition, simNow, updatedAt,
  resets,
  (* DiagnosticRun *)
  r2c3, armed, run, at, frame, segment, reset, busy, running, elapsed, preflighted, cleared,
  moving, contexts, inFlight,
  (* RuntimeInstances *)
  rosRun, rosAt, asked, forced, handler, pending, leader, rest, recorded, cleaner, cleaned, killed

\* The route of RouteTracker turns back and comes close to itself.
TurningFrom == [e \in 0..3 |-> <<<<0, 0>>, <<3, 0>>, <<3, 1>>, <<1, 1>>>>[e + 1]]
TurningTo == [e \in 0..3 |-> <<<<3, 0>>, <<3, 1>>, <<1, 1>>, <<1, 3>>>>[e + 1]]
TurningOffsets == [i \in 0..4 |-> <<0, 3, 4, 6, 8>>[i + 1]]
TurningPositions == (0..3) \X (0..3)

Teleop == INSTANCE TeleopLease WITH command <- teleopCommand
Pose == INSTANCE InitialPose
Shutdown == INSTANCE OrderedShutdown
Obstacle == INSTANCE Obstacles WITH state <- actor, position <- actorPosition
Diagnostic == INSTANCE DiagnosticRun
Runtime == INSTANCE RuntimeInstances WITH run <- rosRun, at <- rosAt

Parts == {"tracker", "repair", "teleop", "pose", "shutdown", "obstacle", "diagnostic", "runtime"}

teleopVars == <<teleop, lease, teleopCommand, speed, untilTick, sinceKey, published, undelivered,
                twist, heardAge, active, driven>>
poseVars == <<manual, complete, failure, sentPoses, timerOn, ready, barrier, clockAge, clockSeen,
              tfKnown, scansOut, inputs>>
shutdownVars == <<stepOf, stage, budget, stepBudget, overall, service>>
obstacleVars == <<actor, retired, enabled, gateAt, motionAt, yieldAt, actorPosition, simNow,
                  updatedAt, resets>>
diagnosticVars == <<r2c3, armed, run, at, frame, segment, reset, busy, running, elapsed,
                    preflighted, cleared, moving, contexts, inFlight>>
runtimeVars == <<rosRun, rosAt, asked, forced, handler, pending, leader, rest, recorded, cleaner,
                 cleaned, killed>>
machinesVars ==
  <<part, vars, trackerVars, teleopVars, poseVars, shutdownVars, obstacleVars,
    diagnosticVars, runtimeVars>>

\* The machines that have several initial states stay in one while they are idle.
MachinesInit ==
  /\ part \in Parts
  /\ Init /\ (part # "repair" => states = [n \in Node |-> "active"] /\ target = "active")
  /\ TrackerInit /\ Teleop!Init /\ Pose!Init
  /\ Shutdown!Init /\ (part # "shutdown" => service = [s \in 1..Steps |-> "idle"])
  /\ Obstacle!Init
  /\ Runtime!Init
  /\ Diagnostic!DiagnosticInit /\ (part # "diagnostic" => r2c3 /\ armed /\ busy)

Only(name) ==
  /\ part = name /\ UNCHANGED part
  /\ name # "repair" => UNCHANGED vars
  /\ name # "tracker" => UNCHANGED trackerVars
  /\ name # "teleop" => UNCHANGED teleopVars
  /\ name # "pose" => UNCHANGED poseVars
  /\ name # "shutdown" => UNCHANGED shutdownVars
  /\ name # "obstacle" => UNCHANGED obstacleVars
  /\ name # "diagnostic" => UNCHANGED diagnosticVars
  /\ name # "runtime" => UNCHANGED runtimeVars

MachinesNext ==
  \/ Only("repair") /\ Next
  \/ Only("tracker") /\ TrackerNext
  \/ Only("teleop") /\ Teleop!Next
  \/ Only("pose") /\ Pose!Next
  \/ Only("shutdown") /\ Shutdown!Next
  \/ Only("obstacle") /\ Obstacle!Next
  \/ Only("diagnostic") /\ Diagnostic!DiagnosticNext
  \/ Only("runtime") /\ Runtime!Next

\* The fairness of each machine, for its part.
MachinesSpec ==
  /\ MachinesInit /\ [][MachinesNext]_machinesVars
  /\ WF_vars(Only("repair") /\ Next)
  /\ WF_teleopVars(Only("teleop") /\ Teleop!Pass)
  /\ WF_teleopVars(Only("teleop") /\ Teleop!Frame(FALSE))
  /\ WF_teleopVars(Only("teleop") /\ Teleop!Frame(TRUE))
  /\ WF_poseVars(Only("pose") /\ Pose!ClockMessage(FALSE))
  /\ WF_poseVars(Only("pose") /\ Pose!Advance)
  /\ WF_poseVars(Only("pose") /\ Pose!TakeScan)
  /\ WF_poseVars(Only("pose") /\ Pose!TransformArrives)
  /\ SF_poseVars(Only("pose") /\ Pose!AcceptedScan)
  /\ WF_poseVars(Only("pose") /\ (\E late \in BOOLEAN : Pose!PublishTick(late)))
  /\ WF_runtimeVars(Only("runtime") /\ Runtime!Supervisor)

-------------------------------------------------------------------------------
\* The dead man's switch of TeleopLease: a command that moves the robot is on
\* /cmd_vel no longer than the timeout and one period after the last motion key.
DeadMan == Teleop!DeadMan

\* TeleopLease: when the teleop process is gone, however it ended, the idle
\* brake stops the wheels for good.
StopsWithoutTeleop == part = "teleop" /\ teleop = "gone" ~> [](~driven)

\* InitialPose: the sequence ends, whatever rearms it and is lost.
SequenceEnds == part = "pose" /\ ~complete ~> complete

\* OrderedShutdown: no manager is asked to shut down while an earlier one is
\* still carrying out its request.
StrictOrder == Shutdown!StrictOrder

\* OrderedShutdown: success means that every manager did shut down.
TruthfulResult == Shutdown!TruthfulResult

\* Obstacles: the actor never jumps, whatever it yields, dwells and resumes.
NoJump == Obstacle!NoJump

\* DiagnosticRun: the robot moves only in a segment whose envelope was found
\* clear after its own reset, and is told to stop before the next one.
MovesInClearedSegment == Diagnostic!MovesInClearedSegment

\* RuntimeInstances: a supervisor that was not killed leaves nothing of its
\* launch group behind, so two ROS stacks never run at once.
OneStack == Runtime!OneStack

\* RuntimeInstances: a supervisor that was asked to stop ends, whatever the
\* group ignores.
StopIsServed == part = "runtime" /\ asked /\ rosAt # "off" ~> rosAt = "off"
=============================================================================
