----------------------------- MODULE Machines_proofs -----------------------------
(***************************************************************************)
(* The safety properties of the small machines, for every value of their   *)
(* constants.  A machine has an invariant of its own that its steps keep;  *)
(* a step of another machine leaves its variables alone.                   *)
(***************************************************************************)
EXTENDS Machines, LifecyclePolicy_proofs

\* A behaviour of the machines begins in the initial states of each of them,
\* and each of its steps is one of a machine or leaves it alone.
LEMMA PartsOfInit ==
  MachinesInit => /\ Init /\ Teleop!Init /\ Shutdown!Init /\ Obstacle!Init
                  /\ Diagnostic!DiagnosticInit /\ Runtime!Init
BY DEF MachinesInit

LEMMA PartsOfNext ==
  [MachinesNext]_machinesVars
    => /\ [Next]_vars /\ [Teleop!Next]_teleopVars /\ [Shutdown!Next]_shutdownVars
       /\ [Obstacle!Next]_obstacleVars /\ [Diagnostic!DiagnosticNext]_diagnosticVars
       /\ [Runtime!Next]_runtimeVars
BY DEF MachinesNext, machinesVars, Only

LEMMA SafetyOfSpec == MachinesSpec => MachinesInit /\ [][MachinesNext]_machinesVars
BY PTL DEF MachinesSpec

-------------------------------------------------------------------------------
(* OrderedShutdown *)

\* While time is left no request that was sent before is still carried out: a
\* step that gave its own up has used up the time.
ShutdownType ==
  /\ stepOf \in 1..(Steps + 1) /\ stage \in {"service", "request", "done"}
  /\ budget \in Nat /\ stepBudget = budget /\ overall \in BOOLEAN
  /\ service \in [1..Steps -> {"absent", "idle", "working", "finished", "refused"}]
ShutdownInv ==
  /\ ShutdownType
  /\ stage # "done" => stepOf \in 1..Steps
  /\ stage # "done" /\ budget > 0 => \A p \in 1..(stepOf - 1) : service[p] # "working"
  /\ overall => \A p \in 1..(stepOf - 1) : service[p] = "finished"
  /\ stage = "done" /\ overall => stepOf = Steps + 1

LEMMA ShutdownStep == ShutdownInv /\ [Shutdown!Next]_shutdownVars => ShutdownInv'
<1> SUFFICES ASSUME ShutdownInv, [Shutdown!Next]_shutdownVars PROVE ShutdownInv'
  OBVIOUS
<1> USE ShutdownAssumption DEF ShutdownInv, ShutdownType
<1>1. CASE Shutdown!ServiceFound
  BY <1>1 DEF Shutdown!ServiceFound
<1>2. CASE Shutdown!StepTimesOut
  <2>1. overall' \in BOOLEAN /\ ~overall'
    BY <1>2, Zenon DEF Shutdown!StepTimesOut, Shutdown!NextStep
  <2>2. /\ stage \in {"service", "request"} /\ budget = 0
        /\ stepBudget' = budget /\ stepOf' = stepOf + 1 /\ stage' = "done"
        /\ UNCHANGED <<budget, service>>
    BY <1>2 DEF Shutdown!StepTimesOut, Shutdown!NextStep
  <2> QED BY <2>1, <2>2
<1>3. CASE Shutdown!StepAnswered
  <2>1. /\ overall' \in BOOLEAN
        /\ overall' => /\ service[stepOf] = "finished" /\ overall
                       /\ stepOf = Steps \/ budget > 0
    BY <1>3, Zenon DEF Shutdown!StepAnswered, Shutdown!NextStep
  <2>2. /\ stage = "request" /\ service[stepOf] \in {"finished", "refused"}
        /\ stepBudget' = budget /\ stepOf' = stepOf + 1
        /\ stage' = IF stepOf = Steps \/ budget = 0 THEN "done" ELSE "service"
        /\ UNCHANGED <<budget, service>>
    BY <1>3 DEF Shutdown!StepAnswered, Shutdown!NextStep
  <2> QED BY <2>1, <2>2
<1>4. CASE Shutdown!TimePasses
  BY <1>4 DEF Shutdown!TimePasses, Shutdown!Left
<1>5. ASSUME NEW s \in 1..Steps, NEW a \in {"finished", "refused"}, Shutdown!ManagerAnswers(s, a)
      PROVE  ShutdownInv'
  BY <1>5 DEF Shutdown!ManagerAnswers
<1>6. ASSUME NEW s \in 1..Steps, Shutdown!ManagerAppears(s)
      PROVE  ShutdownInv'
  BY <1>6 DEF Shutdown!ManagerAppears
<1>7. CASE UNCHANGED shutdownVars
  BY <1>7 DEF shutdownVars
<1> QED BY <1>1, <1>2, <1>3, <1>4, <1>5, <1>6, <1>7 DEF Shutdown!Next

LEMMA ShutdownInvariant == MachinesSpec => []ShutdownInv
<1>1. MachinesInit => ShutdownInv
  BY PartsOfInit, ShutdownAssumption DEF Shutdown!Init, ShutdownInv, ShutdownType
<1>2. ShutdownInv /\ [MachinesNext]_machinesVars => ShutdownInv'
  BY PartsOfNext, ShutdownStep
<1> QED BY <1>1, <1>2, SafetyOfSpec, PTL

\* The exit status of the ordered shutdown: whatever is refused, given up or
\* late, success means that every manager did shut down.
THEOREM ShutdownTruthful == MachinesSpec => []TruthfulResult
<1>1. ShutdownInv => TruthfulResult
  BY ShutdownAssumption DEF ShutdownInv, ShutdownType, TruthfulResult, Shutdown!TruthfulResult
<1> QED BY <1>1, ShutdownInvariant, PTL

\* The order of the shutdown: only the next manager is ever asked, and it is
\* asked only while no earlier one is still stopping.
THEOREM ShutdownInOrder == MachinesSpec => StrictOrder
<1> DEFINE Ordered == \A s \in 2..Steps :
             service[s] # "working" /\ service'[s] = "working"
               => \A p \in 1..(s - 1) : service[p] # "working"
<1>1. ShutdownInv /\ [MachinesNext]_machinesVars => [Ordered]_shutdownVars
  <2> SUFFICES ASSUME ShutdownInv, [Shutdown!Next]_shutdownVars PROVE [Ordered]_shutdownVars
    BY PartsOfNext
  <2> USE ShutdownAssumption DEF ShutdownInv, ShutdownType
  <2>1. CASE Shutdown!ServiceFound
    BY <2>1 DEF Shutdown!ServiceFound
  <2>2. ASSUME NEW s \in 1..Steps, NEW a \in {"finished", "refused"}, Shutdown!ManagerAnswers(s, a)
        PROVE  Ordered
    BY <2>2 DEF Shutdown!ManagerAnswers
  <2>3. ASSUME NEW s \in 1..Steps, Shutdown!ManagerAppears(s) PROVE Ordered
    BY <2>3 DEF Shutdown!ManagerAppears
  <2>4. CASE UNCHANGED service
    BY <2>4
  <2> QED BY <2>1, <2>2, <2>3, <2>4
          DEF Shutdown!Next, Shutdown!StepTimesOut, Shutdown!StepAnswered, Shutdown!TimePasses,
              shutdownVars
<1> QED BY <1>1, ShutdownInvariant, SafetyOfSpec, PTL
        DEF StrictOrder, Shutdown!StrictOrder, shutdownVars, Shutdown!shutdownVars

-------------------------------------------------------------------------------
(* RuntimeInstances *)

\* The launch group of a supervisor starts after its lock is taken, and the
\* supervisor goes only when the group is gone, unless it is killed; the traps
\* are set from then on, so a signal does not end it.
RuntimeInv ==
  /\ rosRun \in Nat /\ (rosAt # "off" => rosRun > 0)
  /\ leader \cup rest \subseteq 1..rosRun
  /\ \A r \in leader \cup rest : r < rosRun \/ rosAt \in {"off", "start", "checked", "traps", "reap"}
                                => r \in killed
  /\ rosAt \in {"start", "checked", "traps", "reap"} => rosRun \notin leader \cup rest
  /\ handler = "default" => rosAt \in {"off", "start", "checked"}

LEMMA RuntimeStep == RuntimeInv /\ [Runtime!Next]_runtimeVars => RuntimeInv'
<1> SUFFICES ASSUME RuntimeInv, [Runtime!Next]_runtimeVars PROVE RuntimeInv'
  OBVIOUS
<1> USE DEF RuntimeInv, Runtime!GroupRuns
<1>1. CASE Runtime!Start
  BY <1>1 DEF Runtime!Start, Runtime!groupVars
<1>2. CASE Runtime!CheckTeleop \/ Runtime!Acquire \/ Runtime!Exit \/ Runtime!RvizStopped
  BY <1>2 DEF Runtime!CheckTeleop, Runtime!Acquire, Runtime!Exit, Runtime!RvizStopped,
              Runtime!Goto, Runtime!groupVars
<1>3. CASE Runtime!Launch
  BY <1>3 DEF Runtime!Launch, Runtime!Goto
<1>4. CASE Runtime!Trap
  BY <1>4 DEF Runtime!Trap, Runtime!Interruptible, Runtime!ForceStop, Runtime!HardStop,
              Runtime!SignalGroup, Runtime!groupVars
<1>5. CASE Runtime!LifecycleEnds \/ Runtime!LeaderReturns \/ Runtime!CheckGroup
  BY <1>5 DEF Runtime!LifecycleEnds, Runtime!LeaderReturns, Runtime!CheckGroup,
              Runtime!Goto, Runtime!SignalGroup, Runtime!groupVars
<1>6. CASE Runtime!WaitForGroup
  BY <1>6 DEF Runtime!WaitForGroup, Runtime!Goto, Runtime!SignalGroup, Runtime!groupVars
<1>7. CASE Runtime!StopRequested \/ Runtime!CleanBegins \/ Runtime!CleanWaits
  BY <1>7 DEF Runtime!StopRequested, Runtime!CleanBegins, Runtime!CleanWaits, Runtime!Deliver,
              Runtime!groupVars, Runtime!supervisorVars
<1>8. CASE Runtime!Killed
  BY <1>8 DEF Runtime!Killed, Runtime!groupVars
<1>9. CASE Runtime!LeaderEnds \/ Runtime!RestEnds \/ Runtime!CleanEnds
  BY <1>9 DEF Runtime!LeaderEnds, Runtime!RestEnds, Runtime!CleanEnds, Runtime!supervisorVars,
              Runtime!groupVars
<1>10. CASE UNCHANGED runtimeVars
  BY <1>10 DEF runtimeVars
<1> QED
  BY <1>1, <1>2, <1>3, <1>4, <1>5, <1>6, <1>7, <1>8, <1>9, <1>10
  DEF Runtime!Next, Runtime!Supervisor

LEMMA RuntimeInvariant == MachinesSpec => []RuntimeInv
<1>1. MachinesInit => RuntimeInv
  BY PartsOfInit DEF Runtime!Init, RuntimeInv
<1>2. RuntimeInv /\ [MachinesNext]_machinesVars => RuntimeInv'
  BY PartsOfNext, RuntimeStep
<1> QED BY <1>1, <1>2, SafetyOfSpec, PTL

\* However many supervisors are started, stopped by signals at any point and
\* cleaned up after: of two launch groups that are alive at once, the
\* supervisor of the earlier one was killed.
THEOREM SingleStack == MachinesSpec => []OneStack
<1>1. RuntimeInv => OneStack
  BY RuntimeAssumption
  DEF RuntimeInv, OneStack, Runtime!OneStack, Runtime!Runs, Runtime!GroupRuns
<1> QED BY <1>1, RuntimeInvariant, PTL

-------------------------------------------------------------------------------
(* TeleopLease *)

\* What is on /cmd_vel is the command the lease is about; the lease and the time
\* since the last motion key make up the timeout, and once the lease is over
\* the next tick is at most a period away.
TeleopInv ==
  /\ teleop \in {"running", "closing", "gone"} /\ lease \in Int /\ lease >= -1
  /\ teleopCommand \in Int /\ published \in Int /\ speed \in Int
  /\ untilTick \in 0..Period /\ sinceKey \in Nat
  /\ teleop = "running" /\ published # 0 => teleopCommand # 0
  /\ teleop = "running" /\ teleopCommand # 0
       => \/ lease > 0 /\ sinceKey + lease <= Timeout
          \/ lease = 0 /\ sinceKey + untilTick < Timeout + Period

LEMMA TeleopStep == TeleopInv /\ [Teleop!Next]_teleopVars => TeleopInv'
<1> SUFFICES ASSUME TeleopInv, [Teleop!Next]_teleopVars PROVE TeleopInv'
  OBVIOUS
<1> USE TeleopAssumption DEF TeleopInv, Teleop!Stop, Teleop!None, Teleop!Publish
<1>1. ASSUME NEW d \in {-1, 1}, Teleop!MotionKey(d) PROVE TeleopInv'
  <2>1. d * speed \in Int
    OBVIOUS
  <2> QED BY <1>1, <2>1 DEF Teleop!MotionKey, Teleop!Handled
<1>2. ASSUME NEW s \in {speed - 1, speed + 1, DefaultSpeed}, Teleop!SpeedKey(s)
      PROVE  TeleopInv'
  BY <1>2 DEF Teleop!SpeedKey, Teleop!Handled, Teleop!Signed, Teleop!Clamped
<1>3. CASE Teleop!StopKey \/ Teleop!ExitKey
  BY <1>3 DEF Teleop!StopKey, Teleop!ExitKey, Teleop!Handled
<1>4. CASE Teleop!Tick
  BY <1>4 DEF Teleop!Tick
<1>5. CASE Teleop!Interrupt \/ Teleop!Killed \/ Teleop!Close
  BY <1>5 DEF Teleop!Interrupt, Teleop!Killed, Teleop!Close
<1>6. CASE Teleop!Pass
  BY <1>6 DEF Teleop!Pass, Teleop!Older, Teleop!AgeBound
<1>7. ASSUME NEW d \in BOOLEAN, Teleop!Frame(d) PROVE TeleopInv'
  BY <1>7 DEF Teleop!Frame, Teleop!teleopVars
<1>8. CASE UNCHANGED teleopVars
  BY <1>8 DEF teleopVars
<1> QED BY <1>1, <1>2, <1>3, <1>4, <1>5, <1>6, <1>7, <1>8 DEF Teleop!Next

LEMMA TeleopInvariant == MachinesSpec => []TeleopInv
<1>1. MachinesInit => TeleopInv
  BY PartsOfInit, TeleopAssumption
  DEF Teleop!Init, TeleopInv, Teleop!None, Teleop!Stop, Teleop!AgeBound
<1>2. TeleopInv /\ [MachinesNext]_machinesVars => TeleopInv'
  BY PartsOfNext, TeleopStep
<1> QED BY <1>1, <1>2, SafetyOfSpec, PTL

\* The dead man's switch, for every timeout, period and range of speeds: tuning
\* the speed does not renew the lease, and a lease that is over is noticed by
\* the next tick or the next key.
THEOREM DeadManSwitch == MachinesSpec => []DeadMan
<1>1. TeleopInv => DeadMan
  BY TeleopAssumption DEF TeleopInv, DeadMan, Teleop!DeadMan, Teleop!Stop
<1> QED BY <1>1, TeleopInvariant, PTL

-------------------------------------------------------------------------------
(* DiagnosticRun *)

\* The robot moves in the running segment only, before its idle phase, and the
\* segment was found clear: before it began, or by its own preflight, which
\* precedes the command of the first frame that has settled.
DiagnosticInv ==
  /\ elapsed \in Nat /\ segment \in Nat /\ cleared \in Nat
  /\ r2c3 \in BOOLEAN /\ preflighted \in BOOLEAN /\ running \in BOOLEAN /\ moving \in BOOLEAN
  /\ reset # "none" => ~running
  /\ r2c3 /\ running /\ preflighted => cleared = segment
  /\ ~r2c3 => cleared = segment
  /\ at = "command" /\ running /\ r2c3 /\ elapsed >= Settle => preflighted
  /\ moving => running /\ cleared = segment /\ elapsed <= Idle
  /\ moving /\ at \in {"publish", "trigger", "record", "end"} => elapsed < Idle

LEMMA DiagnosticStep ==
  DiagnosticInv /\ [Diagnostic!DiagnosticNext]_diagnosticVars => DiagnosticInv'
<1> SUFFICES ASSUME DiagnosticInv, [Diagnostic!DiagnosticNext]_diagnosticVars
             PROVE  DiagnosticInv'
  OBVIOUS
<1> USE DiagnosticAssumption
    DEF DiagnosticInv, Diagnostic!At, Diagnostic!Raise, Diagnostic!script, Diagnostic!odometry
<1>1. CASE Diagnostic!StartSegment \/ Diagnostic!NotClear \/ Diagnostic!KeepSegment
  BY <1>1 DEF Diagnostic!StartSegment, Diagnostic!NotClear, Diagnostic!KeepSegment,
              Diagnostic!SegmentDue
<1>2. CASE Diagnostic!ResetDone \/ Diagnostic!ResetFailed
  <2>1. CASE Diagnostic!ResetDone
    <3>1. preflighted' \in BOOLEAN /\ (preflighted' => ~r2c3)
      BY <2>1, Zenon DEF Diagnostic!ResetDone
    <3>2. /\ reset = "ok" /\ reset' = "none" /\ running' = TRUE /\ elapsed' = 0
          /\ at' = "command" /\ UNCHANGED <<r2c3, segment, cleared, moving>>
      BY <2>1 DEF Diagnostic!ResetDone
    <3> QED BY <3>1, <3>2
  <2>2. CASE Diagnostic!ResetFailed
    BY <2>2 DEF Diagnostic!ResetFailed
  <2> QED BY <1>2, <2>1, <2>2
<1>3. CASE Diagnostic!Preflight \/ Diagnostic!NoPreflight
  <2>1. CASE Diagnostic!Preflight
    <3>1. CASE Diagnostic!Raise("update")
      BY <3>1
    <3>2. CASE ~Diagnostic!Raise("update")
      <4>1. /\ preflighted' = TRUE /\ cleared' = segment /\ at' = "command"
            /\ UNCHANGED <<r2c3, segment, reset, running, elapsed, moving>>
        BY <2>1, <3>2 DEF Diagnostic!Preflight
      <4>2. r2c3
        BY <2>1 DEF Diagnostic!Preflight, Diagnostic!PreflightDue
      <4> QED BY <4>1, <4>2
    <3> QED BY <3>1, <3>2
  <2>2. CASE Diagnostic!NoPreflight
    <3>1. /\ reset # "ok" /\ at' = "command"
          /\ UNCHANGED <<r2c3, segment, reset, running, elapsed, preflighted, cleared, moving>>
      BY <2>2 DEF Diagnostic!NoPreflight
    <3>2. ~(running /\ r2c3 /\ ~preflighted /\ elapsed >= Settle)
      BY <2>2, <3>1 DEF Diagnostic!NoPreflight, Diagnostic!PreflightDue
    <3> QED BY <3>1, <3>2
  <2> QED BY <1>3, <2>1, <2>2
<1>4. CASE Diagnostic!Command
  <2>1. /\ running' \in BOOLEAN
        /\ running' => running /\ elapsed < Duration
        /\ running /\ ~running' => ~(elapsed < Duration)
    BY <1>4, Zenon DEF Diagnostic!Command
  <2>2. /\ at = "command" /\ at' \in {"publish", "end"}
        /\ UNCHANGED <<r2c3, segment, reset, elapsed, preflighted, cleared>>
    BY <1>4 DEF Diagnostic!Command
  <2>3. CASE running'
    <3>1. moving' \in BOOLEAN /\ (moving' => elapsed \in Settle..Idle - 1)
      <4> DEFINE inPhase == elapsed \in Settle..Idle - 1
      <4>1. moving' = inPhase
        BY <1>4, <2>3 DEF Diagnostic!Command
      <4>2. inPhase \in BOOLEAN
        OBVIOUS
      <4>3. inPhase => elapsed \in Settle..Idle - 1
        OBVIOUS
      <4> HIDE DEF inPhase
      <4> QED BY <4>1, <4>2, <4>3
    <3> QED BY <2>1, <2>2, <2>3, <3>1
  <2>4. CASE ~running'
    <3>1. moving' = moving
      BY <1>4, <2>4, Zenon DEF Diagnostic!Command
    <3>2. ~moving
      BY <2>1, <2>2, <2>4
    <3> QED BY <2>1, <2>2, <2>4, <3>1, <3>2
  <2> QED BY <2>3, <2>4
<1>5. CASE Diagnostic!Register \/ Diagnostic!Trigger \/ Diagnostic!RecordTrigger
  BY <1>5 DEF Diagnostic!Register, Diagnostic!Trigger, Diagnostic!RecordTrigger
<1>6. CASE Diagnostic!EndFrame
  BY <1>6 DEF Diagnostic!EndFrame
<1>7. ASSUME NEW message \in inFlight, Diagnostic!RecordOdom(message) PROVE DiagnosticInv'
  BY <1>7 DEF Diagnostic!RecordOdom
<1>8. CASE Diagnostic!ResetFinishes \/ Diagnostic!Arm \/ Diagnostic!OtherReset
  BY <1>8 DEF Diagnostic!ResetFinishes, Diagnostic!Arm, Diagnostic!OtherReset, Diagnostic!Spun
<1>9. CASE UNCHANGED diagnosticVars
  BY <1>9 DEF diagnosticVars
<1> QED BY <1>1, <1>2, <1>3, <1>4, <1>5, <1>6, <1>7, <1>8, <1>9 DEF Diagnostic!DiagnosticNext

LEMMA DiagnosticInvariant == MachinesSpec => []DiagnosticInv
<1>1. MachinesInit => DiagnosticInv
  <2> SUFFICES ASSUME MachinesInit PROVE DiagnosticInv
    OBVIOUS
  <2>1. Diagnostic!DiagnosticInit
    BY PartsOfInit
  <2>2. r2c3 \in BOOLEAN /\ preflighted \in BOOLEAN
    BY <2>1, Zenon DEF Diagnostic!DiagnosticInit
  <2>3. /\ at = "top" /\ segment = 0 /\ reset = "none" /\ running = FALSE /\ elapsed = 0
        /\ cleared = 0 /\ moving = FALSE
    BY <2>1 DEF Diagnostic!DiagnosticInit
  <2> QED BY <2>2, <2>3 DEF DiagnosticInv
<1>2. DiagnosticInv /\ [MachinesNext]_machinesVars => DiagnosticInv'
  BY PartsOfNext, DiagnosticStep
<1> QED BY <1>1, <1>2, SafetyOfSpec, PTL

\* No motion without the preflight of its own segment, and none left over when
\* the next reset teleports the robot, for any number of segments and phases of
\* any length.
THEOREM ClearBeforeMotion == MachinesSpec => []MovesInClearedSegment
<1>1. DiagnosticInv => MovesInClearedSegment
  BY DEF DiagnosticInv, MovesInClearedSegment, Diagnostic!MovesInClearedSegment
<1> QED BY <1>1, DiagnosticInvariant, PTL

-------------------------------------------------------------------------------
(* Obstacles *)

\* An actor that moves is where its path says for the time of the last update,
\* one that yields is where it was when it began to.
ObstacleInv ==
  /\ simNow \in Nat /\ updatedAt \in 0..simNow /\ resets \in Nat
  /\ actorPosition \in 0..Length /\ motionAt \in Int /\ yieldAt \in Int
  /\ actor \in {"waiting", "armed"} => actorPosition = 0
  /\ actor \in {"moving", "dwell"} /\ ~retired
       => /\ motionAt \in 0..simNow
          /\ actorPosition = Obstacle!Travelled(
               IF updatedAt > motionAt THEN updatedAt - motionAt ELSE 0).position
  /\ actor = "safety_yield" /\ ~retired
       => /\ motionAt \in 0..yieldAt /\ yieldAt \in 0..updatedAt
          /\ actorPosition = Obstacle!Travelled(yieldAt - motionAt).position

\* Along its path an actor goes at most one unit in a unit of time, and never
\* back: the dwell only makes it wait.
LEMMA PathIsContinuous ==
  ASSUME NEW a \in Nat, NEW b \in Nat, a <= b
  PROVE  /\ Obstacle!Travelled(a).position \in 0..Length
         /\ Obstacle!Travelled(b).position - Obstacle!Travelled(a).position \in 0..(b - a)
         /\ Obstacle!Travelled(0).position = 0 /\ Obstacle!Travelled(0).state = "moving"
         /\ Obstacle!Travelled(a).state \in {"moving", "dwell", "clearing"}
<1> USE ObstacleAssumption
<1>1. ASSUME NEW e \in Nat
      PROVE  /\ e <= Corner => Obstacle!Travelled(e) = [position |-> e, state |-> "moving"]
             /\ e > Corner /\ e <= Corner + Dwell
                  => Obstacle!Travelled(e) = [position |-> Corner, state |-> "dwell"]
             /\ e > Corner + Dwell /\ e <= Length + Dwell
                  => Obstacle!Travelled(e) = [position |-> e - Dwell, state |-> "moving"]
             /\ e > Length + Dwell
                  => Obstacle!Travelled(e) = [position |-> Length, state |-> "clearing"]
  <2>1. CASE e <= Corner
    BY <2>1 DEF Obstacle!Travelled
  <2>2. CASE e > Corner /\ e <= Corner + Dwell
    BY <2>2 DEF Obstacle!Travelled
  <2>3. CASE e > Corner + Dwell /\ e <= Length + Dwell
    BY <2>3 DEF Obstacle!Travelled
  <2>4. CASE e > Length + Dwell
    BY <2>4 DEF Obstacle!Travelled
  <2> QED BY <2>1, <2>2, <2>3, <2>4
<1>2. 0 \in Nat
  OBVIOUS
<1> QED BY <1>1, <1>2

\* A step of the actor keeps the invariant, and moves it no further than the
\* time since the last update allows.
Continuous ==
  resets' = resets => actorPosition' - actorPosition \in 0..(simNow - updatedAt)

LEMMA MoveIsContinuous ==
  ASSUME ObstacleInv, NEW start \in Nat, NEW clearance \in Obstacle!Clearances,
         NEW before \in Nat,
         actorPosition = Obstacle!Travelled(before).position,
         before <= Obstacle!Elapsed(start), Obstacle!Elapsed(start) - before <= simNow - updatedAt,
         start <= simNow,
         ~retired, Obstacle!Move(start, clearance),
         updatedAt' = simNow, simNow' = simNow, resets' = resets
  PROVE  ObstacleInv' /\ actorPosition' - actorPosition \in 0..(simNow - updatedAt)
<1> DEFINE now == Obstacle!Elapsed(start)
           t == Obstacle!Travelled(now)
<1> USE ObstacleAssumption
<1>1. now = simNow - start /\ now \in Nat /\ simNow \in Nat
  BY DEF Obstacle!Elapsed, ObstacleInv
<1>2. /\ t.position \in 0..Length /\ t.position - actorPosition \in 0..(now - before)
      /\ t.state \in {"moving", "dwell", "clearing"}
  <2> HIDE DEF now
  <2>1. now <= now /\ before <= now
    BY <1>1 DEF now
  <2>2. t.position \in 0..Length /\ t.state \in {"moving", "dwell", "clearing"}
    BY <1>1, <2>1, PathIsContinuous
  <2>3. t.position - Obstacle!Travelled(before).position \in 0..(now - before)
    BY <1>1, <2>1, PathIsContinuous
  <2> QED BY <2>2, <2>3
<1>3. actorPosition' = t.position /\ motionAt' = start
  BY DEF Obstacle!Move
<1>4. /\ \/ actor' = "safety_yield" /\ yieldAt' = simNow /\ (retired' <=> retired)
         \/ actor' = "parked" /\ yieldAt' = -1
         \/ actor' = "clearing" /\ yieldAt' = -1
         \/ actor' \in {"moving", "dwell", "clearing"} /\ yieldAt' = -1 /\ (retired' <=> retired)
  <2> HIDE DEF t
  <2>1. CASE clearance = "contact"
    BY <2>1 DEF Obstacle!Move
  <2>2. CASE clearance # "contact" /\ t.state = "clearing" /\ Parks
    BY <2>2 DEF Obstacle!Move, Obstacle!None, t
  <2>3. CASE clearance # "contact" /\ t.state = "clearing" /\ ~Parks
    BY <2>3 DEF Obstacle!Move, Obstacle!None, t
  <2>4. CASE clearance # "contact" /\ t.state # "clearing"
    BY <1>2, <2>4 DEF Obstacle!Move, Obstacle!None, t
  <2> QED BY <2>1, <2>2, <2>3, <2>4
<1>5. actorPosition' - actorPosition \in 0..(simNow - updatedAt)
  <2> HIDE DEF t
  <2> QED BY <1>1, <1>2, <1>3 DEF ObstacleInv
<1>6. ObstacleInv'
  <2>1. actorPosition' = Obstacle!Travelled(simNow - start).position
    BY <1>1, <1>3
  <2>2. (IF updatedAt > motionAt THEN updatedAt - motionAt ELSE 0)' = simNow - start
    BY <1>1, <1>3
  <2> HIDE DEF t, now
  <2>3. /\ simNow' \in Nat /\ updatedAt' \in 0..simNow' /\ resets' \in Nat
        /\ actorPosition' \in 0..Length /\ motionAt' \in Int /\ yieldAt' \in Int
    BY <1>1, <1>2, <1>3, <1>4 DEF ObstacleInv
  <2>4. actor' \notin {"waiting", "armed"}
    BY <1>4
  <2>5. actor' \in {"moving", "dwell"}
          => motionAt' \in 0..simNow'
             /\ actorPosition' = Obstacle!Travelled(
                  (IF updatedAt > motionAt THEN updatedAt - motionAt ELSE 0)').position
    BY <1>1, <1>3, <2>1, <2>2
  <2>6. actor' = "safety_yield"
          => /\ motionAt' \in 0..yieldAt' /\ yieldAt' \in 0..updatedAt'
             /\ actorPosition' = Obstacle!Travelled(yieldAt' - motionAt').position
    BY <1>1, <1>3, <1>4, <2>1
  <2> QED BY <2>3, <2>4, <2>5, <2>6 DEF ObstacleInv
<1> QED BY <1>5, <1>6

LEMMA ObstacleStep ==
  ObstacleInv /\ [Obstacle!Next]_obstacleVars => ObstacleInv' /\ [Continuous]_obstacleVars
<1> SUFFICES ASSUME ObstacleInv, [Obstacle!Next]_obstacleVars
             PROVE  ObstacleInv' /\ [Continuous]_obstacleVars
  OBVIOUS
<1> USE ObstacleAssumption DEF Continuous
<1>0. Obstacle!Travelled(0).position = 0 /\ Obstacle!Travelled(0).state = "moving"
  BY PathIsContinuous
<1>1. CASE Obstacle!ResetObstacles
  BY <1>1 DEF Obstacle!ResetObstacles, Obstacle!Fresh, Obstacle!None, ObstacleInv
<1>2. CASE Obstacle!TriggerGroup
  BY <1>0, <1>2 DEF Obstacle!TriggerGroup, Obstacle!None, ObstacleInv
<1>3. CASE Obstacle!CompleteGroup
  BY <1>3 DEF Obstacle!CompleteGroup, ObstacleInv
<1>4. CASE Obstacle!SimulationStep
  BY <1>4 DEF Obstacle!SimulationStep, Obstacle!runtime, ObstacleInv
<1>5. CASE updatedAt < simNow /\ Obstacle!UpdateWaiting
  BY <1>5 DEF Obstacle!UpdateWaiting, Obstacle!Updated, Obstacle!runtime, ObstacleInv
<1>6. ASSUME NEW p \in BOOLEAN, NEW c \in Obstacle!Clearances, updatedAt < simNow,
             Obstacle!UpdateArmed(p, c)
      PROVE  ObstacleInv' /\ Continuous
  <2>1. /\ actor = "armed" /\ actorPosition = 0 /\ actorPosition' = 0
        /\ updatedAt' = simNow /\ UNCHANGED <<simNow, resets>>
        /\ \/ actor' = "armed" /\ UNCHANGED <<motionAt, yieldAt>>
           \/ actor' = "safety_yield" /\ motionAt' = simNow /\ yieldAt' = simNow
           \/ actor' = "moving" /\ motionAt' = simNow /\ UNCHANGED yieldAt
    BY <1>0, <1>6 DEF Obstacle!UpdateArmed, Obstacle!Updated, ObstacleInv
  <2>2. simNow - simNow = 0 /\ ~(simNow > simNow)
    BY DEF ObstacleInv
  <2> QED BY <1>0, <2>1, <2>2 DEF ObstacleInv
<1>7. ASSUME NEW c \in Obstacle!Clearances, updatedAt < simNow, Obstacle!UpdateMoving(c)
      PROVE  ObstacleInv' /\ Continuous
  <2> DEFINE before == IF updatedAt > motionAt THEN updatedAt - motionAt ELSE 0
  <2>1. /\ motionAt \in Nat /\ motionAt <= simNow /\ before \in Nat
        /\ actorPosition = Obstacle!Travelled(before).position
        /\ before <= Obstacle!Elapsed(motionAt)
        /\ Obstacle!Elapsed(motionAt) - before <= simNow - updatedAt
    BY <1>7 DEF Obstacle!UpdateMoving, Obstacle!Elapsed, ObstacleInv
  <2> HIDE DEF before
  <2> QED
    BY <1>7, <2>1, MoveIsContinuous DEF Obstacle!UpdateMoving, Obstacle!Updated
<1>8. ASSUME NEW c \in Obstacle!Clearances, updatedAt < simNow, Obstacle!UpdateYielding(c)
      PROVE  ObstacleInv' /\ Continuous
  <2>1. CASE c # "far"
    BY <1>8, <2>1 DEF Obstacle!UpdateYielding, Obstacle!Updated, Obstacle!runtime, ObstacleInv
  <2>2. CASE c = "far"
    <3> DEFINE start == Obstacle!ResumedStart
               before == yieldAt - motionAt
    <3>1. PICK after \in Obstacle!Clearances : Obstacle!Move(start, after)
      BY <1>8, <2>2 DEF Obstacle!UpdateYielding
    <3>2. /\ start \in Nat /\ start <= simNow /\ before \in Nat
          /\ actorPosition = Obstacle!Travelled(before).position
          /\ before = Obstacle!Elapsed(start)
          /\ simNow \in Nat /\ updatedAt \in Nat
      BY <1>8 DEF Obstacle!UpdateYielding, Obstacle!ResumedStart, Obstacle!Elapsed, ObstacleInv
    <3> HIDE DEF start, before
    <3> QED
      BY <1>8, <3>1, <3>2, MoveIsContinuous DEF Obstacle!UpdateYielding, Obstacle!Updated
  <2> QED BY <2>1, <2>2
<1>9. CASE UNCHANGED obstacleVars
  BY <1>9 DEF obstacleVars, ObstacleInv
<1> QED
  BY <1>1, <1>2, <1>3, <1>4, <1>5, <1>6, <1>7, <1>8, <1>9 DEF Obstacle!Next

\* A kinematic actor never jumps: whatever the guard makes it yield, as often as
\* it likes, on a path of any length with a corner and a dwell anywhere.
THEOREM ActorNeverJumps == MachinesSpec => NoJump
<1>1. MachinesInit => ObstacleInv
  BY PartsOfInit, ObstacleAssumption DEF Obstacle!Init, Obstacle!None, ObstacleInv
<1>2. ObstacleInv /\ [MachinesNext]_machinesVars => ObstacleInv' /\ [Continuous]_obstacleVars
  BY PartsOfNext, ObstacleStep
<1>3. [Continuous]_obstacleVars => [Continuous]_(Obstacle!obstacleVars)
  BY DEF obstacleVars, Obstacle!obstacleVars, Obstacle!runtime
<1> QED BY <1>1, <1>2, <1>3, SafetyOfSpec, PTL DEF NoJump, Obstacle!NoJump, Continuous

-------------------------------------------------------------------------------
(* LifecycleRepair *)

\* While the lifecycle manager executes a command, the nodes it has been
\* through are in the target state and the others where the command began.
RepairInv ==
  /\ states \in [Node -> StableStates] /\ target \in {"active", "inactive"}
  /\ command \in {"none", "startup", "resume", "pause"}
  /\ command = "startup"
       => /\ position \in 1..(2 * N)
          /\ \A n \in Node :
               states[n] = IF n + N < position THEN "active"
                           ELSE IF n < position THEN "inactive" ELSE "unconfigured"
  /\ command = "resume"
       => /\ position \in Node
          /\ \A n \in Node : states[n] = IF n < position THEN "active" ELSE "inactive"
  /\ command = "pause"
       => /\ position \in Node
          /\ \A n \in Node : states[n] = IF n > N + 1 - position THEN "inactive" ELSE "active"

\* What a command of the manager finds: every node in the state it begins with.
LEMMA CommandFindsNodes ==
  ASSUME states \in [Node -> StableStates]
  PROVE  /\ LifecycleDecision(states) = "startup" => \A n \in Node : states[n] = "unconfigured"
         /\ LifecycleDecision(states) = "resume" => \A n \in Node : states[n] = "inactive"
         /\ LifecycleDecision(states) = "already_active" => \A n \in Node : states[n] = "active"
<1> DEFINE values == {states[n] : n \in Node}
<1>1. /\ LifecycleDecision(states) = "startup" => values = {"unconfigured"}
      /\ LifecycleDecision(states) = "resume" => values = {"inactive"}
      /\ LifecycleDecision(states) = "already_active" => values = {"active"}
  BY DEF LifecycleDecision
<1> QED BY <1>1

\* The steps of a command, and of a repair, in the dependency order.
Ordered ==
  \A n \in Node :
    /\ (states[n] # "active" /\ states'[n] = "active")
         => \A m \in 1..(n - 1) : states[m] = "active"
    /\ (states[n] = "active" /\ states'[n] # "active")
         => \A m \in (n + 1)..N : states[m] # "active"

LEMMA RepairStep == RepairInv /\ [Next]_vars => RepairInv' /\ [Ordered]_vars
<1> SUFFICES ASSUME RepairInv, [Next]_vars PROVE RepairInv' /\ [Ordered]_vars
  OBVIOUS
<1> USE NAssumption DEF Node, StableStates
<1>1. CASE SendCommand
  <2>1. /\ UNCHANGED <<states, target>> /\ position' = 1
        /\ \/ command' = "startup" /\ LifecycleDecision(states) = "startup"
           \/ command' = "resume" /\ LifecycleDecision(states) = "resume"
           \/ command' = "pause" /\ LifecycleDecision(states) = "already_active"
    BY <1>1 DEF SendCommand, Command, RepairInv
  <2>2. RepairInv'
    BY <2>1, CommandFindsNodes DEF RepairInv
  <2>3. Ordered
    BY <2>1 DEF Ordered, RepairInv
  <2> QED BY <2>2, <2>3
<1>2. CASE ManagerStep
  <2> DEFINE step == PlanStep(command, position)
  <2>1. command \in {"startup", "resume", "pause"}
    BY <1>2 DEF ManagerStep, RepairInv
  <2>2. CASE /\ UNCHANGED states /\ command' = "none"
    BY <1>2, <2>2 DEF ManagerStep, RepairInv, Ordered
  <2>3. CASE /\ states[step.node] = Source(step.label) /\ Move(step)
             /\ IF position = PlanLength(command)
                THEN command' = "none" /\ position' = 1
                ELSE position' = position + 1 /\ UNCHANGED command
    <3>1. CASE command = "startup"
      <4>1. CASE position <= N
        <5>1. step = [node |-> position, label |-> "configure"]
          BY <3>1, <4>1 DEF PlanStep
        <5>2. states' = [states EXCEPT ![position] = "inactive"]
          BY <2>3, <5>1 DEF Move, Target
        <5>3. command' = "startup" /\ position' = position + 1
          BY <2>3, <3>1, <4>1 DEF PlanLength
        <5> HIDE DEF step
        <5> QED BY <1>2, <3>1, <4>1, <5>2, <5>3 DEF RepairInv, Ordered, ManagerStep
      <4>2. CASE position > N
        <5>1. step = [node |-> position - N, label |-> "activate"]
          BY <3>1, <4>2 DEF PlanStep, RepairInv
        <5>2. states' = [states EXCEPT ![position - N] = "active"]
          BY <2>3, <5>1 DEF Move, Target
        <5>3. IF position = 2 * N THEN command' = "none"
              ELSE position' = position + 1 /\ command' = "startup"
          BY <2>3, <3>1 DEF PlanLength
        <5> HIDE DEF step
        <5>4. /\ position - N \in Node /\ position \in Nat /\ states \in [Node -> StableStates]
              /\ \A n \in Node : states[n] = IF n + N < position THEN "active" ELSE "inactive"
          BY <3>1, <4>2 DEF RepairInv
        <5>5. Ordered
          BY <5>2, <5>4 DEF Ordered
        <5>6. /\ states' \in [Node -> StableStates]
              /\ \A n \in Node : states'[n] = IF n + N < position + 1 THEN "active" ELSE "inactive"
          BY <5>2, <5>4
        <5>7. RepairInv'
          BY <1>2, <3>1, <4>2, <5>3, <5>4, <5>6 DEF RepairInv, ManagerStep
        <5> QED BY <5>5, <5>7
      <4> QED BY <3>1, <4>1, <4>2 DEF RepairInv
    <3>2. CASE command = "resume"
      <4>1. step = [node |-> position, label |-> "activate"]
        BY <3>2 DEF PlanStep
      <4>2. states' = [states EXCEPT ![position] = "active"]
        BY <2>3, <4>1 DEF Move, Target
      <4>3. IF position = N THEN command' = "none"
            ELSE position' = position + 1 /\ command' = "resume"
        BY <2>3, <3>2 DEF PlanLength
      <4> HIDE DEF step
      <4> QED BY <1>2, <3>2, <4>2, <4>3 DEF RepairInv, Ordered, ManagerStep
    <3>3. CASE command = "pause"
      <4>1. step = [node |-> N + 1 - position, label |-> "deactivate"]
        BY <3>3 DEF PlanStep
      <4>2. states' = [states EXCEPT ![N + 1 - position] = "inactive"]
        BY <2>3, <4>1 DEF Move, Target
      <4>3. IF position = N THEN command' = "none"
            ELSE position' = position + 1 /\ command' = "pause"
        BY <2>3, <3>3 DEF PlanLength
      <4> HIDE DEF step
      <4> QED BY <1>2, <3>3, <4>2, <4>3 DEF RepairInv, Ordered, ManagerStep
    <3> QED BY <2>1, <3>1, <3>2, <3>3
  <2> QED BY <1>2, <2>2, <2>3 DEF ManagerStep, Refuse
<1>3. CASE NormalizeStep
  <2> DEFINE step == NormalizationTransition(states, target)
  <2>1. command = "none" /\ UNCHANGED <<command, target>> /\ step # NoTransition
    BY <1>3 DEF NormalizeStep
  <2>2. CASE UNCHANGED states
    BY <2>1, <2>2 DEF RepairInv, Ordered
  <2>3. CASE Move(step)
    <3>1. CASE target = "inactive"
      <4>1. /\ step.node \in Node /\ step.label = "deactivate"
            /\ \A m \in Node : m > step.node => states[m] # "active"
        BY <2>1, <3>1, StopsLastActive DEF NormalizationTransition, RepairInv
      <4>2. states' = [states EXCEPT ![step.node] = "inactive"]
        BY <2>3, <4>1 DEF Move, Target
      <4> HIDE DEF step
      <4> QED BY <2>1, <4>1, <4>2 DEF RepairInv, Ordered
    <3>2. CASE target # "inactive"
      <4>1. /\ step.node \in Node /\ step.label \in {"configure", "activate"}
            /\ Source(step.label) = states[step.node]
            /\ \A m \in Node : m < step.node => states[m] = "active"
        BY <2>1, <3>2, StartsFirstStopped DEF NormalizationTransition, RepairInv
      <4>2. /\ states' = [states EXCEPT ![step.node] = Target(step.label)]
            /\ Target(step.label) \in {"inactive", "active"}
            /\ states[step.node] # "active"
        BY <2>3, <4>1 DEF Move, Target, Source
      <4> HIDE DEF step
      <4> QED BY <2>1, <4>1, <4>2 DEF RepairInv, Ordered
    <3> QED BY <3>1, <3>2
  <2> QED BY <1>3, <2>2, <2>3 DEF NormalizeStep, Refuse
<1>4. CASE UNCHANGED vars
  BY <1>4 DEF vars, RepairInv
<1> QED BY <1>1, <1>2, <1>3, <1>4 DEF Next

\* The dependency order, for any number of nodes, from every mixture of labels and
\* whichever transitions are refused: a node is activated only above active nodes
\* and deactivated only below inactive ones.
THEOREM RepairInOrder == MachinesSpec => DependencyOrder
<1>1. MachinesInit => RepairInv
  BY PartsOfInit, NAssumption DEF Init, RepairInv
<1>2. RepairInv /\ [MachinesNext]_machinesVars => RepairInv' /\ [Ordered]_vars
  BY PartsOfNext, RepairStep
<1> QED BY <1>1, <1>2, SafetyOfSpec, PTL DEF DependencyOrder, Ordered

-------------------------------------------------------------------------------
(* RouteTracker *)

\* A projection lies on its edge: the clamp keeps the local arc within the
\* length of the edge, wherever the robot is.
LEMMA ProjectionOnEdge ==
  ASSUME NEW e \in Edge, NEW p \in Int \X Int
  PROVE  /\ EdgeLength(e) \in Nat
         /\ LocalArc(e, p) \in 0..EdgeLength(e)
         /\ GlobalArc(e, p) \in Offsets[e]..Offsets[e + 1]
<1>1. From[e] \in Int \X Int /\ To[e] \in Int \X Int
  BY RouteAssumption
<1>2. /\ From[e][1] \in Int /\ From[e][2] \in Int /\ To[e][1] \in Int /\ To[e][2] \in Int
      /\ p[1] \in Int /\ p[2] \in Int
  BY <1>1
<1>3. EdgeLength(e) \in Nat
  BY <1>2 DEF EdgeLength, Magnitude
<1>4. Heading(e)[1] \in {-1, 0, 1} /\ Heading(e)[2] \in {-1, 0, 1}
  BY <1>2 DEF Heading, Sign
<1>5. LocalArc(e, p) \in 0..EdgeLength(e)
  <2> DEFINE a == (p[1] - From[e][1]) * Heading(e)[1] + (p[2] - From[e][2]) * Heading(e)[2]
  <2>1. (p[1] - From[e][1]) * Heading(e)[1] \in Int
    BY <1>2, <1>4
  <2>2. (p[2] - From[e][2]) * Heading(e)[2] \in Int
    BY <1>2, <1>4
  <2>3. a \in Int
    BY <2>1, <2>2
  <2>4. Clamp(a, 0, EdgeLength(e)) \in 0..EdgeLength(e)
    <3> HIDE DEF a
    <3> QED BY <2>3, <1>3 DEF Clamp
  <2> QED BY <2>4 DEF LocalArc
<1>6. Offsets[e] \in Nat /\ Offsets[e + 1] = Offsets[e] + EdgeLength(e)
  BY RouteAssumption, SMTT(60) DEF Edge
<1> QED BY <1>3, <1>5, <1>6 DEF GlobalArc

\* The arc length stays on the tracked edge: initially at the beginning of the
\* route, and with every update of every position, as a later edge is only taken
\* with an arc that is not behind the backtrack.
THEOREM Tracking == TrackerSpec => []OnTrackedEdge
<1>1. TrackerInit => OnTrackedEdge
  <2> SUFFICES ASSUME TrackerInit PROVE OnTrackedEdge
    OBVIOUS
  <2>1. 0 \in Edge
    BY RouteAssumption DEF Edge
  <2>2. <<0, 0>> \in Int \X Int
    OBVIOUS
  <2>3. EdgeLength(0) \in Nat
    BY <2>1, <2>2, ProjectionOnEdge
  <2>4. Offsets[0] = 0 /\ Offsets[0 + 1] = Offsets[0] + EdgeLength(0)
    BY <2>1, RouteAssumption
  <2> QED BY <2>1, <2>3, <2>4 DEF TrackerInit, OnTrackedEdge
<1>2. OnTrackedEdge /\ [TrackerNext]_trackerVars => OnTrackedEdge'
  <2> SUFFICES ASSUME OnTrackedEdge, [TrackerNext]_trackerVars PROVE OnTrackedEdge'
    OBVIOUS
  <2>1. CASE UNCHANGED trackerVars
    BY <2>1 DEF OnTrackedEdge, trackerVars
  <2>2. CASE TrackerNext
    <3>1. PICK p \in Positions : TrackPosition(p)
      BY <2>2 DEF TrackerNext
    <3>2. p \in Int \X Int
      BY SettingsAssumption
    <3>3. CASE Candidates(p) = {}
      BY <3>1, <3>3 DEF TrackPosition, OnTrackedEdge, trackerVars
    <3>4. CASE Candidates(p) # {}
      <4>1. PICK e \in Edge : Best(e, p) /\ MoveTo(e, p)
        BY <3>1, <3>4 DEF TrackPosition
      <4>2. /\ trackedEdge \in Edge
            /\ Offsets[trackedEdge] \in Nat /\ Offsets[trackedEdge + 1] \in Nat
            /\ progress \in Offsets[trackedEdge]..Offsets[trackedEdge + 1]
        BY RouteAssumption DEF OnTrackedEdge, Edge
      <4>3. Offsets[e] \in Nat /\ Offsets[e + 1] \in Nat /\ MaxBacktrack \in Nat
        BY RouteAssumption, SettingsAssumption, SMTT(60) DEF Edge
      <4>4. GlobalArc(e, p) >= progress - MaxBacktrack /\ e >= trackedEdge
        BY <4>1, <4>2 DEF Best, Candidates, Edge
      <4>5. CASE trackedEdge' = trackedEdge
        <5>1. GlobalArc(trackedEdge, p) \in Offsets[trackedEdge]..Offsets[trackedEdge + 1]
          BY <4>2, <3>2, ProjectionOnEdge
        <5>2. progress' = Later(progress - MaxBacktrack, GlobalArc(trackedEdge, p))
          BY <4>1, <4>5 DEF MoveTo
        <5>3. progress' \in Offsets[trackedEdge]..Offsets[trackedEdge + 1]
          BY <4>2, <4>3, <5>1, <5>2 DEF Later
        <5> QED BY <4>2, <4>5, <5>3 DEF OnTrackedEdge
      <4>6. CASE trackedEdge' = e
        <5>1. GlobalArc(e, p) \in Offsets[e]..Offsets[e + 1]
          BY <4>1, <3>2, ProjectionOnEdge
        <5>2. progress' = Later(progress - MaxBacktrack, GlobalArc(e, p))
          BY <4>1, <4>6 DEF MoveTo
        <5>3. progress' \in Offsets[e]..Offsets[e + 1]
          BY <4>2, <4>3, <4>4, <5>1, <5>2 DEF Later
        <5> QED BY <4>1, <4>6, <5>3 DEF OnTrackedEdge
      <4> QED BY <4>1, <4>5, <4>6 DEF MoveTo
    <3> QED BY <3>3, <3>4
  <2> QED BY <2>1, <2>2
<1> QED BY <1>1, <1>2, PTL DEF TrackerSpec
=============================================================================
