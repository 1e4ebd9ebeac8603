------------------------------ MODULE TeleopLease ------------------------------
(***************************************************************************)
(* Keyboard teleoperation (robot_teleop: safety.py, keyboard_teleop.py)    *)
(* and the idle brake of the simulator (robot/idle_brake.py) that backs it *)
(* up when the teleop process is gone.                                     *)
(*                                                                         *)
(* Time is kept as what is left of the lease and of the publish period,    *)
(* and as saturating ages.  One axis stands for both: a command is a       *)
(* signed speed level, 0 is STOP.  The terminal loop runs without delay.   *)
(***************************************************************************)
EXTENDS Integers

CONSTANTS Timeout,       \* command_timeout_sec
          Period,        \* 1 / publish_rate_hz
          BrakeTimeout,  \* idle_brake_command_timeout_sec
          MinSpeed, MaxSpeed, DefaultSpeed

VARIABLES
  teleop,       \* the process: running, closing (in close) or gone
  lease,        \* time left to the deadline of the controller, or None
  command,      \* _command
  speed,        \* _linear_speed
  untilTick,    \* time left to next_publish
  sinceKey,     \* history: time since the last motion key
  published,    \* the last command on /cmd_vel
  undelivered,  \* /cmd_vel holds a command the brake has not seen
  twist,        \* the command the control graph executes
  heardAge,     \* idle brake: age of the last command it observed
  active,       \* idle brake: command_is_active
  driven        \* the wheels turn

teleopVars == <<teleop, lease, command, speed, untilTick, sinceKey, published>>
brakeVars == <<undelivered, twist, heardAge, active, driven>>
leaseVars == <<teleopVars, brakeVars>>

None == -1
Stop == 0
AgeBound == Timeout + Period + BrakeTimeout + 2  \* bound: ages saturate here

Init ==
  /\ teleop = "running" /\ lease = None /\ command = Stop /\ speed = DefaultSpeed
  /\ untilTick = 0 /\ sinceKey = AgeBound /\ published = Stop
  /\ undelivered = FALSE /\ twist = Stop /\ heardAge = AgeBound /\ active = FALSE
  /\ driven = FALSE

Publish(c) == published' = c /\ undelivered' = TRUE

\* TeleopRuntime.handle_key: the controller applies the key and then expires the
\* lease; STOP is published at once, and so is a command whose speed changed.
Handled(c, newLease, newSpeed) ==
  LET expired == newLease = 0
      left == IF expired THEN Stop ELSE c IN
  /\ command' = left /\ lease' = IF expired THEN None ELSE newLease
  /\ speed' = newSpeed
  /\ IF left = Stop THEN Publish(Stop)
     ELSE IF newSpeed # speed THEN Publish(left) ELSE UNCHANGED <<published, undelivered>>

MotionKey(direction) ==
  /\ teleop = "running" /\ sinceKey' = 0
  /\ Handled(direction * speed, Timeout, speed)
  /\ UNCHANGED <<teleop, untilTick, twist, heardAge, active, driven>>

Signed(c, s) == IF c = Stop THEN Stop ELSE IF c > 0 THEN s ELSE -s

Clamped(s) == IF s < MinSpeed THEN MinSpeed ELSE IF s > MaxSpeed THEN MaxSpeed ELSE s

\* Mutant of SpeedKey: tuning renews the lease of an active command.
SpeedKeyRenewing(s) ==
  /\ teleop = "running"
  /\ Handled(Signed(command, Clamped(s)), IF lease = None THEN None ELSE Timeout, Clamped(s))
  /\ UNCHANGED <<teleop, untilTick, sinceKey, twist, heardAge, active, driven>>

\* _adjust_speed_unlocked: an active command changes its magnitude only.
SpeedKey(s) ==
  /\ teleop = "running"
  /\ Handled(Signed(command, Clamped(s)), lease, Clamped(s))
  /\ UNCHANGED <<teleop, untilTick, sinceKey, twist, heardAge, active, driven>>

\* Space and every unknown key.
StopKey ==
  /\ teleop = "running" /\ Handled(Stop, None, speed)
  /\ UNCHANGED <<teleop, untilTick, sinceKey, twist, heardAge, active, driven>>

\* An exit key or the end of the input: STOP, and the loop is left.
ExitKey ==
  /\ teleop = "running" /\ teleop' = "closing" /\ Handled(Stop, None, speed)
  /\ UNCHANGED <<untilTick, sinceKey, twist, heardAge, active, driven>>

\* TeleopRuntime.tick
Tick ==
  /\ teleop = "running" /\ untilTick = 0 /\ untilTick' = Period
  /\ command' = IF lease = 0 THEN Stop ELSE command
  /\ lease' = IF lease = 0 THEN None ELSE lease
  /\ Publish(command')
  /\ UNCHANGED <<teleop, speed, sinceKey, twist, heardAge, active, driven>>

\* SIGINT, SIGTERM or SIGHUP leaves the loop for close(); another one, or a
\* kill, ends the process before the final STOP is published.
Interrupt ==
  /\ teleop = "running" /\ teleop' = "closing"
  /\ UNCHANGED <<lease, command, speed, untilTick, sinceKey, published, brakeVars>>

Killed ==
  /\ teleop # "gone" /\ teleop' = "gone"
  /\ UNCHANGED <<lease, command, speed, untilTick, sinceKey, published, brakeVars>>

\* TeleopRuntime.close
Close ==
  /\ teleop = "closing" /\ teleop' = "gone"
  /\ command' = Stop /\ lease' = None /\ Publish(Stop)
  /\ UNCHANGED <<speed, untilTick, sinceKey, twist, heardAge, active, driven>>

\* Mutant of Frame: the brake engages on a zero command only.
FrameWithoutTimeout(delivered) ==
  /\ delivered => undelivered
  /\ undelivered' = (undelivered /\ ~delivered)
  /\ twist' = published
  /\ IF delivered THEN heardAge' = 0 /\ active' = (published # Stop)
                  ELSE UNCHANGED <<heardAge, active>>
  /\ driven' = (active' /\ twist' # Stop)
  /\ UNCHANGED teleopVars

\* One frame of the simulator: its control graph follows /cmd_vel, spin_once
\* may serve the subscription of the brake, and the brake holds the robot unless
\* an active command was observed within its timeout.
Frame(delivered) ==
  /\ delivered => undelivered
  /\ undelivered' = (undelivered /\ ~delivered)
  /\ twist' = published
  /\ IF delivered THEN heardAge' = 0 /\ active' = (published # Stop)
                  ELSE UNCHANGED <<heardAge, active>>
  /\ driven' = (active' /\ heardAge' <= BrakeTimeout /\ twist' # Stop)
  /\ UNCHANGED teleopVars

Older(age) == IF age < AgeBound THEN age + 1 ELSE age

\* The loop waits for a key until the next tick is due.
Pass ==
  /\ teleop = "running" => untilTick > 0
  /\ untilTick' = IF untilTick > 0 THEN untilTick - 1 ELSE 0
  /\ lease' = IF lease > 0 THEN lease - 1 ELSE lease
  /\ sinceKey' = Older(sinceKey) /\ heardAge' = Older(heardAge)
  /\ UNCHANGED <<teleop, command, speed, published, undelivered, twist, active, driven>>

Next ==
  \/ \E d \in {-1, 1} : MotionKey(d)
  \/ \E s \in {speed - 1, speed + 1, DefaultSpeed} : SpeedKey(s)
  \/ StopKey \/ ExitKey \/ Tick \/ Interrupt \/ Killed \/ Close \/ Pass
  \/ \E d \in BOOLEAN : Frame(d)

Spec == Init /\ [][Next]_leaseVars

\* Time passes and the simulator keeps spinning its node.
FairSpec == Spec /\ WF_leaseVars(Pass) /\ WF_leaseVars(Frame(FALSE)) /\ WF_leaseVars(Frame(TRUE))

-------------------------------------------------------------------------------
\* The dead man's switch: whatever keys are tuned or pressed, a command that
\* moves the robot is on /cmd_vel no longer than the timeout and one publish
\* period after the last motion key, while the process runs.
DeadMan == teleop = "running" /\ published # Stop => sinceKey < Timeout + Period

\* "The wall-time deadman stops the robot within 0.20 seconds if key events
\* stop" (HELP, keyboard_teleop.py:42), time being counted in 0.01 s.
HelpSeconds == 20
StopsInTime == teleop = "running" /\ published # Stop => sinceKey <= HelpSeconds

\* When the teleop process is gone, however it ended, the wheels stop for good.
StopsWithoutTeleop == teleop = "gone" ~> [](~driven)
=============================================================================
