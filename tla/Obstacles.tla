------------------------------- MODULE Obstacles -------------------------------
(***************************************************************************)
(* A dynamic obstacle of a case (isaac_sim/src/experiment/                 *)
(* dynamic_obstacles.py): armed by a trigger service, started by a gate    *)
(* after a delay, moved along its path by the simulation time, yielding    *)
(* before it touches the robot, completed, retired and reset.              *)
(*                                                                         *)
(* The path is Length units long and travelled one unit a tick, with a     *)
(* dwell at its corner; the clearance to the robot is what each update     *)
(* measures.  Services are served between updates.                         *)
(***************************************************************************)
EXTENDS Integers

CONSTANTS Length,      \* duration of the trajectory without the dwell
          Corner,      \* where the actor dwells
          Dwell,       \* dwell_sec
          Delay,       \* start_delay_sec
          Parks,       \* post_motion = "park"
          ByTrigger,   \* activation = "trigger"
          MaxTime,     \* bound: simulation time
          MaxResets    \* bound: resets

VARIABLES
  state,      \* state
  retired,    \* retired
  enabled,    \* collision and visibility are on
  gateAt,     \* gate_at, or None
  motionAt,   \* motion_at, or None
  yieldAt,    \* yield_at, or None
  position,   \* position_map, along the path
  simNow,     \* simulation time
  updatedAt,  \* history: the time of the last update
  resets      \* bound: resets so far

runtime == <<state, retired, enabled, gateAt, motionAt, yieldAt, position>>
obstacleVars == <<runtime, simNow, updatedAt, resets>>

None == -1
Clearances == {"contact", "near", "far"}  \* at most the guard, below the guard + 0.2, above

Fresh ==
  /\ state' = "waiting" /\ retired' = FALSE /\ enabled' = FALSE
  /\ gateAt' = None /\ motionAt' = None /\ yieldAt' = None /\ position' = 0

Init ==
  /\ state = "waiting" /\ retired = FALSE /\ enabled = FALSE
  /\ gateAt = None /\ motionAt = None /\ yieldAt = None /\ position = 0
  /\ simNow = 0 /\ updatedAt = 0 /\ resets = 0

\* reset
ResetObstacles ==
  /\ resets < MaxResets /\ resets' = resets + 1 /\ Fresh
  /\ UNCHANGED <<simNow, updatedAt>>

\* trigger: an actor stays hidden until its gate.
TriggerGroup ==
  /\ state = "waiting" /\ ~retired
  /\ state' = IF ByTrigger THEN "moving" ELSE "armed"
  /\ gateAt' = None
  /\ IF ByTrigger THEN enabled' = TRUE /\ motionAt' = simNow
                  ELSE UNCHANGED <<enabled, motionAt>>
  /\ UNCHANGED <<retired, yieldAt, position, simNow, updatedAt, resets>>

\* complete
CompleteGroup ==
  /\ ~retired /\ state # "waiting"
  /\ state' = "retired" /\ retired' = TRUE /\ enabled' = FALSE
  /\ UNCHANGED <<gateAt, motionAt, yieldAt, position, simNow, updatedAt, resets>>

\* _trajectory: where the actor is after an elapsed time, and its state.
Travelled(elapsed) ==
  CASE elapsed <= Corner -> [position |-> elapsed, state |-> "moving"]
    [] elapsed > Corner /\ elapsed <= Corner + Dwell -> [position |-> Corner, state |-> "dwell"]
    [] elapsed > Corner + Dwell /\ elapsed <= Length + Dwell ->
         [position |-> elapsed - Dwell, state |-> "moving"]
    [] OTHER -> [position |-> Length, state |-> "clearing"]

Elapsed(start) == IF simNow > start THEN simNow - start ELSE 0

\* update of a moving actor: it is put where the path says, yields when the
\* clearance there is at most the guard, and parks or retires at the end.
Move(start, clearance) ==
  LET t == Travelled(Elapsed(start)) IN
  /\ position' = t.position /\ motionAt' = start
  /\ CASE clearance = "contact" ->
            state' = "safety_yield" /\ yieldAt' = simNow /\ UNCHANGED <<retired, enabled>>
       [] clearance # "contact" /\ t.state = "clearing" /\ Parks ->
            state' = "parked" /\ yieldAt' = None /\ UNCHANGED <<retired, enabled>>
       [] clearance # "contact" /\ t.state = "clearing" /\ ~Parks ->
            /\ state' = "clearing" /\ yieldAt' = None
            /\ retired' = TRUE /\ enabled' = FALSE
       [] OTHER -> state' = t.state /\ yieldAt' = None /\ UNCHANGED <<retired, enabled>>

\* Mutant of ResumedStart: the time spent yielding is not added.
ResumedAtOnce == motionAt

\* motion_at after a yield.
ResumedStart == motionAt + (simNow - yieldAt)

Updated == updatedAt' = simNow /\ UNCHANGED <<simNow, resets>>

UpdateWaiting ==
  /\ retired \/ state \in {"waiting", "parked"}
  /\ Updated /\ UNCHANGED runtime

\* update of an armed actor; passed: the robot is in the gate.
UpdateArmed(passed, clearance) ==
  /\ state = "armed" /\ ~retired
  /\ gateAt' = IF gateAt = None /\ passed THEN simNow ELSE gateAt
  /\ IF gateAt' # None /\ simNow >= gateAt' + Delay
     THEN /\ \E t \in {Travelled(0)} :
               /\ position' = t.position /\ motionAt' = simNow /\ retired' = FALSE
               /\ enabled' = TRUE
               /\ IF clearance = "contact"
                  THEN state' = "safety_yield" /\ yieldAt' = simNow
                  ELSE state' = t.state /\ UNCHANGED yieldAt
     ELSE /\ enabled' = (enabled \/ gateAt' # gateAt)
          /\ UNCHANGED <<state, retired, motionAt, yieldAt, position>>
  /\ Updated

UpdateMoving(clearance) ==
  /\ state \in {"moving", "dwell"} /\ ~retired
  /\ Move(motionAt, clearance)
  /\ Updated /\ UNCHANGED gateAt

\* update of a yielding actor: it goes on when the robot is far enough.
UpdateYielding(clearance) ==
  /\ state = "safety_yield" /\ ~retired
  /\ IF clearance # "far" THEN UNCHANGED runtime
     ELSE \E after \in Clearances : Move(ResumedStart, after) /\ UNCHANGED gateAt
  /\ Updated

\* An update for every tick of the simulation time.
SimulationStep ==
  /\ simNow < MaxTime /\ updatedAt = simNow /\ simNow' = simNow + 1
  /\ UNCHANGED <<runtime, updatedAt, resets>>

Next ==
  \/ ResetObstacles \/ TriggerGroup \/ CompleteGroup \/ SimulationStep
  \/ updatedAt < simNow /\ \/ UpdateWaiting
                           \/ \E p \in BOOLEAN, c \in Clearances : UpdateArmed(p, c)
                           \/ \E c \in Clearances : UpdateMoving(c) \/ UpdateYielding(c)

Spec == Init /\ [][Next]_obstacleVars

-------------------------------------------------------------------------------
(* Properties *)

\* The actor never jumps, whatever it yields, dwells and resumes: a kinematic
\* body that is put somewhere else can hit the robot without a contact.
NoJump ==
  [][resets' = resets => position' - position \in 0..(simNow - updatedAt)]_obstacleVars
=============================================================================
