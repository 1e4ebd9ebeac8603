------------------------------ MODULE InitialPose ------------------------------
(***************************************************************************)
(* The automatic initial pose (robot_experiments/initial_pose_publisher.py)*)
(* between the clock, the scans, resets, the reseed service and poses the  *)
(* operator gives in RViz.                                                 *)
(*                                                                         *)
(* Stamps are kept as their age against the simulation clock, which        *)
(* saturates at MaxAge; Future is a stamp of before a restart of the       *)
(* simulation, which lies far ahead of the restarted clock.  The callbacks *)
(* of the node are atomic: it spins on one thread.                         *)
(***************************************************************************)
EXTENDS Integers, FiniteSets

CONSTANTS PublishCount,  \* publish_count
          Tolerance,     \* scan_clock_tolerance_sec
          MaxAge,        \* bound: ages saturate here
          MaxRearms      \* bound: resets, reseeds, restarts and operator poses

Future == -1
NoStamp == -2
Ages == {Future} \cup 0..MaxAge

VARIABLES
  manual,      \* _manual_override
  complete,    \* complete
  failure,     \* failure: what was waited for too long, or "none"
  sentPoses,   \* _published
  timerOn,     \* _timer is not cancelled
  ready,       \* _scan_barrier.ready
  barrier,     \* _scan_barrier.barrier_stamp_s
  clockAge,    \* _last_clock_s, which is _scan_barrier.clock_stamp_s
  clockSeen,   \* _last_clock is set
  tfKnown,     \* the TF buffer holds odom -> base
  scansOut,    \* external: scans in transit, by age
  inputs       \* bound: inputs so far

poseState == <<manual, complete, failure, sentPoses, timerOn, ready, barrier, tfKnown>>
poseVars == <<poseState, clockAge, clockSeen, scansOut, inputs>>

Init ==
  /\ manual = FALSE /\ complete = FALSE /\ failure = "none" /\ sentPoses = 0
  /\ timerOn = TRUE /\ ready = FALSE /\ barrier = NoStamp /\ tfKnown = FALSE
  /\ clockAge = NoStamp /\ clockSeen = FALSE /\ scansOut = {} /\ inputs = 0

Input == inputs < MaxRearms /\ inputs' = inputs + 1

\* Mutant of Rearm: a cancelled timer is not started again.
RearmTimerOff(force, stamp) ==
  IF manual /\ ~force
  THEN /\ complete' = TRUE /\ failure' = "none" /\ timerOn' = FALSE
       /\ UNCHANGED <<manual, sentPoses, ready, barrier, tfKnown>>
  ELSE /\ manual' = FALSE /\ complete' = FALSE /\ failure' = "none" /\ sentPoses' = 0
       /\ UNCHANGED timerOn /\ ready' = FALSE /\ barrier' = stamp /\ tfKnown' = FALSE

\* _rearm with the stamp of the barrier; the operator's pose is kept unless a
\* reset forces the calibrated one.
Rearm(force, stamp) ==
  IF manual /\ ~force
  THEN /\ complete' = TRUE /\ failure' = "none" /\ timerOn' = FALSE
       /\ UNCHANGED <<manual, sentPoses, ready, barrier, tfKnown>>
  ELSE /\ manual' = FALSE /\ complete' = FALSE /\ failure' = "none" /\ sentPoses' = 0
       /\ timerOn' = TRUE /\ ready' = FALSE /\ barrier' = stamp /\ tfKnown' = FALSE

\* _clock_callback: a clock that runs back rearms, the first clock above zero
\* sets a barrier that has none.
ClockMessage(zero) ==
  /\ zero => ~clockSeen
  /\ clockAge' = 0 /\ clockSeen' = (clockSeen \/ ~zero)
  /\ IF clockAge = Future THEN Rearm(FALSE, 0)
     ELSE /\ barrier' = IF barrier = NoStamp /\ ~zero THEN 0 ELSE barrier
          /\ UNCHANGED <<manual, complete, failure, sentPoses, timerOn, ready, tfKnown>>
  /\ UNCHANGED <<scansOut, inputs>>

Distance(a, b) == IF a = b THEN 0 ELSE IF Future \in {a, b} THEN MaxAge
                  ELSE IF a > b THEN a - b ELSE b - a

\* observe_scan: stamped after the barrier and close to the clock.
Accepted(age) ==
  /\ barrier # NoStamp /\ clockAge # NoStamp
  /\ barrier # Future /\ (age < barrier)
  /\ Distance(age, clockAge) <= Tolerance

ScanMessage(age) ==
  /\ age \in scansOut /\ scansOut' = scansOut \ {age}
  /\ ready' = (ready \/ (~manual /\ ~complete /\ Accepted(age)))
  /\ UNCHANGED <<manual, complete, failure, sentPoses, timerOn, barrier, tfKnown, clockAge,
                 clockSeen, inputs>>

\* _reset_event_callback
ResetEvent ==
  /\ Input /\ Rearm(TRUE, clockAge)
  /\ UNCHANGED <<clockAge, clockSeen, scansOut>>

\* _reseed_callback
Reseed ==
  /\ Input
  /\ IF manual THEN UNCHANGED poseState ELSE Rearm(FALSE, clockAge)
  /\ UNCHANGED <<clockAge, clockSeen, scansOut>>

\* _initial_pose_callback of a valid pose that is not the calibrated one.
OperatorPose ==
  /\ Input
  /\ manual' = TRUE /\ complete' = TRUE /\ failure' = "none" /\ timerOn' = FALSE
  /\ UNCHANGED <<sentPoses, ready, barrier, tfKnown, clockAge, clockSeen, scansOut>>

\* _tick: what is missing may have been waited for too long; otherwise one
\* pose is published, and the last one ends the sequence.
Missing == IF ~clockSeen THEN "clock" ELSE IF ~ready THEN "scan" ELSE
           IF ~tfKnown THEN "tf" ELSE "none"

PublishTick(late) ==
  /\ timerOn /\ ~manual /\ ~complete
  /\ IF Missing # "none"
     THEN /\ failure' = IF late THEN Missing ELSE failure
          /\ UNCHANGED <<complete, sentPoses, timerOn>>
     ELSE /\ failure' = "none" /\ sentPoses' = sentPoses + 1
          /\ complete' = (sentPoses' >= PublishCount)
          /\ timerOn' = ~complete'
  /\ UNCHANGED <<manual, ready, barrier, tfKnown, clockAge, clockSeen, scansOut, inputs>>

-------------------------------------------------------------------------------
(* The simulation and the network *)

Older(age) == IF age \in 0..(MaxAge - 1) THEN age + 1 ELSE age

\* Time passes; the clock is served often enough to stay within the tolerance.
Advance ==
  /\ clockAge \in {NoStamp, Future} \cup 0..(Tolerance - 1)
  /\ clockAge' = Older(clockAge) /\ barrier' = Older(barrier)
  /\ scansOut' = {Older(a) : a \in scansOut}
  /\ UNCHANGED <<manual, complete, failure, sentPoses, timerOn, ready, tfKnown, clockSeen,
                 inputs>>

TakeScan ==
  /\ clockSeen /\ scansOut' = scansOut \cup {0}
  /\ UNCHANGED <<poseState, clockAge, clockSeen, inputs>>

LoseScans ==
  /\ scansOut' = {} /\ scansOut # {}
  /\ UNCHANGED <<poseState, clockAge, clockSeen, inputs>>

TransformArrives ==
  /\ ~tfKnown /\ tfKnown' = TRUE
  /\ UNCHANGED <<manual, complete, failure, sentPoses, timerOn, ready, barrier, clockAge,
                 clockSeen, scansOut, inputs>>

\* The simulation restarts its clock.
Restart ==
  /\ Input /\ clockAge \in 0..MaxAge
  /\ clockAge' = Future /\ barrier' = Future /\ scansOut' = {Future : a \in scansOut}
  /\ UNCHANGED <<manual, complete, failure, sentPoses, timerOn, ready, tfKnown, clockSeen>>

Next ==
  \/ \E zero \in BOOLEAN : ClockMessage(zero)
  \/ \E a \in Ages : ScanMessage(a)
  \/ ResetEvent \/ Reseed \/ OperatorPose
  \/ \E late \in BOOLEAN : PublishTick(late)
  \/ Advance \/ TakeScan \/ LoseScans \/ TransformArrives \/ Restart

Spec == Init /\ [][Next]_poseVars

AcceptedScan == \E a \in Ages : Accepted(a) /\ ScanMessage(a)

\* Clock, scans and TF keep coming, and an acceptable scan is not lost for ever.
FairSpec ==
  /\ Spec
  /\ WF_poseVars(ClockMessage(FALSE)) /\ WF_poseVars(Advance) /\ WF_poseVars(TakeScan)
  /\ WF_poseVars(TransformArrives) /\ SF_poseVars(AcceptedScan)
  /\ WF_poseVars(\E late \in BOOLEAN : PublishTick(late))

-------------------------------------------------------------------------------
(* Properties *)

\* Whatever was waited for too long, however often the sequence is rearmed by
\* resets, reseeds and restarts: it ends, with the calibrated pose published or
\* with the operator's.
SequenceEnds == ~complete ~> complete
=============================================================================
