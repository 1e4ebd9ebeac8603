----------------------------- MODULE DiagnosticRun -----------------------------
(***************************************************************************)
(* The free-space diagnostics in the main loop of the simulator            *)
(* (apps/navigation_sim.py) with their trace (R2C1Trace): short movements, *)
(* each after a reset of its own, whose odometry is published by hand once *)
(* per frame and received by an observer in a thread of its own.           *)
(*                                                                         *)
(* A frame is cut where the observer can see a difference; an exception    *)
(* anywhere in it ends the run.  The stamp of a frame is its number, and a  *)
(* frame is shorter than any phase of a segment.                           *)
(***************************************************************************)
EXTENDS Naturals, FiniteSets

CONSTANTS Segments,  \* movements of the script
          Settle,    \* frames before the movement
          Idle,      \* first frame of a segment after the movement
          Duration,  \* frames of a segment
          MaxFrames, \* bound: frames
          MaxInFlight \* bound: messages the observer has not received

VARIABLES
  r2c3,         \* r2c3_mode: the envelope is measured in the segment
  armed,
  run,          \* running, ended or failed
  at,           \* where the frame is
  frame,
  segment,      \* segment_index and reset_epoch, 0 before the first
  reset,        \* pending_reset: none, or what became of it
  busy,         \* external: another reset transaction is active
  running,      \* active: the segment runs
  elapsed,      \* frames since segment_started_at
  preflighted,  \* preflight_done
  cleared,      \* the last segment whose envelope was measured and found clear
  moving,       \* the last command on /cmd_vel moves the robot
  contexts,     \* _trigger_by_stamp
  inFlight      \* odometry messages on the way to the observer

runVars == <<r2c3, armed, run, at, frame, segment, reset, busy, running, elapsed, preflighted,
             cleared, moving, contexts, inFlight>>
script == <<segment, reset, running, elapsed, preflighted, cleared, moving>>
odometry == <<contexts, inFlight>>

\* The R2D2 mode is R2C3 that is not armed yet; the reset of the start-up may
\* still be active.
DiagnosticInit ==
  /\ r2c3 \in BOOLEAN /\ armed \in BOOLEAN /\ (armed \/ r2c3) /\ busy \in BOOLEAN
  /\ run = "running" /\ at = "top" /\ frame = 1
  /\ segment = 0 /\ reset = "none" /\ running = FALSE /\ elapsed = 0
  /\ preflighted = ~r2c3 /\ cleared = 0 /\ moving = FALSE
  /\ contexts = {} /\ inFlight = {}

At(here, there) == run = "running" /\ at = here /\ at' = there /\ UNCHANGED <<r2c3, frame>>

\* An exception in the frame.
Raise(here) ==
  /\ run = "running" /\ at = here /\ run' = "failed"
  /\ UNCHANGED <<r2c3, armed, at, frame, script, busy, odometry>>

SegmentDue == ~running /\ reset = "none" /\ armed /\ segment < Segments

\* The next segment starts with a reset.  R2C1 has checked its clearance
\* before; an active transaction refuses another one.
StartSegment ==
  /\ SegmentDue
  /\ IF busy THEN Raise("top")
     ELSE /\ At("top", "update")
          /\ segment' = segment + 1 /\ reset' = "running"
          /\ cleared' = IF r2c3 THEN cleared ELSE segment + 1
          /\ UNCHANGED <<armed, run, busy, running, elapsed, preflighted, moving, odometry>>

NotClear == SegmentDue /\ ~r2c3 /\ Raise("top")

KeepSegment ==
  /\ ~SegmentDue /\ At("top", "update")
  /\ UNCHANGED <<armed, run, script, busy, odometry>>

\* Mutant of ResetDone: the preflight of the segment before is kept.
ResetDoneKeepingPreflight ==
  /\ reset = "ok" /\ At("update", "command")
  /\ reset' = "none" /\ running' = TRUE /\ elapsed' = 0
  /\ UNCHANGED <<armed, run, segment, busy, preflighted, cleared, moving, odometry>>

\* The reset is complete and the segment runs.
ResetDone ==
  /\ reset = "ok" /\ At("update", "command")
  /\ reset' = "none" /\ running' = TRUE /\ elapsed' = 0 /\ preflighted' = ~r2c3
  /\ UNCHANGED <<armed, run, segment, busy, cleared, moving, odometry>>

ResetFailed == reset = "failed" /\ Raise("update")

PreflightDue == reset # "ok" /\ running /\ r2c3 /\ ~preflighted /\ elapsed >= Settle

\* The envelope of the robot where it stands is measured once it has settled.
Preflight ==
  /\ PreflightDue
  /\ \/ Raise("update")
     \/ /\ At("update", "command")
        /\ preflighted' = TRUE /\ cleared' = segment
        /\ UNCHANGED <<armed, run, segment, reset, busy, running, elapsed, moving, odometry>>

NoPreflight ==
  /\ reset \notin {"ok", "failed"} /\ ~PreflightDue /\ At("update", "command")
  /\ UNCHANGED <<armed, run, script, busy, odometry>>

\* The command of the phase is published, unless the segment is over.
Command ==
  /\ At("command", IF running /\ elapsed < Duration THEN "publish" ELSE "end")
  /\ running' = (running /\ elapsed < Duration)
  /\ moving' = IF running' THEN elapsed \in Settle..Idle - 1 ELSE moving
  /\ UNCHANGED <<armed, run, segment, reset, busy, elapsed, preflighted, cleared, odometry>>

Context == [stamp |-> frame, segment |-> segment]

\* register_trigger_context before the publication, in R2C3 only.
Register ==
  /\ At("publish", "trigger")
  /\ contexts' = IF r2c3 THEN contexts \cup {Context} ELSE contexts
  /\ UNCHANGED <<armed, run, script, busy, inFlight>>

\* The graph publishes at once, or raises.
Trigger ==
  \/ Raise("trigger")
  \/ /\ At("trigger", "record") /\ Cardinality(inFlight) < MaxInFlight
     /\ inFlight' = inFlight \cup {Context}
     /\ UNCHANGED <<armed, run, script, busy, contexts>>

\* record_trigger registers the same context again.
RecordTrigger ==
  /\ At("record", "end")
  /\ contexts' = contexts \cup {Context}
  /\ UNCHANGED <<armed, run, script, busy, inFlight>>

\* The run ends after the last segment, or when the frames are used up.
EndFrame ==
  /\ run = "running" /\ at = "end" /\ at' = "top"
  /\ frame' = frame + 1
  /\ run' = IF (segment = Segments /\ ~running /\ reset = "none") \/ frame = MaxFrames
            THEN "ended" ELSE run
  /\ elapsed' = IF running THEN elapsed + 1 ELSE elapsed
  /\ UNCHANGED <<r2c3, armed, segment, reset, busy, running, preflighted, cleared, moving, odometry>>

\* record_odom, in the thread of the observer.
RecordOdom(message) ==
  /\ message \in inFlight /\ inFlight' = inFlight \ {message}
  /\ UNCHANGED <<r2c3, armed, run, at, frame, script, busy, contexts>>

\* What the update of the application and spin_once let happen.
Spun == run = "running" /\ at = "update" /\ UNCHANGED <<r2c3, run, at, frame, odometry>>

ResetFinishes ==
  /\ Spun /\ reset = "running" /\ reset' \in {"ok", "failed"}
  /\ UNCHANGED <<armed, segment, busy, running, elapsed, preflighted, cleared, moving>>

\* arm_r2d2
Arm == Spun /\ ~armed /\ armed' = TRUE /\ UNCHANGED <<script, busy>>

\* Another reset ends, or is accepted from the service of the bridge.
OtherReset ==
  /\ Spun /\ (~busy => reset # "running") /\ busy' = ~busy
  /\ UNCHANGED <<armed, script>>

DiagnosticNext ==
  \/ StartSegment \/ NotClear \/ KeepSegment
  \/ ResetDone \/ ResetFailed \/ Preflight \/ NoPreflight
  \/ Command \/ Register \/ Trigger \/ RecordTrigger \/ EndFrame
  \/ \E message \in inFlight : RecordOdom(message)
  \/ ResetFinishes \/ Arm \/ OtherReset

-------------------------------------------------------------------------------
(* Properties *)

\* The robot moves only in a segment whose envelope was found clear after its
\* own reset, and is told to stop before the next reset teleports it.
MovesInClearedSegment == moving => cleared = segment /\ running
=============================================================================
