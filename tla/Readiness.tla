------------------------------ MODULE Readiness ------------------------------
(***************************************************************************)
(* ReadinessTracker (robot_bringup/readiness.py) as the activation gate    *)
(* drives it: subscription callbacks mark samples, every timer tick        *)
(* observes the latest map->odom transform of the TF buffer, and only some *)
(* ticks evaluate missing_requirements.  Wall time and simulation time are *)
(* counted in the same discrete unit; None (-1) is Python's None.  In one  *)
(* instant the callbacks come first, then the tick.  The latched /map, a   *)
(* flag that is never cleared, is in ActivationGate.                       *)
(***************************************************************************)
EXTENDS Integers

CONSTANTS FreshnessTimeout, TfStableDuration, ClockJumpTolerance,
          TfTolerance,          \* translation tolerance, on a line
          Poses,                \* map->odom poses localization may publish
          Sources,              \* stamped inputs: scan and odometry
          EveryTickEvaluates,   \* whether each tick asks missing_requirements
          MaxNow,               \* bound: wall time
          MaxSim,               \* bound: simulation time
          MaxEpoch              \* bound: epochs

ASSUME ConfigAssumption ==
  /\ FreshnessTimeout \in Nat \ {0} /\ TfStableDuration \in Nat \ {0}
  /\ ClockJumpTolerance \in Nat \ {0} /\ TfTolerance \in Nat
ASSUME PoseAssumption == Poses \subseteq Int
ASSUME EvaluateAssumption == EveryTickEvaluates \in BOOLEAN
ASSUME BoundAssumption == MaxNow \in Nat /\ MaxSim \in Nat /\ MaxEpoch \in Nat

VARIABLES
  now,           \* time.monotonic() of the gate
  sim,           \* the simulator's clock (external)
  ticked,        \* history: the timer has fired at this instant
  clock,         \* _clock_stamp_s and _clock_received_at
  epoch,         \* _epoch
  samples,       \* per source: _..._stamp_s, _..._received_at, _..._epoch
  transit,       \* per source: the stamp of a message on its way
  buffer,        \* the newest map->odom transform of the TF buffer
  tf,            \* _tf_stamp_s and _tf_received_at
  anchor,        \* _tf_anchor
  stableSince,   \* _tf_stable_since
  opening,       \* history: stamp of the transform that opened the window
  verdict,       \* what the last evaluation answered, until the next step
  epochStart,    \* history: when this epoch began
  stillSince,    \* history: since when the accepted transforms stay within
                 \* twice the tolerance of the one before
  disturbed      \* history: the simulator's clock jumped since its last sample

vars == <<now, sim, ticked, clock, epoch, samples, transit, buffer, tf,
          anchor, stableSince, opening, verdict, epochStart, stillSince,
          disturbed>>
tfVars == <<tf, anchor, stableSince, opening, stillSince>>
inputVars == <<transit, buffer, disturbed>>

None == -1
NoSample == [stamp |-> None, received |-> None, epoch |-> None]
NoTf == [stamp |-> None, received |-> None, pose |-> None]
NoTransform == [stamp |-> None, pose |-> None]
AbsoluteOf(x) == IF x < 0 THEN -x ELSE x

Init ==
  /\ now = 0 /\ sim = 0 /\ ticked = FALSE
  /\ clock = [stamp |-> None, received |-> None]
  /\ epoch = 0 /\ samples = [s \in Sources |-> NoSample]
  /\ transit = [s \in Sources |-> None]
  /\ buffer = NoTransform /\ tf = NoTf /\ anchor = None /\ stableSince = None
  /\ opening = None
  /\ verdict = FALSE /\ epochStart = 0 /\ stillSince = 0
  /\ disturbed = FALSE

-------------------------------------------------------------------------------
\* _clear_transform
ClearTransform ==
  /\ tf' = NoTf /\ anchor' = None /\ stableSince' = None /\ opening' = None
  /\ UNCHANGED stillSince

\* _start_new_epoch, and the gate's _tf_buffer.clear()
StartNewEpoch ==
  /\ epoch' = epoch + 1
  /\ samples' = [s \in Sources |-> NoSample]
  /\ ClearTransform
  /\ buffer' = NoTransform
  /\ epochStart' = now

\* Mutant of EpochJump: the wall time that passed is not taken off.
EpochJumpByStamps(stamp) ==
  /\ clock.stamp # None
  /\ stamp < clock.stamp \/ stamp - clock.stamp > ClockJumpTolerance

\* mark_clock
EpochJump(stamp) ==
  /\ clock.stamp # None
  /\ \/ stamp < clock.stamp
     \/ stamp - clock.stamp - (now - clock.received) > ClockJumpTolerance

MarkClock ==
  /\ ~ticked
  /\ IF EpochJump(sim)
       THEN epoch < MaxEpoch /\ StartNewEpoch
       ELSE UNCHANGED <<epoch, samples, tfVars, buffer, epochStart>>
  /\ clock' = [stamp |-> sim, received |-> now]
  /\ disturbed' = FALSE /\ verdict' = FALSE
  /\ UNCHANGED <<now, sim, ticked, transit>>

\* mark_reset
MarkReset ==
  /\ ~ticked
  /\ epoch < MaxEpoch
  /\ StartNewEpoch
  /\ verdict' = FALSE
  /\ UNCHANGED <<now, sim, ticked, clock, transit, disturbed>>

\* _sample_is_in_current_epoch; _clock_nonzero is clock.stamp > 0
SampleIsInCurrentEpoch(stamp) ==
  stamp >= 0 /\ clock.stamp > 0
  /\ AbsoluteOf(clock.stamp - stamp) <= FreshnessTimeout

\* mark_scan and mark_odom, which differ in nothing but the field
MarkSample(s) ==
  /\ ~ticked
  /\ transit[s] # None
  /\ transit' = [transit EXCEPT ![s] = None]
  /\ samples' = IF SampleIsInCurrentEpoch(transit[s])
                  THEN [samples EXCEPT ![s] =
                          [stamp |-> transit[s], received |-> now,
                           epoch |-> epoch]]
                  ELSE samples
  /\ verdict' = FALSE
  /\ UNCHANGED <<now, sim, ticked, clock, epoch, buffer, tfVars, epochStart,
                 disturbed>>

-------------------------------------------------------------------------------
\* observe_transform, its early return for the sample it has already seen
Reread == tf.stamp # None /\ buffer.stamp = tf.stamp

\* Mutant of WithinTolerance: a tolerance in the wrong unit.
WithinLooseTolerance == AbsoluteOf(buffer.pose - anchor) <= 2 * TfTolerance + 1

\* _within_tolerance
WithinTolerance == AbsoluteOf(buffer.pose - anchor) <= TfTolerance

\* observe_transform of the newest buffered transform: what becomes of
\* _tf_stamp_s/_tf_received_at, _tf_anchor and _tf_stable_since.
Observed ==
  LET kept == [tf |-> tf, anchor |-> anchor, since |-> stableSince,
               opening |-> opening, still |-> stillSince]
      older == tf.stamp # None /\ buffer.stamp < tf.stamp
      restart == older \/ anchor = None \/ stableSince = None
                 \/ ~WithinTolerance
  IN IF buffer = NoTransform THEN kept
     ELSE IF buffer.stamp <= 0 \/ ~SampleIsInCurrentEpoch(buffer.stamp)
       THEN [tf |-> NoTf, anchor |-> None, since |-> None, opening |-> None,
             still |-> stillSince]
     ELSE IF Reread THEN kept
     ELSE [tf |-> [stamp |-> buffer.stamp, received |-> now,
                   pose |-> buffer.pose],
           anchor |-> IF restart THEN buffer.pose ELSE anchor,
           since |-> IF restart THEN now ELSE stableSince,
           opening |-> IF restart THEN buffer.stamp ELSE opening,
           still |-> IF tf = NoTf
                        \/ AbsoluteOf(buffer.pose - tf.pose) > 2 * TfTolerance
                       THEN now ELSE stillSince]

\* _fresh
Fresh(received) ==
  received # None /\ now - received \in 0..FreshnessTimeout

\* Mutant of FreshSample: the stamp was compared with the clock when it came in.
FreshSampleByReceipt(s) ==
  /\ samples[s].epoch = epoch /\ samples[s].stamp # None
  /\ Fresh(samples[s].received) /\ clock.stamp # None

FreshSample(s) ==
  /\ samples[s].epoch = epoch /\ samples[s].stamp # None
  /\ Fresh(samples[s].received) /\ clock.stamp # None
  /\ AbsoluteOf(clock.stamp - samples[s].stamp) <= FreshnessTimeout

TransformIsFresh(t) ==
  /\ Fresh(t.received)
  /\ clock.stamp # None /\ t.stamp # None
  /\ AbsoluteOf(clock.stamp - t.stamp) <= FreshnessTimeout

\* _check_readiness: observe the transform and, where the gate's control
\* flow gets that far, evaluate missing_requirements, which also ends the
\* stability window when the transform is not fresh.
Tick ==
  /\ ~ticked /\ ticked' = TRUE
  /\ tf' = Observed.tf /\ anchor' = Observed.anchor
  /\ stillSince' = Observed.still
  /\ \E evaluate \in {TRUE, EveryTickEvaluates} :
       LET since == IF evaluate /\ ~TransformIsFresh(Observed.tf)
                      THEN None ELSE Observed.since
       IN /\ stableSince' = since
          /\ opening' = IF since = None THEN None ELSE Observed.opening
          /\ verdict' = (/\ evaluate
                         /\ clock.stamp > 0 /\ Fresh(clock.received)
                         /\ \A s \in Sources : FreshSample(s)
                         /\ TransformIsFresh(Observed.tf)
                         /\ since # None /\ now - since >= TfStableDuration)
  /\ UNCHANGED <<now, sim, clock, epoch, samples, inputVars, epochStart>>

-------------------------------------------------------------------------------
\* The simulator and the publishers (external).
\* The timer fires at every instant; simulation time runs at most at wall speed.
TimePasses ==
  /\ ticked /\ now < MaxNow
  /\ now' = now + 1 /\ ticked' = FALSE
  /\ sim' \in {sim, sim + 1} /\ sim' <= MaxSim
  /\ verdict' = FALSE
  /\ UNCHANGED <<clock, epoch, samples, inputVars, tfVars, epochStart>>

SimulatorJumps ==
  /\ ~ticked
  /\ ~disturbed /\ disturbed' = TRUE
  /\ sim' \in {0, sim + ClockJumpTolerance + 2} /\ sim' # sim /\ sim' <= MaxSim
  /\ verdict' = FALSE
  /\ UNCHANGED <<now, ticked, clock, epoch, samples, transit, buffer,
                 tfVars, epochStart>>

Emit(s) ==
  /\ ~ticked
  /\ transit[s] = None
  /\ transit' = [transit EXCEPT ![s] = sim]
  /\ verdict' = FALSE
  /\ UNCHANGED <<now, sim, ticked, clock, epoch, samples, buffer, tfVars,
                 epochStart, disturbed>>

\* Localization broadcasts a transform, possibly future-dated by one unit; the
\* buffer keeps the newest stamp.
BroadcastTransform ==
  /\ ~ticked
  /\ \E pose \in Poses, ahead \in 0..1 :
       /\ sim + ahead > buffer.stamp
       /\ buffer' = [stamp |-> sim + ahead, pose |-> pose]
  /\ verdict' = FALSE
  /\ UNCHANGED <<now, sim, ticked, clock, epoch, samples, transit, tfVars,
                 epochStart, disturbed>>

Next == \/ MarkClock \/ MarkReset \/ Tick
        \/ \E s \in Sources : MarkSample(s) \/ Emit(s)
        \/ TimePasses \/ SimulatorJumps \/ BroadcastTransform

Spec == Init /\ [][Next]_vars

-------------------------------------------------------------------------------
\* Readiness rests on evidence received in this epoch only, with the whole stability
\* window inside it, and on none that was taken long ago: unless the simulator's clock
\* has jumped since its last sample, every stamp is within twice the freshness of
\* its time, once for the sample and once for the clock it was compared with.  A
\* sample of before a reset or a rollback that comes after it counts only if it is
\* as close as that.
EvidenceOfThisEpoch ==
  verdict =>
    /\ stableSince >= epochStart /\ tf.received >= epochStart
    /\ \A s \in Sources : samples[s].received >= epochStart
    /\ ~disturbed =>
         \A stamp \in {tf.stamp} \cup {samples[s].stamp : s \in Sources} :
           AbsoluteOf(sim - stamp) <= 2 * FreshnessTimeout

\* Readiness rests on a pose that was seen again and did not move.  "Re-reading
\* the same cached TF does not refresh its receipt time.  This prevents a dead
\* localization publisher from satisfying the gate": a transform stamped later
\* than the one that opened the window has been accepted, and no accepted pose
\* of the window was too far from its predecessor for both to be within tolerance.
WindowIsStill ==
  verdict => tf.stamp > opening /\ now - stillSince >= TfStableDuration

\* Dropped /clock samples do not look like a jump: an epoch begins only by a
\* reset or when the simulator's clock really was discontinuous.
EpochsHaveACause == [][epoch' # epoch => disturbed \/ clock' = clock]_vars
=============================================================================
