---------------------------- MODULE Nav2Inputs_proofs ----------------------------
(***************************************************************************)
(* What reaches Nav2, for every value of the constants: the verdict of the *)
(* readiness tracker rests on evidence of its epoch and on a pose that     *)
(* holds still, epochs begin for a reason, rejected risk is cleared, the   *)
(* scores of a prior never change the cost of the planner's path, the      *)
(* alternative routes are the first of all (by RouteGraph_proofs), and a   *)
(* campaign keeps its evidence (by TrialCampaign_proofs).                  *)
(***************************************************************************)
EXTENDS Nav2Inputs, FiniteSetTheorems, WellFoundedInduction, TLAPS

\* A behaviour begins in the initial states of the machines, and each of its steps
\* is one of a machine or leaves it alone.
LEMMA InputsInit == MachinesInit => Init /\ Risk!Init
BY DEF MachinesInit

LEMMA InputsNext ==
  [MachinesNext]_machinesVars
    => [Next]_vars /\ [Risk!Next]_riskVars /\ [Planner!Next]_plannerVars
BY DEF MachinesNext, machinesVars, Only

-------------------------------------------------------------------------------
(* Readiness *)

\* What was received was received in this epoch, and none of it in the future.
Received == {None} \cup (epochStart..now)

TransformOK(t) == t = NoTf \/ t \in [stamp : Nat \ {0}, received : epochStart..now, pose : Int]

ReadinessType ==
  /\ now \in Nat /\ sim \in Nat /\ epoch \in Nat /\ epochStart \in 0..now
  /\ clock \in [stamp : Nat \cup {None}, received : {None} \cup (0..now)]
  /\ samples \in [Sources -> [stamp : Int, received : Int, epoch : Int]]
  /\ \A s \in Sources : samples[s].received \in Received
  /\ transit \in [Sources -> Int]
  /\ buffer = NoTransform \/ buffer \in [stamp : Nat, pose : Int]

\* The clock the gate has seen is behind the simulator's by no more than the
\* time that passed, but for a jump it has not been told of.
ClockFollows ==
  ~disturbed /\ clock.stamp # None
    => clock.received # None /\ sim - clock.stamp \in 0..(now - clock.received)

\* A stability window: the pose is within the tolerance of the anchor, and it is
\* a later transform than the one that opened the window, unless that was now.
Window(t, base, since, first, still) ==
  /\ TransformOK(t) /\ base \in Int /\ since \in Received /\ first \in Int /\ still \in 0..now
  /\ since # None =>
       /\ t # NoTf /\ AbsoluteOf(t.pose - base) <= TfTolerance
       /\ still <= since
       /\ t.stamp > first \/ (t.stamp = first /\ t.received = since)

WindowOK == Window(tf, anchor, stableSince, opening, stillSince)

\* The verdict was reached now, from all of this.
VerdictOK ==
  verdict =>
    /\ stableSince # None /\ now - stableSince >= TfStableDuration
    /\ clock.stamp # None /\ Fresh(clock.received)
    /\ Fresh(tf.received) /\ AbsoluteOf(clock.stamp - tf.stamp) <= FreshnessTimeout
    /\ \A s \in Sources : /\ Fresh(samples[s].received)
                          /\ AbsoluteOf(clock.stamp - samples[s].stamp) <= FreshnessTimeout

ReadinessInv == ReadinessType /\ ClockFollows /\ WindowOK /\ VerdictOK

\* An observation leaves the window as it is, closes it, continues or opens it.
LEMMA ObservedWindow ==
  ASSUME ReadinessInv
  PROVE  Window(Observed.tf, Observed.anchor, Observed.since, Observed.opening, Observed.still)
<1> DEFINE older == tf.stamp # None /\ buffer.stamp < tf.stamp
           restart == older \/ anchor = None \/ stableSince = None \/ ~WithinTolerance
           new == [stamp |-> buffer.stamp, received |-> now, pose |-> buffer.pose]
           jumped == tf = NoTf \/ AbsoluteOf(buffer.pose - tf.pose) > 2 * TfTolerance
<1> USE ConfigAssumption DEF ReadinessInv, ReadinessType, WindowOK
<1>1. CASE \/ /\ Observed.tf = tf /\ Observed.anchor = anchor /\ Observed.since = stableSince
              /\ Observed.opening = opening /\ Observed.still = stillSince
  BY <1>1
<1>2. CASE /\ Observed.tf = NoTf /\ Observed.anchor = None /\ Observed.since = None
           /\ Observed.opening = None /\ Observed.still = stillSince
  BY <1>2 DEF Window, TransformOK, Received, None
<1>3. CASE /\ buffer # NoTransform /\ buffer.stamp > 0 /\ ~Reread
           /\ Observed.tf = new
           /\ Observed.anchor = IF restart THEN buffer.pose ELSE anchor
           /\ Observed.since = IF restart THEN now ELSE stableSince
           /\ Observed.opening = IF restart THEN buffer.stamp ELSE opening
           /\ Observed.still = IF jumped THEN now ELSE stillSince
  <2>1. /\ buffer.stamp \in Nat \ {0} /\ buffer.pose \in Int /\ new.stamp = buffer.stamp
        /\ new.received = now /\ new.pose = buffer.pose
        /\ new \in [stamp : Nat \ {0}, received : epochStart..now, pose : Int]
    BY <1>3
  <2>2. TransformOK(new) /\ new # NoTf
    BY <2>1 DEF TransformOK, NoTf, None
  <2>3. CASE restart
    <3>1. AbsoluteOf(buffer.pose - buffer.pose) <= TfTolerance
      BY <2>1 DEF AbsoluteOf
    <3>2. Observed.still \in 0..now
      BY <1>3 DEF Window
    <3> HIDE DEF restart, new
    <3> QED BY <1>3, <2>1, <2>2, <2>3, <3>1, <3>2 DEF Window, Received
  <2>4. CASE ~restart
    <3>1. /\ stableSince # None /\ WithinTolerance /\ tf # NoTf
          /\ ~(tf.stamp # None /\ buffer.stamp < tf.stamp)
      BY <2>4 DEF Window
    <3>2. /\ tf.stamp \in Nat \ {0} /\ tf.pose \in Int /\ anchor \in Int
          /\ AbsoluteOf(tf.pose - anchor) <= TfTolerance
          /\ AbsoluteOf(buffer.pose - anchor) <= TfTolerance
      BY <3>1 DEF Window, TransformOK, WithinTolerance
    <3>3. AbsoluteOf(buffer.pose - tf.pose) <= 2 * TfTolerance
      BY <2>1, <3>2 DEF AbsoluteOf
    <3>4. ~jumped
      BY <2>1, <3>1, <3>2, <3>3 DEF AbsoluteOf
    <3>5. buffer.stamp > tf.stamp
      BY <1>3, <2>1, <3>1, <3>2 DEF Reread, None
    <3>6. /\ Observed.tf = new /\ Observed.anchor = anchor /\ Observed.since = stableSince
          /\ Observed.opening = opening /\ Observed.still = stillSince
      BY <1>3, <2>4, <3>4
    <3> HIDE DEF restart, new, jumped
    <3> QED BY <2>1, <2>2, <3>1, <3>2, <3>5, <3>6 DEF Window
  <2> QED BY <2>3, <2>4
<1> QED BY <1>1, <1>2, <1>3, SMTT(60) DEF Observed

LEMMA ReadinessStep ==
  ReadinessInv /\ [Next]_vars
    => ReadinessInv' /\ (epoch' # epoch => disturbed \/ clock' = clock)
<1> SUFFICES ASSUME ReadinessInv, [Next]_vars
             PROVE  ReadinessInv' /\ (epoch' # epoch => disturbed \/ clock' = clock)
  OBVIOUS
<1> USE ConfigAssumption DEF ReadinessInv, None
\* The beginning of an epoch forgets everything.
<1>1. ASSUME StartNewEpoch, UNCHANGED <<now, sim, transit>>, verdict' = FALSE,
             clock' \in [stamp : Nat \cup {None}, received : {None} \cup (0..now)], ClockFollows'
      PROVE  ReadinessInv'
  <2>1. /\ epochStart' = now /\ epoch' = epoch + 1
        /\ samples' = [s \in Sources |-> NoSample] /\ tf' = NoTf
        /\ anchor' = None /\ stableSince' = None /\ opening' = None /\ stillSince' = stillSince
        /\ buffer' = NoTransform
    BY <1>1 DEF StartNewEpoch, ClearTransform
  <2>2. ReadinessType'
    BY <1>1, <2>1 DEF ReadinessType, Received, NoSample
  <2>3. WindowOK'
    BY <1>1, <2>1 DEF ReadinessType, WindowOK, Window, TransformOK, Received
  <2> QED BY <1>1, <2>2, <2>3 DEF VerdictOK
<1>2. CASE MarkClock
  <2>1. /\ clock' = [stamp |-> sim, received |-> now] /\ verdict' = FALSE
        /\ UNCHANGED <<now, sim, ticked, transit>>
    BY <1>2 DEF MarkClock
  <2>2. clock' \in [stamp : Nat \cup {None}, received : {None} \cup (0..now)] /\ ClockFollows'
    BY <2>1 DEF ReadinessType, ClockFollows
  <2>3. CASE EpochJump(sim) /\ StartNewEpoch
    <3>1. disturbed
      BY <2>3 DEF EpochJump, ClockFollows, ReadinessType
    <3> QED BY <1>1, <2>1, <2>2, <2>3, <3>1
  <2>4. CASE UNCHANGED <<epoch, samples, tfVars, buffer, epochStart>>
    <3>1. ReadinessType' /\ WindowOK'
      BY <2>1, <2>2, <2>4 DEF ReadinessType, WindowOK, Window, TransformOK, Received, tfVars
    <3> QED BY <2>1, <2>2, <2>4, <3>1 DEF VerdictOK
  <2> QED BY <1>2, <2>3, <2>4 DEF MarkClock
<1>3. CASE MarkReset
  <2>1. /\ StartNewEpoch /\ UNCHANGED <<now, sim, transit, clock, disturbed>> /\ verdict' = FALSE
    BY <1>3 DEF MarkReset
  <2> QED BY <1>1, <2>1 DEF ReadinessType, ClockFollows
<1>4. CASE \E s \in Sources : MarkSample(s)
  <2>1. PICK s \in Sources : MarkSample(s)
    BY <1>4
  <2>2. /\ transit' = [transit EXCEPT ![s] = None] /\ verdict' = FALSE
        /\ UNCHANGED <<now, sim, clock, epoch, buffer, tfVars, epochStart, disturbed>>
    BY <2>1 DEF MarkSample
  <2>3. \/ UNCHANGED samples
        \/ samples' = [samples EXCEPT ![s] =
                         [stamp |-> transit[s], received |-> now, epoch |-> epoch]]
    BY <2>1 DEF MarkSample
  <2>4. ReadinessType'
    <3>1. transit' \in [Sources -> Int]
      BY <2>2 DEF ReadinessType
    <3>2. /\ samples' \in [Sources -> [stamp : Int, received : Int, epoch : Int]]
          /\ \A q \in Sources : samples'[q].received \in {samples[q].received, now}
      BY <2>3 DEF ReadinessType
    <3>3. \A q \in Sources : samples'[q].received \in Received'
      BY <2>2, <3>2 DEF ReadinessType, Received
    <3> QED BY <2>2, <3>1, <3>2, <3>3 DEF ReadinessType, tfVars
  <2>5. WindowOK' /\ ClockFollows'
    BY <2>2 DEF WindowOK, Window, TransformOK, Received, tfVars, ClockFollows
  <2> QED BY <2>2, <2>4, <2>5 DEF VerdictOK
<1>5. CASE Tick
  <2>1. /\ tf' = Observed.tf /\ anchor' = Observed.anchor /\ stillSince' = Observed.still
        /\ UNCHANGED <<now, sim, clock, epoch, samples, transit, buffer, disturbed, epochStart>>
    BY <1>5 DEF Tick, inputVars
  <2>2. PICK evaluate \in {TRUE, EveryTickEvaluates} :
          LET since == IF evaluate /\ ~TransformIsFresh(Observed.tf) THEN None ELSE Observed.since
          IN /\ stableSince' = since
             /\ opening' = IF since = None THEN None ELSE Observed.opening
             /\ verdict' = (/\ evaluate
                            /\ clock.stamp > 0 /\ Fresh(clock.received)
                            /\ \A s \in Sources : FreshSample(s)
                            /\ TransformIsFresh(Observed.tf)
                            /\ since # None /\ now - since >= TfStableDuration)
    BY <1>5 DEF Tick
  <2>3. /\ stableSince' \in {None, Observed.since}
        /\ stableSince' # None => stableSince' = Observed.since /\ opening' = Observed.opening
        /\ opening' \in {None, Observed.opening}
    BY <2>2
  <2>4. WindowOK'
    <3>1. Window(Observed.tf, Observed.anchor, Observed.since, Observed.opening, Observed.still)
      BY ObservedWindow
    <3>2. WindowOK' <=> Window(Observed.tf, Observed.anchor, stableSince', opening', Observed.still)
      BY <2>1 DEF WindowOK, Window, TransformOK, Received
    <3> DEFINE o == Observed
    <3>3. Window(o.tf, o.anchor, o.since, o.opening, o.still)
      BY <3>1
    <3>4. /\ stableSince' \in {None, o.since} /\ opening' \in {None, o.opening}
          /\ stableSince' # None => stableSince' = o.since /\ opening' = o.opening
      BY <2>3
    <3> HIDE DEF o
    <3>5. Window(o.tf, o.anchor, stableSince', opening', o.still)
      BY <3>3, <3>4 DEF Window, Received
    <3> QED BY <3>2, <3>5 DEF o
  <2>5. ReadinessType' /\ ClockFollows'
    BY <2>1 DEF ReadinessType, ClockFollows, Received
  <2>6. VerdictOK'
    <3>1. verdict' =>
            /\ \A s \in Sources :
                 /\ Fresh(samples[s].received)
                 /\ AbsoluteOf(clock.stamp - samples[s].stamp) <= FreshnessTimeout
            /\ Fresh(Observed.tf.received) /\ Fresh(clock.received) /\ clock.stamp # None
            /\ AbsoluteOf(clock.stamp - Observed.tf.stamp) <= FreshnessTimeout
            /\ stableSince' # None /\ now - stableSince' >= TfStableDuration
      BY <2>2, Zenon DEF FreshSample, TransformIsFresh
    <3> QED BY <2>1, <3>1 DEF VerdictOK, Fresh
  <2> QED BY <2>1, <2>4, <2>5, <2>6
<1>6. CASE TimePasses
  <2>1. /\ now' = now + 1 /\ sim' \in {sim, sim + 1} /\ verdict' = FALSE
        /\ UNCHANGED <<clock, epoch, samples, transit, buffer, disturbed, tfVars, epochStart>>
    BY <1>6 DEF TimePasses, inputVars
  <2>2. ReadinessType'
    BY <2>1 DEF ReadinessType, Received
  <2>3. WindowOK' /\ ClockFollows'
    BY <2>1 DEF ReadinessType, WindowOK, Window, TransformOK, Received, tfVars, ClockFollows
  <2> QED BY <2>1, <2>2, <2>3 DEF VerdictOK
<1>7. CASE SimulatorJumps
  <2>1. /\ disturbed' /\ sim' \in Nat /\ verdict' = FALSE
        /\ UNCHANGED <<now, clock, epoch, samples, transit, buffer, tfVars, epochStart>>
    BY <1>7 DEF SimulatorJumps, ReadinessType
  <2> QED BY <2>1 DEF ReadinessType, WindowOK, Window, TransformOK, Received, tfVars,
     ClockFollows, VerdictOK
<1>8. CASE \E s \in Sources : Emit(s)
  <2>1. /\ \E s \in Sources : transit' = [transit EXCEPT ![s] = sim]
        /\ verdict' = FALSE
        /\ UNCHANGED <<now, sim, clock, epoch, samples, buffer, tfVars, epochStart, disturbed>>
    BY <1>8 DEF Emit
  <2> QED BY <2>1 DEF ReadinessType, WindowOK, Window, TransformOK, Received, tfVars,
     ClockFollows, VerdictOK
<1>9. CASE BroadcastTransform
  <2>1. /\ buffer' \in [stamp : Nat, pose : Int] /\ verdict' = FALSE
        /\ UNCHANGED <<now, sim, clock, epoch, samples, transit, tfVars, epochStart, disturbed>>
    BY <1>9, PoseAssumption DEF BroadcastTransform, ReadinessType
  <2> QED BY <2>1 DEF ReadinessType, WindowOK, Window, TransformOK, Received, tfVars,
     ClockFollows, VerdictOK
<1>10. CASE UNCHANGED vars
  BY <1>10 DEF vars, ReadinessType, WindowOK, Window, TransformOK, Received, tfVars, inputVars,
     ClockFollows, VerdictOK, Fresh
<1> QED
  BY <1>2, <1>3, <1>4, <1>5, <1>6, <1>7, <1>8, <1>9, <1>10 DEF Next

LEMMA ReadinessInvariant == MachinesSpec => []ReadinessInv
<1>1. MachinesInit => ReadinessInv
  <2> SUFFICES ASSUME Init PROVE ReadinessInv
    BY InputsInit
  <2> USE ConfigAssumption DEF Init
  <2>1. ReadinessType /\ ClockFollows /\ VerdictOK
    BY DEF ReadinessType, Received, NoSample, ClockFollows, VerdictOK, None
  <2>2. WindowOK
    BY DEF WindowOK, Window, TransformOK, Received, None
  <2> QED BY <2>1, <2>2 DEF ReadinessInv
<1> QED BY <1>1, InputsNext, ReadinessStep, PTL DEF MachinesSpec

\* A verdict of readiness rests on evidence that was received in this epoch, and
\* that was stamped within twice the freshness of the simulator's time unless its
\* clock has jumped since the last sample of it.
THEOREM EvidenceIsCurrent == MachinesSpec => []EvidenceOfThisEpoch
<1>1. ReadinessInv => EvidenceOfThisEpoch
  <2> SUFFICES ASSUME ReadinessInv, verdict PROVE EvidenceOfThisEpoch
    BY DEF EvidenceOfThisEpoch
  <2>1. /\ stableSince >= epochStart /\ tf.received >= epochStart
        /\ \A s \in Sources : samples[s].received >= epochStart
    BY DEF ReadinessInv, ReadinessType, WindowOK, Window, TransformOK, Received, VerdictOK, Fresh,
       NoTf, None
  <2>2. tf # NoTf /\ tf.stamp \in Int /\ \A s \in Sources : samples[s].stamp \in Int
    BY DEF ReadinessInv, ReadinessType, WindowOK, Window, TransformOK, VerdictOK
  <2>3. ASSUME NEW stamp \in Int, ~disturbed,
               AbsoluteOf(clock.stamp - stamp) <= FreshnessTimeout
        PROVE  AbsoluteOf(sim - stamp) <= 2 * FreshnessTimeout
    <3>1. /\ sim \in Int /\ clock.stamp \in Int /\ FreshnessTimeout \in Nat
          /\ sim - clock.stamp \in 0..FreshnessTimeout
      BY <2>3, ConfigAssumption DEF ReadinessInv, ReadinessType, ClockFollows, VerdictOK, Fresh
    <3> QED BY <2>3, <3>1 DEF AbsoluteOf
  <2>4. ~disturbed =>
          \A stamp \in {tf.stamp} \cup {samples[s].stamp : s \in Sources} :
            AbsoluteOf(sim - stamp) <= 2 * FreshnessTimeout
    BY <2>2, <2>3 DEF ReadinessInv, VerdictOK
  <2> QED BY <2>1, <2>4 DEF EvidenceOfThisEpoch
<1> QED BY <1>1, ReadinessInvariant, PTL

\* A verdict of readiness rests on a pose that was seen again and held still, if
\* a window lasts longer than a transform stays fresh, as in activation_gate.yaml
\* (freshness_timeout 0.50, tf_stable_duration 1.00): the code does not demand it.
THEOREM PoseHoldsStill ==
  ASSUME FreshnessTimeout < TfStableDuration
  PROVE  MachinesSpec => []WindowIsStill
<1>1. ReadinessInv => WindowIsStill
  BY ConfigAssumption DEF ReadinessInv, ReadinessType, WindowOK, Window, TransformOK, Received,
     VerdictOK, Fresh, WindowIsStill, NoTf, None
<1> QED BY <1>1, ReadinessInvariant, PTL

\* An epoch begins by a reset or by a real jump of the simulator's clock, however
\* many /clock samples are lost.
THEOREM NoSpuriousEpochs == MachinesSpec => EpochsHaveACause
<1>1. ReadinessInv /\ [MachinesNext]_machinesVars
        => [epoch' # epoch => disturbed \/ clock' = clock]_vars
  BY InputsNext, ReadinessStep
<1> QED BY <1>1, ReadinessInvariant, PTL DEF MachinesSpec, EpochsHaveACause

-------------------------------------------------------------------------------
(* RiskLayer *)

Message ==
  [cells : SUBSET Int, strong : SUBSET Int, at : Int, ok : BOOLEAN, fresh : BOOLEAN, epoch : Nat]

RiskType ==
  /\ layer \in {"cognitive", "local"} /\ step \in {"idle", "bounds", "costs", "write"}
  /\ refused \in 0..2 /\ resets \in Nat
  /\ previous \subseteq RiskCells /\ risky \subseteq RiskCells /\ window \subseteq RiskCells
  /\ extra \in BOOLEAN /\ clearing \in BOOLEAN
  /\ latest = Risk!NoGrid \/ latest \in Message

\* The local layer's costs lie in the box it remembers, or, once the window of an
\* update covers that box, in the window; an update that found nothing leaves none.
LocalInv ==
  layer = "local" =>
    /\ step \in {"idle", "bounds"} => risky \subseteq previous \cup stray
    /\ step \in {"costs", "write"} => risky \subseteq window \cup stray
    /\ step = "idle" /\ refused # 0 => risky \subseteq stray

\* The cognitive layer is updated as a whole or not at all, and while it has
\* costs something will make the next update, or this one, cover it: a message,
\* the mark of a reset, or a reset that is yet to leave its mark.  An update that
\* a reset empties of its bounds leaves the mark to the next one.
CognitiveInv ==
  layer = "cognitive" =>
    /\ step = "bounds" => window \in {{}, RiskCells}
    /\ step \in {"costs", "write"} => window = RiskCells
    /\ \/ risky = {} \/ latest # Risk!NoGrid \/ extra \/ clearing
       \/ step \in {"costs", "write"} \/ (step = "bounds" /\ window = RiskCells)
    /\ step = "write" /\ held.grid # Risk!NoGrid => latest # Risk!NoGrid \/ extra \/ clearing
    /\ step = "idle" /\ refused # 0 => risky = {} \/ extra \/ clearing
    /\ step = "bounds" /\ refused = 2 => risky = {} \/ window = RiskCells
    /\ step = "idle" /\ refused = 2 => risky = {}

RiskInv == RiskType /\ LocalInv /\ CognitiveInv

\* The box of cells of the costmap holds them.
LEMMA BoxHolds == ASSUME NEW s \in SUBSET RiskCells
                  PROVE  s \subseteq Risk!Box(s) /\ Risk!Box(s) \subseteq RiskCells
BY RiskAssumption DEF Risk!Box

LEMMA RiskStep == RiskInv /\ [Risk!Next]_riskVars => RiskInv'
<1> SUFFICES ASSUME RiskInv, [Risk!Next]_riskVars PROVE RiskInv'
  OBVIOUS
<1> USE DEF RiskInv
\* The callbacks change what is known and marked, and no costs.
<1>1. CASE Risk!Receive \/ Risk!ResetEvent \/ Risk!ResetMarks \/ Risk!SetEnabled \/ Risk!Expire
  <2>1. /\ UNCHANGED <<layer, previous, risky, step, window, refused, stray>>
        /\ resets' \in {resets, resets + 1} /\ extra' \in BOOLEAN /\ clearing' \in BOOLEAN
    BY <1>1 DEF RiskType, Risk!Receive, Risk!ResetEvent, Risk!ResetMarks, Risk!SetEnabled,
       Risk!Expire, Risk!updateVars, Risk!ResetAll
  <2>2. latest' = Risk!NoGrid \/ latest' \in Message
    <3>1. CASE Risk!Receive
      <4>1. PICK grid \in Grids, ok \in BOOLEAN, e \in 0..resets :
              latest' = [cells |-> grid.cells, strong |-> grid.strong, at |-> grid.at,
                         ok |-> ok, fresh |-> TRUE, epoch |-> e]
        BY <3>1 DEF Risk!Receive
      <4>2. grid.cells \in SUBSET Int /\ grid.strong \in SUBSET Int /\ grid.at \in Int
        BY RiskAssumption
      <4> QED BY <4>1, <4>2 DEF Message, RiskType
    <3>2. CASE Risk!Expire
      <4>1. CASE latest = Risk!NoGrid
        BY <3>2, <4>1 DEF Risk!Expire, Risk!NoGrid
      <4>2. CASE latest \in Message
        BY <3>2, <4>2 DEF Risk!Expire, Message
      <4> QED BY <4>1, <4>2 DEF RiskType
    <3> QED BY <1>1, <3>1, <3>2 DEF Risk!ResetEvent, Risk!ResetMarks, Risk!SetEnabled, RiskType
  <2>3. held'.grid # Risk!NoGrid => held.grid # Risk!NoGrid
    <3>1. held'.grid # held.grid => held.grid.fresh
      BY <1>1 DEF Risk!Receive, Risk!ResetEvent, Risk!ResetMarks, Risk!SetEnabled, Risk!Expire,
         Risk!updateVars
    <3> QED BY <3>1 DEF Risk!NoGrid
  <2>4. latest # Risk!NoGrid => latest' # Risk!NoGrid \/ clearing' \/ layer = "local"
    <3>1. CASE Risk!Expire
      <4>1. latest # Risk!NoGrid => latest \in Message
        BY DEF RiskType
      <4>2. latest \in Message => latest'.epoch \in Nat
        BY <3>1 DEF Risk!Expire, Message
      <4> QED BY <4>1, <4>2 DEF Risk!NoGrid, Risk!None
    <3>2. CASE Risk!Receive
      <4>1. latest'.epoch \in Nat
        BY <3>2 DEF Risk!Receive, RiskType
      <4> QED BY <4>1 DEF Risk!NoGrid, Risk!None
    <3>3. CASE Risk!ResetEvent
      BY <3>3 DEF Risk!ResetEvent, RiskType
    <3> QED BY <1>1, <3>1, <3>2, <3>3 DEF Risk!ResetMarks, Risk!SetEnabled
  <2>5. extra \/ clearing => extra' \/ clearing'
    BY <1>1 DEF Risk!Receive, Risk!ResetEvent, Risk!ResetMarks, Risk!SetEnabled, Risk!Expire,
       Risk!ResetAll
  <2>6. RiskType'
    BY <2>1, <2>2 DEF RiskType
  <2>7. LocalInv'
    BY <2>1 DEF LocalInv
  <2>8. CognitiveInv'
    BY <2>1, <2>3, <2>4, <2>5 DEF CognitiveInv, RiskType
  <2> QED BY <2>6, <2>7, <2>8
<1>2. CASE Risk!ClearCostmap
  <2>1. /\ step = "idle" /\ latest' = Risk!NoGrid /\ risky' = {} /\ stray' = {}
        /\ extra' = (extra \/ layer = "cognitive")
        /\ UNCHANGED <<layer, resets, clearing, previous, step, window, refused>>
    BY <1>2 DEF Risk!ClearCostmap
  <2>2. extra' \in BOOLEAN
    BY <2>1
  <2>3. RiskType'
    BY <2>1, <2>2 DEF RiskType
  <2> QED BY <2>1, <2>3 DEF LocalInv, CognitiveInv
\* The update.
<1>3. CASE Risk!Begin
  <2>1. /\ step = "idle" /\ step' = "bounds" /\ window' = (IF extra THEN RiskCells ELSE {})
        /\ refused' \in {0, 1, 2} /\ extra' = FALSE
        /\ refused' = 2 => ~clearing /\ refused # 0
        /\ UNCHANGED <<layer, latest, resets, clearing, previous, risky, stray>>
    BY <1>3 DEF Risk!Begin, RiskType
  <2>2. RiskType' /\ LocalInv'
    <3>1. extra' \in BOOLEAN
      BY <2>1
    <3>2. window' \subseteq RiskCells
      BY <2>1
    <3> QED BY <2>1, <3>1, <3>2 DEF RiskType, LocalInv
  <2>3. CognitiveInv'
    BY <2>1 DEF RiskType, CognitiveInv
  <2> QED BY <2>2, <2>3
<1>4. CASE Risk!UpdateBounds
  <2>1. PICK others \in {{}, RiskCells}, current \in SUBSET RiskCells :
          /\ previous' = current
          /\ window' = Risk!Box(window \cup Risk!Asked(current) \cup others)
    <3>1. \A s : Risk!Box(s) \subseteq RiskCells
      BY DEF Risk!Box
    <3> QED BY <1>4, <3>1 DEF Risk!UpdateBounds
  <2>2. /\ step = "bounds" /\ step' = IF window' = {} THEN "idle" ELSE "costs"
        /\ UNCHANGED <<layer, latest, resets, extra, clearing, risky, refused, stray>>
    BY <1>4 DEF Risk!UpdateBounds
  <2> DEFINE asked == Risk!Asked(current)
             all == window \cup asked \cup others
  <2>3. /\ asked \subseteq RiskCells
        /\ layer = "local" => previous \cup current \subseteq asked
        /\ layer = "cognitive" => asked = IF latest # Risk!NoGrid THEN RiskCells ELSE {}
    BY DEF Risk!Asked, RiskType
  <2> HIDE DEF asked
  <2>4. all \in SUBSET RiskCells
    BY <2>3 DEF RiskType
  <2>5. all \subseteq window' /\ window' \subseteq RiskCells /\ (all = {} => window' = {})
    <3>1. window' = Risk!Box(all)
      BY <2>1 DEF asked
    <3>2. all \subseteq Risk!Box(all) /\ Risk!Box(all) \subseteq RiskCells
      BY <2>4, BoxHolds
    <3> QED BY <3>1, <3>2 DEF Risk!Box
  <2>6. RiskType'
    BY <2>1, <2>2, <2>5 DEF RiskType
  <2>7. LocalInv'
    BY <2>1, <2>2, <2>3, <2>5 DEF LocalInv
  <2>8. CognitiveInv'
    <3> SUFFICES ASSUME layer = "cognitive" PROVE CognitiveInv'
      BY <2>2 DEF CognitiveInv
    <3>1. all \in {{}, RiskCells} /\ (window = RiskCells \/ latest # Risk!NoGrid => all = RiskCells)
      BY <2>2, <2>3, <2>4 DEF CognitiveInv, RiskType
    <3>2. /\ window' \in {{}, RiskCells}
          /\ window = RiskCells \/ latest # Risk!NoGrid => window' = RiskCells
      BY <2>5, <3>1
    <3>3. risky' = risky /\ (RiskCells = {} => risky = {})
      BY <2>2 DEF RiskType
    <3> HIDE DEF all
    <3> QED BY <2>2, <3>2, <3>3 DEF CognitiveInv
  <2> QED BY <2>6, <2>7, <2>8
<1>5. CASE Risk!ReadGrid
  <2>1. /\ step = "costs" /\ step' = "write" /\ held'.grid \in {latest, Risk!NoGrid}
        /\ UNCHANGED <<layer, latest, resets, extra, clearing, previous, risky, window, refused,
                       stray>>
    BY <1>5 DEF Risk!ReadGrid
  <2>2. RiskType' /\ LocalInv'
    BY <2>1 DEF RiskType, LocalInv
  <2> QED BY <2>1, <2>2 DEF CognitiveInv
<1>6. CASE Risk!UpdateCosts
  <2>1. PICK seen \in BOOLEAN :
          LET cells == Risk!RaisedCells(seen)
              written == window \cap Risk!Projected(cells, held.grid.at)
          IN /\ risky' \in {(risky \ window) \cup w :
                             w \in {written} \cup (IF layer = "local" THEN {} ELSE {{}})}
             /\ stray' = IF layer = "local"
                         THEN (stray \ window) \cup (written \ previous) ELSE {}
             /\ refused' = IF Risk!Valid THEN 0 ELSE refused
    BY <1>6 DEF Risk!UpdateCosts
  <2>2. /\ step = "write" /\ step' = "idle"
        /\ UNCHANGED <<layer, latest, resets, extra, clearing, previous, window>>
    BY <1>6 DEF Risk!UpdateCosts
  <2> DEFINE written == window \cap Risk!Projected(Risk!RaisedCells(seen), held.grid.at)
  <2>3. ~Risk!Valid => written = {}
    <3>1. ~Risk!Valid => Risk!RaisedCells(seen) = {}
      BY DEF Risk!RaisedCells
    <3> QED BY <3>1 DEF Risk!Projected
  <2>4. /\ written \subseteq window
        /\ risky' = (risky \ window) \cup written \/ (risky' = risky \ window /\ layer # "local")
        /\ layer = "local" => stray' = (stray \ window) \cup (written \ previous)
        /\ refused' = IF Risk!Valid THEN 0 ELSE refused
    BY <2>1
  <2> HIDE DEF written
  <2>5. RiskType'
    BY <2>2, <2>4 DEF RiskType
  <2>6. LocalInv'
    BY <2>2, <2>3, <2>4 DEF LocalInv
  <2>7. CognitiveInv'
    <3> SUFFICES ASSUME layer = "cognitive" PROVE CognitiveInv'
      BY <2>2 DEF CognitiveInv
    <3>1. window = RiskCells /\ risky \subseteq RiskCells
      BY <2>2 DEF CognitiveInv, RiskType
    <3>2. CASE Risk!Valid
      <4>1. refused' = 0 /\ held.grid # Risk!NoGrid
        BY <2>4, <3>2 DEF Risk!Valid
      <4>2. latest # Risk!NoGrid \/ extra \/ clearing
        BY <2>2, <4>1 DEF CognitiveInv
      <4> QED BY <2>2, <4>1, <4>2 DEF CognitiveInv
    <3>3. CASE ~Risk!Valid
      <4>1. risky' = {}
        BY <2>3, <2>4, <3>1, <3>3
      <4> QED BY <2>2, <4>1 DEF CognitiveInv
    <3> QED BY <3>2, <3>3
  <2> QED BY <2>5, <2>6, <2>7
<1>7. CASE UNCHANGED riskVars
  BY <1>7 DEF riskVars, RiskType, LocalInv, CognitiveInv
<1> QED BY <1>1, <1>2, <1>3, <1>4, <1>5, <1>6, <1>7 DEF Risk!Next

\* After an update of the local layer, or two of the cognitive one, that began and
\* ended without an acceptable message no cell of the layer is left, but for the
\* local layer's stray ones, whatever the callbacks do in between, however many
\* resets and messages there are.
THEOREM RejectedRiskIsCleared == MachinesSpec => []RejectedIsCleared
<1>1. MachinesInit => RiskInv
  <2> SUFFICES ASSUME Risk!Init PROVE RiskInv
    BY InputsInit
  <2>1. RiskType
    <3>1. extra \in BOOLEAN /\ clearing \in BOOLEAN
      BY DEF Risk!Init
    <3> QED BY <3>1, RiskAssumption DEF Risk!Init, RiskType
  <2> QED BY <2>1 DEF Risk!Init, RiskInv, LocalInv, CognitiveInv
<1>2. RiskInv => RejectedIsCleared
  BY DEF RiskInv, RiskType, LocalInv, CognitiveInv, RejectedIsCleared, Risk!RejectedIsCleared
<1> QED BY <1>1, <1>2, InputsNext, RiskStep, PTL DEF MachinesSpec

-------------------------------------------------------------------------------
(* Natural numbers *)

LEMMA LeastNatural ==
  ASSUME NEW T \in SUBSET Nat, T # {}
  PROVE  \E m \in T : \A n \in T : m <= n
<1>1. PICK m \in T : \A n \in T : ~(<<n, m>> \in OpToRel(<, Nat))
  BY NatLessThanWellFounded, WFMin
<1>2. \A n \in T : ~(n < m)
  BY <1>1 DEF OpToRel
<1> QED BY <1>2

\* Some element of a set has the least value, and there is one among these with
\* the least second value, and so on.
LEMMA LeastBy ==
  ASSUME NEW S, S # {}, NEW f, \A x \in S : f[x] \in Nat
  PROVE  \E x \in S : \A y \in S : f[x] <= f[y]
<1> DEFINE T == {f[x] : x \in S}
<1>1. T \in SUBSET Nat /\ T # {}
  OBVIOUS
<1>2. \E m \in T : \A n \in T : m <= n
  <2> HIDE DEF T
  <2> QED BY <1>1, LeastNatural
<1> QED BY <1>2

LEMMA LeastByThree ==
  ASSUME NEW S, S # {}, NEW f, NEW g, NEW h,
         \A x \in S : f[x] \in Nat /\ g[x] \in Nat /\ h[x] \in Nat
  PROVE  \E x \in S : \A y \in S :
           \/ f[x] < f[y]
           \/ f[x] = f[y] /\ g[x] < g[y]
           \/ f[x] = f[y] /\ g[x] = g[y] /\ h[x] <= h[y]
<1>1. PICK a \in S : \A y \in S : f[a] <= f[y]
  BY LeastBy
<1> DEFINE A == {x \in S : f[x] = f[a]}
<1>2. PICK b \in A : \A y \in A : g[b] <= g[y]
  <2>1. A # {} /\ \A x \in A : g[x] \in Nat
    OBVIOUS
  <2> HIDE DEF A
  <2> QED BY <2>1, LeastBy
<1> DEFINE B == {x \in A : g[x] = g[b]}
<1>3. PICK c \in B : \A y \in B : h[c] <= h[y]
  <2>1. B # {} /\ \A x \in B : h[x] \in Nat
    OBVIOUS
  <2> HIDE DEF B
  <2> QED BY <2>1, LeastBy
<1> QED BY <1>1, <1>2, <1>3

\* The root of a hundredth of a number, rounded up, exists.
LEMMA RootUp ==
  ASSUME NEW n \in Nat, NEW x \in Nat, 100 * (n * n) >= x
  PROVE  \E h \in 0..n : 100 * (h * h) >= x /\ (h = 0 \/ 100 * ((h - 1) * (h - 1)) < x)
<1> DEFINE T == {h \in Nat : 100 * (h * h) >= x}
<1>1. PICK m \in T : \A k \in T : m <= k
  <2>1. T \in SUBSET Nat /\ n \in T
    OBVIOUS
  <2> HIDE DEF T
  <2> QED BY <2>1, LeastNatural
<1>2. m \in 0..n
  BY <1>1
<1>3. CASE m = 0
  BY <1>1, <1>2, <1>3
<1>4. CASE m # 0
  <2>1. m - 1 \in Nat /\ m - 1 \notin T
    BY <1>1, <1>4
  <2>2. (m - 1) * (m - 1) \in Int
    BY <2>1
  <2>3. 100 * ((m - 1) * (m - 1)) < x
    BY <2>1, <2>2
  <2> QED BY <1>1, <1>2, <2>3
<1> QED BY <1>3, <1>4

\* Products grow with their factors.
LEMMA Larger ==
  ASSUME NEW a \in Nat, NEW b \in Nat
  PROVE  /\ a * b \in Nat
         /\ a < b => a * a < b * b
         /\ a <= b => a * a <= b * b
<1>1. a * b \in Nat
  BY SMT
<1>2. a < b => a * a < b * b
  BY SMT
<1>3. a <= b => a * a <= b * b
  BY SMT
<1> QED BY <1>1, <1>2, <1>3

\* Distances in tenths, rounded up, differ by 10 at most along a straight step and by
\* 14 along a diagonal one: 100 * 10 * 10 > 98 * 10 * 10, and 100 * 14 * 14 =
\* 98 * (10 * 10 + 10 * 10).
LEMMA StraightStep ==
  ASSUME NEW a \in Nat, NEW b \in Nat, NEW c \in Nat, NEW d \in Nat, NEW h \in Nat, NEW k \in Nat,
         c <= a + 10, d <= b,
         100 * (k * k) >= 98 * (a * a + b * b),
         h = 0 \/ 100 * ((h - 1) * (h - 1)) < 98 * (c * c + d * d)
  PROVE  h <= k + 10
<1> SUFFICES ASSUME h > k + 10 PROVE FALSE
  OBVIOUS
<1>1. (k + 10) * (k + 10) <= (h - 1) * (h - 1)
  BY Larger, k + 10 \in Nat, h - 1 \in Nat, k + 10 <= h - 1
<1>2. c * c <= (a + 10) * (a + 10) /\ d * d <= b * b
  BY Larger, a + 10 \in Nat
<1>3. (a + 10) * (a + 10) = a * a + 20 * a + 100 /\ (k + 10) * (k + 10) = k * k + 20 * k + 100
  BY SMT
<1> DEFINE kk == k * k  aa == a * a  bb == b * b  cc == c * c  dd == d * d
           hh == (h - 1) * (h - 1)
<1>4. kk \in Nat /\ aa \in Nat /\ bb \in Nat /\ cc \in Nat /\ dd \in Nat /\ hh \in Nat
  BY Larger, h - 1 \in Nat
<1>5. /\ kk + 20 * k + 100 <= hh /\ 100 * hh < 98 * (cc + dd)
      /\ cc <= aa + 20 * a + 100 /\ dd <= bb /\ 100 * kk >= 98 * (aa + bb)
  <2>1. h # 0
    OBVIOUS
  <2> QED BY <1>1, <1>2, <1>3, <2>1
<1>6. 50 * k < 49 * a
  <2> HIDE DEF kk, aa, bb, cc, dd, hh
  <2> QED BY <1>4, <1>5
<1>7. (50 * k) * (50 * k) < (49 * a) * (49 * a)
  BY <1>6, Larger, 50 * k \in Nat, 49 * a \in Nat
<1>8. (50 * k) * (50 * k) = 2500 * kk /\ (49 * a) * (49 * a) = 2401 * aa
  BY SMT
<1> HIDE DEF kk, aa, bb, cc, dd, hh
<1> QED BY <1>4, <1>5, <1>7, <1>8

LEMMA DiagonalStep ==
  ASSUME NEW a \in Nat, NEW b \in Nat, NEW c \in Nat, NEW d \in Nat, NEW h \in Nat, NEW k \in Nat,
         c <= a + 10, d <= b + 10,
         100 * (k * k) >= 98 * (a * a + b * b),
         h = 0 \/ 100 * ((h - 1) * (h - 1)) < 98 * (c * c + d * d)
  PROVE  h <= k + 14
<1> SUFFICES ASSUME h > k + 14 PROVE FALSE
  OBVIOUS
<1>1. (k + 14) * (k + 14) <= (h - 1) * (h - 1)
  BY Larger, k + 14 \in Nat, h - 1 \in Nat, k + 14 <= h - 1
<1>2. c * c <= (a + 10) * (a + 10) /\ d * d <= (b + 10) * (b + 10)
  BY Larger, a + 10 \in Nat, b + 10 \in Nat
<1>3. /\ (a + 10) * (a + 10) = a * a + 20 * a + 100 /\ (b + 10) * (b + 10) = b * b + 20 * b + 100
      /\ (k + 14) * (k + 14) = k * k + 28 * k + 196
  BY SMT
<1> DEFINE kk == k * k  aa == a * a  bb == b * b  ab == a * b  cc == c * c  dd == d * d
           hh == (h - 1) * (h - 1)
<1>4. /\ kk \in Nat /\ aa \in Nat /\ bb \in Nat /\ ab \in Nat /\ cc \in Nat /\ dd \in Nat
      /\ hh \in Nat
  BY Larger, h - 1 \in Nat
<1>5. /\ kk + 28 * k + 196 <= hh /\ 100 * hh < 98 * (cc + dd)
      /\ cc <= aa + 20 * a + 100 /\ dd <= bb + 20 * b + 100 /\ 100 * kk >= 98 * (aa + bb)
  <2>1. h # 0
    OBVIOUS
  <2> QED BY <1>1, <1>2, <1>3, <2>1
<1>6. 10 * k < 7 * (a + b)
  <2> HIDE DEF kk, aa, bb, cc, dd, hh
  <2> QED BY <1>4, <1>5
<1>7. (10 * k) * (10 * k) < (7 * (a + b)) * (7 * (a + b))
  BY <1>6, Larger, 10 * k \in Nat, 7 * (a + b) \in Nat
<1>8. /\ (10 * k) * (10 * k) = 100 * kk
      /\ (7 * (a + b)) * (7 * (a + b)) = 49 * aa + 98 * ab + 49 * bb
  BY SMT
<1>9. (a - b) * (a - b) = aa - 2 * ab + bb /\ (a - b) * (a - b) >= 0
  <2>1. (a - b) * (a - b) = aa - 2 * ab + bb
    BY SMT
  <2>2. CASE a >= b
    BY <2>2, Larger, a - b \in Nat
  <2>3. CASE a < b
    <3>1. (b - a) * (b - a) \in Nat
      BY <2>3, Larger, b - a \in Nat
    <3>2. (b - a) * (b - a) = (a - b) * (a - b)
      BY SMT
    <3> QED BY <3>1, <3>2
  <2> QED BY <2>1, <2>2, <2>3
<1> HIDE DEF kk, aa, bb, cc, dd, ab, hh
<1> QED BY <1>4, <1>5, <1>7, <1>8, <1>9

-------------------------------------------------------------------------------
(* TieBreakPlanner *)

\* The costmap and its goal, a point.
MapType ==
  /\ map.blocked \subseteq Planner!Cells /\ map.costly \subseteq Planner!Cells
  /\ goal \in (0..(10 * Width - 1)) \X (0..(10 * Height - 1))

LEMMA GoalOnMap == ASSUME MapType PROVE Planner!GoalCell \in Planner!Cells
<1>1. /\ goal[1] \in 0..(10 * Width - 1) /\ goal[2] \in 0..(10 * Height - 1)
      /\ Width \in Nat /\ Height \in Nat
  BY PlannerAssumption DEF MapType
<1>2. goal[1] \div 10 \in 0..(Width - 1) /\ goal[2] \div 10 \in 0..(Height - 1)
  BY <1>1
<1> QED BY <1>2 DEF Planner!GoalCell, Planner!Cells

\* The distance along one axis.
LEMMA Distances ==
  ASSUME NEW a \in Int, NEW b \in Int
  PROVE  Planner!Away(a, b) \in Nat /\ Planner!Away(a, b) = Planner!Away(b, a)
BY DEF Planner!Away

\* What the search relies on: the heuristic is a natural number, and it falls by no
\* more than the cost of a step.
LEMMA HeuristicType ==
  ASSUME MapType, NEW c \in Planner!Cells
  PROVE  LET h == Planner!Heuristic(c)
             dx == Planner!Away(10 * c[1], goal[1])
             dy == Planner!Away(10 * c[2], goal[2])
         IN /\ h \in Nat /\ dx \in Nat /\ dy \in Nat
            /\ 100 * (h * h) >= 98 * (dx * dx + dy * dy)
            /\ h = 0 \/ 100 * ((h - 1) * (h - 1)) < 98 * (dx * dx + dy * dy)
<1> DEFINE dx == Planner!Away(10 * c[1], goal[1])
           dy == Planner!Away(10 * c[2], goal[2])
           n == 10 * (Width + Height)
           x == 98 * (dx * dx + dy * dy)
<1>1. dx \in 0..(10 * Width) /\ dy \in 0..(10 * Height) /\ Width \in Nat /\ Height \in Nat
  <2>1. /\ c[1] \in 0..(Width - 1) /\ c[2] \in 0..(Height - 1)
        /\ goal[1] \in 0..(10 * Width - 1) /\ goal[2] \in 0..(10 * Height - 1)
        /\ Width \in Nat /\ Height \in Nat
    BY PlannerAssumption DEF MapType, Planner!Cells
  <2> QED BY <2>1 DEF Planner!Away
<1>2. n \in Nat /\ dx + dy \in Nat /\ dx + dy <= n
  BY <1>1
<1>3. /\ dx * dx \in Nat /\ dy * dy \in Nat /\ dx * dy \in Nat
      /\ (dx + dy) * (dx + dy) = dx * dx + 2 * (dx * dy) + dy * dy
  <2> HIDE DEF dx, dy
  <2>1. dx * dx \in Nat /\ dy * dy \in Nat /\ dx * dy \in Nat
    BY <1>1, Larger
  <2>2. (dx + dy) * (dx + dy) = dx * dx + 2 * (dx * dy) + dy * dy
    BY <1>1, SMT
  <2> QED BY <2>1, <2>2
<1>4. x \in Nat /\ 100 * (n * n) >= x
  <2>1. (dx + dy) * (dx + dy) <= n * n
    BY <1>2, Larger
  <2>2. n * n \in Nat
    BY <1>2, Larger
  <2> HIDE DEF dx, dy, n
  <2> QED BY <1>3, <2>1, <2>2
<1>5. \E h \in 0..n : 100 * (h * h) >= x /\ (h = 0 \/ 100 * ((h - 1) * (h - 1)) < x)
  <2> HIDE DEF x, n
  <2> QED BY <1>2, <1>4, RootUp
<1>6. Planner!Heuristic(c) =
        CHOOSE h \in 0..n : 100 * (h * h) >= x /\ (h = 0 \/ 100 * ((h - 1) * (h - 1)) < x)
  BY DEF Planner!Heuristic
<1> HIDE DEF dx, dy, n, x
<1>7. LET h == Planner!Heuristic(c)
      IN h \in 0..n /\ 100 * (h * h) >= x /\ (h = 0 \/ 100 * ((h - 1) * (h - 1)) < x)
  BY <1>5, <1>6
<1> QED BY <1>1, <1>2, <1>7 DEF dx, dy, x

LEMMA StepCost ==
  ASSUME MapType, NEW c \in Planner!Cells, NEW d \in Planner!Adjacent(c)
  PROVE  /\ d \in Planner!Cells
         /\ Planner!Traversal(d, c) \in Nat /\ Planner!Traversal(d, c) >= 10
         /\ d[1] # c[1] /\ d[2] # c[2] =>
              Planner!Traversal(d, c) = 14 + (IF d \in map.costly THEN Costly ELSE 0)
         /\ ~(d[1] # c[1] /\ d[2] # c[2]) =>
              Planner!Traversal(d, c) = 10 + (IF d \in map.costly THEN Costly ELSE 0)
BY PlannerAssumption DEF Planner!Adjacent, Planner!Traversal

LEMMA Consistent ==
  ASSUME MapType, NEW c \in Planner!Cells, NEW d \in Planner!Adjacent(c)
  PROVE  Planner!Heuristic(c) <= Planner!Heuristic(d) + Planner!Traversal(d, c)
<1> DEFINE cx == Planner!Away(10 * c[1], goal[1])
           cy == Planner!Away(10 * c[2], goal[2])
           dx == Planner!Away(10 * d[1], goal[1])
           dy == Planner!Away(10 * d[2], goal[2])
           h == Planner!Heuristic(c)
           k == Planner!Heuristic(d)
           w == Planner!Traversal(d, c)
<1>1. d \in Planner!Cells /\ w \in Nat
  BY StepCost
<1>2. /\ h \in Nat /\ cx \in Nat /\ cy \in Nat
      /\ h = 0 \/ 100 * ((h - 1) * (h - 1)) < 98 * (cx * cx + cy * cy)
  BY HeuristicType
<1>3. k \in Nat /\ dx \in Nat /\ dy \in Nat /\ 100 * (k * k) >= 98 * (dx * dx + dy * dy)
  BY <1>1, HeuristicType
<1>4. /\ cx <= dx + 10 /\ cy <= dy + 10
      /\ c[1] = d[1] => cx = dx
      /\ c[2] = d[2] => cy = dy
  <2>1. /\ c[1] \in Int /\ c[2] \in Int /\ d[1] \in Int /\ d[2] \in Int
        /\ goal[1] \in Int /\ goal[2] \in Int
    BY <1>1 DEF MapType, Planner!Cells
  <2>2. /\ c[1] <= d[1] + 1 /\ d[1] <= c[1] + 1
        /\ c[2] <= d[2] + 1 /\ d[2] <= c[2] + 1
    BY <2>1 DEF Planner!Adjacent, Planner!Away
  <2> QED BY <2>1, <2>2 DEF Planner!Away
<1> HIDE DEF cx, cy, dx, dy, h, k
<1>5. CASE c[1] = d[1]
  <2>1. dy * dy + dx * dx = dx * dx + dy * dy /\ cy * cy + cx * cx = cx * cx + cy * cy
    <3>1. cx * cx \in Nat /\ cy * cy \in Nat /\ dx * dx \in Nat /\ dy * dy \in Nat
      BY <1>2, <1>3, Larger
    <3> QED BY <3>1
  <2>2. h <= k + 10
    <3>1. /\ 100 * (k * k) >= 98 * (dy * dy + dx * dx)
          /\ h = 0 \/ 100 * ((h - 1) * (h - 1)) < 98 * (cy * cy + cx * cx)
      BY <1>2, <1>3, <2>1
    <3> QED BY <1>2, <1>3, <1>4, <1>5, <3>1, StraightStep
  <2> QED BY <1>1, <1>2, <1>3, <2>2, StepCost DEF h, k
<1>6. CASE c[2] = d[2]
  <2>1. h <= k + 10
    BY <1>2, <1>3, <1>4, <1>6, StraightStep
  <2> QED BY <1>1, <1>2, <1>3, <2>1, StepCost DEF h, k
<1>7. CASE c[1] # d[1] /\ c[2] # d[2]
  <2>1. h <= k + 14
    BY <1>2, <1>3, <1>4, DiagonalStep
  <2>2. w >= 14
    BY <1>7, StepCost, PlannerAssumption
  <2> QED BY <1>1, <1>2, <1>3, <2>1, <2>2 DEF h, k
<1> QED BY <1>5, <1>6, <1>7 DEF h, k, w

\* A search is under way.
Searching == planStage \in {"plain", "scored"}

\* What depends on nothing but the costmap and the goal.
LEMMA SameMap ==
  ASSUME UNCHANGED <<map, goal>>
  PROVE  /\ Planner!GoalCell' = Planner!GoalCell
         /\ \A c \in Planner!Cells :
              /\ Planner!Adjacent(c)' = Planner!Adjacent(c)
              /\ Planner!Heuristic(c)' = Planner!Heuristic(c)
              /\ \A d \in Planner!Cells : Planner!Traversal(d, c)' = Planner!Traversal(d, c)
<1>1. \A c \in Planner!Cells : Planner!Adjacent(c)' = Planner!Adjacent(c)
  BY DEF Planner!Adjacent, Planner!Free
<1>2. \A c \in Planner!Cells : Planner!Heuristic(c)' = Planner!Heuristic(c)
  BY DEF Planner!Heuristic, Planner!Away
<1>3. \A c, d \in Planner!Cells : Planner!Traversal(d, c)' = Planner!Traversal(d, c)
  BY DEF Planner!Traversal
<1>4. Planner!GoalCell' = Planner!GoalCell
  BY DEF Planner!GoalCell
<1> QED BY <1>1, <1>2, <1>3, <1>4

\* A potential of the costmap rises along a step by no more than its cost, so
\* what it has at the goal's cell no path can fall below; the highest one is the cost of
\* the cheapest path.
Potentials ==
  {p \in [Planner!Cells -> Int] :
     /\ p[Planner!Start] <= 0
     /\ \A c \in Planner!Cells : p[c] <= Planner!Infinity
     /\ \A c \in Planner!Cells : \A d \in Planner!Adjacent(c) :
          p[d] <= p[c] + Planner!Traversal(d, c)}

LeastCost(a) ==
  /\ a \in Int
  /\ \A p \in Potentials : p[Planner!GoalCell] <= a
  /\ \E p \in Potentials : p[Planner!GoalCell] = a

\* There is one least cost, and what it is depends on nothing but the costmap.
LEMMA OneLeastCost ==
  ASSUME MapType, NEW a, NEW b, LeastCost(a), LeastCost(b)
  PROVE  a = b
<1>1. PICK p \in Potentials : p[Planner!GoalCell] = a
  BY DEF LeastCost
<1>2. PICK q \in Potentials : q[Planner!GoalCell] = b
  BY DEF LeastCost
<1>3. a <= b /\ b <= a
  BY <1>1, <1>2 DEF LeastCost
<1> QED BY <1>3 DEF LeastCost

LEMMA SamePotentials ==
  ASSUME UNCHANGED <<map, goal>>
  PROVE  Potentials' = Potentials
<1>1. \A c \in Planner!Cells : Planner!Adjacent(c) \subseteq Planner!Cells
  BY DEF Planner!Adjacent
<1> QED BY <1>1, SameMap DEF Potentials

Entries == [cell : Planner!Cells, f : Nat, tie : {0, 1}, serial : Nat]

SearchType ==
  /\ Planner!GoalCell # Planner!Start /\ serial \in Nat /\ approach \in Nat
  /\ open \subseteq Entries
  /\ visited \subseteq Planner!Cells /\ reached \in Planner!Cells
  /\ accumulated \in [Planner!Cells -> 0..Planner!Infinity] /\ accumulated[Planner!Start] = 0
  /\ best \in [h : Nat, cell : Planner!Cells]

\* A search that was decided ends at a cell that it has reached, and at the goal's
\* when that was expanded.
Ends ==
  /\ best.h = Planner!Infinity \/ best.cell # Planner!Start
  /\ best.cell = Planner!Start \/ accumulated[best.cell] < Planner!Infinity
  /\ reached = Planner!Start \/ accumulated[reached] < Planner!Infinity
  /\ reached = Planner!Start => approach < MaxApproach
  /\ Planner!GoalCell \in visited => reached = Planner!GoalCell

\* Before the first iteration only the start is queued.
Begun ==
  visited = {} =>
    /\ \A e \in open : e.cell = Planner!Start
    /\ \A d, e \in open : d = e
    /\ \A c \in Planner!Cells \ {Planner!Start} : accumulated[c] = Planner!Infinity

\* Of the entries of cells that are yet to be expanded.
Pending(e) == e \in open /\ e.cell \notin visited

\* Such a cell is queued with its cost, and older entries cost more.
QueueOK ==
  /\ \A e \in open : Pending(e) =>
       /\ accumulated[e.cell] < Planner!Infinity
       /\ accumulated[e.cell] + Planner!Heuristic(e.cell) <= e.f
  /\ \A c \in Planner!Cells \ visited : accumulated[c] < Planner!Infinity =>
       \E e \in open : e.cell = c /\ e.f = accumulated[c] + Planner!Heuristic(c)

\* Cells are expanded in the order of their f-costs, and so were all the ways on.
VisitedOK ==
  \A c \in visited :
    /\ \A d \in Planner!Adjacent(c) : accumulated[d] <= accumulated[c] + Planner!Traversal(d, c)
    /\ \A e \in open : Pending(e) => accumulated[c] + Planner!Heuristic(c) <= e.f

Frontier ==
  reached = Planner!Start /\ visited # {} => Planner!Start \in visited /\ QueueOK /\ VisitedOK

\* No cost is less than that of the cheapest path, and when the goal's cell was
\* expanded its cost is that.
CostsOK ==
  /\ \A p \in Potentials : \A c \in Planner!Cells : p[c] <= accumulated[c]
  /\ Planner!GoalCell \in visited => LeastCost(accumulated[Planner!GoalCell])

SearchInv == SearchType /\ Ends /\ Begun /\ Frontier /\ CostsOK

BaselineOK ==
  planStage = "scored" /\ Planner!GoalCell \in baseline.expanded => LeastCost(baseline.cost)

PlannerInv == MapType /\ (Searching => SearchInv) /\ BaselineOK

\* The queue's top exists and has the least f-cost.
LEMMA TopIsLeast ==
  ASSUME open \subseteq Entries, open # {}
  PROVE  Planner!Top \in open /\ \A e \in open : Planner!Top.f <= e.f
<1> DEFINE f == [e \in open |-> e.f]
           g == [e \in open |-> 1 - e.tie]
           h == [e \in open |-> e.serial]
<1>1. \A e \in open : f[e] \in Nat /\ g[e] \in Nat /\ h[e] \in Nat
  BY DEF Entries
<1>2. \E x \in open : \A y \in open :
           \/ f[x] < f[y]
           \/ f[x] = f[y] /\ g[x] < g[y]
           \/ f[x] = f[y] /\ g[x] = g[y] /\ h[x] <= h[y]
  <2> HIDE DEF f, g, h
  <2> QED BY <1>1, LeastByThree, ZenonT(120)
<1>3. \E x \in open : \A y \in open :
        \/ x.f < y.f
        \/ x.f = y.f /\ x.tie > y.tie
        \/ x.f = y.f /\ x.tie = y.tie /\ x.serial <= y.serial
  <2>1. \A e \in open : f[e] = e.f /\ g[e] = 1 - e.tie /\ h[e] = e.serial
    OBVIOUS
  <2>2. \A e \in open : e.tie \in {0, 1}
    BY DEF Entries
  <2> HIDE DEF f, g, h
  <2>3. \A x, y \in open : g[x] < g[y] => x.tie > y.tie
    BY <2>1, <2>2
  <2>4. \A x, y \in open : g[x] = g[y] => x.tie = y.tie
    BY <2>1, <2>2
  <2> QED BY <1>2, <2>1, <2>3, <2>4
<1>4. /\ Planner!Top \in open
      /\ \A y \in open :
           \/ Planner!Top.f < y.f
           \/ Planner!Top.f = y.f /\ Planner!Top.tie > y.tie
           \/ Planner!Top.f = y.f /\ Planner!Top.tie = y.tie /\ Planner!Top.serial <= y.serial
  BY <1>3 DEF Planner!Top
<1> QED BY <1>4 DEF Entries

\* So does the nearest of some cells.
LEMMA NearestIsOne ==
  ASSUME MapType, NEW cells \in SUBSET Planner!Cells, cells # {}
  PROVE  Planner!Nearest(cells) \in cells
<1> DEFINE f == [c \in cells |-> Planner!Heuristic(c)]
           g == [c \in cells |-> Planner!Rank(c)]
<1>1. \A c \in cells : f[c] \in Nat /\ g[c] \in Nat
  <2> SUFFICES ASSUME NEW c \in cells PROVE f[c] \in Nat /\ g[c] \in Nat
    OBVIOUS
  <2>1. Planner!Heuristic(c) \in Nat
    BY HeuristicType
  <2>2. Planner!Rank(c) \in Nat
    <3>1. c[1] \in Nat /\ c[2] \in Nat /\ Width \in Nat
      BY PlannerAssumption DEF Planner!Cells
    <3>2. c[2] * Width \in Nat
      BY <3>1, Larger
    <3> QED BY <3>1, <3>2 DEF Planner!Rank
  <2> QED BY <2>1, <2>2
<1>2. PICK a \in cells : \A c \in cells : f[a] <= f[c]
  <2> HIDE DEF f, g
  <2> QED BY <1>1, LeastBy
<1> DEFINE A == {c \in cells : f[c] = f[a]}
<1>3. PICK b \in A : \A c \in A : g[b] <= g[c]
  <2>1. A # {} /\ \A c \in A : g[c] \in Nat
    BY <1>1
  <2> HIDE DEF A, f, g
  <2> QED BY <2>1, LeastBy
<1>4. \A c \in cells :
        \/ Planner!Heuristic(b) < Planner!Heuristic(c)
        \/ Planner!Heuristic(b) = Planner!Heuristic(c) /\ Planner!Rank(b) <= Planner!Rank(c)
  <2> SUFFICES ASSUME NEW c \in cells
               PROVE  \/ f[b] < f[c]
                      \/ f[b] = f[c] /\ g[b] <= g[c]
    OBVIOUS
  <2> HIDE DEF f, g
  <2> QED BY <1>1, <1>2, <1>3
<1> QED BY <1>4 DEF Planner!Nearest

\* What is known of the cell that an iteration takes from the queue.
LEMMA Popped ==
  ASSUME MapType, SearchInv, open # {}, reached = Planner!Start, Planner!Top.cell \notin visited
  PROVE  LET current == Planner!Top.cell
             floor == accumulated[current] + Planner!Heuristic(current)
         IN /\ current \in Planner!Cells /\ accumulated[current] < Planner!Infinity
            /\ visited = {} => current = Planner!Start /\ open = {Planner!Top}
            /\ \A c \in visited : accumulated[c] + Planner!Heuristic(c) <= floor
            /\ \A e \in open \ {Planner!Top} : Pending(e) => floor <= e.f
<1> DEFINE current == Planner!Top.cell
           floor == accumulated[current] + Planner!Heuristic(current)
<1>1. /\ Planner!Top \in open /\ Planner!Top \in Entries /\ Pending(Planner!Top)
      /\ \A e \in open : Planner!Top.f <= e.f
  BY TopIsLeast DEF SearchInv, SearchType, Pending
<1>2. /\ current \in Planner!Cells /\ Planner!Top.f \in Nat
      /\ \A c \in Planner!Cells : accumulated[c] \in 0..Planner!Infinity
  BY <1>1 DEF SearchInv, SearchType, Entries
<1>3. \A c \in Planner!Cells : Planner!Heuristic(c) \in Nat
  BY HeuristicType
<1>4. CASE visited = {}
  <2>1. current = Planner!Start /\ open = {Planner!Top} /\ accumulated[current] = 0
    BY <1>1, <1>4 DEF SearchInv, SearchType, Begun
  <2>2. 0 < Planner!Infinity
    BY DEF Planner!Infinity
  <2> HIDE DEF current
  <2>3. accumulated[current] < Planner!Infinity
    BY <2>1, <2>2 DEF Planner!Infinity
  <2> QED BY <1>2, <1>4, <2>1, <2>3 DEF current
<1>5. CASE visited # {}
  <2>1. QueueOK /\ VisitedOK
    BY <1>5 DEF SearchInv, Frontier
  <2>2. accumulated[current] < Planner!Infinity /\ floor <= Planner!Top.f
    BY <1>1, <2>1 DEF QueueOK
  <2>3. PICK e \in open : e.cell = current /\ e.f = floor
    BY <1>2, <2>1, <2>2 DEF QueueOK
  <2>4. floor = Planner!Top.f
    BY <1>1, <1>2, <1>3, <2>2, <2>3
  <2>5. \A c \in visited : accumulated[c] + Planner!Heuristic(c) <= floor
    BY <1>1, <2>1, <2>4 DEF VisitedOK
  <2> QED BY <1>1, <1>2, <1>5, <2>2, <2>4, <2>5
<1> QED BY <1>4, <1>5

\* The frontier of a search is a potential, so the cost of the goal's cell is that of
\* the cheapest path when it is taken from the queue.
LEMMA GoalIsCheapest ==
  ASSUME MapType, SearchInv, open # {}, reached = Planner!Start,
         Planner!Top.cell = Planner!GoalCell, Planner!GoalCell \notin visited
  PROVE  LeastCost(accumulated[Planner!GoalCell])
<1> DEFINE last == Planner!GoalCell
           floor == accumulated[last] + Planner!Heuristic(last)
           least(c) == IF accumulated[c] < floor - Planner!Heuristic(c)
                         THEN accumulated[c] ELSE floor - Planner!Heuristic(c)
           p == [c \in Planner!Cells |-> least(c)]
<1>1. /\ last \in Planner!Cells /\ Planner!Infinity \in Nat
      /\ \A c \in Planner!Cells : accumulated[c] \in Nat /\ accumulated[c] <= Planner!Infinity
      /\ \A c \in Planner!Cells : Planner!Heuristic(c) \in Nat
  <2>1. Planner!Infinity \in Nat
    BY DEF Planner!Infinity
  <2> QED BY <2>1, GoalOnMap, HeuristicType DEF SearchInv, SearchType
<1>2. floor \in Nat
  BY <1>1
<1>3. visited # {} /\ \A e \in open \ {Planner!Top} : Pending(e) => floor <= e.f
  BY Popped DEF SearchInv, SearchType
<1>4. QueueOK /\ VisitedOK
  BY <1>3 DEF SearchInv, Frontier
<1> HIDE DEF last, floor
\* The potential in short: where it is below the goal's bound the cell was expanded.
<1>5. ASSUME NEW c \in Planner!Cells
      PROVE  /\ p[c] \in Int /\ p[c] <= accumulated[c] /\ p[c] <= floor - Planner!Heuristic(c)
             /\ p[c] = accumulated[c] \/ p[c] = floor - Planner!Heuristic(c)
  <2>1. p[c] = least(c)
    OBVIOUS
  <2>2. accumulated[c] \in Nat /\ Planner!Heuristic(c) \in Nat
    BY <1>1
  <2> HIDE DEF p
  <2> QED BY <1>2, <2>1, <2>2
<1>6. ASSUME NEW c \in Planner!Cells, accumulated[c] < floor - Planner!Heuristic(c),
             c \notin visited
      PROVE  accumulated[c] = Planner!Infinity
  <2> SUFFICES ASSUME accumulated[c] < Planner!Infinity PROVE FALSE
    BY <1>1
  <2>1. PICK e \in open : e.cell = c /\ e.f = accumulated[c] + Planner!Heuristic(c)
    BY <1>4, <1>6 DEF QueueOK
  <2>2. accumulated[c] \in Nat /\ Planner!Heuristic(c) \in Nat
    BY <1>1
  <2>3. e.f < floor
    BY <1>2, <1>6, <2>1, <2>2
  <2>4. c # last
    BY <1>2, <1>6, <2>2 DEF floor
  <2>5. e \in open \ {Planner!Top} /\ Pending(e)
    BY <1>6, <2>1, <2>4 DEF Pending, last
  <2>6. floor <= e.f
    BY <1>3, <2>5
  <2> QED BY <1>2, <2>1, <2>2, <2>3, <2>6
<1>7. p[Planner!Start] <= 0
  <2>1. Planner!Start \in Planner!Cells /\ accumulated[Planner!Start] = 0
    BY PlannerAssumption DEF SearchInv, SearchType, Planner!Start, Planner!Cells
  <2> HIDE DEF p
  <2> QED BY <1>5, <2>1
<1>8. ASSUME NEW c \in Planner!Cells PROVE p[c] <= Planner!Infinity
  <2> HIDE DEF p
  <2> QED BY <1>1, <1>5
<1>9. ASSUME NEW c \in Planner!Cells, NEW d \in Planner!Adjacent(c)
      PROVE  p[d] <= p[c] + Planner!Traversal(d, c)
  <2> DEFINE w == Planner!Traversal(d, c)
             hc == Planner!Heuristic(c)
             hd == Planner!Heuristic(d)
  <2>1. d \in Planner!Cells /\ w \in Nat
    BY StepCost
  <2>2. hc \in Nat /\ hd \in Nat /\ hc <= hd + w
    BY <1>1, <2>1, Consistent
  <2> HIDE DEF p, w, hc, hd
  <2>3. /\ p[c] \in Int /\ p[d] \in Int /\ p[d] <= accumulated[d] /\ p[d] <= floor - hd
        /\ p[c] = accumulated[c] \/ p[c] = floor - hc
        /\ accumulated[c] \in Nat /\ accumulated[d] \in Nat /\ accumulated[d] <= Planner!Infinity
    BY <1>1, <1>5, <2>1 DEF hc, hd
  <2>4. CASE p[c] = floor - hc
    BY <1>2, <2>1, <2>2, <2>3, <2>4 DEF w
  <2>5. CASE p[c] = accumulated[c] /\ p[c] # floor - hc
    <3>1. accumulated[c] < floor - hc
      <4>1. p[c] <= floor - hc
        BY <1>5 DEF hc
      <4> QED BY <1>2, <2>2, <2>3, <2>5, <4>1
    <3>2. CASE c \in visited
      <4>1. accumulated[d] <= accumulated[c] + w
        BY <1>4, <3>2 DEF VisitedOK, w
      <4> QED BY <2>1, <2>3, <2>5, <4>1 DEF w
    <3>3. CASE c \notin visited
      <4>1. accumulated[c] = Planner!Infinity
        BY <1>6, <3>1, <3>3 DEF hc
      <4> QED BY <1>1, <2>1, <2>3, <2>5, <4>1 DEF w
    <3> QED BY <3>2, <3>3
  <2> QED BY <2>3, <2>4, <2>5
<1>10. p \in Potentials
  <2>1. \A c \in Planner!Cells : p[c] \in Int
    BY <1>5
  <2>2. p \in [Planner!Cells -> Int]
    BY <2>1
  <2> HIDE DEF p
  <2> QED BY <1>7, <1>8, <1>9, <2>2 DEF Potentials
<1>11. p[last] = accumulated[last]
  <2>1. p[last] = accumulated[last] \/ p[last] = floor - Planner!Heuristic(last)
    BY <1>1, <1>5
  <2> HIDE DEF p
  <2> QED BY <1>1, <2>1 DEF floor
<1>12. \A q \in Potentials : q[last] <= accumulated[last]
  BY <1>1 DEF SearchInv, CostsOK
<1> HIDE DEF p
<1>13. accumulated[last] \in Int
  BY <1>1
<1> QED BY <1>10, <1>11, <1>12, <1>13 DEF LeastCost, last

\* A search starts with nothing but its start.
LEMMA StartOfSearch ==
  ASSUME MapType, Planner!GoalCell # Planner!Start, Planner!StartSearch, UNCHANGED <<map, goal>>
  PROVE  SearchInv'
<1>1. /\ open' = {[cell |-> Planner!Start, f |-> 0, tie |-> 0, serial |-> 0]}
      /\ serial' = 1 /\ visited' = {} /\ approach' = 0
      /\ accumulated' = [c \in Planner!Cells |-> IF c = Planner!Start THEN 0 ELSE Planner!Infinity]
      /\ best' = [h |-> Planner!Infinity, cell |-> Planner!Start] /\ reached' = Planner!Start
  BY DEF Planner!StartSearch
<1>2. Planner!Start \in Planner!Cells
  BY PlannerAssumption DEF Planner!Start, Planner!Cells
<1>3. SearchType'
  BY <1>1, <1>2, SameMap DEF SearchType, Entries, Planner!Infinity
<1>4. Ends' /\ Begun' /\ Frontier'
  BY <1>1, PlannerAssumption DEF Ends, Begun, Frontier
<1>5. CostsOK'
  <2>1. \A p \in Potentials : \A c \in Planner!Cells : p[c] <= accumulated'[c]
    BY <1>1 DEF Potentials
  <2> QED BY <1>1, <2>1, SamePotentials DEF CostsOK
<1> QED BY <1>3, <1>4, <1>5 DEF SearchInv

\* An entry that is skipped is one of a cell that was expanded already.
LEMMA SkipVisitedStep ==
  ASSUME MapType, SearchInv, Planner!SkipVisited
  PROVE  SearchInv'
<1> DEFINE top == Planner!Top
<1>1. /\ open # {} /\ reached = Planner!Start /\ top.cell \in visited /\ open' = open \ {top}
      /\ UNCHANGED <<map, favoured, goal, planStage, serial, visited, accumulated, best, approach,
                     reached>>
  BY DEF Planner!SkipVisited
<1> HIDE DEF top
<1>2. /\ Planner!GoalCell' = Planner!GoalCell
      /\ \A c \in Planner!Cells :
           /\ Planner!Adjacent(c)' = Planner!Adjacent(c)
           /\ Planner!Heuristic(c)' = Planner!Heuristic(c)
           /\ \A d \in Planner!Cells : Planner!Traversal(d, c)' = Planner!Traversal(d, c)
  BY <1>1, SameMap
<1>3. SearchType' /\ Ends' /\ Begun'
  BY <1>1, <1>2 DEF SearchInv, SearchType, Ends, Begun, Entries
<1>4. CostsOK'
  BY <1>1, <1>2, SamePotentials DEF SearchInv, CostsOK, LeastCost
<1>5. Frontier'
  <2>1. QueueOK /\ VisitedOK /\ Planner!Start \in visited
    BY <1>1 DEF SearchInv, Frontier
  <2>2. /\ open \subseteq Entries /\ visited \subseteq Planner!Cells
        /\ \A c \in Planner!Cells : Planner!Adjacent(c) \subseteq Planner!Cells
        /\ \A e \in open : e.cell \in Planner!Cells
    BY DEF SearchInv, SearchType, Planner!Adjacent, Entries
  <2>3. QueueOK'
    BY <1>1, <1>2, <2>1, <2>2 DEF QueueOK, Pending
  <2>4. VisitedOK'
    BY <1>1, <1>2, <2>1, <2>2 DEF VisitedOK, Pending
  <2> QED BY <1>1, <2>1, <2>3, <2>4 DEF Frontier
<1> QED BY <1>3, <1>4, <1>5 DEF SearchInv

\* An iteration that ends the search ends it at a cell it has reached.
LEMMA LastExpansion ==
  ASSUME MapType, SearchInv, open # {}, reached = Planner!Start, Planner!Top.cell \notin visited,
         UNCHANGED <<map, goal, serial, accumulated, best>>,
         visited' = visited \cup {Planner!Top.cell}, open' = open \ {Planner!Top},
         approach' = IF Planner!Approached /\ Planner!Top.cell # Planner!GoalCell
                       THEN approach + 1 ELSE approach,
         Planner!Top.cell = Planner!GoalCell \/ approach' >= MaxApproach,
         reached' = IF Planner!Top.cell = Planner!GoalCell THEN Planner!GoalCell ELSE best.cell
  PROVE  SearchInv'
<1> DEFINE current == Planner!Top.cell
<1>1. current \in Planner!Cells /\ accumulated[current] < Planner!Infinity
  BY Popped
<1>2. /\ reached' \in Planner!Cells /\ reached' # Planner!Start
      /\ accumulated[reached'] < Planner!Infinity
  <2>1. CASE current = Planner!GoalCell
    BY <1>1, <2>1 DEF SearchInv, SearchType
  <2>2. CASE current # Planner!GoalCell
    <3>1. approach \in Nat /\ approach < MaxApproach
      BY DEF SearchInv, SearchType, Ends
    <3>2. Planner!Approached
      BY <2>2, <3>1, PlannerAssumption
    <3>3. best.h < Planner!Infinity /\ best.cell \in Planner!Cells
      <4>1. Tolerance \in Int /\ Tolerance <= Planner!Infinity /\ Planner!Infinity \in Nat
        BY PlannerAssumption DEF Planner!Infinity
      <4>2. best.h < Tolerance
        BY <3>2 DEF Planner!Approached
      <4>3. best.h \in Nat /\ best.cell \in Planner!Cells
        BY DEF SearchInv, SearchType
      <4> QED BY <4>1, <4>2, <4>3
    <3>4. best.cell # Planner!Start /\ accumulated[best.cell] < Planner!Infinity
      BY <3>3 DEF SearchInv, Ends, Planner!Infinity
    <3> QED BY <2>2, <3>3, <3>4
  <2> QED BY <2>1, <2>2
<1>3. SearchType' /\ Planner!GoalCell' = Planner!GoalCell
  BY <1>1, <1>2, SameMap DEF SearchInv, SearchType
<1>4. Planner!GoalCell \notin visited
  BY DEF SearchInv, SearchType, Ends
<1>5. Ends' /\ Begun' /\ Frontier'
  BY <1>2, <1>3, <1>4 DEF SearchInv, Ends, Begun, Frontier
<1>6. CostsOK'
  <2>1. Planner!GoalCell \in visited' => LeastCost(accumulated[Planner!GoalCell])
    BY <1>4, GoalIsCheapest
  <2> QED BY <1>3, <2>1, SamePotentials DEF SearchInv, CostsOK, LeastCost
<1> QED BY <1>3, <1>5, <1>6 DEF SearchInv

\* An iteration that goes on queues the neighbours it improves.
LEMMA OneExpansion ==
  ASSUME MapType, SearchInv, open # {}, reached = Planner!Start, Planner!Top.cell \notin visited,
         Planner!Top.cell # Planner!GoalCell, NEW improved, NEW g,
         improved = Planner!Improved(Planner!Top.cell),
         g = [d \in improved |->
                accumulated[Planner!Top.cell] + Planner!Traversal(d, Planner!Top.cell)],
         UNCHANGED <<map, goal, reached, planStage>>,
         visited' = visited \cup {Planner!Top.cell},
         approach' = IF Planner!Approached THEN approach + 1 ELSE approach,
         approach' < MaxApproach,
         accumulated' = [d \in Planner!Cells |-> IF d \in improved THEN g[d] ELSE accumulated[d]],
         open' = (open \ {Planner!Top}) \cup
                    {Planner!Entry(d, g[d] + Planner!Heuristic(d),
                                   serial + Planner!Place(d, improved)) : d \in improved},
         serial' \in Nat, \A d \in improved : serial + Planner!Place(d, improved) \in Nat,
         best' = IF improved # {} /\ Planner!Heuristic(Planner!Nearest(improved)) < best.h
                   THEN [h |-> Planner!Heuristic(Planner!Nearest(improved)),
                         cell |-> Planner!Nearest(improved)]
                   ELSE best
  PROVE  SearchInv'
<1> DEFINE current == Planner!Top.cell
           a == accumulated[current]
           floor == a + Planner!Heuristic(current)
           w(d) == Planner!Traversal(d, current)
           h(d) == Planner!Heuristic(d)
\* The cell taken.
<1>1. /\ current \in Planner!Cells /\ a < Planner!Infinity
      /\ visited = {} => current = Planner!Start /\ open = {Planner!Top}
      /\ \A c \in visited : accumulated[c] + h(c) <= floor
      /\ \A e \in open \ {Planner!Top} : Pending(e) => floor <= e.f
  BY Popped
<1>2. /\ \A c \in Planner!Cells : accumulated[c] \in Nat /\ accumulated[c] <= Planner!Infinity
      /\ Planner!Infinity \in Nat /\ visited \subseteq Planner!Cells
      /\ Planner!Start \in Planner!Cells
  <2>1. Planner!Infinity \in Nat
    BY DEF Planner!Infinity
  <2>2. Planner!Start \in Planner!Cells
    BY PlannerAssumption DEF Planner!Start, Planner!Cells
  <2> QED BY <2>1, <2>2 DEF SearchInv, SearchType
<1>3. \A c \in Planner!Cells : h(c) \in Nat
  BY HeuristicType
<1>4. a \in Nat /\ floor \in Nat
  BY <1>1, <1>2, <1>3
<1> HIDE DEF current, a, floor
\* Its neighbours.
<1>5. ASSUME NEW d \in Planner!Adjacent(current)
      PROVE  /\ d \in Planner!Cells /\ d # current /\ w(d) \in Nat /\ w(d) >= 10
             /\ Planner!Heuristic(current) <= h(d) + w(d)
  <2>1. d \in Planner!Cells /\ d # current /\ w(d) \in Nat /\ w(d) >= 10
    BY <1>1, StepCost DEF Planner!Adjacent
  <2>2. Planner!Heuristic(current) <= h(d) + w(d)
    BY <1>1, Consistent
  <2> QED BY <2>1, <2>2
<1>6. /\ improved = {d \in Planner!Adjacent(current) \ visited : a + w(d) < accumulated[d]}
      /\ g = [d \in improved |-> a + w(d)]
  BY DEF Planner!Improved, current, a
<1>7. ASSUME NEW d \in improved
      PROVE  /\ d \in Planner!Adjacent(current) /\ d \in Planner!Cells /\ d \notin visited
             /\ g[d] = a + w(d) /\ g[d] \in Nat /\ g[d] < accumulated[d] /\ g[d] < Planner!Infinity
             /\ floor <= g[d] + h(d)
             /\ d # Planner!Start /\ d # current
  <2>1. /\ d \in Planner!Adjacent(current) /\ d \notin visited
        /\ g[d] = a + w(d) /\ a + w(d) < accumulated[d]
    BY <1>6
  <2>2. /\ d \in Planner!Cells /\ d # current /\ w(d) \in Nat /\ w(d) >= 10
        /\ Planner!Heuristic(current) <= h(d) + w(d)
    BY <1>5, <2>1
  <2>3. d # Planner!Start
    BY <1>4, <2>1, <2>2 DEF SearchInv, SearchType
  <2>4. accumulated[d] \in Nat /\ accumulated[d] <= Planner!Infinity /\ h(d) \in Nat
        /\ Planner!Heuristic(current) \in Nat
    BY <1>1, <1>2, <1>3, <2>2
  <2> HIDE DEF w, h
  <2>5. floor <= g[d] + h(d)
    BY <1>2, <1>4, <2>1, <2>2, <2>4 DEF floor
  <2> QED BY <1>2, <1>4, <2>1, <2>2, <2>3, <2>4, <2>5
\* What becomes of the costs and the queue.
<1>8. ASSUME NEW c \in Planner!Cells
      PROVE  /\ accumulated'[c] = IF c \in improved THEN g[c] ELSE accumulated[c]
             /\ accumulated'[c] \in Nat /\ accumulated'[c] <= accumulated[c]
  BY <1>2, <1>7
<1>9. /\ visited' = visited \cup {current} /\ current \notin visited /\ current # Planner!GoalCell
      /\ Planner!Start \in visited'
      /\ \A c \in visited' : c \in Planner!Cells /\ accumulated'[c] = accumulated[c]
  <2>1. visited' = visited \cup {current} /\ current \notin visited /\ current # Planner!GoalCell
    BY DEF current
  <2>2. Planner!Start \in visited'
    BY <1>1, <2>1 DEF SearchInv, Frontier
  <2>3. \A c \in visited' : c \in Planner!Cells /\ c \notin improved
    BY <1>1, <1>2, <1>7, <2>1
  <2> QED BY <1>8, <2>1, <2>2, <2>3
<1>10. ASSUME NEW d \in improved
       PROVE  \E e \in open' : e.cell = d /\ e.f = g[d] + h(d)
  <2>1. Planner!Entry(d, g[d] + Planner!Heuristic(d), serial + Planner!Place(d, improved)) \in open'
    OBVIOUS
  <2> QED BY <2>1 DEF Planner!Entry
<1>11. ASSUME NEW e \in open'
       PROVE  \/ e \in open /\ e # Planner!Top
              \/ \E d \in improved : e.cell = d /\ e.f = g[d] + h(d)
  BY DEF Planner!Entry
<1>12. \A e \in open' : e.cell \notin visited' => floor <= e.f
  <2> SUFFICES ASSUME NEW e \in open', e.cell \notin visited' PROVE floor <= e.f
    OBVIOUS
  <2>1. CASE e \in open /\ e # Planner!Top
    BY <1>1, <1>9, <2>1 DEF Pending
  <2>2. CASE \E d \in improved : e.cell = d /\ e.f = g[d] + h(d)
    BY <1>7, <2>2
  <2> QED BY <1>11, <2>1, <2>2
<1>13. \A c \in Planner!Cells :
           /\ Planner!Adjacent(c)' = Planner!Adjacent(c)
           /\ Planner!Heuristic(c)' = h(c)
           /\ \A d \in Planner!Cells : Planner!Traversal(d, c)' = Planner!Traversal(d, c)
  BY SameMap
<1>14. \A e \in open : e.cell \in Planner!Cells /\ e.f \in Nat
  BY DEF SearchInv, SearchType, Entries
<1>15. SearchType'
  <2>1. open' \subseteq Entries
    <3> SUFFICES ASSUME NEW d \in improved
                 PROVE  Planner!Entry(d, g[d] + h(d), serial + Planner!Place(d, improved))
                          \in Entries
      BY DEF SearchInv, SearchType
    <3>1. d \in Planner!Cells /\ g[d] + h(d) \in Nat
      BY <1>3, <1>7
    <3> HIDE DEF h
    <3> QED BY <3>1 DEF Entries, Planner!Entry, Planner!TieScore
  <2>2. accumulated' \in [Planner!Cells -> 0..Planner!Infinity] /\ accumulated'[Planner!Start] = 0
    <3>1. accumulated' = [c \in Planner!Cells |-> accumulated'[c]]
      OBVIOUS
    <3>2. \A c \in Planner!Cells : accumulated'[c] \in 0..Planner!Infinity
      BY <1>2, <1>8
    <3>3. accumulated'[Planner!Start] = 0
      BY <1>2, <1>7, <1>8 DEF SearchInv, SearchType
    <3> QED BY <3>1, <3>2, <3>3
  <2>3. best' \in [h : Nat, cell : Planner!Cells]
    <3>1. improved \subseteq Planner!Cells
      BY <1>7
    <3>2. CASE best' = best
      BY <3>2 DEF SearchInv, SearchType
    <3>3. CASE best' # best
      <4>1. Planner!Nearest(improved) \in Planner!Cells
        BY <3>1, <3>3, NearestIsOne
      <4> QED BY <1>3, <3>3, <4>1
    <3> QED BY <3>2, <3>3
  <2>4. approach' \in Nat /\ visited' \subseteq Planner!Cells
    BY <1>9 DEF SearchInv, SearchType
  <2> QED BY <2>1, <2>2, <2>3, <2>4, SameMap DEF SearchInv, SearchType
<1>16. Ends' /\ Begun'
  <2>1. Planner!GoalCell' \notin visited' /\ visited' # {}
    BY <1>9, SameMap DEF SearchInv, SearchType, Ends
  <2>2. CASE best' = best
    <3>1. best.cell = Planner!Start \/ accumulated'[best.cell] < Planner!Infinity
      BY <1>2, <1>8 DEF SearchInv, SearchType, Ends
    <3> QED BY <2>1, <2>2, <3>1 DEF SearchInv, Ends, Begun
  <2>3. CASE best' # best
    <3>1. improved \subseteq Planner!Cells
      BY <1>7
    <3>2. Planner!Nearest(improved) \in improved
      BY <2>3, <3>1, NearestIsOne
    <3>3. best'.cell = Planner!Nearest(improved)
      BY <2>3
    <3>4. best'.cell # Planner!Start /\ accumulated'[best'.cell] < Planner!Infinity
      BY <1>7, <1>8, <3>2, <3>3
    <3> QED BY <2>1, <3>4 DEF Ends, Begun
  <2> QED BY <2>2, <2>3
<1>17. QueueOK'
  <2>1. ASSUME NEW e \in open', e.cell \notin visited'
        PROVE  accumulated'[e.cell] < Planner!Infinity /\ accumulated'[e.cell] + h(e.cell) <= e.f
    <3>1. CASE e \in open /\ e # Planner!Top
      <4>1. visited # {} /\ e.cell \notin visited
        BY <1>1, <1>9, <2>1, <3>1
      <4>2. accumulated[e.cell] < Planner!Infinity /\ accumulated[e.cell] + h(e.cell) <= e.f
        BY <3>1, <4>1 DEF SearchInv, Frontier, QueueOK, Pending
      <4>3. /\ accumulated'[e.cell] <= accumulated[e.cell] /\ accumulated'[e.cell] \in Nat
            /\ accumulated[e.cell] \in Nat /\ h(e.cell) \in Nat /\ e.f \in Nat
        BY <1>2, <1>3, <1>8, <1>14, <3>1
      <4> HIDE DEF h
      <4> QED BY <1>2, <4>2, <4>3
    <3>2. CASE \E d \in improved : e.cell = d /\ e.f = g[d] + h(d)
      <4>1. PICK d \in improved : e.cell = d /\ e.f = g[d] + h(d)
        BY <3>2
      <4>2. accumulated'[d] = g[d] /\ g[d] < Planner!Infinity /\ g[d] \in Nat /\ h(d) \in Nat
        BY <1>3, <1>7, <1>8
      <4> HIDE DEF h
      <4> QED BY <4>1, <4>2
    <3> QED BY <1>11, <3>1, <3>2
  <2>2. ASSUME NEW c \in Planner!Cells \ visited', accumulated'[c] < Planner!Infinity
        PROVE  \E e \in open' : e.cell = c /\ e.f = accumulated'[c] + h(c)
    <3>1. CASE c \in improved
      BY <1>8, <1>10, <3>1
    <3>2. CASE c \notin improved
      <4>1. accumulated[c] = accumulated'[c] /\ c \notin visited /\ c # current
        BY <1>8, <1>9, <2>2, <3>2
      <4>2. visited # {}
        BY <1>1, <2>2, <4>1 DEF SearchInv, Begun, Planner!Infinity
      <4>3. PICK e \in open : e.cell = c /\ e.f = accumulated[c] + h(c)
        BY <2>2, <4>1, <4>2 DEF SearchInv, Frontier, QueueOK
      <4>4. e \in open'
        BY <4>1, <4>3 DEF current
      <4> QED BY <4>1, <4>3, <4>4
    <3> QED BY <3>1, <3>2
  <2>3. \A e \in open' : e.cell \in Planner!Cells
    BY <1>7, <1>11, <1>14
  <2> HIDE DEF h
  <2>4. \A e \in open' : Pending(e)' => /\ accumulated'[e.cell] < Planner!Infinity
                                        /\ accumulated'[e.cell] + Planner!Heuristic(e.cell)' <= e.f
    BY <1>13, <2>1, <2>3 DEF Pending
  <2>5. \A c \in Planner!Cells \ visited' : accumulated'[c] < Planner!Infinity =>
          \E e \in open' : e.cell = c /\ e.f = accumulated'[c] + Planner!Heuristic(c)'
    BY <1>13, <2>2
  <2> QED BY <2>4, <2>5 DEF QueueOK
<1>18. VisitedOK'
  <2>1. ASSUME NEW c \in visited', NEW d \in Planner!Adjacent(c)
        PROVE  accumulated'[d] <= accumulated'[c] + Planner!Traversal(d, c)
    <3>1. /\ c \in Planner!Cells /\ d \in Planner!Cells /\ accumulated'[c] = accumulated[c]
          /\ accumulated'[d] \in Nat /\ accumulated'[d] <= accumulated[d]
          /\ accumulated[d] \in Nat /\ accumulated[c] \in Nat
      BY <1>2, <1>8, <1>9 DEF Planner!Adjacent
    <3>2. CASE c \in visited
      <4>1. accumulated[d] <= accumulated[c] + Planner!Traversal(d, c)
        BY <3>2 DEF SearchInv, Frontier, VisitedOK
      <4>2. Planner!Traversal(d, c) \in Nat
        BY <3>1, StepCost
      <4> QED BY <3>1, <4>1, <4>2
    <3>3. CASE c = current
      <4>1. /\ w(d) \in Nat /\ Planner!Heuristic(current) <= h(d) + w(d)
            /\ Planner!Heuristic(current) \in Nat /\ h(d) \in Nat
        BY <1>3, <1>5, <3>1, <3>3
      <4>2. accumulated'[d] <= a + w(d)
        <5>1. CASE d \in improved
          BY <1>7, <1>8, <3>1, <4>1, <5>1
        <5>2. CASE d \in visited
          <6>1. accumulated[d] + h(d) <= floor
            BY <1>1, <5>2
          <6> HIDE DEF w, h
          <6> QED BY <1>4, <3>1, <4>1, <6>1 DEF floor
        <5>3. CASE d \notin improved /\ d \notin visited
          <6>1. ~(a + w(d) < accumulated[d])
            BY <1>6, <3>3, <5>3
          <6> HIDE DEF w
          <6> QED BY <1>4, <3>1, <4>1, <6>1
        <5> QED BY <5>1, <5>2, <5>3
      <4> QED BY <3>1, <3>3, <4>2 DEF a, current
    <3> QED BY <1>9, <3>2, <3>3
  <2>2. ASSUME NEW c \in visited', NEW e \in open', e.cell \notin visited'
        PROVE  accumulated'[c] + h(c) <= e.f
    <3>1. accumulated'[c] = accumulated[c] /\ accumulated[c] + h(c) <= floor
      <4>1. current \in Planner!Cells /\ accumulated[current] + h(current) = floor
        BY <1>1 DEF floor, a
      <4>2. floor <= floor
        BY <1>4
      <4> QED BY <1>1, <1>9, <4>1, <4>2
    <3>2. floor <= e.f
      BY <1>12, <2>2
    <3>3. accumulated[c] \in Nat /\ h(c) \in Nat /\ e.f \in Int
      <4>1. e.f \in Int
        <5>1. CASE e \in open
          BY <1>14, <5>1
        <5>2. CASE \E d \in improved : e.cell = d /\ e.f = g[d] + h(d)
          BY <1>3, <1>7, <5>2
        <5> QED BY <1>11, <5>1, <5>2
      <4> QED BY <1>2, <1>3, <1>9, <4>1
    <3> HIDE DEF h
    <3> QED BY <1>4, <3>1, <3>2, <3>3
  <2>3. \A c \in visited' : c \in Planner!Cells /\ Planner!Adjacent(c) \subseteq Planner!Cells
    BY <1>9 DEF Planner!Adjacent
  <2> HIDE DEF h, w
  <2> QED BY <1>13, <2>1, <2>2, <2>3, ZenonT(60) DEF VisitedOK, Pending
<1>19. Frontier'
  BY <1>9, <1>17, <1>18 DEF Frontier
<1>20. CostsOK'
  <2>1. ASSUME NEW p \in Potentials, NEW c \in Planner!Cells
        PROVE  p[c] <= accumulated'[c]
    <3>1. p[c] \in Int /\ p[c] <= accumulated[c] /\ p[current] \in Int /\ p[current] <= a
      BY <1>1 DEF SearchInv, CostsOK, Potentials, a
    <3>2. CASE c \in improved
      <4>1. p[c] <= p[current] + w(c)
        BY <1>1, <1>7, <3>2 DEF Potentials
      <4>2. accumulated'[c] = a + w(c) /\ w(c) \in Nat
        BY <1>5, <1>7, <1>8, <3>2
      <4> HIDE DEF w
      <4> QED BY <1>4, <3>1, <4>1, <4>2
    <3>3. CASE c \notin improved
      BY <1>8, <3>1, <3>3
    <3> QED BY <3>2, <3>3
  <2>2. Planner!GoalCell' \notin visited'
    BY <1>9, SameMap DEF SearchInv, SearchType, Ends
  <2> QED BY <2>1, <2>2, SamePotentials DEF CostsOK
<1> QED BY <1>15, <1>16, <1>19, <1>20 DEF SearchInv

\* The planner's own instance of the standard module counts as the module does.
LEMMA SameCardinality == ASSUME NEW s PROVE Planner!Cardinality(s) = Cardinality(s)
BY DEF Planner!Cardinality, Cardinality

\* Serials are natural numbers, so among some entries there is an oldest one.
LEMMA Serials ==
  ASSUME MapType, SearchInv, NEW cells \in SUBSET Planner!Cells
  PROVE  /\ serial + Planner!Cardinality(cells) \in Nat
         /\ \A d \in cells : serial + Planner!Place(d, cells) \in Nat
<1>1. IsFiniteSet(Planner!Cells)
  <2>1. Width - 1 \in Int /\ Height - 1 \in Int
    BY PlannerAssumption
  <2>2. IsFiniteSet(0..(Width - 1)) /\ IsFiniteSet(0..(Height - 1))
    BY <2>1, FS_Interval
  <2> QED BY <2>2, FS_Product DEF Planner!Cells
<1>2. \A s \in SUBSET Planner!Cells : Planner!Cardinality(s) \in Nat
  BY <1>1, FS_Subset, FS_CardinalityType, SameCardinality
<1>3. serial \in Nat
  BY DEF SearchInv, SearchType
<1>4. \A d \in cells : Planner!Place(d, cells) \in Nat
  BY <1>2 DEF Planner!Place
<1>5. Planner!Cardinality(cells) \in Nat
  BY <1>2
<1> QED BY <1>3, <1>4, <1>5

\* An iteration either ends the search or goes on.
LEMMA ExpandStep ==
  ASSUME MapType, SearchInv, Planner!Expand
  PROVE  SearchInv' /\ UNCHANGED <<map, goal, planStage, baseline>>
<1> DEFINE current == Planner!Top.cell
           improved == Planner!Improved(current)
           g == [d \in improved |-> accumulated[current] + Planner!Traversal(d, current)]
<1>1. /\ open # {} /\ reached = Planner!Start /\ current \notin visited
      /\ UNCHANGED <<map, goal, planStage, baseline>>
      /\ visited' = visited \cup {current}
      /\ approach' = IF Planner!Approached /\ current # Planner!GoalCell
                       THEN approach + 1 ELSE approach
  BY DEF Planner!Expand
<1>2. CASE current = Planner!GoalCell \/ approach' >= MaxApproach
  <2>1. /\ reached' = IF current = Planner!GoalCell THEN Planner!GoalCell ELSE best.cell
        /\ open' = open \ {Planner!Top}
        /\ UNCHANGED <<serial, accumulated, best>>
    BY <1>2 DEF Planner!Expand
  <2> QED BY <1>1, <1>2, <2>1, LastExpansion
<1>3. CASE ~(current = Planner!GoalCell \/ approach' >= MaxApproach)
  <2>1. /\ accumulated' = [d \in Planner!Cells |-> IF d \in improved THEN g[d] ELSE accumulated[d]]
        /\ open' = (open \ {Planner!Top}) \cup
                      {Planner!Entry(d, g[d] + Planner!Heuristic(d),
                                     serial + Planner!Place(d, improved)) : d \in improved}
        /\ serial' = serial + Planner!Cardinality(improved)
        /\ best' = IF improved # {} /\ Planner!Heuristic(Planner!Nearest(improved)) < best.h
                     THEN [h |-> Planner!Heuristic(Planner!Nearest(improved)),
                           cell |-> Planner!Nearest(improved)]
                     ELSE best
        /\ UNCHANGED reached
    BY <1>3 DEF Planner!Expand
  <2>2. /\ current # Planner!GoalCell
        /\ approach' = IF Planner!Approached THEN approach + 1 ELSE approach
    BY <1>1, <1>3
  <2>3. approach' < MaxApproach
    <3>1. approach \in Nat /\ MaxApproach \in Nat
      BY PlannerAssumption DEF SearchInv, SearchType
    <3> QED BY <1>3, <2>2, <3>1
  <2>4. serial' \in Nat /\ \A d \in improved : serial + Planner!Place(d, improved) \in Nat
    <3>1. improved \subseteq Planner!Cells
      BY DEF Planner!Improved, Planner!Adjacent
    <3> HIDE DEF improved
    <3> QED BY <2>1, <3>1, Serials
  <2>5. /\ improved = Planner!Improved(Planner!Top.cell)
        /\ g = [d \in improved |-> accumulated[Planner!Top.cell]
                                     + Planner!Traversal(d, Planner!Top.cell)]
    OBVIOUS
  <2> HIDE DEF improved, g
  <2> QED BY <1>1, <2>1, <2>2, <2>3, <2>4, <2>5, OneExpansion
<1> QED BY <1>1, <1>2, <1>3

\* What the first search leaves to the second.
LEMMA PlainSearchStep ==
  ASSUME PlannerInv, Planner!PlainSearchEnds
  PROVE  PlannerInv'
<1>1. /\ planStage = "plain" /\ UNCHANGED <<map, goal>> /\ SearchInv /\ MapType
      /\ (planStage' = "stock") \/ (planStage' = "scored" /\ Planner!StartSearch /\ Planner!Found
            /\ baseline' = [cost |-> accumulated[Planner!PathEnd], expanded |-> visited])
  BY DEF PlannerInv, Searching, Planner!PlainSearchEnds, Planner!StockPlan, Planner!PrimaryCost
<1>2. MapType'
  BY <1>1 DEF MapType
<1>3. CASE planStage' = "stock"
  BY <1>2, <1>3 DEF PlannerInv, Searching, BaselineOK
<1>4. CASE planStage' = "scored"
  <2>1. Planner!GoalCell # Planner!Start
    BY <1>1 DEF SearchInv, SearchType
  <2>2. SearchInv'
    BY <1>1, <1>4, <2>1, StartOfSearch
  <2>3. Planner!GoalCell \in visited =>
          Planner!PathEnd = Planner!GoalCell /\ LeastCost(accumulated[Planner!GoalCell])
    BY <1>1, <2>1 DEF SearchInv, Ends, CostsOK, Planner!PathEnd
  <2>4. BaselineOK'
    BY <1>1, <1>4, <2>3, SamePotentials, SameMap DEF BaselineOK, LeastCost
  <2> QED BY <1>2, <2>2, <2>4 DEF PlannerInv
<1> QED BY <1>1, <1>3, <1>4

LEMMA PlannerStep == PlannerInv /\ [Planner!Next]_plannerVars => PlannerInv'
<1> SUFFICES ASSUME PlannerInv, [Planner!Next]_plannerVars PROVE PlannerInv'
  OBVIOUS
<1>1. ASSUME UNCHANGED <<map, goal>>, planStage' \notin {"plain", "scored"} PROVE PlannerInv'
  BY <1>1 DEF PlannerInv, MapType, Searching, BaselineOK
<1>2. ASSUME UNCHANGED <<map, goal, planStage, baseline>>, Searching, SearchInv' PROVE PlannerInv'
  <2>1. MapType' /\ Potentials' = Potentials
    BY <1>2, SamePotentials DEF PlannerInv, MapType
  <2> QED BY <1>2, <2>1, SameMap DEF PlannerInv, BaselineOK, LeastCost
<1>3. CASE Planner!Request
  BY <1>1, <1>3 DEF Planner!Request, Planner!StockPlan
<1>4. CASE Planner!Answer
  <2>1. /\ UNCHANGED <<map, goal>> /\ planStage = "waiting"
        /\ \/ planStage' \in {"stock", "used"}
           \/ Planner!GoalCell # Planner!Start /\ planStage' = "plain" /\ Planner!StartSearch
    BY <1>4 DEF Planner!Answer, Planner!StockPlan
  <2>2. CASE planStage' \in {"stock", "used"}
    BY <1>1, <2>1, <2>2
  <2>3. CASE Planner!GoalCell # Planner!Start /\ planStage' = "plain" /\ Planner!StartSearch
    <3>1. MapType' /\ SearchInv'
      BY <2>1, <2>3, StartOfSearch DEF PlannerInv, MapType
    <3> QED BY <2>3, <3>1 DEF PlannerInv, BaselineOK
  <2> QED BY <2>1, <2>2, <2>3
<1>5. CASE Planner!SkipVisited
  <2>1. UNCHANGED <<map, goal, planStage, baseline>> /\ Searching
    BY <1>5 DEF Planner!SkipVisited, Planner!Searching, Searching
  <2>2. SearchInv'
    BY <1>5, <2>1, SkipVisitedStep DEF PlannerInv
  <2> QED BY <1>2, <2>1, <2>2
<1>6. CASE Planner!Expand
  <2>1. Searching
    BY <1>6 DEF Planner!Expand, Planner!Searching, Searching
  <2>2. SearchInv' /\ UNCHANGED <<map, goal, planStage, baseline>>
    BY <1>6, <2>1, ExpandStep DEF PlannerInv
  <2> QED BY <1>2, <2>1, <2>2
<1>7. CASE Planner!PlainSearchEnds
  BY <1>7, PlainSearchStep
<1>8. CASE Planner!ScoredSearchEnds
  BY <1>1, <1>8 DEF Planner!ScoredSearchEnds, Planner!StockPlan
<1>9. CASE Planner!Abandon
  BY <1>1, <1>9 DEF Planner!Abandon, Planner!StockPlan
<1>10. CASE UNCHANGED plannerVars
  <2>1. UNCHANGED <<map, goal, planStage, baseline, open, serial, visited, accumulated, best,
                    approach, reached>>
    BY <1>10 DEF plannerVars
  <2>2. CASE Searching
    <3>1. SearchInv /\ MapType
      BY <2>2 DEF PlannerInv
    <3>2. SearchType' /\ Ends' /\ Begun'
      BY <2>1, <3>1, SameMap DEF SearchInv, SearchType, Ends, Begun, Entries
    <3>3. CostsOK'
      BY <2>1, <3>1, SamePotentials, SameMap DEF SearchInv, CostsOK, LeastCost
    <3>4. Frontier'
      <4>1. /\ open \subseteq Entries /\ visited \subseteq Planner!Cells
            /\ \A c \in Planner!Cells : Planner!Adjacent(c) \subseteq Planner!Cells
            /\ \A e \in open : e.cell \in Planner!Cells
        BY <3>1 DEF SearchInv, SearchType, Planner!Adjacent, Entries
      <4>2. Frontier
        BY <3>1 DEF SearchInv
      <4> QED BY <2>1, <4>1, <4>2, SameMap DEF Frontier, QueueOK, VisitedOK, Pending
    <3> QED BY <1>2, <2>1, <2>2, <3>2, <3>3, <3>4 DEF SearchInv
  <2>3. CASE ~Searching
    BY <1>1, <2>1, <2>3 DEF Searching
  <2> QED BY <2>2, <2>3
<1> QED BY <1>3, <1>4, <1>5, <1>6, <1>7, <1>8, <1>9, <1>10 DEF Planner!Next

\* Whatever costmap, point of the goal, tolerance and fee, and whatever cells the
\* prior gives a score: when the search without scores and the one with them both
\* expand the goal's cell they have found one cost, that of the cheapest path.
THEOREM ScoresNeverChangeTheCost == MachinesSpec => []ScoresKeepTheCost
<1>1. MachinesInit => PlannerInv
  <2> SUFFICES ASSUME MachinesInit PROVE PlannerInv
    OBVIOUS
  <2>1. planStage = "request"
    BY DEF MachinesInit, Planner!Init
  <2>2. MapType
    <3>1. CASE part = "planner"
      BY <3>1, PlannerAssumption DEF MachinesInit, Planner!Init, Planner!Few, MapType
    <3>2. CASE part # "planner"
      <4>1. map = [blocked |-> {}, costly |-> {}] /\ goal = <<0, 0>>
        BY <3>2 DEF MachinesInit
      <4>2. 10 * Width - 1 \in Nat /\ 10 * Height - 1 \in Nat
        BY PlannerAssumption
      <4> QED BY <4>1, <4>2 DEF MapType
    <3> QED BY <3>1, <3>2
  <2> QED BY <2>1, <2>2 DEF PlannerInv, Searching, BaselineOK
<1>2. PlannerInv => ScoresKeepTheCost
  BY OneLeastCost
     DEF PlannerInv, Searching, SearchInv, CostsOK, BaselineOK, ScoresKeepTheCost,
         Planner!ScoresKeepTheCost
<1> QED BY <1>1, <1>2, InputsNext, PlannerStep, PTL DEF MachinesSpec

-------------------------------------------------------------------------------
(* RouteGraph *)

\* What is proved of any graph, of the variables of this one.
GraphProofs ==
  INSTANCE RouteGraph_proofs WITH
    Start <- RouteStart, Goal <- RouteGoal,
    cost <- chainCost, stage <- graphStage, best <- settled

\* RouteGraph_proofs extends the module that Nav2Inputs has an instance of: what
\* the two say of a graph, a search and the routes is the same.
LEMMA SameGraph ==
  Graph!GraphAssumption = GraphProofs!GraphAssumption /\ Graph!Chains = GraphProofs!Chains
BY DEF Graph!GraphAssumption, GraphProofs!GraphAssumption, Graph!IsFiniteSet,
   GraphProofs!IsFiniteSet, Graph!Chains, GraphProofs!Chains

LEMMA SameSteps == [Graph!Next]_graphVars => [GraphProofs!Next]_(GraphProofs!graphVars)
<1>1. Graph!ApplyFootprintFeasibility => GraphProofs!ApplyFootprintFeasibility
  BY ZenonT(60) DEF Graph!ApplyFootprintFeasibility, GraphProofs!ApplyFootprintFeasibility,
     Graph!Swept, GraphProofs!Swept, Graph!Chains, GraphProofs!Chains, Graph!searchVars, GraphProofs!searchVars
<1>2. Graph!RetainLargestFeasibleComponent => GraphProofs!RetainLargestFeasibleComponent
  BY ZenonT(60) DEF Graph!RetainLargestFeasibleComponent,
     GraphProofs!RetainLargestFeasibleComponent, Graph!Retained, GraphProofs!Retained, Graph!Components, GraphProofs!Components,
     Graph!Component, GraphProofs!Component, Graph!Leaves, GraphProofs!Leaves, Graph!Feasible,
     GraphProofs!Feasible, Graph!Chains, GraphProofs!Chains, Graph!Cardinality,
     GraphProofs!Cardinality, Graph!LeastOf, GraphProofs!LeastOf, Graph!searchVars,
     GraphProofs!searchVars
<1>3. Graph!Query => GraphProofs!Query
  BY ZenonT(60) DEF Graph!Query, GraphProofs!Query, Graph!Search, GraphProofs!Search, Graph!Entry,
     GraphProofs!Entry
<1>4. Graph!Pop => GraphProofs!Pop
  BY ZenonT(60) DEF Graph!Pop, GraphProofs!Pop, Graph!FirstOf, GraphProofs!FirstOf, Graph!Precedes,
     GraphProofs!Precedes, Graph!Before, GraphProofs!Before, Graph!Worse, GraphProofs!Worse,
     Graph!End, GraphProofs!End, Graph!Extensions, GraphProofs!Extensions, Graph!OnRoute,
     GraphProofs!OnRoute, Graph!Entry, GraphProofs!Entry, Graph!BannedNodes,
     GraphProofs!BannedNodes, Graph!BannedEdges, GraphProofs!BannedEdges, Graph!SameRoot,
     GraphProofs!SameRoot, Graph!NextChain, GraphProofs!NextChain, Graph!Root, GraphProofs!Root,
     Graph!Previous, GraphProofs!Previous, Graph!TotalCost, GraphProofs!TotalCost, Graph!ChainOf,
     GraphProofs!ChainOf
<1>5. Graph!FirstRoute => GraphProofs!FirstRoute
  BY ZenonT(60) DEF Graph!FirstRoute, GraphProofs!FirstRoute, Graph!SearchOver,
     GraphProofs!SearchOver, Graph!Arrived, GraphProofs!Arrived, Graph!FirstOf, GraphProofs!FirstOf, Graph!Precedes,
     GraphProofs!Precedes, Graph!Before, GraphProofs!Before, Graph!Worse, GraphProofs!Worse,
     Graph!End, GraphProofs!End, Graph!Search, GraphProofs!Search, Graph!Entry, GraphProofs!Entry
<1>6. Graph!NextSpur => GraphProofs!NextSpur
  BY ZenonT(60) DEF Graph!NextSpur, GraphProofs!NextSpur, Graph!SearchOver, GraphProofs!SearchOver,
     Graph!Arrived, GraphProofs!Arrived, Graph!FirstOf, GraphProofs!FirstOf, Graph!Precedes,
     GraphProofs!Precedes, Graph!Before, GraphProofs!Before, Graph!Worse, GraphProofs!Worse,
     Graph!End, GraphProofs!End, Graph!Search, GraphProofs!Search, Graph!Entry, GraphProofs!Entry,
     Graph!Previous, GraphProofs!Previous, Graph!Found, GraphProofs!Found, Graph!Known,
     GraphProofs!Known, Graph!Joined, GraphProofs!Joined, Graph!Root, GraphProofs!Root,
     Graph!TotalCost, GraphProofs!TotalCost, Graph!ChainOf, GraphProofs!ChainOf
<1>7. Graph!Select => GraphProofs!Select
  BY ZenonT(60) DEF Graph!Select, GraphProofs!Select, Graph!SearchOver, GraphProofs!SearchOver,
     Graph!Arrived, GraphProofs!Arrived, Graph!FirstOf, GraphProofs!FirstOf, Graph!Precedes,
     GraphProofs!Precedes, Graph!Before, GraphProofs!Before, Graph!Worse, GraphProofs!Worse,
     Graph!End, GraphProofs!End, Graph!Search, GraphProofs!Search, Graph!Entry, GraphProofs!Entry,
     Graph!Previous, GraphProofs!Previous, Graph!Found, GraphProofs!Found, Graph!Known,
     GraphProofs!Known, Graph!Joined, GraphProofs!Joined, Graph!Root, GraphProofs!Root,
     Graph!TotalCost, GraphProofs!TotalCost, Graph!ChainOf, GraphProofs!ChainOf
<1>8. UNCHANGED graphVars => UNCHANGED GraphProofs!graphVars
  BY DEF graphVars, GraphProofs!graphVars, GraphProofs!searchVars
<1> QED BY <1>1, <1>2, <1>3, <1>4, <1>5, <1>6, <1>7, <1>8 DEF Graph!Next, GraphProofs!Next

LEMMA SameProperty == GraphProofs!FirstRoutesFound => Graph!FirstRoutesFound
BY ZenonT(60) DEF Graph!FirstRoutesFound, GraphProofs!FirstRoutesFound, Graph!SingleLanes,
     GraphProofs!SingleLanes, Graph!Routes, GraphProofs!Routes, Graph!SimplePaths,
     GraphProofs!SimplePaths, Graph!Inner, GraphProofs!Inner, Graph!Cardinality,
     GraphProofs!Cardinality, Graph!Entry, GraphProofs!Entry, Graph!TotalCost,
     GraphProofs!TotalCost, Graph!ChainOf, GraphProofs!ChainOf, Graph!Precedes,
     GraphProofs!Precedes, Graph!Before, GraphProofs!Before

\* Only the graph's own part takes its steps, and it begins in its initial states.
LEMMA GraphSteps ==
  /\ MachinesInit => part # "graph" \/ Graph!Init
  /\ [MachinesNext]_machinesVars => UNCHANGED part /\ [Graph!Next]_graphVars
BY DEF MachinesInit, MachinesNext, machinesVars, Only

\* k_shortest_loopless_routes accepts the first routes of all, in order, and ends
\* with k of them or all: whatever the graph, its costs, the query and k, where no
\* two chains join the same nodes.
THEOREM FirstRoutesAreFound == MachinesSpec => []FirstRoutesFound
<1> DEFINE RoutesOK == part = "graph" => GraphProofs!RouteInv
<1>1. MachinesInit => RoutesOK
  <2>1. Graph!Init => GraphProofs!Init
    BY SameGraph, Zenon DEF Graph!Init, GraphProofs!Init, Graph!Traversabilities,
     GraphProofs!Traversabilities, Graph!LeastOf, GraphProofs!LeastOf
  <2> QED BY <2>1, GraphSteps, SameGraph, RouteAssumption, GraphProofs!RouteInvInit
<1>2. RoutesOK /\ [MachinesNext]_machinesVars => RoutesOK'
  BY GraphSteps, SameSteps, GraphProofs!RouteInvNext
<1>3. RoutesOK => FirstRoutesFound
  BY GraphProofs!RouteInvFound, SameProperty DEF FirstRoutesFound
<1> QED BY <1>1, <1>2, <1>3, PTL DEF MachinesSpec

-------------------------------------------------------------------------------
(* TrialCampaign *)

\* What is proved of any campaign, of the variables of this one.
CampaignProofs == INSTANCE TrialCampaign_proofs WITH stage <- scriptStage

\* TrialCampaign_proofs extends the module that Nav2Inputs has an instance of: what
\* the two say of a campaign is the same.
LEMMA SameRunner == Campaign!RunnerNext => CampaignProofs!RunnerNext
BY ZenonT(120) DEF
     Campaign!RunnerNext, CampaignProofs!RunnerNext, Campaign!Verified, CampaignProofs!Verified,
     Campaign!PreflightFault, CampaignProofs!PreflightFault, Campaign!SkipTrial,
     CampaignProofs!SkipTrial, Campaign!BeginTrial, CampaignProofs!BeginTrial,
     Campaign!AllTrialsDone, CampaignProofs!AllTrialsDone, Campaign!ResetSimulation,
     CampaignProofs!ResetSimulation, Campaign!BeginRunEvidence, CampaignProofs!BeginRunEvidence,
     Campaign!BackendUnavailable, CampaignProofs!BackendUnavailable,
     Campaign!RecordTrialDispatched, CampaignProofs!RecordTrialDispatched, Campaign!ReceiptFails,
     CampaignProofs!ReceiptFails, Campaign!SendGoal, CampaignProofs!SendGoal,
     Campaign!AcceptTimeout, CampaignProofs!AcceptTimeout, Campaign!Rejected,
     CampaignProofs!Rejected, Campaign!Accepted, CampaignProofs!Accepted, Campaign!LegSucceeded,
     CampaignProofs!LegSucceeded, Campaign!LegFailed, CampaignProofs!LegFailed,
     Campaign!CancelLeg, CampaignProofs!CancelLeg, Campaign!LegEnded, CampaignProofs!LegEnded,
     Campaign!CancelLost, CampaignProofs!CancelLost, Campaign!BuildManifest,
     CampaignProofs!BuildManifest, Campaign!WriteFile, CampaignProofs!WriteFile,
     Campaign!EndTrial, CampaignProofs!EndTrial, Campaign!Crash, CampaignProofs!Crash,
     Campaign!GoalAccepted, CampaignProofs!GoalAccepted, Campaign!GoalRejected,
     CampaignProofs!GoalRejected, Campaign!GoalEnds, CampaignProofs!GoalEnds,
     Campaign!OldGoalEnds, CampaignProofs!OldGoalEnds, Campaign!config, CampaignProofs!config,
     Campaign!disk, CampaignProofs!disk, Campaign!nav2, CampaignProofs!nav2, Campaign!Exit,
     CampaignProofs!Exit, Campaign!Of, CampaignProofs!Of, Campaign!Completed,
     CampaignProofs!Completed, Campaign!progress, CampaignProofs!progress, Campaign!Fail,
     CampaignProofs!Fail, Campaign!Update, CampaignProofs!Update, Campaign!Current,
     CampaignProofs!Current, Campaign!Finish, CampaignProofs!Finish, Campaign!Written,
     CampaignProofs!Written, Campaign!Answer, CampaignProofs!Answer, Campaign!SaysVerified,
     CampaignProofs!SaysVerified, Campaign!ChecksumsAreVerified,
     CampaignProofs!ChecksumsAreVerified, Campaign!Files, CampaignProofs!Files

LEMMA SameCampaign ==
  [Campaign!Next]_campaignVars => [CampaignProofs!Next]_(CampaignProofs!campaignVars)
BY SameRunner, ZenonT(120) DEF
     campaignVars,
     Campaign!Next, CampaignProofs!Next, Campaign!campaignVars, CampaignProofs!campaignVars,
     Campaign!Runner, CampaignProofs!Runner, Campaign!Launch, CampaignProofs!Launch,
     Campaign!StartScript, CampaignProofs!StartScript, Campaign!RunnerEnded,
     CampaignProofs!RunnerEnded, Campaign!runnerVars, CampaignProofs!runnerVars, Campaign!config,
     CampaignProofs!config, Campaign!progress, CampaignProofs!progress, Campaign!disk,
     CampaignProofs!disk, Campaign!nav2, CampaignProofs!nav2, Campaign!Audit,
     CampaignProofs!Audit, Campaign!RunCount, CampaignProofs!RunCount, Campaign!Collected,
     CampaignProofs!Collected, Campaign!Dispatched, CampaignProofs!Dispatched,
     Campaign!FailedTrial, CampaignProofs!FailedTrial, Campaign!TornSummary,
     CampaignProofs!TornSummary, Campaign!AllDirectories, CampaignProofs!AllDirectories,
     Campaign!HasSummary, CampaignProofs!HasSummary, Campaign!Cardinality,
     CampaignProofs!Cardinality, Campaign!SaysVerified, CampaignProofs!SaysVerified,
     Campaign!Files, CampaignProofs!Files, Campaign!Written, CampaignProofs!Written

LEMMA SameCampaignInit == Campaign!Init => CampaignProofs!Init
BY ZenonT(60) DEF
     Campaign!Init, CampaignProofs!Init, Campaign!RunnerInit, CampaignProofs!RunnerInit

\* Every behaviour of the parts is, of the campaign, one of its own.
LEMMA CampaignSteps == MachinesSpec => CampaignProofs!Spec
<1>1. MachinesInit => CampaignProofs!Init
  BY SameCampaignInit DEF MachinesInit
<1>2. [MachinesNext]_machinesVars => [CampaignProofs!Next]_(CampaignProofs!campaignVars)
  <2>1. [MachinesNext]_machinesVars => [Campaign!Next]_campaignVars
    BY DEF MachinesNext, machinesVars, Only
  <2> QED BY <2>1, SameCampaign
<1> QED BY <1>1, <1>2, PTL DEF MachinesSpec, CampaignProofs!Spec

\* No goal is at Nav2 whose trial is not on disk as dispatched, whenever a process
\* of the campaign crashes.
THEOREM GoalsAreRecorded == MachinesSpec => []GoalsOnRecord
<1>1. CampaignProofs!GoalsOnRecord => GoalsOnRecord
  BY ZenonT(60) DEF
     GoalsOnRecord,
     Campaign!GoalsOnRecord, CampaignProofs!GoalsOnRecord, Campaign!AllDirectories,
     CampaignProofs!AllDirectories
<1> QED BY <1>1, CampaignSteps, CampaignProofs!DispatchRecorded, PTL

\* Isolation on the direct backend: a trial without a fault leaves no goal.
THEOREM TrialsStayIsolated == MachinesSpec => []FaultlessTrialEnded
<1>1. CampaignProofs!FaultlessTrialEnded => FaultlessTrialEnded
  BY ZenonT(60) DEF
     FaultlessTrialEnded,
     Campaign!FaultlessTrialEnded, CampaignProofs!FaultlessTrialEnded
<1> QED BY <1>1, CampaignSteps, CampaignProofs!TrialsIsolated, PTL

\* Success hides no failed trial, however often the script was started.
THEOREM CampaignIsHonest == MachinesSpec => []NoFailureHidden
<1>1. CampaignProofs!NoFailureHidden => NoFailureHidden
  BY ZenonT(60) DEF
     NoFailureHidden,
     Campaign!NoFailureHidden, CampaignProofs!NoFailureHidden, Campaign!AllDirectories,
     CampaignProofs!AllDirectories
<1> QED BY <1>1, CampaignSteps, CampaignProofs!SuccessIsHonest, PTL

\* A trial is skipped on resuming only with a complete, sealed directory.
THEOREM ResumingSkipsSealed == MachinesSpec => SkippedIsSealed
<1>1. CampaignProofs!SkippedIsSealed => SkippedIsSealed
  BY PTL DEF
     SkippedIsSealed,
     Campaign!SkippedIsSealed, CampaignProofs!SkippedIsSealed, Campaign!Of, CampaignProofs!Of,
     Campaign!Sealed, CampaignProofs!Sealed, Campaign!runnerVars, CampaignProofs!runnerVars,
     Campaign!Written, CampaignProofs!Written, Campaign!Files, CampaignProofs!Files
<1> QED BY <1>1, CampaignSteps, CampaignProofs!SkipsSealedTrials, PTL

\* What is in a closed directory is never changed or lost.
THEOREM ClosedEvidenceSurvives == MachinesSpec => EvidenceKept
<1>1. CampaignProofs!EvidenceKept => EvidenceKept
  BY PTL DEF
     EvidenceKept,
     Campaign!EvidenceKept, CampaignProofs!EvidenceKept, Campaign!AllDirectories,
     CampaignProofs!AllDirectories, Campaign!runnerVars, CampaignProofs!runnerVars
<1> QED BY <1>1, CampaignSteps, CampaignProofs!EvidenceSurvives, PTL
=============================================================================
