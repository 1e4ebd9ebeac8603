-------------------------- MODULE ResetBridge_proofs --------------------------
(***************************************************************************)
(* Theorems of ResetBridge, for any sets of calls, any number of resets    *)
(* and any bound on time and scans.  The inductive invariant says whose    *)
(* futures are open, that a reset which ended was announced or failed, and *)
(* what an armed pose and a scan on its way have to do with the teleport.  *)
(***************************************************************************)
EXTENDS ResetBridge, FiniteSetTheorems, TLAPS

Armed == deferred \/ barrier # None

\* Whose futures there are: an open future still has both its callbacks to
\* come, only the last reset has counted ones, and until that reset has
\* finished it waits for every future whose completed has not run.
FuturesCounted ==
  \A f \in futures :
    /\ f.generation <= generation
    /\ f.answer = "none" => f.counted /\ f.due
    /\ f.counted => f.generation = generation
    /\ (f.generation = generation /\ f.due /\ ~tx.finished) => f.label \in tx.waiting

\* A transaction has one future per label.
FuturesDistinct ==
  \A f, g \in futures : (f.generation = g.generation /\ f.label = g.label) => f = g

\* What the hooks have submitted so far.
SubmittedSoFar ==
  /\ pc \in {"validate", "odometry"} => \A f \in futures : f.generation # generation
  /\ pc = "costmaps" =>
       \A f \in futures : f.generation = generation => f.label \in OdometryCalls

\* A closed bridge is at rest.
ClosedAtRest == closed => futures = {} /\ ~active

\* A reset that has ended is announced or failed; a running one is neither
\* announced nor answered.
AnnouncedOrFailed ==
  /\ events \subseteq 1..generation /\ failed \subseteq 1..generation
  /\ awaiting \subseteq 1..generation
  /\ active => generation \notin events
  /\ \A g \in 1..generation : ~(g = generation /\ active) => (g \in events <=> g \notin failed)
  /\ \A g \in 1..MaxGeneration : replies[g] # "none" =>
       /\ g <= generation /\ ~(g = generation /\ active)
       /\ replies[g] = "success" <=> g \in events

\* A reset without errors has moved the robot once its hooks are done.
PlacedByClean ==
  /\ placed <= generation
  /\ (pc \in {"idle", "play", "seal"} /\ generation \notin failed) => placed = generation

\* An announced reset has no open call.
NoOpenCall == generation \in events => \A f \in futures : f.answer # "none"

\* Only an announced reset arms a pose: deferred while there is no policy,
\* behind the barrier under the policy "auto".
ArmedByAnnounced ==
  /\ Armed => generation \in events
  /\ deferred => source = "none"
  /\ barrier # None => source = "auto"

\* Scans come from the past, and those that are older than the teleport do not
\* pass the barrier.
ScansBehindBarrier ==
  \A scan \in scans :
    /\ scan.epoch <= epoch
    /\ scan.epoch = epoch => scan.stamp <= sim
    /\ (barrier # None /\ scan.epoch = epoch /\ scan.placed # placed) => scan.stamp <= barrier

IInv ==
  /\ TypeOK
  /\ FuturesCounted /\ FuturesDistinct /\ SubmittedSoFar /\ ClosedAtRest
  /\ AnnouncedOrFailed /\ PlacedByClean /\ NoOpenCall /\ ArmedByAnnounced
  /\ ScansBehindBarrier

-------------------------------------------------------------------------------
(* Lemmas *)

\* A conjunct survives a step that leaves its variables alone.
LEMMA Frames ==
  ASSUME IInv
  PROVE  /\ UNCHANGED <<generation, active, tx, failed, futures>> => TransactionTypes'
         /\ UNCHANGED <<closed, pc, awaiting, replies, placed, events>> => LoopTypes'
         /\ UNCHANGED <<source, deferred, barrier, seeds, sim, epoch, scans>> => PoseTypes'
         /\ UNCHANGED <<generation, active, tx, pc>> => Phases'
         /\ UNCHANGED <<generation, tx, futures>> => FuturesCounted'
         /\ UNCHANGED futures => FuturesDistinct'
         /\ UNCHANGED <<generation, pc, futures>> => SubmittedSoFar'
         /\ UNCHANGED <<closed, active, futures>> => ClosedAtRest'
         /\ UNCHANGED <<generation, active, failed, events, awaiting, replies>>
              => AnnouncedOrFailed'
         /\ UNCHANGED <<generation, pc, failed, placed>> => PlacedByClean'
         /\ UNCHANGED <<generation, events, futures>> => NoOpenCall'
         /\ UNCHANGED <<generation, events, source, deferred, barrier>> => ArmedByAnnounced'
         /\ UNCHANGED <<sim, epoch, scans, barrier, placed>> => ScansBehindBarrier'
<1>1. UNCHANGED <<generation, active, tx, failed, futures>> => TransactionTypes'
  BY DEF IInv, TypeOK, TransactionTypes
<1>2. UNCHANGED <<closed, pc, awaiting, replies, placed, events>> => LoopTypes'
  BY DEF IInv, TypeOK, LoopTypes
<1>3. UNCHANGED <<source, deferred, barrier, seeds, sim, epoch, scans>> => PoseTypes'
  BY DEF IInv, TypeOK, PoseTypes
<1>4. UNCHANGED <<generation, active, tx, pc>> => Phases'
  BY DEF IInv, TypeOK, Phases
<1>5. /\ UNCHANGED <<generation, tx, futures>> => FuturesCounted'
      /\ UNCHANGED futures => FuturesDistinct'
      /\ UNCHANGED <<generation, pc, futures>> => SubmittedSoFar'
  BY DEF IInv, FuturesCounted, FuturesDistinct, SubmittedSoFar
<1>6. /\ UNCHANGED <<closed, active, futures>> => ClosedAtRest'
      /\ UNCHANGED <<generation, pc, failed, placed>> => PlacedByClean'
  BY DEF IInv, ClosedAtRest, PlacedByClean
<1>7. /\ UNCHANGED <<generation, events, futures>> => NoOpenCall'
      /\ UNCHANGED <<generation, events, source, deferred, barrier>> => ArmedByAnnounced'
      /\ UNCHANGED <<sim, epoch, scans, barrier, placed>> => ScansBehindBarrier'
  BY DEF IInv, NoOpenCall, ArmedByAnnounced, Armed, ScansBehindBarrier
<1>8. UNCHANGED <<generation, active, failed, events, awaiting, replies>>
        => AnnouncedOrFailed'
  BY DEF IInv, AnnouncedOrFailed
<1> QED BY <1>1, <1>2, <1>3, <1>4, <1>5, <1>6, <1>7, <1>8

\* While a transaction is active nothing is armed and nothing announced.
LEMMA ActiveFacts ==
  ASSUME IInv, active
  PROVE  /\ generation \in 1..MaxGeneration /\ generation \notin events
         /\ barrier = None /\ deferred = FALSE
         /\ ~closed /\ ~tx.finished
<1>1. generation \in 1..MaxGeneration /\ ~tx.finished
  BY DEF IInv, TypeOK, TransactionTypes, Phases
<1>2. generation \notin events /\ ~closed
  BY DEF IInv, AnnouncedOrFailed, ClosedAtRest
<1>3. barrier = None /\ deferred = FALSE
  BY <1>2 DEF IInv, TypeOK, PoseTypes, ArmedByAnnounced, Armed
<1> QED BY <1>1, <1>2, <1>3

\* Consuming a done-callback keeps the futures apart.
LEMMA ConsumeDistinct ==
  ASSUME futures \subseteq Future, FuturesDistinct, NEW f \in futures, NEW h,
         h.label = f.label, h.generation = f.generation, Consume(f, h)
  PROVE  FuturesDistinct'
<1>1. \A x \in futures' : x = h \/ (x \in futures /\ x # f)
  BY DEF Consume
<1>2. \A x \in futures : x # f => ~(x.label = f.label /\ x.generation = f.generation)
  BY DEF FuturesDistinct
<1> QED BY <1>1, <1>2 DEF FuturesDistinct

-------------------------------------------------------------------------------
(* The start of a transaction *)

\* A new transaction finds no counted future, so none is open.
LEMMA StartStep ==
  ASSUME IInv, StartReset, awaiting' \in {awaiting, awaiting \cup {generation'}}
  PROVE  IInv'
<1>1. /\ generation \in 0..MaxGeneration /\ generation' = generation + 1
      /\ generation' \in 1..MaxGeneration
      /\ UNCHANGED <<failed, futures, closed, replies, source, seeds, simVars, placed, events>>
  BY BoundAssumption DEF IInv, TypeOK, TransactionTypes, StartReset
<1>2. FuturesDistinct'
  BY <1>1, Frames
<1>3. TransactionTypes' /\ Phases'
  BY <1>1 DEF IInv, TypeOK, TransactionTypes, Transaction, Phases, StartReset
<1>4. LoopTypes'
  BY <1>1 DEF IInv, TypeOK, LoopTypes, StartReset
<1>5. PoseTypes' /\ ScansBehindBarrier' /\ ArmedByAnnounced'
  BY <1>1 DEF IInv, TypeOK, PoseTypes, ScansBehindBarrier, ArmedByAnnounced, Armed, StartReset,
     Disarm, CancelPose, simVars
<1>6. \A f \in futures : f.generation <= generation /\ ~f.counted /\ f.answer # "none"
  BY DEF IInv, FuturesCounted, StartReset, CanStart
<1>7. \A f \in futures : f.generation \in Nat
  BY BoundAssumption DEF IInv, TypeOK, TransactionTypes, Future
<1>8. FuturesCounted' /\ SubmittedSoFar' /\ NoOpenCall'
  BY <1>1, <1>6, <1>7 DEF FuturesCounted, SubmittedSoFar, NoOpenCall, StartReset
<1>9. ClosedAtRest' /\ PlacedByClean'
  BY <1>1 DEF IInv, TypeOK, LoopTypes, ClosedAtRest, PlacedByClean, StartReset, CanStart
<1>10. AnnouncedOrFailed'
  BY <1>1 DEF IInv, AnnouncedOrFailed, StartReset, CanStart
<1> QED BY <1>2, <1>3, <1>4, <1>5, <1>8, <1>9, <1>10 DEF IInv, TypeOK

-------------------------------------------------------------------------------
(* The hooks *)

QuietHook == Validate \/ Step \/ Teleport \/ HookFails \/ Play
QueueHook == ResetOdometry \/ ClearCostmaps

\* What all hooks but the last have in common.
HookOutcome ==
  /\ UNCHANGED <<generation, active, events, awaiting, replies, closed>>
  /\ UNCHANGED <<deferred, barrier, source, seeds, epoch>>
  /\ failed' \in {failed, failed \cup {generation}}
  /\ tx' \in Transaction /\ ~tx'.sealed /\ ~tx'.finished
  /\ pc' \in {"odometry", "costmaps", "step", "teleport", "play", "seal"}
  /\ pc' = "odometry" => pc = "validate"
  /\ placed' \in {placed, generation}
  /\ (pc' \in {"play", "seal"} /\ generation \notin failed') => placed' = generation

\* The hooks that call no service leave the futures alone.
LEMMA QuietHookFacts ==
  ASSUME IInv, QuietHook
  PROVE  /\ HookOutcome /\ active /\ futures' = futures /\ tx'.waiting = tx.waiting
         /\ pc' # "costmaps"
<1>1. active /\ tx \in Transaction /\ ~tx.sealed /\ ~tx.finished
  BY DEF IInv, TypeOK, TransactionTypes, Phases, QuietHook, Validate, Step, Teleport,
     HookFails, Play, InHook
<1>2. CASE Validate
  BY <1>1, <1>2 DEF HookOutcome, Validate, InHook, Fail, RestUnchanged, simVars
<1>3. CASE Step
  BY <1>1, <1>3 DEF HookOutcome, Step, InHook, RestUnchanged, txVars
<1>4. CASE Teleport
  <2>1. tx' = [tx EXCEPT !.pose = Localization]
    BY <1>4 DEF Teleport
  <2>2. /\ tx' \in Transaction /\ ~tx'.sealed /\ ~tx'.finished
        /\ tx'.waiting = tx.waiting
    BY <1>1, <2>1, ModeAssumption DEF Transaction
  <2> QED BY <1>1, <1>4, <2>2 DEF HookOutcome, Teleport, InHook, RestUnchanged, simVars
<1>5. CASE HookFails
  BY <1>1, <1>5 DEF HookOutcome, HookFails, Fail, RestUnchanged, simVars
<1>6. CASE Play
  BY <1>1, <1>6 DEF HookOutcome, Play, InHook, Fail, UpdateApplication, RestUnchanged, IInv,
     PlacedByClean
<1> QED BY <1>2, <1>3, <1>4, <1>5, <1>6 DEF QuietHook

\* A queueing hook adds open futures of this transaction under labels of its
\* own, and waits for each of them.
LEMMA QueueHookFacts ==
  ASSUME IInv, NEW labels \in SUBSET Labels, QueueCalls(labels), active, ~tx.sealed
  PROVE  /\ failed' \in {failed, failed \cup {generation}}
         /\ tx' \in Transaction /\ ~tx'.sealed /\ ~tx'.finished
         /\ tx.waiting \subseteq tx'.waiting
         /\ futures' \subseteq Future
         /\ \A f \in futures' : f \in futures \/
              /\ f.label \in labels /\ f.label \in tx'.waiting /\ f.generation = generation
              /\ f = [label |-> f.label, generation |-> generation, answer |-> "none",
                      counted |-> TRUE, due |-> TRUE]
<1>1. tx \in Transaction /\ ~tx.finished /\ generation \in 1..MaxGeneration
      /\ futures \subseteq Future
  BY DEF IInv, TypeOK, TransactionTypes, Phases
<1>2. PICK submitted \in SUBSET labels :
        /\ futures' = futures \cup
             {[label |-> l, generation |-> generation, answer |-> "none",
               counted |-> TRUE, due |-> TRUE] : l \in submitted}
        /\ tx' = [tx EXCEPT !.waiting = @ \cup submitted]
  BY DEF QueueCalls
<1>3. /\ tx' \in Transaction /\ ~tx'.sealed /\ ~tx'.finished
      /\ tx'.waiting = tx.waiting \cup submitted
  BY <1>1, <1>2 DEF Transaction
<1>4. \A f \in futures' : f \in futures \/
        /\ f.label \in submitted /\ f.generation = generation
        /\ f = [label |-> f.label, generation |-> generation, answer |-> "none",
                counted |-> TRUE, due |-> TRUE]
  BY <1>2
<1>5. \A l \in Labels : [label |-> l, generation |-> generation, answer |-> "none",
                         counted |-> TRUE, due |-> TRUE] \in Future
  BY <1>1 DEF Future
<1>6. futures' \subseteq Future
  BY <1>1, <1>4, <1>5
<1> QED BY <1>3, <1>4, <1>6 DEF QueueCalls, Fail

\* What follows from the outcome of a hook alone.
LEMMA HookRest ==
  ASSUME IInv, HookOutcome, active
  PROVE  /\ LoopTypes' /\ Phases' /\ ClosedAtRest' /\ AnnouncedOrFailed' /\ PlacedByClean'
         /\ NoOpenCall' /\ ArmedByAnnounced'
         /\ generation' \in 0..MaxGeneration /\ active' \in BOOLEAN /\ tx' \in Transaction
         /\ failed' \subseteq 1..MaxGeneration
<1>1. generation \in 1..MaxGeneration /\ generation \notin events /\ ~closed
  BY ActiveFacts
<1>2. LoopTypes' /\ Phases'
  BY <1>1 DEF HookOutcome, IInv, TypeOK, LoopTypes, Phases
<1>3. ClosedAtRest' /\ NoOpenCall' /\ ArmedByAnnounced'
  BY <1>1, Frames DEF HookOutcome, ClosedAtRest, NoOpenCall
<1>4. AnnouncedOrFailed'
  BY <1>1 DEF HookOutcome, IInv, AnnouncedOrFailed
<1>5. PlacedByClean'
  BY <1>1 DEF HookOutcome, IInv, PlacedByClean, TypeOK, LoopTypes
<1>6. generation' \in 0..MaxGeneration /\ active' \in BOOLEAN /\ tx' \in Transaction
      /\ failed' \subseteq 1..MaxGeneration
  BY <1>1 DEF HookOutcome, IInv, TypeOK, TransactionTypes
<1> QED BY <1>2, <1>3, <1>4, <1>5, <1>6

\* One update of the application keeps the scans in the past.
LEMMA UpdateKeepsScans ==
  ASSUME IInv, UpdateApplication, UNCHANGED <<source, deferred, barrier, seeds, placed>>
  PROVE  PoseTypes' /\ ScansBehindBarrier'
<1>1. /\ sim \in 0..MaxTime /\ sim' \in 0..MaxTime /\ sim <= sim'
      /\ epoch' = epoch /\ epoch \in 0..MaxEpoch /\ placed \in 0..MaxGeneration
      /\ scans \subseteq Scan
  BY DEF UpdateApplication, IInv, TypeOK, PoseTypes, LoopTypes
<1>2. \A scan \in scans' :
        \/ scan \in scans
        \/ scan = [stamp |-> sim', placed |-> placed, epoch |-> epoch]
  BY DEF UpdateApplication
<1>3. scans' \subseteq Scan
  BY <1>1, <1>2 DEF Scan
<1>4. PoseTypes'
  BY <1>1, <1>3 DEF IInv, TypeOK, PoseTypes
<1>5. ASSUME NEW scan \in scans
      PROVE  /\ scan.epoch <= epoch
             /\ scan.epoch = epoch => scan.stamp <= sim'
             /\ (barrier # None /\ scan.epoch = epoch /\ scan.placed # placed)
                  => scan.stamp <= barrier
  BY <1>1 DEF IInv, ScansBehindBarrier, Scan
<1>6. ScansBehindBarrier'
  BY <1>1, <1>2, <1>5 DEF ScansBehindBarrier
<1> QED BY <1>4, <1>6

\* They keep the invariant.
LEMMA QuietHookStep == ASSUME IInv, QuietHook PROVE IInv'
<1>1. /\ HookOutcome /\ active /\ futures' = futures /\ tx'.waiting = tx.waiting
      /\ pc' # "costmaps"
  BY QuietHookFacts
<1>2. /\ LoopTypes' /\ Phases' /\ ClosedAtRest' /\ AnnouncedOrFailed' /\ PlacedByClean'
      /\ NoOpenCall' /\ ArmedByAnnounced'
  BY <1>1, HookRest
<1>3. TransactionTypes'
  BY <1>1, HookRest DEF IInv, TypeOK, TransactionTypes
<1>4. FuturesCounted' /\ FuturesDistinct' /\ SubmittedSoFar'
  BY <1>1, ActiveFacts DEF HookOutcome, IInv, FuturesCounted, FuturesDistinct, SubmittedSoFar
<1>5. PoseTypes' /\ ScansBehindBarrier'
  <2>1. barrier = None
    BY <1>1, ActiveFacts
  <2>2. CASE Validate \/ HookFails
    BY <2>1, <2>2, <1>1, Frames DEF Validate, HookFails, HookOutcome, simVars, IInv,
       ScansBehindBarrier
  <2>3. CASE Step
    BY <2>1, <2>3 DEF Step, RestUnchanged, IInv, TypeOK, PoseTypes, Scan, ScansBehindBarrier
  <2>4. CASE Teleport
    BY <2>1, <2>4 DEF Teleport, RestUnchanged, simVars, IInv, TypeOK, PoseTypes,
       ScansBehindBarrier
  <2>5. CASE Play
    BY <2>5, UpdateKeepsScans DEF Play, RestUnchanged
  <2> QED BY <2>2, <2>3, <2>4, <2>5 DEF QuietHook
<1> QED BY <1>2, <1>3, <1>4, <1>5 DEF IInv, TypeOK

\* The hooks that call services keep the invariant: their labels differ.
LEMMA QueueHookStep == ASSUME IInv, QueueHook PROVE IInv'
<1> DEFINE labels == IF pc = "odometry" THEN OdometryCalls ELSE CostmapCalls
<1>1. /\ active /\ ~tx.sealed /\ QueueCalls(labels)
      /\ UNCHANGED <<generation, active, simVars, placed, events>>
      /\ UNCHANGED <<source, deferred, barrier, seeds, closed, awaiting, replies>>
      /\ \/ pc = "odometry" /\ pc' = "costmaps"
         \/ pc = "costmaps" /\ pc' = "step"
  BY DEF QueueHook, ResetOdometry, ClearCostmaps, InHook, RestUnchanged, IInv, TypeOK, Phases
<1>2. labels \in SUBSET Labels
  BY DEF Labels
<1>3. \A f \in futures : f.generation = generation => f.label \notin labels
  BY <1>1, LabelAssumption DEF IInv, SubmittedSoFar
<1>4. pc = "odometry" => labels = OdometryCalls /\ \A f \in futures : f.generation # generation
  BY DEF IInv, SubmittedSoFar
<1> HIDE DEF labels
<1>5. /\ failed' \in {failed, failed \cup {generation}}
      /\ tx' \in Transaction /\ ~tx'.sealed /\ ~tx'.finished
      /\ tx.waiting \subseteq tx'.waiting
      /\ futures' \subseteq Future
      /\ \A f \in futures' : f \in futures \/
           /\ f.label \in labels /\ f.label \in tx'.waiting /\ f.generation = generation
           /\ f = [label |-> f.label, generation |-> generation, answer |-> "none",
                   counted |-> TRUE, due |-> TRUE]
  BY <1>1, <1>2, QueueHookFacts
<1>6. HookOutcome
  BY <1>1, <1>5 DEF HookOutcome, simVars
<1>7. /\ LoopTypes' /\ Phases' /\ ClosedAtRest' /\ AnnouncedOrFailed' /\ PlacedByClean'
      /\ NoOpenCall' /\ ArmedByAnnounced'
  BY <1>1, <1>6, HookRest
<1>8. TransactionTypes'
  BY <1>1, <1>5, <1>6, HookRest DEF TransactionTypes
<1>9. PoseTypes' /\ ScansBehindBarrier'
  BY <1>1, Frames DEF simVars
<1>10. FuturesCounted'
  <2> SUFFICES ASSUME NEW f \in futures'
               PROVE  /\ f.generation <= generation
                      /\ f.answer = "none" => f.counted /\ f.due
                      /\ f.counted => f.generation = generation
                      /\ (f.generation = generation /\ f.due) => f.label \in tx'.waiting
    BY <1>1 DEF FuturesCounted
  <2>1. CASE f \in futures
    BY <1>1, <1>5, <2>1, ActiveFacts DEF IInv, FuturesCounted
  <2>2. CASE f \notin futures
    BY <1>1, <1>5, <2>2, ActiveFacts
  <2> QED BY <2>1, <2>2
<1>11. FuturesDistinct'
  <2>1. FuturesDistinct
    BY DEF IInv
  <2> QED BY <1>3, <1>5, <2>1 DEF FuturesDistinct
<1>12. SubmittedSoFar'
  BY <1>1, <1>4, <1>5 DEF SubmittedSoFar
<1> QED BY <1>7, <1>8, <1>9, <1>10, <1>11, <1>12 DEF IInv, TypeOK

-------------------------------------------------------------------------------
(* The end of a transaction *)

\* What a step that may end the transaction does to the record of resets: it
\* goes on, has failed, or is announced with the pose armed as the policy says.
Outcome ==
  /\ failed' \in {failed, failed \cup {generation}}
  /\ generation \in 1..MaxGeneration
  /\ \/ active' = active /\ events' = events /\ barrier' = barrier /\ deferred' = deferred
     \/ /\ active' = FALSE /\ generation \in failed' /\ events' = events
        /\ barrier' = None /\ deferred' = FALSE
     \/ /\ active' = FALSE /\ generation \notin failed' /\ events' = events \cup {generation}
        /\ \/ barrier' = barrier /\ deferred' = deferred
           \/ source = "none" /\ barrier' = barrier /\ deferred' = TRUE
           \/ source = "auto" /\ barrier' = sim /\ deferred' = FALSE
           \/ source = "rviz" /\ barrier' = None /\ deferred' = FALSE

\* Whatever calls _finish leads to an outcome.
LEMMA FinishOutcome ==
  ASSUME IInv, generation \in 1..MaxGeneration,
         NEW t, NEW errors \in {failed, failed \cup {generation}},
         FinishIfReady(t, errors) \/ FinishTransaction(t, errors)
  PROVE  Outcome
<1>1. source \in {"none", "auto", "rviz"}
  BY DEF IInv, TypeOK, PoseTypes
<1>2. CASE FinishTransaction(t, errors)
  <2>1. CASE generation \in errors
    BY <1>2, <2>1 DEF FinishTransaction, CancelPose, Outcome
  <2>2. CASE generation \notin errors /\ t.pose
    BY <1>1, <1>2, <2>2 DEF FinishTransaction, ArmPolicy, Outcome
  <2>3. CASE generation \notin errors /\ ~t.pose
    BY <1>2, <2>3 DEF FinishTransaction, Outcome
  <2> QED BY <2>1, <2>2, <2>3
<1>3. CASE ~FinishTransaction(t, errors)
  BY <1>3 DEF FinishIfReady, Outcome
<1> QED BY <1>2, <1>3

\* An ending transaction is marked finished, and keeps its calls.
LEMMA FinishMarks ==
  ASSUME NEW t \in Transaction, ~t.finished, NEW errors, active = TRUE,
         FinishIfReady(t, errors) \/ FinishTransaction(t, errors)
  PROVE  /\ tx' \in Transaction /\ (active' <=> ~tx'.finished)
         /\ tx'.sealed = t.sealed /\ tx'.waiting = t.waiting
<1>1. CASE FinishTransaction(t, errors)
  BY <1>1 DEF FinishTransaction, Transaction
<1>2. CASE ~FinishTransaction(t, errors)
  BY <1>2 DEF FinishIfReady
<1> QED BY <1>1, <1>2

\* An announced transaction waits for nothing, unless it was cut short.
LEMMA ReadyWhenAnnounced ==
  ASSUME NEW t, NEW errors, FinishIfReady(t, errors), events' # events
  PROVE  t.waiting = {}
BY DEF FinishIfReady

\* What follows from an outcome alone; calls that are still open need a look
\* only if the reset is announced.
LEMMA OutcomeRest ==
  ASSUME IInv, Outcome, active, pc' = "idle",
         pc \in {"idle", "seal"} \/ generation \in failed',
         UNCHANGED <<generation, awaiting, replies, source, seeds, simVars, placed>>,
         \A f \in futures' : f.answer = "none" => f \in futures,
         events' # events => \A f \in futures : f.answer # "none" \/ f \notin futures'
  PROVE  /\ active' \in BOOLEAN /\ failed' \subseteq 1..MaxGeneration
         /\ events' \subseteq 1..MaxGeneration
         /\ PoseTypes' /\ AnnouncedOrFailed' /\ PlacedByClean' /\ SubmittedSoFar'
         /\ NoOpenCall' /\ ArmedByAnnounced' /\ ScansBehindBarrier'
<1>1. /\ generation \notin events /\ generation \in 1..MaxGeneration
      /\ barrier = None /\ deferred = FALSE
  BY ActiveFacts
<1>2. /\ active' \in BOOLEAN /\ failed' \subseteq 1..MaxGeneration
      /\ events' \subseteq 1..MaxGeneration
  BY DEF Outcome, IInv, TypeOK, TransactionTypes, LoopTypes
<1>3. PoseTypes'
  BY <1>1 DEF Outcome, IInv, TypeOK, PoseTypes, simVars
<1>4. AnnouncedOrFailed'
  <2>1. CASE active' = active /\ events' = events
    BY <1>1, <2>1 DEF Outcome, IInv, AnnouncedOrFailed
  <2>2. CASE active' = FALSE /\ generation \in failed' /\ events' = events
    BY <1>1, <2>2 DEF Outcome, IInv, AnnouncedOrFailed
  <2>3. CASE active' = FALSE /\ generation \notin failed' /\ events' = events \cup {generation}
    BY <1>1, <2>3 DEF Outcome, IInv, AnnouncedOrFailed
  <2> QED BY <2>1, <2>2, <2>3 DEF Outcome
<1>5. PlacedByClean' /\ SubmittedSoFar'
  BY DEF Outcome, IInv, PlacedByClean, SubmittedSoFar
<1>6. NoOpenCall'
  BY <1>1 DEF Outcome, NoOpenCall
<1>7. ArmedByAnnounced'
  BY <1>1 DEF Outcome, ArmedByAnnounced, Armed
<1>8. ScansBehindBarrier'
  BY <1>1 DEF Outcome, IInv, ScansBehindBarrier, simVars
<1> QED BY <1>2, <1>3, <1>4, <1>5, <1>6, <1>7, <1>8

\* Sealing an active transaction leads to an outcome.
LEMMA SealOutcome == ASSUME IInv, Seal PROVE Outcome /\ active
<1>1. active /\ generation \in 1..MaxGeneration
  BY ActiveFacts DEF IInv, TypeOK, Phases, Seal, InHook
<1> QED BY <1>1, FinishOutcome DEF Seal

\* Sealing keeps the invariant; an announced reset had no call left to wait for.
LEMMA SealStep == ASSUME IInv, Seal PROVE IInv'
<1>1. Outcome /\ active
  BY SealOutcome
<1> DEFINE t == [tx EXCEPT !.sealed = TRUE]
<1>2. t \in Transaction /\ ~t.finished /\ t.sealed /\ t.waiting = tx.waiting
  BY <1>1, ActiveFacts DEF IInv, TypeOK, TransactionTypes, Transaction
<1>3. /\ FinishIfReady(t, failed) /\ pc = "seal" /\ pc' = "idle" /\ ~closed /\ active = TRUE
      /\ UNCHANGED <<generation, futures, simVars, placed, closed, awaiting, replies>>
      /\ UNCHANGED <<source, seeds>>
  BY <1>1 DEF Seal, InHook, RestUnchanged, IInv, TypeOK, TransactionTypes
<1> HIDE DEF t
<1>4. tx' \in Transaction /\ (active' <=> ~tx'.finished) /\ tx'.waiting = tx.waiting
  BY <1>2, <1>3, FinishMarks
<1>5. events' # events => \A f \in futures : f.answer # "none"
  <2>1. events' # events => tx.waiting = {}
    BY <1>2, <1>3, ReadyWhenAnnounced
  <2> QED BY <1>1, <2>1, ActiveFacts DEF IInv, FuturesCounted, NoOpenCall
<1>6. /\ active' \in BOOLEAN /\ failed' \subseteq 1..MaxGeneration
      /\ events' \subseteq 1..MaxGeneration
      /\ PoseTypes' /\ AnnouncedOrFailed' /\ PlacedByClean' /\ SubmittedSoFar'
      /\ NoOpenCall' /\ ArmedByAnnounced' /\ ScansBehindBarrier'
  BY <1>1, <1>3, <1>5, OutcomeRest
<1>7. TransactionTypes' /\ LoopTypes' /\ Phases'
  BY <1>1, <1>3, <1>4, <1>6 DEF IInv, TypeOK, TransactionTypes, LoopTypes, Phases
<1>8. FuturesCounted' /\ FuturesDistinct' /\ ClosedAtRest'
  BY <1>1, <1>3, <1>4, ActiveFacts DEF IInv, FuturesCounted, FuturesDistinct, ClosedAtRest
<1> QED BY <1>6, <1>7, <1>8 DEF IInv, TypeOK

\* The timer ends an active transaction, and fails it.
LEMMA TimeoutOutcome == ASSUME IInv, Timeout PROVE Outcome /\ active /\ generation \in failed'
<1>1. active /\ generation \in 1..MaxGeneration
  BY ActiveFacts DEF IInv, TypeOK, Phases, Timeout
<1> QED BY <1>1, FinishOutcome DEF Timeout, FinishTransaction

\* The timeout keeps the invariant.
LEMMA TimeoutStep == ASSUME IInv, Timeout PROVE IInv'
<1>1. Outcome /\ active /\ generation \in failed'
  BY TimeoutOutcome
<1>2. /\ FinishTransaction(tx, failed \cup {generation}) /\ tx \in Transaction /\ ~tx.finished
      /\ pc = "idle" /\ pc' = "idle" /\ active = TRUE /\ generation \in 1..MaxGeneration
      /\ UNCHANGED <<generation, futures, simVars, placed, closed, awaiting, replies>>
      /\ UNCHANGED <<source, seeds>>
  BY <1>1, ActiveFacts
     DEF Timeout, Spinning, RestUnchanged, IInv, TypeOK, TransactionTypes, Phases
<1>3. tx' \in Transaction /\ (active' <=> ~tx'.finished) /\ tx'.waiting = tx.waiting
  BY <1>2, FinishMarks
<1>4. events' = events
  BY <1>2 DEF FinishTransaction
<1>5. /\ active' \in BOOLEAN /\ failed' \subseteq 1..MaxGeneration
      /\ events' \subseteq 1..MaxGeneration
      /\ PoseTypes' /\ AnnouncedOrFailed' /\ PlacedByClean' /\ SubmittedSoFar'
      /\ NoOpenCall' /\ ArmedByAnnounced' /\ ScansBehindBarrier'
  BY <1>1, <1>2, <1>4, OutcomeRest
<1>6. TransactionTypes' /\ LoopTypes' /\ Phases'
  BY <1>1, <1>2, <1>3, <1>5 DEF IInv, TypeOK, TransactionTypes, LoopTypes, Phases
<1>7. FuturesCounted' /\ FuturesDistinct' /\ ClosedAtRest'
  BY <1>1, <1>2, <1>3, ActiveFacts DEF IInv, FuturesCounted, FuturesDistinct, ClosedAtRest
<1> QED BY <1>5, <1>6, <1>7 DEF IInv, TypeOK

\* The bridge may be closed while a transaction is active, hooks included.
LEMMA CloseStep == ASSUME IInv, Close PROVE IInv'
<1>1. /\ futures' = {} /\ pc' = "idle" /\ closed' = TRUE
      /\ UNCHANGED <<generation, awaiting, replies, source, seeds, simVars, placed>>
  BY DEF Close
<1>2. FuturesCounted' /\ FuturesDistinct' /\ SubmittedSoFar' /\ NoOpenCall'
  BY <1>1 DEF FuturesCounted, FuturesDistinct, SubmittedSoFar, NoOpenCall
<1>3. CASE active
  <2>1. /\ FinishTransaction(tx, failed \cup {generation}) /\ tx \in Transaction /\ ~tx.finished
        /\ generation \in 1..MaxGeneration /\ active = TRUE
    BY <1>3, ActiveFacts DEF Close, IInv, TypeOK, TransactionTypes
  <2>2. Outcome
    BY <2>1, FinishOutcome
  <2>3. tx' \in Transaction /\ (active' <=> ~tx'.finished)
    BY <2>1, FinishMarks
  <2>4. generation \in failed' /\ events' = events /\ active' = FALSE
    BY <2>1 DEF FinishTransaction
  <2>5. /\ active' \in BOOLEAN /\ failed' \subseteq 1..MaxGeneration
        /\ events' \subseteq 1..MaxGeneration
        /\ PoseTypes' /\ AnnouncedOrFailed' /\ PlacedByClean' /\ ArmedByAnnounced'
        /\ ScansBehindBarrier'
    BY <1>1, <1>3, <2>2, <2>4, OutcomeRest
  <2>6. TransactionTypes' /\ LoopTypes' /\ Phases' /\ ClosedAtRest'
    BY <1>1, <2>3, <2>4, <2>5
       DEF IInv, TypeOK, TransactionTypes, LoopTypes, Phases, ClosedAtRest
  <2> QED BY <1>2, <2>5, <2>6 DEF IInv, TypeOK
<1>4. CASE ~active
  <2>1. barrier' = None /\ deferred' = FALSE /\ UNCHANGED <<active, tx, failed, events>>
    BY <1>4 DEF Close, CancelPose
  <2>2. pc = "idle"
    BY <1>4 DEF IInv, TypeOK, Phases
  <2>3. TransactionTypes' /\ LoopTypes' /\ PoseTypes'
    BY <1>1, <2>1 DEF IInv, TypeOK, TransactionTypes, LoopTypes, PoseTypes, simVars
  <2>4. Phases' /\ AnnouncedOrFailed' /\ PlacedByClean'
    BY <1>1, <2>1, <2>2, Frames
  <2>5. ClosedAtRest' /\ ArmedByAnnounced' /\ ScansBehindBarrier'
    BY <1>1, <1>4, <2>1
       DEF ClosedAtRest, ArmedByAnnounced, Armed, IInv, ScansBehindBarrier, simVars
  <2> QED BY <1>2, <2>3, <2>4, <2>5 DEF IInv, TypeOK
<1> QED BY <1>3, <1>4

-------------------------------------------------------------------------------
(* Answers and their callbacks *)

\* An answer leaves both callbacks of its future to come.
LEMMA AnswerStep ==
  ASSUME IInv, NEW f \in futures, NEW answer \in {"ok", "error"}, Answer(f, answer)
  PROVE  IInv'
<1> DEFINE g == [f EXCEPT !.answer = answer]
<1>1. f \in Future /\ f.answer = "none"
  BY DEF IInv, TypeOK, TransactionTypes, Answer
<1>2. /\ g \in Future /\ g.label = f.label /\ g.generation = f.generation
      /\ g.counted = f.counted /\ g.due = f.due /\ g.answer # "none"
  BY <1>1 DEF Future
<1>3. /\ futures' = (futures \ {f}) \cup {g} /\ ~closed
      /\ UNCHANGED <<generation, active, tx, failed, closed, pc, awaiting, replies, poseVars,
                     simVars, placed, events>>
  BY DEF Answer, Spinning
<1> HIDE DEF g
<1>4. TransactionTypes' /\ ClosedAtRest'
  BY <1>2, <1>3 DEF IInv, TypeOK, TransactionTypes, ClosedAtRest
<1>5. FuturesCounted' /\ FuturesDistinct' /\ SubmittedSoFar' /\ NoOpenCall'
  BY <1>2, <1>3 DEF IInv, FuturesCounted, FuturesDistinct, SubmittedSoFar, NoOpenCall
<1>6. /\ LoopTypes' /\ PoseTypes' /\ Phases' /\ AnnouncedOrFailed' /\ PlacedByClean'
      /\ ArmedByAnnounced' /\ ScansBehindBarrier'
  BY <1>3, Frames DEF poseVars, simVars
<1> QED BY <1>4, <1>5, <1>6 DEF IInv, TypeOK

\* Only an answered future is no longer counted.
LEMMA DiscardStep == ASSUME IInv, NEW f \in futures, Discard(f) PROVE IInv'
<1> DEFINE g == [f EXCEPT !.counted = FALSE]
<1>1. f \in Future /\ f.answer # "none" /\ futures \subseteq Future
  BY DEF IInv, TypeOK, TransactionTypes, Discard
<1>2. /\ g \in Future /\ g.label = f.label /\ g.generation = f.generation
      /\ ~g.counted /\ g.due = f.due /\ g.answer = f.answer
  BY <1>1 DEF Future
<1>3. /\ Consume(f, g) /\ ~closed
      /\ UNCHANGED <<generation, active, tx, failed, closed, pc, awaiting, replies, poseVars,
                     simVars, placed, events>>
  BY DEF Discard, Spinning
<1> HIDE DEF g
<1>4. \A h \in futures' : h \in futures \/ h = g
  BY <1>3 DEF Consume
<1>5. TransactionTypes' /\ ClosedAtRest'
  BY <1>2, <1>3, <1>4 DEF IInv, TypeOK, TransactionTypes, ClosedAtRest
<1>6. FuturesDistinct'
  BY <1>1, <1>2, <1>3, ConsumeDistinct DEF IInv
<1>7. FuturesCounted' /\ SubmittedSoFar' /\ NoOpenCall'
  BY <1>1, <1>2, <1>3, <1>4 DEF IInv, FuturesCounted, SubmittedSoFar, NoOpenCall
<1>8. /\ LoopTypes' /\ PoseTypes' /\ Phases' /\ AnnouncedOrFailed' /\ PlacedByClean'
      /\ ArmedByAnnounced' /\ ScansBehindBarrier'
  BY <1>3, Frames DEF poseVars, simVars
<1> QED BY <1>5, <1>6, <1>7, <1>8 DEF IInv, TypeOK

\* A completed that counts is of the active transaction and may end it.
LEMMA CompletedOutcome ==
  ASSUME IInv, NEW f \in futures, Completed(f), ~(f.generation # generation \/ tx.finished)
  PROVE  /\ Outcome /\ active
         /\ tx' \in Transaction /\ (active' <=> ~tx'.finished) /\ tx'.sealed = tx.sealed
         /\ tx'.waiting = tx.waiting \ {f.label}
         /\ events' # events => tx'.waiting = {}
<1> DEFINE t == [tx EXCEPT !.waiting = @ \ {f.label}]
           errors == IF f.answer = "error" THEN failed \cup {generation} ELSE failed
<1>1. active = TRUE /\ generation \in 1..MaxGeneration /\ tx \in Transaction
  BY ActiveFacts DEF IInv, TypeOK, TransactionTypes, Phases
<1>2. /\ t \in Transaction /\ ~t.finished /\ t.sealed = tx.sealed
      /\ t.waiting = tx.waiting \ {f.label}
  BY <1>1 DEF Transaction
<1>3. FinishIfReady(t, errors) /\ errors \in {failed, failed \cup {generation}}
  BY DEF Completed
<1> HIDE DEF t, errors
<1>4. Outcome
  BY <1>1, <1>3, FinishOutcome
<1>5. /\ tx' \in Transaction /\ (active' <=> ~tx'.finished)
      /\ tx'.sealed = t.sealed /\ tx'.waiting = t.waiting
  BY <1>1, <1>2, <1>3, FinishMarks
<1>6. events' # events => t.waiting = {}
  BY <1>3, ReadyWhenAnnounced
<1> QED BY <1>1, <1>2, <1>4, <1>5, <1>6

\* The last completed of a sealed transaction announces it or records its failure.
LEMMA CompletedStep == ASSUME IInv, NEW f \in futures, Completed(f) PROVE IInv'
<1> DEFINE g == [f EXCEPT !.due = FALSE]
<1>1. f \in Future /\ f.answer # "none" /\ futures \subseteq Future
  BY DEF IInv, TypeOK, TransactionTypes, Completed
<1>2. /\ g \in Future /\ g.label = f.label /\ g.generation = f.generation
      /\ g.counted = f.counted /\ ~g.due /\ g.answer = f.answer
  BY <1>1 DEF Future
<1>3. /\ Consume(f, g) /\ ~closed /\ pc = "idle"
      /\ UNCHANGED <<generation, pc, simVars, placed, closed, awaiting, replies, source, seeds>>
  BY DEF Completed, Spinning, RestUnchanged
<1> HIDE DEF g
<1>4. \A h \in futures' : (h \in futures /\ h # f) \/ h = g
  BY <1>3 DEF Consume
<1>5. FuturesDistinct' /\ futures' \subseteq Future
  BY <1>1, <1>2, <1>3, <1>4, ConsumeDistinct DEF IInv
<1>6. CASE f.generation # generation \/ tx.finished
  <2>1. UNCHANGED <<active, tx, failed, deferred, barrier, events>>
    BY <1>6 DEF Completed
  <2>2. TransactionTypes' /\ ClosedAtRest'
    BY <1>3, <1>5, <2>1 DEF IInv, TypeOK, TransactionTypes, ClosedAtRest
  <2>3. FuturesCounted' /\ SubmittedSoFar' /\ NoOpenCall'
    BY <1>1, <1>2, <1>3, <1>4, <2>1 DEF IInv, FuturesCounted, SubmittedSoFar, NoOpenCall
  <2>4. /\ LoopTypes' /\ PoseTypes' /\ Phases' /\ AnnouncedOrFailed' /\ PlacedByClean'
        /\ ArmedByAnnounced' /\ ScansBehindBarrier'
    BY <1>3, <2>1, Frames DEF simVars
  <2> QED BY <1>5, <2>2, <2>3, <2>4 DEF IInv, TypeOK
<1>7. CASE ~(f.generation # generation \/ tx.finished)
  <2>1. /\ Outcome /\ active
        /\ tx' \in Transaction /\ (active' <=> ~tx'.finished) /\ tx'.sealed = tx.sealed
        /\ tx'.waiting = tx.waiting \ {f.label}
        /\ events' # events => tx'.waiting = {}
    BY <1>7, CompletedOutcome
  <2>2. \A h \in futures : h.generation = generation /\ h.due =>
          h = f \/ h.label \in tx.waiting \ {f.label}
    BY <1>7 DEF IInv, FuturesCounted, FuturesDistinct
  <2>3. events' # events => \A h \in futures : h.answer # "none"
    BY <1>1, <2>1, <2>2, ActiveFacts DEF IInv, FuturesCounted
  <2>4. /\ active' \in BOOLEAN /\ failed' \subseteq 1..MaxGeneration
        /\ events' \subseteq 1..MaxGeneration
        /\ PoseTypes' /\ AnnouncedOrFailed' /\ PlacedByClean' /\ SubmittedSoFar'
        /\ NoOpenCall' /\ ArmedByAnnounced' /\ ScansBehindBarrier'
    BY <1>1, <1>2, <1>3, <1>4, <2>1, <2>3, OutcomeRest
  <2>5. TransactionTypes' /\ LoopTypes' /\ Phases' /\ ClosedAtRest'
    BY <1>3, <1>5, <2>1, <2>4
       DEF IInv, TypeOK, TransactionTypes, LoopTypes, Phases, ClosedAtRest
  <2>6. FuturesCounted'
    BY <1>1, <1>2, <1>3, <1>4, <2>1, <2>2 DEF IInv, FuturesCounted
  <2> QED BY <1>5, <2>4, <2>5, <2>6 DEF IInv, TypeOK
<1> QED BY <1>6, <1>7

-------------------------------------------------------------------------------
(* The other steps *)

\* The response is written after the reset has ended, so it can be compared with the
\* announcement.
LEMMA RespondStep == ASSUME IInv, NEW g \in awaiting, Respond(g) PROVE IInv'
<1>1. LoopTypes'
  BY DEF IInv, TypeOK, LoopTypes, Respond
<1>2. AnnouncedOrFailed'
  <2>1. g \in 1..generation /\ ~(g = generation /\ active)
    BY DEF IInv, AnnouncedOrFailed, TypeOK, Phases, Respond
  <2>2. replies' = [replies EXCEPT ![g] = IF g \in events THEN "success" ELSE "failure"]
    BY <2>1 DEF Respond, IInv, AnnouncedOrFailed
  <2> QED BY <2>1, <2>2 DEF IInv, AnnouncedOrFailed, TypeOK, LoopTypes, Respond, txVars
<1>3. /\ TransactionTypes' /\ PoseTypes' /\ Phases' /\ FuturesCounted' /\ FuturesDistinct'
      /\ SubmittedSoFar' /\ ClosedAtRest' /\ PlacedByClean' /\ NoOpenCall'
      /\ ArmedByAnnounced' /\ ScansBehindBarrier'
  BY Frames DEF Respond, txVars, poseVars, simVars
<1> QED BY <1>1, <1>2, <1>3 DEF IInv, TypeOK

\* A policy moves the armed pose, or drops it.
LEMMA SourcePolicyStep ==
  ASSUME IInv, NEW policy \in {"auto", "rviz"}, SourcePolicy(policy)
  PROVE  IInv'
<1>1. PoseTypes'
  BY DEF SourcePolicy, ArmPolicy, IInv, TypeOK, PoseTypes, simVars
<1>2. ArmedByAnnounced'
  BY DEF SourcePolicy, ArmPolicy, IInv, ArmedByAnnounced, Armed, TypeOK, PoseTypes, txVars
<1>3. ScansBehindBarrier'
  BY DEF SourcePolicy, ArmPolicy, IInv, ScansBehindBarrier, simVars
<1>4. /\ TransactionTypes' /\ LoopTypes' /\ Phases' /\ FuturesCounted' /\ FuturesDistinct'
      /\ SubmittedSoFar' /\ ClosedAtRest' /\ AnnouncedOrFailed' /\ PlacedByClean' /\ NoOpenCall'
  BY Frames DEF SourcePolicy, txVars
<1> QED BY <1>1, <1>2, <1>3, <1>4 DEF IInv, TypeOK

\* A barrier only ever falls to the present, below which there are no scans
\* of this clock that are yet to be taken.
LEMMA ScanStep ==
  ASSUME IInv, NEW scan \in scans, ObserveScan(scan) \/ LoseScan(scan)
  PROVE  IInv'
<1>1. /\ scans' \subseteq scans /\ UNCHANGED <<source, deferred, sim, epoch, placed, events>>
      /\ UNCHANGED <<txVars, closed, pc, awaiting, replies>>
  BY DEF ObserveScan, LoseScan, poseVars
<1>2. /\ barrier' \in {barrier, None} \/ (barrier # None /\ sim < barrier /\ barrier' = sim)
      /\ seeds' \in {seeds, seeds + 1}
  BY DEF ObserveScan, LoseScan, poseVars
<1>3. PoseTypes'
  BY <1>1, <1>2 DEF IInv, TypeOK, PoseTypes
<1>4. ScansBehindBarrier' /\ ArmedByAnnounced'
  BY <1>1, <1>2 DEF IInv, ScansBehindBarrier, ArmedByAnnounced, Armed, txVars
<1>5. /\ TransactionTypes' /\ LoopTypes' /\ Phases' /\ FuturesCounted' /\ FuturesDistinct'
      /\ SubmittedSoFar' /\ ClosedAtRest' /\ AnnouncedOrFailed' /\ PlacedByClean' /\ NoOpenCall'
  BY <1>1, Frames DEF txVars
<1> QED BY <1>3, <1>4, <1>5 DEF IInv, TypeOK

\* Time passes or begins again; scans of an earlier clock stay behind.
LEMMA ClockStep == ASSUME IInv, Simulate \/ RestartClock PROVE IInv'
<1>1. PoseTypes' /\ ScansBehindBarrier'
  <2>1. CASE Simulate
    BY <2>1, UpdateKeepsScans DEF Simulate, poseVars
  <2>2. CASE RestartClock
    BY <2>2, BoundAssumption
       DEF RestartClock, poseVars, IInv, TypeOK, PoseTypes, Scan, ScansBehindBarrier
  <2> QED BY <2>1, <2>2
<1>2. UNCHANGED <<txVars, closed, pc, awaiting, replies, poseVars, placed, events>>
  BY DEF Simulate, RestartClock
<1>3. /\ TransactionTypes' /\ LoopTypes' /\ Phases' /\ FuturesCounted' /\ FuturesDistinct'
      /\ SubmittedSoFar' /\ ClosedAtRest' /\ AnnouncedOrFailed' /\ PlacedByClean' /\ NoOpenCall'
      /\ ArmedByAnnounced'
  BY <1>2, Frames DEF txVars, poseVars
<1> QED BY <1>1, <1>3 DEF IInv, TypeOK

-------------------------------------------------------------------------------
(* Theorems *)

\* The invariant holds of the initial state.
LEMMA InitInv == Init => IInv
<1> SUFFICES ASSUME Init PROVE IInv
  OBVIOUS
<1>1. TypeOK
  <2>1. generation \in 0..MaxGeneration /\ placed \in 0..MaxGeneration
    BY BoundAssumption DEF Init
  <2>2. active \in BOOLEAN /\ failed \subseteq 1..MaxGeneration /\ futures \subseteq Future
    BY DEF Init
  <2>3. tx \in Transaction
    BY DEF Init, Transaction
  <2>4. closed \in BOOLEAN /\ pc = "idle" /\ awaiting = {} /\ events = {}
    BY DEF Init
  <2>5. replies \in [1..MaxGeneration -> {"none", "success", "failure"}]
    BY DEF Init
  <2>6. source \in {"none", "auto", "rviz"} /\ deferred \in BOOLEAN /\ scans \subseteq Scan
    BY DEF Init
  <2>7. barrier \in {None} \cup 0..MaxTime /\ seeds \in Nat
    BY DEF Init
  <2>8. sim \in 0..MaxTime /\ epoch \in 0..MaxEpoch
    BY BoundAssumption DEF Init
  <2>9. Phases
    BY DEF Init, Phases
  <2>10. LoopTypes
    BY <2>1, <2>4, <2>5 DEF LoopTypes
  <2> QED BY <2>1, <2>2, <2>3, <2>6, <2>7, <2>8, <2>9, <2>10
          DEF TypeOK, TransactionTypes, PoseTypes
<1>2. FuturesCounted /\ FuturesDistinct /\ SubmittedSoFar /\ ClosedAtRest
  BY DEF Init, FuturesCounted, FuturesDistinct, SubmittedSoFar, ClosedAtRest
<1>3. AnnouncedOrFailed /\ PlacedByClean
  BY BoundAssumption DEF Init, AnnouncedOrFailed, PlacedByClean
<1>4. NoOpenCall /\ ArmedByAnnounced /\ ScansBehindBarrier
  BY DEF Init, NoOpenCall, ArmedByAnnounced, ScansBehindBarrier, Armed
<1> QED BY <1>1, <1>2, <1>3, <1>4 DEF IInv

\* Every step keeps the invariant.
LEMMA NextInv == IInv /\ [Next]_vars => IInv'
<1> SUFFICES ASSUME IInv, [Next]_vars PROVE IInv'
  OBVIOUS
<1>1. CASE UNCHANGED vars
  BY <1>1, Frames DEF vars, txVars, poseVars, simVars, IInv, TypeOK
<1>2. CASE StartupReset \/ ResetRequested
  BY <1>2, StartStep DEF StartupReset, ResetRequested
<1>3. CASE Hook
  BY <1>3, QuietHookStep, QueueHookStep, SealStep DEF Hook, QuietHook, QueueHook
<1>4. CASE Timeout \/ Close
  BY <1>4, TimeoutStep, CloseStep
<1>5. CASE \E f \in futures :
             Answer(f, "ok") \/ Answer(f, "error") \/ Discard(f) \/ Completed(f)
  BY <1>5, AnswerStep, DiscardStep, CompletedStep
<1>6. CASE \E g \in awaiting : Respond(g)
  BY <1>6, RespondStep
<1>7. CASE \E policy \in {"auto", "rviz"} : SourcePolicy(policy)
  BY <1>7, SourcePolicyStep
<1>8. CASE \E scan \in scans : ObserveScan(scan) \/ LoseScan(scan)
  BY <1>8, ScanStep
<1>9. CASE Simulate \/ RestartClock
  BY <1>9, ClockStep
<1> QED BY <1>1, <1>2, <1>3, <1>4, <1>5, <1>6, <1>7, <1>8, <1>9 DEF Next

\* The inductive invariant holds of every behaviour: who is counted, who is
\* waited for and which reset moved the robot stay in step.
THEOREM ResetInvariance == Spec => []IInv
  BY InitInv, NextInv, PTL DEF Spec

\* Every variable keeps its type, and a transaction is active until it is
\* marked finished.
THEOREM ResetTypeCorrect == Spec => []TypeOK
<1>1. IInv => TypeOK
  BY DEF IInv
<1> QED BY ResetInvariance, <1>1, PTL

\* A pose waits for its scan only while no reset and no call is open.
THEOREM ArmedQuiet == Spec => []ArmedOnlyWhenQuiet
<1>1. IInv => ArmedOnlyWhenQuiet
  <2> SUFFICES ASSUME IInv, Armed PROVE ArmedOnlyWhenQuiet
    BY DEF ArmedOnlyWhenQuiet, Armed
  <2>1. generation \in events /\ source # "rviz" /\ ~Outstanding
    BY DEF IInv, NoOpenCall, ArmedByAnnounced, Armed, Outstanding
  <2>2. ~active /\ generation \notin failed /\ generation \in 1..generation
    BY <2>1 DEF IInv, AnnouncedOrFailed
  <2>3. placed = generation
    BY <2>2 DEF IInv, PlacedByClean, TypeOK, Phases
  <2> QED BY <2>1, <2>2, <2>3 DEF ArmedOnlyWhenQuiet
<1> QED BY ResetInvariance, <1>1, PTL

\* A response tells the truth about the announcement.
THEOREM Truthful == Spec => []ResponseTruthful
<1>1. IInv => ResponseTruthful
  BY DEF IInv, AnnouncedOrFailed, ResponseTruthful
<1> QED BY ResetInvariance, <1>1, PTL

\* A step that publishes a pose does so on a scan from after the teleport.
LEMMA SeedStep ==
  ASSUME IInv, [Next]_vars, seeds' > seeds, NEW scan \in scans, scan \notin scans'
  PROVE  \/ scan.placed = placed
         \/ scan.epoch # epoch /\ scan.stamp - sim <= Tolerance
<1>1. seeds' # seeds
  BY DEF IInv, TypeOK, PoseTypes
<1>2. PICK s \in scans : ObserveScan(s)
  BY <1>1 DEF Next, vars, txVars, poseVars, simVars, RestUnchanged, StartupReset,
     ResetRequested, StartReset, Hook, Validate, ResetOdometry, ClearCostmaps, Step, Teleport,
     HookFails, Play, Seal, Timeout, Close, Answer, Discard, Completed, Respond, SourcePolicy,
     LoseScan, Simulate, RestartClock
<1>3. s = scan
  BY <1>2 DEF ObserveScan
<1>4. PICK after : /\ after = IF sim < barrier THEN sim ELSE barrier
                   /\ barrier # None /\ Accepted(scan, after)
  BY <1>1, <1>2, <1>3 DEF ObserveScan
<1>5. CASE scan.epoch = epoch
  BY <1>4, <1>5, BoundAssumption
     DEF Accepted, IInv, ScansBehindBarrier, TypeOK, PoseTypes, Scan, None
<1>6. CASE scan.epoch # epoch
  BY <1>4, <1>6 DEF Accepted
<1> QED BY <1>5, <1>6

\* The pose is never published on a scan from before the teleport, unless the
\* clock was restarted.
THEOREM SeedSafe == Spec => SeedSeesTheTeleport
<1>1. IInv /\ [Next]_vars => [seeds' > seeds =>
        \A scan \in scans \ scans' :
          \/ scan.placed = placed
          \/ scan.epoch # epoch /\ scan.stamp - sim <= Tolerance]_vars
  BY SeedStep
<1> QED BY ResetInvariance, <1>1, PTL DEF Spec, SeedSeesTheTeleport

\* An outcome with no call open, if it announces, is a step of the contract.
LEMMA OutcomeMaps ==
  ASSUME IInv, Outcome, generation' = generation, Outstanding' = Outstanding,
         active, events' # events => ~Outstanding
  PROVE  [Contract!Next]_(Contract!vars)
<1>1. generation \notin events
  BY DEF IInv, AnnouncedOrFailed
<1>2. CASE active' = active /\ events' = events
  BY <1>2 DEF Contract!vars
<1>3. CASE active' = FALSE /\ events' = events
  BY <1>3 DEF Contract!Next, Contract!Abort
<1>4. CASE active' = FALSE /\ events' = events \cup {generation}
  BY <1>1, <1>4 DEF Contract!Next, Contract!Announce
<1> QED BY <1>2, <1>3, <1>4 DEF Outcome

\* Every step of the bridge is a step of the contract, or none.
LEMMA ContractStep == IInv /\ [Next]_vars => [Contract!Next]_(Contract!vars)
<1> SUFFICES ASSUME IInv, [Next]_vars PROVE [Contract!Next]_(Contract!vars)
  OBVIOUS
<1>0. IInv'
  BY NextInv
<1>1. CASE futures' = futures /\ UNCHANGED <<generation, active, events>>
  BY <1>1 DEF Contract!vars, Outstanding
<1>2. CASE StartReset
  <2>1. ~Outstanding /\ Outstanding' = Outstanding
    BY <1>2 DEF StartReset, CanStart, Outstanding, IInv, FuturesCounted
  <2> QED BY <1>2, <2>1 DEF StartReset, CanStart, Contract!Next, Contract!Begin
<1>3. ASSUME NEW labels, QueueCalls(labels), UNCHANGED <<generation, active, events>>, active
      PROVE  [Contract!Next]_(Contract!vars)
  <2>1. Outstanding => Outstanding'
    BY <1>3 DEF QueueCalls, Outstanding
  <2>2. CASE Outstanding'
    BY <1>3, <2>2 DEF Contract!Next, Contract!Submit
  <2>3. CASE ~Outstanding'
    <3>1. Outstanding' = Outstanding
      BY <2>1, <2>3 DEF Outstanding
    <3> QED BY <1>3, <3>1 DEF Contract!vars
  <2> QED BY <2>2, <2>3
<1>4. CASE ResetOdometry \/ ClearCostmaps
  BY <1>3, <1>4 DEF ResetOdometry, ClearCostmaps, RestUnchanged, InHook, IInv, TypeOK, Phases
<1>5. CASE Validate \/ Step \/ Teleport \/ HookFails \/ Play
  BY <1>1, <1>5 DEF Validate, Step, Teleport, HookFails, Play, txVars
<1>6. ASSUME Outcome, UNCHANGED generation, active, Outstanding' = Outstanding
      PROVE  [Contract!Next]_(Contract!vars)
  <2>1. events' # events => ~Outstanding'
    BY <1>0, <1>6 DEF Outcome, IInv, NoOpenCall, Outstanding
  <2> QED BY <1>6, <2>1, OutcomeMaps
<1>7. CASE Seal
  <2>1. Outcome
    BY <1>7, SealOutcome
  <2>2. UNCHANGED generation /\ active /\ Outstanding' = Outstanding
    BY <1>7 DEF Seal, InHook, Outstanding, IInv, TypeOK, Phases
  <2> QED BY <1>6, <2>1, <2>2
<1>8. CASE Timeout
  <2>1. Outcome
    BY <1>8, TimeoutOutcome
  <2>2. UNCHANGED generation /\ active /\ Outstanding' = Outstanding
    BY <1>8 DEF Timeout, Outstanding, IInv, TypeOK, Phases
  <2> QED BY <1>6, <2>1, <2>2
<1>9. CASE Close
  <2>1. ~Outstanding' /\ generation' = generation
    BY <1>9 DEF Close, Outstanding
  <2>2. CASE active
    <3>1. active' = FALSE /\ events' = events
      BY <1>9, <2>2 DEF Close, FinishTransaction
    <3>2. Outstanding' = FALSE
      BY <2>1
    <3> QED BY <2>1, <2>2, <3>1, <3>2 DEF Contract!Next, Contract!Abort
  <2>3. CASE ~active
    <3>1. Outstanding' = FALSE
      BY <2>1
    <3> QED BY <1>9, <2>1, <2>3, <3>1 DEF Close, Contract!Next, Contract!Settle
  <2> QED BY <2>2, <2>3
<1>10. ASSUME NEW f \in futures, Answer(f, "ok") \/ Answer(f, "error")
       PROVE  [Contract!Next]_(Contract!vars)
  <2>1. Outstanding /\ UNCHANGED <<generation, active, events>>
    BY <1>10 DEF Answer, Outstanding, txVars
  <2>2. CASE Outstanding'
    <3>1. Outstanding' = Outstanding
      BY <2>1, <2>2
    <3> QED BY <2>1, <3>1 DEF Contract!vars
  <2>3. CASE ~Outstanding'
    <3>1. Outstanding' = FALSE
      BY <2>3
    <3> QED BY <2>1, <3>1 DEF Contract!Next, Contract!Settle
  <2> QED BY <2>2, <2>3
<1>11. ASSUME NEW f \in futures, Discard(f) \/ Completed(f)
       PROVE  [Contract!Next]_(Contract!vars)
  <2>1. /\ f.answer # "none"
        /\ \A h \in futures' : h \in futures \/ h.answer = f.answer
        /\ \A h \in futures : h \in futures' \/ h = f
    BY <1>11 DEF Discard, Completed, Consume, IInv, TypeOK, TransactionTypes, Future
  <2>2. Outstanding' = Outstanding
    BY <2>1 DEF Outstanding
  <2>3. CASE UNCHANGED <<generation, active, events>>
    BY <2>2, <2>3 DEF Contract!vars
  <2>4. CASE ~UNCHANGED <<generation, active, events>>
    <3>1. /\ Completed(f) /\ ~(f.generation # generation \/ tx.finished)
          /\ generation' = generation
      BY <1>11, <2>4 DEF Discard, Completed
    <3> QED BY <1>6, <2>2, <3>1, CompletedOutcome
  <2> QED BY <2>3, <2>4
<1>12. CASE \/ \E g \in awaiting : Respond(g)
            \/ \E policy \in {"auto", "rviz"} : SourcePolicy(policy)
            \/ \E scan \in scans : ObserveScan(scan) \/ LoseScan(scan)
            \/ Simulate \/ RestartClock \/ UNCHANGED vars
  BY <1>1, <1>12 DEF Respond, SourcePolicy, ObserveScan, LoseScan, Simulate, RestartClock,
     vars, txVars
<1> QED BY <1>2, <1>4, <1>5, <1>7, <1>8, <1>9, <1>10, <1>11, <1>12
        DEF Next, Hook, StartupReset, ResetRequested

\* The transaction implements the safety part of the contract: epochs are
\* announced, and resets begun, only when no call is open.
THEOREM ContractSafety == Spec => Contract!Safety
<1>1. Init => Contract!Init
  BY DEF Init, Contract!Init, Outstanding
<1> QED BY <1>1, ResetInvariance, ContractStep, PTL DEF Spec, Contract!Safety

\* A step spends at most one announced reset on one pose.
LEMMA SeedCountStep == IInv /\ OneSeedPerEvent /\ [Next]_vars => OneSeedPerEvent'
<1> SUFFICES ASSUME IInv, OneSeedPerEvent, [Next]_vars PROVE OneSeedPerEvent'
  OBVIOUS
<1>0. /\ IsFiniteSet(events) /\ Cardinality(events) \in Nat /\ seeds \in Nat
      /\ generation \in Nat
  <2>1. generation \in Nat /\ events \subseteq 1..generation
    BY BoundAssumption DEF IInv, AnnouncedOrFailed, TypeOK, TransactionTypes
  <2>2. IsFiniteSet(1..generation)
    BY <2>1, FS_Interval
  <2> QED BY <2>1, <2>2, FS_Subset, FS_CardinalityType DEF IInv, TypeOK, PoseTypes
<1>1. ASSUME events' = events, seeds' = seeds, Armed' => Armed PROVE OneSeedPerEvent'
  BY <1>0, <1>1 DEF OneSeedPerEvent, Armed
<1>2. ASSUME Outcome, active, seeds' = seeds PROVE OneSeedPerEvent'
  <2>1. ~Armed /\ generation \notin events
    BY <1>2, ActiveFacts DEF Armed
  <2>2. CASE events' = events
    <3>1. ~Armed'
      BY <1>2, <2>1, <2>2 DEF Outcome, Armed
    <3> QED BY <1>1, <1>2, <2>2, <3>1
  <2>3. CASE events' = events \cup {generation}
    <3>1. Cardinality(events') = Cardinality(events) + 1
      BY <1>0, <2>1, <2>3, FS_AddElement
    <3> QED BY <1>0, <1>2, <2>1, <3>1 DEF OneSeedPerEvent, Armed
  <2> QED BY <1>2, <2>2, <2>3 DEF Outcome
<1>3. CASE Seal
  BY <1>2, <1>3, SealOutcome DEF Seal, RestUnchanged
<1>4. CASE Timeout
  BY <1>2, <1>4, TimeoutOutcome DEF Timeout, RestUnchanged
<1>5. ASSUME NEW f \in futures, Completed(f) PROVE OneSeedPerEvent'
  <2>1. CASE f.generation # generation \/ tx.finished
    BY <1>1, <1>5, <2>1 DEF Completed, RestUnchanged, Armed
  <2>2. CASE ~(f.generation # generation \/ tx.finished)
    BY <1>2, <1>5, <2>2, CompletedOutcome DEF Completed, RestUnchanged
  <2> QED BY <2>1, <2>2
<1>6. CASE Close
  <2>1. ~Armed' /\ events' = events /\ seeds' = seeds
    BY <1>6 DEF Close, FinishTransaction, CancelPose, Armed
  <2> QED BY <1>1, <2>1
<1>7. ASSUME NEW scan \in scans, ObserveScan(scan) PROVE OneSeedPerEvent'
  <2>1. CASE seeds' = seeds
    <3>1. Armed' => Armed
      BY <1>7 DEF ObserveScan, Armed
    <3> QED BY <1>1, <1>7, <2>1, <3>1 DEF ObserveScan
  <2>2. CASE seeds' # seeds
    <3>1. barrier # None /\ barrier' = None /\ seeds' = seeds + 1
      BY <1>7, <2>2 DEF ObserveScan
    <3>2. ~deferred /\ UNCHANGED <<deferred, events>>
      BY <1>7, <3>1 DEF IInv, ArmedByAnnounced, ObserveScan
    <3> QED BY <1>0, <3>1, <3>2 DEF OneSeedPerEvent
  <2> QED BY <2>1, <2>2
<1>8. CASE StartReset
  <2>1. ~Armed' /\ events' = events /\ seeds' = seeds
    BY <1>8 DEF StartReset, Disarm, CancelPose, Armed
  <2> QED BY <1>1, <2>1
<1>9. CASE \E policy \in {"auto", "rviz"} : SourcePolicy(policy)
  <2>1. PICK policy \in {"auto", "rviz"} : SourcePolicy(policy)
    BY <1>9
  <2>2. events' = events /\ seeds' = seeds
    BY <2>1 DEF SourcePolicy
  <2>3. Armed' => Armed
    BY <2>1 DEF SourcePolicy, ArmPolicy, Armed
  <2> QED BY <1>1, <2>2, <2>3
<1>10. CASE UNCHANGED <<events, seeds, deferred, barrier>>
  BY <1>1, <1>10 DEF Armed
<1>11. CASE \/ Validate \/ ResetOdometry \/ ClearCostmaps \/ Step \/ Teleport \/ HookFails
            \/ Play \/ Simulate \/ RestartClock \/ UNCHANGED vars
            \/ \E f \in futures : Answer(f, "ok") \/ Answer(f, "error") \/ Discard(f)
            \/ \E g \in awaiting : Respond(g)
            \/ \E scan \in scans : LoseScan(scan)
  BY <1>10, <1>11 DEF Validate, ResetOdometry, ClearCostmaps, Step, Teleport, HookFails, Play,
     Simulate, RestartClock, Answer, Discard, Respond, LoseScan, RestUnchanged, vars, poseVars
<1> QED BY <1>3, <1>4, <1>5, <1>6, <1>7, <1>8, <1>9, <1>11
        DEF Next, Hook, StartupReset, ResetRequested

\* At most one automatic pose per announced reset.
THEOREM SeedCount == Spec => []OneSeedPerEvent
<1>1. Init => OneSeedPerEvent
  BY FS_EmptySet DEF Init, OneSeedPerEvent
<1> QED BY <1>1, ResetInvariance, SeedCountStep, PTL DEF Spec
=============================================================================
