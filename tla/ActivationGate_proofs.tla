------------------------- MODULE ActivationGate_proofs -------------------------
(***************************************************************************)
(* Safety of the activation gate for every number of managed nodes, every  *)
(* retry budget and every bound: the inductive invariant and the theorems. *)
(***************************************************************************)
EXTENDS ActivationGate, LifecyclePolicy_proofs, SequenceTheorems

\* The request the gate may make in a stage.
ContextOf(s) == CASE s = "none" -> "activation"
                  [] s \in {"pause_query", "pause_verify"} -> "recovery_pause"
                  [] s \in {"resume_query", "resume_verify"} -> "recovery_resume"
                  [] OTHER -> "none"

\* Every future is told apart by its token, and none is of a later generation.
FuturesDistinct ==
  /\ \A c, d \in lifecycleCalls : c.token.id = d.token.id => c = d
  /\ \A c, d \in serviceCalls : c.id = d.id => c = d
  /\ \A c \in lifecycleCalls : c.generation <= generation
  /\ \A c \in serviceCalls : c.generation <= generation

\* Whatever is in flight was asked for in the present stage.
InStage ==
  /\ verifying \subseteq {ContextOf(stage)}
  /\ QueryInFlight => query.context = ContextOf(stage)
  /\ \A c \in lifecycleCalls :
       c.generation = generation => c.context = ContextOf(stage)
  /\ service # 0 => stage \in DOMAIN NextStage
  /\ \A c \in serviceCalls :
       c.generation = generation /\ c.id = service => c.stage = stage
  /\ Recovering => ~activated

\* An exhausted budget leaves no request to make.
BudgetSpent ==
  /\ attempts >= MaxAttempts
       => fatal \/ verifying # {} \/ request.kind = "manager"
  /\ attempts >= MaxAttempts /\ verifying = {} => ~QueryInFlight
  /\ attempts > MaxAttempts => ~QueryInFlight
  /\ request.kind = "manager" => verifying = {}

\* The recovery steps that a stage presupposes.
Owed(s) ==
  CASE s \in {"none", "cancel_goal"} -> {}
    [] s \in {"pause_query", "pause_verify"} -> {"cancel_goal"}
    [] s = "clear_global" -> {"cancel_goal", "paused"}
    [] s = "clear_local" -> {"cancel_goal", "paused", "clear_global"}
    [] s = "reseed" -> {"cancel_goal", "paused", "clear_global", "clear_local"}
    [] s = "waiting_readiness" -> RecoverySteps \ {"ready"}
    [] OTHER -> RecoverySteps

StepsDone ==
  /\ Owed(stage) \subseteq effects
  /\ \A c \in serviceCalls :
       c.generation = generation /\ c.answer = "ok" => c.stage \in effects

\* The stages of a recovery before the resume, and those after the pause.
Rebuilding == {"clear_global", "clear_local", "reseed", "waiting_readiness"}
Lowering == {"cancel_goal", "pause_query", "pause_verify"} \cup Rebuilding

\* Nothing asked of the nodes is of a later generation than the gate's.
NoneAhead ==
  /\ \A c \in stateCalls : c.generation <= generation
  /\ \A i \in DOMAIN manager : manager[i].generation <= generation
  /\ \A c \in changes : c.generation <= generation

\* Before the resume, what this generation asks of a node takes it down.
OnlyDownwards ==
  stage \in Lowering =>
    /\ \A i \in DOMAIN manager :
         manager[i].generation = generation => manager[i].command = "pause"
    /\ \A c \in changes :
         c.generation = generation => c.step.label = "deactivate"

\* A node that answered this generation's query as anything but active or
\* being deactivated is still down, whether the gate has counted it or not.
UpLabels == {"none", "active", "deactivating"}
SeenDown ==
  stage \in Lowering /\ ~stray =>
    /\ \A c \in stateCalls :
         c.generation = generation /\ c.answer \notin UpLabels
           => node[c.node] # "active"
    /\ QueryInFlight =>
         \A n \in Node : n \notin query.pending
                            /\ query.states[n] \notin UpLabels
                           => node[n] # "active"

HeldDown == NoneAhead /\ OnlyDownwards /\ SeenDown /\ PausedWhileRebuilding

\* The inductive invariant.
Safe == /\ OneCommandOutstanding /\ CommandBudget
        /\ FuturesDistinct /\ InStage /\ BudgetSpent /\ StepsDone
IInv == TypeOK /\ Safe /\ HeldDown

-------------------------------------------------------------------------------
(* Types.                                                                   *)

\* A repair step is one of Steps, whatever the stable snapshot.
LEMMA StepTyped ==
  ASSUME NEW states \in [Node -> LifecycleStates],
         LifecycleDecision(states) = "normalize",
         NEW target \in {"inactive", "active"},
         NormalizationTransition(states, target) # NoTransition
  PROVE  NormalizationTransition(states, target) \in Steps
<1>1. states \in [Node -> StableStates]
  BY DEF LifecycleDecision, LifecycleStates
<1>2. CASE target = "inactive"
  <2>1. StopStep(states).node \in Node /\ StopStep(states).label = "deactivate"
    BY <1>1, <1>2, StopsLastActive DEF NormalizationTransition
  <2>2. StopStep(states) = [node |-> StopStep(states).node,
                            label |-> StopStep(states).label]
    BY <1>2 DEF NormalizationTransition, StopStep
  <2> QED BY <1>2, <2>1, <2>2 DEF NormalizationTransition, Steps
<1>3. CASE target = "active"
  <2>1. /\ StartStep(states).node \in Node
        /\ StartStep(states).label \in {"configure", "activate"}
    BY <1>1, <1>3, StartsFirstStopped DEF NormalizationTransition
  <2>2. StartStep(states) = [node |-> StartStep(states).node,
                             label |-> StartStep(states).label]
    BY <1>3 DEF NormalizationTransition, StartStep
  <2> QED BY <1>3, <2>1, <2>2 DEF NormalizationTransition, Steps
<1> QED BY <1>2, <1>3

LEMMA ReserveTyped ==
  ASSUME TypeOK, NEW token \in Tokens, NEW context \in Contexts,
         Reserve(token, context)
  PROVE  /\ request' \in Tokens \cup {NoRequest}
         /\ lifecycleCalls' \subseteq LifecycleCalls
BY DEF TypeOK, DecisionTypes, Reserve, Answers, LifecycleCalls

LEMMA ManagerCommandTyped ==
  ASSUME TypeOK, NEW context \in Contexts,
         NEW command \in {"startup", "resume", "pause"},
         SendManagerCommand(command, context)
  PROVE  DecisionTypes'
<1>1. PICK id \in Ids :
        LET token == [kind |-> "manager", id |-> id] IN
        /\ Reserve(token, context)
        /\ manager' = Append(manager, [command |-> command, token |-> token,
                                       generation |-> generation, position |-> 1])
  BY DEF SendManagerCommand, Unused
<1> DEFINE token == [kind |-> "manager", id |-> id]
<1>2. token \in Tokens
  BY DEF Tokens
<1>3. /\ request' \in Tokens \cup {NoRequest}
      /\ lifecycleCalls' \subseteq LifecycleCalls
  BY <1>1, <1>2, ReserveTyped
<1>4. [command |-> command, token |-> token, generation |-> generation,
       position |-> 1] \in Commands
  BY <1>2 DEF TypeOK, Commands
<1>5. manager' \in Seq(Commands)
  BY <1>1, <1>4 DEF TypeOK, DecisionTypes
<1> QED
  BY <1>3, <1>5 DEF TypeOK, DecisionTypes, SendManagerCommand, phaseVars

LEMMA NormalizationTyped ==
  ASSUME TypeOK, NEW context \in Contexts,
         NEW states \in [Node -> LifecycleStates],
         LifecycleDecision(states) = "normalize",
         NEW target \in {"inactive", "active"},
         SendNormalizationTransition(context, states, target)
  PROVE  DecisionTypes'
<1> DEFINE step == NormalizationTransition(states, target)
<1>1. CASE step = NoTransition \/ "change" \notin up
  <2>1. /\ UNCHANGED <<phaseVars, attempts, stageAttempts, service, sendVars,
                       effects>>
        /\ \/ backoff' = TRUE /\ UNCHANGED <<normalizationAttempts, fatal>>
           \/ RecordNormalizationFailure
    BY <1>1 DEF SendNormalizationTransition
  <2>2. normalizationAttempts' \in Nat
    BY <2>1 DEF RecordNormalizationFailure, TypeOK, DecisionTypes
  <2>3. backoff' \in BOOLEAN /\ fatal' \in BOOLEAN
    BY <2>1 DEF RecordNormalizationFailure, TypeOK, DecisionTypes
  <2> QED
    BY <2>1, <2>2, <2>3 DEF TypeOK, DecisionTypes, phaseVars, sendVars
<1>2. CASE step # NoTransition /\ "change" \in up
  <2>1. PICK id \in Ids :
          LET token == [kind |-> "change", id |-> id] IN
          /\ Reserve(token, context)
          /\ changes' = changes \cup {[step |-> step, token |-> token,
                                       generation |-> generation]}
    BY <1>2 DEF SendNormalizationTransition, Unused
  <2>2. step \in Steps
    BY <1>2, StepTyped
  <2> DEFINE token == [kind |-> "change", id |-> id]
  <2>3. token \in Tokens
    BY DEF Tokens
  <2>4. /\ request' \in Tokens \cup {NoRequest}
        /\ lifecycleCalls' \subseteq LifecycleCalls
    BY <2>1, <2>3, ReserveTyped
  <2>5. changes' \subseteq Changes
    <3> HIDE DEF step
    <3> QED BY <2>1, <2>2, <2>3 DEF TypeOK, DecisionTypes, Changes
  <2>6. UNCHANGED <<phaseVars, retryVars, fatal, service, manager, effects>>
    BY <1>2 DEF SendNormalizationTransition
  <2> HIDE DEF step
  <2> QED BY <2>4, <2>5, <2>6 DEF TypeOK, DecisionTypes, phaseVars, retryVars
<1> QED BY <1>1, <1>2

LEMMA SnapshotTyped ==
  ASSUME TypeOK, NEW context \in Contexts,
         NEW states \in [Node -> LifecycleStates],
         HandleStateSnapshot(context, states)
  PROVE  DecisionTypes'
<1> DEFINE decision == LifecycleDecision(states)
<1>1. ASSUME VerificationFailed(context) PROVE DecisionTypes'
  <2>1. attempts' \in Nat
    BY <1>1 DEF VerificationFailed, RecordFailure, TypeOK, DecisionTypes
  <2>2. backoff' \in BOOLEAN /\ fatal' \in BOOLEAN
    BY <1>1 DEF VerificationFailed, RecordFailure, TypeOK, DecisionTypes
  <2> QED
    BY <1>1, <2>1, <2>2 DEF VerificationFailed, TypeOK, DecisionTypes, sendVars
<1>2. CASE decision = "wait"
  BY <1>2 DEF HandleStateSnapshot, TypeOK, DecisionTypes, phaseVars, sendVars
<1>3. CASE decision = "fail"
  <2>1. RecordFailure(attempts + 1) /\
        UNCHANGED <<phaseVars, normalizationAttempts, stageAttempts, service,
                    sendVars, effects>>
    BY <1>3 DEF HandleStateSnapshot
  <2>2. attempts' \in Nat
    BY <2>1 DEF RecordFailure, TypeOK, DecisionTypes
  <2>3. backoff' \in BOOLEAN /\ fatal' \in BOOLEAN
    BY <2>1 DEF RecordFailure, TypeOK, DecisionTypes
  <2> QED BY <2>1, <2>2, <2>3 DEF TypeOK, DecisionTypes, phaseVars, sendVars
<1>4. CASE context = "recovery_pause" /\ decision \notin {"wait", "fail"}
  <2>1. HandleRecoveryPauseDecision(decision, states)
    BY <1>4 DEF HandleStateSnapshot
  <2>2. CASE decision = "normalize"
    <3>1. SendNormalizationTransition("recovery_pause", states, "inactive")
      BY <2>1, <2>2 DEF HandleRecoveryPauseDecision
    <3> QED BY <2>2, <3>1, <1>4, NormalizationTyped
  <2>3. CASE decision \in {"startup", "resume"}
    <3>1. /\ verifying' \subseteq verifying
          /\ attempts' = 0 /\ SetRecoveryStage("clear_global")
          /\ effects' = effects \cup {"paused"}
          /\ UNCHANGED <<activated, normalizationAttempts, backoff, fatal,
                         sendVars>>
      BY <2>1, <2>3 DEF HandleRecoveryPauseDecision
    <3> QED BY <3>1 DEF SetRecoveryStage, TypeOK, DecisionTypes, sendVars,
                        Stages, Effects
  <2>4. CASE VerificationFailed("recovery_pause")
    BY <1>1, <1>4, <2>4
  <2>5. CASE SendManagerCommand("pause", "recovery_pause")
    BY <1>4, <2>5, ManagerCommandTyped
  <2> QED BY <2>1, <2>2, <2>3, <2>4, <2>5 DEF HandleRecoveryPauseDecision
<1>5. CASE context # "recovery_pause" /\ decision \notin {"wait", "fail"}
  <2>1. HandleUpDecision(context, decision, states)
    BY <1>5 DEF HandleStateSnapshot
  <2>2. CASE decision = "normalize"
    <3>1. SendNormalizationTransition(context, states, "active")
      BY <2>1, <2>2 DEF HandleUpDecision
    <3> QED BY <2>2, <3>1, NormalizationTyped
  <2>3. CASE MarkActive
    BY <2>3 DEF MarkActive, TypeOK, DecisionTypes, sendVars, Stages
  <2>4. CASE VerificationFailed(context)
    BY <1>1, <2>4
  <2>5. CASE decision \in {"startup", "resume"}
             /\ SendManagerCommand(decision, context)
    BY <2>5, ManagerCommandTyped
  <2> QED BY <2>1, <2>2, <2>3, <2>4, <2>5 DEF HandleUpDecision
<1> QED BY <1>2, <1>3, <1>4, <1>5

LEMMA QueryTyped ==
  ASSUME TypeOK, NEW context \in Contexts, StartStateQuery(context)
  PROVE  query' \in Queries /\ stateCalls' \subseteq StateCalls
<1>1. PICK serial \in Ids :
        /\ query' = [context |-> context, pending |-> Node, serial |-> serial,
                     mixed |-> FALSE,
                     states |-> [n \in Node |-> "unknown"]]
        /\ stateCalls' = stateCalls \cup
             [node : Node, generation : {generation}, serial : {serial},
              answer : {"none"}]
  BY DEF StartStateQuery, Unused
<1>2. [n \in Node |-> "unknown"] \in [Node -> LifecycleStates]
  BY DEF LifecycleStates, TerminalStates
<1>3. query' \in Queries
  <2>1. duplicate \in BOOLEAN
    BY DEF TypeOK
  <2> QED BY <1>1, <1>2, <2>1, Zenon DEF Queries
<1> QED BY <1>1, <1>3 DEF TypeOK, StateCalls

LEMMA NoQueryTyped == NoQuery \in Queries
<1>1. [n \in Node |-> "unknown"] \in [Node -> LifecycleStates]
  BY DEF LifecycleStates, TerminalStates
<1> QED BY <1>1 DEF NoQuery, Queries

LEMMA EpochTyped == ASSUME TypeOK, EpochEvent PROVE TypeOK'
<1>1. query' \in Queries
  BY NoQueryTyped DEF EpochEvent, InvalidateAsyncWork
<1>2. generation' \in Nat /\ normalizationAttempts' \in Nat
      /\ stageAttempts' \in Nat /\ stage' \in Stages \cup {"none"}
  BY DEF EpochEvent, InvalidateAsyncWork, BeginRecovery, TypeOK, DecisionTypes,
         Stages
<1>3. activated' \in BOOLEAN /\ late' \in BOOLEAN
  BY DEF EpochEvent, BeginRecovery, TypeOK, DecisionTypes
<1> QED
  BY <1>1, <1>2, <1>3 DEF EpochEvent, InvalidateAsyncWork, TypeOK, DecisionTypes,
     callVars

LEMMA StateAnswerTyped == ASSUME TypeOK, StateAnswer PROVE TypeOK'
<1>1. ASSUME NEW c \in stateCalls, StateQueryDone(c) PROVE TypeOK'
  <2> DEFINE states == [query.states EXCEPT ![c.node] = c.answer]
             rest   == query.pending \ {c.node}
  <2>1. /\ stateCalls' \subseteq stateCalls
        /\ UNCHANGED <<raised, late, generation, mapVars, serviceCalls, envVars,
                       stray>>
    BY <1>1 DEF StateQueryDone
  <2>2. states \in [Node -> LifecycleStates] /\ rest \subseteq Node
    BY <1>1 DEF StateQueryDone, TypeOK, StateCalls, Queries
  <2>3. query' \in Queries /\ DecisionTypes'
    <3>1. CASE UNCHANGED <<decisionVars, query>>
      BY <3>1 DEF TypeOK, DecisionTypes, decisionVars, phaseVars, retryVars
    <3>2. CASE /\ Counted(c) /\ rest # {} /\ UNCHANGED decisionVars
               /\ query' = [query EXCEPT !.states = states, !.pending = rest,
                                         !.mixed = @ \/ c.serial # query.serial]
      <4>1. query' \in Queries
        BY <2>2, <3>2 DEF TypeOK, Queries
      <4> QED
        BY <3>2, <4>1 DEF TypeOK, DecisionTypes, decisionVars, phaseVars,
                          retryVars
    <3>3. CASE Counted(c) /\ query' = NoQuery
               /\ HandleStateSnapshot(query.context, states)
      <4>1. query.context \in Contexts
        BY <3>3 DEF Counted, QueryInFlight, TypeOK, Queries
      <4> QED BY <2>2, <3>3, <4>1, SnapshotTyped, NoQueryTyped
    <3> QED BY <1>1, <3>1, <3>2, <3>3 DEF StateQueryDone
  <2> QED BY <2>1, <2>3 DEF TypeOK, mapVars, envVars
<1>2. ASSUME NEW c \in stateCalls, StateQueryFailed(c) PROVE TypeOK'
  <2>1. query' \in Queries
    BY <1>2, NoQueryTyped DEF StateQueryFailed, TypeOK
  <2>2. attempts' \in Nat /\ faults' \in Nat
    BY <1>2 DEF StateQueryFailed, RecordFailure, Fault, TypeOK, DecisionTypes
  <2>3. backoff' \in BOOLEAN /\ fatal' \in BOOLEAN
    BY <1>2 DEF StateQueryFailed, RecordFailure, TypeOK, DecisionTypes
  <2> QED
    BY <1>2, <2>1, <2>2, <2>3 DEF StateQueryFailed, TypeOK, DecisionTypes,
       phaseVars, mapVars, sendVars, histVars
<1> QED BY <1>1, <1>2 DEF StateAnswer

LEMMA LifecycleAnswerTyped == ASSUME TypeOK, LifecycleAnswer PROVE TypeOK'
<1>1. PICK c \in lifecycleCalls : LifecycleDone(c)
  BY DEF LifecycleAnswer
<1>2. lifecycleCalls' \subseteq LifecycleCalls
  BY <1>1 DEF LifecycleDone, TypeOK, DecisionTypes
<1>3. UNCHANGED <<mapReceived, mapCalls, mapNode, stateCalls, manager, changes,
                  serviceCalls, envVars, histVars>>
  BY <1>1 DEF LifecycleDone
<1>4. CASE UNCHANGED gateVars
  BY <1>2, <1>3, <1>4 DEF gateVars, phaseVars, retryVars, failVars, envVars,
     histVars, TypeOK, DecisionTypes
<1>5. CASE ManagerCommandDone(c) /\ UNCHANGED <<activated, raised, late,
             generation, query, mapOp, mapAttempts, mapBackoff>>
  <2>1. c.context \in Contexts
    BY DEF TypeOK, DecisionTypes, LifecycleCalls
  <2>2. /\ request' = NoRequest /\ verifying' \subseteq Contexts
        /\ stage' \in Stages \cup {"none"} /\ stageAttempts' \in Nat
        /\ service' \in Ids \cup {0}
    BY <1>5, <2>1 DEF ManagerCommandDone, SetRecoveryStage, TypeOK,
       DecisionTypes, Stages
  <2>3. /\ backoff' \in BOOLEAN /\ fatal' \in BOOLEAN /\ attempts' \in Nat
        /\ normalizationAttempts' \in Nat
    BY <1>5 DEF ManagerCommandDone, RecordFailure, TypeOK, DecisionTypes
  <2> QED
    BY <1>2, <1>3, <1>5, <2>2, <2>3 DEF TypeOK, DecisionTypes, envVars, histVars
<1>6. CASE NormalizationTransitionDone(c) /\ UNCHANGED <<activated, raised, late,
             generation, query, mapOp, mapAttempts, mapBackoff>>
  <2>1. normalizationAttempts' \in Nat
    BY <1>6 DEF NormalizationTransitionDone, RecordNormalizationFailure, TypeOK,
       DecisionTypes
  <2>2. backoff' \in BOOLEAN /\ fatal' \in BOOLEAN
    BY <1>6 DEF NormalizationTransitionDone, RecordNormalizationFailure, TypeOK,
       DecisionTypes
  <2> QED
    BY <1>2, <1>3, <1>6, <2>1, <2>2 DEF NormalizationTransitionDone, TypeOK,
       DecisionTypes, envVars, histVars
<1> QED BY <1>1, <1>4, <1>5, <1>6 DEF LifecycleDone

LEMMA ServiceAnswerTyped == ASSUME TypeOK, ServiceAnswer PROVE TypeOK'
<1>1. PICK c \in serviceCalls : RecoveryServiceDone(c)
  BY DEF ServiceAnswer
<1>2. NextStage[c.stage] \in Stages
  BY DEF TypeOK, ServiceCalls, NextStage, Stages
<1>3. /\ stage' \in Stages \cup {"none"} /\ stageAttempts' \in Nat
      /\ service' \in Ids \cup {0}
  BY <1>1, <1>2 DEF RecoveryServiceDone, HandleRecoveryServiceFailure,
     SetRecoveryStage, TypeOK, DecisionTypes
<1>4. backoff' \in BOOLEAN /\ fatal' \in BOOLEAN
  BY <1>1 DEF RecoveryServiceDone, HandleRecoveryServiceFailure, TypeOK,
     DecisionTypes
<1> QED
  BY <1>1, <1>3, <1>4 DEF RecoveryServiceDone, TypeOK, DecisionTypes, mapVars,
     envVars, histVars

LEMMA MapCallTyped ==
  ASSUME TypeOK, NEW calls \in SUBSET MapCalls,
         NEW label \in {"get_state", "configure", "activate"},
         SendMapCall(calls, label)
  PROVE  mapOp' \in Ids \cup {0} /\ mapCalls' \subseteq MapCalls
BY DEF SendMapCall, Unused, MapCalls, TypeOK

LEMMA MapAnswerTyped == ASSUME TypeOK, MapAnswer PROVE TypeOK'
<1>1. PICK c \in mapCalls : MapStateDone(c) \/ MapTransitionDone(c)
  BY DEF MapAnswer
<1>2. mapOp' \in Ids \cup {0} /\ mapCalls' \subseteq MapCalls
  <2>1. CASE mapCalls' = mapCalls \ {c} /\ (mapOp' = 0 \/ UNCHANGED mapOp)
    BY <2>1 DEF TypeOK
  <2>2. CASE /\ MapTransition(c.answer) # "none"
             /\ SendMapCall(mapCalls \ {c}, MapTransition(c.answer))
    <3>1. MapTransition(c.answer) \in {"configure", "activate"}
      BY <2>2 DEF MapTransition
    <3>2. mapCalls \ {c} \in SUBSET MapCalls
      BY DEF TypeOK
    <3> QED BY <2>2, <3>1, <3>2, MapCallTyped
  <2> QED BY <1>1, <2>1, <2>2 DEF MapStateDone, MapTransitionDone
<1>3. mapAttempts' \in Nat
  BY <1>1 DEF MapStateDone, MapTransitionDone, RecordMapActivationFailure, TypeOK
<1>4. mapBackoff' \in BOOLEAN /\ fatal' \in BOOLEAN
  BY <1>1 DEF MapStateDone, MapTransitionDone, RecordMapActivationFailure,
     TypeOK, DecisionTypes
<1> QED
  BY <1>2, <1>3, <1>4 DEF MapAnswer, TypeOK, DecisionTypes, phaseVars, retryVars,
     callVars, envVars, histVars

LEMMA TickTyped == ASSUME TypeOK, Tick PROVE TypeOK'
<1> USE DEF phaseVars, retryVars, failVars, callVars, envVars, histVars, mapVars
<1>1. CASE TickRaise
  BY <1>1 DEF TickRaise, TypeOK, DecisionTypes
<1>2. CASE TickTimeout \/ TickServiceUnavailable
  <2>1. fatal' = TRUE
        /\ UNCHANGED <<phaseVars, retryVars, raised, late, generation, query,
             request, service, mapVars, callVars, envVars, histVars>>
    BY <1>2 DEF TickTimeout, TickServiceUnavailable, SetFatal
  <2> QED BY <2>1 DEF TypeOK, DecisionTypes
<1>3. CASE TickStartup
  <2>1. mapOp' \in Ids \cup {0} /\ mapCalls' \subseteq MapCalls
    <3>1. CASE UNCHANGED <<mapOp, mapCalls>>
      BY <3>1 DEF TypeOK
    <3>2. CASE SendMapCall(mapCalls, "get_state")
      BY <3>2, MapCallTyped DEF TypeOK
    <3> QED BY <1>3, <3>1, <3>2 DEF TickStartup, EnsureImmutableMapActive
  <2>2. query' \in Queries /\ stateCalls' \subseteq StateCalls
    <3>1. CASE UNCHANGED <<query, stateCalls>>
      BY <3>1 DEF TypeOK
    <3>2. CASE StartStateQuery("activation")
      BY <3>2, QueryTyped DEF Contexts
    <3> QED BY <1>3, <3>1, <3>2 DEF TickStartup
  <2>3. fatal' \in BOOLEAN
    BY <1>3 DEF TickStartup, SetFatal, TypeOK, DecisionTypes
  <2> QED BY <1>3, <2>1, <2>2, <2>3 DEF TickStartup, TypeOK, DecisionTypes
<1>4. CASE TickServiceTimeout
  <2>1. stageAttempts' \in Nat /\ faults' \in Nat
    BY <1>4 DEF TickServiceTimeout, HandleRecoveryServiceFailure, Fault, TypeOK,
       DecisionTypes
  <2>2. backoff' \in BOOLEAN /\ fatal' \in BOOLEAN
    BY <1>4 DEF TickServiceTimeout, HandleRecoveryServiceFailure, TypeOK,
       DecisionTypes
  <2> QED BY <1>4, <2>1, <2>2 DEF TickServiceTimeout, TypeOK, DecisionTypes
<1>5. CASE TickCallService
  <2>1. service' \in Ids \cup {0} /\ serviceCalls' \subseteq ServiceCalls
    BY <1>5 DEF TickCallService, CallRecoveryService, Unused, ServiceCalls,
       Answers, TypeOK, DecisionTypes
  <2> QED BY <1>5, <2>1 DEF TickCallService, TypeOK, DecisionTypes
<1>6. CASE TickSkipReseed
  <2>1. stage' \in Stages /\ stageAttempts' \in Nat /\ service' = 0
    BY <1>6 DEF TickSkipReseed, SetRecoveryStage, Stages
  <2> QED BY <1>6, <2>1 DEF TickSkipReseed, TypeOK, DecisionTypes
<1>7. CASE TickReadinessRestored
  <2>1. stage' \in Stages /\ stageAttempts' \in Nat /\ service' = 0
    BY <1>7 DEF TickReadinessRestored, SetRecoveryStage, Stages
  <2>2. effects' \subseteq Effects
    BY <1>7 DEF TickReadinessRestored, Effects, TypeOK, DecisionTypes
  <2> QED BY <1>7, <2>1, <2>2 DEF TickReadinessRestored, TypeOK, DecisionTypes
<1>8. CASE TickQuery
  <2>1. query' \in Queries /\ stateCalls' \subseteq StateCalls
    BY <1>8, QueryTyped DEF TickQuery, Contexts
  <2> QED BY <1>8, <2>1 DEF TickQuery, TypeOK, DecisionTypes
<1> QED BY <1>1, <1>2, <1>3, <1>4, <1>5, <1>6, <1>7, <1>8 DEF Tick

LEMMA ReplyTyped ==
  ASSUME TypeOK, NEW job, NEW ok \in BOOLEAN, Reply(job, ok)
  PROVE  lifecycleCalls' \subseteq LifecycleCalls
BY DEF Reply, TypeOK, DecisionTypes, LifecycleCalls, Answers

Labels == {"configure", "activate", "deactivate"}

LEMMA PlanLabel ==
  ASSUME NEW command \in {"startup", "resume", "pause"}, NEW i
  PROVE  PlanStep(command, i).label \in Labels
BY DEF PlanStep, Labels

LEMMA MovingTyped == ASSUME TypeOK PROVE \A m \in Moving : m.label \in Labels
<1>1. \A c \in changes : c.step.label \in Labels
  BY DEF TypeOK, DecisionTypes, Changes, Steps, Labels
<1>2. manager # <<>> =>
        PlanStep(Head(manager).command, Head(manager).position).label \in Labels
  <2>1. manager # <<>> => Head(manager) \in Commands
    BY DEF TypeOK, DecisionTypes
  <2>2. \A j \in Commands : j.command \in {"startup", "resume", "pause"}
    BY DEF Commands
  <2> QED BY <2>1, <2>2, PlanLabel
<1> QED BY <1>1, <1>2 DEF Moving

LEMMA PositionTyped ==
  ASSUME NEW job \in Commands
  PROVE  LET next == [job EXCEPT !.position = @ + 1] IN
         /\ next \in Commands
         /\ next.generation = job.generation /\ next.command = job.command
BY DEF Commands

LEMMA TransitTyped ==
  ASSUME TypeOK, NEW step, step.label \in Labels, NEW ok \in BOOLEAN,
         Transit(step, ok)
  PROVE  node' \in [Node -> LifecycleStates] /\ faults' \in Nat
<1>1. Target(step.label) \in LifecycleStates
  BY DEF Target, LifecycleStates, StableStates, Labels
<1>2. faults' \in Nat
  BY DEF Transit, Fault, TypeOK
<1> QED BY <1>1, <1>2 DEF Transit, TypeOK, LifecycleStates, TerminalStates

LEMMA EnvironmentTyped == ASSUME TypeOK, Environment PROVE TypeOK'
<1> USE DEF phaseVars, retryVars, failVars, callVars, envVars, histVars, mapVars,
            gateVars
<1>1. CASE BackoffElapses
  <2>1. backoff' \in BOOLEAN /\ mapBackoff' \in BOOLEAN
    BY <1>1 DEF BackoffElapses, TypeOK, DecisionTypes
  <2> QED BY <1>1, <2>1 DEF BackoffElapses, TypeOK, DecisionTypes
<1>2. CASE DeadlinePasses
  BY <1>2 DEF DeadlinePasses, TypeOK, DecisionTypes
<1>3. CASE Inputs
  <2>1. ready' \in BOOLEAN /\ duplicate' \in BOOLEAN
    BY <1>3 DEF Inputs, DataReady, DataLost, DuplicateAppears, TypeOK
  <2>2. faults' \in Nat
    BY <1>3 DEF Inputs, DataReady, DataLost, ServiceAppears, ServiceDisappears,
       DuplicateAppears, Fault, TypeOK
  <2>3. up' \subseteq Services
    BY <1>3 DEF Inputs, ServiceAppears, ServiceDisappears, TypeOK
  <2> QED BY <1>3, <2>1, <2>2, <2>3 DEF Inputs, TypeOK, DecisionTypes
<1>4. CASE MapPublished
  BY <1>4 DEF MapPublished, TypeOK, DecisionTypes
<1>5. CASE MapServe
  <2>1. mapCalls' \subseteq MapCalls
    BY <1>5 DEF MapServe, TypeOK, MapCalls
  <2>2. mapNode' \in LifecycleStates /\ faults' \in Nat
    BY <1>5 DEF MapServe, Fault, TypeOK, MapCalls, Target, LifecycleStates,
       StableStates, TerminalStates
  <2> QED BY <1>5, <2>1, <2>2 DEF MapServe, TypeOK, DecisionTypes
<1>6. CASE RecoveryServe
  <2>1. serviceCalls' \subseteq ServiceCalls /\ faults' \in Nat
    BY <1>6 DEF RecoveryServe, Fault, TypeOK, ServiceCalls, Answers
  <2>2. effects' \subseteq Effects
    BY <1>6 DEF RecoveryServe, TypeOK, DecisionTypes, ServiceCalls, NextStage,
       Effects
  <2> QED BY <1>6, <2>1, <2>2 DEF RecoveryServe, TypeOK, DecisionTypes
<1>7. CASE StateServe
  <2>1. stateCalls' \subseteq StateCalls
    <3>1. PICK c \in stateCalls :
            \E label \in {node[c.node]} \cup
                  {During(m.label) : m \in {s \in Moving :
                     s.node = c.node /\ Source(s.label) = node[c.node]}} :
              stateCalls' = (stateCalls \ {c}) \cup {[c EXCEPT !.answer = label]}
      BY <1>7 DEF StateServe
    <3>2. PICK label : 
            /\ label = node[c.node] \/ \E m \in Moving : label = During(m.label)
            /\ stateCalls' = (stateCalls \ {c}) \cup {[c EXCEPT !.answer = label]}
      BY <3>1
    <3>3. label \in LifecycleStates
      <4>1. CASE label = node[c.node]
        BY <4>1 DEF TypeOK, StateCalls
      <4>2. ASSUME NEW m \in Moving, label = During(m.label)
            PROVE  label \in LifecycleStates
        <5>1. m.label \in Labels
          BY MovingTyped
        <5> QED BY <4>2, <5>1 DEF During, Labels, LifecycleStates,
                   TransitionalStates
      <4> QED BY <3>2, <4>1, <4>2
    <3> QED BY <3>2, <3>3 DEF TypeOK, StateCalls
  <2> QED BY <1>7, <2>1 DEF StateServe, TypeOK, DecisionTypes
<1>8. CASE ManagerStep
  <2> DEFINE job == Head(manager)
  <2>1. PICK ok \in BOOLEAN :
          /\ Transit(PlanStep(job.command, job.position), ok) /\ Stray(job)
          /\ \/ /\ manager' = <<[job EXCEPT !.position = @ + 1]>> \o Tail(manager)
                /\ UNCHANGED lifecycleCalls
             \/ manager' = Tail(manager) /\ Reply(job, ok)
    BY <1>8 DEF ManagerStep
  <2>2. job \in Commands /\ Tail(manager) \in Seq(Commands)
    BY <1>8 DEF ManagerStep, TypeOK, DecisionTypes
  <2>3. [job EXCEPT !.position = @ + 1] \in Commands
    BY <2>2, PositionTyped
  <2>4. manager' \in Seq(Commands)
    BY <2>1, <2>2, <2>3
  <2>5. lifecycleCalls' \subseteq LifecycleCalls
    BY <2>1, ReplyTyped DEF TypeOK, DecisionTypes
  <2>6. node' \in [Node -> LifecycleStates] /\ faults' \in Nat
    <3>1. PlanStep(job.command, job.position).label \in Labels
      BY <2>2, PlanLabel DEF Commands
    <3> QED BY <2>1, <3>1, TransitTyped
  <2>7. stray' \in BOOLEAN
    BY <2>1 DEF Stray, TypeOK
  <2> QED
    BY <1>8, <2>4, <2>5, <2>6, <2>7 DEF ManagerStep, TypeOK, DecisionTypes
<1>9. CASE ChangeStep
  <2>1. PICK c \in changes, ok \in BOOLEAN :
          Transit(c.step, ok) /\ Stray(c) /\ changes' = changes \ {c}
          /\ Reply(c, ok)
    BY <1>9 DEF ChangeStep
  <2>2. lifecycleCalls' \subseteq LifecycleCalls
    BY <2>1, ReplyTyped
  <2>3. node' \in [Node -> LifecycleStates] /\ faults' \in Nat
    <3>1. c.step.label \in Labels
      BY DEF TypeOK, DecisionTypes, Changes, Steps, Labels
    <3> QED BY <2>1, <3>1, TransitTyped
  <2>4. stray' \in BOOLEAN
    BY <2>1 DEF Stray, TypeOK
  <2> QED
    BY <1>9, <2>1, <2>2, <2>3, <2>4 DEF ChangeStep, TypeOK, DecisionTypes
<1> QED
  BY <1>1, <1>2, <1>3, <1>4, <1>5, <1>6, <1>7, <1>8, <1>9 DEF Environment

LEMMA TypeInit == Init => TypeOK
<1> SUFFICES ASSUME Init PROVE TypeOK
  OBVIOUS
<1>1. query \in Queries /\ node \in [Node -> LifecycleStates]
  BY NoQueryTyped DEF Init, LifecycleStates, StableStates
<1>2. up \subseteq Services /\ mapNode \in LifecycleStates
  BY DEF Init, LifecycleStates, StableStates
<1>3. mapReceived \in BOOLEAN
  BY FlagAssumption DEF Init
<1>4. manager \in Seq(Commands)
  BY DEF Init
<1> QED BY <1>1, <1>2, <1>3, <1>4 DEF Init, TypeOK, DecisionTypes

LEMMA TypeNext == TypeOK /\ [Next]_vars => TypeOK'
<1> SUFFICES ASSUME TypeOK, [Next]_vars PROVE TypeOK'
  OBVIOUS
<1>1. CASE UNCHANGED vars
  BY <1>1 DEF vars, gateVars, phaseVars, retryVars, failVars, callVars, envVars,
     histVars, TypeOK, DecisionTypes
<1> QED
  BY <1>1, EpochTyped, TickTyped, StateAnswerTyped, LifecycleAnswerTyped,
     MapAnswerTyped, ServiceAnswerTyped, EnvironmentTyped DEF Next

\* Every variable keeps its type, for every number of nodes and every bound.
THEOREM TypeCorrect == Spec => []TypeOK
BY TypeInit, TypeNext, PTL DEF Spec

-------------------------------------------------------------------------------
(* The inductive invariant.                                                 *)

\* OneCommandOutstanding without its abbreviation.
LEMMA OneCommand ==
  OneCommandOutstanding <=>
    /\ \A c \in lifecycleCalls : c.generation = generation => c.token = request
    /\ \A c, d \in lifecycleCalls :
         c.generation = generation /\ d.generation = generation => c = d
    /\ RequestInFlight
         <=> \E c \in lifecycleCalls : c.generation = generation
    /\ QueryInFlight => ~RequestInFlight
BY DEF OneCommandOutstanding

LEMMA OneCommandNext ==
  OneCommandOutstanding' <=>
    /\ \A c \in lifecycleCalls' : c.generation = generation' => c.token = request'
    /\ \A c, d \in lifecycleCalls' :
         c.generation = generation' /\ d.generation = generation' => c = d
    /\ RequestInFlight'
         <=> \E c \in lifecycleCalls' : c.generation = generation'
    /\ QueryInFlight' => ~RequestInFlight'
BY DEF OneCommandOutstanding

\* Steps that at most end the query or set the fatal error.
LEMMA QuietSafe ==
  ASSUME Safe,
         UNCHANGED <<activated, stage, verifying, attempts, generation, request,
                     service, lifecycleCalls, serviceCalls, effects>>,
         query'.context \in {query.context, "none"},
         fatal => fatal'
  PROVE  Safe'
<1>1. QueryInFlight' => QueryInFlight /\ query'.context = query.context
  BY DEF QueryInFlight
<1>2. OneCommandOutstanding'
  BY <1>1, OneCommand, OneCommandNext DEF Safe, RequestInFlight
<1>3. CommandBudget' /\ BudgetSpent'
  BY <1>1 DEF Safe, CommandBudget, BudgetSpent
<1>4. FuturesDistinct' /\ StepsDone'
  BY DEF Safe, FuturesDistinct, StepsDone
<1>5. InStage'
  BY <1>1 DEF Safe, InStage, Recovering
<1> QED BY <1>2, <1>3, <1>4, <1>5 DEF Safe

\* The end of a query in a new request.
LEMMA RequestSafe ==
  ASSUME TypeOK, Safe, QueryInFlight, query' = NoQuery,
         NEW id \in Unused(LifecycleIds), NEW kind \in {"manager", "change"},
         Reserve([kind |-> kind, id |-> id], query.context),
         UNCHANGED <<activated, stage, verifying, generation, service, fatal,
                     serviceCalls, effects>>,
         IF kind = "manager" THEN verifying = {} /\ attempts' = attempts + 1
                             ELSE attempts' = attempts
  PROVE  Safe'
<1> DEFINE token == [kind |-> kind, id |-> id]
           call  == [token |-> token, generation |-> generation,
                     context |-> query.context, answer |-> "none"]
<1>1. /\ request' = token /\ lifecycleCalls' = lifecycleCalls \cup {call}
      /\ RequestInFlight' /\ ~QueryInFlight'
  BY DEF Reserve, RequestInFlight, QueryInFlight, NoQuery, NoRequest
<1>2. ~RequestInFlight
      /\ \A c \in lifecycleCalls : c.generation # generation /\ c.token.id # id
  BY OneCommand DEF Safe, Unused, LifecycleIds
<1>3. OneCommandOutstanding'
  <2>1. \A c \in lifecycleCalls' : c.generation = generation' => c = call
    BY <1>1, <1>2
  <2>2. call \in lifecycleCalls' /\ call.generation = generation'
        /\ call.token = request'
    BY <1>1
  <2> HIDE DEF call
  <2> QED BY <1>1, <2>1, <2>2, OneCommandNext
<1>4. FuturesDistinct'
  BY <1>1, <1>2 DEF Safe, FuturesDistinct, TypeOK
<1>5. InStage'
  BY <1>1, <1>2 DEF Safe, InStage, Recovering
<1>6. StepsDone'
  BY DEF Safe, StepsDone
<1>7. request'.kind = kind /\ request.kind # "manager"
  BY <1>1, <1>2 DEF RequestInFlight, NoRequest
<1>8. CommandBudget' /\ BudgetSpent'
  BY <1>1, <1>7, MaxAttemptsAssumption
     DEF Safe, CommandBudget, BudgetSpent, TypeOK, DecisionTypes
<1> QED BY <1>3, <1>4, <1>5, <1>6, <1>8 DEF Safe

\* The end of a query in a failure that is counted.
LEMMA FailureSafe ==
  ASSUME TypeOK, Safe, QueryInFlight, query' = NoQuery,
         RecordFailure(attempts + 1),
         verifying' \subseteq verifying,
         UNCHANGED <<activated, stage, generation, request, service,
                     lifecycleCalls, serviceCalls, effects>>
  PROVE  Safe'
<1>1. ~QueryInFlight'
  BY DEF QueryInFlight, NoQuery
<1>2. OneCommandOutstanding'
  BY <1>1, OneCommand, OneCommandNext DEF Safe, RequestInFlight
<1>3. FuturesDistinct' /\ StepsDone'
  BY DEF Safe, FuturesDistinct, StepsDone
<1>4. InStage'
  BY <1>1 DEF Safe, InStage, Recovering
<1>5. request.kind # "manager"
  BY OneCommand DEF Safe, RequestInFlight, NoRequest
<1>6. attempts <= MaxAttempts /\ attempts' = attempts + 1
  BY MaxAttemptsAssumption
     DEF Safe, BudgetSpent, RecordFailure, TypeOK, DecisionTypes
<1>7. attempts' >= MaxAttempts => fatal'
  BY <1>6, MaxAttemptsAssumption
     DEF RecordFailure, CanRetry, TypeOK, DecisionTypes
<1>8. CommandBudget' /\ BudgetSpent'
  BY <1>1, <1>5, <1>6, <1>7, MaxAttemptsAssumption
     DEF CommandBudget, BudgetSpent, TypeOK, DecisionTypes
<1> QED BY <1>2, <1>3, <1>4, <1>8 DEF Safe

\* Steps that enter a stage with nothing in flight.
LEMMA StageSafe ==
  ASSUME TypeOK, Safe, ~RequestInFlight, ~QueryInFlight',
         verifying' = {}, service' = 0, serviceCalls' \subseteq serviceCalls,
         UNCHANGED <<generation, request, lifecycleCalls>>,
         attempts' = 0 \/ UNCHANGED <<attempts, verifying>>,
         fatal => fatal',
         Owed(stage') \subseteq effects', effects \subseteq effects',
         stage' # "none" => ~activated'
  PROVE  Safe'
<1>1. \A c \in lifecycleCalls : c.generation # generation
  BY OneCommand DEF Safe
<1>2. OneCommandOutstanding'
  BY <1>1, OneCommandNext DEF RequestInFlight
<1>3. FuturesDistinct'
  BY DEF Safe, FuturesDistinct
<1>4. InStage'
  <2>1. \A c \in serviceCalls : c.id # 0
    BY BoundAssumption DEF TypeOK, ServiceCalls, Ids
  <2> QED BY <1>1, <2>1 DEF InStage, Recovering
<1>5. StepsDone'
  BY DEF Safe, StepsDone
<1>6. CommandBudget' /\ BudgetSpent'
  BY MaxAttemptsAssumption
     DEF Safe, CommandBudget, BudgetSpent, RequestInFlight, NoRequest
<1> QED BY <1>2, <1>3, <1>4, <1>5, <1>6 DEF Safe

LEMMA SnapshotSafe ==
  ASSUME TypeOK, Safe, QueryInFlight, query' = NoQuery,
         NEW states, HandleStateSnapshot(query.context, states),
         UNCHANGED <<generation, serviceCalls>>
  PROVE  Safe'
<1> DEFINE decision == LifecycleDecision(states)
           context  == query.context
<1>1. /\ query.context = ContextOf(stage) /\ verifying \subseteq {query.context}
      /\ ~RequestInFlight /\ ~QueryInFlight' /\ query'.context = "none"
  BY OneCommand DEF Safe, InStage, QueryInFlight, NoQuery
<1>2. service = 0 /\ query.context # "none"
  BY <1>1 DEF Safe, InStage, ContextOf, NextStage, QueryInFlight
<1>3. ASSUME VerificationFailed(context) PROVE Safe'
  <2>1. RecordFailure(attempts + 1) /\ verifying' \subseteq verifying
        /\ UNCHANGED <<activated, stage, request, service, lifecycleCalls, effects>>
    BY <1>3 DEF VerificationFailed, sendVars
  <2> QED BY <2>1, FailureSafe
<1>4. ASSUME NEW command, SendManagerCommand(command, context),
             context \notin verifying
      PROVE  Safe'
  <2>1. PICK id \in Unused(LifecycleIds) :
          Reserve([kind |-> "manager", id |-> id], context)
    BY <1>4 DEF SendManagerCommand
  <2>2. attempts' = attempts + 1 /\ UNCHANGED <<activated, stage, verifying, fatal,
                                               service, effects>>
    BY <1>4 DEF SendManagerCommand, phaseVars
  <2> QED BY <1>1, <1>4, <2>1, <2>2, RequestSafe
<1>5. ASSUME NEW target, SendNormalizationTransition(context, states, target)
      PROVE  Safe'
  <2> DEFINE step == NormalizationTransition(states, target)
  <2>1. CASE step = NoTransition \/ "change" \notin up
    <3>1. fatal => fatal'
      BY <1>5, <2>1 DEF SendNormalizationTransition, RecordNormalizationFailure
    <3>2. UNCHANGED <<phaseVars, attempts, service, sendVars, effects>>
      BY <1>5, <2>1 DEF SendNormalizationTransition
    <3> QED BY <1>1, <3>1, <3>2, QuietSafe DEF phaseVars, sendVars
  <2>2. CASE step # NoTransition /\ "change" \in up
    <3>1. PICK id \in Unused(LifecycleIds) :
            Reserve([kind |-> "change", id |-> id], context)
      BY <1>5, <2>2 DEF SendNormalizationTransition
    <3>2. UNCHANGED <<phaseVars, retryVars, fatal, service, effects>>
      BY <1>5, <2>2 DEF SendNormalizationTransition
    <3> QED BY <3>1, <3>2, RequestSafe DEF phaseVars, retryVars
  <2> QED BY <2>1, <2>2
<1>6. CASE decision = "wait"
  BY <1>1, <1>6, QuietSafe DEF HandleStateSnapshot, phaseVars, sendVars
<1>7. CASE decision = "fail"
  BY <1>1, <1>7, FailureSafe DEF HandleStateSnapshot, phaseVars, sendVars
<1>8. CASE context = "recovery_pause" /\ decision \notin {"wait", "fail"}
  <2>1. HandleRecoveryPauseDecision(decision, states)
    BY <1>8 DEF HandleStateSnapshot
  <2>2. CASE decision \in {"startup", "resume"}
    <3>1. /\ verifying' = verifying \ {"recovery_pause"}
          /\ attempts' = 0 /\ SetRecoveryStage("clear_global")
          /\ effects' = effects \cup {"paused"}
          /\ UNCHANGED <<activated, fatal, sendVars>>
      BY <2>1, <2>2 DEF HandleRecoveryPauseDecision
    <3>2. stage \in {"pause_query", "pause_verify"}
      BY <1>1, <1>8 DEF ContextOf
    <3>3. Owed(stage') \subseteq effects' /\ ~activated
      BY <3>1, <3>2 DEF SetRecoveryStage, Owed, Safe, StepsDone, InStage,
         Recovering
    <3>4. verifying' = {}
      BY <1>1, <1>8, <3>1
    <3> QED
      BY <1>1, <3>1, <3>3, <3>4, StageSafe DEF SetRecoveryStage, sendVars
  <2>3. CASE decision = "normalize"
    BY <2>1, <2>3, <1>5, <1>8 DEF HandleRecoveryPauseDecision
  <2>4. CASE VerificationFailed("recovery_pause")
    BY <1>3, <1>8, <2>4
  <2>5. CASE /\ "recovery_pause" \notin verifying
             /\ SendManagerCommand("pause", "recovery_pause")
    BY <1>4, <1>8, <2>5
  <2> QED BY <2>1, <2>2, <2>3, <2>4, <2>5 DEF HandleRecoveryPauseDecision
<1>9. CASE context # "recovery_pause" /\ decision \notin {"wait", "fail"}
  <2>1. HandleUpDecision(context, decision, states)
    BY <1>9 DEF HandleStateSnapshot
  <2>2. CASE MarkActive
    <3>1. Owed(stage') \subseteq effects'
      BY <2>2 DEF MarkActive, Owed
    <3> QED BY <1>1, <1>2, <2>2, <3>1, StageSafe DEF MarkActive, sendVars
  <2>3. CASE decision = "normalize"
    BY <2>1, <2>3, <1>5 DEF HandleUpDecision
  <2>4. CASE VerificationFailed(context)
    BY <1>3, <2>4
  <2>5. CASE context \notin verifying /\ SendManagerCommand(decision, context)
    BY <1>4, <2>5
  <2> QED BY <2>1, <2>2, <2>3, <2>4, <2>5 DEF HandleUpDecision
<1> QED BY <1>6, <1>7, <1>8, <1>9

LEMMA EpochSafe == ASSUME TypeOK, Safe, EpochEvent PROVE Safe'
<1>1. /\ generation' = generation + 1 /\ query' = NoQuery
      /\ request' = NoRequest /\ service' = 0 /\ verifying' = {}
      /\ attempts' = 0 /\ UNCHANGED <<lifecycleCalls, serviceCalls>>
  BY DEF EpochEvent, InvalidateAsyncWork, callVars
<1>2. ~QueryInFlight' /\ ~RequestInFlight'
  BY <1>1 DEF QueryInFlight, RequestInFlight, NoQuery
<1>3. /\ \A c \in lifecycleCalls : c.generation # generation'
      /\ \A c \in serviceCalls : c.generation # generation'
  BY <1>1 DEF Safe, FuturesDistinct, TypeOK, DecisionTypes, LifecycleCalls,
     ServiceCalls
<1>4. OneCommandOutstanding'
  BY <1>1, <1>2, <1>3, OneCommandNext
<1>5. FuturesDistinct'
  BY <1>1 DEF Safe, FuturesDistinct, TypeOK, DecisionTypes, LifecycleCalls,
     ServiceCalls
<1>6. InStage'
  <2>1. Recovering' => ~activated'
    BY DEF EpochEvent, BeginRecovery, Recovering
  <2> QED BY <1>1, <1>2, <1>3, <2>1 DEF InStage
<1>7. StepsDone'
  <2>1. Owed(stage') = {}
    BY DEF EpochEvent, BeginRecovery, Recovering, Owed
  <2> QED BY <1>1, <1>3, <2>1 DEF StepsDone
<1>8. CommandBudget' /\ BudgetSpent'
  BY <1>1, <1>2, MaxAttemptsAssumption DEF CommandBudget, BudgetSpent, NoRequest
<1> QED BY <1>4, <1>5, <1>6, <1>7, <1>8 DEF Safe

LEMMA StateAnswerSafe == ASSUME TypeOK, Safe, StateAnswer PROVE Safe'
<1>1. ASSUME NEW c \in stateCalls, StateQueryDone(c) PROVE Safe'
  <2> DEFINE states == [query.states EXCEPT ![c.node] = c.answer]
             rest   == query.pending \ {c.node}
  <2>1. UNCHANGED <<generation, serviceCalls>>
    BY <1>1 DEF StateQueryDone
  <2>2. CASE UNCHANGED <<decisionVars, query>>
    BY <2>1, <2>2, QuietSafe DEF decisionVars, phaseVars, retryVars
  <2>3. CASE /\ UNCHANGED decisionVars
             /\ query' = [query EXCEPT !.states = states, !.pending = rest,
                                       !.mixed = @ \/ c.serial # query.serial]
    <3>1. query'.context = query.context
      BY <2>3 DEF TypeOK, Queries
    <3> QED BY <2>1, <2>3, <3>1, QuietSafe DEF decisionVars, phaseVars, retryVars
  <2>4. CASE Counted(c) /\ query' = NoQuery
             /\ HandleStateSnapshot(query.context, states)
    BY <2>1, <2>4, SnapshotSafe DEF Counted
  <2> QED BY <1>1, <2>2, <2>3, <2>4 DEF StateQueryDone
<1>2. ASSUME NEW c \in stateCalls, StateQueryFailed(c) PROVE Safe'
  <2>1. UNCHANGED <<phaseVars, generation, service, sendVars, serviceCalls,
                    histVars>>
    BY <1>2 DEF StateQueryFailed
  <2>2. CASE UNCHANGED <<query, attempts, backoff, fatal>>
    BY <2>1, <2>2, QuietSafe DEF phaseVars, sendVars, histVars
  <2>3. CASE QueryInFlight /\ query' = NoQuery /\ RecordFailure(attempts + 1)
    BY <2>1, <2>3, FailureSafe DEF phaseVars, sendVars, histVars
  <2> QED BY <1>2, <2>2, <2>3 DEF StateQueryFailed
<1> QED BY <1>1, <1>2 DEF StateAnswer

\* The future of a request is done: nothing of this generation is left.
LEMMA LifecycleAnswerSafe == ASSUME TypeOK, Safe, LifecycleAnswer PROVE Safe'
<1>1. PICK c \in lifecycleCalls : LifecycleDone(c)
  BY DEF LifecycleAnswer
<1>2. /\ lifecycleCalls' = lifecycleCalls \ {c}
      /\ UNCHANGED <<serviceCalls, effects>>
  BY <1>1 DEF LifecycleDone, histVars
<1>3. CASE c.generation # generation \/ c.token # request
  <2>1. c.generation # generation
    BY <1>3, OneCommand DEF Safe
  <2>2. UNCHANGED <<activated, stage, verifying, attempts, fatal, generation,
                    query, request, service>>
    BY <1>1, <1>3 DEF LifecycleDone, gateVars, phaseVars, retryVars, failVars
  <2>3. OneCommandOutstanding'
    BY <1>2, <2>1, <2>2, OneCommand, OneCommandNext
       DEF Safe, RequestInFlight, QueryInFlight
  <2>4. FuturesDistinct' /\ InStage' /\ StepsDone'
    BY <1>2, <2>2 DEF Safe, FuturesDistinct, InStage, StepsDone, Recovering,
       QueryInFlight
  <2>5. CommandBudget' /\ BudgetSpent'
    BY <2>2 DEF Safe, CommandBudget, BudgetSpent, QueryInFlight
  <2> QED BY <2>3, <2>4, <2>5 DEF Safe
<1>4. CASE c.generation = generation /\ c.token = request
  <2>1. /\ IF c.token.kind = "manager" THEN ManagerCommandDone(c)
                                       ELSE NormalizationTransitionDone(c)
        /\ UNCHANGED <<activated, generation, query>>
    BY <1>1, <1>4 DEF LifecycleDone
  <2>2. /\ request' = NoRequest /\ ~RequestInFlight' /\ RequestInFlight
        /\ ~QueryInFlight /\ ~QueryInFlight'
    BY <1>4, <2>1, OneCommand DEF Safe, ManagerCommandDone,
       NormalizationTransitionDone, RequestInFlight, QueryInFlight
  <2>3. \A d \in lifecycleCalls' : d.generation # generation
    BY <1>2, <1>4, OneCommand DEF Safe
  <2>4. OneCommandOutstanding' /\ FuturesDistinct'
    BY <1>2, <2>1, <2>2, <2>3, OneCommandNext DEF Safe, FuturesDistinct
  <2>5. /\ c.context = ContextOf(stage) /\ c.context \in Contexts
        /\ verifying \subseteq {ContextOf(stage)}
    BY <1>4 DEF Safe, InStage, TypeOK, DecisionTypes, LifecycleCalls
  <2>6. CASE ManagerCommandDone(c) /\ c.token.kind = "manager"
    <3>1. /\ \/ stage' = stage
             \/ /\ stage \in {"pause_query", "pause_verify"}
                /\ stage' = "pause_verify"
             \/ /\ stage \in {"resume_query", "resume_verify"}
                /\ stage' = "resume_verify"
          /\ verifying' \subseteq verifying \cup {c.context}
          /\ service' \in {service, 0}
      <4>1. CASE UNCHANGED <<stage, verifying, service>>
        BY <4>1
      <4>2. CASE verifying' = verifying \cup {c.context}
                 /\ IF c.context = "activation"
                      THEN UNCHANGED <<stage, stageAttempts, service>>
                      ELSE SetRecoveryStage(IF c.context = "recovery_pause"
                             THEN "pause_verify" ELSE "resume_verify")
        BY <2>5, <4>2 DEF SetRecoveryStage, ContextOf, Contexts
      <4> QED BY <2>6, <4>1, <4>2 DEF ManagerCommandDone
    <3>2. ContextOf(stage') = ContextOf(stage) /\ Owed(stage') = Owed(stage)
          /\ (stage' # "none" => stage # "none")
      BY <3>1 DEF ContextOf, Owed
    <3>3. service = 0
      BY <2>5 DEF Safe, InStage, ContextOf, NextStage, Contexts
    <3>4. InStage'
      <4>1. \A d \in serviceCalls : d.id # 0
        BY BoundAssumption DEF TypeOK, ServiceCalls, Ids
      <4> QED BY <1>2, <2>1, <2>2, <2>3, <2>5, <3>1, <3>2, <3>3, <4>1
              DEF Safe, InStage, Recovering
    <3>5. StepsDone'
      BY <1>2, <2>1, <3>2 DEF Safe, StepsDone
    <3>6. attempts' = attempts /\ attempts <= MaxAttempts
      BY <1>4, <2>6, MaxAttemptsAssumption
         DEF ManagerCommandDone, RecordFailure, Safe, CommandBudget
    <3>7. (fatal => fatal') /\ (attempts >= MaxAttempts => fatal' \/ verifying' # {})
      <4>1. CASE c.answer = "failed"
        BY <2>6, <4>1, MaxAttemptsAssumption
           DEF ManagerCommandDone, RecordFailure, CanRetry, TypeOK, DecisionTypes
      <4>2. CASE c.answer = "ok"
        <5>1. c.context \in verifying' /\ fatal' = fatal
          BY <2>6, <4>2 DEF ManagerCommandDone
        <5> QED BY <5>1
      <4> QED BY <2>6, <4>1, <4>2 DEF ManagerCommandDone
    <3>8. CommandBudget' /\ BudgetSpent'
      BY <2>2, <3>6, <3>7, MaxAttemptsAssumption
         DEF CommandBudget, BudgetSpent, NoRequest, TypeOK, DecisionTypes
    <3> QED BY <2>4, <3>4, <3>5, <3>8 DEF Safe
  <2>7. CASE NormalizationTransitionDone(c) /\ c.token.kind # "manager"
    <3>1. UNCHANGED <<attempts, stage, verifying, service>> /\ (fatal => fatal')
      BY <2>7 DEF NormalizationTransitionDone, RecordNormalizationFailure
    <3>2. InStage' /\ StepsDone'
      BY <1>2, <2>1, <2>2, <2>3, <3>1 DEF Safe, InStage, StepsDone, Recovering
    <3>3. CommandBudget' /\ BudgetSpent'
      BY <1>4, <2>2, <2>7, <3>1 DEF Safe, CommandBudget, BudgetSpent, NoRequest
    <3> QED BY <2>4, <3>2, <3>3 DEF Safe
  <2> QED BY <2>1, <2>6, <2>7
<1> QED BY <1>3, <1>4

LEMMA ServiceAnswerSafe == ASSUME TypeOK, Safe, ServiceAnswer PROVE Safe'
<1>1. PICK c \in serviceCalls : RecoveryServiceDone(c)
  BY DEF ServiceAnswer
<1>2. /\ serviceCalls' = serviceCalls \ {c}
      /\ UNCHANGED <<activated, verifying, attempts, generation, query, request,
                     lifecycleCalls, effects>>
  BY <1>1 DEF RecoveryServiceDone, histVars
<1>3. CASE UNCHANGED stage /\ service' \in {service, 0} /\ (fatal => fatal')
  <2>1. OneCommandOutstanding'
    BY <1>2, OneCommand, OneCommandNext DEF Safe, RequestInFlight, QueryInFlight
  <2>2. InStage'
    <3>1. \A d \in serviceCalls : d.id # 0
      BY BoundAssumption DEF TypeOK, ServiceCalls, Ids
    <3> QED BY <1>2, <1>3, <3>1 DEF Safe, InStage, Recovering, QueryInFlight
  <2>3. FuturesDistinct' /\ StepsDone'
    BY <1>2, <1>3 DEF Safe, FuturesDistinct, StepsDone
  <2>4. CommandBudget' /\ BudgetSpent'
    BY <1>2, <1>3 DEF Safe, CommandBudget, BudgetSpent, QueryInFlight
  <2> QED BY <2>1, <2>2, <2>3, <2>4 DEF Safe
<1>4. CASE /\ c.generation = generation /\ c.id = service /\ c.answer = "ok"
           /\ SetRecoveryStage(NextStage[c.stage]) /\ UNCHANGED <<backoff, fatal>>
  <2>1. service # 0
    BY <1>4, BoundAssumption DEF TypeOK, ServiceCalls, Ids
  <2>2. c.stage = stage /\ stage \in DOMAIN NextStage /\ c.stage \in effects
    BY <1>4, <2>1 DEF Safe, InStage, StepsDone
  <2>3. ContextOf(stage) = "none" /\ stage # "none"
    BY <2>2 DEF ContextOf, NextStage
  <2>4. ~QueryInFlight' /\ ~RequestInFlight
    <3>1. ~QueryInFlight
      BY <2>3 DEF Safe, InStage, QueryInFlight
    <3>2. \A d \in lifecycleCalls : d.generation # generation
      BY <2>3 DEF Safe, InStage, TypeOK, DecisionTypes, LifecycleCalls, Contexts
    <3> QED BY <1>2, <3>1, <3>2, OneCommand DEF Safe, QueryInFlight
  <2>5. verifying' = {}
    BY <1>2, <2>3 DEF Safe, InStage, TypeOK, DecisionTypes, Contexts
  <2>6. Owed(stage') \subseteq effects'
    BY <1>2, <1>4, <2>2 DEF SetRecoveryStage, Safe, StepsDone, Owed, NextStage,
       RecoverySteps, Effects
  <2>7. ~activated'
    BY <1>2, <2>3 DEF Safe, InStage, Recovering
  <2> QED
    BY <1>2, <1>4, <2>4, <2>5, <2>6, <2>7, StageSafe DEF SetRecoveryStage
<1>5. c.answer = "ok" \/ c.answer = "failed"
  BY <1>1 DEF RecoveryServiceDone, TypeOK, ServiceCalls, Answers
<1>6. CASE c.generation = generation /\ c.id = service /\ c.answer = "failed"
  BY <1>1, <1>3, <1>6 DEF RecoveryServiceDone, HandleRecoveryServiceFailure
<1>7. CASE c.generation # generation \/ c.id # service
  BY <1>1, <1>3, <1>7 DEF RecoveryServiceDone
<1> QED
  BY <1>1, <1>4, <1>5, <1>6, <1>7 DEF RecoveryServiceDone

LEMMA QuerySafe ==
  ASSUME TypeOK, Safe, StartStateQuery(ContextOf(stage)), ~fatal,
         UNCHANGED <<phaseVars, retryVars, generation, request, service,
                     lifecycleCalls, serviceCalls, effects>>,
         fatal' = fatal
  PROVE  Safe'
<1>1. query'.context = ContextOf(stage) /\ ~QueryInFlight /\ ~RequestInFlight
  BY DEF StartStateQuery
<1>2. OneCommandOutstanding'
  BY <1>1, OneCommand, OneCommandNext DEF Safe, RequestInFlight
<1>3. FuturesDistinct' /\ InStage' /\ StepsDone'
  BY <1>1 DEF Safe, FuturesDistinct, InStage, StepsDone, Recovering, phaseVars
<1>4. attempts < MaxAttempts \/ (verifying # {} /\ attempts <= MaxAttempts)
  BY <1>1, MaxAttemptsAssumption DEF Safe, CommandBudget, BudgetSpent,
     RequestInFlight, NoRequest, TypeOK, DecisionTypes
<1>5. CommandBudget' /\ BudgetSpent'
  BY <1>4, MaxAttemptsAssumption DEF Safe, CommandBudget, BudgetSpent, phaseVars,
     retryVars, TypeOK, DecisionTypes
<1> QED BY <1>2, <1>3, <1>5 DEF Safe

LEMMA TickSafe == ASSUME TypeOK, Safe, Tick PROVE Safe'
<1> USE DEF phaseVars, retryVars, failVars, callVars, envVars, histVars
<1>1. CASE TickRaise
  BY <1>1, QuietSafe DEF TickRaise
<1>2. CASE TickTimeout \/ TickServiceUnavailable
  BY <1>2, QuietSafe DEF TickTimeout, TickServiceUnavailable, SetFatal
<1>3. CASE TickStartup
  <2>1. CASE UNCHANGED query
    BY <1>3, <2>1, QuietSafe DEF TickStartup, SetFatal
  <2>2. CASE StartStateQuery("activation") /\ UNCHANGED fatal
    <3>1. ContextOf(stage) = "activation" /\ ~fatal
      BY <1>3 DEF TickStartup, Recovering, ContextOf
    <3> QED BY <1>3, <2>2, <3>1, QuerySafe DEF TickStartup
  <2> QED BY <1>3, <2>1, <2>2 DEF TickStartup
<1>4. CASE TickServiceTimeout
  <2>1. service' = 0 /\ (fatal => fatal')
        /\ UNCHANGED <<activated, stage, verifying, attempts, generation, query,
             request, lifecycleCalls, serviceCalls, effects>>
    BY <1>4 DEF TickServiceTimeout, HandleRecoveryServiceFailure
  <2>2. OneCommandOutstanding'
    BY <2>1, OneCommand, OneCommandNext DEF Safe, RequestInFlight, QueryInFlight
  <2>3. InStage'
    <3>1. \A d \in serviceCalls : d.id # 0
      BY BoundAssumption DEF TypeOK, ServiceCalls, Ids
    <3> QED BY <2>1, <3>1 DEF Safe, InStage, Recovering, QueryInFlight
  <2>4. FuturesDistinct' /\ StepsDone' /\ CommandBudget' /\ BudgetSpent'
    BY <2>1 DEF Safe, FuturesDistinct, StepsDone, CommandBudget, BudgetSpent,
       QueryInFlight
  <2> QED BY <2>2, <2>3, <2>4 DEF Safe
<1>5. CASE TickCallService
  <2>1. PICK id \in Unused({c.id : c \in serviceCalls}) :
          /\ service' = id
          /\ serviceCalls' = serviceCalls \cup
               {[id |-> id, generation |-> generation, stage |-> stage,
                 answer |-> "none"]}
    BY <1>5 DEF TickCallService, CallRecoveryService
  <2>2. \A c \in serviceCalls : c.id # id
    BY DEF Unused
  <2>3. UNCHANGED <<activated, stage, verifying, attempts, fatal, generation,
                    query, request, lifecycleCalls, effects>>
    BY <1>5 DEF TickCallService
  <2>4. OneCommandOutstanding'
    BY <2>3, OneCommand, OneCommandNext DEF Safe, RequestInFlight, QueryInFlight
  <2>5. FuturesDistinct' /\ StepsDone'
    BY <2>1, <2>2, <2>3 DEF Safe, FuturesDistinct, StepsDone, TypeOK
  <2>6. InStage'
    <3>1. stage \in DOMAIN NextStage
      BY <1>5 DEF TickCallService
    <3> QED BY <2>1, <2>2, <2>3, <3>1 DEF Safe, InStage, Recovering, QueryInFlight
  <2>7. CommandBudget' /\ BudgetSpent'
    BY <2>3 DEF Safe, CommandBudget, BudgetSpent, QueryInFlight
  <2> QED BY <2>4, <2>5, <2>6, <2>7 DEF Safe
<1>6. CASE TickSkipReseed \/ TickReadinessRestored
  <2>1. /\ Recovering /\ ~RequestInFlight /\ ~QueryInFlight
        /\ stage \in {"reseed", "waiting_readiness"}
        /\ UNCHANGED <<activated, verifying, attempts, fatal, generation, query,
                       request, lifecycleCalls, serviceCalls>>
        /\ service' = 0
    BY <1>6 DEF TickSkipReseed, TickReadinessRestored, AdvanceRecovery,
       SetRecoveryStage
  <2>2. verifying' = {}
    BY <2>1 DEF Safe, InStage, ContextOf, TypeOK, DecisionTypes, Contexts
  <2>3. effects \subseteq effects' /\ Owed(stage') \subseteq effects'
    BY <1>6 DEF TickSkipReseed, TickReadinessRestored, SetRecoveryStage, Owed,
       RecoverySteps, Effects, Safe, StepsDone
  <2>4. ~QueryInFlight' /\ ~activated'
    BY <2>1 DEF QueryInFlight, Safe, InStage
  <2> QED BY <2>1, <2>2, <2>3, <2>4, StageSafe
<1>7. CASE TickQuery
  <2>1. StartStateQuery(ContextOf(stage)) /\ ~fatal
    BY <1>7 DEF TickQuery, ContextOf, AdvanceRecovery
  <2> QED BY <1>7, <2>1, QuerySafe DEF TickQuery
<1> QED BY <1>1, <1>2, <1>3, <1>4, <1>5, <1>6, <1>7 DEF Tick

\* The answer a future gets does not matter before it is handled.
LEMMA ReplySafe ==
  ASSUME TypeOK, Safe, NEW job, NEW ok, Reply(job, ok),
         UNCHANGED <<activated, stage, verifying, attempts, fatal, generation,
                     query, request, service, serviceCalls, effects>>
  PROVE  Safe'
<1> DEFINE answered(c) ==
      IF c.token = job.token
        THEN [c EXCEPT !.answer = IF ok THEN "ok" ELSE "failed"] ELSE c
<1>1. lifecycleCalls' = {answered(c) : c \in lifecycleCalls}
  BY DEF Reply
<1>2. \A c \in lifecycleCalls :
        /\ answered(c).token = c.token /\ answered(c).context = c.context
        /\ answered(c).generation = c.generation
  BY DEF TypeOK, DecisionTypes, LifecycleCalls
<1> HIDE DEF answered
<1>3. OneCommandOutstanding'
  BY <1>1, <1>2, OneCommand, OneCommandNext
     DEF Safe, RequestInFlight, QueryInFlight
<1>4. FuturesDistinct'
  BY <1>1, <1>2 DEF Safe, FuturesDistinct
<1>5. InStage'
  BY <1>1, <1>2 DEF Safe, InStage, Recovering, QueryInFlight
<1>6. StepsDone' /\ CommandBudget' /\ BudgetSpent'
  BY DEF Safe, StepsDone, CommandBudget, BudgetSpent, QueryInFlight
<1> QED BY <1>3, <1>4, <1>5, <1>6 DEF Safe

LEMMA RecoveryServeSafe == ASSUME TypeOK, Safe, RecoveryServe PROVE Safe'
<1>1. PICK c \in serviceCalls :
        /\ c.answer = "none"
        /\ \/ /\ serviceCalls' = (serviceCalls \ {c})
                                   \cup {[c EXCEPT !.answer = "ok"]}
              /\ effects' = effects \cup {c.stage}
           \/ /\ serviceCalls' = (serviceCalls \ {c})
                                   \cup {[c EXCEPT !.answer = "failed"]}
              /\ UNCHANGED effects
  BY DEF RecoveryServe
<1>2. UNCHANGED <<activated, stage, verifying, attempts, fatal, generation,
                  query, request, service, lifecycleCalls>>
  BY DEF RecoveryServe, gateVars, phaseVars, retryVars, failVars
<1>3. PICK d : /\ serviceCalls' = (serviceCalls \ {c}) \cup {d}
               /\ d.id = c.id /\ d.generation = c.generation
               /\ d.stage = c.stage
               /\ d.answer = "ok" => c.stage \in effects'
  <2>1. \A a : LET d == [c EXCEPT !.answer = a] IN
                /\ d.id = c.id /\ d.generation = c.generation
                /\ d.stage = c.stage /\ d.answer = a
    BY DEF TypeOK, ServiceCalls
  <2>2. CASE serviceCalls' = (serviceCalls \ {c}) \cup {[c EXCEPT !.answer = "ok"]}
             /\ effects' = effects \cup {c.stage}
    <3> WITNESS [c EXCEPT !.answer = "ok"]
    <3> QED BY <2>1, <2>2
  <2>3. CASE serviceCalls'
               = (serviceCalls \ {c}) \cup {[c EXCEPT !.answer = "failed"]}
    <3> WITNESS [c EXCEPT !.answer = "failed"]
    <3> QED BY <2>1, <2>3
  <2> QED BY <1>1, <2>2, <2>3
<1>4. effects \subseteq effects'
  BY <1>1
<1>5. OneCommandOutstanding'
  BY <1>2, OneCommand, OneCommandNext DEF Safe, RequestInFlight, QueryInFlight
<1>6. FuturesDistinct' /\ StepsDone'
  BY <1>2, <1>3, <1>4 DEF Safe, FuturesDistinct, StepsDone
<1>7. InStage'
  BY <1>2, <1>3 DEF Safe, InStage, Recovering, QueryInFlight
<1>8. CommandBudget' /\ BudgetSpent'
  BY <1>2 DEF Safe, CommandBudget, BudgetSpent, QueryInFlight
<1> QED BY <1>5, <1>6, <1>7, <1>8 DEF Safe

LEMMA EnvironmentSafe == ASSUME TypeOK, Safe, Environment PROVE Safe'
<1> USE DEF phaseVars, retryVars, failVars, callVars, histVars, gateVars
<1>1. CASE BackoffElapses \/ DeadlinePasses
  BY <1>1, QuietSafe DEF BackoffElapses, DeadlinePasses
<1>2. CASE Inputs \/ MapPublished \/ MapServe \/ StateServe
  BY <1>2, QuietSafe DEF Inputs, MapPublished, MapServe, StateServe
<1>3. CASE ManagerStep
  <2>1. UNCHANGED <<gateVars, serviceCalls, effects>>
        /\ (UNCHANGED lifecycleCalls
            \/ \E ok \in BOOLEAN : Reply(Head(manager), ok))
    BY <1>3 DEF ManagerStep
  <2> QED BY <2>1, QuietSafe, ReplySafe
<1>4. CASE ChangeStep
  <2>1. UNCHANGED <<gateVars, serviceCalls, effects>>
        /\ \E c \in changes, ok \in BOOLEAN : Reply(c, ok)
    BY <1>4 DEF ChangeStep
  <2> QED BY <2>1, ReplySafe
<1> QED BY <1>1, <1>2, <1>3, <1>4, RecoveryServeSafe DEF Environment

LEMMA MapAnswerSafe == ASSUME TypeOK, Safe, MapAnswer PROVE Safe'
<1>1. fatal => fatal'
  BY DEF MapAnswer, MapStateDone, MapTransitionDone, RecordMapActivationFailure
<1> QED
  BY <1>1, QuietSafe DEF MapAnswer, phaseVars, retryVars, callVars, histVars

LEMMA SafeInit == Init => Safe
<1> SUFFICES ASSUME Init PROVE Safe
  OBVIOUS
<1>1. OneCommandOutstanding
  BY OneCommand DEF Init, RequestInFlight, QueryInFlight, NoQuery
<1>2. FuturesDistinct /\ InStage
  BY DEF Init, FuturesDistinct, InStage, QueryInFlight, NoQuery, Recovering
<1>3. StepsDone
  BY DEF Init, StepsDone, Owed
<1>4. CommandBudget /\ BudgetSpent
  BY MaxAttemptsAssumption
     DEF Init, CommandBudget, BudgetSpent, NoRequest, QueryInFlight, NoQuery
<1> QED BY <1>1, <1>2, <1>3, <1>4 DEF Safe

LEMMA SafeNext == TypeOK /\ Safe /\ [Next]_vars => Safe'
<1> SUFFICES ASSUME TypeOK, Safe, [Next]_vars PROVE Safe'
  OBVIOUS
<1>1. CASE UNCHANGED vars
  BY <1>1, QuietSafe DEF vars, gateVars, phaseVars, retryVars, failVars, callVars,
     histVars
<1> QED
  BY <1>1, EpochSafe, TickSafe, StateAnswerSafe, LifecycleAnswerSafe,
     MapAnswerSafe, ServiceAnswerSafe, EnvironmentSafe DEF Next

-------------------------------------------------------------------------------
(* The nodes stay down while the costmaps are rebuilt.                      *)

\* A step that asks nothing, moves nothing and enters no stage on the way to
\* the resume from outside it.
LEMMA QuietHeld ==
  ASSUME HeldDown, UNCHANGED <<generation, manager, changes, node, stray>>,
         stateCalls' \subseteq stateCalls,
         query' = query \/ query' = NoQuery,
         stage' \in Lowering => stage \in Lowering,
         stage' \in Rebuilding => stage \in Rebuilding
  PROVE  HeldDown'
<1>1. NoneAhead' /\ OnlyDownwards'
  BY DEF HeldDown, NoneAhead, OnlyDownwards
<1>2. SeenDown'
  BY DEF HeldDown, SeenDown, QueryInFlight, NoQuery
<1>3. PausedWhileRebuilding'
  BY DEF HeldDown, PausedWhileRebuilding, Rebuilding
<1> QED BY <1>1, <1>2, <1>3 DEF HeldDown

\* A request of this generation: downwards, if the resume is still to come.
LEMMA RequestHeld ==
  ASSUME TypeOK, HeldDown, UNCHANGED <<stage, generation, node, stray>>,
         stateCalls' \subseteq stateCalls, query' = NoQuery,
         \/ UNCHANGED manager
         \/ \E job \in Commands :
              /\ manager' = Append(manager, job) /\ job.generation = generation
              /\ stage \in Lowering => job.command = "pause",
         \/ UNCHANGED changes
         \/ \E c \in Changes :
              /\ changes' = changes \cup {c} /\ c.generation = generation
              /\ stage \in Lowering => c.step.label = "deactivate"
  PROVE  HeldDown'
<1>1. generation \in Nat /\ manager \in Seq(Commands)
  BY DEF TypeOK, DecisionTypes
<1>2. \A i \in DOMAIN manager' :
        \/ i \in DOMAIN manager /\ manager'[i] = manager[i]
        \/ /\ manager'[i].generation = generation
           /\ stage \in Lowering => manager'[i].command = "pause"
  <2>1. CASE UNCHANGED manager
    BY <2>1
  <2>2. ASSUME NEW job \in Commands, manager' = Append(manager, job),
               job.generation = generation,
               stage \in Lowering => job.command = "pause"
        PROVE  \A i \in DOMAIN manager' :
                 \/ i \in DOMAIN manager /\ manager'[i] = manager[i]
                 \/ manager'[i] = job
    BY <1>1, <2>2
  <2> QED BY <2>1, <2>2
<1>3. NoneAhead'
  BY <1>1, <1>2 DEF HeldDown, NoneAhead
<1>4. OnlyDownwards'
  BY <1>2 DEF HeldDown, OnlyDownwards
<1>5. SeenDown'
  BY DEF HeldDown, SeenDown, QueryInFlight, NoQuery
<1>6. PausedWhileRebuilding'
  BY DEF HeldDown, PausedWhileRebuilding
<1> QED BY <1>3, <1>4, <1>5, <1>6 DEF HeldDown

\* A node moves at a request: up only at one of an older generation, which
\* marks the epoch as stray, or once the resume has begun.
LEMMA MoveHeld ==
  ASSUME TypeOK, HeldDown, NEW job, NEW step, step.label \in Labels,
         NEW ok \in BOOLEAN, Transit(step, ok), Stray(job),
         stage \in Lowering /\ job.generation = generation
           => step.label = "deactivate",
         UNCHANGED <<stage, generation, query, stateCalls>>,
         NoneAhead', OnlyDownwards'
  PROVE  HeldDown'
<1>1. stage \in Lowering /\ ~stray' => ~stray /\ step.label = "deactivate"
  BY DEF Stray
<1>2. step.label = "deactivate"
        => \A n \in Node : node[n] # "active" => node'[n] # "active"
  <2>1. node \in [Node -> LifecycleStates]
    BY DEF TypeOK
  <2> QED BY <2>1 DEF Transit, Target
<1>3. SeenDown'
  <2>1. \A c \in stateCalls : c.node \in Node
    BY DEF TypeOK, StateCalls
  <2> QED BY <1>1, <1>2, <2>1 DEF HeldDown, SeenDown, QueryInFlight
<1>4. PausedWhileRebuilding'
  <2>1. DOMAIN node = Node /\ DOMAIN node' = Node
    BY TransitTyped DEF TypeOK
  <2> QED
    BY <1>1, <1>2, <2>1 DEF HeldDown, PausedWhileRebuilding, Lowering, Rebuilding
<1> QED BY <1>3, <1>4 DEF HeldDown

\* A snapshot of nodes that were seen down leaves them down.
LEMMA SnapshotHeld ==
  ASSUME TypeOK, Safe, HeldDown, QueryInFlight, query' = NoQuery,
         NEW states \in [Node -> LifecycleStates],
         HandleStateSnapshot(query.context, states),
         stage \in Lowering /\ ~stray =>
           \A n \in Node : states[n] \notin UpLabels => node[n] # "active",
         UNCHANGED <<generation, node, stray>>,
         stateCalls' \subseteq stateCalls
  PROVE  HeldDown'
<1> DEFINE decision == LifecycleDecision(states)
<1>1. /\ query.context \in Contexts /\ query.context = ContextOf(stage)
      /\ generation \in Nat
  BY DEF Safe, InStage, TypeOK, Queries, QueryInFlight
<1>2. stage \in Lowering <=> query.context = "recovery_pause"
  BY <1>1 DEF ContextOf, Lowering, Rebuilding, Contexts, TypeOK, DecisionTypes,
     Stages
<1>3. ASSUME UNCHANGED <<phaseVars, manager, changes>> PROVE HeldDown'
  BY <1>3, QuietHeld DEF phaseVars
<1>4. ASSUME VerificationFailed(query.context) PROVE HeldDown'
  BY <1>4, QuietHeld DEF VerificationFailed, sendVars
<1>5. ASSUME NEW command \in {"startup", "resume", "pause"},
             SendManagerCommand(command, query.context),
             stage \in Lowering => command = "pause"
      PROVE  HeldDown'
  <2>1. PICK id \in Ids :
          manager' = Append(manager,
            [command |-> command, token |-> [kind |-> "manager", id |-> id],
             generation |-> generation, position |-> 1])
    BY <1>5 DEF SendManagerCommand, Unused
  <2>2. [command |-> command, token |-> [kind |-> "manager", id |-> id],
         generation |-> generation, position |-> 1] \in Commands
    BY <1>1 DEF Commands, Tokens
  <2>3. UNCHANGED <<stage, changes>>
    BY <1>5 DEF SendManagerCommand, phaseVars
  <2> QED BY <1>5, <2>1, <2>2, <2>3, RequestHeld
<1>6. ASSUME NEW target \in {"inactive", "active"}, decision = "normalize",
             SendNormalizationTransition(query.context, states, target),
             stage \in Lowering => target = "inactive"
      PROVE  HeldDown'
  <2> DEFINE step == NormalizationTransition(states, target)
  <2>1. CASE step = NoTransition \/ "change" \notin up
    <3>1. UNCHANGED <<phaseVars, manager, changes>>
      BY <1>6, <2>1 DEF SendNormalizationTransition, sendVars
    <3> QED BY <1>3, <3>1
  <2>2. CASE step # NoTransition /\ "change" \in up
    <3>1. PICK id \in Ids :
            changes' = changes \cup
              {[step |-> step, token |-> [kind |-> "change", id |-> id],
                generation |-> generation]}
      BY <1>6, <2>2 DEF SendNormalizationTransition, Unused
    <3>2. step \in Steps
      BY <1>6, <2>2, StepTyped
    <3>3. target = "inactive" => step.label = "deactivate"
      BY <2>2 DEF NormalizationTransition, StopStep
    <3>4. UNCHANGED <<stage, manager>>
      BY <1>6, <2>2 DEF SendNormalizationTransition, phaseVars
    <3> HIDE DEF step
    <3>5. [step |-> step, token |-> [kind |-> "change", id |-> id],
           generation |-> generation] \in Changes
      BY <1>1, <3>2 DEF Changes, Tokens
    <3> QED BY <1>6, <3>1, <3>3, <3>4, <3>5, RequestHeld
  <2> QED BY <2>1, <2>2
<1>7. CASE decision \in {"wait", "fail"}
  BY <1>3, <1>7 DEF HandleStateSnapshot, sendVars
<1>8. CASE query.context = "recovery_pause" /\ decision \notin {"wait", "fail"}
  <2>1. HandleRecoveryPauseDecision(decision, states)
    BY <1>8 DEF HandleStateSnapshot
  <2>2. CASE /\ decision \in {"startup", "resume"}
             /\ SetRecoveryStage("clear_global") /\ UNCHANGED sendVars
    <3>1. \A n \in Node : states[n] \in {"unconfigured", "inactive"}
      BY <2>2 DEF LifecycleDecision
    <3>2. stray \/ \A n \in Node : node[n] # "active"
      BY <1>2, <1>8, <3>1 DEF UpLabels
    <3>3. DOMAIN node = Node
      BY DEF TypeOK
    <3>4. PausedWhileRebuilding'
      BY <3>2, <3>3 DEF PausedWhileRebuilding
    <3>5. NoneAhead' /\ OnlyDownwards'
      BY <1>2, <1>8, <2>2 DEF HeldDown, NoneAhead, OnlyDownwards, sendVars
    <3>6. SeenDown'
      BY <1>2, <1>8 DEF HeldDown, SeenDown, QueryInFlight, NoQuery
    <3> QED BY <3>4, <3>5, <3>6 DEF HeldDown
  <2>3. CASE decision = "normalize"
             /\ SendNormalizationTransition("recovery_pause", states, "inactive")
    BY <1>6, <1>8, <2>3
  <2>4. CASE VerificationFailed("recovery_pause")
    BY <1>4, <1>8, <2>4
  <2>5. CASE SendManagerCommand("pause", "recovery_pause")
    BY <1>5, <1>8, <2>5
  <2> QED BY <2>1, <2>2, <2>3, <2>4, <2>5 DEF HandleRecoveryPauseDecision
<1>9. CASE query.context # "recovery_pause" /\ decision \notin {"wait", "fail"}
  <2>1. HandleUpDecision(query.context, decision, states)
    BY <1>9 DEF HandleStateSnapshot
  <2>2. CASE MarkActive
    <3>1. stage' = "none" /\ UNCHANGED <<manager, changes>>
      BY <2>2 DEF MarkActive, sendVars
    <3> QED BY <3>1, QuietHeld DEF Lowering, Rebuilding
  <2>3. CASE decision = "normalize"
             /\ SendNormalizationTransition(query.context, states, "active")
    BY <1>2, <1>6, <1>9, <2>3
  <2>4. CASE VerificationFailed(query.context)
    BY <1>4, <2>4
  <2>5. CASE decision \in {"startup", "resume"}
             /\ SendManagerCommand(decision, query.context)
    BY <1>2, <1>5, <1>9, <2>5
  <2> QED BY <2>1, <2>2, <2>3, <2>4, <2>5 DEF HandleUpDecision
<1> QED BY <1>7, <1>8, <1>9

LEMMA EpochHeld == ASSUME TypeOK, HeldDown, EpochEvent PROVE HeldDown'
<1>1. /\ generation' = generation + 1 /\ query' = NoQuery
      /\ UNCHANGED <<stateCalls, manager, changes, node>>
      /\ stage' \notin Rebuilding
  BY DEF EpochEvent, InvalidateAsyncWork, BeginRecovery, callVars, Recovering,
     Rebuilding
<1>2. generation \in Nat /\ stateCalls \subseteq StateCalls
      /\ changes \subseteq Changes /\ manager \in Seq(Commands)
  BY DEF TypeOK, DecisionTypes
<1>3. /\ \A c \in stateCalls : c.generation \in Nat
      /\ \A c \in changes : c.generation \in Nat
      /\ \A i \in DOMAIN manager : manager[i].generation \in Nat
  <2>1. \A i \in DOMAIN manager : manager[i] \in Commands
    BY <1>2
  <2> QED BY <1>2, <2>1 DEF StateCalls, Changes, Commands
<1>4. NoneAhead' /\ OnlyDownwards'
  BY <1>1, <1>2, <1>3 DEF HeldDown, NoneAhead, OnlyDownwards
<1>5. SeenDown'
  BY <1>1, <1>2, <1>3 DEF HeldDown, NoneAhead, SeenDown, QueryInFlight, NoQuery
<1>6. PausedWhileRebuilding'
  BY <1>1 DEF PausedWhileRebuilding, Rebuilding
<1> QED BY <1>4, <1>5, <1>6 DEF HeldDown

LEMMA StateAnswerHeld ==
  ASSUME TypeOK, Safe, HeldDown, StateAnswer PROVE HeldDown'
<1>1. ASSUME NEW c \in stateCalls, StateQueryDone(c) PROVE HeldDown'
  <2> DEFINE states == [query.states EXCEPT ![c.node] = c.answer]
             rest   == query.pending \ {c.node}
  <2>1. /\ stateCalls' \subseteq stateCalls
        /\ UNCHANGED <<generation, node, stray>>
    BY <1>1 DEF StateQueryDone, envVars
  <2>2. /\ c.node \in Node /\ query.states \in [Node -> LifecycleStates]
        /\ c.answer \in LifecycleStates
    BY <1>1 DEF StateQueryDone, TypeOK, StateCalls, Queries
  <2>3. stage \in Lowering /\ ~stray /\ Counted(c) =>
          \A n \in Node : n \notin rest /\ states[n] \notin UpLabels
                           => node[n] # "active"
    <3> SUFFICES ASSUME stage \in Lowering, ~stray, Counted(c), NEW n \in Node,
                        n \notin rest, states[n] \notin UpLabels
                 PROVE  node[n] # "active"
      OBVIOUS
    <3>1. CASE n = c.node
      BY <2>2, <3>1 DEF HeldDown, SeenDown, Counted
    <3>2. CASE n # c.node
      BY <2>2, <3>2 DEF HeldDown, SeenDown, Counted
    <3> QED BY <3>1, <3>2
  <2>4. CASE UNCHANGED <<decisionVars, query>>
    BY <2>1, <2>4, QuietHeld DEF decisionVars, phaseVars
  <2>5. CASE /\ Counted(c) /\ UNCHANGED decisionVars
             /\ query' = [query EXCEPT !.states = states, !.pending = rest,
                                       !.mixed = @ \/ c.serial # query.serial]
    <3>1. /\ query'.states = states /\ query'.pending = rest
          /\ UNCHANGED <<stage, manager, changes>>
      BY <2>5 DEF TypeOK, Queries, decisionVars, phaseVars
    <3> HIDE DEF states, rest
    <3>2. NoneAhead' /\ OnlyDownwards' /\ PausedWhileRebuilding'
      BY <2>1, <3>1 DEF HeldDown, NoneAhead, OnlyDownwards, PausedWhileRebuilding
    <3>3. SeenDown'
      BY <2>1, <2>3, <2>5, <3>1 DEF HeldDown, SeenDown
    <3> QED BY <3>2, <3>3 DEF HeldDown
  <2>6. CASE Counted(c) /\ rest = {} /\ query' = NoQuery
             /\ HandleStateSnapshot(query.context, states)
    <3>1. states \in [Node -> LifecycleStates]
      BY <2>2
    <3> HIDE DEF states
    <3> QED BY <2>1, <2>3, <2>6, <3>1, SnapshotHeld DEF Counted
  <2> QED BY <1>1, <2>4, <2>5, <2>6 DEF StateQueryDone
<1>2. ASSUME NEW c \in stateCalls, StateQueryFailed(c) PROVE HeldDown'
  BY <1>2, QuietHeld DEF StateQueryFailed, phaseVars, sendVars, histVars
<1> QED BY <1>1, <1>2 DEF StateAnswer

LEMMA LifecycleAnswerHeld ==
  ASSUME TypeOK, Safe, HeldDown, LifecycleAnswer PROVE HeldDown'
<1>1. PICK c \in lifecycleCalls : LifecycleDone(c)
  BY DEF LifecycleAnswer
<1>2. UNCHANGED <<stateCalls, manager, changes, node, stray>>
  BY <1>1 DEF LifecycleDone, envVars, histVars
<1>3. UNCHANGED <<generation, query>>
  BY <1>1 DEF LifecycleDone, gateVars
<1>4. \/ stage' = stage
      \/ stage' = "pause_verify" /\ stage \in {"pause_query", "pause_verify"}
      \/ stage' = "resume_verify"
  <2>1. CASE UNCHANGED gateVars
    BY <2>1 DEF gateVars, phaseVars
  <2>2. CASE c.generation = generation /\ ManagerCommandDone(c)
    <3>1. c.context = ContextOf(stage) /\ c.context \in Contexts
      BY <2>2 DEF Safe, InStage, TypeOK, DecisionTypes, LifecycleCalls
    <3>2. \/ UNCHANGED stage
          \/ c.context = "recovery_pause" /\ stage' = "pause_verify"
          \/ stage' = "resume_verify"
      BY <2>2 DEF ManagerCommandDone, SetRecoveryStage
    <3> QED BY <3>1, <3>2 DEF ContextOf
  <2>3. CASE NormalizationTransitionDone(c)
    BY <2>3 DEF NormalizationTransitionDone
  <2> QED BY <1>1, <2>1, <2>2, <2>3 DEF LifecycleDone
<1> QED BY <1>2, <1>3, <1>4, QuietHeld DEF Lowering, Rebuilding

LEMMA ServiceAnswerHeld ==
  ASSUME TypeOK, Safe, HeldDown, ServiceAnswer PROVE HeldDown'
<1>1. PICK c \in serviceCalls : RecoveryServiceDone(c)
  BY DEF ServiceAnswer
<1>2. UNCHANGED <<generation, query, stateCalls, manager, changes, node, stray>>
  BY <1>1 DEF RecoveryServiceDone, envVars, histVars
<1>3. \/ stage' = stage
      \/ stage \in DOMAIN NextStage /\ stage' = NextStage[stage]
  BY <1>1 DEF RecoveryServiceDone, SetRecoveryStage, Safe, InStage, TypeOK,
     ServiceCalls
<1>4. /\ stage' \in Lowering => stage \in Lowering
      /\ stage' \in Rebuilding => stage \in Rebuilding
  BY <1>3 DEF NextStage, Lowering, Rebuilding
<1> QED BY <1>2, <1>4, QuietHeld

\* A new query counts on nothing yet.
LEMMA QueryHeld ==
  ASSUME TypeOK, HeldDown, NEW context, StartStateQuery(context),
         UNCHANGED <<stage, generation, manager, changes, node, stray>>
  PROVE  HeldDown'
<1>1. PICK serial :
        /\ query' = [context |-> context, pending |-> Node, serial |-> serial,
                     mixed |-> FALSE, states |-> [n \in Node |-> "unknown"]]
        /\ stateCalls' = stateCalls \cup
             [node : Node, generation : {generation}, serial : {serial},
              answer : {"none"}]
  BY DEF StartStateQuery
<1>2. /\ query'.pending = Node
      /\ \A c \in stateCalls' \ stateCalls :
           c.generation = generation /\ c.answer = "none"
  BY <1>1
<1>3. NoneAhead' /\ OnlyDownwards' /\ PausedWhileRebuilding'
  BY <1>2 DEF HeldDown, NoneAhead, OnlyDownwards, PausedWhileRebuilding, TypeOK
<1>4. SeenDown'
  BY <1>2 DEF HeldDown, SeenDown, UpLabels
<1> QED BY <1>3, <1>4 DEF HeldDown

LEMMA TickHeld == ASSUME TypeOK, Safe, HeldDown, Tick PROVE HeldDown'
<1> USE DEF phaseVars, callVars, envVars, histVars
<1>1. CASE TickRaise \/ TickTimeout \/ TickServiceUnavailable
  BY <1>1, QuietHeld DEF TickRaise, TickTimeout, TickServiceUnavailable
<1>2. CASE TickStartup
  BY <1>2, QuietHeld, QueryHeld DEF TickStartup
<1>3. CASE TickServiceTimeout
  BY <1>3, QuietHeld DEF TickServiceTimeout
<1>4. CASE TickCallService
  BY <1>4, QuietHeld DEF TickCallService
<1>5. CASE TickSkipReseed
  BY <1>5, QuietHeld DEF TickSkipReseed, SetRecoveryStage, Lowering, Rebuilding
<1>6. CASE TickReadinessRestored
  BY <1>6, QuietHeld DEF TickReadinessRestored, SetRecoveryStage, Lowering,
     Rebuilding
<1>7. CASE TickQuery
  BY <1>7, QueryHeld DEF TickQuery
<1> QED BY <1>1, <1>2, <1>3, <1>4, <1>5, <1>6, <1>7 DEF Tick

\* An answer given now is either up or the label of a node that is down.
LEMMA StateServeHeld == ASSUME TypeOK, HeldDown, StateServe PROVE HeldDown'
<1>1. PICK c \in stateCalls :
        \E label \in {node[c.node]} \cup
              {During(m.label) : m \in {s \in Moving :
                 s.node = c.node /\ Source(s.label) = node[c.node]}} :
          stateCalls' = (stateCalls \ {c}) \cup {[c EXCEPT !.answer = label]}
  BY DEF StateServe
<1>2. PICK label :
        /\ \/ label = node[c.node]
           \/ \E m \in Moving : Source(m.label) = node[c.node]
                                /\ label = During(m.label)
        /\ stateCalls' = (stateCalls \ {c}) \cup {[c EXCEPT !.answer = label]}
  BY <1>1
<1>3. label \notin UpLabels => node[c.node] # "active"
  <2>1. CASE label = node[c.node]
    BY <2>1 DEF UpLabels
  <2>2. ASSUME NEW m \in Moving, Source(m.label) = node[c.node],
               label = During(m.label), node[c.node] = "active"
        PROVE  label \in UpLabels
    <3>1. m.label \in Labels
      BY MovingTyped
    <3> QED BY <2>2, <3>1 DEF Source, During, Labels, UpLabels
  <2> QED BY <1>2, <2>1, <2>2
<1>4. UNCHANGED <<stage, generation, query, manager, changes, node, stray>>
  BY DEF StateServe, gateVars, phaseVars, envVars, histVars
<1>5. \A d \in stateCalls' :
        \/ d \in stateCalls
        \/ d.node = c.node /\ d.generation = c.generation /\ d.answer = label
  BY <1>2 DEF TypeOK, StateCalls
<1>6. NoneAhead' /\ OnlyDownwards' /\ PausedWhileRebuilding'
  BY <1>4, <1>5 DEF HeldDown, NoneAhead, OnlyDownwards, PausedWhileRebuilding
<1>7. SeenDown'
  BY <1>3, <1>4, <1>5 DEF HeldDown, SeenDown, QueryInFlight
<1> QED BY <1>6, <1>7 DEF HeldDown

LEMMA ManagerHeld == ASSUME TypeOK, HeldDown, ManagerStep PROVE HeldDown'
<1> DEFINE job  == Head(manager)
           step == PlanStep(job.command, job.position)
<1>1. PICK ok \in BOOLEAN :
        /\ Transit(step, ok) /\ Stray(job)
        /\ \/ manager' = <<[job EXCEPT !.position = @ + 1]>> \o Tail(manager)
           \/ manager' = Tail(manager)
  BY DEF ManagerStep
<1>2. /\ manager \in Seq(Commands) /\ manager # <<>>
      /\ job \in Commands /\ job = manager[1] /\ 1 \in DOMAIN manager
  BY DEF ManagerStep, TypeOK, DecisionTypes
<1>3. UNCHANGED <<stage, generation, query, stateCalls, changes>>
  BY DEF ManagerStep, gateVars, phaseVars
<1>4. job.command \in {"startup", "resume", "pause"}
  BY <1>2 DEF Commands
<1>5. step.label \in Labels
  BY <1>4, PlanLabel
<1>6. stage \in Lowering /\ job.generation = generation
        => step.label = "deactivate"
  BY <1>2 DEF HeldDown, OnlyDownwards, PlanStep
<1>7. \A i \in DOMAIN manager' : \E j \in DOMAIN manager :
        /\ manager'[i].generation = manager[j].generation
        /\ manager'[i].command = manager[j].command
  <2> HIDE DEF job
  <2>1. CASE manager' = Tail(manager)
    <3>1. \A i \in DOMAIN manager' :
            i + 1 \in DOMAIN manager /\ manager'[i] = manager[i + 1]
      BY <1>2, <2>1
    <3> QED BY <3>1
  <2>2. CASE manager' = <<[job EXCEPT !.position = @ + 1]>> \o Tail(manager)
    <3> DEFINE next == [job EXCEPT !.position = @ + 1]
    <3>1. next.generation = job.generation /\ next.command = job.command
      BY <1>2, PositionTyped
    <3>2. next \in Commands
      BY <1>2, PositionTyped
    <3>3. manager' = <<next>> \o Tail(manager)
      BY <2>2
    <3> HIDE DEF next
    <3>4. \A i \in DOMAIN manager' :
            \/ i = 1 /\ manager'[i] = next
            \/ i \in DOMAIN manager /\ manager'[i] = manager[i]
      BY <1>2, <3>2, <3>3
    <3> QED BY <1>2, <3>1, <3>4
  <2> QED BY <1>1, <2>1, <2>2
<1> HIDE DEF job, step
<1>8. NoneAhead' /\ OnlyDownwards'
  BY <1>3, <1>7 DEF HeldDown, NoneAhead, OnlyDownwards
<1> QED BY <1>1, <1>3, <1>5, <1>6, <1>8, MoveHeld

LEMMA ChangeHeld == ASSUME TypeOK, HeldDown, ChangeStep PROVE HeldDown'
<1>1. PICK c \in changes, ok \in BOOLEAN :
        Transit(c.step, ok) /\ Stray(c) /\ changes' = changes \ {c}
  BY DEF ChangeStep
<1>2. UNCHANGED <<stage, generation, query, stateCalls, manager>>
  BY DEF ChangeStep, gateVars, phaseVars
<1>3. c.step.label \in Labels
  BY DEF TypeOK, DecisionTypes, Changes, Steps, Labels
<1>4. stage \in Lowering /\ c.generation = generation
        => c.step.label = "deactivate"
  BY DEF HeldDown, OnlyDownwards
<1>5. NoneAhead' /\ OnlyDownwards'
  BY <1>1, <1>2 DEF HeldDown, NoneAhead, OnlyDownwards
<1> QED BY <1>1, <1>2, <1>3, <1>4, <1>5, MoveHeld

LEMMA EnvironmentHeld == ASSUME TypeOK, HeldDown, Environment PROVE HeldDown'
<1> USE DEF phaseVars, callVars, envVars, histVars, gateVars
<1>1. CASE BackoffElapses \/ DeadlinePasses
  BY <1>1, QuietHeld DEF BackoffElapses, DeadlinePasses
<1>2. CASE Inputs \/ MapPublished \/ MapServe
  BY <1>2, QuietHeld DEF Inputs, MapPublished, MapServe
<1>3. CASE RecoveryServe
  BY <1>3, QuietHeld DEF RecoveryServe
<1> QED
  BY <1>1, <1>2, <1>3, StateServeHeld, ManagerHeld, ChangeHeld DEF Environment

LEMMA HeldInit == Init => HeldDown
BY DEF Init, HeldDown, NoneAhead, OnlyDownwards, SeenDown, PausedWhileRebuilding,
   Lowering, Rebuilding

LEMMA HeldNext == TypeOK /\ Safe /\ HeldDown /\ [Next]_vars => HeldDown'
<1> SUFFICES ASSUME TypeOK, Safe, HeldDown, [Next]_vars PROVE HeldDown'
  OBVIOUS
<1>1. CASE UNCHANGED vars
  BY <1>1, QuietHeld DEF vars, gateVars, phaseVars, callVars, envVars, histVars
<1>2. CASE MapAnswer
  BY <1>2, QuietHeld DEF MapAnswer, phaseVars, callVars, envVars, histVars
<1> QED
  BY <1>1, <1>2, EpochHeld, TickHeld, StateAnswerHeld, LifecycleAnswerHeld,
     ServiceAnswerHeld, EnvironmentHeld DEF Next

-------------------------------------------------------------------------------
(* Invariants.                                                              *)

THEOREM Invariance == Spec => []IInv
<1>1. Init => IInv
  BY TypeInit, SafeInit, HeldInit DEF IInv
<1>2. IInv /\ [Next]_vars => IInv'
  BY TypeNext, SafeNext, HeldNext DEF IInv
<1> QED BY <1>1, <1>2, PTL DEF Spec

\* The in-flight reservation matches the one lifecycle request outstanding.
THEOREM OneCommandAlways == Spec => []OneCommandOutstanding
<1>1. IInv => OneCommandOutstanding
  BY DEF IInv, Safe
<1> QED BY <1>1, Invariance, PTL

\* No command is sent beyond max_attempts.
THEOREM BudgetKept == Spec => []CommandBudget
<1>1. IInv => CommandBudget
  BY DEF IInv, Safe
<1> QED BY <1>1, Invariance, PTL

\* No node is active while the costmaps are cleared and the pose reseeded, but
\* for a command of an earlier generation.
THEOREM StackHeldDown == Spec => []PausedWhileRebuilding
<1>1. IInv => PausedWhileRebuilding
  BY DEF IInv, HeldDown
<1> QED BY <1>1, Invariance, PTL

-------------------------------------------------------------------------------
(* Action properties.                                                       *)

LEMMA ActiveByDecision ==
  ASSUME [Next]_vars, ~activated, activated'
  PROVE  QueryInFlight /\ query.context # "recovery_pause"
<1> USE DEF phaseVars, gateVars
<1>1. ~ UNCHANGED activated
  OBVIOUS
<1>2. ~EpochEvent
  BY DEF EpochEvent, BeginRecovery
<1>3. ~Tick
  BY <1>1 DEF Tick, TickRaise, TickTimeout, TickStartup, TickServiceTimeout,
     TickServiceUnavailable, TickCallService, TickSkipReseed,
     TickReadinessRestored, TickQuery
<1>4. ~Environment
  BY <1>1 DEF Environment, BackoffElapses, DeadlinePasses, Inputs, MapPublished,
     MapServe, RecoveryServe, StateServe, ManagerStep, ChangeStep
<1>5. ~LifecycleAnswer /\ ~MapAnswer /\ ~ServiceAnswer
  BY <1>1 DEF LifecycleAnswer, LifecycleDone, MapAnswer, ServiceAnswer,
     RecoveryServiceDone
<1>6. StateAnswer
  BY <1>1, <1>2, <1>3, <1>4, <1>5 DEF Next, vars
<1>7. PICK c \in stateCalls : StateQueryDone(c)
  BY <1>1, <1>6 DEF StateAnswer, StateQueryFailed
<1>8. Counted(c) /\ \E states : HandleStateSnapshot(query.context, states)
  BY <1>1, <1>7 DEF StateQueryDone, decisionVars
<1>9. query.context # "recovery_pause"
  <2> SUFFICES ASSUME query.context = "recovery_pause" PROVE FALSE
    OBVIOUS
  <2>1. PICK states : HandleStateSnapshot("recovery_pause", states)
    BY <1>8
  <2>2. HandleRecoveryPauseDecision(LifecycleDecision(states), states)
    BY <1>1, <2>1 DEF HandleStateSnapshot
  <2> QED
    BY <1>1, <2>2 DEF HandleRecoveryPauseDecision, SendNormalizationTransition,
       VerificationFailed, SendManagerCommand
<1> QED BY <1>8, <1>9 DEF Counted

\* A recovery ends active only after every step it owes was performed.
THEOREM RecoveryCompleted == Spec => RecoveryIsComplete
<1>1. ASSUME IInv, [Next]_vars, Recovering, activated'
      PROVE  RecoverySteps \subseteq effects
  <2>1. ~activated
    BY <1>1 DEF IInv, Safe, InStage
  <2>2. query.context = ContextOf(stage) /\ query.context # "recovery_pause"
        /\ query.context # "none"
    BY <1>1, <2>1, ActiveByDecision DEF IInv, Safe, InStage, QueryInFlight
  <2>3. stage \in {"resume_query", "resume_verify"}
    BY <1>1, <2>2 DEF ContextOf, Recovering
  <2> QED BY <1>1, <2>3 DEF IInv, Safe, StepsDone, Owed
<1>2. IInv /\ [Next]_vars
        => [Recovering /\ activated' => RecoverySteps \subseteq effects]_vars
  BY <1>1
<1> QED BY <1>2, Invariance, PTL DEF Spec, RecoveryIsComplete

LEMMA DecisionKeepsFutures ==
  ASSUME NEW context, NEW states, HandleStateSnapshot(context, states)
  PROVE  lifecycleCalls \subseteq lifecycleCalls'
BY DEF HandleStateSnapshot, HandleRecoveryPauseDecision, HandleUpDecision,
   MarkActive, VerificationFailed, SendManagerCommand, Reserve,
   SendNormalizationTransition, sendVars

LEMMA TickKeepsFutures ==
  ASSUME Tick
  PROVE  /\ stateCalls \subseteq stateCalls' /\ lifecycleCalls' = lifecycleCalls
         /\ serviceCalls \subseteq serviceCalls' /\ mapCalls \subseteq mapCalls'
<1> USE DEF callVars, mapVars
<1>1. CASE TickStartup
  BY <1>1 DEF TickStartup, EnsureImmutableMapActive, SendMapCall, StartStateQuery
<1>2. CASE TickCallService \/ TickQuery
  BY <1>2 DEF TickCallService, CallRecoveryService, TickQuery, StartStateQuery
<1> QED
  BY <1>1, <1>2 DEF Tick, TickRaise, TickTimeout, TickServiceTimeout,
     TickServiceUnavailable, TickSkipReseed, TickReadinessRestored

\* The futures a step takes out or answers.
Handled == (stateCalls \ stateCalls') \cup (lifecycleCalls \ lifecycleCalls')
           \cup (serviceCalls \ serviceCalls') \cup (mapCalls \ mapCalls')

\* A callback of an older generation changes nothing in the gate.
THEOREM StaleInert == Spec => StaleAnswersInert
<1>1. ASSUME [Next]_vars, NEW c \in Handled, c.generation # generation
      PROVE  UNCHANGED gateVars
  <2> USE DEF phaseVars, retryVars, failVars, callVars, mapVars, gateVars, Handled
  <2>1. ~EpochEvent
    BY <1>1 DEF EpochEvent
  <2>2. ~Tick
    BY <1>1, TickKeepsFutures
  <2>3. ASSUME Environment PROVE UNCHANGED gateVars
    <3>1. ~BackoffElapses /\ ~DeadlinePasses
      BY <1>1 DEF BackoffElapses, DeadlinePasses
    <3> QED BY <2>3, <3>1 DEF Environment, Inputs, MapPublished, MapServe,
               RecoveryServe, StateServe, ManagerStep, ChangeStep
  <2>4. ASSUME NEW d \in stateCalls, StateQueryDone(d) PROVE UNCHANGED gateVars
    <3>1. CASE d.generation # generation
      BY <2>4, <3>1 DEF StateQueryDone, Counted, decisionVars
    <3>2. CASE d.generation = generation
      <4>1. stateCalls' = stateCalls \ {d} /\ UNCHANGED <<serviceCalls, mapCalls>>
        BY <2>4 DEF StateQueryDone
      <4>2. lifecycleCalls \subseteq lifecycleCalls'
        BY <2>4, DecisionKeepsFutures DEF StateQueryDone, decisionVars
      <4> QED BY <1>1, <3>2, <4>1, <4>2
    <3> QED BY <3>1, <3>2
  <2>5. ASSUME NEW d \in stateCalls, StateQueryFailed(d)
        PROVE  UNCHANGED gateVars
    BY <1>1, <2>5 DEF StateQueryFailed, sendVars
  <2>6. ASSUME LifecycleAnswer PROVE UNCHANGED gateVars
    BY <1>1, <2>6 DEF LifecycleAnswer, LifecycleDone
  <2>7. ASSUME ServiceAnswer PROVE UNCHANGED gateVars
    BY <1>1, <2>7 DEF ServiceAnswer, RecoveryServiceDone
  <2>8. ASSUME MapAnswer PROVE UNCHANGED gateVars
    <3>1. PICK d \in mapCalls : MapStateDone(d) \/ MapTransitionDone(d)
      BY <2>8 DEF MapAnswer
    <3>2. mapCalls \ {d} \subseteq mapCalls'
      BY <3>1 DEF MapStateDone, MapTransitionDone, SendMapCall
    <3>3. c = d
      BY <1>1, <2>8, <3>2 DEF MapAnswer
    <3>4. UNCHANGED <<mapOp, mapAttempts, mapBackoff, fatal>>
      BY <1>1, <3>1, <3>3 DEF MapStateDone, MapTransitionDone
    <3> QED BY <2>8, <3>4 DEF MapAnswer
  <2> QED
    BY <1>1, <2>1, <2>2, <2>3, <2>4, <2>5, <2>6, <2>7, <2>8
       DEF Next, vars, StateAnswer
<1>2. [Next]_vars
        => [\A c \in Handled : c.generation # generation => UNCHANGED gateVars]_vars
  BY <1>1
<1> QED BY <1>2, PTL DEF Spec, StaleAnswersInert, Handled
-------------------------------------------------------------------------------
(* The gate implements the safety part of its contract.                     *)

\* What a step may do to what the contract sees of the gate.
Still == /\ UNCHANGED <<activated, raised>> /\ StepsPassed' = StepsPassed
         /\ Recovering' <=> Recovering
Onward == /\ UNCHANGED activated /\ ~raised /\ ~raised'
          /\ Recovering /\ Recovering'
          /\ StepsPassed \in 0..5 /\ StepsPassed' = StepsPassed + 1
Restart == ~raised /\ ~raised' /\ ~activated' /\ stage' = "cancel_goal"
UpAgain == /\ stage \in {"none", "resume_query", "resume_verify"}
           /\ activated' /\ stage' = "none" /\ ~raised /\ ~raised'
GiveUp == ~raised /\ raised' /\ UNCHANGED stage

LEMMA StillStands ==
  ASSUME UNCHANGED <<activated, stage, raised>> PROVE Still
BY DEF Still, StepsPassed, Recovering

LEMMA SnapshotPhase ==
  ASSUME TypeOK, Safe, QueryInFlight, NEW states, UNCHANGED raised, ~raised,
         HandleStateSnapshot(query.context, states)
  PROVE  Still \/ Onward \/ UpAgain
<1>1. /\ query.context \in Contexts /\ query.context = ContextOf(stage)
  BY DEF Safe, InStage, TypeOK, Queries, QueryInFlight
<1>2. CASE UNCHANGED <<activated, stage>>
  BY <1>2, StillStands
<1>3. CASE query.context = "recovery_pause" /\ UNCHANGED activated
           /\ SetRecoveryStage("clear_global")
  <2>1. stage \in {"pause_query", "pause_verify"} /\ stage' = "clear_global"
    BY <1>1, <1>3 DEF ContextOf, SetRecoveryStage
  <2> QED BY <1>3, <2>1 DEF Onward, StepsPassed, Recovering
<1>4. CASE query.context # "recovery_pause" /\ MarkActive
  <2>1. stage \in {"none", "resume_query", "resume_verify"}
    BY <1>1, <1>4 DEF ContextOf, Contexts
  <2> QED BY <1>4, <2>1 DEF MarkActive, UpAgain
<1>5. CASE query.context = "recovery_pause"
           /\ HandleRecoveryPauseDecision(LifecycleDecision(states), states)
  BY <1>2, <1>3, <1>5 DEF HandleRecoveryPauseDecision, VerificationFailed,
     SendNormalizationTransition, SendManagerCommand, phaseVars
<1>6. CASE query.context # "recovery_pause"
           /\ HandleUpDecision(query.context, LifecycleDecision(states), states)
  BY <1>2, <1>4, <1>6 DEF HandleUpDecision, VerificationFailed,
     SendNormalizationTransition, SendManagerCommand, phaseVars
<1> QED BY <1>2, <1>5, <1>6 DEF HandleStateSnapshot, phaseVars

LEMMA PhaseStep ==
  ASSUME TypeOK, Safe, [Next]_vars
  PROVE  Still \/ Onward \/ Restart \/ UpAgain \/ GiveUp
<1> USE DEF phaseVars, failVars, gateVars
<1>1. CASE UNCHANGED vars
  BY <1>1, StillStands DEF vars
<1>2. ASSUME EpochEvent, ~raised PROVE Still \/ Restart
  <2>1. CASE UNCHANGED <<activated, stage>>
    BY <1>2, <2>1, StillStands DEF EpochEvent
  <2> QED BY <1>2, <2>1 DEF EpochEvent, BeginRecovery, Restart
<1>3. ASSUME Tick, ~raised PROVE Still \/ Onward \/ GiveUp
  <2>1. CASE TickRaise
    BY <1>3, <2>1 DEF TickRaise, GiveUp
  <2>2. CASE TickSkipReseed \/ TickReadinessRestored
    BY <1>3, <2>2 DEF TickSkipReseed, TickReadinessRestored, AdvanceRecovery,
       SetRecoveryStage, Onward, StepsPassed, Recovering
  <2> QED
    BY <1>3, <2>1, <2>2, StillStands DEF Tick, TickTimeout, TickStartup,
       TickServiceTimeout, TickServiceUnavailable, TickCallService, TickQuery
<1>4. ASSUME StateAnswer, ~raised PROVE Still \/ Onward \/ UpAgain
  <2>1. ASSUME NEW c \in stateCalls, StateQueryDone(c)
        PROVE  Still \/ Onward \/ UpAgain
    <3>1. UNCHANGED raised
      BY <2>1 DEF StateQueryDone
    <3>2. CASE UNCHANGED decisionVars
      BY <3>1, <3>2, StillStands DEF decisionVars
    <3> QED BY <1>4, <2>1, <3>1, <3>2, SnapshotPhase DEF StateQueryDone, Counted
  <2>2. ASSUME NEW c \in stateCalls, StateQueryFailed(c) PROVE Still
    BY <2>2, StillStands DEF StateQueryFailed
  <2> QED BY <1>4, <2>1, <2>2 DEF StateAnswer
<1>5. ASSUME LifecycleAnswer PROVE Still
  <2>1. PICK c \in lifecycleCalls : LifecycleDone(c)
    BY <1>5 DEF LifecycleAnswer
  <2>2. UNCHANGED <<activated, raised>>
    BY <2>1 DEF LifecycleDone
  <2>3. CASE UNCHANGED stage
    BY <2>2, <2>3, StillStands
  <2>4. CASE c.generation = generation /\ ManagerCommandDone(c)
    <3>1. c.context = ContextOf(stage) /\ c.context \in Contexts
      BY <2>4 DEF Safe, InStage, TypeOK, DecisionTypes, LifecycleCalls
    <3>2. \/ UNCHANGED stage
          \/ /\ c.context \notin {"activation"}
             /\ stage' = IF c.context = "recovery_pause"
                           THEN "pause_verify" ELSE "resume_verify"
      BY <2>4 DEF ManagerCommandDone, SetRecoveryStage
    <3>3. \/ stage \in {"pause_query", "pause_verify"} /\ stage' = "pause_verify"
          \/ stage \in {"resume_query", "resume_verify"}
             /\ stage' = "resume_verify"
          \/ UNCHANGED stage
      BY <3>1, <3>2 DEF ContextOf, Contexts
    <3> QED BY <2>2, <2>3, <3>3 DEF Still, StepsPassed, Recovering
  <2> QED
    BY <2>1, <2>3, <2>4 DEF LifecycleDone, NormalizationTransitionDone
<1>6. ASSUME ServiceAnswer, ~raised PROVE Still \/ Onward
  <2>1. PICK c \in serviceCalls : RecoveryServiceDone(c)
    BY <1>6 DEF ServiceAnswer
  <2>2. UNCHANGED <<activated, raised>>
    BY <2>1 DEF RecoveryServiceDone
  <2>3. \/ stage' = stage
        \/ stage \in DOMAIN NextStage /\ stage' = NextStage[stage]
    BY <2>1 DEF RecoveryServiceDone, SetRecoveryStage, Safe, InStage, TypeOK,
       ServiceCalls
  <2> QED
    BY <1>6, <2>2, <2>3, StillStands DEF NextStage, Onward, StepsPassed, Recovering
<1>7. ASSUME MapAnswer \/ Environment PROVE Still
  BY <1>7, StillStands DEF MapAnswer, Environment, BackoffElapses, DeadlinePasses,
     Inputs, MapPublished, MapServe, RecoveryServe, StateServe, ManagerStep,
     ChangeStep
<1> QED BY <1>1, <1>2, <1>3, <1>4, <1>5, <1>6, <1>7 DEF Next

\* What is still owed after k steps.
LEMMA OwedAfter ==
  /\ SubSeq(RecoveryOrder, 1, 6) = RecoveryOrder
  /\ SubSeq(RecoveryOrder, 7, 6) = <<>>
  /\ \A k \in 0..5 :
       /\ SubSeq(RecoveryOrder, k + 1, 6) # <<>>
       /\ Tail(SubSeq(RecoveryOrder, k + 1, 6))
            = SubSeq(RecoveryOrder, k + 1 + 1, 6)
<1> DEFINE labels == {"cancel_goal", "pause", "clear_global", "clear_local",
                      "reseed", "waiting_readiness"}
<1>1. RecoveryOrder \in Seq(labels) /\ Len(RecoveryOrder) = 6
  BY DEF RecoveryOrder
<1>2. SubSeq(RecoveryOrder, 1, 6) = RecoveryOrder
      /\ SubSeq(RecoveryOrder, 7, 6) = <<>>
  BY <1>1, SubSeqFull, SubSeqEmpty
<1>3. ASSUME NEW k \in 0..5
      PROVE  /\ SubSeq(RecoveryOrder, k + 1, 6) # <<>>
             /\ Tail(SubSeq(RecoveryOrder, k + 1, 6))
                  = SubSeq(RecoveryOrder, k + 1 + 1, 6)
  <2> DEFINE rest == SubSeq(RecoveryOrder, k + 1, 6)
  <2> HIDE DEF labels
  <2>1. Len(rest) = 6 - k
    BY <1>1
  <2>2. Len(rest) # 0
    <3> HIDE DEF rest
    <3> QED BY <2>1
  <2>3. k + 1 \in 1..Len(RecoveryOrder) /\ 6 \in (k + 1)..Len(RecoveryOrder)
    BY <1>1
  <2> QED BY <1>1, <2>2, <2>3, EmptySeq, HeadTailOfSubSeq
<1> QED BY <1>2, <1>3

LEMMA ContractStep == IInv /\ [Next]_vars => [Contract!Next]_(Contract!vars)
<1> SUFFICES ASSUME TypeOK, Safe, [Next]_vars
             PROVE  [Contract!Next]_(Contract!vars)
  BY DEF IInv
<1> DEFINE mode == IF raised THEN "failed" ELSE IF activated THEN "serving"
                   ELSE IF Recovering THEN "recovering" ELSE "starting"
           todo == SubSeq(RecoveryOrder, StepsPassed + 1, 6)
<1>1. Recovering => ~activated
  BY DEF Safe, InStage
<1>2. CASE Still
  <2>1. mode' = mode /\ todo' = todo
    BY <1>2 DEF Still
  <2> QED BY <2>1 DEF Contract!vars
<1>3. CASE Onward
  <2>1. mode = "recovering" /\ mode' = "recovering"
    BY <1>1, <1>3 DEF Onward
  <2>2. todo # <<>> /\ todo' = Tail(todo)
    BY <1>3, OwedAfter DEF Onward
  <2> QED BY <2>1, <2>2 DEF Contract!Next, Contract!Discharge
<1>4. CASE Restart
  <2>1. mode # "failed" /\ mode' = "recovering"
    BY <1>4 DEF Restart, Recovering
  <2>2. todo' = RecoveryOrder
    <3>1. StepsPassed' = 0
      BY <1>4 DEF Restart, StepsPassed
    <3> QED BY <3>1, OwedAfter
  <2> QED BY <2>1, <2>2 DEF Contract!Next, Contract!Reset
<1>5. CASE UpAgain
  <2>1. todo = <<>> /\ todo' = <<>>
    <3>1. StepsPassed = 6 /\ StepsPassed' = 6
      BY <1>5 DEF UpAgain, StepsPassed
    <3> QED BY <3>1, OwedAfter
  <2>2. CASE activated
    <3>1. mode' = mode
      BY <1>5, <2>2 DEF UpAgain
    <3> QED BY <2>1, <3>1 DEF Contract!vars
  <2>3. CASE ~activated
    <3>1. mode \in {"starting", "recovering"} /\ mode' = "serving"
      BY <1>5, <2>3 DEF UpAgain
    <3> QED BY <2>1, <3>1 DEF Contract!Next, Contract!Serve
  <2> QED BY <2>2, <2>3
<1>6. CASE GiveUp
  <2>1. mode # "failed" /\ mode' = "failed" /\ todo' = todo
    BY <1>6 DEF GiveUp, StepsPassed
  <2> QED BY <2>1 DEF Contract!Next, Contract!Fail
<1> QED BY <1>2, <1>3, <1>4, <1>5, <1>6, PhaseStep

\* No step of a recovery is skipped, repeated or reordered, only an epoch event
\* owes one, and a gate that failed stays failed.
THEOREM ContractSafety == Spec => Contract!Safety
<1>1. Init => Contract!Init
  <2> SUFFICES ASSUME Init PROVE Contract!Init
    OBVIOUS
  <2>1. StepsPassed = 6 /\ ~raised /\ ~activated /\ ~Recovering
    BY DEF Init, StepsPassed, Recovering
  <2> QED BY <2>1, OwedAfter DEF Contract!Init
<1>2. Spec => [][Contract!Next]_(Contract!vars)
  BY Invariance, ContractStep, PTL DEF Spec
<1> QED BY <1>1, <1>2, PTL DEF Spec, Contract!Safety
=============================================================================
