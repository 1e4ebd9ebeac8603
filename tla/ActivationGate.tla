---------------------------- MODULE ActivationGate ----------------------------
(***************************************************************************)
(* Nav2ActivationGate (robot_bringup/activation_gate.py): the sole owner   *)
(* of the Nav2 lifecycle.  It activates the managed nodes once the inputs  *)
(* are ready, and after every simulation reset drives a recovery: cancel   *)
(* goals, pause, clear costmaps, reseed, wait for fresh data, resume.      *)
(*                                                                         *)
(* One action per timer branch, per callback and per external step.  The   *)
(* node is spun by rclpy.spin, so a callback is atomic; what interleaves   *)
(* are the callbacks, the answers of the services, and the lifecycle       *)
(* manager, which goes on executing a command the gate no longer waits for.*)
(* Wall-clock comparisons are the variables backoff, mapBackoff and late.  *)
(***************************************************************************)
EXTENDS LifecyclePolicy, Sequences

CONSTANTS InitialPoseSource,  \* "auto" or "rviz"
          MapStartsReceived,  \* whether the latched /map is there from the start
          MaxGeneration,      \* bound: epoch events
          FaultKinds,         \* what may fail: see Kinds
          MaxFaults,          \* bound: failures of the environment
          MaxCalls            \* bound: outstanding calls of one kind

ASSUME SourceAssumption == InitialPoseSource \in {"auto", "rviz"}
ASSUME FlagAssumption == MapStartsReceived \in BOOLEAN
\* node: a lifecycle transition is refused; death: it kills the node; query: a
\* get_state answer; service: a recovery service; map: the map server; data: a
\* sensor or TF source; discovery: a service that is not (yet) in the graph;
\* duplicate: a second Nav2 stack.
Kinds == {"node", "death", "query", "service", "map", "data", "discovery",
          "duplicate"}
ASSUME KindAssumption == FaultKinds \subseteq Kinds
ASSUME BoundAssumption ==
  MaxGeneration \in Nat /\ MaxFaults \in Nat /\ MaxCalls \in Nat \ {0}

VARIABLES
  activated,              \* _activated
  stage,                  \* _recovery_stage; "none" iff not _recovering
  verifying,              \* contexts whose _..._verifying flag is set
  attempts,               \* _attempts
  normalizationAttempts,  \* _normalization_attempts
  stageAttempts,          \* _recovery_stage_attempts
  backoff,                \* now < _next_attempt_at
  generation,             \* _generation
  query,                  \* _state_query (context "none" when None)
  request,                \* _manager_request_token (_request_in_flight)
  service,                \* token of _recovery_service_operation
  fatal,                  \* _fatal_error is not None
  raised,                 \* the timer raised it: the process is gone
  late,                   \* startup_timeout / recovery_timeout has elapsed
  mapOp,                  \* _map_operation_token (_map_operation_in_flight)
  mapAttempts,            \* _map_activation_attempts
  mapBackoff,             \* now < _next_map_attempt_at
  mapReceived,            \* the tracker has seen /map
  stateCalls,             \* outstanding GetState futures
  lifecycleCalls,         \* outstanding manager / ChangeState futures
  manager,                \* the lifecycle manager's queue of commands
  changes,                \* ChangeState requests at the managed nodes
  serviceCalls,           \* outstanding recovery service futures
  mapCalls,               \* outstanding map server futures
  node,                   \* lifecycle label of every managed node
  mapNode,                \* lifecycle label of the map server
  up,                     \* service groups that are discovered
  ready,                  \* no requirement but /map missing in the tracker
  duplicate,              \* a managed node name is in the graph twice
  faults,                 \* environment failures so far
  effects,                \* history: recovery steps done in this epoch
  stray                   \* history: an older generation's command moved a node

phaseVars == <<activated, stage, verifying>>
retryVars == <<attempts, normalizationAttempts, stageAttempts, backoff>>
failVars  == <<fatal, raised, late>>
mapVars   == <<mapOp, mapAttempts, mapBackoff, mapReceived, mapCalls, mapNode>>
callVars  == <<stateCalls, lifecycleCalls, manager, changes, serviceCalls>>
envVars   == <<node, up, ready, duplicate, faults>>
histVars  == <<effects, stray>>

gateVars == <<phaseVars, retryVars, failVars, generation, query, request,
              service, mapOp, mapAttempts, mapBackoff>>
vars == <<gateVars, mapReceived, mapCalls, mapNode, callVars, envVars, histVars>>
\* What the handling of a snapshot may change, beside the query itself.
decisionVars == <<phaseVars, retryVars, fatal, request, service,
                  lifecycleCalls, manager, changes, effects>>
sendVars == <<request, lifecycleCalls, manager, changes>>

-------------------------------------------------------------------------------
Contexts == {"activation", "recovery_pause", "recovery_resume"}
Services == {"lifecycle", "change", "recovery", "map"}
Stages == {"cancel_goal", "pause_query", "pause_verify", "clear_global",
           "clear_local", "reseed", "waiting_readiness", "resume_query",
           "resume_verify"}
Effects == {"cancel_goal", "paused", "clear_global", "clear_local", "reseed",
            "ready"}

\* Mutant of NextStage: a costmap is forgotten.
NextStageSkipsLocal ==
  [s \in {"cancel_goal", "clear_global", "clear_local", "reseed"} |->
     CASE s = "cancel_goal"  -> "pause_query"
       [] s = "clear_global" -> "reseed"
       [] s = "clear_local"  -> "reseed"
       [] s = "reseed"       -> "waiting_readiness"]

\* The next_stage arguments of _call_recovery_service.
NextStage == [s \in {"cancel_goal", "clear_global", "clear_local", "reseed"} |->
                CASE s = "cancel_goal"  -> "pause_query"
                  [] s = "clear_global" -> "clear_local"
                  [] s = "clear_local"  -> "reseed"
                  [] s = "reseed"       -> "waiting_readiness"]

\* token = object(): unique among the calls outstanding; 0 is the code's None.
Ids == 1..MaxCalls
Unused(used) == {i \in Ids : i \notin used /\ \A j \in Ids : j < i => j \in used}

NoRequest == [kind |-> "none", id |-> 0]
\* serial and mixed (an answer to another query was counted) are history the
\* code does not keep.
NoQuery == [context |-> "none", pending |-> {}, serial |-> 0, mixed |-> FALSE,
            states |-> [n \in Node |-> "unknown"]]

Recovering == stage # "none"
QueryInFlight == query.context # "none"
RequestInFlight == request # NoRequest

LifecycleIds == {c.token.id : c \in lifecycleCalls}

Init ==
  /\ activated = FALSE /\ stage = "none" /\ verifying = {}
  /\ attempts = 0 /\ normalizationAttempts = 0 /\ stageAttempts = 0
  /\ backoff = FALSE
  /\ generation = 0 /\ query = NoQuery /\ request = NoRequest /\ service = 0
  /\ fatal = FALSE /\ raised = FALSE /\ late = FALSE
  /\ mapOp = 0 /\ mapAttempts = 0 /\ mapBackoff = FALSE
  /\ mapReceived = MapStartsReceived /\ mapCalls = {}
  /\ mapNode = IF MapStartsReceived THEN "active" ELSE "unconfigured"
  /\ stateCalls = {} /\ manager = <<>> /\ changes = {} /\ lifecycleCalls = {}
  /\ serviceCalls = {}
  /\ node = [n \in Node |-> "unconfigured"]
  /\ up = (IF "discovery" \in FaultKinds THEN {} ELSE Services)
  /\ ready = FALSE /\ duplicate = FALSE /\ faults = 0
  /\ effects = {} /\ stray = FALSE

-------------------------------------------------------------------------------
(* Bookkeeping shared by the handlers.                                      *)

\* Mutant of SetRecoveryStage: the operation of the old stage is kept.
SetRecoveryStageKeepsCall(s) ==
  /\ stage' = s
  /\ stageAttempts' = 0
  /\ UNCHANGED service

SetRecoveryStage(s) ==
  /\ stage' = s
  /\ service' = 0
  /\ stageAttempts' = 0

\* _record_failure: count is attempts once this failure is counted.
RecordFailure(count) ==
  /\ attempts' = count
  /\ IF CanRetry(count) THEN backoff' = TRUE /\ UNCHANGED fatal
                        ELSE fatal' = TRUE /\ UNCHANGED backoff

RecordNormalizationFailure ==
  /\ normalizationAttempts' = normalizationAttempts + 1
  /\ IF CanRetry(normalizationAttempts + 1)
       THEN backoff' = TRUE /\ UNCHANGED fatal
       ELSE fatal' = TRUE /\ UNCHANGED backoff

HandleRecoveryServiceFailure ==
  /\ stageAttempts' = stageAttempts + 1
  /\ IF CanRetry(stageAttempts + 1)
       THEN backoff' = TRUE /\ UNCHANGED fatal
       ELSE fatal' = TRUE /\ UNCHANGED backoff

RecordMapActivationFailure ==
  /\ mapAttempts' = mapAttempts + 1
  /\ IF CanRetry(mapAttempts + 1)
       THEN mapBackoff' = TRUE /\ UNCHANGED fatal
       ELSE fatal' = TRUE /\ UNCHANGED mapBackoff

MarkActive ==
  /\ activated' = TRUE /\ stage' = "none" /\ verifying' = {}
  /\ attempts' = 0 /\ normalizationAttempts' = 0
  /\ UNCHANGED <<stageAttempts, backoff, fatal, service, sendVars, effects>>

Fault(kind) ==
  kind \in FaultKinds /\ faults < MaxFaults /\ faults' = faults + 1

-------------------------------------------------------------------------------
(* Epoch events: /simulation/reset_event, a clock rollback or forward jump. *)

\* Mutant of InvalidateAsyncWork: the request in flight is not given up.
InvalidateQueriesOnly ==
  /\ generation' = generation + 1
  /\ query' = NoQuery /\ mapOp' = 0 /\ service' = 0
  /\ verifying' = {}
  /\ UNCHANGED request

InvalidateAsyncWork ==
  /\ generation' = generation + 1
  /\ query' = NoQuery /\ request' = NoRequest /\ mapOp' = 0 /\ service' = 0
  /\ verifying' = {}

BeginRecovery ==
  /\ activated' = FALSE /\ stage' = "cancel_goal"
  /\ normalizationAttempts' = 0 /\ stageAttempts' = 0
  /\ late' = FALSE

\* _handle_epoch_event
EpochEvent ==
  /\ generation < MaxGeneration
  /\ InvalidateAsyncWork
  /\ attempts' = 0 /\ backoff' = FALSE
  /\ \/ /\ activated \/ RequestInFlight \/ Recovering
        /\ BeginRecovery
     \/ /\ ~(activated \/ RequestInFlight \/ Recovering)
        /\ UNCHANGED <<activated, stage, normalizationAttempts, stageAttempts,
                       late>>
  /\ ready' = FALSE
  /\ effects' = {} /\ stray' = FALSE
  /\ UNCHANGED <<fatal, raised, mapAttempts, mapBackoff, mapReceived, mapCalls,
                 mapNode, callVars, node, up, duplicate, faults>>

-------------------------------------------------------------------------------
(* Lifecycle snapshots and the requests they lead to.                       *)

\* _start_state_query; the guard is its own re-check.
StartStateQuery(context) ==
  /\ ~QueryInFlight /\ ~RequestInFlight
  /\ \E serial \in Unused({c.serial : c \in stateCalls}) :
       /\ query' = [context |-> context, pending |-> Node, serial |-> serial,
                    mixed |-> FALSE,
                    states |-> [n \in Node |-> "unknown"]]
       /\ stateCalls' = stateCalls \cup
            [node : Node, generation : {generation}, serial : {serial},
             answer : {"none"}]

\* The reservation both senders make, and its future.
Reserve(token, context) ==
  /\ request' = token
  /\ lifecycleCalls' = lifecycleCalls \cup
       {[token |-> token, generation |-> generation, context |-> context,
         answer |-> "none"]}

\* _send_manager_command
SendManagerCommand(command, context) ==
  /\ \E id \in Unused(LifecycleIds) :
       LET token == [kind |-> "manager", id |-> id] IN
       /\ Reserve(token, context)
       /\ manager' = Append(manager, [command |-> command, token |-> token,
                                      generation |-> generation, position |-> 1])
  /\ attempts' = attempts + 1
  /\ UNCHANGED <<phaseVars, normalizationAttempts, stageAttempts, backoff,
                 fatal, service, changes, effects>>

\* _send_normalization_transition
SendNormalizationTransition(context, states, target) ==
  LET step == NormalizationTransition(states, target) IN
  \/ /\ step = NoTransition
     /\ backoff' = TRUE
     /\ UNCHANGED <<phaseVars, attempts, normalizationAttempts, stageAttempts,
                    fatal, service, sendVars, effects>>
  \/ /\ step # NoTransition /\ "change" \notin up
     /\ RecordNormalizationFailure
     /\ UNCHANGED <<phaseVars, attempts, stageAttempts, service, sendVars,
                    effects>>
  \/ /\ step # NoTransition /\ "change" \in up
     /\ \E id \in Unused(LifecycleIds) :
          LET token == [kind |-> "change", id |-> id] IN
          /\ Reserve(token, context)
          /\ changes' = changes \cup {[step |-> step, token |-> token,
                                       generation |-> generation]}
     /\ UNCHANGED <<phaseVars, retryVars, fatal, service, manager, effects>>

\* The manager reported success, the nodes say otherwise.
VerificationFailed(context) ==
  /\ verifying' = verifying \ {context}
  /\ RecordFailure(attempts + 1)
  /\ UNCHANGED <<activated, stage, normalizationAttempts, stageAttempts,
                 service, sendVars, effects>>

\* _handle_activation_decision (context "activation") and
\* _handle_recovery_resume_decision (context "recovery_resume")
HandleUpDecision(context, decision, states) ==
  \/ decision = "already_active" /\ MarkActive
  \/ /\ decision = "normalize"
     /\ SendNormalizationTransition(context, states, "active")
  \/ /\ decision \in {"startup", "resume"} /\ context \in verifying
     /\ VerificationFailed(context)
  \/ /\ decision \in {"startup", "resume"} /\ context \notin verifying
     /\ SendManagerCommand(decision, context)

\* _handle_recovery_pause_decision
HandleRecoveryPauseDecision(decision, states) ==
  \/ /\ decision = "normalize"
     /\ SendNormalizationTransition("recovery_pause", states, "inactive")
  \/ /\ decision \in {"startup", "resume"}
     /\ verifying' = verifying \ {"recovery_pause"}
     /\ attempts' = 0
     /\ SetRecoveryStage("clear_global")
     /\ effects' = effects \cup {"paused"}
     /\ UNCHANGED <<activated, normalizationAttempts, backoff, fatal, sendVars>>
  \/ /\ decision = "already_active" /\ "recovery_pause" \in verifying
     /\ VerificationFailed("recovery_pause")
  \/ /\ decision = "already_active" /\ "recovery_pause" \notin verifying
     /\ SendManagerCommand("pause", "recovery_pause")

\* _handle_state_snapshot
HandleStateSnapshot(context, states) ==
  LET decision == LifecycleDecision(states) IN
  \/ /\ decision = "wait"
     /\ backoff' = TRUE
     /\ UNCHANGED <<phaseVars, attempts, normalizationAttempts, stageAttempts,
                    fatal, service, sendVars, effects>>
  \/ /\ decision = "fail"
     /\ RecordFailure(attempts + 1)
     /\ UNCHANGED <<phaseVars, normalizationAttempts, stageAttempts, service,
                    sendVars, effects>>
  \/ /\ decision \notin {"wait", "fail"}
     /\ IF context = "recovery_pause"
          THEN HandleRecoveryPauseDecision(decision, states)
          ELSE HandleUpDecision(context, decision, states)

\* A state counts when it is asked for in this generation and still pending:
\* the query it was asked by is not compared (serial is history).
\* Mutant of Counted: no generation check.
CountedInAnyGeneration(c) == QueryInFlight /\ c.node \in query.pending

Counted(c) ==
  c.generation = generation /\ QueryInFlight /\ c.node \in query.pending

\* _state_query_done, an answer
StateQueryDone(c) ==
  LET states == [query.states EXCEPT ![c.node] = c.answer]
      rest   == query.pending \ {c.node}
  IN
  /\ c.answer # "none"
  /\ stateCalls' = stateCalls \ {c}
  /\ \/ ~Counted(c) /\ UNCHANGED <<decisionVars, query>>
     \/ /\ Counted(c) /\ rest # {}
        /\ query' = [query EXCEPT !.states = states, !.pending = rest,
                                  !.mixed = @ \/ c.serial # query.serial]
        /\ UNCHANGED decisionVars
     \/ /\ Counted(c) /\ rest = {}
        /\ query' = NoQuery
        /\ HandleStateSnapshot(query.context, states)
  /\ UNCHANGED <<raised, late, generation, mapVars, serviceCalls, envVars,
                 stray>>

\* _state_query_done, an exception
StateQueryFailed(c) ==
  /\ Fault("query")
  /\ stateCalls' = stateCalls \ {c}
  /\ IF c.generation = generation /\ QueryInFlight
       THEN query' = NoQuery /\ RecordFailure(attempts + 1)
       ELSE UNCHANGED <<query, attempts, backoff, fatal>>
  /\ UNCHANGED <<phaseVars, normalizationAttempts, stageAttempts, raised, late,
                 generation, service, mapVars, sendVars, serviceCalls, node, up,
                 ready, duplicate, histVars>>

-------------------------------------------------------------------------------
(* Answers to lifecycle requests.                                           *)

\* _manager_command_done for a current token
ManagerCommandDone(c) ==
  /\ request' = NoRequest
  /\ \/ /\ c.answer = "failed"
        /\ RecordFailure(attempts)
        /\ UNCHANGED <<stage, verifying, stageAttempts, service>>
     \/ /\ c.answer = "ok"
        /\ backoff' = TRUE
        /\ verifying' = verifying \cup {c.context}
        /\ IF c.context = "activation"
             THEN UNCHANGED <<stage, stageAttempts, service>>
             ELSE SetRecoveryStage(IF c.context = "recovery_pause"
                                     THEN "pause_verify" ELSE "resume_verify")
        /\ UNCHANGED <<attempts, fatal>>
  /\ UNCHANGED normalizationAttempts

\* _normalization_transition_done for a current token
NormalizationTransitionDone(c) ==
  /\ request' = NoRequest
  /\ \/ c.answer = "failed" /\ RecordNormalizationFailure
     \/ /\ c.answer = "ok"
        /\ normalizationAttempts' = 0 /\ backoff' = TRUE /\ UNCHANGED fatal
  /\ UNCHANGED <<attempts, stage, verifying, stageAttempts, service>>

LifecycleDone(c) ==
  /\ c.answer # "none"
  /\ lifecycleCalls' = lifecycleCalls \ {c}
  /\ \/ /\ c.generation # generation \/ c.token # request
        /\ UNCHANGED gateVars
     \/ /\ c.generation = generation /\ c.token = request
        /\ IF c.token.kind = "manager" THEN ManagerCommandDone(c)
                                       ELSE NormalizationTransitionDone(c)
        /\ UNCHANGED <<activated, raised, late, generation, query, mapOp,
                       mapAttempts, mapBackoff>>
  /\ UNCHANGED <<mapReceived, mapCalls, mapNode, stateCalls, manager, changes,
                 serviceCalls, envVars, histVars>>

-------------------------------------------------------------------------------
(* Repair of the immutable map server before activation.                    *)

MapTransition(state) == CASE state = "unconfigured" -> "configure"
                          [] state = "inactive" -> "activate"
                          [] OTHER -> "none"

SendMapCall(calls, label) ==
  \E id \in Unused({c.id : c \in calls}) :
    /\ mapOp' = id
    /\ mapCalls' = calls \cup {[id |-> id, generation |-> generation,
                                label |-> label, answer |-> "none"]}

\* _ensure_immutable_map_active: query the map server unless it is being
\* repaired, backing off or not discovered.
EnsureImmutableMapActive ==
  IF mapOp # 0 \/ mapBackoff \/ "map" \notin up
    THEN UNCHANGED <<mapOp, mapCalls>>
    ELSE SendMapCall(mapCalls, "get_state")

\* _map_state_done and _send_map_transition
MapStateDone(c) ==
  /\ c.label = "get_state" /\ c.answer # "none"
  /\ IF c.generation # generation \/ c.id # mapOp
       THEN /\ mapCalls' = mapCalls \ {c}
            /\ UNCHANGED <<mapOp, mapAttempts, mapBackoff, fatal>>
       ELSE \/ /\ c.answer = "active"
               /\ mapOp' = 0 /\ mapAttempts' = 0 /\ mapBackoff' = TRUE
               /\ mapCalls' = mapCalls \ {c} /\ UNCHANGED fatal
            \/ /\ c.answer \in TransitionalStates
               /\ mapOp' = 0 /\ mapBackoff' = TRUE
               /\ mapCalls' = mapCalls \ {c} /\ UNCHANGED <<mapAttempts, fatal>>
            \/ /\ \/ c.answer \in TerminalStates \cup {"failed"}
                  \/ MapTransition(c.answer) # "none" /\ "map" \notin up
               /\ mapOp' = 0 /\ RecordMapActivationFailure
               /\ mapCalls' = mapCalls \ {c}
            \/ /\ MapTransition(c.answer) # "none" /\ "map" \in up
               /\ SendMapCall(mapCalls \ {c}, MapTransition(c.answer))
               /\ UNCHANGED <<mapAttempts, mapBackoff, fatal>>

\* _map_transition_done
MapTransitionDone(c) ==
  /\ c.label # "get_state" /\ c.answer # "none"
  /\ mapCalls' = mapCalls \ {c}
  /\ IF c.generation # generation \/ c.id # mapOp
       THEN UNCHANGED <<mapOp, mapAttempts, mapBackoff, fatal>>
       ELSE /\ mapOp' = 0
            /\ IF c.answer = "failed"
                 THEN RecordMapActivationFailure
                 ELSE mapAttempts' = 0 /\ mapBackoff' = TRUE /\ UNCHANGED fatal

MapAnswer ==
  /\ \E c \in mapCalls : MapStateDone(c) \/ MapTransitionDone(c)
  /\ UNCHANGED <<phaseVars, retryVars, raised, late, generation, query, request,
                 service, mapReceived, mapNode, callVars, envVars, histVars>>

-------------------------------------------------------------------------------
(* Recovery services: cancel goals, clear costmaps, reseed.                 *)

\* _call_recovery_service, the service discovered
CallRecoveryService ==
  /\ \E id \in Unused({c.id : c \in serviceCalls}) :
       /\ service' = id
       /\ serviceCalls' = serviceCalls \cup
            {[id |-> id, generation |-> generation, stage |-> stage,
              answer |-> "none"]}

\* _recovery_service_done
RecoveryServiceDone(c) ==
  /\ c.answer # "none"
  /\ serviceCalls' = serviceCalls \ {c}
  /\ \/ /\ c.generation # generation \/ c.id # service
        /\ UNCHANGED <<stage, stageAttempts, service, backoff, fatal>>
     \/ /\ c.generation = generation /\ c.id = service
        /\ IF c.answer = "failed"
             THEN /\ service' = 0
                  /\ HandleRecoveryServiceFailure
                  /\ UNCHANGED stage
             ELSE /\ SetRecoveryStage(NextStage[c.stage])
                  /\ UNCHANGED <<backoff, fatal>>
  /\ UNCHANGED <<activated, verifying, attempts, normalizationAttempts, raised,
                 late, generation, query, request, mapVars, stateCalls,
                 lifecycleCalls, manager, changes, envVars, histVars>>

-------------------------------------------------------------------------------
(* The steady-clock timer, _check_readiness.                                *)

SetFatal == fatal' = TRUE

\* A recorded fatal error leaves the process through the timer callback.
TickRaise ==
  /\ fatal
  /\ raised' = TRUE
  /\ UNCHANGED <<phaseVars, retryVars, fatal, late, generation, query, request,
                 service, mapVars, callVars, envVars, histVars>>

\* Mutant of TickTimeout: the deadline waits for what is in flight.
TickTimeoutWhenIdle ==
  /\ ~fatal /\ late /\ (Recovering \/ ~activated)
  /\ ~RequestInFlight /\ ~QueryInFlight
  /\ SetFatal
  /\ UNCHANGED <<phaseVars, retryVars, raised, late, generation, query, request,
                 service, mapVars, callVars, envVars, histVars>>

\* recovery_timeout or startup_timeout, whatever is in flight
TickTimeout ==
  /\ ~fatal /\ late /\ (Recovering \/ ~activated)
  /\ SetFatal
  /\ UNCHANGED <<phaseVars, retryVars, raised, late, generation, query, request,
                 service, mapVars, callVars, envVars, histVars>>

\* The rest of _check_readiness while neither active nor recovering
TickStartup ==
  /\ ~fatal /\ ~late /\ ~Recovering /\ ~activated
  /\ ~RequestInFlight /\ ~QueryInFlight /\ ~backoff
  /\ IF mapReceived THEN UNCHANGED <<mapOp, mapCalls>>
                    ELSE EnsureImmutableMapActive
  /\ \/ /\ duplicate
        /\ SetFatal /\ UNCHANGED <<query, stateCalls>>
     \/ /\ ~duplicate
        /\ mapReceived /\ ready /\ "lifecycle" \in up
        /\ StartStateQuery("activation") /\ UNCHANGED fatal
     \/ /\ ~duplicate
        /\ ~(mapReceived /\ ready /\ "lifecycle" \in up)
        /\ UNCHANGED <<query, stateCalls, fatal>>
  /\ UNCHANGED <<phaseVars, retryVars, raised, late, generation, request,
                 service, mapAttempts, mapBackoff, mapReceived, mapNode,
                 lifecycleCalls, manager, changes, serviceCalls, envVars, histVars>>

\* _advance_recovery past its early returns
AdvanceRecovery ==
  /\ ~fatal /\ ~late /\ Recovering /\ ~backoff
  /\ ~RequestInFlight /\ ~QueryInFlight

\* recovery_service_timeout of the call in flight; its answer may still come
TickServiceTimeout ==
  /\ AdvanceRecovery /\ service # 0
  /\ Fault("service")
  /\ service' = 0
  /\ HandleRecoveryServiceFailure
  /\ UNCHANGED <<phaseVars, attempts, normalizationAttempts, raised, late,
                 generation, query, request, mapVars, callVars, node, up, ready,
                 duplicate, histVars>>

StageService == IF stage \in DOMAIN NextStage THEN "recovery" ELSE "lifecycle"

\* _recovery_service_wait_or_fail once recovery_service_timeout has passed
TickServiceUnavailable ==
  /\ AdvanceRecovery /\ service = 0
  /\ stage # "waiting_readiness" /\ StageService \notin up
  /\ ~(stage = "reseed" /\ InitialPoseSource = "rviz")
  /\ SetFatal
  /\ UNCHANGED <<phaseVars, retryVars, raised, late, generation, query, request,
                 service, mapVars, callVars, envVars, histVars>>

TickCallService ==
  /\ AdvanceRecovery /\ service = 0
  /\ stage \in DOMAIN NextStage /\ "recovery" \in up
  /\ ~(stage = "reseed" /\ InitialPoseSource = "rviz")
  /\ CallRecoveryService
  /\ UNCHANGED <<phaseVars, retryVars, failVars, generation, query, request,
                 mapVars, stateCalls, lifecycleCalls, manager, changes, envVars,
                 histVars>>

TickSkipReseed ==
  /\ AdvanceRecovery /\ service = 0
  /\ stage = "reseed" /\ InitialPoseSource = "rviz"
  /\ SetRecoveryStage("waiting_readiness")
  /\ UNCHANGED <<activated, verifying, attempts, normalizationAttempts, backoff,
                 failVars, generation, query, request, mapVars, callVars,
                 envVars, histVars>>

TickReadinessRestored ==
  /\ AdvanceRecovery /\ service = 0
  /\ stage = "waiting_readiness" /\ ready /\ mapReceived
  /\ SetRecoveryStage("resume_query")
  /\ effects' = effects \cup {"ready"}
  /\ UNCHANGED <<activated, verifying, attempts, normalizationAttempts, backoff,
                 failVars, generation, query, request, mapVars, callVars,
                 envVars, stray>>

TickQuery ==
  /\ AdvanceRecovery /\ service = 0 /\ "lifecycle" \in up
  /\ \/ /\ stage \in {"pause_query", "pause_verify"}
        /\ StartStateQuery("recovery_pause")
     \/ /\ stage \in {"resume_query", "resume_verify"}
        /\ StartStateQuery("recovery_resume")
  /\ UNCHANGED <<phaseVars, retryVars, failVars, generation, request, service,
                 mapVars, lifecycleCalls, manager, changes, serviceCalls, envVars,
                 histVars>>

Tick == TickRaise \/ TickTimeout \/ TickStartup \/ TickServiceTimeout
        \/ TickServiceUnavailable \/ TickCallService \/ TickSkipReseed
        \/ TickReadinessRestored \/ TickQuery

-------------------------------------------------------------------------------
(* The environment: wall time, inputs, services, Nav2 (external).           *)

BackoffElapses ==
  /\ \/ backoff /\ backoff' = FALSE /\ UNCHANGED mapBackoff
     \/ mapBackoff /\ mapBackoff' = FALSE /\ UNCHANGED backoff
  /\ UNCHANGED <<phaseVars, attempts, normalizationAttempts, stageAttempts,
                 failVars, generation, query, request, service, mapOp,
                 mapAttempts, mapReceived, mapCalls, mapNode, callVars, envVars,
                 histVars>>

DeadlinePasses ==
  /\ ~late /\ ~activated
  /\ late' = TRUE
  /\ UNCHANGED <<phaseVars, retryVars, fatal, raised, generation, query,
                 request, service, mapVars, callVars, envVars, histVars>>

\* Scan, odometry, clock and TF become fresh and stable, or a source dies.
DataReady ==
  /\ ~ready /\ ready' = TRUE /\ UNCHANGED faults
DataLost ==
  /\ ready /\ ready' = FALSE /\ Fault("data")
ServiceAppears ==
  /\ \E s \in Services \ up : up' = up \cup {s}
  /\ UNCHANGED faults
ServiceDisappears ==
  /\ \E s \in up : up' = up \ {s}
  /\ Fault("discovery")
\* A second stack is launched: a managed node name is in the graph twice.
DuplicateAppears ==
  /\ ~duplicate /\ duplicate' = TRUE /\ Fault("duplicate")

Inputs ==
  /\ \/ (DataReady \/ DataLost) /\ UNCHANGED <<up, duplicate>>
     \/ (ServiceAppears \/ ServiceDisappears) /\ UNCHANGED <<ready, duplicate>>
     \/ DuplicateAppears /\ UNCHANGED <<ready, up>>
  /\ UNCHANGED <<gateVars, mapReceived, mapCalls, mapNode, callVars, node,
                 histVars>>

\* The map server publishes its latched map once it is active.
MapPublished ==
  /\ mapNode = "active" /\ ~mapReceived
  /\ mapReceived' = TRUE
  /\ UNCHANGED <<gateVars, mapCalls, mapNode, callVars, envVars, histVars>>

\* The map server answers get_state with its label, or with the transitional
\* one while it performs a request; a transition fails or kills the server.
MapServe ==
  /\ \E c \in mapCalls :
       /\ c.answer = "none"
       /\ \E answer \in LifecycleStates \cup {"ok", "failed"} :
            /\ mapCalls' = (mapCalls \ {c}) \cup {[c EXCEPT !.answer = answer]}
            /\ \/ /\ c.label = "get_state"
                  /\ answer \in {mapNode} \cup
                       {During(d.label) : d \in {e \in mapCalls :
                          /\ e.label # "get_state" /\ e.answer = "none"
                          /\ Source(e.label) = mapNode}}
                  /\ UNCHANGED <<mapNode, faults>>
               \/ /\ c.label # "get_state" /\ answer = "ok"
                  /\ mapNode = Source(c.label)
                  /\ mapNode' = Target(c.label) /\ UNCHANGED faults
               \/ /\ c.label # "get_state" /\ answer = "failed"
                  /\ mapNode # Source(c.label)
                  /\ UNCHANGED <<mapNode, faults>>
               \/ /\ answer = "failed" /\ Fault("map")
                  /\ \/ UNCHANGED mapNode
                     \/ c.label # "get_state" /\ mapNode' = "finalized"
  /\ UNCHANGED <<gateVars, mapReceived, callVars, node, up, ready, duplicate,
                 histVars>>

\* A recovery service executes a call; a failure leaves the step undone.
RecoveryServe ==
  /\ \E c \in serviceCalls :
       /\ c.answer = "none"
       /\ \/ /\ serviceCalls' = (serviceCalls \ {c})
                                  \cup {[c EXCEPT !.answer = "ok"]}
             /\ effects' = effects \cup {c.stage} /\ UNCHANGED faults
          \/ /\ serviceCalls' = (serviceCalls \ {c})
                                  \cup {[c EXCEPT !.answer = "failed"]}
             /\ Fault("service") /\ UNCHANGED effects
  /\ UNCHANGED <<gateVars, mapReceived, mapCalls, mapNode, stateCalls,
                 lifecycleCalls, manager, changes, node, up, ready, duplicate,
                 stray>>

\* The transition the lifecycle manager is performing, and the requested ones
Moving ==
  {c.step : c \in changes} \cup
  (IF manager = <<>> THEN {}
   ELSE {PlanStep(Head(manager).command, Head(manager).position)})

\* A managed node answers get_state: its label, or the transitional one
\* while a request for the transition out of it is being performed.
StateServe ==
  /\ \E c \in stateCalls :
       /\ c.answer = "none"
       /\ \E label \in {node[c.node]} \cup
                {During(m.label) : m \in {s \in Moving :
                   s.node = c.node /\ Source(s.label) = node[c.node]}} :
            stateCalls' = (stateCalls \ {c}) \cup {[c EXCEPT !.answer = label]}
  /\ UNCHANGED <<gateVars, mapReceived, mapCalls, mapNode, lifecycleCalls,
                 manager, changes, serviceCalls, envVars, histVars>>

\* A managed node performs a transition, refuses it, or fails (and may die).
Transit(step, ok) ==
  \/ /\ ok /\ node[step.node] = Source(step.label)
     /\ node' = [node EXCEPT ![step.node] = Target(step.label)]
     /\ UNCHANGED faults
  \/ ~ok /\ node[step.node] # Source(step.label) /\ UNCHANGED <<node, faults>>
  \/ /\ ~ok /\ node[step.node] = Source(step.label)
     /\ \/ Fault("node") /\ UNCHANGED node
        \/ Fault("death") /\ node' = [node EXCEPT ![step.node] = "finalized"]

Reply(job, ok) ==
  lifecycleCalls' =
    {IF c.token = job.token
       THEN [c EXCEPT !.answer = IF ok THEN "ok" ELSE "failed"]
       ELSE c : c \in lifecycleCalls}

Stray(job) == stray' = (stray \/ job.generation # generation)

\* Nav2's lifecycle manager: commands one at a time, one node at a time; the
\* first failing node aborts the command.
ManagerStep ==
  /\ manager # <<>>
  /\ LET job == Head(manager)
         last == job.position = PlanLength(job.command)
     IN \E ok \in BOOLEAN :
          /\ Transit(PlanStep(job.command, job.position), ok)
          /\ Stray(job)
          /\ IF ok /\ ~last
               THEN /\ manager' = <<[job EXCEPT !.position = @ + 1]>>
                                    \o Tail(manager)
                    /\ UNCHANGED lifecycleCalls
               ELSE /\ manager' = Tail(manager)
                    /\ Reply(job, ok)
  /\ UNCHANGED <<gateVars, mapReceived, mapCalls, mapNode, stateCalls, changes,
                 serviceCalls, up, ready, duplicate, effects>>

ChangeStep ==
  /\ \E c \in changes, ok \in BOOLEAN :
       /\ Transit(c.step, ok)
       /\ Stray(c)
       /\ changes' = changes \ {c}
       /\ Reply(c, ok)
  /\ UNCHANGED <<gateVars, mapReceived, mapCalls, mapNode, stateCalls, manager,
                 serviceCalls, up, ready, duplicate, effects>>

-------------------------------------------------------------------------------
StateAnswer ==
  \E c \in stateCalls : StateQueryDone(c) \/ StateQueryFailed(c)
LifecycleAnswer == \E c \in lifecycleCalls : LifecycleDone(c)
ServiceAnswer == \E c \in serviceCalls : RecoveryServiceDone(c)

Environment == BackoffElapses \/ DeadlinePasses \/ Inputs \/ MapPublished
               \/ MapServe \/ RecoveryServe \/ StateServe \/ ManagerStep
               \/ ChangeStep

\* Once the fatal error is raised the gate's process has exited.
Next == /\ ~raised
        /\ \/ EpochEvent \/ Tick \/ StateAnswer \/ LifecycleAnswer
           \/ MapAnswer \/ ServiceAnswer \/ Environment

Spec == Init /\ [][Next]_vars

-------------------------------------------------------------------------------
(* Fairness.  The steady-clock timer fires every check_period and wall time *)
(* passes: that is all the gate may count on.  In a cooperative environment *)
(* every call is served and answered in the end.  PatientSpec says nothing  *)
(* of the deadline: it may elapse at any moment, late or never, as it does  *)
(* for the timeouts an operator may choose.                                 *)
TimerFairness == WF_vars(~raised /\ Tick) /\ WF_vars(~raised /\ BackoffElapses)
TimedSpec == Spec /\ TimerFairness /\ WF_vars(~raised /\ DeadlinePasses)
Cooperation ==
  /\ WF_vars(~raised /\ DataReady /\ Inputs)
  /\ WF_vars(~raised /\ ServiceAppears /\ Inputs)
  /\ WF_vars(~raised /\ StateServe) /\ WF_vars(~raised /\ ManagerStep)
  /\ WF_vars(~raised /\ ChangeStep) /\ WF_vars(~raised /\ RecoveryServe)
  /\ WF_vars(~raised /\ MapServe) /\ WF_vars(~raised /\ MapPublished)
  /\ WF_vars(~raised /\ StateAnswer) /\ WF_vars(~raised /\ LifecycleAnswer)
  /\ WF_vars(~raised /\ MapAnswer) /\ WF_vars(~raised /\ ServiceAnswer)
PatientSpec == Spec /\ TimerFairness /\ Cooperation

-------------------------------------------------------------------------------
(* Properties.                                                              *)

Tokens == [kind : {"manager", "change"}, id : Ids]
Steps == [node : Node, label : {"configure", "activate", "deactivate"}]
Answers == {"none", "ok", "failed"}
Queries == [context : Contexts \cup {"none"}, pending : SUBSET Node,
            serial : Ids \cup {0}, mixed : BOOLEAN,
            states : [Node -> LifecycleStates]]
StateCalls == [node : Node, generation : Nat, serial : Ids,
               answer : LifecycleStates \cup {"none"}]
LifecycleCalls == [token : Tokens, generation : Nat, context : Contexts,
                   answer : Answers]
Commands == [command : {"startup", "resume", "pause"}, token : Tokens,
             generation : Nat, position : Nat \ {0}]
Changes == [step : Steps, token : Tokens, generation : Nat]
ServiceCalls == [id : Ids, generation : Nat, stage : DOMAIN NextStage,
                 answer : Answers]
MapCalls == [id : Ids, generation : Nat,
             label : {"get_state", "configure", "activate"},
             answer : LifecycleStates \cup {"none", "ok", "failed"}]

\* The type of every variable; what a decision may change comes first.
DecisionTypes ==
  /\ activated \in BOOLEAN /\ stage \in Stages \cup {"none"}
  /\ verifying \subseteq Contexts
  /\ attempts \in Nat /\ normalizationAttempts \in Nat /\ stageAttempts \in Nat
  /\ backoff \in BOOLEAN /\ fatal \in BOOLEAN
  /\ request \in Tokens \cup {NoRequest} /\ service \in Ids \cup {0}
  /\ lifecycleCalls \subseteq LifecycleCalls /\ manager \in Seq(Commands)
  /\ changes \subseteq Changes /\ effects \subseteq Effects
TypeOK ==
  /\ DecisionTypes
  /\ generation \in Nat /\ query \in Queries
  /\ raised \in BOOLEAN /\ late \in BOOLEAN
  /\ mapOp \in Ids \cup {0} /\ mapAttempts \in Nat
  /\ mapBackoff \in BOOLEAN /\ mapReceived \in BOOLEAN
  /\ mapCalls \subseteq MapCalls /\ mapNode \in LifecycleStates
  /\ stateCalls \subseteq StateCalls /\ serviceCalls \subseteq ServiceCalls
  /\ node \in [Node -> LifecycleStates]
  /\ up \subseteq Services /\ ready \in BOOLEAN /\ duplicate \in BOOLEAN
  /\ faults \in Nat /\ stray \in BOOLEAN

\* The gate never has two lifecycle requests of one generation outstanding,
\* never snapshots while one is, and never waits for a request that nothing
\* will answer: the reservation made under _state_query_lock matches exactly
\* one request on its way ("otherwise the wall timer can start a second
\* snapshot and issue a duplicate lifecycle command", activation_gate.py).
OneCommandOutstanding ==
  LET current == {c \in lifecycleCalls : c.generation = generation} IN
  /\ \A c, d \in current : c = d
  /\ RequestInFlight <=> current # {}
  /\ \A c \in current : c.token = request
  /\ QueryInFlight => ~RequestInFlight

\* _send_manager_command counts an attempt without asking can_retry.  The
\* budget holds nevertheless: no command beyond max_attempts is ever on its
\* way, and an exhausted budget leaves the gate verifying a success or fatal.
CommandBudget ==
  /\ request.kind = "manager" => attempts <= MaxAttempts
  /\ attempts <= MaxAttempts + 1
  /\ attempts > MaxAttempts => fatal

\* What a recovery owes before the stack is up again.
RecoverySteps == Effects \ (IF InitialPoseSource = "rviz" THEN {"reseed"} ELSE {})

\* A recovery ends active only if, since the last epoch event, goals were
\* cancelled, the nodes were seen paused, both costmaps were cleared, the pose
\* was reseeded (auto) and readiness was observed: the effects count when the
\* service performs them, so a late answer of an earlier epoch does not do.
RecoveryIsComplete ==
  [][Recovering /\ activated' => RecoverySteps \subseteq effects]_vars

\* A callback of an older generation changes nothing in the gate
\* ("an old future cannot advance the new epoch", docs/interfaces.md).
StaleAnswersInert ==
  [][LET handled == (stateCalls \ stateCalls')
                    \cup (lifecycleCalls \ lifecycleCalls')
                    \cup (serviceCalls \ serviceCalls')
                    \cup (mapCalls \ mapCalls')
     IN \A c \in handled : c.generation # generation => UNCHANGED gateVars]_vars

\* While costmaps are cleared and the pose is reseeded no node is active,
\* unless a command of an earlier generation was still moving nodes.
PausedWhileRebuilding ==
  stage \in {"clear_global", "clear_local", "reseed", "waiting_readiness"}
    => stray \/ \A n \in DOMAIN node : node[n] # "active"

\* The gate implements the contract it gives the stack: no step of a recovery
\* is skipped, repeated or reordered whatever answers arrive and when, and the
\* timer alone takes every start and every recovery to active or to fatal.
RecoveryOrder == <<"cancel_goal", "pause", "clear_global", "clear_local",
                   "reseed", "waiting_readiness">>
StepsPassed == CASE stage = "cancel_goal" -> 0
                 [] stage \in {"pause_query", "pause_verify"} -> 1
                 [] stage = "clear_global" -> 2
                 [] stage = "clear_local" -> 3
                 [] stage = "reseed" -> 4
                 [] stage = "waiting_readiness" -> 5
                 [] OTHER -> 6
Contract == INSTANCE RecoveryContract WITH
  Steps <- RecoveryOrder,
  mode  <- IF raised THEN "failed" ELSE IF activated THEN "serving"
           ELSE IF Recovering THEN "recovering" ELSE "starting",
  todo  <- SubSeq(RecoveryOrder, StepsPassed + 1, 6)
ImplementsContract == Contract!Spec

\* docs/interfaces.md, "If a manager command completes only partially, the
\* gate normalizes the mixed stable state in dependency order [...], then
\* verifies the full snapshot again" and "use at most three attempts": a
\* snapshot of a stable mixture leads to a request or to a counted failure.
MixtureIsNormalized ==
  [][\A c \in stateCalls \ stateCalls' :
       LET seen == [query.states EXCEPT ![c.node] = c.answer] IN
       /\ Counted(c) /\ query.pending = {c.node}
       /\ c.answer # "none" /\ LifecycleDecision(seen) = "normalize"
       => \/ request' # NoRequest
          \/ attempts' > attempts
          \/ normalizationAttempts' > normalizationAttempts]_vars

\* Whatever the reset interrupts, and whichever recovery service fails within
\* its retries, the stack ends up active for good, unless the deadline elapses
\* or a command the reset could not recall went on moving nodes (it can use up
\* every normalization).
EndsActive ==
  [](~stray /\ ~late)
    => <>[](activated /\ \A n \in Node : node[n] = "active")

\* docs/interfaces.md, "After a successful lifecycle STARTUP [...] on reset it
\* cancels active navigation, pauses managed nodes, clears [...]": an epoch
\* event that finds every node active starts a recovery.
ResetAfterStartupRecovers ==
  [][generation' # generation /\ (\A n \in Node : node[n] = "active")
       => stage' = "cancel_goal"]_vars

\* docs/interfaces.md, "Before every transition the gate atomically snapshots
\* all six managed Nav2 states": the states of a snapshot answer one query.
SnapshotIsOneQuery == ~query.mixed
=============================================================================
