--------------------------- MODULE LifecyclePolicy ---------------------------
(***************************************************************************)
(* The pure lifecycle decisions of Nav2 bringup                            *)
(* (robot_bringup/lifecycle_policy.py).  The managed nodes are 1..N in the *)
(* order of the gate's managed_nodes list: a smaller number is started     *)
(* first.  A snapshot is a function from the nodes to lifecycle labels.    *)
(***************************************************************************)
EXTENDS Naturals

CONSTANTS N,            \* number of managed nodes (7 in DEFAULT_MANAGED_NODES)
          MaxAttempts   \* RetryPolicy.max_attempts

ASSUME NAssumption == N \in Nat \ {0}
ASSUME MaxAttemptsAssumption == MaxAttempts \in Nat \ {0}

Node == 1..N

StableStates == {"unconfigured", "inactive", "active"}
TransitionalStates ==
  {"configuring", "activating", "deactivating", "cleaningup", "shuttingdown"}
TerminalStates == {"finalized", "errorprocessing", "unknown"}
LifecycleStates == StableStates \cup TransitionalStates \cup TerminalStates

\* Mutant of LifecycleDecision: any inactive node makes the snapshot inactive.
LifecycleDecisionAnyInactive(states) ==
  LET values == {states[n] : n \in Node} IN
  IF values \cap TerminalStates # {} THEN "fail"
  ELSE IF values \cap TransitionalStates # {} THEN "wait"
  ELSE IF values = {"unconfigured"} THEN "startup"
  ELSE IF "inactive" \in values THEN "resume"
  ELSE IF values = {"active"} THEN "already_active"
  ELSE "normalize"

(* lifecycle_decision: one manager-level action for a complete snapshot.   *)
(* The order of the tests is the code's: a terminal label wins over a      *)
(* transitional one, and that over any mix of stable ones.                 *)
LifecycleDecision(states) ==
  LET values == {states[n] : n \in Node} IN
  IF values \cap TerminalStates # {} THEN "fail"
  ELSE IF values \cap TransitionalStates # {} THEN "wait"
  ELSE IF values = {"unconfigured"} THEN "startup"
  ELSE IF values = {"inactive"} THEN "resume"
  ELSE IF values = {"active"} THEN "already_active"
  ELSE "normalize"

NoTransition == [node |-> 0, label |-> "none"]

\* Mutant of StopStep: the scan is not reversed.
StopStepForwards(states) ==
  LET todo == {n \in Node : states[n] = "active"} IN
  IF todo = {} THEN NoTransition
  ELSE [node  |-> CHOOSE n \in todo : \A m \in todo : n <= m,
        label |-> "deactivate"]

\* Mutant of StartStep: a configured node counts as started.
StartStepConfiguresOnly(states) ==
  LET todo == {n \in Node : states[n] = "unconfigured"} IN
  IF todo = {} THEN NoTransition
  ELSE [node  |-> CHOOSE n \in todo : \A m \in todo : n <= m,
        label |-> "configure"]

(* normalization_transition: the next per-node repair step of a snapshot   *)
(* of stable labels, last node first towards inactive, first node first    *)
(* towards active, NoTransition (the code's None) when the scan finds      *)
(* nothing to do.                                                          *)
StopStep(states) ==
  LET todo == {n \in Node : states[n] = "active"} IN
  IF todo = {} THEN NoTransition
  ELSE [node  |-> CHOOSE n \in todo : \A m \in todo : m <= n,
        label |-> "deactivate"]

StartStep(states) ==
  LET todo  == {n \in Node : states[n] # "active"}
      first == CHOOSE n \in todo : \A m \in todo : n <= m
  IN IF todo = {} THEN NoTransition
     ELSE [node  |-> first,
           label |-> IF states[first] = "unconfigured" THEN "configure"
                                                       ELSE "activate"]

NormalizationTransition(states, target) ==
  IF target = "inactive" THEN StopStep(states) ELSE StartStep(states)

\* Mutant of CanRetry: one attempt too many.
CanRetryOnceMore(attemptsMade) == attemptsMade <= MaxAttempts

(* RetryPolicy.can_retry *)
CanRetry(attemptsMade) == attemptsMade < MaxAttempts

(***************************************************************************)
(* The managed nodes themselves (external): what a change_state request    *)
(* does to the label of the node that serves it.                           *)
(***************************************************************************)
Source(label) == CASE label = "configure" -> "unconfigured"
                   [] label = "activate" -> "inactive"
                   [] label = "deactivate" -> "active"

Target(label) == CASE label = "configure" -> "inactive"
                   [] label = "activate" -> "active"
                   [] label = "deactivate" -> "inactive"

During(label) == CASE label = "configure" -> "configuring"
                   [] label = "activate" -> "activating"
                   [] label = "deactivate" -> "deactivating"

(* The per-node requests Nav2's lifecycle manager sends for one command,   *)
(* as a function of the position: STARTUP configures every node and then   *)
(* activates every node, RESUME activates in order, PAUSE deactivates in   *)
(* reverse order.                                                          *)
PlanLength(command) == IF command = "startup" THEN 2 * N ELSE N

PlanStep(command, i) ==
  CASE command = "startup" ->
         [node  |-> IF i <= N THEN i ELSE i - N,
          label |-> IF i <= N THEN "configure" ELSE "activate"]
    [] command = "resume" -> [node |-> i, label |-> "activate"]
    [] command = "pause"  -> [node |-> N + 1 - i, label |-> "deactivate"]
=============================================================================
