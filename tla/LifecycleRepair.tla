---------------------------- MODULE LifecycleRepair ----------------------------
(***************************************************************************)
(* The loop the gate runs with the decisions of LifecyclePolicy, without   *)
(* its retries, resets and races: snapshot every node, ask the policy, and *)
(* either let the lifecycle manager run a command node by node or repair   *)
(* one node of a mixed snapshot.  A failing node leaves a command half     *)
(* done.  target is what the context wants: "active" for activation and    *)
(* recovery_resume, "inactive" for recovery_pause.                         *)
(***************************************************************************)
EXTENDS LifecyclePolicy

CONSTANT MaxFailures   \* bound: transitions that are refused

ASSUME MaxFailuresAssumption == MaxFailures \in Nat

VARIABLES states,     \* lifecycle label of every managed node
          target,     \* "active" or "inactive"
          command,    \* the manager command being executed, or "none"
          position,   \* the plan step it is at
          failures

vars == <<states, target, command, position, failures>>

Init ==
  /\ states \in [Node -> StableStates]
  /\ target \in {"active", "inactive"}
  /\ command = "none" /\ position = 1 /\ failures = 0

Move(step) == states' = [states EXCEPT ![step.node] = Target(step.label)]

Refuse == failures < MaxFailures /\ failures' = failures + 1 /\ UNCHANGED states

\* The manager command a uniform snapshot asks for in this context.
Command(decision) ==
  CASE target = "active" /\ decision \in {"startup", "resume"} -> decision
    [] target = "inactive" /\ decision = "already_active" -> "pause"
    [] OTHER -> "none"

SendCommand ==
  /\ command = "none"
  /\ LET next == Command(LifecycleDecision(states)) IN
       next # "none" /\ command' = next
  /\ position' = 1
  /\ UNCHANGED <<states, target, failures>>

\* Nav2's lifecycle manager (external): the first refusing node aborts.
ManagerStep ==
  /\ command # "none"
  /\ LET step == PlanStep(command, position)
         last == position = PlanLength(command)
     IN \/ /\ states[step.node] = Source(step.label)
           /\ Move(step) /\ UNCHANGED failures
           /\ IF last THEN command' = "none" /\ position' = 1
                      ELSE position' = position + 1 /\ UNCHANGED command
        \/ Refuse /\ command' = "none" /\ position' = 1
  /\ UNCHANGED target

NormalizeStep ==
  /\ command = "none"
  /\ LifecycleDecision(states) = "normalize"
  /\ LET step == NormalizationTransition(states, target) IN
       /\ step # NoTransition
       /\ (Move(step) /\ UNCHANGED failures) \/ Refuse
  /\ UNCHANGED <<target, command, position>>

Next == SendCommand \/ ManagerStep \/ NormalizeStep

Spec == Init /\ [][Next]_vars /\ WF_vars(Next)

-------------------------------------------------------------------------------

\* Whatever is half done when it starts, the repair keeps the dependency order
\* ("activate/configure forward and deactivate in reverse", docs/interfaces.md):
\* a node is activated only above active nodes, deactivated only below
\* inactive ones, by a command as well as by a single repair step.
DependencyOrder ==
  [][\A n \in Node :
       /\ (states[n] # "active" /\ states'[n] = "active")
            => \A m \in 1..(n - 1) : states[m] = "active"
       /\ (states[n] = "active" /\ states'[n] # "active")
            => \A m \in (n + 1)..N : states[m] # "active"]_vars

\* Every mixture is repaired: all nodes end up active, or none does.
Repaired ==
  <>[](IF target = "active" THEN \A n \in Node : states[n] = "active"
                            ELSE \A n \in Node : states[n] # "active")
=============================================================================
