---------------------------- MODULE OrderedShutdown ----------------------------
(***************************************************************************)
(* The shutdown of the lifecycle managers in their required order          *)
(* (robot_bringup/ordered_shutdown.py) under one global deadline.  Every   *)
(* step may use what is left of the budget, so a request that is given up  *)
(* has used all of it.  A manager whose request was given up or cancelled  *)
(* may still be carrying it out.                                           *)
(***************************************************************************)
EXTENDS Integers

CONSTANTS Steps,    \* the number of shutdown_steps(operation), in order
          Budget    \* timeout_s

VARIABLES
  stepOf,     \* the step that runs, or Steps + 1
  stage,      \* service: wait_for_service, request: call in flight, done
  budget,     \* time left to the global deadline
  stepBudget, \* time left to the deadline of the step
  overall,    \* overall
  service     \* external, per step: absent, idle, working, finished, refused

shutdownVars == <<stepOf, stage, budget, stepBudget, overall, service>>

Init ==
  /\ stepOf = 1 /\ stage = "service" /\ budget = Budget /\ stepBudget = Budget /\ overall = TRUE
  /\ service \in [1..Steps -> {"absent", "idle"}]

\* Mutant of NextStep: every step gets a budget of its own, and a step that
\* failed is followed by the next one.
NextStepOwnBudget(success) ==
  /\ stepBudget' = Budget
  /\ overall' = (success /\ overall)
  /\ stepOf' = stepOf + 1
  /\ stage' = IF stepOf = Steps THEN "done" ELSE "service"

\* Mutant of NextStep: the result of the last step counts.
NextStepLastResult(success) ==
  /\ stepBudget' = budget
  /\ stepOf' = stepOf + 1 /\ overall' = success
  /\ stage' = IF stepOf = Steps \/ budget = 0 THEN "done" ELSE "service"

\* The loop of run_ordered_shutdown after a step: the next one, unless the
\* global deadline is exhausted.
NextStep(success) ==
  /\ stepBudget' = budget
  /\ stepOf' = stepOf + 1
  /\ stage' = IF stepOf = Steps \/ budget = 0 THEN "done" ELSE "service"
  /\ overall' = (success /\ overall /\ (stepOf = Steps \/ budget > 0))

\* wait_for_service: found in time and with time left, the request is sent.
ServiceFound ==
  /\ stage = "service" /\ service[stepOf] # "absent" /\ stepBudget > 0
  /\ stage' = "request" /\ service' = [service EXCEPT ![stepOf] = "working"]
  /\ UNCHANGED <<stepOf, budget, stepBudget, overall>>

\* The service is not there, or the request is not answered, in time: the
\* future is cancelled, the manager is not.
StepTimesOut ==
  /\ stage \in {"service", "request"} /\ stepBudget = 0
  /\ NextStep(FALSE) /\ UNCHANGED <<budget, service>>

\* The request is answered or raises.
StepAnswered ==
  /\ stage = "request" /\ service[stepOf] \in {"finished", "refused"}
  /\ NextStep(service[stepOf] = "finished") /\ UNCHANGED <<budget, service>>

\* External: a manager carries the request out or refuses it, at any time.
ManagerAnswers(s, answer) ==
  /\ service[s] = "working" /\ service' = [service EXCEPT ![s] = answer]
  /\ UNCHANGED <<stepOf, stage, budget, stepBudget, overall>>

ManagerAppears(s) ==
  /\ service[s] = "absent" /\ service' = [service EXCEPT ![s] = "idle"]
  /\ UNCHANGED <<stepOf, stage, budget, stepBudget, overall>>

Left(t) == IF t > 0 THEN t - 1 ELSE 0

TimePasses ==
  /\ stage # "done" /\ stepBudget > 0
  /\ budget' = Left(budget) /\ stepBudget' = Left(stepBudget)
  /\ UNCHANGED <<stepOf, stage, overall, service>>

Next ==
  \/ ServiceFound \/ StepTimesOut \/ StepAnswered \/ TimePasses
  \/ \E s \in 1..Steps, a \in {"finished", "refused"} : ManagerAnswers(s, a)
  \/ \E s \in 1..Steps : ManagerAppears(s)

Spec == Init /\ [][Next]_shutdownVars

-------------------------------------------------------------------------------
(* Properties *)

\* The order: no manager is asked to shut down while an earlier one is still
\* carrying out its request, although a request can be given up.
StrictOrder ==
  [][\A s \in 2..Steps :
       service[s] # "working" /\ service'[s] = "working"
         => \A p \in 1..(s - 1) : service[p] # "working"]_shutdownVars

\* The exit status: success means that every manager did shut down.
TruthfulResult ==
  stage = "done" /\ overall => \A s \in 1..Steps : service[s] = "finished"
=============================================================================
