----------------------------- MODULE TrialCampaign -----------------------------
(***************************************************************************)
(* The supervisor of a campaign (scripts/run_rivermark_campaign.sh) around *)
(* the trial runner: it starts the runner again, resuming, until all       *)
(* trials are collected, and audits the trials that were dispatched.  An   *)
(* operator may start the script again on the same output.  It uses the    *)
(* guided backend; a runner on the direct one is started by hand, once.    *)
(***************************************************************************)
EXTENDS TrialRunner

CONSTANTS MaxAttempts,  \* max_runner_attempts
          MaxLaunches   \* bound: runners started

VARIABLES
  stage,     \* running, or how the script ended
  attempts,  \* runner_attempt
  launches   \* runners started

campaignVars == <<runnerVars, stage, attempts, launches>>

Init == RunnerInit /\ stage = "launch" /\ attempts = 1 /\ launches = 0

Launch ==
  /\ stage = "launch" /\ launches < MaxLaunches
  /\ stage' = "runner" /\ phase' = "verify" /\ launches' = launches + 1
  /\ UNCHANGED <<config, progress, disk, nav2, attempts>>

\* The summaries and receipts find and rglob see, of either kind of directory.
HasSummary(d) ==
  d.step >= Written("draft") \/ (d.torn /\ d.step + 1 = Written("draft"))
TornSummary(d) ==
  d.torn /\ d.step < 5 /\ Files[d.step + 1] \in {"draft", "gated", "verified"}

\* Mutant of Dispatched: what was moved aside is not audited.
DispatchedHere == {d \in evidence : d.receipt # "absent"}

Dispatched == {d \in AllDirectories : d.receipt # "absent"}

RunCount == Cardinality({d \in AllDirectories : HasSummary(d)})

\* The audit of the dispatched trials.
FailedTrial(d) == ~HasSummary(d) \/ (~TornSummary(d) /\ ~(d.good /\ SaysVerified(d)))
Audit == IF \E d \in Dispatched : FailedTrial(d) THEN 42
         ELSE IF \E d \in Dispatched : TornSummary(d) THEN 1 ELSE 0

\* The contract of the collection at the end.
Collected ==
  /\ RunCount = Trials
  /\ \A d \in AllDirectories : HasSummary(d) =>
       ~TornSummary(d) /\ d.complete /\ SaysVerified(d) /\ d.allLegs

\* The loop after the runner ended.  demo: the simulation still runs.
RunnerEnded(demo) ==
  /\ guided /\ stage = "runner" /\ phase = "off"
  /\ stage' = CASE failStop /\ Audit = 42 -> "stopped"
                [] ~(failStop /\ Audit = 42) /\ Audit # 0 -> "audit"
                [] Audit = 0 /\ RunCount = Trials -> IF Collected THEN "success" ELSE "contract"
                [] Audit = 0 /\ RunCount # Trials /\ ~demo -> "runtime"
                [] Audit = 0 /\ RunCount # Trials /\ demo ->
                     IF attempts = MaxAttempts THEN "exhausted" ELSE "launch"
  /\ attempts' = IF stage' = "launch" THEN attempts + 1 ELSE attempts
  /\ live' = IF stage' = "launch" THEN live ELSE {}
  /\ UNCHANGED <<config, phase, progress, disk, answer, launches>>

\* The script is started again with a new simulation.
StartScript ==
  /\ stage \notin {"launch", "runner", "success"}
  /\ attempts' = 1 /\ stage' = "launch"
  /\ UNCHANGED <<runnerVars, launches>>

Runner == RunnerNext /\ UNCHANGED <<stage, attempts, launches>>

Next == Runner \/ Launch \/ StartScript \/ \E demo \in BOOLEAN : RunnerEnded(demo)

Spec == Init /\ [][Next]_campaignVars

-------------------------------------------------------------------------------
(* Properties *)

\* A campaign that ends with success hides no failed trial, however often
\* processes crashed and scripts were started again.
NoFailureHidden ==
  stage = "success" => \A d \in AllDirectories : d.receipt = "written" => d.good

=============================================================================
