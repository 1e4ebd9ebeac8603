------------------------------ MODULE TrialRunner ------------------------------
(***************************************************************************)
(* The process that runs the trials of a scenario one after another        *)
(* (robot_experiments/experiment_runner.py, run_all): it resets the        *)
(* simulation, opens a directory of evidence, records that the trial is    *)
(* dispatched, sends the goals of its legs and writes the evidence.  It    *)
(* records evidence and resumes: a directory of an earlier process is      *)
(* counted if it is complete and moved aside if it is not.                 *)
(*                                                                         *)
(* A file is written by opening it, which truncates it, and writing it at  *)
(* once, so a crash leaves the file of the moment as it was, torn or       *)
(* written; a torn list of checksums may end between two of its lines.     *)
(* The stages of a reset, which only delay or end the process, are one     *)
(* action; so are the files of samples and snapshots.                      *)
(***************************************************************************)
EXTENDS Naturals, FiniteSets

CONSTANTS Trials,   \* length of the run matrix
          Legs,     \* length of the route of the scenario
          MaxDirs   \* bound: directories of evidence made

\* What is written at the end of a trial, in this order: "draft", "gated" and
\* "verified" are contents of run_summary.json, "inventory" and "sealed" of
\* checksums.sha256.  The other files come before the draft, or go with it.
Files == <<"draft", "gated", "inventory", "verified", "sealed">>
Written(file) == CHOOSE i \in 1..5 : Files[i] = file

VARIABLES
  guided,    \* navigation_execution_backend = "route_guided"
  failStop,  \* fail_stop and require_successful_resume
  phase,     \* where run_all is, "off" when there is no process
  trial,     \* run_index
  leg,
  fault,     \* runner_error: none, error, isolation
  arrived,   \* nav2_succeeded
  evidence,  \* directories under their own name
  aside,     \* directories renamed to .incomplete-<UTC>
  made,      \* directories made so far, the identity of the next
  live,      \* external: directories with a goal at Nav2 that is not terminal
  answer     \* external: what is known of the goal of the leg

runnerVars == <<guided, failStop, phase, trial, leg, fault, arrived, evidence, aside, made, live,
                answer>>
config == <<guided, failStop>>
progress == <<trial, leg, fault, arrived>>
disk == <<evidence, aside, made>>
nav2 == <<live, answer>>

RunnerInit ==
  /\ guided \in BOOLEAN /\ failStop \in BOOLEAN
  /\ phase = "off" /\ trial = 1 /\ leg = 1 /\ fault = "none" /\ arrived = FALSE
  /\ evidence = {} /\ aside = {} /\ made = 0 /\ live = {} /\ answer = "none"

Of(t) == {d \in evidence : d.trial = t}
Current == CHOOSE d \in evidence : d.id = made

\* The directory of the trial with some fields changed.
Update(d) == evidence' = (evidence \ {Current}) \cup {d} /\ UNCHANGED <<aside, made>>

\* The process ends and its memory is lost.
Exit ==
  /\ phase' = "off" /\ trial' = 1 /\ leg' = 1 /\ fault' = "none" /\ arrived' = FALSE
  /\ answer' = "none"

-------------------------------------------------------------------------------
(* Resuming *)

\* Mutant of ChecksumsAreVerified: the claim of the summary is trusted.
ChecksumsTrusted(d) == TRUE

\* run_summary.json says checksums_verified; checksums.sha256 is recomputed.
SaysVerified(d) == d.step >= Written("verified")
\* Only the lines that are there are looked at.
ChecksumsAreVerified(d) ==
  \/ d.step = 5
  \/ d.step = Written("inventory") /\ ~d.torn
  \/ d.step = Written("verified") /\ d.cutAtLine

\* _completed_resume_manifest
Completed(d) ==
  /\ d.complete /\ SaysVerified(d) /\ ChecksumsAreVerified(d)
  /\ failStop => d.result = "success"

\* A complete trial is not run again.
SkipTrial ==
  /\ phase = "select" /\ trial <= Trials
  /\ \E d \in Of(trial) : Completed(d)
  /\ trial' = trial + 1
  /\ UNCHANGED <<config, phase, leg, fault, arrived, disk, nav2>>

\* Mutant of BeginTrial: the directory is used again.
BeginTrialInPlace ==
  /\ phase = "select" /\ trial <= Trials
  /\ \A d \in Of(trial) : ~Completed(d)
  /\ evidence' = evidence \ Of(trial) /\ aside' = aside /\ made' = made
  /\ phase' = "reset" /\ leg' = 1 /\ fault' = "none" /\ arrived' = FALSE /\ answer' = "none"
  /\ UNCHANGED <<config, trial, live>>

\* _quarantine_incomplete_evidence, if there is something to move aside.
BeginTrial ==
  /\ phase = "select" /\ trial <= Trials
  /\ \A d \in Of(trial) : ~Completed(d)
  /\ evidence' = evidence \ Of(trial) /\ aside' = aside \cup Of(trial) /\ made' = made
  /\ phase' = "reset" /\ leg' = 1 /\ fault' = "none" /\ arrived' = FALSE /\ answer' = "none"
  /\ UNCHANGED <<config, trial, live>>

AllTrialsDone ==
  /\ phase = "select" /\ trial > Trials
  /\ Exit /\ UNCHANGED <<config, disk, live>>

-------------------------------------------------------------------------------
(* Before the goal *)

\* run_all up to the loop.
Verified ==
  /\ phase = "verify" /\ phase' = "select" /\ trial' = 1
  /\ UNCHANGED <<config, leg, fault, arrived, disk, nav2>>

\* Every fault before there is a directory ends the process.
PreflightFault ==
  /\ phase \in {"verify", "reset"}
  /\ Exit /\ UNCHANGED <<config, disk, live>>

\* _reset_simulation: goals left over are cancelled, which Nav2 acknowledges
\* before they are terminal.
ResetSimulation ==
  /\ phase = "reset" /\ phase' = "record"
  /\ UNCHANGED <<config, progress, disk, nav2>>

\* _begin_run_evidence
BeginRunEvidence ==
  /\ phase = "record" /\ made < MaxDirs
  /\ made' = made + 1
  /\ evidence' = evidence \cup
       {[id |-> made', trial |-> trial, receipt |-> "absent", step |-> 0, torn |-> FALSE,
         cutAtLine |-> FALSE, result |-> "unknown", complete |-> FALSE, allLegs |-> FALSE, good |-> FALSE]}
  /\ phase' = "dispatch"
  /\ UNCHANGED <<config, progress, aside, nav2>>

Fail(kind) == fault' = kind /\ phase' = "build" /\ UNCHANGED <<config, trial, leg, arrived>>

\* No Nav2 server, or no graph or coordinator.
BackendUnavailable ==
  /\ phase = "dispatch" /\ Fail("error") /\ UNCHANGED <<disk, nav2>>

\* Mutant of RecordTrialDispatched: it is left for later.
RecordNothing ==
  /\ phase = "dispatch" /\ phase' = "send"
  /\ UNCHANGED <<config, progress, disk, nav2>>

\* _record_trial_dispatched, once per trial.
RecordTrialDispatched ==
  /\ phase = "dispatch"
  /\ Update([Current EXCEPT !.receipt = "written"])
  /\ phase' = "send"
  /\ UNCHANGED <<config, progress, nav2>>

\* The receipt cannot be written: an error of the trial, which goes on without
\* a goal.
ReceiptFails ==
  /\ phase = "dispatch"
  /\ Update([Current EXCEPT !.receipt = "torn"])
  /\ Fail("error") /\ UNCHANGED nav2

-------------------------------------------------------------------------------
(* A leg *)

SendGoal ==
  /\ phase = "send" /\ phase' = "accept"
  /\ live' = live \cup {made} /\ answer' = "none"
  /\ UNCHANGED <<config, progress, disk>>

Finish(success) ==
  /\ phase' = "build" /\ arrived' = success /\ UNCHANGED <<config, trial, leg, fault>>

\* No acknowledgement, or no canonical route, in time: an exception on the
\* direct backend, a leg that was not accepted on the guided one.
AcceptTimeout ==
  /\ phase = "accept" /\ answer = "none"
  /\ IF guided THEN Finish(FALSE) ELSE Fail("error")
  /\ UNCHANGED <<disk, nav2>>

Rejected ==
  /\ phase = "accept" /\ answer = "rejected"
  /\ Finish(FALSE) /\ UNCHANGED <<disk, nav2>>

\* The obstacles of the leg are triggered, or the trigger fails.
Accepted ==
  /\ phase = "accept" /\ answer \in {"accepted", "succeeded", "failed"}
  /\ \/ phase' = "wait" /\ UNCHANGED <<config, progress>>
     \/ Fail("error")
  /\ UNCHANGED <<disk, nav2>>

\* The obstacles of the leg are retired, or that fails.
LegSucceeded ==
  /\ phase = "wait" /\ answer = "succeeded"
  /\ \/ /\ leg < Legs /\ leg' = leg + 1 /\ phase' = "send"
        /\ UNCHANGED <<config, trial, fault, arrived>>
     \/ leg = Legs /\ Finish(TRUE)
     \/ Fail("error")
  /\ UNCHANGED <<disk, nav2>>

LegFailed ==
  /\ phase = "wait" /\ answer = "failed"
  /\ Finish(FALSE) /\ UNCHANGED <<disk, nav2>>

\* The leg or the scenario takes too long, or the guard aborts it.
CancelLeg ==
  /\ phase = "wait" /\ answer \notin {"succeeded", "failed"}
  /\ phase' = "cancel" /\ UNCHANGED <<config, progress, disk, nav2>>

\* The goal becomes terminal after the cancel.
LegEnded ==
  /\ phase = "cancel" /\ answer \in {"succeeded", "failed"}
  /\ Finish(FALSE) /\ UNCHANGED <<disk, nav2>>

\* Mutant of CancelLost: nobody waits for the end of the goal.
CancelForgotten ==
  /\ phase = "cancel"
  /\ Finish(FALSE)
  /\ UNCHANGED <<disk, nav2>>

\* No acknowledgement of the cancel or no end of the goal in time: the direct
\* backend gives up the isolation of the trials, the guided one waits two
\* seconds for the end and goes on without it.
CancelLost ==
  /\ phase = "cancel"
  /\ IF guided THEN Fail("error") \/ Finish(FALSE) ELSE Fail("isolation")
  /\ UNCHANGED <<disk, nav2>>

-------------------------------------------------------------------------------
(* The evidence *)

\* _build_manifest and the judgements that go into the summary: a trial that
\* succeeds has arrived without a fault, one that is good also has all its
\* legs, no collision, all its data and has passed the metric gate.  What was
\* known of the legs is forgotten.
BuildManifest(success, complete, good) ==
  /\ phase = "build"
  /\ success => arrived /\ fault = "none"
  /\ complete => Current.receipt # "absent"
  /\ good => success /\ complete
  /\ Update([Current EXCEPT !.result = IF success THEN "success" ELSE "failure",
                            !.complete = complete, !.good = good,
                            !.allLegs = leg = Legs /\ fault = "none"])
  /\ phase' = "write" /\ leg' = 1 /\ arrived' = FALSE /\ answer' = "none"
  /\ UNCHANGED <<config, trial, fault, live>>

\* _write_run_evidence and _finalize_checksums, file by file.
WriteFile ==
  /\ phase = "write" /\ Current.step < 5
  /\ Update([Current EXCEPT !.step = @ + 1])
  /\ UNCHANGED <<config, phase, progress, nav2>>

\* The next trial, unless isolation is lost or the campaign stops at a failure.
EndTrial ==
  /\ phase = "write" /\ Current.step = 5
  /\ IF fault = "isolation" \/ (failStop /\ ~Current.good)
     THEN Exit
     ELSE phase' = "select" /\ trial' = trial + 1 /\ UNCHANGED <<leg, fault, arrived, answer>>
  /\ UNCHANGED <<config, disk, live>>

\* A full disk, a kill or a shutdown: the process ends where it is.
Crash(torn, atLine) ==
  /\ phase # "off" /\ Exit
  /\ atLine => torn /\ phase = "write" /\ Current.step = Written("verified")
  /\ CASE torn /\ phase = "write" /\ Current.step < 5 ->
            Update([Current EXCEPT !.torn = TRUE, !.cutAtLine = atLine])
       [] torn /\ phase = "dispatch" -> Update([Current EXCEPT !.receipt = "torn"])
       [] ~torn -> UNCHANGED disk
       [] OTHER -> FALSE
  /\ UNCHANGED <<config, live>>

-------------------------------------------------------------------------------
(* Nav2, and the coordinator of the guided backend (external) *)

Answer(from, to) == phase \in {"accept", "wait", "cancel"} /\ answer \in from /\ answer' = to

GoalAccepted ==
  /\ Answer({"none"}, "accepted") /\ made \in live
  /\ UNCHANGED <<config, phase, progress, disk, live>>

GoalRejected ==
  /\ Answer({"none"}, "rejected") /\ made \in live /\ live' = live \ {made}
  /\ UNCHANGED <<config, phase, progress, disk>>

GoalEnds(outcome) ==
  /\ Answer({"accepted"}, outcome) /\ made \in live /\ live' = live \ {made}
  /\ UNCHANGED <<config, phase, progress, disk>>

\* A goal the runner no longer waits for.
OldGoalEnds(d) ==
  /\ d \in live /\ (d # made \/ phase \notin {"accept", "wait", "cancel"})
  /\ live' = live \ {d}
  /\ UNCHANGED <<config, phase, progress, disk, answer>>

RunnerNext ==
  \/ Verified \/ PreflightFault \/ SkipTrial \/ BeginTrial \/ AllTrialsDone \/ ResetSimulation
  \/ BeginRunEvidence \/ BackendUnavailable \/ RecordTrialDispatched \/ ReceiptFails
  \/ SendGoal \/ AcceptTimeout \/ Rejected \/ Accepted
  \/ LegSucceeded \/ LegFailed \/ CancelLeg \/ LegEnded \/ CancelLost
  \/ \E success, complete, good \in BOOLEAN : BuildManifest(success, complete, good)
  \/ WriteFile \/ EndTrial
  \/ \E torn, atLine \in BOOLEAN : Crash(torn, atLine)
  \/ GoalAccepted \/ GoalRejected
  \/ \E outcome \in {"succeeded", "failed"} : GoalEnds(outcome)
  \/ \E d \in 1..MaxDirs : OldGoalEnds(d)

-------------------------------------------------------------------------------
(* Properties *)

AllDirectories == evidence \cup aside

\* No trial without a trace: a goal is only ever at Nav2 when the directory of
\* its trial says on disk that it was dispatched, whatever crashed or was moved
\* aside since.
GoalsOnRecord ==
  \A g \in live : \E d \in AllDirectories : d.id = g /\ d.receipt = "written"

\* What _finalize_checksums leaves: the last summary and the checksums of all
\* files, or as many lines of them as were written before the process died.
Sealed(d) == d.step = 5 \/ (d.step = Written("verified") /\ d.cutAtLine)

\* A trial that is not run again has its receipt, its last summary and nothing
\* that contradicts its checksums, whatever write the process died in.
SkippedIsSealed ==
  [][phase = "select" /\ trial' = trial + 1
       => \E d \in Of(trial) : Sealed(d) /\ d.receipt # "absent"]_runnerVars

\* Evidence of an earlier trial or process is never changed or lost, at most
\* moved aside.
EvidenceKept ==
  [][\A d \in AllDirectories :
       d \in evidence' \cup aside' \/ (d.id = made /\ phase # "select")]_runnerVars

\* Isolation on the direct backend: a trial whose evidence reports no fault has
\* no goal at Nav2 when the next one starts.
FaultlessTrialEnded ==
  ~guided /\ phase \in {"build", "write"} /\ fault = "none" => made \notin live
=============================================================================
