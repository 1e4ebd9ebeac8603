-------------------------- MODULE TrialCampaign_proofs --------------------------
(***************************************************************************)
(* A campaign keeps its evidence: for any matrix of trials, any route, any *)
(* number of attempts and of starts of the script, and a crash after every *)
(* step of every process.                                                  *)
(***************************************************************************)
EXTENDS TrialCampaign, TLAPS

\* Where the runner has a directory open, and where its receipt is on disk.
Sending == {"send", "accept", "wait", "cancel"}
Open == {"dispatch", "build", "write"} \cup Sending

\* A directory, for any number of them.
DirectoryRecord ==
  [id : Nat \ {0}, trial : Nat, receipt : {"absent", "torn", "written"}, step : 0..5,
   torn : BOOLEAN, cutAtLine : BOOLEAN, result : {"unknown", "success", "failure"},
   complete : BOOLEAN, allLegs : BOOLEAN, good : BOOLEAN]

TypeOK ==
  /\ guided \in BOOLEAN /\ failStop \in BOOLEAN
  /\ phase \in {"off", "verify", "select", "reset", "record"} \cup Open
  /\ trial \in Nat \ {0} /\ leg \in Nat /\ fault \in {"none", "error", "isolation"}
  /\ arrived \in BOOLEAN /\ made \in Nat
  /\ answer \in {"none", "rejected", "accepted", "succeeded", "failed"}
  /\ AllDirectories \subseteq DirectoryRecord /\ \A d \in AllDirectories : d.id <= made

\* A number is the name of one directory, which is here or aside.
Distinct ==
  /\ evidence \cap aside = {}
  /\ \A d, e \in AllDirectories : d.id = e.id => d = e

\* The directory of the trial is the last one made, and no goal is sent before
\* its receipt is written.
OpenDirectory ==
  phase \in Open =>
    \E d \in evidence :
      /\ d.id = made /\ d.trial = trial
      /\ phase = "dispatch" => d.receipt = "absent"
      /\ phase \in Sending => d.receipt = "written"

\* A manifest is complete only with a receipt.
CompleteHasReceipt == \A d \in AllDirectories : d.complete => d.receipt # "absent"

\* The goal of the leg is at Nav2 only while its answer is awaited; only the
\* guided backend, and a fault, leave it there.
OwnGoal ==
  /\ phase \in {"dispatch", "send"} => made \notin live
  /\ phase \in {"accept", "wait", "cancel"} /\ answer \in {"rejected", "succeeded", "failed"}
       => made \notin live

RunnerInv ==
  TypeOK /\ Distinct /\ OpenDirectory /\ CompleteHasReceipt /\ GoalsOnRecord /\ OwnGoal
    /\ FaultlessTrialEnded

\* The script waits for the runner it started, and ends with success only when
\* its audit found every trial that was dispatched good.
ScriptInv ==
  /\ stage \in {"launch", "runner", "stopped", "audit", "success", "contract", "runtime",
                "exhausted"}
  /\ stage # "runner" => phase = "off"
  /\ NoFailureHidden

CampaignInv == RunnerInv /\ ScriptInv

-------------------------------------------------------------------------------
(* The evidence *)

\* The directory of the trial is the one of the last number.
LEMMA CurrentIsOpen ==
  ASSUME TypeOK, Distinct, OpenDirectory, phase \in Open
  PROVE  /\ Current \in evidence /\ Current \in DirectoryRecord
         /\ Current.id = made /\ Current.trial = trial
         /\ phase = "dispatch" => Current.receipt = "absent"
         /\ phase \in Sending => Current.receipt = "written"
         /\ \A d \in AllDirectories : d.id = made => d = Current
<1>1. PICK d \in evidence : /\ d.id = made /\ d.trial = trial
                            /\ phase = "dispatch" => d.receipt = "absent"
                            /\ phase \in Sending => d.receipt = "written"
  BY DEF OpenDirectory
<1>2. \A e \in AllDirectories : e.id = made => e = d
  BY <1>1 DEF Distinct, AllDirectories
<1>3. Current = d
  BY <1>1, <1>2 DEF Current, AllDirectories
<1> QED BY <1>1, <1>2, <1>3 DEF TypeOK, AllDirectories

\* An update changes that directory and no other.
LEMMA UpdateChangesCurrent ==
  ASSUME TypeOK, Distinct, OpenDirectory, phase \in Open,
         NEW d \in DirectoryRecord, d.id = Current.id, Update(d)
  PROVE  /\ made' = made /\ aside' = aside
         /\ d \in evidence'
         /\ \A e : e \in evidence' <=> e = d \/ (e \in evidence /\ e.id # made)
         /\ \A e : e \in AllDirectories' <=> e = d \/ (e \in AllDirectories /\ e.id # made)
         /\ Distinct'
         /\ AllDirectories' \subseteq DirectoryRecord
         /\ \A e \in AllDirectories' : e.id <= made'
<1>1. /\ made' = made /\ aside' = aside /\ evidence' = (evidence \ {Current}) \cup {d}
  BY DEF Update
<1>2. /\ Current \in evidence /\ Current.id = made
      /\ \A e \in AllDirectories : e.id = made => e = Current
  BY CurrentIsOpen
<1> HIDE DEF Current
<1>3. /\ \A e : e \in evidence' <=> e = d \/ (e \in evidence /\ e.id # made)
      /\ \A e : e \in aside => e.id # made
  BY <1>1, <1>2 DEF AllDirectories, Distinct
<1>4. \A e : e \in AllDirectories' <=> e = d \/ (e \in AllDirectories /\ e.id # made)
  BY <1>1, <1>3 DEF AllDirectories
<1>5. Distinct'
  BY <1>1, <1>2, <1>3, <1>4 DEF Distinct, AllDirectories
<1> QED BY <1>1, <1>2, <1>3, <1>4, <1>5 DEF TypeOK, AllDirectories

\* Where the evidence is not touched, its part of the invariant stays.
LEMMA SameEvidence ==
  ASSUME RunnerInv, UNCHANGED disk, live' \subseteq live
  PROVE  /\ AllDirectories' = AllDirectories /\ evidence' = evidence /\ made' = made
         /\ Distinct' /\ CompleteHasReceipt' /\ GoalsOnRecord'
         /\ AllDirectories' \subseteq DirectoryRecord /\ \A d \in AllDirectories' : d.id <= made'
BY DEF RunnerInv, TypeOK, Distinct, CompleteHasReceipt, GoalsOnRecord, AllDirectories, disk

\* An update that keeps a written receipt, and gives one to what it completes,
\* keeps its part of the invariant.
LEMMA UpdatedEvidence ==
  ASSUME RunnerInv, phase \in Open, NEW d \in DirectoryRecord, Update(d),
         d.id = Current.id, d.complete => d.receipt # "absent",
         Current.receipt = "written" => d.receipt = "written", live' = live
  PROVE  /\ made' = made /\ d \in evidence'
         /\ Distinct' /\ CompleteHasReceipt' /\ GoalsOnRecord'
         /\ AllDirectories' \subseteq DirectoryRecord /\ \A e \in AllDirectories' : e.id <= made'
<1>1. /\ made' = made /\ d \in evidence' /\ Distinct' /\ AllDirectories' \subseteq DirectoryRecord
      /\ \A e \in AllDirectories' : e.id <= made'
      /\ \A e : e \in AllDirectories' <=> e = d \/ (e \in AllDirectories /\ e.id # made)
  BY UpdateChangesCurrent DEF RunnerInv
<1>2. /\ Current.id = made /\ Current \in evidence
      /\ \A e \in AllDirectories : e.id = made => e = Current
  BY CurrentIsOpen DEF RunnerInv
<1> HIDE DEF Current
<1>3. CompleteHasReceipt'
  BY <1>1 DEF RunnerInv, CompleteHasReceipt
<1>4. GoalsOnRecord'
  BY <1>1, <1>2 DEF RunnerInv, GoalsOnRecord
<1> QED BY <1>1, <1>3, <1>4

\* Only a torn list of checksums is cut at a line.
LEMMA CrashesAre ==
  (\E torn, atLine \in BOOLEAN : Crash(torn, atLine))
    => Crash(FALSE, FALSE) \/ \E atLine \in BOOLEAN : Crash(TRUE, atLine)
<1>1. ~Crash(FALSE, TRUE)
  BY DEF Crash
<1> HIDE DEF Crash
<1> QED BY <1>1

LEMMA RunnerStep == RunnerInv /\ [RunnerNext]_runnerVars => RunnerInv'
<1> SUFFICES ASSUME RunnerInv, [RunnerNext]_runnerVars PROVE RunnerInv'
  OBVIOUS
<1> USE DEF RunnerInv, Open, Sending
\* No directory is touched and no goal is sent.
<1>1. CASE \/ Verified \/ PreflightFault \/ SkipTrial \/ AllTrialsDone \/ ResetSimulation
           \/ BackendUnavailable \/ AcceptTimeout \/ Rejected \/ Accepted \/ LegSucceeded
           \/ LegFailed \/ CancelLeg \/ LegEnded \/ CancelLost \/ EndTrial \/ Crash(FALSE, FALSE)
           \/ GoalAccepted \/ GoalRejected \/ GoalEnds("succeeded") \/ GoalEnds("failed")
           \/ \E d \in 1..MaxDirs : OldGoalEnds(d)
           \/ UNCHANGED runnerVars
  <2> USE DEF Verified, PreflightFault, SkipTrial, AllTrialsDone, ResetSimulation,
              BackendUnavailable, AcceptTimeout, Rejected, Accepted, LegSucceeded, LegFailed,
              CancelLeg, LegEnded, CancelLost, EndTrial, Crash, GoalAccepted, GoalRejected,
              GoalEnds, OldGoalEnds, runnerVars, config, progress, nav2, Exit, Fail, Finish,
              Answer
  <2>1. UNCHANGED disk /\ live' \subseteq live
    BY <1>1 DEF disk
  <2>2. /\ AllDirectories' = AllDirectories /\ evidence' = evidence /\ made' = made
        /\ Distinct' /\ CompleteHasReceipt' /\ GoalsOnRecord'
        /\ AllDirectories' \subseteq DirectoryRecord /\ \A d \in AllDirectories' : d.id <= made'
    BY <2>1, SameEvidence
  <2> HIDE DEF Current, AllDirectories
  <2>3. UNCHANGED config
    BY <1>1
  <2>4. trial' \in Nat \ {0} /\ leg' \in Nat
    BY <1>1 DEF TypeOK
  <2>5. /\ phase' \in {"off", "verify", "select", "reset", "record"} \cup Open
        /\ fault' \in {"none", "error", "isolation"}
        /\ answer' \in {"none", "rejected", "accepted", "succeeded", "failed"}
    BY <1>1 DEF TypeOK
  <2>6. arrived' \in BOOLEAN
    BY <1>1 DEF TypeOK
  <2>7. TypeOK'
    BY <2>2, <2>3, <2>4, <2>5, <2>6 DEF TypeOK
  <2>8. OpenDirectory'
    BY <1>1, <2>2 DEF OpenDirectory
  <2>9. OwnGoal' /\ FaultlessTrialEnded'
    BY <1>1, <2>1, <2>2 DEF TypeOK, OwnGoal, FaultlessTrialEnded
  <2> QED BY <2>2, <2>7, <2>8, <2>9
<1>2. CASE BeginTrial
  <2>1. /\ phase' = "reset" /\ AllDirectories' = AllDirectories /\ evidence' \cap aside' = {}
        /\ made' = made /\ live' = live
    BY <1>2 DEF BeginTrial, AllDirectories, Distinct, Of
  <2>2. Distinct' /\ CompleteHasReceipt' /\ GoalsOnRecord'
    BY <2>1 DEF Distinct, CompleteHasReceipt, GoalsOnRecord
  <2>3. TypeOK'
    BY <1>2, <2>1 DEF TypeOK, BeginTrial, config
  <2> QED BY <2>1, <2>2, <2>3 DEF OpenDirectory, OwnGoal, FaultlessTrialEnded
<1>3. CASE BeginRunEvidence
  <2> DEFINE new == [id |-> made', trial |-> trial, receipt |-> "absent", step |-> 0,
                     torn |-> FALSE, cutAtLine |-> FALSE, result |-> "unknown",
                     complete |-> FALSE, allLegs |-> FALSE, good |-> FALSE]
  <2>1. /\ made' = made + 1 /\ evidence' = evidence \cup {new} /\ aside' = aside
        /\ phase' = "dispatch" /\ live' = live
    BY <1>3 DEF BeginRunEvidence, nav2
  <2>2. new \in DirectoryRecord /\ new.id = made + 1 /\ new.trial = trial
        /\ new.receipt = "absent" /\ ~new.complete
    BY <2>1 DEF TypeOK, DirectoryRecord
  <2>3. \A d \in AllDirectories : d.id \in Nat /\ d.id < made + 1
    BY DEF TypeOK, DirectoryRecord
  <2> HIDE DEF new
  <2>4. \A d : d \in AllDirectories' <=> d = new \/ d \in AllDirectories
    BY <2>1 DEF AllDirectories
  <2>5. \A d : d \in aside => d # new
    BY <2>2, <2>3 DEF AllDirectories
  <2>6. TypeOK'
    <3>1. made + 1 \in Nat /\ \A d \in AllDirectories' : d \in DirectoryRecord /\ d.id <= made + 1
      BY <2>2, <2>3, <2>4 DEF TypeOK
    <3> QED BY <1>3, <2>1, <3>1 DEF TypeOK, BeginRunEvidence, config, progress, nav2
  <2>7. Distinct'
    BY <2>1, <2>2, <2>3, <2>4, <2>5 DEF Distinct
  <2>8. CompleteHasReceipt' /\ GoalsOnRecord'
    BY <2>1, <2>2, <2>4 DEF CompleteHasReceipt, GoalsOnRecord
  <2>9. OpenDirectory'
    <3>1. new \in evidence' /\ trial' = trial
      BY <1>3, <2>1 DEF BeginRunEvidence, progress
    <3> QED BY <2>1, <2>2, <3>1 DEF OpenDirectory
  <2>10. OwnGoal' /\ FaultlessTrialEnded'
    BY <2>1, <2>3 DEF TypeOK, OwnGoal, FaultlessTrialEnded, GoalsOnRecord
  <2> QED BY <2>6, <2>7, <2>8, <2>9, <2>10
<1>4. CASE RecordTrialDispatched
  <2> DEFINE new == [Current EXCEPT !.receipt = "written"]
  <2>1. /\ phase = "dispatch" /\ phase' = "send" /\ Update(new) /\ UNCHANGED <<config, progress, nav2>>
    BY <1>4 DEF RecordTrialDispatched
  <2>2. /\ Current \in DirectoryRecord /\ Current.id = made /\ Current.trial = trial
    BY <2>1, CurrentIsOpen
  <2> HIDE DEF Current
  <2>3. /\ new \in DirectoryRecord /\ new.id = Current.id /\ new.trial = trial
        /\ new.receipt = "written"
    BY <2>2 DEF DirectoryRecord
  <2> HIDE DEF new
  <2>4. /\ made' = made /\ new \in evidence'
        /\ Distinct' /\ CompleteHasReceipt' /\ GoalsOnRecord'
        /\ AllDirectories' \subseteq DirectoryRecord /\ \A e \in AllDirectories' : e.id <= made'
    BY <2>1, <2>2, <2>3, UpdatedEvidence DEF nav2
  <2> QED BY <2>1, <2>2, <2>3, <2>4 DEF TypeOK, OpenDirectory, OwnGoal, FaultlessTrialEnded,
     config, progress, nav2
<1>5. CASE ReceiptFails
  <2> DEFINE new == [Current EXCEPT !.receipt = "torn"]
  <2>1. /\ phase = "dispatch" /\ phase' = "build" /\ fault' = "error" /\ Update(new)
        /\ UNCHANGED <<config, trial, leg, arrived, nav2>>
    BY <1>5 DEF ReceiptFails, Fail
  <2>2. /\ Current \in DirectoryRecord /\ Current.id = made /\ Current.trial = trial
        /\ Current.receipt = "absent"
    BY <2>1, CurrentIsOpen
  <2> HIDE DEF Current
  <2>3. /\ new \in DirectoryRecord /\ new.id = Current.id /\ new.trial = trial
        /\ new.receipt = "torn"
    BY <2>2 DEF DirectoryRecord
  <2> HIDE DEF new
  <2>4. /\ made' = made /\ new \in evidence'
        /\ Distinct' /\ CompleteHasReceipt' /\ GoalsOnRecord'
        /\ AllDirectories' \subseteq DirectoryRecord /\ \A e \in AllDirectories' : e.id <= made'
    BY <2>1, <2>2, <2>3, UpdatedEvidence DEF nav2
  <2> QED BY <2>1, <2>2, <2>3, <2>4 DEF TypeOK, OpenDirectory, OwnGoal, FaultlessTrialEnded,
     config, nav2
<1>6. CASE SendGoal
  <2>1. /\ phase = "send" /\ phase' = "accept" /\ live' = live \cup {made} /\ answer' = "none"
        /\ UNCHANGED <<config, progress>>
        /\ made' = made /\ evidence' = evidence /\ aside' = aside
        /\ AllDirectories' = AllDirectories
    BY <1>6 DEF SendGoal, disk, AllDirectories
  <2>2. GoalsOnRecord'
    <3>1. \E d \in AllDirectories : d.id = made /\ d.receipt = "written"
      BY <2>1 DEF OpenDirectory, AllDirectories
    <3> QED BY <2>1, <3>1 DEF GoalsOnRecord
  <2>3. TypeOK' /\ Distinct' /\ CompleteHasReceipt'
    BY <2>1 DEF TypeOK, Distinct, CompleteHasReceipt, config, progress
  <2> QED BY <2>1, <2>2, <2>3 DEF OpenDirectory, OwnGoal, FaultlessTrialEnded, progress
<1>7. CASE \E success, complete, good \in BOOLEAN : BuildManifest(success, complete, good)
  <2>1. PICK success \in BOOLEAN, complete \in BOOLEAN, good \in BOOLEAN :
          BuildManifest(success, complete, good)
    BY <1>7
  <2> DEFINE whole == leg = Legs /\ fault = "none"
             new == [Current EXCEPT !.result = IF success THEN "success" ELSE "failure",
                                    !.complete = complete, !.good = good, !.allLegs = whole]
  <2>2. /\ phase = "build" /\ phase' = "write" /\ Update(new) /\ leg' = 1 /\ arrived' = FALSE
        /\ answer' = "none" /\ UNCHANGED <<config, trial, fault, live>>
        /\ complete => Current.receipt # "absent"
    BY <2>1 DEF BuildManifest
  <2>3. /\ Current \in DirectoryRecord /\ Current.id = made /\ Current.trial = trial
    BY <2>2, CurrentIsOpen
  <2>4. whole \in BOOLEAN
    OBVIOUS
  <2> HIDE DEF Current, whole
  <2>5. /\ new \in DirectoryRecord /\ new.id = Current.id /\ new.trial = trial
        /\ new.receipt = Current.receipt /\ new.complete = complete
    BY <2>3, <2>4 DEF DirectoryRecord
  <2> HIDE DEF new
  <2>6. /\ made' = made /\ new \in evidence'
        /\ Distinct' /\ CompleteHasReceipt' /\ GoalsOnRecord'
        /\ AllDirectories' \subseteq DirectoryRecord /\ \A e \in AllDirectories' : e.id <= made'
    BY <2>2, <2>3, <2>5, UpdatedEvidence
  <2> QED BY <2>2, <2>3, <2>5, <2>6 DEF TypeOK, OpenDirectory, OwnGoal, FaultlessTrialEnded,
     config
<1>8. CASE WriteFile
  <2> DEFINE new == [Current EXCEPT !.step = @ + 1]
  <2>1. /\ phase = "write" /\ Update(new) /\ UNCHANGED <<config, phase, progress, nav2>>
        /\ Current.step < 5
    BY <1>8 DEF WriteFile
  <2>2. /\ Current \in DirectoryRecord /\ Current.id = made /\ Current.trial = trial
        /\ Current \in AllDirectories
    BY <2>1, CurrentIsOpen DEF AllDirectories
  <2>3. Current.complete => Current.receipt # "absent"
    BY <2>2 DEF CompleteHasReceipt
  <2> HIDE DEF Current
  <2>4. /\ new \in DirectoryRecord /\ new.id = Current.id /\ new.trial = trial
        /\ new.receipt = Current.receipt /\ new.complete = Current.complete
    BY <2>1, <2>2 DEF DirectoryRecord
  <2> HIDE DEF new
  <2>5. /\ made' = made /\ new \in evidence'
        /\ Distinct' /\ CompleteHasReceipt' /\ GoalsOnRecord'
        /\ AllDirectories' \subseteq DirectoryRecord /\ \A e \in AllDirectories' : e.id <= made'
    BY <2>1, <2>2, <2>3, <2>4, UpdatedEvidence DEF nav2
  <2> QED BY <2>1, <2>2, <2>4, <2>5 DEF TypeOK, OpenDirectory, OwnGoal, FaultlessTrialEnded,
     config, progress, nav2
<1>9. CASE \E atLine \in BOOLEAN : Crash(TRUE, atLine)
  <2> PICK atLine \in BOOLEAN : Crash(TRUE, atLine)
    BY <1>9
  <2>1. Exit /\ UNCHANGED <<config, live>>
    BY DEF Crash
  <2>2. \E d \in DirectoryRecord :
          /\ phase \in Open /\ Update(d) /\ d.id = Current.id
          /\ d.complete => d.receipt # "absent"
          /\ Current.receipt = "written" => d.receipt = "written"
    <3>1. CASE phase = "write" /\ Current.step < 5
      <4>1. /\ Current \in DirectoryRecord /\ Current \in AllDirectories
            /\ Current.complete => Current.receipt # "absent"
        BY <3>1, CurrentIsOpen DEF AllDirectories, CompleteHasReceipt
      <4>2. Update([Current EXCEPT !.torn = TRUE, !.cutAtLine = atLine])
        BY <3>1 DEF Crash
      <4> HIDE DEF Current
      <4> DEFINE new == [Current EXCEPT !.torn = TRUE, !.cutAtLine = atLine]
      <4>3. /\ new \in DirectoryRecord /\ new.id = Current.id
            /\ new.receipt = Current.receipt /\ new.complete = Current.complete
        BY <4>1 DEF DirectoryRecord
      <4> HIDE DEF new
      <4> QED BY <3>1, <4>1, <4>2, <4>3 DEF new
    <3>2. CASE phase = "dispatch"
      <4>1. /\ Current \in DirectoryRecord /\ Current.receipt = "absent"
        BY <3>2, CurrentIsOpen
      <4>2. Update([Current EXCEPT !.receipt = "torn"])
        BY <3>2 DEF Crash
      <4> HIDE DEF Current
      <4> DEFINE new == [Current EXCEPT !.receipt = "torn"]
      <4>3. /\ new \in DirectoryRecord /\ new.id = Current.id /\ new.receipt = "torn"
        BY <4>1 DEF DirectoryRecord
      <4> HIDE DEF new
      <4> QED BY <3>2, <4>1, <4>2, <4>3 DEF new
    <3> QED BY <3>1, <3>2 DEF Crash
  <2>3. PICK d \in DirectoryRecord :
          /\ phase \in Open /\ Update(d) /\ d.id = Current.id
          /\ d.complete => d.receipt # "absent"
          /\ Current.receipt = "written" => d.receipt = "written"
    BY <2>2
  <2>4. /\ made' = made /\ Distinct' /\ CompleteHasReceipt' /\ GoalsOnRecord'
        /\ AllDirectories' \subseteq DirectoryRecord /\ \A e \in AllDirectories' : e.id <= made'
    BY <2>1, <2>3, UpdatedEvidence
  <2>5. TypeOK'
    <3>1. /\ UNCHANGED config /\ arrived' = FALSE /\ phase' = "off" /\ fault' = "none"
          /\ answer' = "none" /\ trial' = 1 /\ leg' = 1
      BY <2>1 DEF Exit
    <3>2. arrived' \in BOOLEAN
      BY <3>1
    <3> HIDE DEF AllDirectories
    <3> QED BY <2>4, <3>1, <3>2 DEF TypeOK, config
  <2>6. OpenDirectory' /\ OwnGoal' /\ FaultlessTrialEnded'
    BY <2>1 DEF OpenDirectory, OwnGoal, FaultlessTrialEnded, Exit
  <2> QED BY <2>4, <2>5, <2>6
<1>10. CASE \E torn, atLine \in BOOLEAN : Crash(torn, atLine)
  BY <1>1, <1>9, <1>10, CrashesAre
<1> QED BY <1>1, <1>2, <1>3, <1>4, <1>5, <1>6, <1>7, <1>8, <1>10 DEF RunnerNext

-------------------------------------------------------------------------------
(* What a step may do to the evidence *)

\* Evidence of an earlier trial or process is never changed or lost.
Keeping ==
  \A d \in AllDirectories : d \in evidence' \cup aside' \/ (d.id = made /\ phase # "select")

\* A trial that is skipped is complete on disk.
SkippingSealed ==
  phase = "select" /\ trial' = trial + 1 => \E d \in Of(trial) : Sealed(d) /\ d.receipt # "absent"

LEMMA WrittenSteps == Written("draft") = 1 /\ Written("inventory") = 3 /\ Written("verified") = 4
BY DEF Written, Files

LEMMA KeepingStep == RunnerInv /\ [RunnerNext]_runnerVars => Keeping
<1> SUFFICES ASSUME RunnerInv, [RunnerNext]_runnerVars PROVE Keeping
  OBVIOUS
<1>1. CASE AllDirectories \subseteq AllDirectories'
  BY <1>1 DEF Keeping, AllDirectories
<1>2. CASE phase \in Open /\ \E d : Update(d)
  <2>1. /\ aside' = aside /\ evidence \ {Current} \subseteq evidence' /\ phase # "select"
    BY <1>2 DEF Update, Open, Sending
  <2>2. Current.id = made
    BY <1>2, CurrentIsOpen DEF RunnerInv
  <2> HIDE DEF Current
  <2> QED BY <2>1, <2>2 DEF Keeping, AllDirectories
<1>3. CASE UNCHANGED disk
  BY <1>1, <1>3 DEF disk, AllDirectories
<1>4. CASE BeginTrial \/ BeginRunEvidence
  BY <1>1, <1>4 DEF BeginTrial, BeginRunEvidence, AllDirectories
<1>5. CASE \/ Verified \/ PreflightFault \/ SkipTrial \/ AllTrialsDone \/ ResetSimulation
           \/ BackendUnavailable \/ SendGoal \/ AcceptTimeout \/ Rejected \/ Accepted
           \/ LegSucceeded \/ LegFailed \/ CancelLeg \/ LegEnded \/ CancelLost \/ EndTrial
           \/ Crash(FALSE, FALSE) \/ GoalAccepted \/ GoalRejected \/ GoalEnds("succeeded")
           \/ GoalEnds("failed") \/ UNCHANGED runnerVars
           \/ \E d \in 1..MaxDirs : OldGoalEnds(d)
  BY <1>3, <1>5 DEF Verified, PreflightFault, SkipTrial, AllTrialsDone, ResetSimulation,
     BackendUnavailable, SendGoal, AcceptTimeout, Rejected, Accepted, LegSucceeded, LegFailed,
     CancelLeg, LegEnded, CancelLost, EndTrial, Crash, GoalAccepted, GoalRejected, GoalEnds,
     OldGoalEnds, runnerVars, disk
<1>6. CASE \/ RecordTrialDispatched \/ ReceiptFails \/ WriteFile
           \/ \E success, complete, good \in BOOLEAN : BuildManifest(success, complete, good)
  BY <1>2, <1>6 DEF RecordTrialDispatched, ReceiptFails, BuildManifest, WriteFile, Open
<1>7. CASE \E atLine \in BOOLEAN : Crash(TRUE, atLine)
  BY <1>2, <1>7 DEF Crash, Open
<1>8. CASE \/ \E torn, atLine \in BOOLEAN : Crash(torn, atLine)
           \/ \E outcome \in {"succeeded", "failed"} : GoalEnds(outcome)
  BY <1>5, <1>7, <1>8, CrashesAre
<1> QED BY <1>4, <1>5, <1>6, <1>8 DEF RunnerNext

LEMMA SkippingStep == RunnerInv /\ [RunnerNext]_runnerVars => SkippingSealed
<1> SUFFICES ASSUME RunnerInv, [RunnerNext]_runnerVars, phase = "select", trial' = trial + 1
             PROVE  \E d \in Of(trial) : Sealed(d) /\ d.receipt # "absent"
  BY DEF SkippingSealed
<1>1. trial \in Nat \ {0}
  BY DEF RunnerInv, TypeOK
<1>2. SkipTrial
  <2>1. trial' # 1 /\ trial' # trial
    BY <1>1
  <2> QED BY <2>1 DEF RunnerNext, Verified, PreflightFault, BeginTrial, AllTrialsDone,
     ResetSimulation, BeginRunEvidence, BackendUnavailable, RecordTrialDispatched, ReceiptFails,
     SendGoal, AcceptTimeout, Rejected, Accepted, LegSucceeded, LegFailed, CancelLeg, LegEnded,
     CancelLost, BuildManifest, WriteFile, EndTrial, Crash, Exit, GoalAccepted, GoalRejected,
     GoalEnds, OldGoalEnds, Answer, progress, runnerVars
<1>3. PICK d \in Of(trial) : Completed(d)
  BY <1>2 DEF SkipTrial
<1>4. d \in AllDirectories /\ d.step \in 0..5
  BY <1>3 DEF RunnerInv, TypeOK, DirectoryRecord, Of, AllDirectories
<1>5. Sealed(d)
  BY <1>3, <1>4, WrittenSteps DEF Completed, SaysVerified, ChecksumsAreVerified, Sealed
<1> QED BY <1>3, <1>4, <1>5 DEF Completed, RunnerInv, CompleteHasReceipt

-------------------------------------------------------------------------------
(* The campaign *)

\* The verdict of an audit that lets the script end with success.
LEMMA AuditPasses == Audit = 0 => \A d \in AllDirectories : d.receipt = "written" => d.good
<1> SUFFICES ASSUME Audit = 0, NEW d \in AllDirectories, d.receipt = "written" PROVE d.good
  OBVIOUS
<1>1. ~FailedTrial(d) /\ ~TornSummary(d)
  BY DEF Audit, Dispatched
<1> QED BY <1>1 DEF FailedTrial

LEMMA InitialCampaign == Init => CampaignInv
<1> SUFFICES ASSUME Init PROVE CampaignInv
  OBVIOUS
<1>1. /\ AllDirectories = {} /\ live = {} /\ made = 0 /\ phase = "off" /\ stage = "launch"
      /\ evidence = {}
  BY DEF Init, RunnerInit, AllDirectories
<1>2. TypeOK
  <2>1. arrived \in BOOLEAN
    BY DEF Init, RunnerInit
  <2> QED BY <1>1, <2>1 DEF Init, RunnerInit, TypeOK
<1>3. /\ Distinct /\ OpenDirectory /\ CompleteHasReceipt /\ GoalsOnRecord /\ OwnGoal
      /\ FaultlessTrialEnded
  BY <1>1 DEF Distinct, OpenDirectory, Open, Sending, CompleteHasReceipt, GoalsOnRecord, OwnGoal,
     FaultlessTrialEnded
<1>4. ScriptInv
  BY <1>1 DEF ScriptInv, NoFailureHidden
<1> QED BY <1>2, <1>3, <1>4 DEF CampaignInv, RunnerInv

\* The steps of the script that are none of the runner.
LEMMA ScriptStep ==
  ASSUME CampaignInv,
         Launch \/ StartScript \/ \E demo \in BOOLEAN : RunnerEnded(demo)
  PROVE  CampaignInv' /\ UNCHANGED disk /\ UNCHANGED trial
<1>1. /\ UNCHANGED <<config, progress, disk, answer>> /\ live' \subseteq live
      /\ phase' \in {phase, "verify"} /\ phase = "off"
  BY DEF CampaignInv, ScriptInv, Launch, StartScript, RunnerEnded, runnerVars, config, progress,
     disk, nav2
<1>2. RunnerInv'
  <2>1. RunnerInv
    BY DEF CampaignInv
  <2>2. /\ AllDirectories' = AllDirectories /\ evidence' = evidence /\ made' = made
        /\ Distinct' /\ CompleteHasReceipt' /\ GoalsOnRecord'
        /\ AllDirectories' \subseteq DirectoryRecord /\ \A d \in AllDirectories' : d.id <= made'
    BY <1>1, <2>1, SameEvidence
  <2>3. TypeOK'
    BY <1>1, <2>1, <2>2 DEF RunnerInv, TypeOK, config, progress
  <2> QED BY <1>1, <2>2, <2>3 DEF RunnerInv, OpenDirectory, OwnGoal, FaultlessTrialEnded, Open,
     Sending
<1>3. ScriptInv'
  <2>1. AllDirectories' = AllDirectories
    BY <1>1 DEF AllDirectories, disk
  <2>2. CASE Launch
    BY <2>2 DEF CampaignInv, ScriptInv, Launch, NoFailureHidden
  <2>3. CASE StartScript
    BY <2>3, <1>1 DEF CampaignInv, ScriptInv, StartScript, NoFailureHidden, runnerVars
  <2>4. CASE \E demo \in BOOLEAN : RunnerEnded(demo)
    <3>1. PICK demo \in BOOLEAN : RunnerEnded(demo)
      BY <2>4
    <3>2. /\ stage' \in {"stopped", "audit", "success", "contract", "runtime", "exhausted",
                         "launch"}
          /\ stage' = "success" => Audit = 0
      <4> DEFINE audit == Audit
                 count == RunCount
                 ok == Collected
                 again == attempts = MaxAttempts
      <4>1. stage' = CASE failStop /\ audit = 42 -> "stopped"
                [] ~(failStop /\ audit = 42) /\ audit # 0 -> "audit"
                [] audit = 0 /\ count = Trials -> IF ok THEN "success" ELSE "contract"
                [] audit = 0 /\ count # Trials /\ ~demo -> "runtime"
                [] audit = 0 /\ count # Trials /\ demo -> IF again THEN "exhausted" ELSE "launch"
        BY <3>1 DEF RunnerEnded
      <4> HIDE DEF audit, count, ok, again
      <4> QED BY <4>1 DEF audit
    <3>3. phase' = "off"
      BY <3>1, <1>1 DEF RunnerEnded
    <3>4. NoFailureHidden'
      BY <2>1, <3>2, AuditPasses DEF NoFailureHidden
    <3> QED BY <3>2, <3>3, <3>4 DEF ScriptInv
  <2> QED BY <2>2, <2>3, <2>4
<1> QED BY <1>1, <1>2, <1>3 DEF CampaignInv, progress

LEMMA CampaignStep == CampaignInv /\ [Next]_campaignVars => CampaignInv'
<1> SUFFICES ASSUME CampaignInv, [Next]_campaignVars PROVE CampaignInv'
  OBVIOUS
<1>1. CASE Runner
  <2>1. RunnerInv'
    BY <1>1, RunnerStep DEF Runner, CampaignInv
  <2>2. CASE stage = "runner"
    BY <1>1, <2>1, <2>2 DEF Runner, CampaignInv, ScriptInv, NoFailureHidden
  <2>3. CASE stage # "runner"
    <3>1. phase = "off" /\ UNCHANGED <<stage, phase, disk>>
      BY <1>1, <2>3 DEF CampaignInv, ScriptInv, Runner, RunnerNext, Verified, PreflightFault,
         SkipTrial, BeginTrial, AllTrialsDone, ResetSimulation, BeginRunEvidence,
         BackendUnavailable, RecordTrialDispatched, ReceiptFails, SendGoal, AcceptTimeout,
         Rejected, Accepted, LegSucceeded, LegFailed, CancelLeg, LegEnded, CancelLost,
         BuildManifest, WriteFile, EndTrial, Crash, GoalAccepted, GoalRejected, GoalEnds,
         OldGoalEnds, Answer
    <3> QED BY <2>1, <3>1 DEF CampaignInv, ScriptInv, NoFailureHidden, AllDirectories, disk
  <2> QED BY <2>2, <2>3
<1>2. CASE Launch \/ StartScript \/ \E demo \in BOOLEAN : RunnerEnded(demo)
  BY <1>2, ScriptStep
<1>3. CASE UNCHANGED campaignVars
  BY <1>3 DEF campaignVars, runnerVars, CampaignInv, RunnerInv, ScriptInv, TypeOK, Distinct,
     OpenDirectory, CompleteHasReceipt, GoalsOnRecord, OwnGoal, FaultlessTrialEnded,
     NoFailureHidden, AllDirectories
<1> QED BY <1>1, <1>2, <1>3 DEF Next

LEMMA CampaignInvariant == Spec => []CampaignInv
BY InitialCampaign, CampaignStep, PTL DEF Spec

\* No trial without a trace: a goal is at Nav2 only when its trial is on record
\* as dispatched on disk, whatever crashed, was torn or was moved aside.
THEOREM DispatchRecorded == Spec => []GoalsOnRecord
<1>1. CampaignInv => GoalsOnRecord
  BY DEF CampaignInv, RunnerInv
<1> QED BY <1>1, CampaignInvariant, PTL

\* Isolation on the direct backend: a trial without a fault leaves no goal.
THEOREM TrialsIsolated == Spec => []FaultlessTrialEnded
<1>1. CampaignInv => FaultlessTrialEnded
  BY DEF CampaignInv, RunnerInv
<1> QED BY <1>1, CampaignInvariant, PTL

\* Success hides no failed trial, however often the script was started.
THEOREM SuccessIsHonest == Spec => []NoFailureHidden
<1>1. CampaignInv => NoFailureHidden
  BY DEF CampaignInv, ScriptInv
<1> QED BY <1>1, CampaignInvariant, PTL

\* A trial is skipped on resuming only with a complete, sealed directory.
THEOREM SkipsSealedTrials == Spec => SkippedIsSealed
<1>1. CampaignInv /\ [Next]_campaignVars => [SkippingSealed]_runnerVars
  <2> SUFFICES ASSUME CampaignInv, [Next]_campaignVars PROVE SkippingSealed \/ UNCHANGED runnerVars
    OBVIOUS
  <2>1. CASE RunnerNext
    BY <2>1, SkippingStep DEF CampaignInv
  <2>2. CASE Launch \/ StartScript \/ \E demo \in BOOLEAN : RunnerEnded(demo)
    BY <2>2, ScriptStep DEF CampaignInv, RunnerInv, TypeOK, SkippingSealed
  <2> QED BY <2>1, <2>2 DEF Next, Runner, campaignVars
<1> QED BY <1>1, CampaignInvariant, PTL DEF Spec, SkippedIsSealed, SkippingSealed

\* Evidence of an earlier trial or process is at most moved aside.
THEOREM EvidenceSurvives == Spec => EvidenceKept
<1>1. CampaignInv /\ [Next]_campaignVars => [Keeping]_runnerVars
  <2> SUFFICES ASSUME CampaignInv, [Next]_campaignVars PROVE Keeping \/ UNCHANGED runnerVars
    OBVIOUS
  <2>1. CASE RunnerNext
    BY <2>1, KeepingStep DEF CampaignInv
  <2>2. CASE Launch \/ StartScript \/ \E demo \in BOOLEAN : RunnerEnded(demo)
    BY <2>2, ScriptStep DEF Keeping, AllDirectories, disk
  <2> QED BY <2>1, <2>2 DEF Next, Runner, campaignVars
<1> QED BY <1>1, CampaignInvariant, PTL DEF Spec, EvidenceKept, Keeping
=============================================================================
