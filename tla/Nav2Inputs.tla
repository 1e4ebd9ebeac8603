------------------------------- MODULE Nav2Inputs -------------------------------
(***************************************************************************)
(* What reaches Nav2, side by side as in Machines: the evidence of the     *)
(* readiness tracker, the costs of the risk layers, the paths of the       *)
(* planner plugin, the routes of the physical graph, and the goals of the  *)
(* trial runner under its campaign.  part says which of the five runs; the *)
(* others stay in their initial states.                                    *)
(***************************************************************************)
EXTENDS Readiness

CONSTANTS
  (* RiskLayer *)
  Layers, RiskCells, Grids, Confirm, MaxResets,
  (* TieBreakPlanner *)
  Width, Height, Goals, Costly, Tolerance, MaxApproach, MaxIterations, MaxSpecial, MaxFavoured,
  (* RouteGraph *)
  Nodes, Corridors, Doubled, Costs, K, RouteStart, RouteGoal,
  (* TrialCampaign *)
  Trials, Legs, MaxDirs, MaxAttempts, MaxLaunches

\* A grid's cells lie around the cell of the robot, which may be off the costmap.
ASSUME RiskAssumption ==
  /\ Layers \subseteq {"cognitive", "local"} /\ RiskCells \subseteq Int
  /\ Grids \subseteq [cells : SUBSET Int, strong : SUBSET Int, at : Int]

VARIABLES
  part,
  (* RiskLayer *)
  layer, latest, riskEpoch, resets, active, streak, enabled, extra, clearing, previous, risky,
  step, window, held, refused, stray,
  (* TieBreakPlanner *)
  map, favoured, goal, planStage, reason, open, serial, visited, accumulated, best, approach,
  iterations, reached, baseline,
  (* RouteGraph *)
  sweep, chainCost, class, kept, graphStage, accepted, candidates, spur, queue, settled,
  (* TrialCampaign *)
  guided, failStop, phase, trial, leg, fault, arrived, evidence, aside, made, live, answer,
  scriptStage, attempts, launches

\* Two messages of the risk layers: a strong cell, and a weak one elsewhere.
RiskGrids == {[cells |-> {0}, strong |-> {0}, at |-> 0], [cells |-> {0}, strong |-> {}, at |-> 1]}

Risk == INSTANCE RiskLayer WITH epoch <- riskEpoch, Cells <- RiskCells

\* Goals of the planner: in the robot's cell, far off near a corner of four cells,
\* and as far from one corner of its cell as from the other three.
PlannerGoals == {<<4, 6>>, <<32, 14>>, <<25, 5>>}

Planner == INSTANCE TieBreakPlanner WITH stage <- planStage

\* Goals are points of the costmap, the tolerance is less than the largest float, and
\* SmacPlanner2D takes a max_on_approach_iterations of 0 or less for no bound.
ASSUME PlannerAssumption ==
  /\ Width \in Nat \ {0} /\ Height \in Nat \ {0} 
  /\ Goals \subseteq (0..(10 * Width - 1)) \X (0..(10 * Height - 1))
  /\ Costly \in Nat /\ Tolerance \in 0..Planner!Infinity /\ MaxApproach \in Nat \ {0}

Graph ==
  INSTANCE RouteGraph WITH
    Start <- RouteStart, Goal <- RouteGoal,
    cost <- chainCost, stage <- graphStage, best <- settled

ASSUME RouteAssumption == Graph!GraphAssumption

Campaign == INSTANCE TrialCampaign WITH stage <- scriptStage

Parts == {"readiness", "risk", "planner", "graph", "campaign"}

riskVars == <<layer, latest, riskEpoch, resets, active, streak, enabled, extra, clearing, previous,
              risky, step, window, held, refused, stray>>
plannerVars == <<map, favoured, goal, planStage, reason, open, serial, visited, accumulated, best,
                 approach, iterations, reached, baseline>>
graphVars == <<sweep, chainCost, class, kept, graphStage, accepted, candidates, spur, queue,
               settled>>
campaignVars == <<guided, failStop, phase, trial, leg, fault, arrived, evidence, aside, made, live,
                  answer, scriptStage, attempts, launches>>
machinesVars == <<part, vars, riskVars, plannerVars, graphVars, campaignVars>>

\* The machines that have several initial states stay in one while they are idle.
MachinesInit ==
  /\ part \in Parts
  /\ Init
  /\ Risk!Init /\ (part # "risk" => layer = "local")
  /\ IF part = "planner" THEN Planner!Init
     ELSE /\ map = [blocked |-> {}, costly |-> {}] /\ favoured = {} /\ goal = <<0, 0>>
          /\ planStage = "request" /\ reason = "none" /\ open = {} /\ serial = 0
          /\ visited = {} /\ accumulated = <<>> /\ best = <<>> /\ approach = 0
          /\ iterations = 0 /\ reached = <<0, 0>> /\ baseline = <<>>
  /\ IF part = "graph" THEN Graph!Init
     ELSE /\ sweep = <<>> /\ chainCost = <<>> /\ class = <<>> /\ kept = {}
          /\ graphStage = "built" /\ accepted = <<>> /\ candidates = {} /\ spur = 0
          /\ queue = {} /\ settled = <<>>
  /\ Campaign!Init /\ (part # "campaign" => ~guided /\ ~failStop)

\* The other machines stay as they are.
Only(name) ==
  /\ part = name /\ UNCHANGED part
  /\ name # "readiness" => UNCHANGED vars
  /\ name # "risk" => UNCHANGED riskVars
  /\ name # "planner" => UNCHANGED plannerVars
  /\ name # "graph" => UNCHANGED graphVars
  /\ name # "campaign" => UNCHANGED campaignVars

MachinesNext ==
  \/ Only("readiness") /\ Next
  \/ Only("risk") /\ Risk!Next
  \/ Only("planner") /\ Planner!Next
  \/ Only("graph") /\ Graph!Next
  \/ Only("campaign") /\ Campaign!Next

MachinesSpec == MachinesInit /\ [][MachinesNext]_machinesVars

-------------------------------------------------------------------------------
\* RiskLayer: what a message that is no longer acceptable has left in the
\* costmap is cleared by the updates that follow.
RejectedIsCleared == Risk!RejectedIsCleared

\* TieBreakPlanner: the scores of the prior change the path, never its cost.
ScoresKeepTheCost == part = "planner" => Planner!ScoresKeepTheCost

\* RouteGraph: the alternatives of a query are the first routes of all.
FirstRoutesFound == part = "graph" => Graph!FirstRoutesFound

\* TrialRunner: a goal is only at Nav2 when its trial is on record as dispatched.
GoalsOnRecord == Campaign!GoalsOnRecord

\* TrialRunner: a trial on the direct backend that reports no fault has no goal left.
FaultlessTrialEnded == Campaign!FaultlessTrialEnded

\* TrialRunner: a trial that is not run again has its receipt and is sealed.
SkippedIsSealed == Campaign!SkippedIsSealed

\* TrialRunner: evidence of an earlier trial or process is never changed or lost.
EvidenceKept == Campaign!EvidenceKept

\* TrialCampaign: a campaign that ends with success hides no failed trial.
NoFailureHidden == Campaign!NoFailureHidden
=============================================================================
