------------------------------ MODULE RouteSlices ------------------------------
(***************************************************************************)
(* The route coordinator on three small instances at once.  The slice is   *)
(* chosen at the start and fixes which inputs arrive:                      *)
(*   goals - two goals with child actions and a fault, no runtime edges    *)
(*   edges - two goals, observations of an edge and a fault, no motion     *)
(*   maps  - one goal, one child action to it and rebuilds, no fault       *)
(* The transitions are those of RouteCoordinator; a slice only leaves      *)
(* inputs out.                                                             *)
(***************************************************************************)
EXTENDS RouteCoordinator

VARIABLE slice

sliceVars == <<vars, slice>>

SliceInit == Init /\ slice \in {"goals", "edges", "maps"}

Goal == (slice = "maps" => request < 1) /\ OnGoal
Answers == \E c \in asked, usable \in BOOLEAN :
             (slice = "maps" => usable) /\ OnPriors(c, usable)
Routed(ok) == (slice = "maps" => ok) /\ (AfterEdgeUpdate(ok) \/ OnRouteResult(ok))
Moves == /\ slice # "edges" /\ (slice = "maps" => Len(navs) < 1 \/ nav.sent \/ nav.handle # None)
         /\ \E final \in BOOLEAN : (slice = "maps" => final) /\ PublishProgress(final)
Handles == \E n \in DOMAIN navs, a \in BOOLEAN :
             (slice = "maps" => a) /\ OnNavigationGoalHandle(n, a)
Results == \E n \in DOMAIN navs, s, near \in BOOLEAN :
             (slice = "maps" => s \/ navs[n].cancelled) /\ OnNavigationResult(n, s, near)
Observed == slice = "edges" /\ \E e \in Edges : \E o \in Observations(e) : RuntimeObservation(e, o)
Ages == slice = "edges" /\ \E e \in Edges, f \in {"occupied", "clear", "observed"} : StampAges(e, f)
Snapshot == slice = "maps" /\ \E m \in Maps \cup {FirstMap}, p \in BOOLEAN : StructuralMap(m, p)
Served == \E ok \in BOOLEAN : (slice = "maps" => ok) /\ ServeRebuild(ok)

SliceNext ==
  /\ UNCHANGED slice
  /\ \/ Goal \/ PriorTimeout \/ Answers
     \/ Routed(TRUE) \/ Routed(FALSE)
     \/ Moves \/ Handles \/ Results \/ Observed \/ Ages
     \/ RuntimeTick(TRUE) \/ (slice = "edges" /\ RuntimeTick(FALSE))
     \/ Snapshot \/ Served \/ AdoptGraph \/ \E r \in adopting : AdoptSupport(r)
     \/ PoseKnown \/ ServersReady
  /\ UNCHANGED module2

\* The fairness of RouteCoordinator.
SliceSpec ==
  /\ SliceInit /\ [][SliceNext]_sliceVars
  /\ WF_sliceVars(PoseKnown /\ UNCHANGED <<module2, slice>>)
  /\ WF_sliceVars(ServersReady /\ UNCHANGED <<module2, slice>>)
  /\ WF_sliceVars(PriorTimeout /\ UNCHANGED <<module2, slice>>)
  /\ WF_sliceVars(RuntimeTick(TRUE) /\ UNCHANGED <<module2, slice>>)
  /\ WF_sliceVars((\E ok \in BOOLEAN : AfterEdgeUpdate(ok)) /\ UNCHANGED <<module2, slice>>)
  /\ WF_sliceVars((\E ok \in BOOLEAN : OnRouteResult(ok)) /\ UNCHANGED <<module2, slice>>)
=============================================================================
