------------------------- MODULE RouteCoordinator_proofs -------------------------
(***************************************************************************)
(* The costs of a route are never made of the priors of another request,   *)
(* for any edges, maps and numbers of requests, calls and faults, although *)
(* every answer may come late and both halves of an adopted rebuild are    *)
(* seen by the callbacks in between.                                       *)
(***************************************************************************)
EXTENDS RouteCoordinator, TLAPS

RouteContext == [for : Nat, revision : Nat]
RebuildCall == [map : Nat, revision : Nat, answer : {"none", "ok", "error"}]

\* A DynamicEdges request whose priors, if any, answer its own request.
OwnUpdate ==
  {u \in [for : Nat, revision : Nat, priors : SUBSET RouteContext, closed : SUBSET Edges] :
     \A c \in u.priors : c.for = u.for}

\* The calls in flight are well formed, and revisions are numbers.
CallsOK ==
  /\ graph \in Nat /\ support \in Nat /\ candidate \in Nat
  /\ rebuilds \in Seq(RebuildCall) /\ adopting \subseteq RebuildCall
  /\ updates \in Seq(OwnUpdate)

\* At most the last request is pending, and the priors that are kept answer it,
\* also after it has ended.
PriorsOfLastRequest ==
  /\ request \in Nat /\ pending \in {None, request}
  /\ priors \subseteq RouteContext /\ \A c \in priors : c.for = request

CoordinatorInv == CallsOK /\ PriorsOfLastRequest

-------------------------------------------------------------------------------
\* A route is prepared for a request with priors of its own.
LEMMA RoutePrepared ==
  ASSUME CallsOK, NEW r \in Nat, NEW p \in SUBSET RouteContext, NEW b \in SUBSET Edges,
         \A c \in p : c.for = r, PrepareRoute(r, p, b)
  PROVE  updates' \in Seq(OwnUpdate)
<1> DEFINE send == [for |-> r, revision |-> support, priors |-> p, closed |-> b]
<1>1. send \in OwnUpdate
  BY DEF OwnUpdate, CallsOK
<1>2. updates' = updates \/ updates' = Append(updates, send)
  BY DEF PrepareRoute
<1> HIDE DEF send
<1> QED BY <1>1, <1>2 DEF CallsOK

\* The pending request is prepared with the priors that are kept, or with none.
LEMMA PendingPrepared ==
  ASSUME CoordinatorInv, NEW b \in SUBSET Edges,
         PrepareRoute(pending, priors, b) \/ PrepareRoute(pending, {}, b)
  PROVE  updates' \in Seq(OwnUpdate)
<1>1. CASE pending = None
  BY <1>1 DEF PrepareRoute, CoordinatorInv, CallsOK
<1>2. CASE pending = request
  BY <1>2, RoutePrepared DEF CoordinatorInv, PriorsOfLastRequest
<1> QED BY <1>1, <1>2 DEF CoordinatorInv, PriorsOfLastRequest

\* A rebuild is asked for with the next revision.
LEMMA RebuildAsked ==
  ASSUME CallsOK, NEW m \in Nat, Rebuild(m)
  PROVE  rebuilds' \in Seq(RebuildCall)
<1> DEFINE call == [map |-> m, revision |-> graph + 1, answer |-> "none"]
<1>1. call \in RebuildCall
  BY DEF RebuildCall, CallsOK
<1>2. rebuilds' = rebuilds \/ rebuilds' = Append(rebuilds, call)
  BY DEF Rebuild
<1> HIDE DEF call
<1> QED BY <1>1, <1>2 DEF CallsOK

LEMMA CoordinatorStep == CoordinatorInv /\ [Next]_vars => CoordinatorInv'
<1> SUFFICES ASSUME CoordinatorInv, [Next]_vars PROVE CoordinatorInv'
  OBVIOUS
<1> USE DEF CoordinatorInv
\* The callbacks of requests.
<1>1. CASE OnGoal
  <2>1. /\ request' = request + 1 /\ pending' = request + 1 /\ priors' = {}
        /\ UNCHANGED graphVars
        /\ UNCHANGED updates \/ PrepareRoute(request + 1, {}, Blocked)
    BY <1>1 DEF OnGoal
  <2>2. updates' \in Seq(OwnUpdate)
    <3>1. Blocked \in SUBSET Edges /\ request + 1 \in Nat
      BY DEF Blocked, PriorsOfLastRequest
    <3> QED BY <2>1, <3>1, RoutePrepared DEF CallsOK
  <2> QED BY <2>1, <2>2 DEF CallsOK, PriorsOfLastRequest, graphVars
<1>2. CASE \E c \in asked, usable \in BOOLEAN : OnPriors(c, usable)
  <2>1. PICK c \in asked, usable \in BOOLEAN : OnPriors(c, usable)
    BY <1>2
  <2>2. UNCHANGED <<request, pending, graphVars>>
    BY <2>1 DEF OnPriors
  <2>3. CASE ~Current(c)
    BY <2>1, <2>2, <2>3 DEF OnPriors, CallsOK, PriorsOfLastRequest, graphVars
  <2>4. CASE Current(c)
    <3> DEFINE p == IF usable THEN {c} ELSE {}
    <3>1. priors' = p /\ PrepareRoute(pending, p, Blocked)
      BY <2>1, <2>4 DEF OnPriors
    <3>2. pending = request /\ c = [for |-> request, revision |-> graph]
      BY <2>4 DEF Current, Context, PriorsOfLastRequest
    <3>3. p \in SUBSET RouteContext /\ \A d \in p : d.for = request
      BY <3>2 DEF RouteContext, CallsOK, PriorsOfLastRequest
    <3> HIDE DEF p
    <3>4. updates' \in Seq(OwnUpdate)
      <4>1. Blocked \in SUBSET Edges
        BY DEF Blocked
      <4> QED BY <3>1, <3>2, <3>3, <4>1, RoutePrepared DEF PriorsOfLastRequest
    <3> QED BY <2>2, <3>1, <3>3, <3>4 DEF CallsOK, PriorsOfLastRequest, graphVars
  <2> QED BY <2>3, <2>4
<1>3. CASE \/ PriorTimeout
           \/ \E e \in Edges : \E o \in Observations(e) : RuntimeObservation(e, o)
           \/ \E due \in BOOLEAN : RuntimeTick(due)
  <2>1. UNCHANGED <<request, pending, priors, graphVars>>
    BY <1>3 DEF PriorTimeout, RuntimeObservation, RuntimeTick, goalVars
  <2>2. updates' \in Seq(OwnUpdate)
    <3>1. /\ Blocked \in SUBSET Edges /\ Blocked \ Forgotten \in SUBSET Edges
          /\ {d \in Edges : edge'[d].state = "BLOCKED"} \in SUBSET Edges
      BY DEF Blocked
    <3>2. \/ UNCHANGED updates
          \/ \E b \in SUBSET Edges :
               PrepareRoute(pending, priors, b) \/ PrepareRoute(pending, {}, b)
      BY <1>3, <3>1 DEF PriorTimeout, RuntimeObservation, RuntimeTick
    <3> QED BY <3>2, PendingPrepared DEF CallsOK
  <2> QED BY <2>1, <2>2 DEF CallsOK, PriorsOfLastRequest, graphVars
\* The answers of the route server and of Nav2.
<1>4. CASE \E ok \in BOOLEAN : AfterEdgeUpdate(ok)
  <2>1. updates # <<>> /\ updates' = Tail(updates) /\ UNCHANGED <<goalVars, graphVars>>
    BY <1>4 DEF AfterEdgeUpdate
  <2> QED BY <2>1 DEF CallsOK, PriorsOfLastRequest, goalVars, graphVars
<1>5. CASE \E n \in DOMAIN navs, s, near \in BOOLEAN : OnNavigationResult(n, s, near)
  <2>1. /\ UNCHANGED <<request, priors, graph, support, candidate, adopting, updates>>
        /\ pending' \in {pending, None}
        /\ UNCHANGED rebuilds \/ Rebuild(candidate)
    BY <1>5 DEF OnNavigationResult, FinishActiveRoute
  <2>2. rebuilds' \in Seq(RebuildCall)
    BY <2>1, RebuildAsked DEF CallsOK
  <2> QED BY <2>1, <2>2 DEF CallsOK, PriorsOfLastRequest
\* The structural map.
<1>6. CASE \E m \in Maps \cup {FirstMap}, p \in BOOLEAN : StructuralMap(m, p)
  <2>1. PICK m \in Maps \cup {FirstMap}, p \in BOOLEAN : StructuralMap(m, p)
    BY <1>6
  <2>2. m \in Nat
    BY MapAssumption DEF FirstMap
  <2>3. /\ UNCHANGED <<goalVars, graph, support, adopting, updates>>
        /\ candidate' \in {candidate, m}
        /\ UNCHANGED rebuilds \/ Rebuild(m)
    BY <2>1 DEF StructuralMap
  <2>4. rebuilds' \in Seq(RebuildCall)
    BY <2>2, <2>3, RebuildAsked DEF CallsOK
  <2> QED BY <2>2, <2>3, <2>4 DEF CallsOK, PriorsOfLastRequest, goalVars
<1>7. CASE \E ok \in BOOLEAN : ServeRebuild(ok)
  <2>1. PICK ok \in BOOLEAN : ServeRebuild(ok)
    BY <1>7
  <2> DEFINE answer == IF ok THEN "ok" ELSE "error"
  <2>2. /\ rebuilds # <<>> /\ rebuilds' = [rebuilds EXCEPT ![1].answer = answer]
        /\ UNCHANGED <<goalVars, graph, support, candidate, adopting, updates>>
    BY <2>1 DEF ServeRebuild
  <2>3. rebuilds' \in Seq(RebuildCall)
    <3>1. 1 \in DOMAIN rebuilds /\ rebuilds[1] \in RebuildCall
      BY <2>2 DEF CallsOK
    <3>2. [rebuilds[1] EXCEPT !.answer = answer] \in RebuildCall
      BY <3>1 DEF RebuildCall
    <3>3. rebuilds' = [rebuilds EXCEPT ![1] = [rebuilds[1] EXCEPT !.answer = answer]]
      BY <2>2
    <3> QED BY <3>1, <3>2, <3>3 DEF CallsOK
  <2> QED BY <2>2, <2>3 DEF CallsOK, PriorsOfLastRequest, goalVars
<1>8. CASE AdoptGraph
  <2>1. /\ rebuilds # <<>> /\ rebuilds' = Tail(rebuilds)
        /\ \/ graph' = Head(rebuilds).revision /\ adopting' = {Head(rebuilds)}
           \/ UNCHANGED <<graph, adopting>>
        /\ UNCHANGED <<goalVars, support, candidate, updates>>
    BY <1>8 DEF AdoptGraph
  <2>2. Head(rebuilds) \in RebuildCall /\ Tail(rebuilds) \in Seq(RebuildCall)
    BY <2>1 DEF CallsOK
  <2>3. Head(rebuilds).revision \in Nat
    BY <2>2 DEF RebuildCall
  <2> QED BY <2>1, <2>2, <2>3 DEF CallsOK, PriorsOfLastRequest, goalVars
<1>9. CASE \E r \in adopting : AdoptSupport(r)
  <2>1. PICK r \in adopting : AdoptSupport(r)
    BY <1>9
  <2>2. /\ support' = r.revision /\ adopting' = {} /\ candidate' \in {candidate, None}
        /\ UNCHANGED <<goalVars, graph, rebuilds, updates>>
    BY <2>1 DEF AdoptSupport
  <2>3. r.revision \in Nat
    BY DEF CallsOK, RebuildCall
  <2> QED BY <2>2, <2>3 DEF CallsOK, PriorsOfLastRequest, goalVars, None
\* What touches none of this.
<1>10. CASE \/ \E ok \in BOOLEAN : OnRouteResult(ok)
            \/ \E final \in BOOLEAN : PublishProgress(final)
            \/ \E n \in DOMAIN navs, a \in BOOLEAN : OnNavigationGoalHandle(n, a)
            \/ \E e \in Edges, f \in {"occupied", "clear", "observed"} : StampAges(e, f)
            \/ PoseKnown \/ ServersReady \/ UNCHANGED vars
  <2>1. UNCHANGED <<goalVars, graphVars, updates>>
    BY <1>10 DEF OnRouteResult, PublishProgress, OnNavigationGoalHandle, StampAges, PoseKnown,
       ServersReady, vars
  <2> QED BY <2>1 DEF CallsOK, PriorsOfLastRequest, goalVars, graphVars
<1> QED
  BY <1>1, <1>2, <1>3, <1>4, <1>5, <1>6, <1>7, <1>8, <1>9, <1>10 DEF Next, Steps

\* No costs are ever sent for a goal with the priors of another one.
THEOREM OwnPriors == Spec => []PriorsOfThisRequest
<1>1. Init => CoordinatorInv
  BY DEF Init, CoordinatorInv, CallsOK, PriorsOfLastRequest, None
<1>2. CoordinatorInv => PriorsOfThisRequest
  <2> SUFFICES ASSUME CoordinatorInv, NEW i \in DOMAIN updates, NEW c \in updates[i].priors
               PROVE  c.for = updates[i].for
    BY DEF PriorsOfThisRequest
  <2>1. updates[i] \in OwnUpdate
    BY DEF CoordinatorInv, CallsOK
  <2> QED BY <2>1 DEF OwnUpdate
<1> QED BY <1>1, <1>2, CoordinatorStep, PTL DEF Spec
=============================================================================
