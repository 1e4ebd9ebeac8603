------------------------------ MODULE RouteTracker ------------------------------
(***************************************************************************)
(* The position of the robot along the canonical route                     *)
(* (robot_route_planner/tracking.py).  Each update projects the robot onto *)
(* the edges of a window that starts at the tracked edge, and moves the    *)
(* tracked edge and arc length with a hysteresis forwards and a bounded    *)
(* step backwards.                                                         *)
(*                                                                         *)
(* An edge is one segment along an axis of an integer grid, so projections *)
(* are exact; distances are squared, which keeps their order.              *)
(***************************************************************************)
EXTENDS Integers

CONSTANTS EdgeCount,     \* len(edges)
          From, To,      \* per edge: the ends of its polyline, pairs x, y
          Offsets,       \* offsets: the arc length at which an edge begins
          Window,        \* projection_edge_window
          MaxBacktrack,  \* max_backtrack_m
          Hysteresis,    \* advance_hysteresis_m
          Positions      \* bound: where the robot may be

Edge == 0..(EdgeCount - 1)
Magnitude(a) == IF a < 0 THEN -a ELSE a
EdgeLength(e) == Magnitude(To[e][1] - From[e][1]) + Magnitude(To[e][2] - From[e][2])

ASSUME RouteAssumption ==
  /\ EdgeCount \in Nat \ {0}
  /\ From \in [Edge -> Int \X Int] /\ To \in [Edge -> Int \X Int]
  /\ \A e \in Edge : From[e][1] = To[e][1] \/ From[e][2] = To[e][2]
  /\ Offsets \in [0..EdgeCount -> Nat] /\ Offsets[0] = 0
  /\ \A e \in Edge : Offsets[e + 1] = Offsets[e] + EdgeLength(e)

ASSUME SettingsAssumption ==
  /\ Window \in Nat \ {0} /\ MaxBacktrack \in Nat /\ Hysteresis \in Nat
  /\ Positions \subseteq Int \X Int

VARIABLES trackedEdge,  \* edge_index
          progress      \* progress_m

trackerVars == <<trackedEdge, progress>>

TrackerInit == trackedEdge = 0 /\ progress = 0

Clamp(a, low, high) == IF a < low THEN low ELSE IF a > high THEN high ELSE a
Sign(a) == IF a < 0 THEN -1 ELSE IF a > 0 THEN 1 ELSE 0

Heading(e) == <<Sign(To[e][1] - From[e][1]), Sign(To[e][2] - From[e][2])>>

\* _project: the arc length of the projection along the edge, and how far away
\* it is.
LocalArc(e, p) ==
  Clamp((p[1] - From[e][1]) * Heading(e)[1] + (p[2] - From[e][2]) * Heading(e)[2], 0, EdgeLength(e))

Lateral(e, p) ==
  LET x == From[e][1] + LocalArc(e, p) * Heading(e)[1] - p[1]
      y == From[e][2] + LocalArc(e, p) * Heading(e)[2] - p[2] IN
  x * x + y * y

GlobalArc(e, p) == Offsets[e] + LocalArc(e, p)

Candidates(p) ==
  {e \in Edge : /\ e \in trackedEdge..(trackedEdge + Window - 1)
                /\ GlobalArc(e, p) >= progress - MaxBacktrack}

\* Tuples are compared: the closest, of those the farthest along, of those the
\* first.
Better(e, f, p) ==
  \/ Lateral(e, p) < Lateral(f, p)
  \/ /\ Lateral(e, p) = Lateral(f, p)
     /\ GlobalArc(e, p) > GlobalArc(f, p) \/ (GlobalArc(e, p) = GlobalArc(f, p) /\ e <= f)

Best(e, p) == e \in Candidates(p) /\ \A f \in Candidates(p) : Better(e, f, p)

Later(a, b) == IF a > b THEN a ELSE b

\* Mutant of MoveTo: the arc of the later edge is kept with the tracked one.
MoveToUnprojected(e, p) ==
  /\ trackedEdge' = IF e > trackedEdge /\ GlobalArc(e, p) < Offsets[e] + Hysteresis
                    THEN trackedEdge ELSE e
  /\ progress' = Later(progress - MaxBacktrack, GlobalArc(e, p))

\* A later edge counts once the robot is beyond its beginning by the
\* hysteresis; before that the robot is projected onto the tracked edge.
MoveTo(e, p) ==
  /\ trackedEdge' = IF e > trackedEdge /\ GlobalArc(e, p) < Offsets[e] + Hysteresis
                    THEN trackedEdge ELSE e
  /\ progress' = Later(progress - MaxBacktrack, GlobalArc(trackedEdge', p))

\* update; without a candidate nothing moves.
TrackPosition(p) ==
  IF Candidates(p) = {} THEN UNCHANGED trackerVars ELSE \E e \in Edge : Best(e, p) /\ MoveTo(e, p)

TrackerNext == \E p \in Positions : TrackPosition(p)

TrackerSpec == TrackerInit /\ [][TrackerNext]_trackerVars

-------------------------------------------------------------------------------
\* The edge and the arc length that RouteProgress reports agree, however the
\* robot leaves the route, cuts corners or reverses: the look-ahead is taken at
\* the arc length, the cognitive map is told the edge.
OnTrackedEdge ==
  /\ trackedEdge \in Edge
  /\ progress \in Offsets[trackedEdge]..Offsets[trackedEdge + 1]
=============================================================================
