------------------------------- MODULE RiskLayer -------------------------------
(***************************************************************************)
(* The two costmap layers of bio_nav_fusion that add predicted risk to the *)
(* Global Costmap: CognitiveRiskLayer, over a fixed square of the map, and *)
(* LocalRiskGridLayer, over a grid around the robot of which only the box  *)
(* of its active cells is updated.  An update of the layered costmap asks  *)
(* every layer for the bounds of a window and then has it write its costs  *)
(* into that window; the callbacks of the layer run in another thread, in  *)
(* between.  Cells lie on a line; the private costs of a layer and its     *)
(* share of the master costmap always agree.                               *)
(***************************************************************************)
EXTENDS Integers, FiniteSets

CONSTANTS
  Layers,      \* the layers in use: "cognitive", "local"
  Cells,       \* cells of the costmap, an interval
  Grids,       \* what a message says: risk of its cells, and the robot's cell
  Confirm,     \* minimum_consecutive_active_messages
  MaxResets    \* bound: resets

VARIABLES
  layer,       \* the plugin that is loaded
  latest,      \* latest_
  epoch,       \* reset_epoch_, None until it is initialized
  resets,      \* resets of the simulation, the epoch of new messages
  active,      \* active_cells_ of the local layer
  streak,      \* active_message_streak_ of the cognitive layer
  enabled,     \* enabled_runtime_ of the local layer
  extra,       \* has_extra_bounds_
  clearing,    \* a reset callback is between its two statements
  previous,    \* the local layer's box of the last update
  risky,       \* cells with a cost of this layer
  step,        \* of the update of the layered costmap
  window,      \* the bounds of this update
  held,        \* what updateCosts has read under the lock
  refused,     \* history: updates in a row, up to 2, that began with nothing
               \* acceptable and no callback half done, and found nothing
  stray        \* history: cells written outside the box that is remembered

riskVars == <<layer, latest, epoch, resets, active, streak, enabled, extra, clearing, previous,
              risky, step, window, held, refused, stray>>
updateVars == <<previous, risky, step, window, held, refused, stray>>

None == -1
NoGrid == [cells |-> {}, strong |-> {}, at |-> 0, ok |-> FALSE, fresh |-> FALSE, epoch |-> None]
Nothing == [grid |-> NoGrid, active |-> {}, confirmed |-> FALSE]

Init ==
  /\ layer \in Layers /\ latest = NoGrid /\ epoch = None /\ resets = 0
  /\ active = {} /\ streak = 0 /\ enabled = TRUE /\ extra = FALSE /\ clearing = FALSE
  /\ previous = {} /\ risky = {} /\ step = "idle" /\ window = {}
  /\ held = Nothing /\ refused = 0 /\ stray = {}

-------------------------------------------------------------------------------
(* The callbacks. *)

\* A box is the interval around its cells.
Box(cells) == {c \in Cells : \E a, b \in cells : a <= c /\ c <= b}

\* validateGrid, validatePrior: age, geometry or schema, health, epoch, hashes.
Acceptable(grid) == grid # NoGrid /\ grid.fresh /\ grid.ok /\ grid.epoch = epoch

\* containsActiveRisk: a healthy message with a cell above its threshold.
ContainsActiveRisk(grid) == grid.ok /\ grid.strong # {}

\* gridCallback, priorCallback.  The epoch of the first message is latched.  A
\* message that is old when it comes expires at once.
Receive ==
  \E grid \in Grids, ok \in BOOLEAN, e \in 0..resets :
    LET message == [cells |-> grid.cells, strong |-> grid.strong, at |-> grid.at,
                    ok |-> ok, fresh |-> TRUE, epoch |-> e]
    IN /\ latest' = message
       /\ epoch' = IF epoch = None THEN e ELSE epoch
       /\ IF layer = "cognitive"
            THEN /\ streak' = IF ~ContainsActiveRisk(message) THEN 0
                              ELSE IF streak < Confirm THEN streak + 1 ELSE Confirm
                 /\ extra' = TRUE
            ELSE UNCHANGED <<streak, extra>>
       /\ UNCHANGED <<layer, resets, active, enabled, clearing, updateVars>>

\* Mutant of ResetAll: the square is not marked for an update.
ResetAllUnmarked == /\ clearing' = FALSE /\ UNCHANGED extra

\* addExtraBounds, which resetCallback calls after it has given the lock back.
ResetAll == /\ clearing' = FALSE /\ extra' = TRUE

\* resetCallback
ResetEvent ==
  /\ ~clearing /\ resets < MaxResets /\ resets' = resets + 1
  /\ epoch' = IF epoch = None THEN None ELSE epoch + 1
  /\ latest' = NoGrid /\ active' = {} /\ streak' = 0
  /\ clearing' = (layer = "cognitive")
  /\ UNCHANGED <<layer, enabled, extra, updateVars>>

ResetMarks ==
  /\ clearing /\ ResetAll
  /\ UNCHANGED <<layer, latest, epoch, resets, active, streak, enabled, updateVars>>

\* reset(), as a clear service of Nav2 calls it: not during an update.
ClearCostmap ==
  /\ step = "idle"
  /\ latest' = NoGrid /\ active' = {} /\ streak' = 0
  /\ risky' = {} /\ stray' = {}
  /\ extra' = (extra \/ layer = "cognitive")
  /\ UNCHANGED <<layer, epoch, resets, enabled, clearing, previous, step, window, held, refused>>

\* onParametersSet
SetEnabled ==
  /\ layer = "local" /\ enabled' = ~enabled
  /\ UNCHANGED <<layer, latest, epoch, resets, active, streak, extra, clearing, updateVars>>

\* The age of the last message, or of the one an update has read, reaches its
\* limit (external).
Expire ==
  /\ \/ latest.fresh /\ latest' = [latest EXCEPT !.fresh = FALSE] /\ UNCHANGED held
     \/ held.grid.fresh /\ held' = [held EXCEPT !.grid.fresh = FALSE] /\ UNCHANGED latest
  /\ UNCHANGED <<layer, epoch, resets, active, streak, enabled, extra, clearing, previous, risky,
                 step, window, refused, stray>>

-------------------------------------------------------------------------------
(* The update of the layered costmap. *)

\* Cells above the threshold, which is lower for a cell that is active already.
Raised(grid, before) == grid.strong \cup (grid.cells \cap before)

Projected(cells, at) == {c + at : c \in cells} \cap Cells

\* useExtraBounds
Begin ==
  /\ step = "idle" /\ step' = "bounds"
  /\ window' = (IF extra THEN Cells ELSE {}) /\ extra' = FALSE
  /\ refused' = IF clearing \/ (enabled /\ Acceptable(latest)) THEN 0
                ELSE IF refused = 2 THEN 2 ELSE refused + 1
  /\ UNCHANGED <<layer, latest, epoch, resets, active, streak, enabled, clearing, previous,
                 risky, held, stray>>

\* Mutant of Asked: the box of the last update is forgotten.
AskedForNew(current) ==
  IF layer = "local" THEN Box(current) ELSE IF latest # NoGrid THEN Cells ELSE {}

\* updateBounds: what the layer touches; current is the box of the message.
Asked(current) ==
  IF layer = "local" THEN previous \cup current ELSE IF latest # NoGrid THEN Cells ELSE {}

\* updateBounds of the layer, and the bounds of the others; without bounds
\* there is no updateCosts.  tf: the transform at the stamp is known.
UpdateBounds ==
  /\ step = "bounds"
  /\ \E tf \in BOOLEAN, others \in {{}, Cells} :
       LET current == IF layer = "local" /\ enabled /\ tf /\ Acceptable(latest)
                        THEN Box(Projected(Raised(latest, active), latest.at)) ELSE {}
       IN /\ previous' = current
          /\ window' = Box(window \cup Asked(current) \cup others)
          /\ step' = IF window' = {} THEN "idle" ELSE "costs"
  /\ UNCHANGED <<layer, latest, epoch, resets, active, streak, enabled, extra, clearing, risky,
                 held, refused, stray>>

\* updateCosts, up to where it gives the lock back: the cognitive layer has
\* validated the message by then, the local one has not.
ReadGrid ==
  /\ step = "costs" /\ step' = "write"
  /\ held' = [grid |-> IF layer = "local" \/ Acceptable(latest) THEN latest ELSE NoGrid,
              active |-> active, confirmed |-> streak >= Confirm]
  /\ UNCHANGED <<layer, latest, epoch, resets, active, streak, enabled, extra, clearing, previous,
                 risky, window, refused, stray>>

Valid == IF layer = "local" THEN enabled /\ Acceptable(held.grid) ELSE held.grid # NoGrid

\* The cells updateCosts raises for the message it has read.
RaisedCells(tf) ==
  IF layer = "local" THEN IF Valid /\ tf THEN Raised(held.grid, held.active) ELSE {}
  ELSE IF Valid /\ held.confirmed THEN held.grid.strong ELSE {}

\* The rest of updateCosts: the window is rebuilt.  The cost of a message of
\* the cognitive layer may have decayed to nothing.
UpdateCosts ==
  /\ step = "write" /\ step' = "idle"
  /\ \E tf \in BOOLEAN :
       LET cells == RaisedCells(tf)
           written == window \cap Projected(cells, held.grid.at)
       IN /\ active' = IF layer = "local" THEN cells ELSE active
          /\ risky' \in {(risky \ window) \cup w :
                          w \in {written} \cup (IF layer = "local" THEN {} ELSE {{}})}
          /\ stray' = IF layer = "local" THEN (stray \ window) \cup (written \ previous) ELSE {}
          /\ refused' = IF Valid THEN 0 ELSE refused
  /\ held' = Nothing
  /\ UNCHANGED <<layer, latest, epoch, resets, streak, enabled, extra, clearing, previous,
                 window>>

Next ==
  \/ Receive \/ ResetEvent \/ ResetMarks \/ ClearCostmap \/ SetEnabled \/ Expire
  \/ Begin \/ UpdateBounds \/ ReadGrid \/ UpdateCosts

Spec == Init /\ [][Next]_riskVars

-------------------------------------------------------------------------------
(* Properties *)

\* After an update of the local layer that began and ended without an acceptable
\* message no cell of the layer is left, whatever its callbacks do between the two
\* halves of an update, "在下一周期清空整层" (module2_nav2_planning_risk_fusion.md:50:
\* the whole layer is cleared in the next cycle); but for cells that it has written
\* outside the box it remembers, because a message arrived in between: with these
\* the code deviates from the document.  The cognitive layer, of which the document
\* does not speak, takes two: a reset can empty the bounds of the first.
RejectedIsCleared ==
  step = "idle" /\ refused >= (IF layer = "local" THEN 1 ELSE 2) => risky \subseteq stray
===============================================================================
