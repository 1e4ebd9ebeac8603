----------------------------- MODULE ResetContract -----------------------------
(***************************************************************************)
(* What the reset bridge promises to whoever listens to                    *)
(* /simulation/reset_event, without its hooks, futures and timers: one     *)
(* reset at a time, an epoch is announced by a reset that is still running *)
(* and only when no call of any reset can change an estimator or a costmap *)
(* any more, a new reset starts from the same quiet, and every reset ends. *)
(***************************************************************************)
EXTENDS Naturals

VARIABLES turn,         \* how many resets have begun
          running,      \* the last one has not ended
          outstanding,  \* a submitted call is not known to be settled
          epochs        \* the resets that were announced

vars == <<turn, running, outstanding, epochs>>

Init == turn = 0 /\ running = FALSE /\ outstanding = FALSE /\ epochs = {}

Begin ==
  /\ ~running /\ ~outstanding
  /\ turn' = turn + 1 /\ running' = TRUE
  /\ UNCHANGED <<outstanding, epochs>>

Submit ==
  /\ running /\ outstanding' = TRUE
  /\ UNCHANGED <<turn, running, epochs>>

Settle ==
  /\ outstanding' = FALSE
  /\ UNCHANGED <<turn, running, epochs>>

Announce ==
  /\ running /\ ~outstanding
  /\ running' = FALSE /\ epochs' = epochs \cup {turn}
  /\ UNCHANGED <<turn, outstanding>>

\* A failure, a timeout or a shutdown; a shutdown gives the calls up.
Abort ==
  /\ running /\ running' = FALSE
  /\ outstanding' \in {outstanding, FALSE}
  /\ UNCHANGED <<turn, epochs>>

Next == Begin \/ Submit \/ Settle \/ Announce \/ Abort

Safety == Init /\ [][Next]_vars

Spec == Safety /\ WF_vars(Announce \/ Abort)
=============================================================================
