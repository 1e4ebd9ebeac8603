----------------------------- MODULE MCResetBridge -----------------------------
(***************************************************************************)
(* The reset bridge under a bound on resets and time together: the clock   *)
(* moves and scans are taken during the earlier resets, and the last reset *)
(* comes when the clock has not moved yet.                                 *)
(***************************************************************************)
EXTENDS ResetBridge_proofs

Bounded == generation' = MaxGeneration => sim' = 0 /\ epoch' = 0 /\ scans' = {}

BoundedSpec ==
  /\ Init /\ [][Next /\ Bounded]_vars
  /\ WF_vars(Hook /\ Bounded) /\ WF_vars(Timeout /\ Bounded)
=============================================================================
