---------------------------- MODULE MCActivationGate ----------------------------
(***************************************************************************)
(* The activation gate under a bound on faults and resets together: two    *)
(* faults, a fault and a reset, or two resets, in any order.               *)
(***************************************************************************)
EXTENDS ActivationGate_proofs

CONSTANT MaxDisturbances

Bounded == faults' + generation' <= MaxDisturbances

BoundedSpec == Init /\ [][Next /\ Bounded]_vars
=============================================================================
