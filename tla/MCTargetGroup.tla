---------------------------- MODULE MCTargetGroup ----------------------------
(***************************************************************************)
(* Every group of up to MaxEndpoints endpoints with weights 0..MaxWeight,  *)
(* shared by two tasks for two passes through the largest table.           *)
(***************************************************************************)
EXTENDS TargetGroup

CONSTANTS MaxEndpoints, MaxWeight

MCWeightLists == UNION {[1..n -> 0..MaxWeight] : n \in 0..MaxEndpoints}

=============================================================================
