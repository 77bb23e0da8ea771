----------------------------- MODULE MCSubgraph ------------------------------
(***************************************************************************)
(* Model checking Subgraph: one instance for troves, where users are       *)
(* interchangeable, and one for the pool, the stakes and the tokens, where *)
(* they are not (the contracts charge a loss to depositors in some order). *)
(***************************************************************************)
EXTENDS Subgraph

UserSymmetry == Permutations(Users)
=============================================================================
