---------------------------- MODULE MCStakingView ----------------------------
(***************************************************************************)
(* Model checking StakingView: one button made with <Transaction>, and the *)
(* staking panel's own buttons for changing the stake and claiming gains.  *)
(***************************************************************************)
EXTENDS StakingView

CONSTANTS liquidate, change, claim

MCId(t) == IF t = liquidate THEN "liquidate" ELSE "stake"
MCClaims(t) == t = claim
=============================================================================
