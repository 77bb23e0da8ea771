-------------------------- MODULE MCRedemptionPanel --------------------------
(* Three blocks: the second changes the balance only, the third the price   *)
(* only.  Amounts that cannot be redeemed, can be redeemed whole, and are   *)
(* truncated until the lowest Trove changes.                                *)
EXTENDS RedemptionPanel

MCSelection == << [price |-> 1, debtTokenBalance |-> 400],
                  [price |-> 1, debtTokenBalance |-> 300],
                  [price |-> 2, debtTokenBalance |-> 300] >>

Answered(from400) == [a \in Amounts |-> CASE a = 100 -> 0 [] a = 400 -> from400 [] OTHER -> a]

MCTruncated == << Answered(250), Answered(400), Answered(400) >>
=============================================================================
