----------------------------- MODULE MCTransact -----------------------------
(* Scale of one hundredth; the own Trove is 3, the others lie around the   *)
(* debts that its loan decays through.                                     *)
EXTENDS Transact, TLC

Others == 1 :> Trove(5000, 1061) @@ 2 :> Trove(5000, 1068) @@ 4 :> Trove(5000, 1075)
          @@ 5 :> Trove(5000, 1082) @@ 6 :> Trove(5000, 1095)

Chain(base, troves) ==
    [minute |-> 1, lastFeeOperation |-> 1, baseRate |-> base, price |-> 100,
     gain |-> 10, troves |-> troves, due |-> FALSE]

MCChains == {Chain(8, Others), Chain(8, Others @@ 3 :> Trove(5000, 1090)),
             Chain(0, 1 :> Trove(5000, 400) @@ 3 :> Trove(3000, 900))}

MCNew == 2 :> Trove(5000, 1072) @@ 7 :> Trove(5000, 1078)

C(function, change, amount, rate, limit) ==
    [function |-> function, change |-> change, amount |-> amount,
     maxRate |-> rate, minutes |-> 2, gasLimit |-> limit]

Fun(function) == C(function, NoChange, 0, Absent, Absent)
Adjust(d, w, b, r) == Change("adjustment", d, w, b, r, "none")

MCCalls ==
    {C("openTrove", Change("creation", 5000, Absent, 1000, Absent, "none"), 0, Absent, l) :
        l \in {Absent, 300000}}
    \cup {C("adjustTrove", ch, 0, Absent, Absent) :
        ch \in {Adjust(Absent, Absent, 100, Absent), Adjust(Absent, Absent, 0, 50),
                Adjust(Absent, 100, 100, Absent), Adjust(10, Absent, Absent, Absent),
                Adjust(10, 10, Absent, Absent)}}
    \cup {C("adjustTrove", Adjust(Absent, Absent, Absent, 2000), 0, Absent, 300000)}
    \cup {C("redeemDebtToken", NoChange, a, r, Absent) :
        a \in {1500, 1075, 4000}, r \in {Absent, 30}}
    \cup {Fun("closeTrove"), Fun("transferCollateralGainToTrove"),
          Fun("sendDebtToken"), Fun("depositDebtTokenInStabilityPool"),
          Fun("stakeUniTokens")}
=============================================================================
