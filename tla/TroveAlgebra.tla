---------------------------- MODULE TroveAlgebra ----------------------------
(***************************************************************************)
(* The arithmetic of lib-base on Troves, fees, stability deposits and      *)
(* stakes (Trove.ts, Fees.ts, StabilityDeposit.ts, ProtocolTokenStake.ts): *)
(* what changed between two states, and what a change makes of a state.    *)
(* An exception is the value Thrown.                                       *)
(***************************************************************************)
EXTENDS FixedPoint

CONSTANTS       \* lib-base/src/constants.ts and the contracts' parameters
    LIQUIDATION_RESERVE, MINIMUM_NET_DEBT,
    MINIMUM_COLLATERAL_RATIO, CRITICAL_COLLATERAL_RATIO,
    MINIMUM_BORROWING_RATE, MAXIMUM_BORROWING_RATE, MINIMUM_REDEMPTION_RATE,
    MinuteDecayFactor, Beta

ASSUME ParametersAssumption ==
    /\ {LIQUIDATION_RESERVE, MINIMUM_NET_DEBT} \subseteq Nat \ {0}
    /\ {MINIMUM_BORROWING_RATE, MAXIMUM_BORROWING_RATE,
        MINIMUM_REDEMPTION_RATE, MinuteDecayFactor, Beta} \subseteq Nat
    /\ {MINIMUM_COLLATERAL_RATIO, CRITICAL_COLLATERAL_RATIO} \subseteq Nat \ {0}
    /\ MinuteDecayFactor < ONE /\ MAXIMUM_BORROWING_RATE <= ONE

MINIMUM_DEBT == LIQUIDATION_RESERVE + MINIMUM_NET_DEBT

-----------------------------------------------------------------------------
(* Troves                                                                  *)

Trove(collateral, debt) == [collateral |-> collateral, debt |-> debt]
EmptyTrove == Trove(0, 0)
Troves == [collateral : Nat, debt : Nat]

IsEmpty(t) == t.collateral = 0 /\ t.debt = 0
Less(a, b) == IF a > b THEN a - b ELSE 0
Plus(s, t) == Trove(s.collateral + t.collateral, s.debt + t.debt)
Subtract(s, t) == Trove(Less(s.collateral, t.collateral), Less(s.debt, t.debt))
Multiply(t, k) == Trove(Mul(t.collateral, k), Mul(t.debt, k))

\* The getter netDebt throws "should not be used when debt < 20".
NetDebtThrows(t) == t.debt < LIQUIDATION_RESERVE
NetDebt(t) == t.debt - LIQUIDATION_RESERVE

CollateralRatio(t, price) == MulDiv(t.collateral, price, t.debt)
IsBelowMinimum(t, price) == CollateralRatio(t, price) < MINIMUM_COLLATERAL_RATIO
IsBelowCritical(t, price) == CollateralRatio(t, price) < CRITICAL_COLLATERAL_RATIO

\* TroveWithPendingRedistribution.applyRedistribution()
ApplyRedistribution(t, stake, snapshot, total) ==
    Plus(t, Multiply(Subtract(total, snapshot), stake))

ApplyFee(rate, increase) == Mul(increase, ONE + rate)
UnapplyFee(rate, increase) == DivCeil(increase, ONE + rate)

(***************************************************************************)
(* A change: its type and its parameters, Absent where there is none.      *)
(***************************************************************************)
Change(type, deposit, withdraw, borrow, repay, zeroed) ==
    [type |-> type, depositCollateral |-> deposit,
     withdrawCollateral |-> withdraw, borrowDebtToken |-> borrow,
     repayDebtToken |-> repay, setToZero |-> zeroed, invalidTrove |-> EmptyTrove]

NoChange == Change("none", Absent, Absent, Absent, Absent, "none")

DebtChange(from, to, rate) ==
    IF to.debt > from.debt
    THEN [borrow |-> UnapplyFee(rate, to.debt - from.debt), repay |-> Absent]
    ELSE [borrow |-> Absent, repay |-> from.debt - to.debt]

CollateralChange(from, to) ==
    IF to.collateral > from.collateral
    THEN [deposit |-> to.collateral - from.collateral, withdraw |-> Absent]
    ELSE [deposit |-> Absent, withdraw |-> from.collateral - to.collateral]

Adjustment(from, to, rate) ==
    LET d == IF from.debt = to.debt THEN [borrow |-> Absent, repay |-> Absent]
             ELSE DebtChange(from, to, rate)
        c == IF from.collateral = to.collateral
             THEN [deposit |-> Absent, withdraw |-> Absent]
             ELSE CollateralChange(from, to)
        debtZeroed == from.debt # to.debt /\ to.debt = 0
        collateralZeroed == from.collateral # to.collateral /\ to.collateral = 0
    IN Change("adjustment", c.deposit, c.withdraw, d.borrow, d.repay,
              IF debtZeroed THEN "debt"
              ELSE IF collateralZeroed THEN "collateral" ELSE "none")

WhatChanged(from, to, rate) ==
    IF from = to THEN NoChange
    ELSE IF IsEmpty(from) THEN
        IF to.debt < LIQUIDATION_RESERVE
        THEN [Change("invalidCreation", Absent, Absent, Absent, Absent, "none")
                  EXCEPT !.invalidTrove = to]
        ELSE Change("creation", to.collateral, Absent,
                    UnapplyFee(rate, NetDebt(to)), Absent, "none")
    ELSE IF IsEmpty(to) THEN
        Change("closure", Absent, from.collateral, Absent,
               IF NetDebt(from) = 0 THEN Absent ELSE NetDebt(from), "none")
    ELSE Adjustment(from, to, rate)

OrZero(amount) == IF amount = Absent THEN 0 ELSE amount

\* apply() of an adjustment: increases before decreases, which clamp at zero.
Adjusted(t, change, rate) ==
    LET up   == Trove(OrZero(change.depositCollateral),
                      IF change.borrowDebtToken = Absent THEN 0
                      ELSE ApplyFee(rate, change.borrowDebtToken))
        down == Trove(OrZero(change.withdrawCollateral),
                      OrZero(change.repayDebtToken))
        all  == Subtract(Plus(t, up), down)
    IN CASE change.setToZero = "collateral" -> [all EXCEPT !.collateral = 0]
         [] change.setToZero = "debt"       -> [all EXCEPT !.debt = 0]
         [] OTHER                           -> all

\* "Can't create onto existing Trove", "Can't close empty Trove".
ApplyThrows(t, change) ==
    \/ change.type \in {"creation", "invalidCreation"} /\ ~IsEmpty(t)
    \/ change.type = "closure" /\ IsEmpty(t)

Thrown == Trove(-1, -1)

Apply(t, change, rate) ==
    IF ApplyThrows(t, change) THEN Thrown
    ELSE CASE change.type = "none"            -> t
           [] change.type = "invalidCreation" -> change.invalidTrove
           [] change.type = "creation"        ->
                 Trove(change.depositCollateral, LIQUIDATION_RESERVE
                           + ApplyFee(rate, change.borrowDebtToken))
           [] change.type = "closure"         -> EmptyTrove
           [] OTHER                           -> Adjusted(t, change, rate)

(***************************************************************************)
(* _normalizeTroveCreation() and _normalizeTroveAdjustment(): what the     *)
(* parameters given by a caller must be for the transaction to be built.   *)
(* Zeroes are dropped from an adjustment, not from a creation.             *)
(***************************************************************************)
CreationThrows(p) ==
    \/ p.withdrawCollateral # Absent \/ p.repayDebtToken # Absent
    \/ p.depositCollateral = Absent \/ p.borrowDebtToken = Absent

NonZero(amount) == IF amount = 0 THEN Absent ELSE amount

NormalizedAdjustment(p) ==
    [p EXCEPT !.depositCollateral = NonZero(@), !.withdrawCollateral = NonZero(@),
              !.borrowDebtToken = NonZero(@), !.repayDebtToken = NonZero(@)]

AdjustmentThrows(p) ==
    LET n == NormalizedAdjustment(p)
    IN \/ n.depositCollateral # Absent /\ n.withdrawCollateral # Absent
       \/ n.borrowDebtToken # Absent /\ n.repayDebtToken # Absent
       \/ \A f \in {"depositCollateral", "withdrawCollateral",
                    "borrowDebtToken", "repayDebtToken"} : n[f] = Absent

-----------------------------------------------------------------------------
(* Fees.  Times are minutes; a clock behind the last operation counts as 0. *)

BaseRate(fees, when) ==
    Mul(Pow(MinuteDecayFactor, Less(when, fees.lastFeeOperation)), fees.base)

BorrowingRate(fees, when) ==
    IF fees.recoveryMode THEN 0
    ELSE Smaller(MINIMUM_BORROWING_RATE + BaseRate(fees, when),
                 MAXIMUM_BORROWING_RATE)

RedemptionRate(fees, fraction, when) ==
    LET grown == IF fraction = 0 THEN BaseRate(fees, when)
                 ELSE Div(fraction, Beta) + BaseRate(fees, when)
    IN Smaller(MINIMUM_REDEMPTION_RATE + grown, ONE)

-----------------------------------------------------------------------------
(* Stability deposits and stakes: one amount that goes up or down.         *)

NoAmountChange == [up |-> Absent, down |-> Absent, all |-> FALSE]

AmountChanged(from, to) ==
    IF to < from THEN [up |-> Absent, down |-> from - to, all |-> to = 0]
    ELSE IF to > from THEN [up |-> to - from, down |-> Absent, all |-> FALSE]
    ELSE NoAmountChange

ApplyAmount(current, change) ==
    IF change = NoAmountChange THEN current
    ELSE IF change.down # Absent
         THEN IF change.all \/ current <= change.down THEN 0
              ELSE current - change.down
         ELSE current + change.up

Deposits == {d \in [initial : Nat, current : Nat, gain : Nat, reward : Nat] :
                 d.current <= d.initial}
DepositIsEmpty(d) ==
    d.initial = 0 /\ d.current = 0 /\ d.gain = 0 /\ d.reward = 0
=============================================================================
