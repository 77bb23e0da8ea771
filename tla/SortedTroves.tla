---------------------------- MODULE SortedTroves ----------------------------
(***************************************************************************)
(* What the protocol's contracts do with a transaction, as far as the SDK  *)
(* relies on it (they are not in the repository): the list of Troves in    *)
(* descending order of their nominal collateral ratio, borrowing,          *)
(* redemption, and the gas these take.  A chain is a record of             *)
(*   minute, lastFeeOperation    the clock, in minutes                     *)
(*   baseRate, price, gain       gain: what the own deposit has earned     *)
(*   troves                      the open ones, by their owners' addresses *)
(*   due                         an issuance or a reward update is due     *)
(***************************************************************************)
EXTENDS TroveAlgebra, Sequences, FiniteSets, Functions

CONSTANTS
    Own,                \* the user's address; addresses are positive numbers
    BaseGas,            \* what every transaction takes
    redeemMaxIterations

ASSUME ListAssumption ==
    Own \in Nat \ {0} /\ BaseGas \in Nat /\ redeemMaxIterations \in Nat

AddressZero == 0

NominalRatio(t) == MulDiv(t.collateral, 100 * DIGITS, t.debt)

Owners(c) == DOMAIN c.troves
RatioOf(c, owner) == NominalRatio(c.troves[owner])

\* No open Trove has less than the minimum debt.
OpenTroves == {t \in Troves : MINIMUM_DEBT <= t.debt}

IsChain(c) ==
    /\ c \in [minute : Nat, lastFeeOperation : Nat, baseRate : Nat, price : Nat,
              gain : Nat, troves : {c.troves}, due : BOOLEAN]
    /\ IsFiniteSet(Owners(c)) /\ Owners(c) \subseteq Nat \ {AddressZero}
    /\ c.troves \in [Owners(c) -> OpenTroves]

\* The list: ties are broken by the addresses.
InFront(c, owner) ==
    {o \in Owners(c) : \/ RatioOf(c, o) > RatioOf(c, owner)
                       \/ RatioOf(c, o) = RatioOf(c, owner) /\ o < owner}

Place(c, owner) == Cardinality(InFront(c, owner)) + 1

\* The owner at a place of the list, address(0) outside of it.
At(c, place) ==
    IF place \in 1..Cardinality(Owners(c))
    THEN CHOOSE o \in Owners(c) : Place(c, o) = place ELSE AddressZero

GetFirst(c) == At(c, 1)
GetPrev(c, owner) ==
    IF owner \in Owners(c) THEN At(c, Place(c, owner) - 1) ELSE AddressZero
GetNext(c, owner) ==
    IF owner \in Owners(c) THEN At(c, Place(c, owner) + 1) ELSE AddressZero

Above(c, ratio) == Cardinality({o \in Owners(c) : RatioOf(c, o) >= ratio})

FindInsertPosition(c, ratio) ==
    <<At(c, Above(c, ratio)), At(c, Above(c, ratio) + 1)>>

Without(c, owner) ==
    [c EXCEPT !.troves = Restrict(@, DOMAIN @ \ {owner})]

With(c, owner, t) ==
    [c EXCEPT !.troves = [o \in Owners(c) \cup {owner} |->
                             IF o = owner THEN t ELSE c.troves[o]]]

\* How far an insertion walks from its hints: one that is not in the list, or
\* lies on the wrong side, is of no use; without any it starts at the head.
Hops(c, ratio, hints) ==
    LET upper  == hints[1] \in Owners(c) /\ RatioOf(c, hints[1]) >= ratio
        lower  == hints[2] \in Owners(c) /\ RatioOf(c, hints[2]) <= ratio
        target == Above(c, ratio)
        Gap(a, b) == IF a > b THEN a - b ELSE b - a
    IN IF upper THEN IF lower /\ Place(c, hints[2]) = Place(c, hints[1]) + 1
                     THEN 0 ELSE Gap(target, Place(c, hints[1]))
       ELSE IF lower THEN Gap(target + 1, Place(c, hints[2]))
       ELSE target

(***************************************************************************)
(* Gas, from the comments of PopulatableEthers.ts: "first traversal in     *)
(* ascending direction takes ~50K, then ~13.5K per extra step", "takes     *)
(* ~6-7K to update lastFeeOperationTime, but the cost of calculating the   *)
(* decayed baseRate increases logarithmically with time elapsed".          *)
(***************************************************************************)
Log2Ceiling(n) == CHOOSE k \in 0..n : 2 ^ k >= n /\ \A j \in 0..k - 1 : 2 ^ j < n

WalkGas(hops) == IF hops = 0 THEN 0 ELSE 50000 + 13500 * (hops - 1)

BaseRateGas(c) ==
    LET elapsed == Less(c.minute, c.lastFeeOperation)
    IN IF elapsed = 0 THEN 0 ELSE 7000 + 1414 * Log2Ceiling(elapsed + 1)

IssuanceGas(c) == IF c.due THEN 50000 ELSE 0
UnipoolGas(c)  == IF c.due THEN 20000 ELSE 0

Total(c) == FoldFunction(Plus, EmptyTrove, c.troves)
RecoveryMode(c) == IsBelowCritical(Total(c), c.price)

Fees(c) == [base |-> c.baseRate, lastFeeOperation |-> c.lastFeeOperation,
            recoveryMode |-> RecoveryMode(c)]

\* A fee operation stores the decayed base rate, at most once a minute.
FeeOperation(c, baseRate) ==
    [c EXCEPT !.baseRate = baseRate,
              !.lastFeeOperation = IF c.minute > @ THEN c.minute ELSE @]

-----------------------------------------------------------------------------
(* Transactions: the chain after, the gas and the logs, or a reason not to. *)

Refused(c, why) == [ok |-> FALSE, why |-> why, chain |-> c, gas |-> 0, logs |-> <<>>]
Done(c, gas, logs) == [ok |-> TRUE, why |-> "", chain |-> c, gas |-> gas, logs |-> logs]
Log(address, name, args) == [address |-> address, name |-> name, args |-> args]

SafeEnough(c, t, after) ==
    IF RecoveryMode(c) THEN ~IsBelowCritical(t, c.price)
    ELSE ~IsBelowMinimum(t, c.price) /\ ~RecoveryMode(after)

\* openTrove() and adjustTrove() of BorrowerOperations.
BorrowAt(c, tx, rate, trove, next) ==
    LET borrows == tx.change.borrowDebtToken # Absent
        fee     == IF borrows THEN Mul(rate, tx.change.borrowDebtToken) ELSE 0
    IN IF borrows /\ rate > tx.maxRate THEN Refused(c, "fee")
       ELSE IF trove.debt < MINIMUM_DEBT THEN Refused(c, "debt")
       ELSE IF ~SafeEnough(c, trove, next) THEN Refused(c, "ratio")
       ELSE Done(next,
                 BaseGas
                     + WalkGas(Hops(Without(c, Own), NominalRatio(trove), tx.hints))
                     + (IF borrows THEN BaseRateGas(c) ELSE 0),
                 <<Log("troveManager", "TroveUpdated", EmptyTrove),
                   Log("borrowerOperations", "TroveUpdated", trove),
                   Log("borrowerOperations", "DebtTokenBorrowingFeePaid", fee)>>)

BorrowTrove(c, tx, rate, trove) ==
    BorrowAt(c, tx, rate, trove,
             With(IF tx.change.borrowDebtToken = Absent THEN c
                  ELSE FeeOperation(c, BaseRate(Fees(c), c.minute)), Own, trove))

BorrowRate(c, tx, rate) ==
    LET opens  == tx.change.type = "creation"
        before == IF opens THEN EmptyTrove ELSE c.troves[Own]
    IN IF opens = (Own \in Owners(c)) THEN Refused(c, "status")
       ELSE BorrowTrove(c, tx, rate, Apply(before, tx.change, rate))

Borrow(c, tx) == BorrowRate(c, tx, BorrowingRate(Fees(c), c.minute))

Close(c) ==
    IF Own \notin Owners(c) \/ RecoveryMode(c) \/ Cardinality(Owners(c)) = 1
    THEN Refused(c, "status")
    ELSE Done(Without(c, Own), BaseGas,
              <<Log("debtToken", "Transfer", NetDebt(c.troves[Own])),
                Log("activePool", "FILSent", c.troves[Own].collateral)>>)

\* withdrawFILGainToTrove() of StabilityPool.
MoveGain(c, tx) ==
    LET trove == Plus(c.troves[Own], Trove(c.gain, 0))
    IN IF Own \notin Owners(c) \/ c.gain = 0 THEN Refused(c, "status")
       ELSE Done([With(c, Own, trove) EXCEPT !.gain = 0, !.due = FALSE],
                 BaseGas + IssuanceGas(c)
                     + WalkGas(Hops(Without(c, Own), NominalRatio(trove), tx.hints)),
                 <<Log("stabilityPool", "FILGainWithdrawn", c.gain),
                   Log("borrowerOperations", "TroveUpdated", trove)>>)

(***************************************************************************)
(* Redemption goes through the Troves from the lowest ratio up, leaving    *)
(* out those below the minimum; it ends at the first it cannot clear.      *)
(***************************************************************************)
Redeemable(c, price) ==
    {o \in Owners(c) : ~IsBelowMinimum(c.troves[o], price)}

\* The Troves in the order of their turns.
Turns(c, troves) ==
    [k \in 1..Cardinality(troves) |->
        CHOOSE o \in troves :
            Cardinality(troves \cap InFront(c, o)) = Cardinality(troves) - k]

ClearingOf(c, turns, amount) ==
    LET sum[k \in 0..Len(turns)] ==
            IF k = 0 THEN 0 ELSE sum[k - 1] + NetDebt(c.troves[turns[k]])
        Fits(k) == sum[k] <= amount /\ (k < Len(turns) => sum[k + 1] > amount)
        cleared == CHOOSE k \in 0..Len(turns) : Fits(k)
    IN [cleared |-> {turns[k] : k \in 1..cleared},
        amount  |-> sum[cleared],
        partial |-> IF cleared < Len(turns) /\ amount > sum[cleared]
                    THEN turns[cleared + 1] ELSE AddressZero]

Clearing(c, price, amount) ==
    LET turns == Turns(c, Redeemable(c, price))
    IN ClearingOf(c, SubSeq(turns, 1, Smaller(Len(turns), redeemMaxIterations)),
                  amount)

Reduced(t, amount, price) ==
    Trove(Less(t.collateral, Div(amount, price)), t.debt - amount)

\* getRedemptionHints() of HintHelpers leaves the last Trove its minimum debt.
HintsOf(c, all, amount, price) ==
    LET t    == c.troves[all.partial]
        part == IF all.partial = AddressZero THEN 0
                ELSE Smaller(amount - all.amount, Less(NetDebt(t), MINIMUM_NET_DEBT))
    IN [truncated |-> all.amount + part,
        ratio |-> IF part = 0 THEN 0 ELSE NominalRatio(Reduced(t, part, price))]

GetRedemptionHints(c, amount, price) ==
    HintsOf(c, Clearing(c, price, amount), amount, price)

\* redeemCollateral() of TroveManager: a partial redemption that does not come
\* out at the hinted ratio, or at the minimum debt, is given up.
ComesOut(t, ratio) == t.debt >= MINIMUM_DEBT /\ NominalRatio(t) = ratio

GrownRate(c, actual) ==
    Smaller(ONE, BaseRate(Fees(c), c.minute)
                     + Div(Div(actual, Total(c).debt), Beta))

Redeemed(c, tx, left, next, actual, grown) ==
    IF actual = 0 THEN Refused(c, "nothing")
    ELSE IF Smaller(ONE, MINIMUM_REDEMPTION_RATE + grown) > tx.maxRate
    THEN Refused(c, "fee")
    ELSE Done(FeeOperation(next, grown),
              BaseGas + BaseRateGas(c)
                  + (IF next = left THEN 0
                     ELSE WalkGas(Hops(left, tx.ratio, tx.hints))),
              <<Log("troveManager", "Redemption", actual)>>)

RedeemThese(c, tx, all, after) ==
    LET part   == all.partial # AddressZero /\ ComesOut(after, tx.ratio)
        actual == IF part THEN tx.amount ELSE all.amount
        gone   == IF part THEN all.cleared \cup {all.partial} ELSE all.cleared
        left   == [c EXCEPT !.troves = Restrict(@, DOMAIN @ \ gone)]
    IN Redeemed(c, tx, left, IF part THEN With(left, all.partial, after) ELSE left,
                actual, GrownRate(c, actual))

RedeemClearing(c, tx, all) ==
    RedeemThese(c, tx, all,
                Reduced(c.troves[all.partial], tx.amount - all.amount, c.price))

Redeem(c, tx) == RedeemClearing(c, tx, Clearing(c, c.price, tx.amount))
=============================================================================
