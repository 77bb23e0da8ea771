------------------------ MODULE TroveAlgebra_proofs ------------------------
(***************************************************************************)
(* What the arithmetic of lib-base promises to those who build on it, for  *)
(* every scale, amount and rate.                                           *)
(***************************************************************************)
EXTENDS TroveAlgebra, WellFoundedInduction, TLAPS

\* A quotient is the largest number of times that the divider fits.
LEMMA Quotient ==
    ASSUME NEW n \in Nat, NEW d \in Nat \ {0}
    PROVE  /\ n \div d \in Nat
           /\ d * (n \div d) <= n
           /\ n < d * (n \div d) + d
BY SMT

\* What lies between two multiples is the quotient.
LEMMA QuotientIs ==
    ASSUME NEW n \in Nat, NEW d \in Nat \ {0}, NEW q \in Int,
           d * q <= n, n < d * q + d
    PROVE  n \div d = q
<1> DEFINE p == n \div d
<1>1. p \in Nat /\ d * p <= n /\ n < d * p + d
  BY Quotient
<1> HIDE DEF p
<1>2. ~(p < q)
  <2>1. p < q => d * (p + 1) <= d * q
    BY <1>1, SMT
  <2> QED BY <1>1, <2>1, SMT
<1>3. ~(q < p)
  <2>1. q < p => d * (q + 1) <= d * p
    BY <1>1, SMT
  <2> QED BY <1>1, <2>1, SMT
<1>4. p = q
  BY <1>1, <1>2, <1>3
<1> QED BY <1>4 DEF p

\* The rounded-up quotient.
LEMMA CeilQuotient ==
    ASSUME NEW n \in Nat, NEW d \in Nat \ {0}
    PROVE  LET q == (n + (d - 1)) \div d
           IN q \in Nat /\ n <= d * q /\ d * q < n + d
BY Quotient, n + (d - 1) \in Nat, SMT

-----------------------------------------------------------------------------
(* Fees                                                                    *)

LEMMA FeesAreAmounts ==
    ASSUME NEW x \in Nat, NEW rate \in Nat
    PROVE  ApplyFee(rate, x) \in Nat /\ UnapplyFee(rate, x) \in Nat
<1>1. ONE \in Nat \ {0} /\ DIGITS = ONE
  BY ScaleAssumption DEF ONE
<1>2. x * (ONE + rate) \in Nat /\ x * ONE \in Nat /\ ONE + rate \in Nat \ {0}
  BY <1>1, SMT
<1>3. (x * (ONE + rate)) \div ONE \in Nat
  BY <1>1, <1>2, Quotient
<1>4. (x * ONE + (ONE + rate - 1)) \div (ONE + rate) \in Nat
  BY <1>1, <1>2, CeilQuotient
<1> QED BY <1>1, <1>2, <1>3, <1>4 DEF ApplyFee, UnapplyFee, Mul, DivCeil

\* Removing the fee from a debt that a borrowing made gives the borrowing
\* back: what a change between two Troves says was borrowed is what was
\* (unapplyFee() of applyFee() in Trove.ts).
THEOREM FeeIsRemoved ==
    ASSUME NEW b \in Nat, NEW rate \in Nat
    PROVE  UnapplyFee(rate, ApplyFee(rate, b)) = b
<1> DEFINE o == ONE + rate
           a == (b * o) \div ONE
           q == (a * ONE + (o - 1)) \div o
<1>1. ONE \in Nat \ {0} /\ DIGITS = ONE /\ o \in Nat \ {0} /\ o >= ONE
  BY ScaleAssumption DEF ONE
<1>2. b * o \in Nat
  BY <1>1, SMT
<1> HIDE DEF o
<1>3. a \in Nat /\ ONE * a <= b * o /\ b * o < ONE * a + ONE
  BY <1>1, <1>2, Quotient
<1> HIDE DEF a
<1>4. a * ONE \in Nat /\ a * ONE = ONE * a
  BY <1>1, <1>3, SMT
<1>5. q \in Nat /\ a * ONE <= o * q /\ o * q < a * ONE + o
  BY <1>1, <1>4, CeilQuotient
<1> HIDE DEF q
<1>6. o * q < o * b + o /\ o * b < o * q + o
  BY <1>1, <1>3, <1>4, <1>5, SMT
<1>7. ~(q >= b + 1)
  <2>1. q >= b + 1 => o * q >= o * (b + 1)
    BY <1>1, <1>5, SMT
  <2> QED BY <2>1, <1>1, <1>5, <1>6, SMT
<1>8. ~(b >= q + 1)
  <2>1. b >= q + 1 => o * b >= o * (q + 1)
    BY <1>1, <1>5, SMT
  <2> QED BY <2>1, <1>1, <1>5, <1>6, SMT
<1>9. q = b
  BY <1>5, <1>7, <1>8, SMT
<1> QED BY <1>1, <1>9 DEF ApplyFee, UnapplyFee, Mul, DivCeil, q, a, o

\* Adding the fee back to a debt it was removed from gives that debt or one
\* unit more, never less: what is borrowed pays for what is asked.
THEOREM FeeIsAdded ==
    ASSUME NEW x \in Nat, NEW rate \in Nat, rate <= ONE
    PROVE  ApplyFee(rate, UnapplyFee(rate, x)) \in {x, x + 1}
<1> DEFINE o == ONE + rate
           u == (x * ONE + (o - 1)) \div o
           a == (u * o) \div ONE
<1>1. ONE \in Nat \ {0} /\ DIGITS = ONE /\ o \in Nat \ {0} /\ o <= ONE + ONE
  BY ScaleAssumption DEF ONE
<1>2. x * ONE \in Nat
  BY <1>1, SMT
<1> HIDE DEF o
<1>3. u \in Nat /\ x * ONE <= o * u /\ o * u < x * ONE + o
  BY <1>1, <1>2, CeilQuotient
<1> HIDE DEF u
<1>4. u * o \in Nat /\ u * o = o * u
  BY <1>1, <1>3, SMT
<1>5. a \in Nat /\ ONE * a <= u * o /\ u * o < ONE * a + ONE
  BY <1>1, <1>4, Quotient
<1> HIDE DEF a
<1>6. ONE * x < ONE * a + ONE /\ ONE * a < ONE * x + ONE + ONE
  BY <1>1, <1>3, <1>4, <1>5, SMT
<1>7. ~(x >= a + 1)
  <2>1. x >= a + 1 => ONE * x >= ONE * (a + 1)
    BY <1>1, <1>5, SMT
  <2> QED BY <2>1, <1>1, <1>5, <1>6, SMT
<1>8. ~(a >= x + 2)
  <2>1. a >= x + 2 => ONE * a >= ONE * (x + 2)
    BY <1>1, <1>5, SMT
  <2> QED BY <2>1, <1>1, <1>5, <1>6, SMT
<1>9. a \in {x, x + 1}
  BY <1>5, <1>7, <1>8, SMT
<1> QED BY <1>1, <1>9 DEF ApplyFee, UnapplyFee, Mul, DivCeil, u, a, o

-----------------------------------------------------------------------------
(* Changes of Troves                                                       *)

LEMMA TroveFields ==
    ASSUME NEW c \in Int, NEW d \in Int
    PROVE  Trove(c, d).collateral = c /\ Trove(c, d).debt = d
BY DEF Trove

LEMMA ChangeFields ==
    ASSUME NEW type, NEW deposit, NEW withdraw, NEW borrow, NEW repay, NEW zeroed
    PROVE  LET c == Change(type, deposit, withdraw, borrow, repay, zeroed)
           IN /\ c.type = type /\ c.setToZero = zeroed
              /\ c.depositCollateral = deposit /\ c.withdrawCollateral = withdraw
              /\ c.borrowDebtToken = borrow /\ c.repayDebtToken = repay
BY DEF Change

\* The adjustment between two Troves, applied to the first, makes the second.
LEMMA AdjustmentIsApplied ==
    ASSUME NEW from \in Troves, NEW to \in Troves, NEW rate \in Nat, rate <= ONE
    PROVE  LET result == Adjusted(from, Adjustment(from, to, rate), rate)
           IN /\ result.collateral = to.collateral
              /\ result.debt \in {to.debt, to.debt + 1}
              /\ to.debt <= from.debt => result.debt = to.debt
<1> DEFINE d == IF from.debt = to.debt THEN [borrow |-> Absent, repay |-> Absent]
                ELSE DebtChange(from, to, rate)
           c == IF from.collateral = to.collateral
                THEN [deposit |-> Absent, withdraw |-> Absent]
                ELSE CollateralChange(from, to)
           zeroed == IF from.debt # to.debt /\ to.debt = 0 THEN "debt"
                     ELSE IF from.collateral # to.collateral /\ to.collateral = 0
                     THEN "collateral" ELSE "none"
           change == Change("adjustment", c.deposit, c.withdraw, d.borrow, d.repay,
                            zeroed)
           fresh == IF d.borrow = Absent THEN 0 ELSE ApplyFee(rate, d.borrow)
           result == Adjusted(from, change, rate)
<1>0. from.collateral \in Nat /\ from.debt \in Nat /\ to.collateral \in Nat
      /\ to.debt \in Nat
  BY DEF Troves
<1>1. Adjustment(from, to, rate) = change
  BY DEF Adjustment
<1>2. c.deposit \in Nat \cup {Absent} /\ c.withdraw \in Nat \cup {Absent}
  BY <1>0 DEF CollateralChange, Absent
<1>3. from.collateral + OrZero(c.deposit) - OrZero(c.withdraw) = to.collateral
  BY <1>0 DEF CollateralChange, Absent, OrZero
<1>4. d.borrow \in Nat \cup {Absent} /\ d.repay \in Nat \cup {Absent}
  <2>1. CASE to.debt > from.debt
    <3>1. to.debt - from.debt \in Nat
      BY <2>1, <1>0
    <3>2. UnapplyFee(rate, to.debt - from.debt) \in Nat
      BY <3>1, FeesAreAmounts
    <3> QED BY <3>2, <2>1, <1>0 DEF DebtChange, Absent
  <2>2. CASE to.debt <= from.debt
    BY <2>2, <1>0 DEF DebtChange, Absent
  <2> QED BY <1>0, <2>1, <2>2
<1>5. /\ fresh \in Nat
      /\ from.debt + fresh - OrZero(d.repay) \in {to.debt, to.debt + 1}
      /\ to.debt <= from.debt => from.debt + fresh - OrZero(d.repay) = to.debt
  <2>1. CASE to.debt <= from.debt
    <3>1. fresh = 0 /\ from.debt - OrZero(d.repay) = to.debt
      BY <2>1, <1>0 DEF DebtChange, Absent, OrZero
    <3>2. OrZero(d.repay) \in Nat
      BY <1>4 DEF OrZero
    <3> QED BY <3>1, <3>2, <1>0
  <2>2. CASE to.debt > from.debt
    <3>1. d.borrow = UnapplyFee(rate, to.debt - from.debt) /\ d.repay = Absent
      BY <2>2, <1>0 DEF DebtChange
    <3>2. to.debt - from.debt \in Nat
      BY <2>2, <1>0
    <3>3. UnapplyFee(rate, to.debt - from.debt) \in Nat
      BY <3>2, FeesAreAmounts
    <3>4. fresh = ApplyFee(rate, UnapplyFee(rate, to.debt - from.debt))
      BY <3>1, <3>3 DEF Absent
    <3>5. fresh \in {to.debt - from.debt, to.debt - from.debt + 1}
      BY <3>2, <3>4, FeeIsAdded
    <3>6. OrZero(d.repay) = 0
      BY <3>1 DEF OrZero
    <3> HIDE DEF fresh, d
    <3> QED BY <3>5, <3>6, <2>2, <1>0
  <2> QED BY <1>0, <2>1, <2>2
<1>6. /\ result.collateral = IF zeroed = "collateral" THEN 0
                            ELSE Less(from.collateral + OrZero(c.deposit),
                                      OrZero(c.withdraw))
      /\ result.debt = IF zeroed = "debt" THEN 0
                       ELSE Less(from.debt + fresh, OrZero(d.repay))
  <2>1. zeroed \in {"none", "debt", "collateral"}
    OBVIOUS
  <2> DEFINE up == c.deposit  down == c.withdraw  more == d.borrow  less == d.repay
  <2>2. /\ up \in Nat \cup {Absent} /\ down \in Nat \cup {Absent}
        /\ more \in Nat \cup {Absent} /\ less \in Nat \cup {Absent}
    BY <1>2, <1>4
  <2> HIDE DEF c, d, zeroed, up, down, more, less
  <2>3. change = Change("adjustment", up, down, more, less, zeroed)
    BY DEF up, down, more, less
  <2>4. fresh = IF more = Absent THEN 0 ELSE ApplyFee(rate, more)
    BY DEF more
  <2> HIDE DEF change, fresh
  <2>5. /\ change.depositCollateral = up /\ change.withdrawCollateral = down
        /\ change.borrowDebtToken = more /\ change.repayDebtToken = less
        /\ change.setToZero = zeroed
    BY <2>3, ChangeFields
  <2> DEFINE all == Subtract(Plus(from, Trove(OrZero(up), fresh)),
                             Trove(OrZero(down), OrZero(less)))
  <2>6. all = [collateral |-> Less(from.collateral + OrZero(up), OrZero(down)),
               debt |-> Less(from.debt + fresh, OrZero(less))]
    BY DEF Subtract, Plus, Trove
  <2>7. result = CASE zeroed = "collateral" -> [all EXCEPT !.collateral = 0]
                   [] zeroed = "debt"       -> [all EXCEPT !.debt = 0]
                   [] OTHER                 -> all
    BY <2>4, <2>5 DEF Adjusted
  <2> HIDE DEF result, all
  <2>8. CASE zeroed = "collateral"
    BY <2>6, <2>7, <2>8 DEF up, down, more, less
  <2>9. CASE zeroed = "debt"
    BY <2>6, <2>7, <2>9 DEF up, down, more, less
  <2>10. CASE zeroed = "none"
    BY <2>6, <2>7, <2>10 DEF up, down, more, less
  <2> QED BY <2>1, <2>8, <2>9, <2>10
<1>7. OrZero(c.deposit) \in Nat /\ OrZero(c.withdraw) \in Nat /\ OrZero(d.repay) \in Nat
  BY <1>2, <1>4 DEF OrZero
<1>8. (zeroed = "collateral" => to.collateral = 0) /\ (zeroed = "debt" => to.debt = 0)
  OBVIOUS
<1>9. result.collateral = to.collateral
  <2> HIDE DEF c, d, zeroed, result, fresh
  <2> QED BY <1>0, <1>3, <1>6, <1>7, <1>8 DEF Less
<1>10. zeroed = "debt" => to.debt <= from.debt
  BY <1>0
<1>11. /\ result.debt \in {to.debt, to.debt + 1}
       /\ to.debt <= from.debt => result.debt = to.debt
  <2> HIDE DEF c, d, zeroed, result, fresh
  <2> QED BY <1>0, <1>5, <1>6, <1>7, <1>8 DEF Less
<1> QED BY <1>1, <1>9, <1>11

\* What whatChanged() says of two Troves, apply() makes of the first: the
\* second, but for the one unit that fees may add to a debt that grows
\* (Trove.ts; a Trove that is closed is one whose net debt can be told).
THEOREM ChangeIsApplied ==
    ASSUME NEW from \in Troves, NEW to \in Troves, NEW rate \in Nat, rate <= ONE,
           IsEmpty(to) => from = to \/ ~NetDebtThrows(from)
    PROVE  LET result == Apply(from, WhatChanged(from, to, rate), rate)
           IN /\ result.collateral = to.collateral
              /\ result.debt \in {to.debt, to.debt + 1}
              /\ to.debt <= from.debt => result.debt = to.debt
<1> DEFINE change == WhatChanged(from, to, rate)
           result == Apply(from, change, rate)
           Made == /\ result.collateral = to.collateral
                   /\ result.debt \in {to.debt, to.debt + 1}
                   /\ to.debt <= from.debt => result.debt = to.debt
<1>0. /\ from.collateral \in Nat /\ from.debt \in Nat /\ to.collateral \in Nat
      /\ to.debt \in Nat /\ LIQUIDATION_RESERVE \in Nat \ {0}
  BY ParametersAssumption DEF Troves
<1>1. ASSUME from = to PROVE Made
  <2>1. change = NoChange /\ NoChange.type = "none"
    BY <1>1, ChangeFields DEF WhatChanged, NoChange
  <2>2. ~ApplyThrows(from, change)
    BY <2>1 DEF ApplyThrows
  <2>3. result = from
    BY <2>1, <2>2 DEF Apply
  <2> HIDE DEF result
  <2> QED BY <2>3, <1>1, <1>0
<1>2. ASSUME from # to, IsEmpty(from), to.debt < LIQUIDATION_RESERVE PROVE Made
  <2>1. change.type = "invalidCreation" /\ change.invalidTrove = to
    BY <1>2 DEF WhatChanged, Change
  <2>2. ~ApplyThrows(from, change)
    BY <2>1, <1>2 DEF ApplyThrows
  <2>3. result = to
    BY <2>1, <2>2 DEF Apply
  <2> HIDE DEF result
  <2> QED BY <2>3, <1>0
<1>3. ASSUME from # to, IsEmpty(from), ~(to.debt < LIQUIDATION_RESERVE) PROVE Made
  <2>1. change = Change("creation", to.collateral, Absent,
                        UnapplyFee(rate, NetDebt(to)), Absent, "none")
    BY <1>3 DEF WhatChanged
  <2>2. /\ change.type = "creation" /\ change.depositCollateral = to.collateral
        /\ change.borrowDebtToken = UnapplyFee(rate, NetDebt(to))
    BY <2>1, ChangeFields
  <2>3. result = Trove(to.collateral, LIQUIDATION_RESERVE
                            + ApplyFee(rate, UnapplyFee(rate, NetDebt(to))))
    <3>1. ~ApplyThrows(from, change)
      BY <2>2, <1>3 DEF ApplyThrows
    <3> QED BY <2>2, <3>1 DEF Apply
  <2>4. NetDebt(to) \in Nat /\ LIQUIDATION_RESERVE + NetDebt(to) = to.debt
    BY <1>0, <1>3 DEF NetDebt
  <2>5. ApplyFee(rate, UnapplyFee(rate, NetDebt(to))) \in {NetDebt(to), NetDebt(to) + 1}
    BY <2>4, FeeIsAdded
  <2>6. from.debt = 0
    BY <1>3 DEF IsEmpty
  <2>7. result.collateral = to.collateral /\ result.debt \in {to.debt, to.debt + 1}
    BY <2>3, <2>4, <2>5, <1>0 DEF Trove
  <2>8. ~(to.debt <= from.debt)
    BY <2>6, <1>3, <1>0
  <2> QED BY <2>7, <2>8
<1>4. ASSUME from # to, ~IsEmpty(from), IsEmpty(to) PROVE Made
  <2>1. change.type = "closure"
    BY <1>4 DEF WhatChanged, Change
  <2>2. result = EmptyTrove
    <3>1. ~ApplyThrows(from, change)
      BY <2>1, <1>4 DEF ApplyThrows
    <3> QED BY <2>1, <3>1 DEF Apply
  <2>3. to.collateral = 0 /\ to.debt = 0
    BY <1>4 DEF IsEmpty
  <2> HIDE DEF result
  <2> QED BY <2>2, <2>3, <1>0 DEF EmptyTrove, Trove
<1>5. ASSUME from # to, ~IsEmpty(from), ~IsEmpty(to) PROVE Made
  <2>1. change = Adjustment(from, to, rate)
    BY <1>5 DEF WhatChanged
  <2>2. change.type = "adjustment"
    BY <2>1 DEF Adjustment, Change
  <2>3. result = Adjusted(from, change, rate)
    <3>1. ~ApplyThrows(from, change)
      BY <2>2, <1>5 DEF ApplyThrows
    <3> HIDE DEF change
    <3> QED BY <2>2, <3>1 DEF Apply
  <2> HIDE DEF result, change
  <2> QED BY <2>1, <2>3, AdjustmentIsApplied DEF result, change
<1> QED BY <1>1, <1>2, <1>3, <1>4, <1>5

-----------------------------------------------------------------------------
(* What a change offers, the transaction accepts                           *)

LEMMA SomethingIsBorrowed ==
    ASSUME NEW x \in Nat \ {0}, NEW rate \in Nat
    PROVE  UnapplyFee(rate, x) \in Nat \ {0}
<1> DEFINE o == ONE + rate
           q == (x * ONE + (o - 1)) \div o
<1>1. ONE \in Nat \ {0} /\ DIGITS = ONE /\ o \in Nat \ {0}
  BY ScaleAssumption DEF ONE
<1>2. x * ONE \in Nat \ {0}
  BY <1>1, SMT
<1> HIDE DEF o
<1>3. q \in Nat /\ x * ONE <= o * q
  BY <1>1, <1>2, CeilQuotient
<1>4. q # 0
  <2>1. q = 0 => o * q = 0
    BY <1>1, SMT
  <2> QED BY <2>1, <1>2, <1>3, SMT
<1> HIDE DEF q
<1>5. UnapplyFee(rate, x) = q
  BY <1>1 DEF UnapplyFee, DivCeil, q, o
<1> QED BY <1>3, <1>4, <1>5

\* The parameters of a change between two Troves are never refused by the
\* normalisation that populates its transaction: a creation has a deposit and
\* a borrowing and nothing else; an adjustment has something left once zeroes
\* are dropped, and never moves an amount up and down at once (whatChanged()
\* against _normalizeTroveCreation() and _normalizeTroveAdjustment()).
THEOREM OffersAreAccepted ==
    ASSUME NEW from \in Troves, NEW to \in Troves, NEW rate \in Nat
    PROVE  LET change == WhatChanged(from, to, rate)
           IN /\ change.type = "creation" => ~CreationThrows(change)
              /\ change.type = "adjustment" => ~AdjustmentThrows(change)
<1> DEFINE change == WhatChanged(from, to, rate)
<1>0. /\ from.collateral \in Nat /\ from.debt \in Nat /\ to.collateral \in Nat
      /\ to.debt \in Nat /\ LIQUIDATION_RESERVE \in Nat \ {0}
  BY ParametersAssumption DEF Troves
<1>1. ASSUME change.type = "creation" PROVE ~CreationThrows(change)
  <2>1. /\ ~(to.debt < LIQUIDATION_RESERVE)
        /\ change = Change("creation", to.collateral, Absent,
                           UnapplyFee(rate, NetDebt(to)), Absent, "none")
    BY <1>1 DEF WhatChanged, Change, NoChange, Adjustment
  <2>2. NetDebt(to) \in Nat
    BY <2>1, <1>0 DEF NetDebt
  <2>3. UnapplyFee(rate, NetDebt(to)) \in Nat
    BY <2>2, FeesAreAmounts
  <2>4. /\ change.depositCollateral = to.collateral
        /\ change.withdrawCollateral = Absent /\ change.repayDebtToken = Absent
        /\ change.borrowDebtToken \in Nat
    BY <2>1, <2>3, ChangeFields
  <2> HIDE DEF change
  <2> QED BY <2>4, <1>0 DEF CreationThrows, Absent
<1>2. ASSUME change.type = "adjustment" PROVE ~AdjustmentThrows(change)
  <2>1. from # to /\ change = Adjustment(from, to, rate)
    BY <1>2 DEF WhatChanged, Change, NoChange
  <2>2. from.collateral # to.collateral \/ from.debt # to.debt
    BY <2>1 DEF Troves
  <2> DEFINE deposit  == change.depositCollateral
             withdraw == change.withdrawCollateral
             borrow   == change.borrowDebtToken
             repay    == change.repayDebtToken
  <2>3. /\ from.collateral = to.collateral => deposit = Absent /\ withdraw = Absent
        /\ from.collateral # to.collateral =>
              \/ deposit \in Nat \ {0} /\ withdraw = Absent
              \/ deposit = Absent /\ withdraw \in Nat \ {0}
    BY <2>1, <1>0 DEF Adjustment, CollateralChange, Change
  <2>4. to.debt > from.debt => UnapplyFee(rate, to.debt - from.debt) \in Nat \ {0}
    <3> SUFFICES ASSUME to.debt > from.debt
                 PROVE  UnapplyFee(rate, to.debt - from.debt) \in Nat \ {0}
      OBVIOUS
    <3>1. to.debt - from.debt \in Nat \ {0}
      BY <1>0
    <3> QED BY <3>1, SomethingIsBorrowed
  <2>5. /\ from.debt = to.debt => borrow = Absent /\ repay = Absent
        /\ from.debt # to.debt =>
              \/ borrow \in Nat \ {0} /\ repay = Absent
              \/ borrow = Absent /\ repay \in Nat \ {0}
    BY <2>1, <2>4, <1>0 DEF Adjustment, DebtChange, Change
  <2> DEFINE n == NormalizedAdjustment(change)
  <2>6. /\ n.depositCollateral = NonZero(deposit)
        /\ n.withdrawCollateral = NonZero(withdraw)
        /\ n.borrowDebtToken = NonZero(borrow) /\ n.repayDebtToken = NonZero(repay)
    BY <2>1 DEF NormalizedAdjustment, Adjustment, Change
  <2>7. /\ NonZero(deposit) = deposit /\ NonZero(withdraw) = withdraw
        /\ NonZero(borrow) = borrow /\ NonZero(repay) = repay
    BY <2>3, <2>5, <1>0 DEF NonZero, Absent
  <2> HIDE DEF n, deposit, withdraw, borrow, repay, change
  <2> QED BY <2>2, <2>3, <2>5, <2>6, <2>7, <1>0 DEF AdjustmentThrows, Absent, n
<1> QED BY <1>1, <1>2

-----------------------------------------------------------------------------
(* Deposits, stakes and texts                                              *)

\* What is said to have changed of a deposit or a stake, applied to it, gives
\* the other; and applied to a smaller deposit it never goes below zero
\* (StabilityDeposit.ts, ProtocolTokenStake.ts).
THEOREM AmountIsApplied ==
    ASSUME NEW from \in Nat, NEW to \in Nat, NEW now \in Nat
    PROVE  /\ ApplyAmount(from, AmountChanged(from, to)) = to
           /\ ApplyAmount(now, AmountChanged(from, to)) \in Nat
           /\ to <= from => ApplyAmount(now, AmountChanged(from, to)) <= now
<1> DEFINE change == AmountChanged(from, to)
<1>1. CASE to < from
  <2>1. /\ change.down = from - to /\ change.up = Absent
        /\ change.all <=> to = 0
        /\ change # NoAmountChange /\ change.down # Absent
    <3>1. change = [up |-> Absent, down |-> from - to, all |-> to = 0]
      BY <1>1 DEF AmountChanged
    <3>2. from - to # Absent
      BY <1>1 DEF Absent
    <3> HIDE DEF change
    <3>3. change.down = from - to /\ change.up = Absent /\ change.down # Absent
      BY <3>1, <3>2
    <3>4. change.all <=> to = 0
      BY <3>1, Zenon
    <3>5. NoAmountChange.down = Absent
      BY DEF NoAmountChange
    <3> QED BY <3>3, <3>4, <3>5
  <2> HIDE DEF change
  <2>2. \A x \in Nat : ApplyAmount(x, change) =
            IF to = 0 \/ x <= from - to THEN 0 ELSE x - (from - to)
    BY <2>1 DEF ApplyAmount
  <2> QED BY <2>2, <1>1 DEF change
<1>2. CASE to > from
  <2>1. /\ change.down = Absent /\ change.up = to - from
        /\ change # NoAmountChange
    BY <1>2 DEF AmountChanged, NoAmountChange, Absent
  <2> HIDE DEF change
  <2>2. \A x \in Nat : ApplyAmount(x, change) = x + (to - from)
    BY <2>1 DEF ApplyAmount
  <2> QED BY <2>2, <1>2 DEF change
<1>3. CASE to = from
  BY <1>3 DEF AmountChanged, ApplyAmount
<1> QED BY <1>1, <1>2, <1>3

\* An amount that is shown and typed in again is at most half of the last
\* digit shown away from what it was (Decimal.toString() and Decimal.from()).
THEOREM TextIsClose ==
    ASSUME NEW a \in Nat, NEW unit \in Nat \ {0}
    PROVE  LET b == FromText(Text(a, unit), unit)
           IN b \in Nat /\ b <= a + (unit \div 2) /\ a + (unit \div 2) < b + unit
<1> DEFINE value == IF unit = 1 THEN a ELSE a + unit \div 2
           c == value \div DIGITS
           r == value % DIGITS
           k == r \div unit
<1>0. DIGITS \in Nat \ {0}
  BY ScaleAssumption
<1>1. unit \div 2 \in Nat /\ value \in Nat /\ value = a + (unit \div 2)
  BY SMT
<1> HIDE DEF value
<1>2. c \in Nat /\ r \in Nat /\ value = DIGITS * c + r
  BY <1>0, <1>1, SMT
<1>3. c * DIGITS = DIGITS * c
  BY <1>0, <1>2, SMT
<1> HIDE DEF c, r
<1>4. k \in Nat /\ unit * k <= r /\ r < unit * k + unit
  BY <1>2, Quotient
<1> HIDE DEF k
<1>5. k * unit = unit * k /\ unit * k \in Nat /\ DIGITS * c \in Nat
  BY <1>0, <1>2, <1>4, SMT
<1> DEFINE b == c * DIGITS + k * unit
<1>6. b \in Nat /\ b <= a + (unit \div 2) /\ a + (unit \div 2) < b + unit
  BY <1>1, <1>2, <1>3, <1>4, <1>5
<1>7. FromText(Text(a, unit), unit) = b
  BY DEF FromText, Text, value, c, r, k
<1> QED BY <1>6, <1>7
-----------------------------------------------------------------------------
(* Powers.  The loop of pow() is a recursive function of its exponent: that *)
(* it has a meaning at all, and which type, takes induction.  The library's *)
(* theorems on induction have an operator for a parameter; what follows     *)
(* rests on the least number of a set instead.                              *)

LEMMA LeastNumber ==
    ASSUME NEW T, T \subseteq Nat, T # {}
    PROVE  \E m \in T : \A k \in T : ~(k < m)
<1>1. PICK m \in T : \A k \in T : <<k, m>> \notin OpToRel(<, Nat)
  BY NatLessThanWellFounded, WFMin
<1>2. ASSUME NEW k \in T, k < m PROVE FALSE
  <2>1. <<k, m>> \in OpToRel(<, Nat)
    BY <1>2 DEF OpToRel
  <2> QED
    BY <1>1, <2>1
<1> QED
  BY <1>2

LEMMA Half == \A e \in Nat : e \div 2 \in Nat /\ e \div 2 <= e /\ (e > 1 => e \div 2 < e)
  BY SMT

LEMMA RoundedMulType == \A x, y \in Nat : RoundedMul(x, y) \in Nat
  BY ScaleAssumption, SMT DEF RoundedMul, HALF

\* One round of the loop, with what is left of it as a parameter.
Round(rest, e) ==
    [x \in Nat |-> [y \in Nat |->
        IF e <= 1 THEN RoundedMul(x, y)
        ELSE rest[RoundedMul(x, x)][IF e % 2 = 1 THEN RoundedMul(x, y) ELSE y]]]

Loops == [Nat -> [Nat -> Nat]]

\* The loop for the exponents up to n.
Solves(f, n) ==
    f \in [0 .. n -> Loops] /\ \A e \in 0 .. n : f[e] = Round(f[e \div 2], e)

LEMMA RoundType ==
    ASSUME NEW rest, NEW e \in Nat, e <= 1 \/ rest \in Loops
    PROVE  Round(rest, e) \in Loops
<1> SUFFICES ASSUME NEW x \in Nat, NEW y \in Nat
             PROVE  (IF e <= 1 THEN RoundedMul(x, y)
                     ELSE rest[RoundedMul(x, x)]
                              [IF e % 2 = 1 THEN RoundedMul(x, y) ELSE y]) \in Nat
  BY DEF Round, Loops
<1>1. CASE e <= 1
  BY <1>1, RoundedMulType
<1>2. CASE ~(e <= 1)
  <2>1. /\ RoundedMul(x, x) \in Nat
        /\ (IF e % 2 = 1 THEN RoundedMul(x, y) ELSE y) \in Nat
    BY RoundedMulType
  <2> QED
    BY <1>2, <2>1 DEF Loops
<1> QED
  BY <1>1, <1>2

LEMMA LastRound == \A e \in Nat : \A f, g : e <= 1 => Round(f, e) = Round(g, e)
  BY DEF Round

LEMMA Solvable == \A n \in Nat : \E f : Solves(f, n)
<1> DEFINE T == {n \in Nat : ~\E f : Solves(f, n)}
<1> SUFFICES ASSUME T # {} PROVE FALSE
  OBVIOUS
<1>1. PICK m \in T : \A k \in T : ~(k < m)
  BY LeastNumber
<1>2. m \in Nat /\ ~\E f : Solves(f, m)
  OBVIOUS
<1>3. CASE m <= 1
  <2> DEFINE f == [e \in 0 .. m |-> Round({}, e)]
  <2>1. \A e \in 0 .. m : f[e] \in Loops /\ f[e] = Round(f[e \div 2], e)
    BY <1>2, <1>3, RoundType, LastRound
  <2> HIDE DEF f
  <2>2. f \in [0 .. m -> Loops]
    BY <2>1 DEF f
  <2>3. Solves(f, m)
    BY <2>1, <2>2 DEF Solves
  <2> QED
    BY <1>2, <2>3
<1>4. CASE m > 1
  <2>1. m - 1 \in Nat /\ m - 1 < m /\ m - 1 \notin T
    BY <1>1, <1>2, <1>4
  <2>2. PICK g : Solves(g, m - 1)
    BY <2>1
  <2>3. m \div 2 \in 0 .. (m - 1) /\ g[m \div 2] \in Loops
    BY <1>2, <1>4, <2>2, Half DEF Solves
  <2> DEFINE f == [e \in 0 .. m |-> IF e = m THEN Round(g[m \div 2], m) ELSE g[e]]
  <2>4. \A e \in 0 .. m : e # m => e \in 0 .. (m - 1) /\ e \div 2 \in 0 .. (m - 1)
    BY <1>2, Half
  <2>5. f \in [0 .. m -> Loops]
    BY <1>2, <2>2, <2>3, <2>4, RoundType DEF Solves
  <2>6. \A e \in 0 .. m : f[e] = Round(f[e \div 2], e)
    <3> SUFFICES ASSUME NEW e \in 0 .. m PROVE f[e] = Round(f[e \div 2], e)
      OBVIOUS
    <3>1. CASE e = m
      <4>1. f[m \div 2] = g[m \div 2]
        BY <1>2, <2>3
      <4> QED
        BY <3>1, <4>1, <1>2
    <3>2. CASE e # m
      <4>1. e \in 0 .. (m - 1) /\ e \div 2 \in 0 .. (m - 1)
        BY <2>4, <3>2
      <4>2. f[e] = g[e] /\ f[e \div 2] = g[e \div 2]
        BY <1>2, <3>2, <4>1
      <4>3. g[e] = Round(g[e \div 2], e)
        BY <2>2, <4>1 DEF Solves
      <4> QED
        BY <4>2, <4>3
    <3> QED
      BY <3>1, <3>2
  <2> HIDE DEF f
  <2>7. Solves(f, m)
    BY <2>5, <2>6 DEF Solves
  <2> QED
    BY <1>2, <2>7
<1> QED
  BY <1>2, <1>3, <1>4

LEMMA SameSolution ==
    ASSUME NEW n \in Nat, NEW m \in Nat, NEW f, NEW g, Solves(f, n), Solves(g, m)
    PROVE  \A e \in 0 .. n : e <= m => f[e] = g[e]
<1> DEFINE T == {e \in 0 .. n : e <= m /\ f[e] # g[e]}
<1> SUFFICES ASSUME T # {} PROVE FALSE
  OBVIOUS
<1>1. T \subseteq Nat
  OBVIOUS
<1>2. PICK e \in T : \A k \in T : ~(k < e)
  BY <1>1, LeastNumber
<1>3. e \in 0 .. n /\ e \in 0 .. m /\ f[e] # g[e] /\ e \in Nat
  OBVIOUS
<1>4. f[e] = Round(f[e \div 2], e) /\ g[e] = Round(g[e \div 2], e)
  BY <1>3 DEF Solves
<1>5. CASE e <= 1
  BY <1>3, <1>4, <1>5, LastRound
<1>6. CASE e > 1
  <2>1. e \div 2 \in 0 .. n /\ e \div 2 <= m /\ e \div 2 < e
    BY <1>3, <1>6, Half
  <2>2. f[e \div 2] = g[e \div 2]
    BY <1>2, <2>1
  <2> QED
    BY <1>3, <1>4, <2>2
<1> QED
  BY <1>3, <1>5, <1>6

\* The loop is the function that its recursion describes.
LEMMA PowLoopUnfolds ==
    /\ PowLoop = [e \in Nat |-> Round(PowLoop[e \div 2], e)]
    /\ \A e \in Nat : PowLoop[e] \in Loops
<1> DEFINE Part(n) == CHOOSE f : Solves(f, n)
           G == [e \in Nat |-> Part(e)[e]]
<1>1. \A n \in Nat : Solves(Part(n), n)
  BY Solvable
<1> HIDE DEF Part
<1>2. \A e \in Nat : Part(e)[e] \in Loops
  BY <1>1 DEF Solves
<1>3. G \in [Nat -> Loops]
  BY <1>2
<1>4. \A e \in Nat : Part(e)[e] = Round(Part(e)[e \div 2], e)
  BY <1>1 DEF Solves
<1>5. \A e \in Nat : Part(e)[e \div 2] = Part(e \div 2)[e \div 2]
  <2> SUFFICES ASSUME NEW e \in Nat
               PROVE  Part(e)[e \div 2] = Part(e \div 2)[e \div 2]
    OBVIOUS
  <2>1. e \div 2 \in Nat /\ e \div 2 \in 0 .. e /\ e \div 2 <= e \div 2
    BY Half
  <2> QED
    BY <1>1, <2>1, SameSolution
<1>6. \A e \in Nat : G[e] = Round(G[e \div 2], e)
  BY <1>4, <1>5, Half
<1>7. G = [e \in Nat |-> Round(G[e \div 2], e)]
  BY <1>3, <1>6
<1> HIDE DEF G
<1>8. PowLoop = [e \in Nat |-> Round(PowLoop[e \div 2], e)]
  <2>1. PowLoop = CHOOSE f : f = [e \in Nat |-> Round(f[e \div 2], e)]
    BY Zenon DEF PowLoop, Round
  <2> QED
    BY <1>7, <2>1, Zenon
<1>9. \A e \in Nat : PowLoop[e] \in Loops
  <2> DEFINE T == {e \in Nat : PowLoop[e] \notin Loops}
  <2> SUFFICES ASSUME T # {} PROVE FALSE
    OBVIOUS
  <2>1. PICK e \in T : \A k \in T : ~(k < e)
    BY LeastNumber
  <2>2. e \in Nat /\ PowLoop[e] \notin Loops /\ PowLoop[e] = Round(PowLoop[e \div 2], e)
    BY <1>8
  <2>3. e <= 1 \/ PowLoop[e \div 2] \in Loops
    BY <2>1, <2>2, Half
  <2> QED
    BY <2>2, <2>3, RoundType
<1> QED
  BY <1>8, <1>9

\* A product of two numbers that are at most one is at most one.
LEMMA FractionsMultiply ==
    \A x, y \in 0 .. DIGITS : RoundedMul(x, y) \in 0 .. DIGITS
<1> SUFFICES ASSUME NEW x \in 0 .. DIGITS, NEW y \in 0 .. DIGITS
             PROVE  RoundedMul(x, y) \in 0 .. DIGITS
  OBVIOUS
<1>1. DIGITS \in Nat \ {0} /\ x \in Nat /\ y \in Nat /\ x <= DIGITS /\ y <= DIGITS
  BY ScaleAssumption
<1> DEFINE p == x * y
           h == DIGITS \div 2
           q == (p + h) \div DIGITS
<1>2. p \in Nat /\ p <= DIGITS * DIGITS
  BY <1>1, SMT
<1>3. h \in Nat /\ h < DIGITS
  BY <1>1, SMT
<1>4. RoundedMul(x, y) = q
  BY DEF RoundedMul, HALF
<1> HIDE DEF p, h
<1>5. q \in Nat /\ DIGITS * q <= p + h
  BY <1>1, <1>2, <1>3, Quotient
<1> HIDE DEF q
<1>6. DIGITS * q < DIGITS * (DIGITS + 1)
  BY <1>1, <1>2, <1>3, <1>5, SMT
<1>7. q < DIGITS + 1
  BY <1>1, <1>5, <1>6, SMT
<1> QED
  BY <1>1, <1>4, <1>5, <1>7

\* Powers of a number that is at most one are at most one (Decimal.pow()).
LEMMA PowersOfFractions == \A x \in 0 .. DIGITS, e \in Nat : Pow(x, e) \in 0 .. DIGITS
<1> DEFINE T == {e \in Nat : ~\A x, y \in 0 .. DIGITS : PowLoop[e][x][y] \in 0 .. DIGITS}
<1>1. T = {}
  <2> SUFFICES ASSUME T # {} PROVE FALSE
    OBVIOUS
  <2>1. PICK e \in T : \A k \in T : ~(k < e)
    BY LeastNumber
  <2>2. PICK x \in 0 .. DIGITS, y \in 0 .. DIGITS : PowLoop[e][x][y] \notin 0 .. DIGITS
    OBVIOUS
  <2>3. e \in Nat /\ x \in Nat /\ y \in Nat
    BY ScaleAssumption
  <2> DEFINE z == IF e % 2 = 1 THEN RoundedMul(x, y) ELSE y
  <2>4. PowLoop[e][x][y] = IF e <= 1 THEN RoundedMul(x, y)
                           ELSE PowLoop[e \div 2][RoundedMul(x, x)][z]
    <3>1. PowLoop[e] = Round(PowLoop[e \div 2], e)
      BY <2>3, PowLoopUnfolds
    <3>2. Round(PowLoop[e \div 2], e)[x][y] =
              IF e <= 1 THEN RoundedMul(x, y)
              ELSE PowLoop[e \div 2][RoundedMul(x, x)][z]
      BY <2>3 DEF Round
    <3> HIDE DEF z
    <3> QED
      BY <3>1, <3>2
  <2>5. RoundedMul(x, x) \in 0 .. DIGITS /\ z \in 0 .. DIGITS
    BY FractionsMultiply
  <2> HIDE DEF z
  <2>6. CASE e <= 1
    BY <2>2, <2>4, <2>6, FractionsMultiply
  <2>7. CASE ~(e <= 1)
    <3>1. e \div 2 \in Nat /\ e \div 2 < e
      BY <2>3, <2>7, Half
    <3>2. e \div 2 \notin T
      BY <2>1, <3>1
    <3>3. PowLoop[e \div 2][RoundedMul(x, x)][z] \in 0 .. DIGITS
      BY <2>5, <3>1, <3>2
    <3> QED
      BY <2>2, <2>4, <2>7, <3>3
  <2> QED
    BY <2>6, <2>7
<1>2. \A e \in Nat, x, y \in 0 .. DIGITS : PowLoop[e][x][y] \in 0 .. DIGITS
  BY <1>1
<1>3. DIGITS \in 0 .. DIGITS
  BY ScaleAssumption
<1> QED
  BY <1>2, <1>3 DEF Pow, ONE

\* The base rate only decays: whenever it is asked for, whatever the clocks
\* say, it is an amount and not above what the last operation left, so that the
\* borrowing rate stays between its bounds (Fees.ts).
THEOREM RatesAreBounded ==
    ASSUME NEW fees, NEW when \in Nat, fees.base \in Nat, fees.lastFeeOperation \in Nat
    PROVE  /\ BaseRate(fees, when) \in 0 .. fees.base
           /\ BorrowingRate(fees, when) \in 0 .. MAXIMUM_BORROWING_RATE
           /\ ~fees.recoveryMode /\ MINIMUM_BORROWING_RATE <= MAXIMUM_BORROWING_RATE
                => MINIMUM_BORROWING_RATE <= BorrowingRate(fees, when)
<1> DEFINE d == Less(when, fees.lastFeeOperation)
           p == Pow(MinuteDecayFactor, d)
           b == fees.base
           q == (p * b) \div DIGITS
<1>1. DIGITS \in Nat \ {0} /\ MinuteDecayFactor \in 0 .. DIGITS
  BY ScaleAssumption, ParametersAssumption DEF ONE
<1>2. d \in Nat
  BY DEF Less
<1> HIDE DEF d
<1>3. p \in Nat /\ p <= DIGITS
  <2>1. p \in 0 .. DIGITS
    BY <1>1, <1>2, PowersOfFractions
  <2> QED
    BY <1>1, <2>1
<1>4. BaseRate(fees, when) = q
  BY DEF BaseRate, Mul, d
<1> HIDE DEF p
<1>5. b \in Nat
  OBVIOUS
<1> HIDE DEF b
<1>6. p * b \in Nat /\ p * b <= DIGITS * b
  BY <1>1, <1>3, <1>5, SMT
<1>7. q \in Nat /\ DIGITS * q <= p * b
  BY <1>1, <1>6, Quotient
<1> HIDE DEF q
<1>8. DIGITS * q <= DIGITS * b
  BY <1>1, <1>5, <1>6, <1>7, SMT
<1>9. q <= b
  BY <1>1, <1>5, <1>7, <1>8, SMT
<1>10. BaseRate(fees, when) \in 0 .. fees.base /\ BaseRate(fees, when) \in Nat
  BY <1>4, <1>5, <1>7, <1>9 DEF b
<1> QED
  BY <1>10, ParametersAssumption DEF BorrowingRate, Smaller
=============================================================================
