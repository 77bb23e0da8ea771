--------------------------- MODULE Editors_proofs ---------------------------
(***************************************************************************)
(* Proofs about the two pages of the editors, for any amounts typed, any   *)
(* prices, rates and news of the chain and of other windows, any deposits  *)
(* and any number of transactions.  First the Trove page, then the page of *)
(* the Stability Pool.                                                     *)
(***************************************************************************)
EXTENDS Editors, TroveAlgebra_proofs

-----------------------------------------------------------------------------
(* Types: a Trove on the chain is empty or has at least the minimum debt,  *)
(* and a change that is offered sets nothing to zero.                      *)

ChainTroves == {t \in Troves : t = EmptyTrove \/ MINIMUM_DEBT <= t.debt}

SomeChains ==
    {c \in [trove : Troves, status : Statuses, price : Nat, minute : Nat,
            touched : {0, 1}] :
        IF c.status = "open" THEN MINIMUM_DEBT <= c.trove.debt
        ELSE c.trove = EmptyTrove}

Amounts == Nat \cup {Absent}

WhateverChanges ==
    [type : {"none", "invalidCreation", "creation", "closure", "adjustment"},
     depositCollateral : Amounts, withdrawCollateral : Amounts,
     borrowDebtToken : Amounts, repayDebtToken : Amounts,
     setToZero : {"none", "debt", "collateral"}, invalidTrove : Troves]

OfferedChanges ==
    {c \in WhateverChanges :
        /\ c.setToZero = "none" /\ c.invalidTrove = EmptyTrove
        /\ c.type # "invalidCreation"
        /\ c.type = "creation" => /\ c.depositCollateral \in Nat
                                  /\ c.borrowDebtToken \in Nat
                                  /\ MINIMUM_NET_DEBT <= c.borrowDebtToken}

LEMMA MinimumDebtType ==
    /\ MINIMUM_DEBT \in Nat /\ LIQUIDATION_RESERVE \in Nat \ {0}
    /\ MINIMUM_NET_DEBT \in Nat \ {0}
    /\ MINIMUM_DEBT = LIQUIDATION_RESERVE + MINIMUM_NET_DEBT
    /\ LIQUIDATION_RESERVE < MINIMUM_DEBT
  BY ParametersAssumption DEF MINIMUM_DEBT

LEMMA EmptyTroveType ==
    /\ EmptyTrove \in ChainTroves /\ EmptyTrove \in Troves
    /\ EmptyTrove.collateral = 0 /\ EmptyTrove.debt = 0 /\ IsEmpty(EmptyTrove)
    /\ \A t \in Troves : IsEmpty(t) <=> t = EmptyTrove
  BY DEF EmptyTrove, Trove, Troves, ChainTroves, IsEmpty

LEMMA TroveOnChain ==
    \A s \in SomeChains : /\ s.trove \in ChainTroves /\ s.trove \in Troves
                          /\ s.price \in Nat /\ s.minute \in Nat
  BY EmptyTroveType DEF SomeChains, ChainTroves

LEMMA StatusesAre ==
    Statuses = {"open", "closedByOwner", "closedByLiquidation", "closedByRedemption",
                "nonExistent"}
  BY DEF Statuses, StatusEvents

LEMMA ViewsAre ==
    Views = {"NONE", "LIQUIDATED", "REDEEMED", "OPENING", "ADJUSTING", "CLOSING", "ACTIVE"}
  BY DEF Views, Transitions

LEMMA TransitionType ==
    ASSUME NEW v \in Views, NEW e
    PROVE  /\ Transition(v, e) \in Views
           /\ \A s \in Statuses : InitialView(s) \in Views
  BY ViewsAre DEF Transition, Transitions, InitialView

LEMMA NoChangeType ==
    /\ NoChange \in OfferedChanges /\ NoChange.type = "none"
    /\ NoChange.setToZero = "none" /\ NoChange.borrowDebtToken = Absent
  BY EmptyTroveType DEF NoChange, Change, OfferedChanges, WhateverChanges, Amounts

LEMMA RateType ==
    ASSUME NEW s \in SomeChains
    PROVE  Rate(s) \in Nat /\ Rate(s) <= ONE
<1>1. Base \in Nat /\ 0 \in Nat
  BY EditorAssumption
<1>2. Fees(s).base = Base /\ Fees(s).lastFeeOperation = 0
  BY DEF Fees
<1>3. BorrowingRate(Fees(s), s.minute) \in 0 .. MAXIMUM_BORROWING_RATE
  BY <1>1, <1>2, TroveOnChain, RatesAreBounded
<1> QED
  BY <1>3, ScaleAssumption, ParametersAssumption DEF Rate, ONE

\* What changed between a Trove on the chain and another.
LEMMA WhatChangedType ==
    ASSUME NEW from \in ChainTroves, NEW to \in Troves, NEW rate \in Nat
    PROVE  LET change == WhatChanged(from, to, rate)
           IN /\ change \in WhateverChanges
              /\ change.type # "invalidCreation" => change.invalidTrove = EmptyTrove
              /\ change.type = "creation" =>
                    /\ change.depositCollateral \in Nat /\ change.borrowDebtToken \in Nat
                    /\ change.setToZero = "none"
              /\ change.type = "closure" => change.setToZero = "none"
              /\ change.type = "adjustment" =>
                    /\ change = Adjustment(from, to, rate)
                    /\ ~IsEmpty(from) /\ ~IsEmpty(to)
              /\ from = to => change = NoChange
<1> DEFINE change == WhatChanged(from, to, rate)
<1>1. /\ from \in Troves /\ from.collateral \in Nat /\ from.debt \in Nat
      /\ to.collateral \in Nat /\ to.debt \in Nat
  BY DEF ChainTroves, Troves
<1>2. CASE from = to
  BY <1>2, NoChangeType DEF WhatChanged, OfferedChanges
<1>3. CASE from # to /\ IsEmpty(from) /\ to.debt < LIQUIDATION_RESERVE
  BY <1>3, EmptyTroveType DEF WhatChanged, WhateverChanges, Change, Amounts
<1>4. CASE from # to /\ IsEmpty(from) /\ ~(to.debt < LIQUIDATION_RESERVE)
  <2>1. NetDebt(to) \in Nat
    BY <1>1, <1>4, MinimumDebtType DEF NetDebt
  <2>2. UnapplyFee(rate, NetDebt(to)) \in Nat
    BY <2>1, FeesAreAmounts
  <2>3. change = Change("creation", to.collateral, Absent,
                        UnapplyFee(rate, NetDebt(to)), Absent, "none")
    BY <1>4 DEF WhatChanged
  <2> QED
    BY <1>1, <1>4, <2>2, <2>3, EmptyTroveType DEF WhateverChanges, Change, Amounts
<1>5. CASE from # to /\ ~IsEmpty(from) /\ IsEmpty(to)
  <2>1. NetDebt(from) \in Nat /\ NetDebt(from) # 0
    BY <1>1, <1>5, EmptyTroveType, MinimumDebtType DEF NetDebt, ChainTroves
  <2>2. change = Change("closure", Absent, from.collateral, Absent, NetDebt(from), "none")
    BY <1>5, <2>1 DEF WhatChanged
  <2> QED
    BY <1>1, <1>5, <2>1, <2>2, EmptyTroveType DEF WhateverChanges, Change, Amounts
<1>6. CASE from # to /\ ~IsEmpty(from) /\ ~IsEmpty(to)
  <2>1. change = Adjustment(from, to, rate)
    BY <1>6 DEF WhatChanged
  <2>2. ASSUME to.debt > from.debt
        PROVE  UnapplyFee(rate, to.debt - from.debt) \in Nat
    <3>1. to.debt - from.debt \in Nat
      BY <1>1, <2>2
    <3> QED
      BY <3>1, FeesAreAmounts
  <2> DEFINE d == IF from.debt = to.debt THEN [borrow |-> Absent, repay |-> Absent]
                  ELSE DebtChange(from, to, rate)
             c == IF from.collateral = to.collateral
                  THEN [deposit |-> Absent, withdraw |-> Absent]
                  ELSE CollateralChange(from, to)
             zeroed == IF from.debt # to.debt /\ to.debt = 0 THEN "debt"
                       ELSE IF from.collateral # to.collateral /\ to.collateral = 0
                       THEN "collateral" ELSE "none"
  <2>3. d.borrow \in Amounts /\ d.repay \in Amounts
    BY <1>1, <2>2 DEF DebtChange, Amounts
  <2>4. c.deposit \in Amounts /\ c.withdraw \in Amounts
    BY <1>1 DEF CollateralChange, Amounts
  <2>5. zeroed \in {"none", "debt", "collateral"}
    OBVIOUS
  <2>6. change = Change("adjustment", c.deposit, c.withdraw, d.borrow, d.repay, zeroed)
    BY <2>1, Zenon DEF Adjustment
  <2> HIDE DEF d, c, zeroed
  <2>7. change \in WhateverChanges /\ change.type = "adjustment"
        /\ change.invalidTrove = EmptyTrove
    BY <2>3, <2>4, <2>5, <2>6, EmptyTroveType DEF WhateverChanges, Change
  <2> QED
    BY <1>6, <2>1, <2>7
<1> QED
  BY <1>2, <1>3, <1>4, <1>5, <1>6

\* An offer sets nothing to zero: an adjustment that would pay the whole debt
\* back, or take the whole collateral out, is not valid.
LEMMA ValidChangeType ==
    ASSUME NEW s \in SomeChains, NEW from \in ChainTroves, NEW to \in Troves
    PROVE  /\ ValidChange(s, from, to) \in OfferedChanges
           /\ ValidChange(s, from, to) \in {NoChange, WhatChanged(from, to, Rate(s))}
           /\ from = to => ValidChange(s, from, to) = NoChange
<1> DEFINE change   == WhatChanged(from, to, Rate(s))
           result   == Apply(from, change, Rate(s))
           total    == Plus(s.trove, Others)
           recovery == IsBelowCritical(total, s.price)
           triggers == IsBelowCritical(Plus(Subtract(total, from), result), s.price)
<1>1. Rate(s) \in Nat /\ Rate(s) <= ONE
  BY RateType
<1>2. change \in WhateverChanges
  BY <1>1, WhatChangedType
<1>3. ValidChange(s, from, to) \in {NoChange, change}
  BY DEF ValidChange
<1>4. CASE change.type \in {"none", "invalidCreation"}
  <2>1. ValidChange(s, from, to) = NoChange
    BY <1>4 DEF ValidChange
  <2> QED
    BY <2>1, NoChangeType
<1>5. from = to => change.type = "none"
  BY <1>1, WhatChangedType, NoChangeType
<1>6. CASE change.type = "closure"
  BY <1>1, <1>2, <1>3, <1>5, <1>6, WhatChangedType, NoChangeType DEF OfferedChanges
<1>7. CASE change.type = "creation"
  <2>1. ValidChange(s, from, to) = change => MINIMUM_NET_DEBT <= change.borrowDebtToken
    <3>1. ValidChange(s, from, to) = change =>
             ~InvalidCreation(s, change, result, recovery, triggers)
      BY <1>7, NoChangeType DEF ValidChange
    <3> QED
      BY <1>1, <1>7, <3>1, WhatChangedType, MinimumDebtType DEF InvalidCreation
  <2> QED
    BY <1>1, <1>2, <1>3, <1>5, <1>7, <2>1, WhatChangedType, NoChangeType DEF OfferedChanges
<1>8. CASE change.type = "adjustment"
  <2>1. /\ from \in Troves /\ from.collateral \in Nat /\ from.debt \in Nat
        /\ to.collateral \in Nat /\ to.debt \in Nat
    BY DEF ChainTroves, Troves
  <2>2. change = Adjustment(from, to, Rate(s)) /\ ~IsEmpty(to)
    BY <1>1, <1>8, WhatChangedType
  <2>3. /\ change.setToZero = IF from.debt # to.debt /\ to.debt = 0 THEN "debt"
                              ELSE IF from.collateral # to.collateral /\ to.collateral = 0
                              THEN "collateral" ELSE "none"
        /\ to.debt < from.debt => change.repayDebtToken = from.debt - to.debt
        /\ to.collateral < from.collateral =>
               change.withdrawCollateral = from.collateral - to.collateral
    BY <2>1, <2>2 DEF Adjustment, DebtChange, CollateralChange, Change
  <2>4. result = Adjusted(from, change, Rate(s))
    BY <1>8 DEF Apply, ApplyThrows
  <2>5. /\ result.collateral = to.collateral
        /\ result.debt \in {to.debt, to.debt + 1}
        /\ to.debt <= from.debt => result.debt = to.debt
    BY <1>1, <2>1, <2>2, <2>4, AdjustmentIsApplied
  <2> HIDE DEF result, change, recovery, triggers
  <2>6. CASE from.debt # to.debt /\ to.debt = 0
    <3>1. change.repayDebtToken \in Nat \ {0} /\ result.debt < MINIMUM_DEBT
      BY <2>1, <2>3, <2>5, <2>6, MinimumDebtType
    <3>2. InvalidAdjustment(s, change, result, recovery, triggers)
      BY <3>1 DEF InvalidAdjustment, Absent
    <3>3. ValidChange(s, from, to) = NoChange
      BY <1>8, <3>2, Zenon DEF ValidChange, change, result, recovery, triggers, total
    <3> QED
      BY <3>3, NoChangeType, <1>5
  <2>7. CASE ~(from.debt # to.debt /\ to.debt = 0)
            /\ from.collateral # to.collateral /\ to.collateral = 0
    <3>1. change.withdrawCollateral \in Nat \ {0}
      BY <2>1, <2>3, <2>7
    <3>2. result.collateral = 0 /\ result.debt \in Nat \ {0}
      BY <2>1, <2>2, <2>5, <2>7 DEF IsEmpty
    <3>3. (0 * s.price) \div result.debt = 0
      BY <3>2, TroveOnChain, SMT
    <3>4. CollateralRatio(result, s.price) = 0
      BY <3>2, <3>3 DEF CollateralRatio, MulDiv
    <3>5. IsBelowMinimum(result, s.price)
      BY <3>4, ParametersAssumption DEF IsBelowMinimum
    <3>6. InvalidAdjustment(s, change, result, recovery, triggers)
      BY <3>1, <3>5 DEF InvalidAdjustment, Absent
    <3>7. ValidChange(s, from, to) = NoChange
      BY <1>8, <3>6, Zenon DEF ValidChange, change, result, recovery, triggers, total
    <3> QED
      BY <3>7, NoChangeType, <1>5
  <2>8. CASE change.setToZero = "none"
    BY <1>1, <1>2, <1>3, <1>5, <1>8, <2>8, WhatChangedType, NoChangeType
       DEF OfferedChanges, change
  <2> QED
    BY <2>3, <2>6, <2>7, <2>8
<1> QED
  BY <1>2, <1>4, <1>6, <1>7, <1>8 DEF WhateverChanges

-----------------------------------------------------------------------------
(* Types of the page                                                       *)

Forms == [collateral : Nat, amount : Nat, previous : ChainTroves,
          stable : OfferedChanges, touched : BOOLEAN]
Managers == {m \in [original : ChainTroves, edited : ChainTroves, changePending : BOOLEAN,
                    debtDirty : BOOLEAN, addedMinimumDebt : BOOLEAN,
                    subscribed : BOOLEAN] : m.edited \in {m.original, EmptyTrove}}
TxTypes == Waiting \cup {"idle", "failed", "cancelled", "confirmedOneShot"}
TroveTxs == [id : {"none", "trove-creation", "trove-adjustment", "trove-closure"},
             type : TxTypes, change : OfferedChanges,
             receipt : {"none", "succeeded", "failed"}]
Commits == [store : SomeChains, form : Forms, manager : Managers,
            change : OfferedChanges, type : TxTypes, seen : TxTypes, status : Statuses]

\* The panel Adjusting never sees a Trove without a net debt.
AdjustsDebt ==
    shown = "ADJUSTING" =>
        ~NetDebtThrows(form.previous) /\ ~NetDebtThrows(drawn.store.trove)

TroveTypeOK ==
    /\ chain \in SomeChains /\ store \in SomeChains
    /\ view \in Views /\ viewRef \in Views /\ shown \in Views
    /\ form \in Forms /\ manager \in Managers /\ tx \in TroveTxs /\ drawn \in Commits
    /\ effects \subseteq {"draw", "mount", "status", "subscribe", "tx"}
    /\ dirty \in BOOLEAN /\ crashed \in BOOLEAN /\ overlooked \in BOOLEAN
    /\ hasty \in BOOLEAN

LEMMA NetDebtType ==
    ASSUME NEW t \in ChainTroves, ~NetDebtThrows(t)
    PROVE  NetDebt(t) \in Nat
  BY MinimumDebtType DEF NetDebtThrows, NetDebt, ChainTroves, Troves

LEMMA NewFormType ==
    ASSUME NEW v, NEW s \in SomeChains, v = "ADJUSTING" => ~NetDebtThrows(s.trove)
    PROVE  NewForm(v, s) \in Forms /\ NewForm(v, s).previous = s.trove
<1>1. s.trove \in ChainTroves /\ s.trove.collateral \in Nat
  BY TroveOnChain DEF Troves
<1>2. v = "ADJUSTING" => NetDebt(s.trove) \in Nat
  BY <1>1, NetDebtType
<1> QED
  BY <1>1, <1>2, NoChangeType DEF NewForm, Forms

LEMMA NewManagerTrove ==
    ASSUME NEW t \in ChainTroves
    PROVE  NewManager(t) \in Managers
  BY DEF NewManager, Managers

LEMMA MulType == \A a, b \in Nat : Mul(a, b) \in Nat
<1> SUFFICES ASSUME NEW a \in Nat, NEW b \in Nat PROVE Mul(a, b) \in Nat
  OBVIOUS
<1>1. a * b \in Nat /\ DIGITS \in Nat \ {0}
  BY ScaleAssumption, SMT
<1> QED
  BY <1>1, Quotient DEF Mul

LEMMA AddTroves ==
    ASSUME NEW t \in ChainTroves, NEW u \in Troves
    PROVE  /\ Plus(t, u) \in Troves
           /\ ~IsEmpty(t) => Plus(t, u) \in ChainTroves /\ MINIMUM_DEBT <= Plus(t, u).debt
<1>1. t.collateral \in Nat /\ t.debt \in Nat /\ u.collateral \in Nat /\ u.debt \in Nat
  BY DEF ChainTroves, Troves
<1>2. Plus(t, u).collateral = t.collateral + u.collateral
      /\ Plus(t, u).debt = t.debt + u.debt /\ Plus(t, u) \in Troves
  BY <1>1 DEF Plus, Trove, Troves
<1>3. ~IsEmpty(t) => MINIMUM_DEBT <= t.debt
  BY EmptyTroveType DEF ChainTroves
<1> QED
  BY <1>1, <1>2, <1>3, MinimumDebtType DEF ChainTroves

\* What the fields of a panel describe.
LEMMA FieldsDescribeTroves ==
    ASSUME NEW s \in SomeChains, NEW f \in Forms
    PROVE  /\ OpenedTrove(s, f) \in Troves
           /\ ~NetDebtThrows(s.trove) => AdjustedTrove(s, f) \in Troves
           /\ ~IsDirty(s, f) => AdjustedTrove(s, f) = s.trove
<1>1. /\ s.trove \in ChainTroves /\ s.trove \in Troves /\ Rate(s) \in Nat
      /\ f.collateral \in Nat /\ f.amount \in Nat /\ LIQUIDATION_RESERVE \in Nat
  BY TroveOnChain, RateType, MinimumDebtType DEF Forms
<1>2. Mul(f.amount, Rate(s)) \in Nat
  BY <1>1, MulType
<1>3. OpenedTrove(s, f) \in Troves
  BY <1>1, <1>2, EmptyTroveType DEF OpenedTrove, Trove, Troves
<1>4. ASSUME ~NetDebtThrows(s.trove) PROVE AdjustedTrove(s, f) \in Troves
  <2> DEFINE more == Less(f.amount, NetDebt(s.trove))
             from == s.trove
             to   == Plus(s.trove, Trove(0, more))
             fee  == FeeFrom(from, to, Rate(s))
  <2>1. NetDebt(s.trove) \in Nat
    BY <1>1, <1>4, NetDebtType
  <2>2. more \in Nat
    BY <1>1, <2>1 DEF Less
  <2>3. to \in Troves
    BY <1>1, <2>2, AddTroves DEF Trove, Troves
  <2>4. WhatChanged(from, to, Rate(s)).borrowDebtToken \in Amounts
    BY <1>1, <2>3, WhatChangedType DEF WhateverChanges
  <2> HIDE DEF more, from, to
  <2>5. WhatChanged(from, to, Rate(s)).borrowDebtToken # Absent =>
           Mul(WhatChanged(from, to, Rate(s)).borrowDebtToken, Rate(s)) \in Nat
    BY <1>1, <2>4, MulType DEF Amounts
  <2>6. fee \in Nat
    BY <2>5 DEF FeeFrom
  <2> HIDE DEF fee
  <2>7. f.amount + LIQUIDATION_RESERVE + fee \in Nat
    BY <1>1, <2>6
  <2>8. AdjustedTrove(s, f) \in
           {Trove(f.collateral, f.amount + LIQUIDATION_RESERVE + fee), s.trove}
    BY Zenon DEF AdjustedTrove, fee, from, to, more
  <2> QED
    BY <1>1, <2>7, <2>8 DEF Trove, Troves
<1> QED
  BY <1>3, <1>4 DEF AdjustedTrove

\* What a panel offers depends on its fields alone, and can be confirmed.
LEMMA OfferType ==
    ASSUME NEW v, NEW s \in SomeChains, NEW f \in Forms, NEW m \in Managers,
           v = "ADJUSTING" => ~NetDebtThrows(s.trove)
    PROVE  /\ Offered(v, s, f, m) \in OfferedChanges
           /\ \A g : g.collateral = f.collateral /\ g.amount = f.amount =>
                  Offered(v, s, g, m) = Offered(v, s, f, m)
<1>1. /\ s.trove \in ChainTroves /\ m.original \in ChainTroves /\ m.edited \in Troves
      /\ EmptyTrove \in ChainTroves
  BY TroveOnChain, EmptyTroveType DEF Managers, ChainTroves
<1>2. Offered(v, s, f, m) \in OfferedChanges
  <2>1. CASE v = "OPENING"
    BY <1>1, <2>1, FieldsDescribeTroves, ValidChangeType DEF Offered
  <2>2. CASE v = "ADJUSTING"
    BY <1>1, <2>2, FieldsDescribeTroves, ValidChangeType DEF Offered
  <2>3. CASE v = "CLOSING"
    BY <1>1, <2>3, ValidChangeType DEF Offered
  <2>4. CASE v \notin {"OPENING", "ADJUSTING", "CLOSING"}
    BY <2>4, NoChangeType DEF Offered
  <2> QED
    BY <2>1, <2>2, <2>3, <2>4
<1>3. ASSUME NEW g, g.collateral = f.collateral, g.amount = f.amount
      PROVE  Offered(v, s, g, m) = Offered(v, s, f, m)
  <2>1. OpenedTrove(s, g) = OpenedTrove(s, f)
    BY <1>3, Zenon DEF OpenedTrove
  <2>2. AdjustedTrove(s, g) = AdjustedTrove(s, f)
    BY <1>3, Zenon DEF AdjustedTrove, IsDirty
  <2> QED
    BY <2>1, <2>2, Zenon DEF Offered
<1> QED
  BY <1>2, <1>3

LEMMA RebasedType ==
    ASSUME NEW a \in Nat, NEW b \in Nat, NEW old \in Nat
    PROVE  /\ Rebased(Between(a, b), old) \in Nat
           /\ Rebased(Between(b, b), old) = old
<1> DEFINE d == Between(a, b)
           e == Between(b, b)
<1>1. d.sign \in {"+", "-"} => d.absoluteValue \in Nat
  BY ScaleAssumption DEF Between, NotAvailable, Absent
<1>2. e.sign # "+" /\ e.sign # "-"
  BY ScaleAssumption DEF Between, NotAvailable, Absent
<1> HIDE DEF d, e
<1>3. Rebased(d, old) \in Nat
  BY <1>1 DEF Rebased
<1>4. Rebased(e, old) = old
  BY <1>2 DEF Rebased
<1> QED
  BY <1>3, <1>4 DEF d, e

\* The effect of Adjusting; fields that are the old Trove's become the new one's.
LEMMA RebaseType ==
    ASSUME NEW f \in Forms, NEW seen \in Forms, NEW t \in ChainTroves,
           ~NetDebtThrows(t), ~NetDebtThrows(f.previous)
    PROVE  LET g == Rebase(f, seen, t)
           IN /\ g \in Forms /\ g.previous = t /\ g.touched = f.touched
              /\ g.stable = f.stable
              /\ /\ seen.collateral = f.previous.collateral
                 /\ f.collateral \in {f.previous.collateral, t.collateral}
                 => g.collateral = t.collateral
              /\ /\ seen.amount = NetDebt(f.previous)
                 /\ f.amount \in {NetDebt(f.previous), NetDebt(t)}
                 => g.amount = NetDebt(t)
<1> DEFINE g == Rebase(f, seen, t)
           c == IF f.previous.collateral = t.collateral THEN f.collateral
                ELSE Rebased(Between(seen.collateral, f.previous.collateral), t.collateral)
           a == IF f.previous.debt = t.debt THEN f.amount
                ELSE Rebased(Between(seen.amount, NetDebt(f.previous)), NetDebt(t))
<1>1. /\ f.collateral \in Nat /\ f.amount \in Nat /\ f.previous \in ChainTroves
      /\ seen.collateral \in Nat /\ seen.amount \in Nat
      /\ f.previous.collateral \in Nat /\ t.collateral \in Nat
  BY DEF Forms, ChainTroves, Troves
<1>2. NetDebt(t) \in Nat /\ NetDebt(f.previous) \in Nat
  BY <1>1, NetDebtType
<1>3. c \in Nat /\ a \in Nat
  BY <1>1, <1>2, RebasedType
<1>4. ASSUME seen.collateral = f.previous.collateral,
             f.collateral \in {f.previous.collateral, t.collateral}
      PROVE  c = t.collateral
  <2>1. CASE f.previous.collateral = t.collateral
    BY <1>4, <2>1
  <2>2. CASE f.previous.collateral # t.collateral
    <3>1. c = Rebased(Between(f.previous.collateral, f.previous.collateral), t.collateral)
      BY <1>4, <2>2
    <3> QED
      BY <1>1, <3>1, RebasedType
  <2> QED
    BY <2>1, <2>2
<1>5. ASSUME seen.amount = NetDebt(f.previous),
             f.amount \in {NetDebt(f.previous), NetDebt(t)}
      PROVE  a = NetDebt(t)
  <2>1. f.previous.debt = t.debt => NetDebt(f.previous) = NetDebt(t)
    BY DEF NetDebt
  <2>2. Rebased(Between(NetDebt(f.previous), NetDebt(f.previous)), NetDebt(t)) = NetDebt(t)
    BY <1>2, RebasedType
  <2>3. CASE f.previous.debt = t.debt
    BY <1>5, <2>1, <2>3
  <2>4. CASE f.previous.debt # t.debt
    <3>1. a = Rebased(Between(NetDebt(f.previous), NetDebt(f.previous)), NetDebt(t))
      BY <1>5, <2>4
    <3> QED
      BY <2>2, <3>1
  <2> QED
    BY <2>3, <2>4
<1>6. g = [f EXCEPT !.collateral = c, !.amount = a, !.previous = t]
  BY Zenon DEF Rebase
<1> HIDE DEF c, a, g
<1>7. /\ g \in Forms /\ g.previous = t /\ g.touched = f.touched /\ g.stable = f.stable
      /\ g.collateral = c /\ g.amount = a
  BY <1>3, <1>6 DEF Forms
<1>8. (/\ seen.collateral = f.previous.collateral
       /\ f.collateral \in {f.previous.collateral, t.collateral})
      => g.collateral = t.collateral
  BY <1>4, <1>7
<1>9. (seen.amount = NetDebt(f.previous) /\ f.amount \in {NetDebt(f.previous), NetDebt(t)})
      => g.amount = NetDebt(t)
  BY <1>5, <1>7
<1> QED
  BY <1>7, <1>8, <1>9, Zenon DEF g

LEMMA StabilizedType ==
    ASSUME NEW f \in Forms, NEW change \in OfferedChanges
    PROVE  LET g == Stabilized(f, change)
           IN /\ g \in Forms /\ g.previous = f.previous /\ g.touched = f.touched
              /\ g.collateral = f.collateral /\ g.amount = f.amount
              /\ g.stable = change
<1>1. f.stable \in OfferedChanges
  BY DEF Forms
<1>2. \A c \in OfferedChanges : [c EXCEPT !.setToZero = "none"] = c
  BY DEF OfferedChanges, WhateverChanges
<1>3. SameChange(f.stable, change) => f.stable = change
  BY <1>1, <1>2 DEF SameChange
<1> QED
  BY <1>3 DEF Stabilized, Forms

LEMMA FormEffectsType ==
    ASSUME TroveTypeOK, AdjustsDebt
    PROVE  /\ FormAfterEffects \in Forms /\ FormAfterEffects.touched = form.touched
           /\ FormAfterEffects.stable = drawn.change
           /\ shown = "ADJUSTING" => FormAfterEffects.previous = drawn.store.trove
           /\ shown = "ADJUSTING" =>
                 LET g == Rebase(form, drawn.form, drawn.store.trove)
                 IN FormAfterEffects.collateral = g.collateral
                    /\ FormAfterEffects.amount = g.amount
<1>1. /\ form \in Forms /\ drawn.form \in Forms /\ drawn.change \in OfferedChanges
      /\ drawn.store.trove \in ChainTroves
  BY TroveOnChain DEF TroveTypeOK, Commits
<1>2. CASE shown = "ADJUSTING"
  <2>1. Rebase(form, drawn.form, drawn.store.trove) \in Forms
        /\ Rebase(form, drawn.form, drawn.store.trove).previous = drawn.store.trove
        /\ Rebase(form, drawn.form, drawn.store.trove).touched = form.touched
    BY <1>1, <1>2, RebaseType DEF AdjustsDebt
  <2>2. FormAfterEffects
          = Stabilized(Rebase(form, drawn.form, drawn.store.trove), drawn.change)
    BY <1>2 DEF FormAfterEffects
  <2> QED
    BY <1>1, <2>1, <2>2, StabilizedType
<1>3. CASE shown = "OPENING" /\ drawn.form.collateral # 0 /\ drawn.form.amount = 0
  <2>1. FormAfterEffects
          = [Stabilized(form, drawn.change) EXCEPT !.amount = MINIMUM_NET_DEBT]
    BY <1>3 DEF FormAfterEffects
  <2>2. /\ Stabilized(form, drawn.change) \in Forms
        /\ Stabilized(form, drawn.change).touched = form.touched
        /\ Stabilized(form, drawn.change).stable = drawn.change
    BY <1>1, StabilizedType
  <2> QED
    BY <1>3, <2>1, <2>2, MinimumDebtType DEF Forms
<1>4. CASE ~(shown = "ADJUSTING")
           /\ ~(shown = "OPENING" /\ drawn.form.collateral # 0 /\ drawn.form.amount = 0)
  <2>1. FormAfterEffects = Stabilized(form, drawn.change)
    BY <1>4 DEF FormAfterEffects
  <2> QED
    BY <1>1, <1>4, <2>1, StabilizedType
<1> QED
  BY <1>2, <1>3, <1>4

\* Mounting the panel that closes a Trove edits it to nothing.
LEMMA ManagerEffectsType ==
    ASSUME TroveTypeOK
    PROVE  ManagerAfterEffects \in Managers
           /\ ManagerAfterEffects.original = manager.original
<1> DEFINE zero == [SetDebt(SetCollateral(manager, 0), 0) EXCEPT !.subscribed = TRUE]
           mounted == IF "mount" \in effects THEN zero ELSE manager
<1>1. manager \in Managers /\ EmptyTrove \in ChainTroves
  BY EmptyTroveType DEF TroveTypeOK
<1>2. zero \in Managers /\ zero.original = manager.original
  <2> DEFINE set == SetCollateral(manager, 0)
  <2>1. /\ manager.edited \in [collateral : Nat, debt : Nat]
        /\ manager.original \in ChainTroves
        /\ manager \in [original : ChainTroves, edited : ChainTroves,
                        changePending : BOOLEAN, debtDirty : BOOLEAN,
                        addedMinimumDebt : BOOLEAN, subscribed : BOOLEAN]
    BY <1>1 DEF Managers, ChainTroves, Troves
  <2>2. /\ set.original = manager.original /\ set.edited.collateral = 0
        /\ set.changePending = manager.changePending
        /\ set.addedMinimumDebt \in BOOLEAN
        /\ set.edited \in [collateral : Nat, debt : Nat]
        /\ set \in [original : ChainTroves, edited : [collateral : Nat, debt : Nat],
                    changePending : BOOLEAN, debtDirty : BOOLEAN,
                    addedMinimumDebt : BOOLEAN, subscribed : BOOLEAN]
    BY <2>1, MinimumDebtType DEF SetCollateral
  <2> HIDE DEF set
  <2>3. zero = [[set EXCEPT !.edited.debt = 0, !.debtDirty = TRUE] EXCEPT !.subscribed = TRUE]
    BY Zenon DEF SetDebt, set
  <2>4. zero.edited = EmptyTrove /\ zero.original = manager.original
    BY <2>2, <2>3 DEF EmptyTrove, Trove
  <2> DEFINE Kept == [original : ChainTroves, edited : [collateral : Nat, debt : Nat],
                      changePending : BOOLEAN, debtDirty : BOOLEAN,
                      addedMinimumDebt : BOOLEAN, subscribed : BOOLEAN]
             undebted == [set EXCEPT !.edited.debt = 0, !.debtDirty = TRUE]
  <2>5. undebted \in Kept
    BY <2>2
  <2>6. zero = [undebted EXCEPT !.subscribed = TRUE]
    BY <2>3
  <2> HIDE DEF undebted
  <2>7. zero \in Kept
    BY <2>5, <2>6
  <2> HIDE DEF zero
  <2> QED
    BY <1>1, <2>4, <2>7 DEF Managers
<1> HIDE DEF zero
<1>3. mounted \in Managers /\ mounted.original = manager.original
  BY <1>1, <1>2
<1>4. \E b \in BOOLEAN : ManagerAfterEffects \in
         {manager, mounted, [mounted EXCEPT !.changePending = b]}
  <2>1. ManagerAfterEffects = IF shown # "CLOSING" THEN manager
           ELSE IF "tx" \notin effects THEN mounted
           ELSE [mounted EXCEPT !.changePending =
                     IF drawn.type \in Waiting THEN TRUE
                     ELSE IF drawn.type \in {"failed", "cancelled"} THEN FALSE ELSE @]
    BY Zenon DEF ManagerAfterEffects, zero
  <2>2. mounted.changePending \in BOOLEAN
    BY <1>3 DEF Managers
  <2> HIDE DEF mounted
  <2> QED
    BY <2>1, <2>2
<1> HIDE DEF mounted
<1> QED
  BY <1>1, <1>3, <1>4 DEF Managers

LEMMA ClosureOrNothing ==
    ASSUME NEW m \in Managers, NEW rate
    PROVE  \/ WhatChanged(m.original, m.edited, rate) = NoChange
           \/ WhatChanged(m.original, m.edited, rate).type = "closure"
<1>1. m.original \in ChainTroves /\ m.edited \in {m.original, EmptyTrove}
  BY DEF Managers
<1>2. CASE m.edited = m.original
  BY <1>2 DEF WhatChanged
<1>3. CASE m.edited # m.original
  <2>1. m.edited = EmptyTrove /\ ~IsEmpty(m.original)
    BY <1>1, <1>3, EmptyTroveType DEF ChainTroves
  <2> QED
    BY <1>3, <2>1, EmptyTroveType DEF WhatChanged, Change
<1> QED
  BY <1>2, <1>3

\* The update of the reducer: an edit that closes the Trove stays one, or is
\* reverted to the Trove that came.
LEMMA UpdateStoreType ==
    ASSUME NEW m \in Managers, NEW t \in ChainTroves, NEW committed \in BOOLEAN
    PROVE  UpdateStore(m, t, committed) \in Managers
<1> DEFINE change == WhatChanged(m.original, m.edited, 0)
           told   == [m EXCEPT !.original = t]
<1>1. /\ m.original \in ChainTroves /\ m.edited \in {m.original, EmptyTrove}
      /\ EmptyTrove \in ChainTroves /\ IsEmpty(EmptyTrove)
  BY EmptyTroveType DEF Managers
<1>2. change.type \in {"none", "closure"}
  <2>1. m.edited = m.original => change = NoChange
    BY DEF WhatChanged
  <2>2. CASE m.edited # m.original
    <3>1. m.edited = EmptyTrove /\ ~IsEmpty(m.original)
      BY <1>1, <2>2, EmptyTroveType DEF ChainTroves
    <3> QED
      BY <1>1, <2>2, <3>1 DEF WhatChanged, Change
  <2> QED
    BY <2>1, <2>2, NoChangeType
<1>3. change.type = "none" => Apply(t, change, 0) = t
  BY DEF Apply, ApplyThrows
<1>4. change.type = "closure" /\ ~IsEmpty(t) => Apply(t, change, 0) = EmptyTrove
  BY DEF Apply, ApplyThrows
<1> HIDE DEF change
<1>5. /\ told \in [original : ChainTroves, edited : ChainTroves, changePending : BOOLEAN,
                   debtDirty : BOOLEAN, addedMinimumDebt : BOOLEAN, subscribed : BOOLEAN]
      /\ told.original = t
  BY DEF Managers
<1>6. UpdateStore(m, t, committed) \in
         {[Revert(told) EXCEPT !.changePending = FALSE], Revert(told),
          [told EXCEPT !.edited = t], [told EXCEPT !.edited = EmptyTrove]}
  BY <1>2, <1>3, <1>4 DEF UpdateStore, change
<1> HIDE DEF told
<1>7. Revert(told) \in Managers
  BY <1>5 DEF Revert, Managers
<1>8. [Revert(told) EXCEPT !.changePending = FALSE] \in Managers
  BY <1>7 DEF Managers
<1>9. [told EXCEPT !.edited = t] \in Managers /\ [told EXCEPT !.edited = EmptyTrove] \in Managers
  BY <1>1, <1>5 DEF Managers
<1> QED
  BY <1>6, <1>7, <1>8, <1>9

LEMMA FeeOnlyAdds == \A b, rate \in Nat : ApplyFee(rate, b) \in Nat /\ b <= ApplyFee(rate, b)
<1> SUFFICES ASSUME NEW b \in Nat, NEW rate \in Nat
             PROVE  ApplyFee(rate, b) \in Nat /\ b <= ApplyFee(rate, b)
  OBVIOUS
<1> DEFINE n == b * (ONE + rate)
           q == n \div DIGITS
<1>1. DIGITS \in Nat \ {0} /\ ONE = DIGITS
  BY ScaleAssumption DEF ONE
<1>2. n = DIGITS * b + b * rate /\ b * rate \in Nat /\ n \in Nat /\ DIGITS * b \in Nat
  BY <1>1, SMT
<1> HIDE DEF n
<1>3. q \in Nat /\ n < DIGITS * q + DIGITS
  BY <1>1, <1>2, Quotient
<1> HIDE DEF q
<1>4. DIGITS * b < DIGITS * (q + 1)
  BY <1>1, <1>2, <1>3, SMT
<1>5. b < q + 1
  BY <1>1, <1>3, <1>4, SMT
<1>6. ApplyFee(rate, b) = q
  BY DEF ApplyFee, Mul, q, n
<1> QED
  BY <1>3, <1>5, <1>6

\* What a block makes of the Trove.
LEMMA MinedChain ==
    ASSUME TroveTypeOK, Mined
    PROVE  /\ chain' \in SomeChains /\ tx' \in TroveTxs
           /\ chain' # chain => tx'.receipt = "succeeded"
           /\ tx'.type = tx.type /\ tx'.change = tx.change /\ tx'.id = tx.id
<1> DEFINE c == tx.change
           t == chain.trove
           closes == c.type = "closure"
           legal == /\ (c.type = "creation") <=> (chain.status # "open")
                    /\ OrZero(c.withdrawCollateral) <= t.collateral
                    /\ closes \/ OrZero(c.repayDebtToken) <= Less(t.debt, MINIMUM_DEBT)
           u == Apply(t, c, Rate(chain))
<1>1. /\ tx \in TroveTxs /\ c \in OfferedChanges /\ chain \in SomeChains
      /\ t.collateral \in Nat /\ t.debt \in Nat /\ t \in Troves
      /\ chain.status = "open" => MINIMUM_DEBT <= t.debt
      /\ chain.status # "open" => t = EmptyTrove
      /\ chain.touched \in {0, 1} /\ chain.status \in Statuses
  BY TroveOnChain DEF TroveTypeOK, TroveTxs, SomeChains, Troves
<1>2. Rate(chain) \in Nat
  BY <1>1, RateType
<1>3. /\ c.depositCollateral \in Amounts /\ c.withdrawCollateral \in Amounts
      /\ c.borrowDebtToken \in Amounts /\ c.repayDebtToken \in Amounts
      /\ c.type \in {"none", "creation", "closure", "adjustment"}
      /\ c.setToZero = "none"
  BY <1>1 DEF OfferedChanges, WhateverChanges
<1>4. ASSUME legal
      PROVE  IF closes THEN u = EmptyTrove ELSE u \in Troves /\ MINIMUM_DEBT <= u.debt
  <2>1. chain.status = "open" => ~IsEmpty(t)
    BY <1>1, MinimumDebtType DEF IsEmpty
  <2>2. CASE c.type = "none"
    BY <1>1, <1>4, <2>2 DEF Apply, ApplyThrows
  <2>3. CASE c.type = "closure"
    BY <1>1, <1>4, <2>1, <2>3 DEF Apply, ApplyThrows
  <2>4. CASE c.type = "creation"
    <3>1. t = EmptyTrove /\ IsEmpty(t)
      BY <1>1, <1>4, <2>4, EmptyTroveType
    <3>2. /\ c.depositCollateral \in Nat /\ c.borrowDebtToken \in Nat
          /\ MINIMUM_NET_DEBT <= c.borrowDebtToken
      BY <1>1, <2>4 DEF OfferedChanges
    <3>3. u = Trove(c.depositCollateral,
                    LIQUIDATION_RESERVE + ApplyFee(Rate(chain), c.borrowDebtToken))
      BY <2>4, <3>1 DEF Apply, ApplyThrows
    <3>4. ApplyFee(Rate(chain), c.borrowDebtToken) \in Nat
          /\ c.borrowDebtToken <= ApplyFee(Rate(chain), c.borrowDebtToken)
      BY <1>2, <3>2, FeeOnlyAdds
    <3> HIDE DEF u
    <3> QED
      BY <2>4, <3>2, <3>3, <3>4, MinimumDebtType DEF Trove, Troves
  <2>5. CASE c.type = "adjustment"
    <3> DEFINE fee == IF c.borrowDebtToken = Absent THEN 0
                      ELSE ApplyFee(Rate(chain), c.borrowDebtToken)
               up   == Trove(OrZero(c.depositCollateral), fee)
               down == Trove(OrZero(c.withdrawCollateral), OrZero(c.repayDebtToken))
    <3>1. /\ OrZero(c.depositCollateral) \in Nat /\ OrZero(c.withdrawCollateral) \in Nat
          /\ OrZero(c.repayDebtToken) \in Nat
      BY <1>3 DEF OrZero, Amounts
    <3>2. fee \in Nat
      BY <1>2, <1>3, FeesAreAmounts DEF Amounts
    <3>3. u = Subtract(Plus(t, up), down)
      BY <1>3, <2>5 DEF Apply, ApplyThrows, Adjusted
    <3> HIDE DEF u, fee
    <3>4. /\ u.collateral = Less(t.collateral + OrZero(c.depositCollateral),
                                 OrZero(c.withdrawCollateral))
          /\ u.debt = Less(t.debt + fee, OrZero(c.repayDebtToken))
          /\ u = Trove(u.collateral, u.debt)
      BY <3>3 DEF Subtract, Plus, Trove
    <3>5. MINIMUM_DEBT <= t.debt /\ OrZero(c.repayDebtToken) <= t.debt - MINIMUM_DEBT
      BY <1>1, <1>4, <2>5, MinimumDebtType DEF Less
    <3>6. Less(t.debt + fee, OrZero(c.repayDebtToken)) \in Nat
          /\ MINIMUM_DEBT <= Less(t.debt + fee, OrZero(c.repayDebtToken))
      BY <1>1, <3>1, <3>2, <3>5, MinimumDebtType DEF Less
    <3>7. Less(t.collateral + OrZero(c.depositCollateral), OrZero(c.withdrawCollateral)) \in Nat
      BY <1>1, <3>1 DEF Less
    <3> QED
      BY <2>5, <3>4, <3>6, <3>7 DEF Trove, Troves
  <2> QED
    BY <1>3, <2>2, <2>3, <2>4, <2>5
<1> HIDE DEF u, c, t
<1>5. CASE legal
  <2>1. /\ chain' = [chain EXCEPT !.trove = u,
                         !.status = IF closes THEN "closedByOwner" ELSE "open",
                         !.touched = 1 - chain.touched]
        /\ tx' = [tx EXCEPT !.receipt = "succeeded"]
    BY <1>5 DEF Mined, Chains, Touch, c, t, u
  <2>2. IF closes THEN u = EmptyTrove ELSE u \in Troves /\ MINIMUM_DEBT <= u.debt
    BY <1>4, <1>5
  <2>3. chain' \in SomeChains
    <3>1. chain \in [trove : Troves, status : Statuses, price : Nat, minute : Nat,
                     touched : {0, 1}]
      BY <1>1 DEF SomeChains
    <3>2. u \in Troves
      BY <2>2, EmptyTroveType
    <3>3. chain' \in [trove : Troves, status : Statuses, price : Nat, minute : Nat,
                      touched : {0, 1}]
      <4> DEFINE st == IF closes THEN "closedByOwner" ELSE "open"
                 w  == 1 - chain.touched
      <4>1. st \in Statuses /\ w \in {0, 1}
        BY <1>1, StatusesAre
      <4>2. chain' = [chain EXCEPT !.trove = u, !.status = st, !.touched = w]
        BY <2>1
      <4> HIDE DEF st, w, closes
      <4> QED
        BY <3>1, <3>2, <4>1, <4>2
    <3>4. chain'.trove = u /\ chain'.status = IF closes THEN "closedByOwner" ELSE "open"
      BY <2>1, <3>1
    <3> QED
      BY <2>2, <3>3, <3>4 DEF SomeChains
  <2> QED
    BY <1>1, <2>1, <2>3 DEF TroveTxs
<1>6. CASE ~legal
  <2>1. chain' = chain /\ tx' = [tx EXCEPT !.receipt = "failed"]
    BY <1>6 DEF Mined, c, t
  <2> QED
    BY <1>1, <2>1 DEF TroveTxs
<1> QED
  BY <1>5, <1>6

-----------------------------------------------------------------------------
(* What a commit drew, and what its effects make of the fields.            *)

Panels == {"OPENING", "ADJUSTING", "CLOSING"}

\* Until something asks for a render, the last commit shows what there is; a
\* handler changes the fields, the reducer or what a panel shows of the store
\* only together with such a request.
CommitInv ==
    ~dirty /\ ~crashed =>
        /\ view = shown
        /\ shown \in Panels => drawn.store = store
        /\ overlooked \/ drawn.status = store.status
        /\ drawn.form = form /\ drawn.manager = manager
        /\ drawn.change = Offered(shown, store, form, manager)

\* The fields c and a are those of the Trove t.
Shows(c, a, t) == c = t.collateral /\ a = NetDebt(t)

\* The effects settle the change of the button and the Trove the fields are
\* based on.  Fields that nobody touched are that Trove's when the effects have
\* run; before that the commit drew them so, and a reset may have set them to
\* the Trove that the effects are about to base them on.  A panel is only shown
\* when the provider has subscribed.
SettledInv ==
    /\ Listening \/ shown \notin Panels
    /\ effects = {} => form.stable = drawn.change
    /\ shown = "ADJUSTING" /\ effects = {} => form.previous = drawn.store.trove
    /\ shown = "ADJUSTING" /\ ~form.touched /\ effects = {} =>
          Shows(form.collateral, form.amount, form.previous)
    /\ shown = "ADJUSTING" /\ ~form.touched /\ effects # {} =>
          /\ Shows(drawn.form.collateral, drawn.form.amount, form.previous)
          /\ \/ Shows(form.collateral, form.amount, form.previous)
             \/ Shows(form.collateral, form.amount, drawn.store.trove)

EditInv == TroveTypeOK /\ AdjustsDebt /\ CommitInv /\ SettledInv

FieldVars == <<shown, form, drawn, effects>>

\* What leaves the fields and the commit alone.
LEMMA FieldsRest ==
    ASSUME EditInv, UNCHANGED FieldVars
    PROVE  AdjustsDebt' /\ SettledInv'
  BY DEF EditInv, FieldVars, AdjustsDebt, SettledInv, Shows, Listening

LEMMA CommitRests ==
    ASSUME EditInv, UNCHANGED <<FieldVars, store, view, manager, dirty, crashed, overlooked>>
    PROVE  CommitInv'
<1>1. Offered(shown', store', form', manager') = Offered(shown, store, form, manager)
  BY Zenon DEF FieldVars
<1>2. CommitInv /\ UNCHANGED FieldVars
  BY DEF EditInv
<1> QED
  BY <1>1, <1>2 DEF FieldVars, CommitInv

LEMMA FirstDrawnType ==
    ASSUME NEW s \in SomeChains
    PROVE  /\ FirstDrawn(s) \in Commits /\ FirstDrawn(s).store = s
           /\ FirstDrawn(s).form \in Forms /\ FirstDrawn(s).manager \in Managers
           /\ FirstDrawn(s).change = NoChange /\ FirstDrawn(s).status = s.status
           /\ InitialView(s.status) \in Views \ {"OPENING", "ADJUSTING", "CLOSING"}
<1>1. s.trove \in ChainTroves /\ s.status \in Statuses
  BY TroveOnChain DEF SomeChains
<1>2. InitialView(s.status) \in Views \ {"OPENING", "ADJUSTING", "CLOSING"}
  BY <1>1, ViewsAre DEF InitialView
<1>3. NewForm(InitialView(s.status), s) \in Forms /\ NewManager(s.trove) \in Managers
  BY <1>1, <1>2, NewFormType, NewManagerTrove
<1>4. "idle" \in TxTypes /\ NoChange \in OfferedChanges
  BY NoChangeType DEF TxTypes
<1> QED
  BY <1>1, <1>2, <1>3, <1>4 DEF FirstDrawn, Commits

LEMMA IdleType == Idle \in TroveTxs
  BY NoChangeType DEF Idle, TroveTxs, TxTypes

\* The page as it is loaded with the chain s.
LEMMA LoadedPage ==
    ASSUME NEW s \in SomeChains, NEW v, v = InitialView(s.status),
           NEW d, d = FirstDrawn(s)
    PROVE  /\ v \in Views \ Panels /\ d \in Commits
           /\ d.form \in Forms /\ d.manager \in Managers /\ d.store = s
           /\ d.status = s.status
           /\ d.change = Offered(v, s, d.form, d.manager)
<1>1. v \notin {"OPENING", "ADJUSTING", "CLOSING"}
  BY FirstDrawnType
<1>2. Offered(v, s, d.form, d.manager) = NoChange
  BY <1>1 DEF Offered
<1> QED
  BY <1>1, <1>2, FirstDrawnType DEF Panels

LEMMA EditInit == Init => EditInv
<1> SUFFICES ASSUME Init PROVE EditInv
  OBVIOUS
<1>1. chain \in SomeChains
  <2>1. PICK c \in CollateralInputs \ {0}, p \in Prices :
           chain \in {[trove |-> Trove(c, MINIMUM_DEBT), status |-> "open",
                       price |-> p, minute |-> 0, touched |-> 0],
                      [trove |-> EmptyTrove, status |-> "nonExistent",
                       price |-> p, minute |-> 0, touched |-> 0]}
    BY DEF Init
  <2>2. c \in Nat /\ p \in Nat /\ MINIMUM_DEBT \in Nat
    BY EditorAssumption, MinimumDebtType
  <2>3. Trove(c, MINIMUM_DEBT) \in Troves /\ Trove(c, MINIMUM_DEBT).debt = MINIMUM_DEBT
    BY <2>2 DEF Trove, Troves
  <2> HIDE DEF Trove
  <2> QED
    BY <2>1, <2>2, <2>3, EmptyTroveType, StatusesAre DEF SomeChains
<1>2. /\ store = chain /\ drawn = FirstDrawn(chain) /\ form = drawn.form
      /\ manager = drawn.manager /\ tx = Idle
      /\ effects = {"draw", "mount", "status", "subscribe"}
      /\ view = InitialView(chain.status) /\ viewRef = view /\ shown = view
      /\ dirty = FALSE /\ crashed = FALSE /\ overlooked = FALSE /\ hasty = FALSE
  BY DEF Init
<1>3. /\ view \in Views \ Panels /\ drawn \in Commits
      /\ form \in Forms /\ manager \in Managers /\ drawn.store = chain
      /\ drawn.status = chain.status
      /\ drawn.change = Offered(view, chain, form, manager)
  BY <1>1, <1>2, LoadedPage
<1>4. TroveTypeOK
  BY <1>1, <1>2, <1>3, IdleType DEF TroveTypeOK
<1>5. AdjustsDebt /\ SettledInv
  BY <1>2, <1>3 DEF AdjustsDebt, SettledInv, Panels
<1>6. CommitInv
  BY <1>2, <1>3 DEF CommitInv
<1> QED
  BY <1>4, <1>5, <1>6 DEF EditInv

LEMMA ReloadStep ==
    ASSUME EditInv, Reload
    PROVE  EditInv'
<1>1. /\ store' = chain /\ chain' = chain /\ drawn' = FirstDrawn(chain)
      /\ form' = drawn'.form /\ manager' = drawn'.manager /\ tx' = Idle
      /\ effects' = {"draw", "mount", "status", "subscribe"}
      /\ view' = InitialView(chain.status) /\ viewRef' = view' /\ shown' = view'
      /\ dirty' = FALSE /\ crashed' = FALSE /\ overlooked' = FALSE /\ hasty' = FALSE
  BY DEF Reload, chainVars
<1>2. chain \in SomeChains
  BY DEF EditInv, TroveTypeOK
<1>3. /\ view' \in Views \ Panels /\ drawn' \in Commits
      /\ form' \in Forms /\ manager' \in Managers /\ drawn'.store = chain
      /\ drawn'.status = chain.status
      /\ drawn'.change = Offered(view', chain, form', manager')
  BY <1>1, <1>2, LoadedPage
<1>4. TroveTypeOK'
  BY <1>1, <1>2, <1>3, IdleType DEF TroveTypeOK
<1>5. AdjustsDebt' /\ SettledInv'
  BY <1>1, <1>3 DEF AdjustsDebt, SettledInv, Panels
<1>6. CommitInv'
  BY <1>1, <1>3 DEF CommitInv
<1> QED
  BY <1>4, <1>5, <1>6 DEF EditInv

LEMMA NewsStep ==
    ASSUME EditInv, NEW c \in SomeChains, News(c)
    PROVE  EditInv'
<1>1. /\ chain' = c
      /\ UNCHANGED <<store, view, viewRef, shown, form, manager, tx, drawn, effects,
                     dirty, crashed, overlooked>>
  BY DEF News, viewVars
<1>2. hasty' \in BOOLEAN
  BY Zenon DEF News
<1>3. TroveTypeOK'
  BY <1>1, <1>2 DEF EditInv, TroveTypeOK
<1> QED
  BY <1>1, <1>3, FieldsRest, CommitRests DEF EditInv, FieldVars

\* What the chain does by itself.
LEMMA WorldMoves ==
    ASSUME EditInv, World
    PROVE  \E c \in SomeChains :
              News(c) /\ (c.status = "nonExistent" => chain.status = "nonExistent")
<1> DEFINE Records == [trove : Troves, status : Statuses, price : Nat, minute : Nat,
                       touched : {0, 1}]
<1>1. /\ chain \in Records /\ chain.trove \in ChainTroves
      /\ chain.status = "open" => MINIMUM_DEBT <= chain.trove.debt
      /\ chain.status # "open" => chain.trove = EmptyTrove
  BY TroveOnChain DEF EditInv, TroveTypeOK, SomeChains
<1>2. ASSUME NEW t \in Troves, NEW s \in Statuses, NEW w \in {0, 1},
             IF s = "open" THEN MINIMUM_DEBT <= t.debt ELSE t = EmptyTrove
      PROVE  Chains(t, s, w) \in SomeChains /\ Chains(t, s, w).status = s
  <2>1. Chains(t, s, w) = [chain EXCEPT !.trove = t, !.status = s, !.touched = w]
    BY DEF Chains
  <2>2. Chains(t, s, w) \in Records /\ Chains(t, s, w).trove = t
        /\ Chains(t, s, w).status = s
    BY <1>1, <2>1
  <2> QED
    BY <1>2, <2>2 DEF SomeChains
<1>3. Touch \in {0, 1} /\ chain.touched \in {0, 1}
  BY <1>1 DEF Touch
<1>4. CASE Redistribute
  <2> DEFINE t == Plus(chain.trove, Share)
  <2>1. chain.status = "open" /\ News(Chains(t, "open", chain.touched))
    BY <1>4 DEF Redistribute
  <2>2. ~IsEmpty(chain.trove)
    BY <1>1, <2>1, MinimumDebtType DEF IsEmpty
  <2>3. t \in Troves /\ MINIMUM_DEBT <= t.debt
    BY <1>1, <2>2, AddTroves, EditorAssumption
  <2> HIDE DEF t
  <2>4. Chains(t, "open", chain.touched) \in SomeChains
        /\ Chains(t, "open", chain.touched).status = "open"
    BY <1>2, <1>3, <2>3, StatusesAre
  <2> QED
    BY <2>1, <2>4
<1>5. CASE OpenElsewhere
  <2>1. PICK c \in CollateralInputs : News(Chains(Trove(c, MINIMUM_DEBT), "open", Touch))
    BY <1>5 DEF OpenElsewhere
  <2>2. c \in Nat /\ MINIMUM_DEBT \in Nat
    BY EditorAssumption, MinimumDebtType
  <2>3. Trove(c, MINIMUM_DEBT) \in Troves /\ Trove(c, MINIMUM_DEBT).debt = MINIMUM_DEBT
    BY <2>2 DEF Trove, Troves
  <2>4. Chains(Trove(c, MINIMUM_DEBT), "open", Touch) \in SomeChains
        /\ Chains(Trove(c, MINIMUM_DEBT), "open", Touch).status = "open"
    BY <1>2, <1>3, <2>2, <2>3, StatusesAre
  <2> QED
    BY <2>1, <2>4
<1>6. CASE MovePrice
  <2>1. PICK p \in Prices : News([chain EXCEPT !.price = p])
    BY <1>6 DEF MovePrice
  <2>2. p \in Nat
    BY EditorAssumption
  <2>3. [chain EXCEPT !.price = p] \in SomeChains
        /\ [chain EXCEPT !.price = p].status = chain.status
    BY <1>1, <2>2 DEF SomeChains
  <2> QED
    BY <2>1, <2>3
<1>7. CASE Decay
  <2>1. News([chain EXCEPT !.minute = @ + 1])
    BY <1>7 DEF Decay
  <2>2. [chain EXCEPT !.minute = @ + 1] \in SomeChains
        /\ [chain EXCEPT !.minute = @ + 1].status = chain.status
    BY <1>1 DEF SomeChains
  <2> QED
    BY <2>1, <2>2
<1>8. ASSUME NEW s \in DOMAIN StatusEvents \ {"open"}, Lose(s)
      PROVE  \E c \in SomeChains :
                News(c) /\ (c.status = "nonExistent" => chain.status = "nonExistent")
  <2>1. s \in Statuses /\ s # "open" /\ s # "nonExistent"
    BY <1>8, StatusesAre DEF Statuses, StatusEvents
  <2>2. Chains(EmptyTrove, s, Touch) \in SomeChains
        /\ Chains(EmptyTrove, s, Touch).status = s
    BY <1>2, <1>3, <2>1, EmptyTroveType
  <2> QED
    BY <1>8, <2>1, <2>2 DEF Lose
<1> QED
  BY <1>4, <1>5, <1>6, <1>7, <1>8 DEF World

LEMMA StoreUpdateStep ==
    ASSUME EditInv, StoreUpdate
    PROVE  EditInv'
<1>1. /\ store' = chain
      /\ UNCHANGED <<chain, view, viewRef, shown, form, tx, drawn, effects, crashed, hasty>>
  BY DEF StoreUpdate, chainVars, viewVars
<1>2. manager' \in Managers
  <2>1. manager \in Managers /\ chain.trove \in ChainTroves
    BY TroveOnChain DEF EditInv, TroveTypeOK
  <2>2. UpdateStore(manager, chain.trove, chain.touched # store.touched) \in Managers
    <3> DEFINE b == chain.touched # store.touched
    <3>1. b \in BOOLEAN
      OBVIOUS
    <3> HIDE DEF b
    <3>2. UpdateStore(manager, chain.trove, b) \in Managers
      BY <2>1, <3>1, UpdateStoreType
    <3> QED
      BY <3>2 DEF b
  <2> QED
    BY <2>1, <2>2 DEF StoreUpdate
<1>3. /\ dirty' \in BOOLEAN /\ overlooked' \in BOOLEAN
      /\ ~dirty' => ~dirty /\ ~Listening /\ overlooked' = (chain.status # drawn.status)
  BY Zenon DEF StoreUpdate, EditInv, TroveTypeOK
<1>4. TroveTypeOK'
  BY <1>1, <1>2, <1>3 DEF EditInv, TroveTypeOK
<1>5. CommitInv'
  <2> SUFFICES ASSUME ~dirty', ~crashed' PROVE CommitInv'
    BY DEF CommitInv
  <2>1. CommitInv /\ ~dirty /\ ~crashed /\ shown \notin Panels
    BY <1>1, <1>3 DEF EditInv, SettledInv
  <2>2. manager' = manager
    BY <2>1 DEF StoreUpdate, Panels
  <2>3. Offered(shown, store', form, manager) = Offered(shown, store, form, manager)
    BY <2>1 DEF Offered, Panels
  <2>4. Offered(shown', store', form', manager') = Offered(shown, store', form, manager)
    BY <1>1, <2>2, Zenon
  <2> QED
    BY <1>1, <1>3, <2>1, <2>2, <2>3, <2>4 DEF CommitInv
<1> QED
  BY <1>1, <1>4, <1>5, FieldsRest DEF EditInv, FieldVars

LEMMA CrashStep ==
    ASSUME EditInv, Crash
    PROVE  EditInv'
<1>1. /\ crashed' = TRUE /\ dirty' = FALSE
      /\ UNCHANGED <<chain, store, view, viewRef, shown, form, manager, tx, drawn, effects,
                     overlooked, hasty>>
  BY DEF Crash, chainVars, viewVars
<1>2. TroveTypeOK'
  BY <1>1 DEF EditInv, TroveTypeOK
<1>3. CommitInv'
  BY <1>1 DEF CommitInv
<1> QED
  BY <1>1, <1>2, <1>3, FieldsRest DEF EditInv, FieldVars

LEMMA WalletStep ==
    ASSUME EditInv, Wallet
    PROVE  EditInv'
<1>1. tx \in TroveTxs
  BY DEF EditInv, TroveTypeOK
<1>2. ASSUME NEW t \in TroveTxs, TxMoves(t) PROVE EditInv'
  <2>1. /\ tx' = t /\ dirty' = TRUE
        /\ UNCHANGED <<chain, store, view, viewRef, shown, form, manager, drawn, effects,
                       crashed, overlooked, hasty>>
    BY <1>2 DEF TxMoves, chainVars, viewVars
  <2>2. TroveTypeOK'
    BY <2>1 DEF EditInv, TroveTypeOK
  <2>3. CommitInv'
    BY <2>1 DEF CommitInv
  <2> QED
    BY <2>1, <2>2, <2>3, FieldsRest DEF EditInv, FieldVars
<1>3. \A type \in TxTypes : [tx EXCEPT !.type = type] \in TroveTxs
  BY <1>1 DEF TroveTxs
<1>4. CASE Mined
  <2>1. /\ hasty' \in BOOLEAN
        /\ UNCHANGED <<store, view, viewRef, shown, form, manager, drawn, effects, dirty,
                       crashed, overlooked>>
    BY <1>4, Zenon DEF Mined, viewVars
  <2>2. chain' \in SomeChains /\ tx' \in TroveTxs
    BY <1>4, MinedChain DEF EditInv
  <2>3. TroveTypeOK'
    BY <2>1, <2>2 DEF EditInv, TroveTypeOK
  <2> QED
    BY <2>1, <2>3, FieldsRest, CommitRests DEF EditInv, FieldVars
<1>5. CASE Approve
  BY <1>2, <1>3, <1>5 DEF Approve, TxTypes, Waiting
<1>6. CASE Deny
  BY <1>2, <1>3, <1>6 DEF Deny, TxTypes
<1>7. CASE Confirmed
  <2>1. (IF tx.receipt = "succeeded" THEN "confirmedOneShot" ELSE "failed") \in TxTypes
    BY DEF TxTypes
  <2> QED
    BY <1>2, <1>3, <1>7, <2>1, Zenon DEF Confirmed
<1>8. CASE Dismiss
  BY <1>2, <1>8, IdleType DEF Dismiss
<1> QED
  BY <1>4, <1>5, <1>6, <1>7, <1>8 DEF Wallet

\* A field that the user sets is touched; one that is reset shows the Trove
\* that was drawn.
LEMMA SetFormStep ==
    ASSUME EditInv, NEW f \in Forms, SetForm(f),
           f.previous = form.previous, f.stable = form.stable,
           \/ f.touched \/ shown # "ADJUSTING"
           \/ /\ Shows(f.collateral, f.amount, drawn.store.trove)
              /\ effects = {} \/ ~form.touched
    PROVE  EditInv'
<1>1. /\ form' = f /\ dirty' = TRUE
      /\ UNCHANGED <<chain, store, view, viewRef, shown, manager, tx, drawn, effects,
                     crashed, overlooked, hasty>>
  BY DEF SetForm, Input, chainVars, viewVars
<1>2. TroveTypeOK'
  BY <1>1 DEF EditInv, TroveTypeOK
<1>3. CommitInv' /\ AdjustsDebt'
  BY <1>1 DEF CommitInv, EditInv, AdjustsDebt
<1>4. SettledInv'
  BY <1>1 DEF EditInv, SettledInv, Shows, Listening
<1> QED
  BY <1>2, <1>3, <1>4 DEF EditInv

LEMMA InputStep ==
    ASSUME EditInv, User
    PROVE  EditInv'
<1>1. /\ form \in Forms /\ drawn.form.collateral \in Nat /\ drawn.form.stable \in OfferedChanges
      /\ drawn.store.trove \in ChainTroves /\ drawn.store.trove.collateral \in Nat
      /\ drawn.change \in OfferedChanges
  BY TroveOnChain DEF EditInv, TroveTypeOK, Commits, Forms, Troves
<1>2. ASSUME NEW c \in Nat, SetForm([form EXCEPT !.collateral = c, !.touched = TRUE])
      PROVE  EditInv'
  <2> DEFINE f == [form EXCEPT !.collateral = c, !.touched = TRUE]
  <2>1. f \in Forms /\ f.previous = form.previous /\ f.stable = form.stable /\ f.touched
    BY <1>1 DEF Forms
  <2>2. SetForm(f)
    BY <1>2
  <2> HIDE DEF f
  <2> QED
    BY <2>1, <2>2, SetFormStep
<1>3. ASSUME NEW e, Press(e) PROVE EditInv'
  <2>1. /\ view' = Transition(viewRef, e) /\ dirty' = TRUE
        /\ UNCHANGED <<chain, store, viewRef, shown, form, manager, tx, drawn, effects,
                       crashed, overlooked>>
    BY <1>3 DEF Press, Input, chainVars
  <2>2. hasty' \in BOOLEAN
    BY <1>3, Zenon DEF Press
  <2>3. view' \in Views
    BY <2>1, TransitionType DEF EditInv, TroveTypeOK
  <2>4. TroveTypeOK'
    BY <2>1, <2>2, <2>3 DEF EditInv, TroveTypeOK
  <2>5. CommitInv'
    BY <2>1 DEF CommitInv
  <2> QED
    BY <2>1, <2>4, <2>5, FieldsRest DEF EditInv, FieldVars
<1>4. ASSUME NEW c \in CollateralInputs, TypeCollateral(c) PROVE EditInv'
  BY <1>2, <1>4, EditorAssumption DEF TypeCollateral
<1>5. ASSUME NEW a \in DebtInputs, TypeAmount(a) PROVE EditInv'
  <2> DEFINE f == [form EXCEPT !.amount = a, !.touched = TRUE]
  <2>1. f \in Forms /\ f.previous = form.previous /\ f.stable = form.stable /\ f.touched
    BY <1>1, EditorAssumption DEF Forms
  <2>2. SetForm(f)
    BY <1>5 DEF TypeAmount
  <2> HIDE DEF f
  <2> QED
    BY <2>1, <2>2, SetFormStep
<1>6. ASSUME NEW u \in Units, Retype(u) PROVE EditInv'
  <2>1. FromText(Text(drawn.form.collateral, u), u) \in Nat
    BY <1>1, EditorAssumption, TextIsClose
  <2>2. SetForm([form EXCEPT !.collateral = FromText(Text(drawn.form.collateral, u), u),
                             !.touched = TRUE])
    BY <1>6, Zenon DEF Retype
  <2> QED
    BY <1>2, <2>1, <2>2
<1>7. CASE PressMax
  <2> DEFINE c == Less(AccountBalance, GasRoom)
                     + (IF shown = "ADJUSTING" THEN drawn.store.trove.collateral ELSE 0)
  <2>1. c \in Nat
    BY <1>1, EditorAssumption DEF Less
  <2>2. SetForm([form EXCEPT !.touched = TRUE, !.collateral = c])
    BY <1>7, Zenon DEF PressMax
  <2> HIDE DEF c
  <2>3. [form EXCEPT !.touched = TRUE, !.collateral = c]
          = [form EXCEPT !.collateral = c, !.touched = TRUE]
    BY <1>1 DEF Forms
  <2> QED
    BY <1>2, <2>1, <2>2, <2>3
<1>8. CASE PressReset /\ shown = "OPENING"
  <2> DEFINE f == [form EXCEPT !.collateral = 0, !.amount = 0]
  <2>1. f \in Forms /\ f.previous = form.previous /\ f.stable = form.stable
    BY <1>1 DEF Forms
  <2>2. SetForm(f)
    BY <1>8 DEF PressReset
  <2> HIDE DEF f
  <2> QED
    BY <1>8, <2>1, <2>2, SetFormStep
<1>9. CASE PressReset /\ shown # "OPENING"
  <2> DEFINE still == form.touched /\ effects # {}
             f == [form EXCEPT !.collateral = drawn.store.trove.collateral,
                               !.amount = NetDebt(drawn.store.trove),
                               !.touched = still]
  <2>1. SetForm(f) /\ shown = "ADJUSTING"
    <3>1. SetForm([form EXCEPT !.collateral = drawn.store.trove.collateral,
                               !.amount = NetDebt(drawn.store.trove),
                               !.touched = @ /\ effects # {}])
      BY <1>9, Zenon DEF PressReset
    <3>2. shown = "ADJUSTING"
      BY <1>9, <3>1 DEF SetForm
    <3> QED
      BY <3>1, <3>2
  <2>2. still \in BOOLEAN
    OBVIOUS
  <2>3. NetDebt(drawn.store.trove) \in Nat
    BY <1>1, <2>1, NetDebtType DEF EditInv, AdjustsDebt
  <2>4. ~still => effects = {} \/ ~form.touched
    OBVIOUS
  <2> HIDE DEF still
  <2>5. /\ f \in Forms /\ f.previous = form.previous /\ f.stable = form.stable
        /\ f.touched = still /\ Shows(f.collateral, f.amount, drawn.store.trove)
    BY <1>1, <2>2, <2>3 DEF Forms, Shows
  <2> HIDE DEF f
  <2> QED
    BY <2>1, <2>4, <2>5, SetFormStep
<1>10. CASE Confirm
  <2>1. /\ dirty' = TRUE
        /\ UNCHANGED <<chain, store, view, viewRef, shown, form, manager, drawn, effects,
                       crashed, overlooked, hasty>>
    BY <1>10 DEF Confirm, Input, chainVars, viewVars
  <2>2. Button \in OfferedChanges
    BY <1>1 DEF Button
  <2>3. tx' = [id |-> CASE shown = "OPENING"   -> "trove-creation"
                        [] shown = "ADJUSTING" -> "trove-adjustment"
                        [] OTHER               -> "trove-closure",
               type |-> "waitingForApproval", change |-> Button, receipt |-> "none"]
    BY <1>10, Zenon DEF Confirm
  <2>4. tx' \in TroveTxs
    BY <2>2, <2>3 DEF TroveTxs, TxTypes, Waiting
  <2>5. TroveTypeOK'
    BY <2>1, <2>4 DEF EditInv, TroveTypeOK
  <2>6. CommitInv'
    BY <2>1 DEF CommitInv
  <2> QED
    BY <2>1, <2>5, <2>6, FieldsRest DEF EditInv, FieldVars
<1> QED
  BY <1>3, <1>4, <1>5, <1>6, <1>7, <1>8, <1>9, <1>10, Zenon DEF User

\* A render: what is mounted is new, what stays is drawn as it is.
LEMMA DrawStep ==
    ASSUME EditInv, Draw
    PROVE  EditInv'
<1> DEFINE mounts == view # shown
           f == IF mounts THEN NewForm(view, store) ELSE form
           m == IF mounts THEN NewManager(store.trove) ELSE manager
           offered == Offered(view, store, f, m)
           g == IF mounts THEN [f EXCEPT !.stable = offered] ELSE f
           status == IF overlooked /\ ~mounts THEN drawn.status ELSE store.status
<1>1. /\ form' = g /\ manager' = m
      /\ drawn' = [store |-> store, form |-> g, manager |-> m, change |-> offered,
                   type |-> MyTx(view, tx), seen |-> tx.type, status |-> status]
      /\ shown' = view /\ dirty' = FALSE /\ effects = {} /\ "draw" \in effects'
      /\ effects' \subseteq {"draw", "mount", "status", "tx"}
      /\ ~(view = "ADJUSTING" /\ NetDebtThrows(store.trove))
      /\ overlooked' = (overlooked /\ ~mounts)
      /\ UNCHANGED <<chain, store, view, viewRef, tx, crashed, hasty>>
  BY DEF Draw, chainVars
<1>2. /\ store \in SomeChains /\ store.trove \in ChainTroves /\ form \in Forms
      /\ manager \in Managers /\ tx \in TroveTxs /\ view \in Views
  BY TroveOnChain DEF EditInv, TroveTypeOK
<1>3. /\ f \in Forms /\ m \in Managers
      /\ mounts => f.previous = store.trove
      /\ mounts /\ view = "ADJUSTING" => Shows(f.collateral, f.amount, f.previous)
      /\ ~mounts => f = form /\ view = shown
  <2>1. CASE mounts
    <3>1. NewForm(view, store) \in Forms /\ NewManager(store.trove) \in Managers
          /\ NewForm(view, store).previous = store.trove
      BY <1>1, <1>2, NewFormType, NewManagerTrove
    <3>2. view = "ADJUSTING" => Shows(NewForm(view, store).collateral,
                                      NewForm(view, store).amount, store.trove)
      BY DEF NewForm, Shows
    <3> QED
      BY <2>1, <3>1, <3>2
  <2>2. CASE ~mounts
    BY <1>2, <2>2
  <2> QED
    BY <2>1, <2>2
<1> HIDE DEF m
<1>4. offered \in OfferedChanges
  BY <1>1, <1>2, <1>3, OfferType
<1> HIDE DEF offered, f
<1>5. /\ g \in Forms /\ g.collateral = f.collateral /\ g.amount = f.amount
      /\ g.previous = f.previous /\ g.touched = f.touched
  BY <1>3, <1>4 DEF Forms
<1>6. Offered(view, store, g, m) = offered
  <2>1. \A h : h.collateral = f.collateral /\ h.amount = f.amount =>
           Offered(view, store, h, m) = Offered(view, store, f, m)
    BY <1>1, <1>2, <1>3, OfferType
  <2> QED
    BY <1>5, <2>1, Zenon DEF offered
<1> HIDE DEF g
<1>7. MyTx(view, tx) \in TxTypes /\ tx.type \in TxTypes
  BY <1>2 DEF MyTx, TroveTxs, TxTypes
<1>8. /\ drawn' \in Commits /\ overlooked' \in BOOLEAN
      /\ overlooked' \/ drawn'.status = store.status
  <2>1. store.status \in Statuses /\ drawn.status \in Statuses
    BY DEF EditInv, TroveTypeOK, SomeChains, Commits
  <2>2. status \in Statuses /\ (overlooked' \/ status = store.status)
        /\ overlooked' \in BOOLEAN
    BY <1>1, <2>1 DEF EditInv, TroveTypeOK
  <2> HIDE DEF status
  <2> QED
    BY <1>1, <1>2, <1>3, <1>4, <1>5, <1>7, <2>2 DEF Commits
<1>9. TroveTypeOK'
  BY <1>1, <1>3, <1>5, <1>8 DEF EditInv, TroveTypeOK
<1>10. drawn'.store = store /\ drawn'.form = g /\ drawn'.manager = m /\ drawn'.change = offered
  BY <1>1
<1>11. AdjustsDebt'
  BY <1>1, <1>3, <1>5, <1>10 DEF EditInv, AdjustsDebt
<1>12. CommitInv'
  BY <1>1, <1>6, <1>8, <1>10 DEF CommitInv
<1>13. view = "ADJUSTING" /\ ~g.touched => Shows(g.collateral, g.amount, g.previous)
  BY <1>1, <1>3, <1>5 DEF EditInv, SettledInv
<1>14. SettledInv'
  BY <1>1, <1>10, <1>13 DEF SettledInv, Shows, Listening
<1> QED
  BY <1>9, <1>11, <1>12, <1>14 DEF EditInv

\* The effects of a commit.
LEMMA EffectsStep ==
    ASSUME EditInv, Effects
    PROVE  EditInv'
<1>1. /\ form' = FormAfterEffects /\ manager' = ManagerAfterEffects /\ viewRef' = shown
      /\ effects # {} /\ effects' = {}
      /\ tx' \in {Idle, tx}
      /\ \E e : view' \in {Transition(shown, e), Transition(viewRef, e), view}
      /\ UNCHANGED <<chain, store, shown, drawn, crashed, overlooked, hasty>>
  BY DEF Effects, chainVars
<1>2. /\ dirty' \in BOOLEAN
      /\ ~dirty' => ~dirty /\ form' = form /\ manager' = manager /\ view' = shown
  BY Zenon DEF Effects
<1>3. /\ form' \in Forms /\ form'.touched = form.touched /\ form'.stable = drawn.change
      /\ shown = "ADJUSTING" => form'.previous = drawn.store.trove
      /\ shown = "ADJUSTING" =>
            LET g == Rebase(form, drawn.form, drawn.store.trove)
            IN form'.collateral = g.collateral /\ form'.amount = g.amount
  BY <1>1, FormEffectsType DEF EditInv
<1>4. manager' \in Managers
  BY <1>1, ManagerEffectsType DEF EditInv
<1>5. view' \in Views
  BY <1>1, TransitionType DEF EditInv, TroveTypeOK
<1>6. TroveTypeOK'
  BY <1>1, <1>2, <1>3, <1>4, <1>5, IdleType DEF EditInv, TroveTypeOK
<1>7. AdjustsDebt'
  BY <1>1, <1>3 DEF EditInv, AdjustsDebt
<1>8. CommitInv'
  <2> SUFFICES ASSUME ~dirty', ~crashed' PROVE CommitInv'
    BY DEF CommitInv
  <2>1. /\ ~dirty /\ ~crashed /\ form' = form /\ manager' = manager /\ view' = shown
        /\ UNCHANGED <<store, shown, drawn, overlooked>>
    BY <1>1, <1>2
  <2>2. /\ view = shown /\ (shown \in Panels => drawn.store = store)
        /\ overlooked \/ drawn.status = store.status
        /\ drawn.form = form /\ drawn.manager = manager
        /\ drawn.change = Offered(shown, store, form, manager)
    BY <2>1 DEF EditInv, CommitInv
  <2>3. Offered(shown', store', form', manager') = Offered(shown, store, form, manager)
    BY <2>1, Zenon
  <2> QED
    BY <2>1, <2>2, <2>3 DEF CommitInv
<1>9. ASSUME shown = "ADJUSTING", ~form.touched
      PROVE  Shows(form'.collateral, form'.amount, drawn.store.trove)
  <2> DEFINE t == drawn.store.trove
             g == Rebase(form, drawn.form, t)
  <2>1. /\ form \in Forms /\ drawn.form \in Forms /\ t \in ChainTroves
        /\ ~NetDebtThrows(t) /\ ~NetDebtThrows(form.previous)
    BY <1>9, TroveOnChain DEF EditInv, TroveTypeOK, Commits, AdjustsDebt
  <2>2. /\ drawn.form.collateral = form.previous.collateral
        /\ drawn.form.amount = NetDebt(form.previous)
        /\ form.collateral \in {form.previous.collateral, t.collateral}
        /\ form.amount \in {NetDebt(form.previous), NetDebt(t)}
    BY <1>1, <1>9 DEF EditInv, SettledInv, Shows
  <2> HIDE DEF t
  <2>3. g.collateral = t.collateral /\ g.amount = NetDebt(t)
    BY <2>1, <2>2, RebaseType
  <2> QED
    BY <1>3, <1>9, <2>3 DEF Shows, t
<1>10. SettledInv'
  BY <1>1, <1>3, <1>9 DEF SettledInv, Listening
<1> QED
  BY <1>6, <1>7, <1>8, <1>10 DEF EditInv

LEMMA EditStep ==
    ASSUME EditInv, Next
    PROVE  EditInv'
  BY WorldMoves, NewsStep, StoreUpdateStep, CrashStep, DrawStep, EffectsStep, InputStep,
     WalletStep, ReloadStep DEF Next

-----------------------------------------------------------------------------
(* Theorems                                                                *)

LEMMA EditStutter ==
    ASSUME EditInv, UNCHANGED vars
    PROVE  EditInv'
<1>1. UNCHANGED <<chain, store, view, viewRef, shown, form, manager, tx, drawn, effects,
                  dirty, crashed, overlooked, hasty>>
  BY DEF vars
<1>2. TroveTypeOK'
  BY <1>1 DEF EditInv, TroveTypeOK
<1> QED
  BY <1>1, <1>2, FieldsRest, CommitRests DEF EditInv, FieldVars

LEMMA EditAlways == EditorsSpec => []EditInv
<1>1. EditorsInit => EditInv
  BY EditInit DEF EditorsInit
<1>2. EditInv /\ [EditorsNext]_allVars => EditInv'
  <2> SUFFICES ASSUME EditInv, [EditorsNext]_allVars PROVE EditInv'
    OBVIOUS
  <2>1. Next \/ UNCHANGED vars
    BY DEF EditorsNext, allVars
  <2> QED
    BY <2>1, EditStep, EditStutter
<1> QED
  BY <1>1, <1>2, PTL DEF EditorsSpec

\* A settled page shows what it knows, and its button is what it offers.
LEMMA SettledPage ==
    ASSUME EditInv, Quiescent, shown \in {"OPENING", "ADJUSTING"}
    PROVE  /\ Button = Offered(shown, store, form, manager)
           /\ shown = "ADJUSTING" =>
                 form.previous = store.trove /\ ~NetDebtThrows(store.trove)
<1>1. ~dirty /\ effects = {} /\ ~crashed /\ CommitInv /\ SettledInv
  BY DEF EditInv, Quiescent
<1>2. /\ drawn.store = store /\ drawn.form = form
      /\ drawn.change = Offered(shown, store, form, manager)
      /\ form.stable = drawn.change
  BY <1>1 DEF CommitInv, SettledInv, Panels
<1>3. Button = form.stable
  BY <1>2 DEF Button
<1> QED
  BY <1>1, <1>2, <1>3 DEF EditInv, SettledInv, AdjustsDebt

\* What the button of a settled page sends makes of the Trove what the fields
\* show, for any Trove, price, fees and history of the page.
THEOREM ButtonsDoWhatIsShown == EditorsSpec => []ButtonDoesWhatIsShown
<1>1. EditInv => ButtonDoesWhatIsShown
  <2> SUFFICES ASSUME EditInv, Quiescent, shown \in {"OPENING", "ADJUSTING"},
                      Button # NoChange
               PROVE  LET from   == IF shown = "OPENING" THEN EmptyTrove ELSE store.trove
                          wanted == IF shown = "OPENING" THEN OpenedTrove(store, form)
                                    ELSE AdjustedTrove(store, form)
                          result == Apply(from, Button, Rate(store))
                      IN /\ result.collateral = wanted.collateral
                         /\ result.debt - wanted.debt \in {0, 1}
    BY DEF ButtonDoesWhatIsShown
  <2> DEFINE from   == IF shown = "OPENING" THEN EmptyTrove ELSE store.trove
             wanted == IF shown = "OPENING" THEN OpenedTrove(store, form)
                       ELSE AdjustedTrove(store, form)
             rate   == Rate(store)
             change == WhatChanged(from, wanted, rate)
  <2>1. /\ store \in SomeChains /\ form \in Forms /\ store.trove \in ChainTroves
        /\ rate \in Nat /\ rate <= ONE
    BY TroveOnChain, RateType DEF EditInv, TroveTypeOK
  <2>2. /\ Button = Offered(shown, store, form, manager)
        /\ shown = "ADJUSTING" => ~NetDebtThrows(store.trove)
    BY SettledPage
  <2>3. /\ from \in ChainTroves /\ from \in Troves /\ wanted \in Troves
        /\ IsEmpty(wanted) => from = wanted \/ ~NetDebtThrows(from)
    <3>1. CASE shown = "OPENING"
      BY <2>1, <3>1, EmptyTroveType, FieldsDescribeTroves
    <3>2. CASE shown = "ADJUSTING"
      BY <2>1, <2>2, <3>2, TroveOnChain, FieldsDescribeTroves
    <3> QED
      BY <3>1, <3>2
  <2>4. Button = ValidChange(store, from, wanted)
    BY <2>2, Zenon DEF Offered
  <2> HIDE DEF from, wanted, rate
  <2>5. Button = change
    BY <2>1, <2>3, <2>4, ValidChangeType DEF rate
  <2>6. /\ Apply(from, change, rate).collateral = wanted.collateral
        /\ Apply(from, change, rate).debt \in {wanted.debt, wanted.debt + 1}
    BY <2>1, <2>3, ChangeIsApplied
  <2>7. wanted.debt \in Nat
    BY <2>3 DEF Troves
  <2>8. Apply(from, Button, Rate(store)) = Apply(from, change, rate)
    BY <2>5, Zenon DEF rate
  <2>9. Apply(from, Button, Rate(store)).collateral = wanted.collateral
        /\ Apply(from, Button, Rate(store)).debt - wanted.debt \in {0, 1}
    BY <2>6, <2>7, <2>8
  <2> QED
    BY <2>9, Zenon DEF from, wanted
<1> QED
  BY <1>1, EditAlways, PTL

\* Fields that nobody touched follow the Trove of the page, whatever
\* redistributions, transactions and resets it goes through.
THEOREM UntouchedFieldsAlwaysFollow == EditorsSpec => []UntouchedFieldsFollow
<1>1. EditInv => UntouchedFieldsFollow
  <2> SUFFICES ASSUME EditInv, Quiescent, shown = "ADJUSTING", ~form.touched
               PROVE  ~IsDirty(store, form) /\ Button = NoChange
    BY DEF UntouchedFieldsFollow
  <2>1. /\ store \in SomeChains /\ form \in Forms /\ store.trove \in ChainTroves
        /\ store.trove \in Troves
    BY TroveOnChain DEF EditInv, TroveTypeOK
  <2>2. /\ Button = Offered(shown, store, form, manager)
        /\ form.previous = store.trove
    BY SettledPage
  <2>3. Shows(form.collateral, form.amount, form.previous)
    BY DEF EditInv, SettledInv, Quiescent
  <2>4. ~IsDirty(store, form)
    BY <2>2, <2>3 DEF IsDirty, Shows
  <2>5. AdjustedTrove(store, form) = store.trove
    BY <2>1, <2>4, FieldsDescribeTroves
  <2>6. Button = ValidChange(store, store.trove, store.trove)
    BY <2>2, <2>5 DEF Offered
  <2>7. ValidChange(store, store.trove, store.trove) = NoChange
    BY <2>1, ValidChangeType
  <2> QED
    BY <2>4, <2>6, <2>7
<1> QED
  BY <1>1, EditAlways, PTL

\* The reducer of the panel that closes a Trove holds nothing else than the
\* Trove or its closure.
THEOREM ClosingAlwaysCloses == EditorsSpec => []ClosingOnlyCloses
<1>1. EditInv => ClosingOnlyCloses
  <2> SUFFICES ASSUME EditInv
               PROVE  WhatChanged(manager.original, manager.edited, Rate(store)).type
                         \in {"none", "closure"}
    BY DEF ClosingOnlyCloses
  <2>1. manager \in Managers
    BY DEF EditInv, TroveTypeOK
  <2> QED
    BY <2>1, ClosureOrNothing, NoChangeType
<1> QED
  BY <1>1, EditAlways, PTL

-----------------------------------------------------------------------------
(* The view.  It follows the last status that the page has drawn; where it *)
(* does not, the page knows better: its own transaction has closed the     *)
(* Trove and the store has yet to say so.                                  *)

OpenViews == {"ACTIVE", "ADJUSTING", "CLOSING"}
PressEvents == {"OPEN_TROVE_PRESSED", "CANCEL_ADJUST_TROVE_PRESSED",
                "ADJUST_TROVE_PRESSED", "CLOSE_TROVE_PRESSED",
                "TROVE_SURPLUS_COLLATERAL_CLAIMED"}

\* The last commit drew a new status, and its effects have not run.
Noticing == "status" \in effects /\ drawn.status # "nonExistent"

Succeeded(t) == t.receipt = "succeeded"

\* The transaction: a commit that saw its end is done with before it is put
\* away, and the panel that closes a Trove sends nothing else.
SendingInv ==
    /\ tx.type = "confirmedOneShot" => Succeeded(tx)
    /\ drawn.type \in {"idle", drawn.seen}
    /\ drawn.seen = "confirmedOneShot" /\ effects # {} => tx.type = "confirmedOneShot"
    /\ shown = "CLOSING" => drawn.change = NoChange \/ drawn.change.type = "closure"
    /\ tx.id = "trove-closure" => tx.change.type = "closure"

\* A Trove that once was there is never nonexistent again.
ExistsInv ==
    /\ chain.status = "nonExistent" => store.status = "nonExistent"
    /\ store.status = "nonExistent" => drawn.status = "nonExistent"

\* The view set, the view shown and the ref.
ShownInv ==
    /\ effects # {} => view = shown
    /\ view \in {"ADJUSTING", "CLOSING"} => viewRef \in {"ACTIVE", view}

\* The view and the status.
StatusInv ==
    /\ ~Noticing /\ view \in OpenViews => drawn.status = "open"
    /\ ~Noticing /\ view \notin OpenViews /\ drawn.status = "open" =>
          chain.status # "open"
    /\ tx.id = "trove-closure" /\ Succeeded(tx) => chain.status # "open"

ViewInv ==
    /\ SendingInv /\ ExistsInv
    /\ effects = {} => viewRef = shown
    /\ ~hasty => ShownInv /\ StatusInv

LEMMA StatusMoves ==
    \A v \in Views, s \in Statuses \ {"nonExistent"} :
        LET w == Transition(v, StatusEvents[s])
        IN /\ w \in OpenViews <=> s = "open"
           /\ w \in {"ADJUSTING", "CLOSING"} => w = v
<1> SUFFICES ASSUME NEW v \in Views, NEW s \in Statuses \ {"nonExistent"}
             PROVE  LET w == Transition(v, StatusEvents[s])
                    IN /\ w \in OpenViews <=> s = "open"
                       /\ w \in {"ADJUSTING", "CLOSING"} => w = v
  OBVIOUS
<1>1. CASE s = "open"
  <2>1. StatusEvents[s] = "TROVE_OPENED"
    BY <1>1 DEF StatusEvents
  <2> QED
    BY <1>1, <2>1, ViewsAre DEF Transition, Transitions, OpenViews
<1>2. CASE s = "closedByOwner"
  <2>1. StatusEvents[s] = "TROVE_CLOSED"
    BY <1>2 DEF StatusEvents
  <2> QED
    BY <1>2, <2>1, ViewsAre DEF Transition, Transitions, OpenViews
<1>3. CASE s = "closedByLiquidation"
  <2>1. StatusEvents[s] = "TROVE_LIQUIDATED"
    BY <1>3 DEF StatusEvents
  <2> QED
    BY <1>3, <2>1, ViewsAre DEF Transition, Transitions, OpenViews
<1>4. CASE s = "closedByRedemption"
  <2>1. StatusEvents[s] = "TROVE_REDEEMED"
    BY <1>4 DEF StatusEvents
  <2> QED
    BY <1>4, <2>1, ViewsAre DEF Transition, Transitions, OpenViews
<1> QED
  BY <1>1, <1>2, <1>3, <1>4, StatusesAre

LEMMA PanelMoves ==
    /\ \A v \in OpenViews : Transition(v, "TROVE_ADJUSTED") = "ACTIVE"
    /\ \A v \in {"ACTIVE", "CLOSING"} : Transition(v, "TROVE_CLOSED") = "NONE"
  BY DEF Transition, Transitions, OpenViews

LEMMA ButtonMoves ==
    \A v \in Views, e \in PressEvents :
        LET w == Transition(v, e)
        IN /\ w \in OpenViews <=> v \in OpenViews
           /\ w \in {"ADJUSTING", "CLOSING"} => v \in {"ACTIVE", w}
  BY ViewsAre DEF Transition, Transitions, OpenViews, PressEvents

\* What leaves the view, the commit and the transaction alone.
LEMMA ViewRests ==
    ASSUME ViewInv, hasty' = hasty, chain' = chain,
           UNCHANGED <<view, viewRef, shown, drawn, effects, tx, store>>
    PROVE  ViewInv'
  BY DEF ViewInv, SendingInv, ExistsInv, ShownInv, StatusInv, Noticing, Succeeded

LEMMA LoadedViews ==
    ASSUME NEW s \in Statuses
    PROVE  s \in {"open", "nonExistent"} => (InitialView(s) \in OpenViews <=> s = "open")
  BY StatusesAre DEF InitialView, OpenViews

LEMMA ViewInit == Init => ViewInv
<1> SUFFICES ASSUME Init PROVE ViewInv
  OBVIOUS
<1>1. /\ store = chain /\ drawn = FirstDrawn(chain) /\ tx = Idle
      /\ effects = {"draw", "mount", "status", "subscribe"}
      /\ view = InitialView(chain.status) /\ viewRef = view /\ shown = view
  BY DEF Init
<1>2. chain \in SomeChains
  BY EditInit DEF EditInv, TroveTypeOK
<1>3. /\ drawn.status = chain.status /\ drawn.change = NoChange
      /\ drawn.type = "idle" /\ drawn.seen = "idle"
      /\ view \notin {"OPENING", "ADJUSTING", "CLOSING"}
  BY <1>1, <1>2, FirstDrawnType DEF FirstDrawn
<1>4. tx.id = "none" /\ tx.type = "idle" /\ tx.receipt = "none"
  BY <1>1 DEF Idle
<1>5. ~Noticing => chain.status = "nonExistent" /\ view = "NONE"
  BY <1>1, <1>3 DEF Noticing, InitialView
<1> QED
  BY <1>1, <1>3, <1>4, <1>5
     DEF ViewInv, SendingInv, ExistsInv, ShownInv, StatusInv, Succeeded, OpenViews

LEMMA ReloadView ==
    ASSUME EditInv, Reload
    PROVE  ViewInv'
<1>1. /\ store' = chain /\ chain' = chain /\ drawn' = FirstDrawn(chain) /\ tx' = Idle
      /\ effects' = {"draw", "mount", "status", "subscribe"}
      /\ view' = InitialView(chain.status) /\ viewRef' = view' /\ shown' = view'
  BY DEF Reload, chainVars
<1>2. chain \in SomeChains
  BY DEF EditInv, TroveTypeOK
<1>3. /\ drawn'.status = chain.status /\ drawn'.change = NoChange
      /\ drawn'.type = "idle" /\ drawn'.seen = "idle"
      /\ view' \notin {"OPENING", "ADJUSTING", "CLOSING"}
  BY <1>1, <1>2, FirstDrawnType DEF FirstDrawn
<1>4. tx'.id = "none" /\ tx'.type = "idle" /\ tx'.receipt = "none"
  BY <1>1 DEF Idle
<1>5. ~Noticing' => chain'.status = "nonExistent" /\ view' = "NONE"
  BY <1>1, <1>3 DEF Noticing, InitialView
<1> QED
  BY <1>1, <1>3, <1>4, <1>5
     DEF ViewInv, SendingInv, ExistsInv, ShownInv, StatusInv, Succeeded, OpenViews

\* A Trove is not opened again behind the back of a page that is not hasty.
LEMMA NewsView ==
    ASSUME ViewInv, NEW c \in SomeChains, News(c),
           c.status = "nonExistent" => chain.status = "nonExistent"
    PROVE  ViewInv'
<1>1. /\ chain' = c
      /\ UNCHANGED <<store, view, viewRef, shown, tx, drawn, effects>>
  BY DEF News, viewVars
<1>2. ~hasty' => ~hasty /\ ~Reopens(c)
  BY Zenon DEF News
<1>3. SendingInv' /\ ExistsInv' /\ (effects' = {} => viewRef' = shown')
  BY <1>1 DEF ViewInv, SendingInv, ExistsInv, Succeeded
<1>4. ASSUME ~hasty' PROVE ShownInv' /\ StatusInv'
  <2>1. ShownInv /\ StatusInv /\ ~Reopens(c)
    BY <1>2, <1>4 DEF ViewInv
  <2> QED
    BY <1>1, <2>1 DEF ShownInv, StatusInv, Reopens, Noticing, Succeeded
<1> QED
  BY <1>3, <1>4 DEF ViewInv

LEMMA WalletView ==
    ASSUME EditInv, ViewInv, Wallet
    PROVE  ViewInv'
<1>1. tx \in TroveTxs
  BY DEF EditInv, TroveTypeOK
<1>2. ASSUME NEW type, type # "confirmedOneShot" \/ Succeeded(tx),
             tx.type # "confirmedOneShot",
             TxMoves([tx EXCEPT !.type = type]) \/ TxMoves(Idle)
      PROVE  ViewInv'
  <2>1. /\ tx' = [tx EXCEPT !.type = type] \/ tx' = Idle
        /\ UNCHANGED <<chain, store, view, viewRef, shown, drawn, effects, hasty>>
    BY <1>2 DEF TxMoves, chainVars, viewVars
  <2>2. /\ tx'.type = "confirmedOneShot" => Succeeded(tx')
        /\ tx'.id = "trove-closure" =>
              tx.id = "trove-closure" /\ tx'.change = tx.change
              /\ (Succeeded(tx') => Succeeded(tx))
    BY <1>1, <1>2, <2>1 DEF TroveTxs, Succeeded, Idle
  <2>3. SendingInv'
    BY <1>2, <2>1, <2>2 DEF ViewInv, SendingInv
  <2> QED
    BY <2>1, <2>2, <2>3 DEF ViewInv, ExistsInv, ShownInv, StatusInv, Noticing
<1>3. CASE Approve
  BY <1>2, <1>3 DEF Approve
<1>4. CASE Deny
  BY <1>2, <1>4 DEF Deny
<1>5. CASE Confirmed
  <2> DEFINE type == IF tx.receipt = "succeeded" THEN "confirmedOneShot" ELSE "failed"
  <2>1. tx.type # "confirmedOneShot" /\ TxMoves([tx EXCEPT !.type = type])
    BY <1>5, Zenon DEF Confirmed
  <2>2. type # "confirmedOneShot" \/ Succeeded(tx)
    BY DEF Succeeded
  <2> HIDE DEF type
  <2> QED
    BY <1>2, <2>1, <2>2
<1>6. CASE Dismiss
  <2>1. tx.type # "confirmedOneShot" /\ TxMoves(Idle)
    BY <1>6 DEF Dismiss
  <2> QED
    BY <1>2, <2>1
<1>7. CASE Mined
  <2>1. /\ UNCHANGED <<store, view, viewRef, shown, drawn, effects>>
        /\ tx.type = "waitingForConfirmation"
        /\ ~hasty' => ~hasty /\ ~Reopens(chain')
    BY <1>7, Zenon DEF Mined, viewVars
  <2>2. /\ chain' \in SomeChains /\ tx' \in TroveTxs
        /\ tx'.type = tx.type /\ tx'.change = tx.change /\ tx'.id = tx.id
        /\ chain' # chain => chain'.status \in {"open", "closedByOwner"}
        /\ tx.change.type = "closure" /\ Succeeded(tx') => chain'.status # "open"
    <3>1. tx.change.type = "closure" /\ Succeeded(tx') => chain'.status = "closedByOwner"
      BY <1>1, <1>7 DEF Mined, Chains, EditInv, TroveTypeOK, SomeChains, Succeeded, TroveTxs
    <3>2. chain' # chain => chain'.status \in {"open", "closedByOwner"}
      BY <1>1, <1>7 DEF Mined, Chains, EditInv, TroveTypeOK, SomeChains
    <3> QED
      BY <1>7, <3>1, <3>2, MinedChain DEF EditInv
  <2>3. SendingInv' /\ ExistsInv' /\ (effects' = {} => viewRef' = shown')
    BY <2>1, <2>2 DEF ViewInv, SendingInv, ExistsInv
  <2>4. ASSUME ~hasty' PROVE ShownInv' /\ StatusInv'
    <3>1. ShownInv /\ StatusInv /\ ~Reopens(chain')
      BY <2>1, <2>4 DEF ViewInv
    <3>2. tx.id = "trove-closure" => tx.change.type = "closure"
      BY DEF ViewInv, SendingInv
    <3> QED
      BY <2>1, <2>2, <3>1, <3>2 DEF ShownInv, StatusInv, Reopens, Noticing
  <2> QED
    BY <2>3, <2>4 DEF ViewInv
<1> QED
  BY <1>3, <1>4, <1>5, <1>6, <1>7 DEF Wallet

\* A commit draws the status that the store knows, or goes on overlooking it.
LEMMA DrawView ==
    ASSUME EditInv, ViewInv, Draw
    PROVE  ViewInv'
<1> DEFINE mounts == view # shown
           f == IF mounts THEN NewForm(view, store) ELSE form
           m == IF mounts THEN NewManager(store.trove) ELSE manager
           offered == Offered(view, store, f, m)
<1>1. /\ effects = {} /\ effects' # {} /\ shown' = view
      /\ drawn'.change = offered
      /\ drawn'.type = MyTx(view, tx) /\ drawn'.seen = tx.type
      /\ drawn'.status \in {drawn.status, store.status}
      /\ "status" \notin effects' => drawn'.status = drawn.status
      /\ UNCHANGED <<chain, store, view, viewRef, tx, hasty>>
  BY DEF Draw, chainVars
<1>2. m \in Managers /\ store \in SomeChains
  BY TroveOnChain, NewManagerTrove DEF EditInv, TroveTypeOK
<1> HIDE DEF f, m
<1>3. view = "CLOSING" => offered = NoChange \/ offered.type = "closure"
  <2>1. m.original \in ChainTroves /\ m.edited \in Troves
    BY <1>2 DEF Managers, ChainTroves
  <2>2. view = "CLOSING" => offered = ValidChange(store, m.original, m.edited)
    BY DEF Offered
  <2> QED
    BY <1>2, <2>1, <2>2, ValidChangeType, ClosureOrNothing
<1> HIDE DEF offered
<1>4. MyTx(view, tx) \in {"idle", tx.type}
  BY DEF MyTx
<1>5. SendingInv'
  BY <1>1, <1>3, <1>4 DEF ViewInv, SendingInv, Succeeded
<1>6. ExistsInv' /\ (effects' = {} => viewRef' = shown')
  BY <1>1 DEF ViewInv, ExistsInv
<1>7. ASSUME ~hasty' PROVE ShownInv' /\ StatusInv'
  <2>1. ShownInv /\ StatusInv /\ ~Noticing
    BY <1>1, <1>7 DEF ViewInv, Noticing
  <2>2. ~Noticing' => drawn'.status = drawn.status
    BY <1>1 DEF Noticing, ViewInv, ExistsInv
  <2> QED
    BY <1>1, <2>1, <2>2 DEF ShownInv, StatusInv, Succeeded
<1> QED
  BY <1>5, <1>6, <1>7 DEF ViewInv

\* The effects bring the view to the status that was drawn, and a panel leaves
\* with the end of its transaction.
LEMMA EffectsView ==
    ASSUME EditInv, ViewInv, Effects
    PROVE  ViewInv'
<1>1. /\ effects # {} /\ effects' = {} /\ viewRef' = shown
      /\ view' = (IF StatusEvent # "none" THEN Transition(shown, StatusEvent)
                  ELSE IF TxEvent # "none" THEN Transition(viewRef, TxEvent) ELSE view)
      /\ tx' \in {Idle, tx}
      /\ UNCHANGED <<chain, store, shown, drawn, hasty>>
  BY Zenon DEF Effects, chainVars
<1>2. /\ drawn.status \in Statuses /\ shown \in Views /\ view \in Views
      /\ viewRef \in Views
  BY DEF EditInv, TroveTypeOK, Commits
<1>3. Noticing => StatusEvent = StatusEvents[drawn.status] /\ StatusEvent # "none"
  BY <1>2, StatusesAre DEF Noticing, StatusEvent, StatusEvents
<1>4. ~Noticing => StatusEvent = "none"
  BY DEF Noticing, StatusEvent, StatusEvents
<1>5. Idle.id = "none" /\ Idle.type = "idle"
  BY DEF Idle
<1>6. SendingInv' /\ ExistsInv' /\ (effects' = {} => viewRef' = shown')
  BY <1>1, <1>5 DEF ViewInv, SendingInv, ExistsInv, Succeeded
<1>7. ASSUME ~hasty PROVE ShownInv' /\ StatusInv'
  <2>1. ShownInv /\ StatusInv /\ view = shown
    BY <1>1, <1>7 DEF ViewInv, ShownInv
  <2>2. ~Noticing'
    BY <1>1 DEF Noticing
  <2>3. tx'.id = "trove-closure" /\ Succeeded(tx') => chain.status # "open"
    BY <1>1, <1>5, <2>1 DEF StatusInv, Succeeded
  <2>4. /\ view' \in {"ADJUSTING", "CLOSING"} => view' = shown
        /\ view' \in OpenViews => drawn.status = "open"
        /\ view' \notin OpenViews /\ drawn.status = "open" => chain.status # "open"
    <3>1. CASE Noticing
      <4>1. view' = Transition(shown, StatusEvents[drawn.status])
        BY <1>1, <1>3, <3>1
      <4>2. drawn.status \in Statuses \ {"nonExistent"}
        BY <1>2, <3>1 DEF Noticing
      <4> QED
        BY <1>2, <4>1, <4>2, StatusMoves
    <3>2. CASE ~Noticing /\ TxEvent = "none"
      BY <1>1, <1>4, <2>1, <3>2 DEF StatusInv
    <3>3. CASE ~Noticing /\ TxEvent # "none"
      <4>1. view' = Transition(viewRef, TxEvent)
        BY <1>1, <1>4, <3>3
      <4>2. /\ drawn.type = "confirmedOneShot" /\ shown \in {"ADJUSTING", "CLOSING"}
            /\ \/ TxEvent = "TROVE_ADJUSTED"
               \/ TxEvent = "TROVE_CLOSED" /\ shown = "CLOSING" /\ tx.id = "trove-closure"
        BY <3>3 DEF TxEvent
      <4>3. viewRef \in {"ACTIVE", shown} /\ drawn.status = "open"
        BY <2>1, <3>3, <4>2 DEF ShownInv, StatusInv, OpenViews
      <4>4. CASE TxEvent = "TROVE_ADJUSTED"
        BY <4>1, <4>2, <4>3, <4>4, PanelMoves DEF OpenViews
      <4>5. CASE TxEvent = "TROVE_CLOSED" /\ shown = "CLOSING" /\ tx.id = "trove-closure"
        <5>1. view' = "NONE"
          BY <4>1, <4>3, <4>5, PanelMoves
        <5>2. Succeeded(tx)
          BY <1>1, <4>2 DEF ViewInv, SendingInv
        <5> QED
          BY <2>1, <4>5, <5>1, <5>2 DEF StatusInv, OpenViews
      <4> QED
        BY <4>2, <4>4, <4>5
    <3> QED
      BY <3>1, <3>2, <3>3
  <2>5. ShownInv'
    BY <1>1, <2>4 DEF ShownInv
  <2>6. StatusInv'
    BY <1>1, <2>2, <2>3, <2>4 DEF StatusInv
  <2> QED
    BY <2>5, <2>6
<1> QED
  BY <1>1, <1>6, <1>7 DEF ViewInv

\* A button pressed without haste is a button of the view that is set.
LEMMA InputView ==
    ASSUME EditInv, ViewInv, User
    PROVE  ViewInv'
<1>1. ASSUME NEW e \in PressEvents, Press(e) PROVE ViewInv'
  <2>1. /\ view' = Transition(viewRef, e) /\ ~crashed
        /\ UNCHANGED <<chain, store, viewRef, shown, tx, drawn, effects>>
        /\ ~hasty' => ~hasty /\ effects = {} /\ ~dirty
    BY <1>1, Zenon DEF Press, Input, chainVars
  <2>2. SendingInv' /\ ExistsInv' /\ (effects' = {} => viewRef' = shown')
    BY <2>1 DEF ViewInv, SendingInv, ExistsInv, Succeeded
  <2>3. ASSUME ~hasty' PROVE ShownInv' /\ StatusInv'
    <3>1. ShownInv /\ StatusInv /\ effects = {} /\ view = viewRef /\ view \in Views
      BY <2>1, <2>3 DEF ViewInv, EditInv, CommitInv, TroveTypeOK
    <3>2. /\ view' \in OpenViews <=> view \in OpenViews
          /\ view' \in {"ADJUSTING", "CLOSING"} => viewRef \in {"ACTIVE", view'}
      BY <2>1, <3>1, ButtonMoves
    <3>3. ShownInv'
      BY <2>1, <3>1, <3>2 DEF ShownInv
    <3>4. StatusInv'
      BY <2>1, <3>1, <3>2 DEF StatusInv, Noticing, Succeeded
    <3> QED
      BY <3>3, <3>4
  <2> QED
    BY <2>2, <2>3 DEF ViewInv
<1>2. ASSUME NEW f, SetForm(f) PROVE ViewInv'
  <2>1. UNCHANGED <<chain, store, view, viewRef, shown, tx, drawn, effects, hasty>>
    BY <1>2 DEF SetForm, chainVars, viewVars
  <2> QED
    BY <2>1, ViewRests
<1>3. CASE Confirm
  <2>1. /\ UNCHANGED <<chain, store, view, viewRef, shown, drawn, effects, hasty>>
        /\ shown \in {"OPENING", "ADJUSTING", "CLOSING"} /\ Button # NoChange
        /\ tx.type # "confirmedOneShot"
        /\ tx' = [id |-> CASE shown = "OPENING"   -> "trove-creation"
                           [] shown = "ADJUSTING" -> "trove-adjustment"
                           [] OTHER               -> "trove-closure",
                  type |-> "waitingForApproval", change |-> Button, receipt |-> "none"]
    BY <1>3, Zenon DEF Confirm, chainVars, viewVars
  <2>2. /\ tx'.type = "waitingForApproval" /\ tx'.change = Button /\ tx'.receipt = "none"
        /\ tx'.id = "trove-closure" => shown = "CLOSING"
    BY <2>1
  <2>3. shown = "CLOSING" => Button.type = "closure"
    BY <2>1 DEF Button, ViewInv, SendingInv
  <2>4. SendingInv'
    BY <2>1, <2>2, <2>3 DEF ViewInv, SendingInv
  <2>5. ~Succeeded(tx')
    BY <2>2 DEF Succeeded
  <2> QED
    BY <2>1, <2>4, <2>5 DEF ViewInv, ExistsInv, ShownInv, StatusInv, Noticing
<1>4. ASSUME NEW c, TypeCollateral(c) \/ TypeAmount(c) \/ Retype(c) PROVE ViewInv'
  BY <1>2, <1>4, Zenon DEF TypeCollateral, TypeAmount, Retype
<1>5. CASE PressMax \/ PressReset
  BY <1>2, <1>5, Zenon DEF PressMax, PressReset
<1> QED
  BY <1>1, <1>3, <1>4, <1>5, Zenon DEF User, PressEvents

LEMMA ViewStep ==
    ASSUME EditInv, ViewInv, Next
    PROVE  ViewInv'
<1>1. CASE World
  BY <1>1, WorldMoves, NewsView
<1>2. CASE StoreUpdate
  <2>1. store' = chain
        /\ UNCHANGED <<chain, view, viewRef, shown, tx, drawn, effects, hasty>>
    BY <1>2 DEF StoreUpdate, chainVars, viewVars
  <2> QED
    BY <2>1 DEF ViewInv, SendingInv, ExistsInv, ShownInv, StatusInv, Noticing, Succeeded
<1>3. CASE Crash
  <2>1. UNCHANGED <<chain, store, view, viewRef, shown, tx, drawn, effects, hasty>>
    BY <1>3 DEF Crash, chainVars, viewVars
  <2> QED
    BY <2>1, ViewRests
<1> QED
  BY <1>1, <1>2, <1>3, DrawView, EffectsView, InputView, WalletView, ReloadView DEF Next

\* The page shows the panels of an open Trove exactly when the Trove is open,
\* whatever happened to it, to its transactions and to the page: buttons pressed
\* too early, Troves opened again too early and a status overlooked apart.
THEOREM ViewFollowsTroves == EditorsSpec => []ViewFollowsTheTrove
<1>1. EditorsInit => ViewInv
  BY ViewInit DEF EditorsInit
<1>2. EditInv /\ ViewInv /\ [EditorsNext]_allVars => ViewInv'
  <2> SUFFICES ASSUME EditInv, ViewInv, [EditorsNext]_allVars PROVE ViewInv'
    OBVIOUS
  <2>1. CASE Next
    BY <2>1, ViewStep
  <2>2. CASE UNCHANGED vars
    BY <2>2, ViewRests DEF vars
  <2> QED
    BY <2>1, <2>2 DEF EditorsNext, allVars
<1>3. EditInv /\ ViewInv => ViewFollowsTheTrove
  <2> SUFFICES ASSUME EditInv, ViewInv, Quiescent, store = chain, ~hasty, ~overlooked
               PROVE  shown \in {"ACTIVE", "ADJUSTING", "CLOSING"}
                         <=> store.status = "open"
    BY DEF ViewFollowsTheTrove
  <2>1. /\ ~dirty /\ effects = {} /\ ~crashed /\ view = shown
        /\ drawn.status = store.status /\ StatusInv /\ ~Noticing
    BY DEF EditInv, CommitInv, ViewInv, Quiescent, Noticing
  <2> QED
    BY <2>1 DEF StatusInv, OpenViews
<1> QED
  BY <1>1, <1>2, <1>3, EditAlways, PTL DEF EditorsSpec

-----------------------------------------------------------------------------
(* Types                                                                   *)

SomeDeposits == [initial : Nat, current : Nat, gain : Nat, reward : Nat]
SomePools == [deposit : SomeDeposits, undercollateralized : BOOLEAN]
DepositManagers == [original : SomeDeposits, edited : Nat, changePending : BOOLEAN,
                    subscribed : BOOLEAN, touched : BOOLEAN]
AmountChanges ==
    {NoAmountChange} \cup [up : Nat \ {0}, down : {Absent}, all : {FALSE}]
        \cup [up : {Absent}, down : Nat \ {0}, all : BOOLEAN]
PoolViews == {"NONE", "DEPOSITING", "ACTIVE", "ADJUSTING"}
PoolTxTypes == Pending \cup {"idle", "confirmedOneShot", "failed", "cancelled"}

PoolTypeOK ==
    /\ pool \in SomePools /\ known \in SomePools
    /\ poolView \in PoolViews /\ poolViewRef \in PoolViews /\ poolShown \in PoolViews
    /\ deposit \in DepositManagers
    /\ poolTx \in [type : PoolTxTypes, change : AmountChanges,
                   receipt : {"none", "succeeded", "failed"}]
    /\ poolDrawn \in [deposit : SomeDeposits, manager : DepositManagers,
                      type : PoolTxTypes, seen : PoolTxTypes, change : AmountChanges]
    /\ poolEffects \subseteq {"draw", "mount", "tx", "status", "subscribe"}
    /\ poolDirty \in BOOLEAN /\ poolOverlooked \in BOOLEAN /\ poolHasty \in BOOLEAN

\* What changed between two amounts is an amount that the larger can spare.
LEMMA AmountChangedType ==
    ASSUME NEW a \in Nat, NEW b \in Nat
    PROVE  /\ AmountChanged(a, b) \in AmountChanges
           /\ AmountChanged(a, a) = NoAmountChange
           /\ a = 0 => AmountChanged(a, b).down = Absent
  BY DEF AmountChanged, AmountChanges, NoAmountChange, Absent

LEMMA ApplyAmountType ==
    ASSUME NEW a \in Nat, NEW c \in AmountChanges
    PROVE  /\ ApplyAmount(a, c) \in Nat
           /\ ApplyAmount(a, NoAmountChange) = a
           /\ c # NoAmountChange /\ c.down = Absent => ApplyAmount(a, c) > 0
           /\ c.down # Absent /\ a = 0 => ApplyAmount(a, c) = 0
<1>1. CASE c = NoAmountChange
  BY <1>1 DEF ApplyAmount, NoAmountChange
<1>2. CASE c \in [up : Nat \ {0}, down : {Absent}, all : {FALSE}]
  BY <1>2 DEF ApplyAmount, NoAmountChange, Absent
<1>3. CASE c \in [up : {Absent}, down : Nat \ {0}, all : BOOLEAN]
  BY <1>3 DEF ApplyAmount, NoAmountChange, Absent
<1> QED
  BY <1>1, <1>2, <1>3 DEF AmountChanges

LEMMA NewManagerType ==
    ASSUME NEW d \in SomeDeposits
    PROVE  NewDepositManager(d) \in DepositManagers
  BY DEF NewDepositManager, DepositManagers, SomeDeposits

\* The reducer keeps its types, and an edit nobody made stays no edit.
LEMMA ReduceDepositType ==
    ASSUME NEW m \in DepositManagers, NEW old \in SomeDeposits, NEW new \in SomeDeposits
    PROVE  /\ ReduceDeposit(m, old, new) \in DepositManagers
           /\ ReduceDeposit(m, old, new).original \in {m.original, new}
           /\ (~m.touched => m.edited = m.original.current) =>
              (~ReduceDeposit(m, old, new).touched =>
                   ReduceDeposit(m, old, new).edited
                       = ReduceDeposit(m, old, new).original.current)
<1> DEFINE edit == ApplyAmount(new.current, AmountChanged(m.original.current, m.edited))
           committed == \/ new.initial # m.original.initial
                        \/ new.current > m.original.current
                        \/ new.gain < m.original.gain
                        \/ new.reward < m.original.reward
           reverted == [m EXCEPT !.original = new, !.edited = new.current,
                                 !.changePending = FALSE, !.touched = FALSE]
           carried == [m EXCEPT !.original = new, !.edited = edit]
<1>1. m.original \in SomeDeposits /\ m.original.current \in Nat /\ m.edited \in Nat
  BY DEF DepositManagers, SomeDeposits
<1>2. AmountChanged(m.original.current, m.edited) \in AmountChanges /\ new.current \in Nat
  BY <1>1, AmountChangedType DEF SomeDeposits
<1>3. edit \in Nat
  BY <1>2, ApplyAmountType
<1>4. m.edited = m.original.current => edit = new.current
  BY <1>1, <1>2, AmountChangedType, ApplyAmountType
<1>5. reverted \in DepositManagers /\ reverted.original = new
      /\ reverted.edited = reverted.original.current
  BY <1>2 DEF DepositManagers
<1>6. carried \in DepositManagers /\ carried.original = new /\ carried.edited = edit
      /\ carried.touched = m.touched
  BY <1>3 DEF DepositManagers
<1>7. ReduceDeposit(m, old, new) = IF new = old THEN m
          ELSE IF m.changePending /\ committed THEN reverted ELSE carried
  BY DEF ReduceDeposit
<1> HIDE DEF edit, committed, reverted, carried
<1>8. CASE new = old
  BY <1>7, <1>8
<1>9. CASE new # old /\ m.changePending /\ committed
  BY <1>5, <1>7, <1>9
<1>10. CASE new # old /\ ~(m.changePending /\ committed)
  BY <1>4, <1>6, <1>7, <1>10
<1> QED
  BY <1>8, <1>9, <1>10

\* The change the panel offers.
LEMMA OfferedType ==
    ASSUME NEW s, NEW o \in SomeDeposits, NEW e \in Nat
    PROVE  /\ ValidDepositChange(s, o, e) \in AmountChanges
           /\ e = o.current => ValidDepositChange(s, o, e) = NoAmountChange
           /\ o.current = 0 => ValidDepositChange(s, o, e).down = Absent
<1>1. o.current \in Nat
  BY DEF SomeDeposits
<1>2. NoAmountChange \in AmountChanges /\ NoAmountChange.down = Absent
  BY DEF AmountChanges, NoAmountChange
<1>3. ValidDepositChange(s, o, e) \in {NoAmountChange, AmountChanged(o.current, e)}
  BY DEF ValidDepositChange
<1> QED
  BY <1>1, <1>2, <1>3, AmountChangedType

LEMMA EmptyDeposits ==
    /\ NoDeposit \in SomeDeposits /\ DepositIsEmpty(NoDeposit)
    /\ \A d \in Nat : /\ Deposit(d, d, 0, 0) \in SomeDeposits
                      /\ DepositIsEmpty(Deposit(d, d, 0, 0)) <=> d = 0
    /\ \A d \in SomeDeposits : DepositIsEmpty(d) => d = NoDeposit /\ d.current = 0
  BY DEF NoDeposit, Deposit, SomeDeposits, DepositIsEmpty

LEMMA PoolInitTypes == DepositInit => PoolTypeOK
<1> SUFFICES ASSUME DepositInit PROVE PoolTypeOK
  OBVIOUS
<1>1. Loss \in Nat
  BY DepositAssumption
<1>2. pool \in SomePools /\ known = pool /\ pool.deposit \in SomeDeposits
  BY <1>1, EmptyDeposits DEF DepositInit, SomePools
<1>3. NewDepositManager(pool.deposit) \in DepositManagers
  BY <1>2, NewManagerType
<1>4. NoAmountChange \in AmountChanges
  BY DEF AmountChanges
<1>5. NoPoolTx \in [type : PoolTxTypes, change : AmountChanges,
                    receipt : {"none", "succeeded", "failed"}]
  BY <1>4 DEF NoPoolTx, PoolTxTypes
<1>6. poolView \in PoolViews /\ poolViewRef = poolView /\ poolShown = poolView
  BY DEF DepositInit, PoolViews
<1>7. poolDrawn \in [deposit : SomeDeposits, manager : DepositManagers,
                     type : PoolTxTypes, seen : PoolTxTypes, change : AmountChanges]
  BY <1>2, <1>3, <1>4 DEF DepositInit, PoolTxTypes
<1>8. poolDirty \in BOOLEAN /\ poolOverlooked \in BOOLEAN /\ poolHasty \in BOOLEAN
  BY DEF DepositInit
<1> QED
  BY <1>2, <1>3, <1>5, <1>6, <1>7, <1>8 DEF DepositInit, PoolTypeOK

\* The views the page can go to.
LEMMA PoolTransitionType ==
    ASSUME NEW v \in PoolViews, NEW e
    PROVE  PoolTransition(v, e) \in PoolViews
  BY DEF PoolTransition, PoolTransitions, PoolViews

LEMMA PoolNewsTypes ==
    ASSUME PoolTypeOK, NEW p \in SomePools, PoolNews(p)
    PROVE  PoolTypeOK'
<1>1. poolHasty' \in BOOLEAN
  BY Zenon DEF PoolNews
<1>2. UNCHANGED <<known, poolView, poolViewRef, poolShown, deposit, poolTx, poolDrawn,
                  poolEffects, poolDirty, poolOverlooked>> /\ pool' = p
  BY DEF PoolNews, poolViews
<1> QED
  BY <1>1, <1>2 DEF PoolTypeOK

LEMMA DepositMinedTypes ==
    ASSUME PoolTypeOK, DepositMined
    PROVE  PoolTypeOK'
<1> DEFINE d == ApplyAmount(pool.deposit.current, poolTx.change)
<1>1. pool.deposit.current \in Nat /\ poolTx.change \in AmountChanges
  BY DEF PoolTypeOK, SomePools, SomeDeposits
<1>2. d \in Nat
  BY <1>1, ApplyAmountType
<1>3. Deposit(d, d, 0, 0) \in SomeDeposits
  BY <1>2, EmptyDeposits
<1> HIDE DEF d
<1>4. /\ pool' \in {pool, [pool EXCEPT !.deposit = Deposit(d, d, 0, 0)]}
      /\ poolTx' \in {[poolTx EXCEPT !.receipt = "failed"],
                      [poolTx EXCEPT !.receipt = "succeeded"]}
  BY DEF DepositMined, d
<1>5. pool' \in SomePools
  BY <1>3, <1>4 DEF PoolTypeOK, SomePools
<1>6. poolTx' \in [type : PoolTxTypes, change : AmountChanges,
                   receipt : {"none", "succeeded", "failed"}]
  BY <1>4 DEF PoolTypeOK
<1>7. poolHasty' \in BOOLEAN
  BY Zenon DEF DepositMined
<1>8. UNCHANGED <<known, poolView, poolViewRef, poolShown, deposit, poolDrawn,
                  poolEffects, poolDirty, poolOverlooked>>
  BY DEF DepositMined, poolViews
<1> QED
  BY <1>5, <1>6, <1>7, <1>8 DEF PoolTypeOK

LEMMA DrawPoolTypes ==
    ASSUME PoolTypeOK, DrawPool
    PROVE  PoolTypeOK'
<1> DEFINE m == IF poolView \in {"DEPOSITING", "ADJUSTING"}
                      /\ ~(poolShown \in {"DEPOSITING", "ADJUSTING"})
                THEN NewDepositManager(known.deposit) ELSE deposit
<1>1. m \in DepositManagers
  BY NewManagerType DEF PoolTypeOK, SomePools
<1>2. m.original \in SomeDeposits /\ m.edited \in Nat /\ known.deposit \in SomeDeposits
  BY <1>1 DEF DepositManagers, PoolTypeOK, SomePools
<1>3. ValidDepositChange(known, m.original, m.edited) \in AmountChanges
  BY <1>2, OfferedType
<1>4. deposit' = m
  BY DEF DrawPool
<1> DEFINE drew == IF poolOverlooked' THEN poolDrawn.deposit ELSE known.deposit
<1>5. poolDrawn' = [deposit |-> drew, manager |-> m,
                    type |-> IF poolView \in {"DEPOSITING", "ADJUSTING"}
                             THEN poolTx.type ELSE "idle",
                    seen |-> poolTx.type,
                    change |-> ValidDepositChange(known, m.original, m.edited)]
  BY DEF DrawPool
<1>11. drew \in SomeDeposits /\ poolOverlooked' \in BOOLEAN
  BY <1>2, Zenon DEF DrawPool, PoolTypeOK
<1> HIDE DEF m, drew
<1>6. poolTx.type \in PoolTxTypes /\ "idle" \in PoolTxTypes
  BY DEF PoolTypeOK, PoolTxTypes
<1>7. poolDrawn' \in [deposit : SomeDeposits, manager : DepositManagers,
                      type : PoolTxTypes, seen : PoolTxTypes, change : AmountChanges]
  BY <1>1, <1>2, <1>3, <1>5, <1>6, <1>11
<1>8. poolEffects' \subseteq {"draw", "mount", "tx", "status"}
  BY DEF DrawPool
<1>9. poolDirty' = FALSE /\ poolHasty' = poolHasty
  BY DEF DrawPool
<1>10. UNCHANGED <<pool, known, poolView, poolViewRef, poolTx>> /\ poolShown' = poolView
  BY DEF DrawPool, poolEnv
<1> QED
  BY <1>1, <1>4, <1>7, <1>8, <1>9, <1>10, <1>11 DEF PoolTypeOK

LEMMA RunPoolEffectsTypes ==
    ASSUME PoolTypeOK, RunPoolEffects
    PROVE  PoolTypeOK'
<1>1. deposit' \in DepositManagers
  BY DEF RunPoolEffects, PoolTypeOK, DepositManagers
<1>2. poolView' \in PoolViews
  BY PoolTransitionType DEF RunPoolEffects, PoolTypeOK
<1>3. NoPoolTx \in [type : PoolTxTypes, change : AmountChanges,
                    receipt : {"none", "succeeded", "failed"}]
  BY DEF NoPoolTx, PoolTxTypes, AmountChanges
<1>4. poolDirty' \in BOOLEAN
  BY Zenon DEF RunPoolEffects
<1>5. /\ poolViewRef' = poolShown /\ poolTx' \in {poolTx, NoPoolTx} /\ poolEffects' = {}
      /\ UNCHANGED <<pool, known, poolShown, poolDrawn, poolOverlooked, poolHasty>>
  BY DEF RunPoolEffects, poolEnv
<1> QED
  BY <1>1, <1>2, <1>3, <1>4, <1>5 DEF PoolTypeOK

LEMMA PoolInputTypes ==
    ASSUME PoolTypeOK,
           \/ \E e \in {"DEPOSIT_PRESSED", "CANCEL_PRESSED", "ADJUST_DEPOSIT_PRESSED"} :
                 PressPool(e)
           \/ \E d \in DepositInputs : TypeDeposit(d)
           \/ ConfirmDeposit
    PROVE  PoolTypeOK'
<1>1. /\ UNCHANGED <<pool, known, poolViewRef, poolShown, poolDrawn, poolEffects,
                     poolOverlooked>>
      /\ poolDirty' = TRUE
  BY DEF PressPool, TypeDeposit, ConfirmDeposit, PoolInput, poolEnv
<1>2. ASSUME NEW e, PressPool(e)
      PROVE  PoolTypeOK'
  <2>1. poolView' \in PoolViews
    BY <1>2, PoolTransitionType DEF PressPool, PoolTypeOK
  <2>2. poolHasty' \in BOOLEAN
    BY <1>2, Zenon DEF PressPool
  <2> QED
    BY <1>1, <1>2, <2>1, <2>2 DEF PressPool, PoolTypeOK
<1>3. ASSUME NEW d \in DepositInputs, TypeDeposit(d)
      PROVE  PoolTypeOK'
  <2>1. deposit' \in DepositManagers
    BY <1>3, DepositAssumption DEF TypeDeposit, PoolTypeOK, DepositManagers
  <2> QED
    BY <1>1, <1>3, <2>1 DEF TypeDeposit, PoolTypeOK
<1>4. CASE ConfirmDeposit
  BY <1>1, <1>4 DEF ConfirmDeposit, PoolTypeOK, PoolTxTypes, Pending
<1> QED
  BY <1>2, <1>3, <1>4

\* A liquidation leaves a deposit that is not empty.
Liquidated == [pool EXCEPT !.deposit.current = Less(@, Loss), !.deposit.gain = @ + Gain,
                           !.deposit.reward = @ + 1]

LEMMA AfterLiquidation ==
    ASSUME PoolTypeOK
    PROVE  Liquidated \in SomePools /\ ~DepositIsEmpty(Liquidated.deposit)
<1> DEFINE first == [pool EXCEPT !.deposit.current = Less(@, Loss)]
           second == [first EXCEPT !.deposit.gain = @ + Gain]
<1>1. pool \in SomePools /\ Less(pool.deposit.current, Loss) \in Nat
  BY DepositAssumption DEF PoolTypeOK, SomePools, SomeDeposits, Less
<1>2. first \in SomePools
  BY <1>1 DEF SomePools, SomeDeposits
<1> HIDE DEF first
<1>3. first.deposit.gain + Gain \in Nat
  BY <1>2, DepositAssumption DEF SomePools, SomeDeposits
<1>4. second \in SomePools
  BY <1>2, <1>3 DEF SomePools, SomeDeposits
<1>5. Liquidated = [second EXCEPT !.deposit.reward = @ + 1]
  BY Zenon DEF Liquidated, first
<1> HIDE DEF second
<1>6. second.deposit.reward + 1 \in Nat \ {0}
  BY <1>4 DEF SomePools, SomeDeposits
<1>7. Liquidated \in SomePools /\ Liquidated.deposit.reward = second.deposit.reward + 1
  BY <1>4, <1>5, <1>6 DEF SomePools, SomeDeposits
<1> QED
  BY <1>6, <1>7 DEF DepositIsEmpty

LEMMA PoolTypesStep ==
    ASSUME PoolTypeOK, DepositNext
    PROVE  PoolTypeOK'
<1>1. CASE Liquidation
  <2>1. PoolNews(Liquidated)
    BY <1>1, Zenon DEF Liquidation, Liquidated
  <2> QED
    BY <2>1, AfterLiquidation, PoolNewsTypes
<1>2. CASE SetElsewhere
  <2>1. ASSUME NEW d \in DepositInputs
        PROVE  [pool EXCEPT !.deposit = Deposit(d, d, 0, 0)] \in SomePools
    BY DepositAssumption, EmptyDeposits DEF PoolTypeOK, SomePools
  <2> QED
    BY <1>2, <2>1, PoolNewsTypes DEF SetElsewhere
<1>3. CASE PriceCrosses
  <2>1. \A b \in BOOLEAN : [pool EXCEPT !.undercollateralized = b] \in SomePools
    BY DEF PoolTypeOK, SomePools
  <2>2. PICK b \in BOOLEAN : PoolNews([pool EXCEPT !.undercollateralized = b])
    BY <1>3, Zenon DEF PriceCrosses
  <2> QED
    BY <2>1, <2>2, PoolNewsTypes
<1>4. CASE DepositWallet
  <2>1. /\ poolTx \in [type : PoolTxTypes, change : AmountChanges,
                       receipt : {"none", "succeeded", "failed"}]
        /\ NoPoolTx \in [type : PoolTxTypes, change : AmountChanges,
                         receipt : {"none", "succeeded", "failed"}]
    BY DEF PoolTypeOK, NoPoolTx, PoolTxTypes, AmountChanges
  <2>2. \E t \in PoolTxTypes : poolTx' \in {[poolTx EXCEPT !.type = t], NoPoolTx}
    BY <1>4 DEF DepositWallet, PoolTxMoves, PoolTxTypes, Pending
  <2>3. poolTx' \in [type : PoolTxTypes, change : AmountChanges,
                     receipt : {"none", "succeeded", "failed"}]
    BY <2>1, <2>2
  <2> QED
    BY <1>4, <2>3 DEF DepositWallet, PoolTxMoves, PoolTypeOK, poolEnv, poolViews
<1>5. CASE PoolStoreUpdate
  <2>1. deposit' \in DepositManagers
    BY <1>5, ReduceDepositType DEF PoolStoreUpdate, PoolTypeOK, SomePools
  <2> QED
    BY <1>5, <2>1 DEF PoolStoreUpdate, PoolTypeOK, poolEnv, poolViews
<1> QED
  BY <1>1, <1>2, <1>3, <1>4, <1>5, DepositMinedTypes, DrawPoolTypes,
     RunPoolEffectsTypes, PoolInputTypes DEF DepositNext

-----------------------------------------------------------------------------
(* The amount that nobody touched                                          *)

UntouchedInv ==
    /\ ~deposit.touched => deposit.edited = deposit.original.current
    /\ ~poolDirty => poolDrawn.manager = deposit
    /\ ~poolDrawn.manager.touched => poolDrawn.change = NoAmountChange
    /\ Editing => PoolListening

LEMMA UntouchedInit == DepositInit => UntouchedInv
  BY DEF DepositInit, UntouchedInv, NewDepositManager, Editing

LEMMA UntouchedStep ==
    ASSUME PoolTypeOK, UntouchedInv, DepositNext
    PROVE  UntouchedInv'
<1>1. CASE DrawPool
  <2> DEFINE m == IF poolView \in {"DEPOSITING", "ADJUSTING"}
                        /\ ~(poolShown \in {"DEPOSITING", "ADJUSTING"})
                  THEN NewDepositManager(known.deposit) ELSE deposit
  <2>1. m \in DepositManagers /\ (~m.touched => m.edited = m.original.current)
    BY NewManagerType DEF PoolTypeOK, SomePools, UntouchedInv, NewDepositManager
  <2>2. m.original \in SomeDeposits /\ m.edited \in Nat
    BY <2>1 DEF DepositManagers
  <2>3. deposit' = m /\ poolDrawn'.manager = m
        /\ poolDrawn'.change = ValidDepositChange(known, m.original, m.edited)
    BY <1>1 DEF DrawPool
  <2> HIDE DEF m
  <2>4. ~m.touched => poolDrawn'.change = NoAmountChange
    BY <2>1, <2>2, <2>3, OfferedType
  <2>5. PoolListening'
    BY <1>1 DEF DrawPool, PoolListening
  <2> QED
    BY <2>1, <2>3, <2>4, <2>5 DEF UntouchedInv
<1>2. CASE RunPoolEffects
  <2>1. /\ deposit'.touched = deposit.touched /\ deposit'.edited = deposit.edited
        /\ deposit'.original = deposit.original /\ poolDrawn' = poolDrawn
        /\ PoolListening'
    BY <1>2 DEF RunPoolEffects, PoolTypeOK, DepositManagers, PoolListening
  <2>2. ~poolDirty' => ~poolDirty /\ deposit' = deposit
    BY <1>2, Zenon DEF RunPoolEffects
  <2> QED
    BY <2>1, <2>2 DEF UntouchedInv
<1>3. CASE PoolStoreUpdate
  <2>1. /\ poolDrawn' = poolDrawn /\ UNCHANGED <<poolShown, poolEffects>>
        /\ ~poolDirty' => ~poolDirty /\ ~PoolListening
    BY <1>3, Zenon DEF PoolStoreUpdate, poolViews
  <2>2. known.deposit \in SomeDeposits /\ pool.deposit \in SomeDeposits
        /\ deposit \in DepositManagers
    BY DEF PoolTypeOK, SomePools
  <2>3. deposit' \in {deposit, ReduceDeposit(deposit, known.deposit, pool.deposit)}
    BY <1>3 DEF PoolStoreUpdate
  <2>4. ~deposit'.touched => deposit'.edited = deposit'.original.current
    <3>1. ~deposit.touched => deposit.edited = deposit.original.current
      BY Zenon DEF UntouchedInv
    <3>2. CASE deposit' = deposit
      BY <3>1, <3>2, Zenon
    <3>3. CASE deposit' = ReduceDeposit(deposit, known.deposit, pool.deposit)
      BY <2>2, <3>1, <3>3, ReduceDepositType, Zenon
    <3> QED
      BY <2>3, <3>2, <3>3, Zenon
  <2>5. ~poolDirty' => deposit' = deposit
    BY <1>3, <2>1 DEF PoolStoreUpdate, UntouchedInv
  <2> QED
    BY <2>1, <2>4, <2>5 DEF UntouchedInv, Editing, PoolListening
<1>4. ASSUME NEW d, TypeDeposit(d)
      PROVE  UntouchedInv'
  <2>1. /\ deposit'.touched /\ poolDrawn' = poolDrawn /\ poolDirty'
        /\ UNCHANGED <<poolShown, poolEffects>>
    BY <1>4 DEF TypeDeposit, PoolInput, PoolTypeOK, DepositManagers
  <2> QED
    BY <2>1 DEF UntouchedInv, Editing, PoolListening
<1>5. ASSUME NEW p, PoolNews(p)
      PROVE  UntouchedInv'
  BY <1>5 DEF PoolNews, poolViews, UntouchedInv, Editing, PoolListening
<1>6. CASE DepositMined
  BY <1>6 DEF DepositMined, poolViews, UntouchedInv, Editing, PoolListening
<1>7. CASE DepositWallet
  BY <1>7 DEF DepositWallet, PoolTxMoves, poolViews, UntouchedInv, Editing, PoolListening
<1>8. CASE ConfirmDeposit \/ \E e \in {"DEPOSIT_PRESSED", "CANCEL_PRESSED",
                                     "ADJUST_DEPOSIT_PRESSED"} : PressPool(e)
  BY <1>8 DEF ConfirmDeposit, PressPool, PoolInput, UntouchedInv, Editing, PoolListening
<1> QED
  BY <1>1, <1>2, <1>3, <1>4, <1>5, <1>6, <1>7, <1>8
     DEF DepositNext, Liquidation, SetElsewhere, PriceCrosses

\* An amount that the user has not touched follows the deposit through every
\* liquidation, every news and every end of a transaction, and the editor then
\* offers nothing (StabilityDepositManager).
THEOREM UntouchedAmountFollows == EditorsSpec => []UntouchedDepositFollows
<1> DEFINE Inv == PoolTypeOK /\ UntouchedInv
<1>1. EditorsInit => Inv
  BY PoolInitTypes, UntouchedInit DEF EditorsInit
<1>2. Inv /\ [EditorsNext]_allVars => Inv'
  <2> SUFFICES ASSUME Inv, [EditorsNext]_allVars PROVE Inv'
    OBVIOUS
  <2>1. CASE DepositNext
    BY <2>1, PoolTypesStep, UntouchedStep
  <2>2. CASE UNCHANGED depositVars
    BY <2>2 DEF depositVars, PoolTypeOK, UntouchedInv, Editing, PoolListening
  <2> QED
    BY <2>1, <2>2 DEF EditorsNext, allVars
<1>3. Inv => UntouchedDepositFollows
  BY DEF UntouchedInv, UntouchedDepositFollows, PoolQuiescent
<1> QED
  BY <1>1, <1>2, <1>3, PTL DEF EditorsSpec

-----------------------------------------------------------------------------
(* The page of an empty deposit.  What the page shows, what it drew, what  *)
(* the store knows and what is so on the chain may differ in many ways;    *)
(* these are the ways that are left while nobody is hasty.                 *)

EditingViews == {"DEPOSITING", "ADJUSTING"}

\* A commit drew what there was but for what the provider overlooks, and a panel,
\* whose commit was asked for by a button, saw the transaction then.
DrawnInv ==
    /\ ~poolDirty =>
          /\ poolView = poolShown
          /\ poolOverlooked \/ SameEmptiness(poolDrawn.deposit, known.deposit)
    /\ Editing => PoolListening /\ ~poolOverlooked
    /\ poolDrawn.type = IF Editing THEN poolDrawn.seen ELSE "idle"

\* The transaction: it asks for something, and its receipt is waited for; a
\* commit that saw its end is done with before it is put away.
SentInv ==
    /\ poolTx.type \in Pending => poolTx.change # NoAmountChange
    /\ poolTx.type = "idle" => poolTx = NoPoolTx
    /\ poolTx.receipt = "succeeded" =>
          poolTx.type \in {"waitingForConfirmation", "confirmedOneShot"}
    /\ poolTx.type = "confirmedOneShot" => poolTx.receipt = "succeeded"
    /\ poolDrawn.seen = "confirmedOneShot" /\ poolEffects # {} =>
          poolTx.type = "confirmedOneShot"

\* The view set, the view shown and the ref differ only between a button or an
\* effect and the next commit, and a transaction belongs to the panel shown.
OneViewInv ==
    /\ poolEffects # {} => poolView = poolShown
    /\ poolEffects = {} => poolViewRef = poolShown
    /\ Editing /\ poolDrawn.type # "idle" => poolViewRef = poolShown
    /\ poolView \in EditingViews /\ Editing => poolView = poolShown
    /\ poolView \in EditingViews /\ ~Editing => poolTx = NoPoolTx

\* The views of an empty deposit: nothing is there, until the page's own
\* transaction makes it.
EmptyViewsInv ==
    /\ poolView = "NONE" =>
          /\ DepositIsEmpty(poolDrawn.deposit) /\ DepositIsEmpty(known.deposit)
          /\ DepositIsEmpty(pool.deposit)
    /\ poolView = "DEPOSITING" =>
          \/ /\ DepositIsEmpty(poolDrawn.deposit) /\ DepositIsEmpty(known.deposit)
             /\ DepositIsEmpty(pool.deposit) /\ poolTx.receipt # "succeeded"
          \/ /\ ~DepositIsEmpty(pool.deposit) /\ poolTx.receipt = "succeeded"
             /\ poolShown = "DEPOSITING"
    /\ poolView = "DEPOSITING" /\ poolShown = "DEPOSITING"
          /\ poolTx.receipt # "succeeded" =>
          /\ deposit.original = NoDeposit
          /\ poolDrawn.change.down = Absent /\ poolTx.change.down = Absent

\* Emptiness spreads from the chain to the store and on to the page, one step
\* at a time; when the page draws it, an effect will close the panel.
NoticedInv ==
    /\ ~DepositIsEmpty(poolDrawn.deposit) /\ DepositIsEmpty(known.deposit) =>
          DepositIsEmpty(pool.deposit)
    /\ DepositIsEmpty(poolDrawn.deposit) /\ DepositIsEmpty(pool.deposit) =>
          DepositIsEmpty(known.deposit)
    /\ "status" \in poolEffects /\ DepositIsEmpty(poolDrawn.deposit)
          /\ poolView \in {"ACTIVE", "ADJUSTING"} => DepositIsEmpty(pool.deposit)
    /\ "status" \in poolEffects /\ poolView = "DEPOSITING" =>
          ~DepositIsEmpty(poolDrawn.deposit)
    /\ poolView \in {"ACTIVE", "ADJUSTING"} /\ DepositIsEmpty(pool.deposit) =>
          ~DepositIsEmpty(poolDrawn.deposit) \/ "status" \in poolEffects

\* Where the page draws nothing and the chain has something, nothing is being
\* withdrawn.
AdditionsInv ==
    /\ Editing /\ DepositIsEmpty(poolDrawn.deposit) /\ ~DepositIsEmpty(pool.deposit) =>
          poolDrawn.change.down = Absent
    /\ Editing /\ DepositIsEmpty(poolDrawn.deposit) /\ DepositIsEmpty(known.deposit)
          /\ ~DepositIsEmpty(pool.deposit) => deposit.original.current = 0
    /\ DepositIsEmpty(poolDrawn.deposit) /\ ~DepositIsEmpty(pool.deposit)
          /\ poolTx.type \in Pending /\ poolTx.receipt = "none" =>
          poolTx.change.down = Absent

\* The panel leaves its view with the commit that draws the end of its
\* transaction.
EndsInv ==
    /\ poolView \in EditingViews /\ Editing /\ poolEffects = {} =>
          poolDrawn.type # "confirmedOneShot"
    /\ poolEffects # {} /\ Editing /\ poolDrawn.type = "confirmedOneShot" =>
          "tx" \in poolEffects

UnhurriedInv == OneViewInv /\ EmptyViewsInv /\ NoticedInv /\ AdditionsInv /\ EndsInv

PageInv == DrawnInv /\ SentInv /\ (~poolHasty => UnhurriedInv)

LEMMA PageInit == DepositInit => PageInv
<1> SUFFICES ASSUME DepositInit PROVE PageInv
  OBVIOUS
<1>1. /\ pool.deposit \in SomeDeposits /\ known = pool /\ poolDrawn.deposit = pool.deposit
      /\ deposit.original = pool.deposit /\ poolDrawn.change = NoAmountChange
      /\ poolDrawn.type = "idle" /\ poolDrawn.seen = "idle"
  BY PoolInitTypes DEF DepositInit, PoolTypeOK, SomePools, NewDepositManager
<1>2. /\ poolTx = NoPoolTx /\ poolTx.type = "idle" /\ poolTx.receipt = "none"
      /\ poolEffects = {"draw", "status", "subscribe"} /\ ~poolOverlooked
      /\ poolViewRef = poolView /\ poolShown = poolView
      /\ poolView = IF DepositIsEmpty(pool.deposit) THEN "NONE" ELSE "ACTIVE"
  BY DEF DepositInit, NoPoolTx
<1>3. DrawnInv /\ SentInv
  BY <1>1, <1>2 DEF DrawnInv, SentInv, Editing, Pending, SameEmptiness
<1>4. OneViewInv /\ EmptyViewsInv
  BY <1>1, <1>2 DEF OneViewInv, EmptyViewsInv, EditingViews, Editing
<1>5. NoticedInv /\ AdditionsInv /\ EndsInv
  BY <1>1, <1>2 DEF NoticedInv, AdditionsInv, EndsInv, EditingViews, Editing
<1> QED
  BY <1>3, <1>4, <1>5 DEF PageInv, UnhurriedInv

\* News only make a deposit empty, and only while the page draws it and is idle.
LEMMA PoolNewsPage ==
    ASSUME PoolTypeOK, PageInv, NEW p, PoolNews(p)
    PROVE  PageInv'
<1>1. UNCHANGED <<known, poolView, poolViewRef, poolShown, deposit, poolTx, poolDrawn,
                  poolEffects, poolDirty, poolOverlooked>> /\ pool' = p
  BY DEF PoolNews, poolViews
<1>2. ~poolHasty' =>
         /\ ~poolHasty
         /\ DepositIsEmpty(pool.deposit) => DepositIsEmpty(p.deposit)
         /\ ~DepositIsEmpty(pool.deposit) /\ DepositIsEmpty(p.deposit) =>
               ~DepositIsEmpty(poolDrawn.deposit) /\ poolTx = NoPoolTx
  BY Zenon DEF PoolNews
<1>3. DrawnInv' /\ SentInv'
  BY <1>1 DEF PageInv, DrawnInv, SentInv, Editing, PoolListening
<1>4. ASSUME ~poolHasty' PROVE UnhurriedInv'
  <2>1. UnhurriedInv
    BY <1>2, <1>4 DEF PageInv
  <2>2. /\ DepositIsEmpty(pool.deposit) => DepositIsEmpty(pool'.deposit)
        /\ ~DepositIsEmpty(pool.deposit) /\ DepositIsEmpty(pool'.deposit) =>
               ~DepositIsEmpty(poolDrawn.deposit) /\ poolTx.receipt = "none"
    BY <1>1, <1>2, <1>4 DEF NoPoolTx
  <2>3. OneViewInv' /\ EndsInv'
    BY <1>1, <2>1 DEF UnhurriedInv, OneViewInv, EndsInv, Editing
  <2>4. EmptyViewsInv'
    BY <1>1, <2>1, <2>2 DEF UnhurriedInv, EmptyViewsInv
  <2>5. NoticedInv' /\ AdditionsInv'
    BY <1>1, <2>1, <2>2 DEF UnhurriedInv, NoticedInv, AdditionsInv, Editing
  <2> QED
    BY <2>3, <2>4, <2>5 DEF UnhurriedInv
<1> QED
  BY <1>3, <1>4 DEF PageInv

\* The transaction makes an empty deposit only from the panel that adds to it.
LEMMA DepositMinedPage ==
    ASSUME PoolTypeOK, PageInv, DepositMined
    PROVE  PageInv'
<1> DEFINE d == ApplyAmount(pool.deposit.current, poolTx.change)
           mined == ~(pool.undercollateralized /\ poolTx.change.down # Absent)
<1>1. UNCHANGED <<known, poolView, poolViewRef, poolShown, deposit, poolDrawn,
                  poolEffects, poolDirty, poolOverlooked>>
  BY DEF DepositMined, poolViews
<1>2. /\ poolTx.type = "waitingForConfirmation" /\ poolTx.receipt = "none"
      /\ poolTx'.type = poolTx.type /\ poolTx'.change = poolTx.change
      /\ poolTx'.receipt = IF mined THEN "succeeded" ELSE "failed"
  BY DEF DepositMined, PoolTypeOK
<1>3. pool.deposit \in SomeDeposits /\ pool.deposit.current \in Nat
      /\ poolTx.change \in AmountChanges
  BY DEF PoolTypeOK, SomePools, SomeDeposits
<1>4. poolTx.change # NoAmountChange
  BY <1>2 DEF PageInv, SentInv, Pending
<1>5. d \in Nat /\ (poolTx.change.down = Absent => d > 0)
      /\ (poolTx.change.down # Absent /\ pool.deposit.current = 0 => d = 0)
  BY <1>3, <1>4, ApplyAmountType
<1> HIDE DEF d
<1>6. ~mined => pool' = pool
  BY DEF DepositMined
<1>7. mined => pool'.deposit = Deposit(d, d, 0, 0)
  BY DEF DepositMined, PoolTypeOK, SomePools, d
<1>8. mined => (DepositIsEmpty(pool'.deposit) <=> d = 0)
  BY <1>5, <1>7, EmptyDeposits
<1>9. DepositIsEmpty(pool.deposit) => pool.deposit.current = 0
  BY <1>3, EmptyDeposits
<1> HIDE DEF mined
<1>10. ~poolHasty' => ~poolHasty /\ (DepositIsEmpty(pool.deposit)
            /\ ~DepositIsEmpty(pool'.deposit) => poolView = "DEPOSITING")
  BY Zenon DEF DepositMined
<1>11. DrawnInv' /\ SentInv'
  BY <1>1, <1>2 DEF PageInv, DrawnInv, SentInv, Editing, Pending, PoolListening
<1>12. ASSUME ~poolHasty' PROVE UnhurriedInv'
  <2>1. UnhurriedInv
    BY <1>10, <1>12 DEF PageInv
  <2>2. poolTx # NoPoolTx
    BY <1>2 DEF NoPoolTx
  <2>3. poolView = "DEPOSITING" => poolShown = "DEPOSITING"
    BY <2>1, <2>2 DEF UnhurriedInv, OneViewInv, EditingViews, Editing
  <2>4. OneViewInv' /\ EndsInv'
    BY <1>1, <2>1, <2>2 DEF UnhurriedInv, OneViewInv, EndsInv, Editing
  <2>5. DepositIsEmpty(poolDrawn.deposit) /\ ~DepositIsEmpty(pool.deposit) =>
           poolTx.change.down = Absent
    BY <1>2, <2>1 DEF UnhurriedInv, AdditionsInv, Pending
  <2>6. poolView = "DEPOSITING" => poolTx.change.down = Absent
           /\ DepositIsEmpty(poolDrawn.deposit) /\ DepositIsEmpty(pool.deposit)
    BY <1>2, <2>1, <2>3 DEF UnhurriedInv, EmptyViewsInv
  <2>7. poolView = "NONE" => DepositIsEmpty(pool'.deposit)
    BY <1>2, <1>6, <1>10, <1>12, <2>1 DEF UnhurriedInv, EmptyViewsInv
  <2>8. mined /\ poolTx.change.down = Absent => ~DepositIsEmpty(pool'.deposit)
    BY <1>5, <1>8
  <2>9. EmptyViewsInv'
    BY <1>1, <1>2, <1>6, <2>1, <2>3, <2>6, <2>7, <2>8 DEF UnhurriedInv, EmptyViewsInv
  <2>10. DepositIsEmpty(pool.deposit) /\ ~DepositIsEmpty(pool'.deposit) =>
            poolView = "DEPOSITING" /\ mined
    BY <1>6, <1>10, <1>12
  <2>11. DepositIsEmpty(poolDrawn.deposit) /\ ~DepositIsEmpty(pool.deposit) =>
            ~DepositIsEmpty(pool'.deposit)
    BY <1>6, <2>5, <2>8
  <2>12. NoticedInv'
    BY <1>1, <2>1, <2>6, <2>10, <2>11 DEF UnhurriedInv, NoticedInv, EmptyViewsInv
  <2>13. poolView = "DEPOSITING" =>
            poolDrawn.change.down = Absent /\ deposit.original.current = 0
    BY <1>2, <2>1, <2>3 DEF UnhurriedInv, EmptyViewsInv, NoDeposit, Deposit
  <2>14. AdditionsInv'
    BY <1>1, <1>2, <2>1, <2>10, <2>13 DEF UnhurriedInv, AdditionsInv, Editing
  <2> QED
    BY <2>4, <2>9, <2>12, <2>14 DEF UnhurriedInv
<1> QED
  BY <1>11, <1>12 DEF PageInv

LEMMA DepositWalletPage ==
    ASSUME PoolTypeOK, PageInv, DepositWallet
    PROVE  PageInv'
<1>1. /\ UNCHANGED <<pool, known, poolView, poolViewRef, poolShown, deposit, poolDrawn,
                     poolEffects, poolOverlooked, poolHasty>> /\ poolDirty'
  BY DEF DepositWallet, PoolTxMoves, poolEnv, poolViews
<1>2. \/ /\ poolTx.type \in Pending /\ poolTx'.type \in {"waitingForConfirmation", "cancelled", "failed"}
         /\ poolTx'.change = poolTx.change /\ poolTx'.receipt = poolTx.receipt
         /\ poolTx'.type \in {"failed", "cancelled"} => poolTx.receipt # "succeeded"
      \/ /\ poolTx.type \in Pending /\ poolTx'.type = "confirmedOneShot"
         /\ poolTx'.change = poolTx.change /\ poolTx'.receipt = poolTx.receipt
         /\ poolTx.receipt = "succeeded"
      \/ poolTx.type \in {"failed", "cancelled"} /\ poolTx' = NoPoolTx
  BY DEF DepositWallet, PoolTxMoves, PoolTypeOK, Pending, PageInv, SentInv
<1>3. NoPoolTx.type = "idle" /\ NoPoolTx.receipt = "none" /\ NoPoolTx.change.down = Absent
  BY DEF NoPoolTx, NoAmountChange
<1>4. poolTx # NoPoolTx /\ poolTx.type # "confirmedOneShot"
      /\ (poolTx'.receipt = "succeeded" <=> poolTx.receipt = "succeeded")
  BY <1>2, <1>3 DEF Pending, PageInv, SentInv
<1>5. DrawnInv'
  BY <1>1 DEF PageInv, DrawnInv, Editing, PoolListening
<1>6. SentInv'
  BY <1>1, <1>2, <1>3, <1>4 DEF PageInv, SentInv, Pending
<1>7. ASSUME UnhurriedInv PROVE UnhurriedInv'
  <2>1. OneViewInv' /\ EndsInv'
    BY <1>1, <1>4, <1>7 DEF UnhurriedInv, OneViewInv, EndsInv, Editing
  <2>2. EmptyViewsInv'
    BY <1>1, <1>2, <1>3, <1>4, <1>7 DEF UnhurriedInv, EmptyViewsInv
  <2>3. NoticedInv'
    BY <1>1, <1>7 DEF UnhurriedInv, NoticedInv
  <2>4. AdditionsInv'
    BY <1>1, <1>2, <1>3, <1>7 DEF UnhurriedInv, AdditionsInv, Editing, Pending
  <2> QED
    BY <2>1, <2>2, <2>3, <2>4 DEF UnhurriedInv
<1> QED
  BY <1>1, <1>5, <1>6, <1>7 DEF PageInv

\* The store only learns what is so.
LEMMA PoolStoreUpdatePage ==
    ASSUME PoolTypeOK, PageInv, PoolStoreUpdate
    PROVE  PageInv'
<1>1. /\ UNCHANGED <<pool, poolView, poolViewRef, poolShown, poolTx, poolDrawn,
                     poolEffects, poolHasty>>
      /\ known' = pool
      /\ ~poolDirty' => ~poolDirty /\ ~PoolListening
      /\ poolOverlooked' = IF PoolListening
                           THEN poolOverlooked /\ pool.deposit = known.deposit
                           ELSE ~SameEmptiness(pool.deposit, poolDrawn.deposit)
  BY Zenon DEF PoolStoreUpdate, poolEnv, poolViews
<1>2. known.deposit \in SomeDeposits /\ pool.deposit \in SomeDeposits
      /\ deposit \in DepositManagers
  BY DEF PoolTypeOK, SomePools
<1>3. deposit'.original \in {deposit.original, pool.deposit}
  BY <1>2, ReduceDepositType DEF PoolStoreUpdate
<1>4. DepositIsEmpty(pool.deposit) => pool.deposit = NoDeposit
  BY <1>2, EmptyDeposits
<1>5. DrawnInv' /\ SentInv'
  BY <1>1 DEF PageInv, DrawnInv, SentInv, Editing, PoolListening, SameEmptiness
<1>6. ASSUME UnhurriedInv PROVE UnhurriedInv'
  <2>1. OneViewInv' /\ EndsInv'
    BY <1>1, <1>6 DEF UnhurriedInv, OneViewInv, EndsInv, Editing
  <2>2. EmptyViewsInv'
    BY <1>1, <1>3, <1>4, <1>6 DEF UnhurriedInv, EmptyViewsInv
  <2>3. NoticedInv'
    BY <1>1, <1>6 DEF UnhurriedInv, NoticedInv
  <2>4. AdditionsInv'
    BY <1>1, <1>6 DEF UnhurriedInv, AdditionsInv, Editing
  <2> QED
    BY <2>1, <2>2, <2>3, <2>4 DEF UnhurriedInv
<1> QED
  BY <1>1, <1>5, <1>6 DEF PageInv

\* A commit draws what the store knows, of a panel that may be new; what the
\* provider overlooks, it goes on overlooking until the view changes.
LEMMA DrawPoolPage ==
    ASSUME PoolTypeOK, PageInv, DrawPool
    PROVE  PageInv'
<1> DEFINE mounts == poolView \in EditingViews /\ poolShown \notin EditingViews
<1>1. /\ UNCHANGED <<pool, known, poolView, poolViewRef, poolTx, poolHasty>>
      /\ poolShown' = poolView /\ ~poolDirty' /\ poolEffects = {}
  BY DEF DrawPool, poolEnv
<1>2. deposit' = IF mounts THEN NewDepositManager(known.deposit) ELSE deposit
  BY DEF DrawPool, EditingViews
<1>3. /\ poolDrawn'.deposit = IF poolOverlooked' THEN poolDrawn.deposit ELSE known.deposit
      /\ poolDrawn'.seen = poolTx.type
      /\ poolDrawn'.type = IF poolView \in EditingViews THEN poolTx.type ELSE "idle"
      /\ poolDrawn'.change
            = ValidDepositChange(known, deposit'.original, deposit'.edited)
  BY DEF DrawPool, EditingViews
<1>4. poolEffects' # {} /\ ("tx" \in poolEffects' <=> poolDrawn'.type # poolDrawn.type \/ mounts)
  BY DEF DrawPool, EditingViews
<1>5. "status" \in poolEffects' <=> ~SameEmptiness(poolDrawn'.deposit, poolDrawn.deposit)
  BY DEF DrawPool, EditingViews
<1>6. known.deposit \in SomeDeposits /\ deposit' \in DepositManagers
  BY DrawPoolTypes DEF PoolTypeOK, SomePools
<1>7. deposit'.original.current = 0 => poolDrawn'.change.down = Absent
  <2>1. deposit'.original \in SomeDeposits /\ deposit'.edited \in Nat
    BY <1>6 DEF DepositManagers
  <2> QED
    BY <1>3, <2>1, OfferedType
<1>8. DepositIsEmpty(known.deposit) => known.deposit = NoDeposit
  BY <1>6, EmptyDeposits
<1>9. NoDeposit.current = 0 /\ NoPoolTx.type = "idle" /\ NoPoolTx.change.down = Absent
  BY DEF NoDeposit, Deposit, NoPoolTx, NoAmountChange
<1>10. deposit'.original = IF mounts THEN known.deposit ELSE deposit.original
  BY <1>2 DEF NewDepositManager
<1>11. Editing <=> poolShown \in EditingViews
  BY DEF Editing, EditingViews
<1>12. Editing' <=> poolView \in EditingViews
  BY <1>1 DEF Editing, EditingViews
<1>13. poolOverlooked' => poolOverlooked /\ poolView = poolShown /\ ~Editing'
  BY <1>1, <1>11, <1>12 DEF DrawPool, PageInv, DrawnInv
<1>14. PoolListening'
  BY DEF DrawPool, PoolListening
<1>15. DrawnInv' /\ SentInv'
  BY <1>1, <1>3, <1>12, <1>13, <1>14 DEF PageInv, DrawnInv, SentInv, SameEmptiness
<1>16. ASSUME UnhurriedInv PROVE UnhurriedInv'
  <2>1. OneViewInv'
    BY <1>1, <1>3, <1>4, <1>9, <1>11, <1>12, <1>16 DEF UnhurriedInv, OneViewInv
  <2>2. poolView \in EditingViews /\ ~mounts => poolView = poolShown
    BY <1>11, <1>16 DEF UnhurriedInv, OneViewInv
  <2>3. mounts => poolTx = NoPoolTx
    BY <1>11, <1>16 DEF UnhurriedInv, OneViewInv
  <2>4. EmptyViewsInv'
    BY <1>1, <1>3, <1>7, <1>8, <1>9, <1>10, <1>13, <1>16, <2>2, <2>3
       DEF UnhurriedInv, EmptyViewsInv, EditingViews
  <2>5. NoticedInv'
    BY <1>1, <1>3, <1>5, <1>13, <1>16 DEF UnhurriedInv, NoticedInv, EmptyViewsInv, SameEmptiness
  <2>6. DepositIsEmpty(known.deposit) /\ ~DepositIsEmpty(pool.deposit) =>
           DepositIsEmpty(poolDrawn.deposit)
    BY <1>16 DEF UnhurriedInv, NoticedInv
  <2>7. Editing' /\ DepositIsEmpty(known.deposit) /\ ~DepositIsEmpty(pool.deposit) =>
           deposit'.original.current = 0
    BY <1>8, <1>9, <1>10, <1>11, <1>12, <1>16, <2>6 DEF UnhurriedInv, AdditionsInv
  <2>8. AdditionsInv'
    BY <1>1, <1>3, <1>7, <1>13, <1>16, <2>6, <2>7 DEF UnhurriedInv, AdditionsInv
  <2>9. EndsInv'
    BY <1>1, <1>3, <1>4, <1>11, <1>12, <1>16 DEF UnhurriedInv, EndsInv
  <2> QED
    BY <2>1, <2>4, <2>5, <2>8, <2>9 DEF UnhurriedInv
<1> QED
  BY <1>1, <1>15, <1>16 DEF PageInv

\* The effects close the panel of a deposit that was drawn empty, and the panel
\* whose transaction was drawn at its end.
LEMMA RunPoolEffectsPage ==
    ASSUME PoolTypeOK, PageInv, RunPoolEffects
    PROVE  PageInv'
<1> DEFINE emptied == "status" \in poolEffects /\ DepositIsEmpty(poolDrawn.deposit)
           confirmed == Editing /\ "tx" \in poolEffects
                            /\ poolDrawn.type = "confirmedOneShot"
<1>1. /\ UNCHANGED <<pool, known, poolShown, poolDrawn, poolOverlooked, poolHasty>>
      /\ poolViewRef' = poolShown /\ poolEffects' = {} /\ poolEffects # {}
  BY DEF RunPoolEffects, poolEnv
<1>2. deposit'.original = deposit.original
  BY DEF RunPoolEffects, PoolTypeOK, DepositManagers
<1>3. poolTx' = IF poolDrawn.seen = "confirmedOneShot" THEN NoPoolTx ELSE poolTx
  BY DEF RunPoolEffects
<1>4. emptied => poolView' = PoolTransition(poolShown, "DEPOSIT_EMPTIED")
  BY DEF RunPoolEffects
<1>5. ~emptied /\ confirmed => poolView' = PoolTransition(poolViewRef, "DEPOSIT_CONFIRMED")
  BY DEF RunPoolEffects
<1>6. ~emptied /\ ~confirmed => poolView' = poolView
  BY DEF RunPoolEffects
<1>7. ~poolDirty' => ~poolDirty /\ poolView' = poolShown
  BY Zenon DEF RunPoolEffects
<1>8. poolShown \in PoolViews
  BY DEF PoolTypeOK
<1>9. PoolTransition(poolShown, "DEPOSIT_EMPTIED") =
         IF poolShown \in {"ACTIVE", "ADJUSTING"} THEN "NONE" ELSE poolShown
  BY <1>8 DEF PoolTransition, PoolTransitions, PoolViews
<1>10. poolShown \in EditingViews => PoolTransition(poolShown, "DEPOSIT_CONFIRMED") = "ACTIVE"
  BY DEF PoolTransition, PoolTransitions, EditingViews
<1>11. NoPoolTx.type = "idle" /\ NoPoolTx.receipt = "none" /\ NoPoolTx.change.down = Absent
  BY DEF NoPoolTx, NoAmountChange
<1>12. Editing <=> poolShown \in EditingViews
  BY DEF Editing, EditingViews
<1>13. DrawnInv'
  BY <1>1, <1>7 DEF PageInv, DrawnInv, Editing, PoolListening
<1>14. SentInv'
  BY <1>1, <1>3, <1>11 DEF PageInv, SentInv, Pending
<1>15. ASSUME UnhurriedInv PROVE UnhurriedInv'
  <2>1. poolView = poolShown
    BY <1>1, <1>15 DEF UnhurriedInv, OneViewInv
  <2>2. emptied => poolShown # "DEPOSITING"
    BY <1>15, <2>1 DEF UnhurriedInv, NoticedInv
  <2>3. confirmed => poolView' \in {"ACTIVE", "NONE"}
    <3>1. confirmed => poolViewRef = poolShown
      BY <1>15 DEF UnhurriedInv, OneViewInv
    <3> QED
      BY <1>4, <1>5, <1>8, <1>9, <1>10, <1>12, <2>2, <3>1 DEF PoolViews
  <2>4. Editing /\ poolDrawn.type = "confirmedOneShot" => confirmed
    BY <1>1, <1>15 DEF UnhurriedInv, EndsInv
  <2>5. poolView' \in EditingViews => poolView' = poolShown /\ ~confirmed
    BY <1>4, <1>6, <1>8, <1>9, <2>1, <2>3 DEF PoolViews, EditingViews
  <2>6. poolView' \in EditingViews => poolDrawn.type # "confirmedOneShot" /\ poolTx' = poolTx
    BY <1>3, <1>12, <2>4, <2>5 DEF PageInv, DrawnInv
  <2>7. OneViewInv'
    BY <1>1, <1>12, <2>5 DEF OneViewInv, Editing
  <2>8. EndsInv'
    BY <1>1, <2>6 DEF EndsInv, Editing
  <2>9. poolView' = "NONE" => poolShown = "NONE" \/ (emptied /\ poolShown \in {"ACTIVE", "ADJUSTING"})
    BY <1>4, <1>5, <1>6, <1>8, <1>9, <1>10, <1>12, <1>15, <2>1
       DEF UnhurriedInv, OneViewInv
  <2>10. emptied /\ poolShown \in {"ACTIVE", "ADJUSTING"} =>
            /\ DepositIsEmpty(poolDrawn.deposit) /\ DepositIsEmpty(pool.deposit)
            /\ DepositIsEmpty(known.deposit)
    BY <1>15, <2>1 DEF UnhurriedInv, NoticedInv
  <2>11. EmptyViewsInv'
    BY <1>1, <1>2, <1>15, <2>1, <2>5, <2>6, <2>9, <2>10
       DEF UnhurriedInv, EmptyViewsInv, EditingViews
  <2>12. confirmed /\ poolShown = "DEPOSITING" => ~DepositIsEmpty(pool.deposit)
    <3>1. confirmed => poolTx.receipt = "succeeded"
      BY <1>1 DEF PageInv, SentInv, DrawnInv
    <3> QED
      BY <1>15, <2>1, <3>1 DEF UnhurriedInv, EmptyViewsInv
  <2>13. ~emptied /\ poolShown \in {"ACTIVE", "ADJUSTING"} /\ DepositIsEmpty(pool.deposit) =>
            ~DepositIsEmpty(poolDrawn.deposit)
    BY <1>15, <2>1 DEF UnhurriedInv, NoticedInv
  <2>14. ASSUME poolView' \in {"ACTIVE", "ADJUSTING"}
         PROVE  /\ ~emptied
                /\ \/ poolShown \in {"ACTIVE", "ADJUSTING"}
                   \/ confirmed /\ poolShown = "DEPOSITING"
    <3>1. ~emptied
      BY <1>4, <1>8, <1>9, <2>14 DEF PoolViews
    <3>2. CASE confirmed
      BY <1>12, <3>1, <3>2 DEF EditingViews
    <3>3. CASE ~confirmed
      <4>1. poolView' = poolShown
        BY <1>6, <2>1, <3>1, <3>3
      <4> QED
        BY <2>14, <3>1, <4>1
    <3> QED
      BY <3>2, <3>3
  <2>15. poolView' \in {"ACTIVE", "ADJUSTING"} /\ DepositIsEmpty(pool.deposit) =>
            ~DepositIsEmpty(poolDrawn.deposit)
    BY <2>12, <2>13, <2>14
  <2>16. NoticedInv'
    BY <1>1, <1>15, <2>15 DEF UnhurriedInv, NoticedInv
  <2>17. AdditionsInv'
    BY <1>1, <1>2, <1>3, <1>11, <1>15 DEF UnhurriedInv, AdditionsInv, Editing, Pending
  <2> QED
    BY <2>7, <2>8, <2>11, <2>16, <2>17 DEF UnhurriedInv
<1> QED
  BY <1>1, <1>13, <1>14, <1>15 DEF PageInv

\* A button that is not pressed too early finds all settled and no transaction.
LEMMA PressPoolPage ==
    ASSUME PoolTypeOK, PageInv, PressPool("DEPOSIT_PRESSED") \/ PressPool("CANCEL_PRESSED")
                                  \/ PressPool("ADJUST_DEPOSIT_PRESSED")
    PROVE  PageInv'
<1>1. /\ UNCHANGED <<pool, known, poolViewRef, poolShown, poolDrawn, poolEffects,
                     deposit, poolTx, poolOverlooked>> /\ poolDirty'
  BY DEF PressPool, PoolInput, poolEnv
<1>2. ~poolHasty' => ~poolHasty /\ ~poolDirty /\ poolEffects = {} /\ poolTx = NoPoolTx
  BY Zenon DEF PressPool
<1>3. poolShown \in PoolViews
  BY DEF PoolTypeOK
<1>4. PICK e \in {"DEPOSIT_PRESSED", "CANCEL_PRESSED", "ADJUST_DEPOSIT_PRESSED"} :
         PressPool(e)
  BY Zenon
<1>5. e \in DOMAIN PoolTransitions[poolShown]
      /\ poolView' = PoolTransition(poolViewRef, e)
  BY <1>4 DEF PressPool
<1>6. poolViewRef = poolShown =>
         \/ poolShown = "NONE" /\ poolView' = "DEPOSITING"
         \/ poolShown = "DEPOSITING" /\ poolView' = "NONE"
         \/ poolShown = "ACTIVE" /\ poolView' = "ADJUSTING"
         \/ poolShown = "ADJUSTING" /\ poolView' = "ACTIVE"
  BY <1>3, <1>5 DEF PoolTransition, PoolTransitions, PoolViews
<1>7. NoPoolTx.type = "idle" /\ NoPoolTx.receipt = "none"
  BY DEF NoPoolTx
<1>8. DrawnInv' /\ SentInv'
  BY <1>1 DEF PageInv, DrawnInv, SentInv, Editing, PoolListening
<1>9. ASSUME ~poolHasty' PROVE UnhurriedInv'
  <2>1. UnhurriedInv /\ poolView = poolShown /\ poolEffects = {} /\ poolTx = NoPoolTx
    BY <1>2, <1>9 DEF PageInv, DrawnInv
  <2>2. poolViewRef = poolShown
    BY <2>1 DEF UnhurriedInv, OneViewInv
  <2>3. poolView' \in EditingViews => ~Editing
    BY <1>6, <2>2 DEF EditingViews, Editing
  <2>4. OneViewInv' /\ EndsInv'
    BY <1>1, <2>1, <2>2, <2>3 DEF UnhurriedInv, OneViewInv, EndsInv, Editing
  <2>5. EmptyViewsInv'
    BY <1>1, <1>6, <1>7, <2>1, <2>2 DEF UnhurriedInv, EmptyViewsInv
  <2>6. poolView' \in {"ACTIVE", "ADJUSTING"} => poolView \in {"ACTIVE", "ADJUSTING"}
    BY <1>6, <2>1, <2>2
  <2>7. NoticedInv'
    BY <1>1, <2>1, <2>6 DEF UnhurriedInv, NoticedInv
  <2>8. AdditionsInv'
    BY <1>1, <2>1 DEF UnhurriedInv, AdditionsInv, Editing
  <2> QED
    BY <2>4, <2>5, <2>7, <2>8 DEF UnhurriedInv
<1> QED
  BY <1>8, <1>9 DEF PageInv

LEMMA TypeDepositPage ==
    ASSUME PoolTypeOK, PageInv, NEW d, TypeDeposit(d)
    PROVE  PageInv'
<1>1. /\ UNCHANGED <<pool, known, poolView, poolViewRef, poolShown, poolDrawn,
                     poolEffects, poolTx, poolOverlooked, poolHasty>> /\ poolDirty'
  BY DEF TypeDeposit, PoolInput, poolEnv
<1>2. deposit'.original = deposit.original
  BY DEF TypeDeposit, PoolTypeOK, DepositManagers
<1>3. DrawnInv' /\ SentInv'
  BY <1>1 DEF PageInv, DrawnInv, SentInv, Editing, PoolListening
<1>4. UnhurriedInv => UnhurriedInv'
  BY <1>1, <1>2 DEF UnhurriedInv, OneViewInv, EmptyViewsInv, NoticedInv, AdditionsInv,
                    EndsInv, Editing
<1> QED
  BY <1>1, <1>3, <1>4 DEF PageInv

LEMMA ConfirmDepositPage ==
    ASSUME PoolTypeOK, PageInv, ConfirmDeposit
    PROVE  PageInv'
<1>1. /\ UNCHANGED <<pool, known, poolView, poolViewRef, poolShown, poolDrawn,
                     poolEffects, deposit, poolOverlooked, poolHasty>>
      /\ poolDirty' /\ Editing
  BY DEF ConfirmDeposit, PoolInput, poolEnv
<1>2. /\ poolDrawn.change # NoAmountChange /\ poolTx.type \in {"idle", "failed", "cancelled"}
      /\ poolTx'.type = "waitingForApproval" /\ poolTx'.change = poolDrawn.change
      /\ poolTx'.receipt = "none"
  BY DEF ConfirmDeposit
<1>3. poolTx.receipt # "succeeded"
  BY <1>2 DEF PageInv, SentInv
<1>4. DrawnInv' /\ SentInv'
  BY <1>1, <1>2 DEF PageInv, DrawnInv, SentInv, Editing, Pending, PoolListening
<1>5. ASSUME UnhurriedInv PROVE UnhurriedInv'
  <2>1. OneViewInv' /\ EndsInv'
    BY <1>1, <1>5 DEF UnhurriedInv, OneViewInv, EndsInv, Editing
  <2>2. EmptyViewsInv'
    BY <1>1, <1>2, <1>3, <1>5 DEF UnhurriedInv, EmptyViewsInv
  <2>3. NoticedInv' /\ AdditionsInv'
    BY <1>1, <1>2, <1>5 DEF UnhurriedInv, NoticedInv, AdditionsInv, Editing
  <2> QED
    BY <2>1, <2>2, <2>3 DEF UnhurriedInv
<1> QED
  BY <1>1, <1>4, <1>5 DEF PageInv

LEMMA PageStep ==
    ASSUME PoolTypeOK, PageInv, DepositNext
    PROVE  PageInv'
<1>1. CASE Liquidation \/ SetElsewhere \/ PriceCrosses
  BY <1>1, PoolNewsPage DEF Liquidation, SetElsewhere, PriceCrosses
<1>2. CASE DepositMined \/ DepositWallet \/ PoolStoreUpdate \/ DrawPool \/ RunPoolEffects
  BY <1>2, DepositMinedPage, DepositWalletPage, PoolStoreUpdatePage, DrawPoolPage,
     RunPoolEffectsPage
<1>3. CASE \E e \in {"DEPOSIT_PRESSED", "CANCEL_PRESSED", "ADJUST_DEPOSIT_PRESSED"} :
             PressPool(e)
  BY <1>3, PressPoolPage
<1>4. CASE (\E d \in DepositInputs : TypeDeposit(d)) \/ ConfirmDeposit
  BY <1>4, TypeDepositPage, ConfirmDepositPage
<1> QED
  BY <1>1, <1>2, <1>3, <1>4 DEF DepositNext

\* Whatever liquidations, prices, other windows, typing and transactions came
\* before, the page of an active deposit is not shown for an empty one once all
\* is settled, unless the history says that somebody was hasty
\* (StabilityViewProvider: DEPOSIT_EMPTIED and DEPOSIT_CONFIRMED).
THEOREM EmptyDepositsAreNotShown == EditorsSpec => []EmptyDepositIsNotShown
<1> DEFINE Inv == PoolTypeOK /\ PageInv
<1>1. EditorsInit => Inv
  BY PoolInitTypes, PageInit DEF EditorsInit
<1>2. Inv /\ [EditorsNext]_allVars => Inv'
  <2> SUFFICES ASSUME Inv, [EditorsNext]_allVars PROVE Inv'
    OBVIOUS
  <2>1. CASE DepositNext
    BY <2>1, PoolTypesStep, PageStep
  <2>2. CASE UNCHANGED depositVars
    BY <2>2 DEF depositVars, PoolTypeOK, PageInv, DrawnInv, SentInv, UnhurriedInv,
                OneViewInv, EmptyViewsInv, NoticedInv, AdditionsInv, EndsInv, Editing,
                PoolListening
  <2> QED
    BY <2>1, <2>2 DEF EditorsNext, allVars
<1>3. Inv => EmptyDepositIsNotShown
  <2> SUFFICES ASSUME Inv, PoolQuiescent, known = pool, ~poolHasty, ~poolOverlooked,
                      poolShown \in {"ACTIVE", "ADJUSTING"}
               PROVE  ~DepositIsEmpty(known.deposit)
    BY DEF EmptyDepositIsNotShown
  <2>1. /\ poolView = poolShown /\ poolEffects = {}
        /\ DepositIsEmpty(poolDrawn.deposit) <=> DepositIsEmpty(known.deposit)
    BY DEF PageInv, DrawnInv, PoolQuiescent, SameEmptiness
  <2> QED
    BY <2>1 DEF PageInv, UnhurriedInv, NoticedInv
<1> QED
  BY <1>1, <1>2, <1>3, PTL DEF EditorsSpec
=============================================================================
