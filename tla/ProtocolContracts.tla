-------------------------- MODULE ProtocolContracts --------------------------
(***************************************************************************)
(* The contracts as the subgraph meets them (external: their source is not *)
(* in the repository).  A call maps the contracts' own books to new books  *)
(* and the events it emits, in the order the handlers are written for: a   *)
(* price first, rewards applied before the change that needs them,         *)
(* TroveLiquidated before the TroveUpdated that empties the trove,         *)
(* LTermsUpdated and Liquidation after all troves of the call, a frontend  *)
(* tag before the deposit, the fee after the trove that pays it.           *)
(*                                                                         *)
(* A trove's collateral is what its stake entitles it to, so the numbers   *)
(* of a redistribution divide without a remainder or the call is left out. *)
(***************************************************************************)
EXTENDS SubgraphStore, Sequences, SequencesExt

CONSTANTS Unit          \* collateral per unit of stake before redistributions

Closed == [coll |-> 0, debt |-> 0, stake |-> 0, snapColl |-> 0, snapDebt |-> 0]

NewBooks(price) ==
    [price |-> price, lColl |-> 0, lDebt |-> 0,
     troves |-> [u \in Users |-> Closed],
     closedBy |-> [u \in Users |-> "nonExistent"],
     deposits |-> [u \in Users |-> 0], losses |-> [u \in Users |-> 0],
     gains |-> [u \in Users |-> 0], tags |-> [u \in Users |-> Nobody],
     frontends |-> {}, surplus |-> [u \in Users |-> 0],
     staked |-> [u \in Users |-> 0],
     balances |-> [u \in Users |-> 0], allowances |-> [p \in Users \X Users |-> 0]]

Active(b) == {u \in Users : b.troves[u].stake # 0}
Total(f, S) == FoldFunctionOnSet(+, 0, f, S)
Stakes(b, S) == Total([u \in Users |-> b.troves[u].stake], S)

\* A trove with the redistributions it has a share in.
Entire(b, u) ==
    LET t == b.troves[u]
    IN [coll |-> t.coll + (t.stake * (b.lColl - t.snapColl)) \div Scaling,
        debt |-> t.debt + (t.stake * (b.lDebt - t.snapDebt)) \div Scaling]

Compounded(b, u) == b.deposits[u] - b.losses[u]
PoolSize(b) == Total([u \in Users |-> Compounded(b, u)], Users)
UnitNow(b) == Unit + b.lColl \div Scaling

Price(b, tx) == [name |-> "LastGoodPriceUpdated", tx |-> tx, price |-> b.price]
TroveEvent(tx, op, u, coll, debt, stake) ==
    [name |-> "TroveUpdated", tx |-> tx, operation |-> op, user |-> u,
     coll |-> coll, debt |-> debt, stake |-> stake]
Fee(tx, u, fee) == [name |-> "DebtTokenBorrowingFeePaid", tx |-> tx, user |-> u, fee |-> fee]
Surplus(b, tx, u) ==
    [name |-> "CollBalanceUpdated", tx |-> tx, user |-> u, amount |-> b.surplus[u]]
DepositEvent(tx, u, amount) ==
    [name |-> "UserDepositChanged", tx |-> tx, user |-> u, amount |-> amount]
GainEvent(b, tx, u) ==
    [name |-> "FILGainWithdrawn", tx |-> tx, user |-> u, gain |-> b.gains[u],
     loss |-> b.losses[u]]

Written(b, u, coll, debt, stake) ==
    [b EXCEPT !.troves[u] = [coll |-> coll, debt |-> debt, stake |-> stake,
                             snapColl |-> b.lColl, snapDebt |-> b.lDebt]]

ClosedTrove(b, u, how) ==
    [b EXCEPT !.troves[u] = Closed, !.closedBy[u] = how]

\* applyPendingRewards: an event only when there is something to apply.
Pending(b, tx, u) ==
    LET t == b.troves[u]
        e == Entire(b, u)
    IN IF e.coll = t.coll /\ e.debt = t.debt THEN <<>>
       ELSE <<TroveEvent(tx, "accrueRewards", u, e.coll, e.debt, t.stake)>>

\* openTrove and adjustTrove leave a trove of this stake and debt.
PutTrove(b, tx, u, op, stake, debt, fee) ==
    [books |-> [Written(b, u, stake * UnitNow(b), debt, stake) EXCEPT
                   !.closedBy[u] = "open"],
     events |-> <<Price(b, tx)>> \o Pending(b, tx, u)
                \o <<TroveEvent(tx, op, u, stake * UnitNow(b), debt, stake),
                     Fee(tx, u, fee)>>]

CloseTrove(b, tx, u) ==
    [books |-> ClosedTrove(b, u, "closedByOwner"),
     events |-> <<Price(b, tx)>> \o Pending(b, tx, u)
                \o <<TroveEvent(tx, "closeTrove", u, 0, 0, 0)>>]

\* One trove of a liquidation: the gas compensation leaves, the pool takes
\* what it can (all of it from its first depositors), the rest is kept to be
\* redistributed.  In recovery mode a trove at or below a ratio of 1 is
\* redistributed as a whole.
TakeLosses(b, amount, gain) ==
    LET order == SetToSeq(Users)
        Before(i) == Total([u \in Users |-> Compounded(b, u)],
                           {order[j] : j \in 1 .. (i - 1)})
        Loss(i) == LET left == amount - Before(i)
                   IN IF left <= 0 THEN 0
                      ELSE IF left < Compounded(b, order[i]) THEN left
                      ELSE Compounded(b, order[i])
        first == CHOOSE i \in DOMAIN order : Compounded(b, order[i]) > 0
    IN [b EXCEPT !.losses = [u \in Users |->
                                @[u] + Loss(CHOOSE i \in DOMAIN order : order[i] = u)],
                 !.gains[order[first]] = @ + gain]

LiquidateOne(step, tx, u, op) ==
    LET b == step.books
        t == Entire(b, u)
        rest == t.coll - t.coll \div GasDivisor
        ratio == CalculateCollateralRatio(t.coll, t.debt, b.price)
        offsets == ~IsRecoveryModeLiquidation(op) \/ ratio > RatioScale
        offset == IF ~offsets THEN 0
                  ELSE IF t.debt <= PoolSize(b) THEN t.debt ELSE PoolSize(b)
        taken == (rest * offset) \div t.debt
        closed == ClosedTrove(b, u, "closedByLiquidation")
    IN [books  |-> IF offset = 0 THEN closed ELSE TakeLosses(closed, offset, taken),
        coll   |-> step.coll + rest - taken,
        debt   |-> step.debt + t.debt - offset,
        allDebt |-> step.allDebt + t.debt,
        events |-> step.events \o
            <<[name |-> "TroveLiquidated", tx |-> tx, user |-> u],
              TroveEvent(tx, op, u, 0, 0, 0)>>]

\* What the troves us of the call leave to the others, per unit of stake.
LiquidateTroves(b, tx, us, op) ==
    FoldLeft(LAMBDA step, u : LiquidateOne(step, tx, u, op),
             [books |-> b, coll |-> 0, debt |-> 0, allDebt |-> 0,
              events |-> <<Price(b, tx)>>], us)

CanRedistribute(done) ==
    LET S == Stakes(done.books, Active(done.books))
    IN S > 0 /\ done.coll % S = 0 /\ done.debt % S = 0

Liquidate(b, tx, us, op) ==
    LET done == LiquidateTroves(b, tx, us, op)
        S == Stakes(done.books, Active(done.books))
        after == [done.books EXCEPT !.lColl = @ + (done.coll * Scaling) \div S,
                                    !.lDebt = @ + (done.debt * Scaling) \div S]
        terms == [name |-> "LTermsUpdated", tx |-> tx, coll |-> after.lColl,
                  debt |-> after.lDebt]
        end == [name |-> "Liquidation", tx |-> tx, coll |-> done.coll,
                debt |-> done.allDebt]
    IN [books |-> after,
        events |-> done.events \o (IF done.debt = 0 THEN <<>> ELSE <<terms>>) \o <<end>>]

\* redeemCollateral from troves us in turn; the last may be left with a debt
\* and a smaller stake, the others are closed and their owners get a surplus.
RedeemOne(step, tx, u, stake, debt) ==
    LET b == step.books
        t == Entire(b, u)
        left == [ClosedTrove(b, u, "closedByRedemption") EXCEPT !.surplus[u] = @ + 1]
        kept == Written(b, u, stake * UnitNow(b), debt, stake)
    IN [books |-> IF debt = 0 THEN left ELSE kept,
        actual |-> step.actual + t.debt - debt,
        events |-> step.events \o Pending(b, tx, u) \o
            (IF debt = 0
             THEN <<Surplus(left, tx, u), TroveEvent(tx, "redeemCollateral", u, 0, 0, 0)>>
             ELSE <<TroveEvent(tx, "redeemCollateral", u, stake * UnitNow(b), debt, stake)>>)]

Redeem(b, tx, us, stake, debt) ==
    LET done == FoldLeft(LAMBDA step, u :
                    RedeemOne(step, tx, u, stake, IF u = Last(us) THEN debt ELSE 0),
                    [books |-> b, actual |-> 0, events |-> <<Price(b, tx)>>], us)
    IN [books |-> done.books,
        events |-> Append(done.events,
            [name |-> "Redemption", tx |-> tx, attempted |-> done.actual,
             actual |-> done.actual, fee |-> 1])]

\* provideToSP and withdrawFromSP: the gain is reported after the deposit.
SetDeposit(b, tx, u, amount, tag) ==
    LET first == b.deposits[u] = 0
        tagged == IF first /\ tag # Nobody
                  THEN <<[name |-> "FrontEndTagSet", tx |-> tx, user |-> u, frontend |-> tag]>>
                  ELSE <<>>
    IN [books |-> [b EXCEPT !.deposits[u] = amount, !.losses[u] = 0, !.gains[u] = 0,
                            !.tags[u] = IF first /\ tag # Nobody THEN tag ELSE @],
        events |-> tagged \o <<DepositEvent(tx, u, amount), GainEvent(b, tx, u)>>]

\* withdrawFILGainToTrove: the gain is reported before the deposit, then the
\* trove is adjusted.
GainToTrove(b, tx, u, stake) ==
    LET compounded == Compounded(b, u)
        withdrawn == [b EXCEPT !.deposits[u] = compounded, !.losses[u] = 0, !.gains[u] = 0]
        put == PutTrove(withdrawn, tx, u, "adjustTrove", stake, Entire(b, u).debt, 0)
    IN [books |-> put.books,
        events |-> <<GainEvent(b, tx, u), DepositEvent(tx, u, compounded)>> \o put.events]

ClaimSurplus(b, tx, u) ==
    LET claimed == [b EXCEPT !.surplus[u] = 0]
    IN [books |-> claimed, events |-> <<Surplus(claimed, tx, u)>>]

SetStake(b, tx, u, amount, gain) ==
    LET change == [name |-> "StakeChanged", tx |-> tx, user |-> u, amount |-> amount]
    IN [books |-> [b EXCEPT !.staked[u] = amount],
        events |-> (IF amount = b.staked[u] THEN <<>> ELSE <<change>>)
                   \o <<[name |-> "StakingGainsWithdrawn", tx |-> tx, user |-> u, gain |-> gain]>>]

Register(b, tx, u) ==
    [books |-> [b EXCEPT !.frontends = @ \union {u}],
     events |-> <<[name |-> "FrontEndRegistered", tx |-> tx, user |-> u]>>]

\* A transfer, with Nobody as sender when minting and receiver when burning.
Transfer(b, tx, from, to, value) ==
    [books |-> [b EXCEPT !.balances = Credit(Debit(@, from, value), to, value)],
     events |-> <<[name |-> "Transfer", tx |-> tx, from |-> from, to |-> to, value |-> value]>>]

Approve(b, tx, owner, spender, value) ==
    [books |-> [b EXCEPT !.allowances[<<owner, spender>>] = value],
     events |-> <<[name |-> "Approval", tx |-> tx, owner |-> owner, spender |-> spender,
                   value |-> value]>>]
=============================================================================
