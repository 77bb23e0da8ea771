---------------------------- MODULE SubgraphStore ----------------------------
(***************************************************************************)
(* The entities of the subgraph and the event handlers of its mappings, as *)
(* operators from a store to a store.  A store keeps of each entity what a *)
(* later handler or a query reads: the one Global, the current SystemState *)
(* (handlers never load an older one), the last saved change, the last     *)
(* transaction, liquidation and redemption, and per user the trove, the    *)
(* deposit, the stake, the surplus and the token balances.                 *)
(*                                                                         *)
(* Numbers: a BigInt and its decimalize()d form are the same number here   *)
(* (decimalize divides by 10^18, which keeps order, sums and equality);    *)
(* where the source multiplies by the scaling factor the model multiplies  *)
(* by Scaling, where it truncates the model divides with \div.             *)
(***************************************************************************)
EXTENDS Integers, FiniteSets

CONSTANTS Users,         \* the addresses
          Nobody,        \* ZERO_ADDRESS, and the owner of a price change
          Scaling,       \* BIGINT_SCALING_FACTOR
          RatioScale,    \* 10^DECIMAL_PRECISION, what a ratio of 1 is
          GasDivisor     \* DECIMAL_COLLATERAL_GAS_COMPENSATION_DIVISOR

ASSUME StoreAssumption ==
    /\ Nobody \notin Users
    /\ {Scaling, RatioScale, GasDivisor} \subseteq Nat \ {0}

\* "null" of every nullable id, price, ratio and temporary: none is negative.
Null == -1

NewGlobal ==
    [systemStateCount |-> 0, transactionCount |-> 0, changeCount |-> 0,
     liquidationCount |-> 0, redemptionCount |-> 0,
     numberOfOpenTroves |-> 0, numberOfLiquidatedTroves |-> 0,
     numberOfRedeemedTroves |-> 0, numberOfTrovesClosedByOwner |-> 0,
     totalNumberOfTroves |-> 0,
     totalNumberOfProtocolTokenStakes |-> 0, numberOfActiveProtocolTokenStakes |-> 0,
     totalBorrowingFeesPaid |-> 0, totalRedemptionFeesPaid |-> 0,
     rawTotalRedistributedCollateral |-> 0, rawTotalRedistributedDebt |-> 0,
     currentSystemState |-> Null, currentLiquidation |-> Null,
     currentRedemption |-> Null, tmpDepositUpdate |-> Null]

NewSystemState ==
    [id |-> Null, price |-> Null, totalCollateral |-> 0, totalDebt |-> 0,
     totalCollateralRatio |-> Null, tokensInStabilityPool |-> 0,
     collSurplusPoolBalance |-> 0, totalProtocolTokensStaked |-> 0]

NoTrove == [status |-> "nonExistent", collateral |-> 0, debt |-> 0, rawStake |-> 0,
            snapshotCollateral |-> 0, snapshotDebt |-> 0, sortKey |-> 0]

NoChange == [id |-> Null, kind |-> "none", owner |-> Nobody, operation |-> "none",
             transaction |-> Null, before |-> Null, after |-> Null,
             borrowingFee |-> Null]

EmptyStore ==
    [global |-> NewGlobal, state |-> NewSystemState,
     transaction |-> [hash |-> Null, sequenceNumber |-> Null],
     change |-> NoChange,
     liquidation |-> [id |-> Null, debt |-> 0, collateral |-> 0, troves |-> {}],
     redemption |-> [id |-> Null, attempted |-> 0, actual |-> 0, troves |-> {}],
     troves |-> [u \in Users |-> NoTrove],
     deposits |-> [u \in Users |-> [amount |-> 0, frontend |-> Nobody]],
     stakes |-> [u \in Users |-> [amount |-> 0, exists |-> FALSE]],
     users |-> [u \in Users |-> [collSurplus |-> 0, frontend |-> Nobody]],
     frontends |-> {},
     token |-> [totalSupply |-> 0, balances |-> [u \in Users |-> 0],
                allowances |-> [p \in Users \X Users |-> 0]]]

-----------------------------------------------------------------------------
(* Counters, transactions and the chain of system states and changes.       *)

IncreaseCounter(db, key) == [db EXCEPT !.global[key] = @ + 1]
DecreaseCounter(db, key) == [db EXCEPT !.global[key] = @ - 1]

\* Events of one transaction come one after the other, so a transaction that
\* is already stored is the last one stored.
GetTransaction(db, hash) ==
    IF db.transaction.hash = hash THEN db
    ELSE [IncreaseCounter(db, "transactionCount") EXCEPT
            !.transaction = [hash |-> hash,
                             sequenceNumber |-> db.global.transactionCount]]

GetCurrentSystemState(db) ==
    IF db.global.currentSystemState # Null THEN db
    ELSE [IncreaseCounter(db, "systemStateCount") EXCEPT
            !.state = [NewSystemState EXCEPT !.id = db.global.systemStateCount],
            !.global.currentSystemState = db.global.systemStateCount]

\* Mutant: the bumped state is not made the current one.
BumpSystemStateKeepingCurrent(db, state) ==
    [IncreaseCounter(db, "systemStateCount") EXCEPT
        !.state = [state EXCEPT !.id = db.global.systemStateCount]]

BumpSystemState(db, state) ==
    [IncreaseCounter(db, "systemStateCount") EXCEPT
        !.state = [state EXCEPT !.id = db.global.systemStateCount],
        !.global.currentSystemState = db.global.systemStateCount]

\* beginChange and initChange: what they do to the store ...
BeginChange(db, e) ==
    GetCurrentSystemState(GetTransaction(IncreaseCounter(db, "changeCount"), e.tx))

\* ... and the change they return, not saved yet.
InitChange(begun, e, kind, owner, operation) ==
    [id |-> begun.global.changeCount - 1, kind |-> kind, owner |-> owner,
     operation |-> operation, transaction |-> begun.transaction.sequenceNumber,
     before |-> begun.global.currentSystemState, after |-> Null,
     borrowingFee |-> Null]

FinishChange(db, change) ==
    [db EXCEPT !.change = [change EXCEPT !.after = db.global.currentSystemState]]

CalculateCollateralRatio(collateral, debt, price) ==
    IF debt = 0 THEN Null ELSE (collateral * price * RatioScale) \div debt

-----------------------------------------------------------------------------
(* The price.                                                               *)

UpdatePrice(db, e) ==
    LET current == GetCurrentSystemState(db)
        begun   == BeginChange(current, e)
        bumped  == BumpSystemState(begun, [begun.state EXCEPT !.price = e.price])
    IN IF current.state.price = Null
       THEN [current EXCEPT !.state.price = e.price]
       ELSE IF e.price = current.state.price THEN current
       ELSE FinishChange(bumped, InitChange(begun, e, "price", Nobody, "none"))

-----------------------------------------------------------------------------
(* Troves.                                                                  *)

\* Mutant: closing a trove is forgotten.
IsOpenOrAdjust(op) == op \in {"openTrove", "adjustTrove"}

IsBorrowerOperation(op) == op \in {"openTrove", "closeTrove", "adjustTrove"}
IsLiquidation(op) == op \in {"liquidateInNormalMode", "liquidateInRecoveryMode"}
IsRecoveryModeLiquidation(op) == op = "liquidateInRecoveryMode"
IsRedemption(op) == op = "redeemCollateral"

\* What a liquidation takes from the totals with the pool as it is.
TryToOffset(state, collateral, debt) ==
    LET pool == state.tokensInStabilityPool
    IN IF debt <= pool
       THEN [state EXCEPT !.totalCollateral = @ - collateral, !.totalDebt = @ - debt,
                          !.tokensInStabilityPool = @ - debt]
       ELSE IF pool > 0
       THEN [state EXCEPT !.totalCollateral = @ - ((collateral * pool) \div debt),
                          !.totalDebt = @ - pool, !.tokensInStabilityPool = 0]
       ELSE state

\* The state that a change of a trove from t to (coll, debt) leads to.
\* Mutant: a liquidation in recovery mode is always offset.
StateAfterTroveChangeAlwaysOffset(state, op, t, coll, debt) ==
    LET gas == t.collateral \div GasDivisor
        after == IF IsBorrowerOperation(op) \/ IsRedemption(op)
                 THEN [state EXCEPT !.totalCollateral = @ + (coll - t.collateral),
                                    !.totalDebt = @ + (debt - t.debt)]
                 ELSE IF IsLiquidation(op)
                 THEN TryToOffset([state EXCEPT !.totalCollateral = @ - gas],
                                  t.collateral - gas, t.debt)
                 ELSE state
    IN [after EXCEPT !.totalCollateralRatio =
           CalculateCollateralRatio(after.totalCollateral, after.totalDebt, after.price)]

StateAfterTroveChange(state, op, t, coll, debt) ==
    LET ratioBefore == CalculateCollateralRatio(t.collateral, t.debt, state.price)
        gas == t.collateral \div GasDivisor
        paid == [state EXCEPT !.totalCollateral = @ - gas]
        after == IF IsBorrowerOperation(op) \/ IsRedemption(op)
                 THEN [state EXCEPT !.totalCollateral = @ + (coll - t.collateral),
                                    !.totalDebt = @ + (debt - t.debt)]
                 ELSE IF IsLiquidation(op)
                 THEN IF ~IsRecoveryModeLiquidation(op) \/ ratioBefore > RatioScale
                      THEN TryToOffset(paid, t.collateral - gas, t.debt)
                      ELSE paid
                 ELSE state
    IN [after EXCEPT !.totalCollateralRatio =
           CalculateCollateralRatio(after.totalCollateral, after.totalDebt, after.price)]

\* A trove that is not stored yet is counted as open when it is first asked for.
GetTrove(db, u) ==
    IF db.troves[u].status # "nonExistent" THEN db
    ELSE [IncreaseCounter(IncreaseCounter(db, "numberOfOpenTroves"),
                          "totalNumberOfTroves")
            EXCEPT !.troves[u].status = "open"]

CounterOf(status) ==
    CASE status = "closedByOwner"       -> "numberOfTrovesClosedByOwner"
      [] status = "closedByLiquidation" -> "numberOfLiquidatedTroves"
      [] status = "closedByRedemption"  -> "numberOfRedeemedTroves"

\* Mutant: a trove that is opened again is not taken off its closed counter.
SetTroveStatusForgettingReopen(db, u, status) ==
    LET before == db.troves[u].status
        set == [db EXCEPT !.troves[u].status = status]
    IN IF status = before THEN db
       ELSE IF status = "open" THEN IncreaseCounter(set, "numberOfOpenTroves")
       ELSE DecreaseCounter(IncreaseCounter(set, CounterOf(status)),
                            "numberOfOpenTroves")

SetTroveStatus(db, u, status) ==
    LET before == db.troves[u].status
        set == [db EXCEPT !.troves[u].status = status]
    IN IF status = before THEN db
       ELSE IF status = "open"
       THEN DecreaseCounter(IncreaseCounter(set, "numberOfOpenTroves"), CounterOf(before))
       ELSE DecreaseCounter(IncreaseCounter(set, CounterOf(status)), "numberOfOpenTroves")

\* The liquidation or redemption under way, created by the first trove change
\* of the call; its derived field "troveChanges" is kept by owner.
GetCurrentLiquidation(db, e) ==
    IF db.global.currentLiquidation # Null THEN db
    ELSE LET d == GetTransaction(IncreaseCounter(db, "liquidationCount"), e.tx)
         IN [d EXCEPT !.liquidation = [id |-> db.global.liquidationCount, debt |-> 0,
                                       collateral |-> 0, troves |-> {}],
                      !.global.currentLiquidation = db.global.liquidationCount]

GetCurrentRedemption(db, e) ==
    IF db.global.currentRedemption # Null THEN db
    ELSE LET d == GetTransaction(IncreaseCounter(db, "redemptionCount"), e.tx)
         IN [d EXCEPT !.redemption = [id |-> db.global.redemptionCount, attempted |-> 0,
                                      actual |-> 0, troves |-> {}],
                      !.global.currentRedemption = db.global.redemptionCount]

LinkToCall(db, e, op, u) ==
    IF IsLiquidation(op)
    THEN [GetCurrentLiquidation(db, e) EXCEPT !.liquidation.troves = @ \union {u}]
    ELSE IF IsRedemption(op)
    THEN [GetCurrentRedemption(db, e) EXCEPT !.redemption.troves = @ \union {u}]
    ELSE db

StatusAfter(op, coll) ==
    IF coll # 0 THEN "open"
    ELSE CASE IsLiquidation(op) -> "closedByLiquidation"
           [] IsRedemption(op)  -> "closedByRedemption"
           [] OTHER             -> "closedByOwner"

\* The raw fields: snapshots of the redistribution and the key to sort by.
\* Mutant: the sort key is not relative to the redistribution so far.
TroveFieldsKeyNotRelative(t, coll, debt, stake, global) ==
    [t EXCEPT !.collateral = coll, !.debt = debt, !.rawStake = stake,
        !.snapshotCollateral = IF stake = 0 THEN 0 ELSE global.rawTotalRedistributedCollateral,
        !.snapshotDebt = IF stake = 0 THEN 0 ELSE global.rawTotalRedistributedDebt,
        !.sortKey = IF stake = 0 THEN 0 ELSE (debt * Scaling) \div stake]

\* Mutant: the snapshots stay those of the last time.
TroveFieldsKeepingSnapshots(t, coll, debt, stake, global) ==
    [t EXCEPT !.collateral = coll, !.debt = debt, !.rawStake = stake]

TroveFields(t, coll, debt, stake, global) ==
    [t EXCEPT !.collateral = coll, !.debt = debt, !.rawStake = stake,
        !.snapshotCollateral = IF stake = 0 THEN 0 ELSE global.rawTotalRedistributedCollateral,
        !.snapshotDebt = IF stake = 0 THEN 0 ELSE global.rawTotalRedistributedDebt,
        !.sortKey = IF stake = 0 THEN 0
                    ELSE (debt * Scaling) \div stake - global.rawTotalRedistributedDebt]

\* An event that changes neither amount leaves a stored trove as it is; the
\* trove that getTrove made up for it is not saved, although it was counted.
UpdateTrove(db, e, op, u, coll, debt, stake) ==
    LET known == GetTrove(db, u)
        t      == known.troves[u]
        begun  == BeginChange(known, e)
        change == InitChange(begun, e, "trove", u, op)
        linked == LinkToCall(begun, e, op, u)
        bumped == BumpSystemState(linked,
                      StateAfterTroveChange(linked.state, op, t, coll, debt))
        saved  == [FinishChange(bumped, change) EXCEPT
                      !.troves[u] = TroveFields(t, coll, debt, stake, db.global)]
    IN IF coll = t.collateral /\ debt = t.debt
       THEN [known EXCEPT !.troves[u] = db.troves[u]]
       ELSE SetTroveStatus(saved, u, StatusAfter(op, coll))

\* What the redistributions since the snapshot add to an amount of a trove.
Redistribution(t, snapshot, total) == ((total - snapshot) * t.rawStake) \div Scaling

ApplyRedistributionToTroveBeforeLiquidation(db, e) ==
    LET t == db.troves[e.user]
        g == db.global
    IN UpdateTrove(db, e, "accrueRewards", e.user,
           t.collateral + Redistribution(t, t.snapshotCollateral,
                                         g.rawTotalRedistributedCollateral),
           t.debt + Redistribution(t, t.snapshotDebt, g.rawTotalRedistributedDebt), 0)

\* The change with the last number is loaded as a trove change: when it is a
\* change of another kind there is none and the handler fails.
SetBorrowingFeeOfLastTroveChange(db, fee) ==
    [db EXCEPT !.change.borrowingFee = fee,
               !.global.totalBorrowingFeesPaid = @ + fee]

\* Mutant: the liquidation stays current after it is finished.
FinishCurrentLiquidationKeepingIt(db, e) ==
    LET d == GetCurrentLiquidation(db, e)
    IN [d EXCEPT !.liquidation.debt = e.debt, !.liquidation.collateral = e.coll]

FinishCurrentLiquidation(db, e) ==
    LET d == GetCurrentLiquidation(db, e)
    IN [d EXCEPT !.liquidation.debt = e.debt, !.liquidation.collateral = e.coll,
                 !.global.currentLiquidation = Null]

FinishCurrentRedemption(db, e) ==
    LET d == GetCurrentRedemption(db, e)
    IN [d EXCEPT !.redemption.attempted = e.attempted, !.redemption.actual = e.actual,
                 !.global.currentRedemption = Null,
                 !.global.totalRedemptionFeesPaid = @ + e.fee]

UpdateTotalRedistributed(db, e) ==
    [db EXCEPT !.global.rawTotalRedistributedCollateral = e.coll,
               !.global.rawTotalRedistributedDebt = e.debt]

-----------------------------------------------------------------------------
(* Deposits in the stability pool, their frontends, and the surplus.        *)

UpdateStabilityDepositByOperation(db, e, operation, amount) ==
    LET begun  == BeginChange(db, e)
        change == InitChange(begun, e, "deposit", e.user, operation)
        delta  == amount - db.deposits[e.user].amount
        state  == IF operation \in {"depositTokens", "withdrawTokens"}
                  THEN [begun.state EXCEPT !.tokensInStabilityPool = @ + delta]
                  ELSE begun.state
    IN [FinishChange(BumpSystemState(begun, state), change)
           EXCEPT !.deposits[e.user].amount = amount]

UpdateStabilityDeposit(db, e, amount) ==
    LET old == db.deposits[e.user].amount
        tagged == [db EXCEPT !.deposits[e.user].frontend = db.users[e.user].frontend]
    IN IF amount = old THEN db
       ELSE UpdateStabilityDepositByOperation(tagged, e,
              IF amount > old THEN "depositTokens" ELSE "withdrawTokens", amount)

WithdrawCollateralGainFromStabilityDeposit(db, e) ==
    IF e.gain = 0 /\ e.loss = 0 THEN db
    ELSE UpdateStabilityDepositByOperation(db, e, "withdrawCollateralGain",
            db.deposits[e.user].amount - e.loss)

\* Of the two events of one call the first leaves its amount in
\* tmpDepositUpdate for the second, which takes it away again.
\* Mutant: the second event leaves the value in place.
SwapTmpDepositUpdateOnce(db, value) ==
    [db EXCEPT !.global.tmpDepositUpdate = IF @ = Null THEN value ELSE @]

SwapTmpDepositUpdate(db, value) ==
    [db EXCEPT !.global.tmpDepositUpdate = IF @ = Null THEN value ELSE Null]

HandleUserDepositChanged(db, e) ==
    LET swapped == SwapTmpDepositUpdate(db, e.amount)
    IN IF db.global.tmpDepositUpdate = Null THEN swapped
       ELSE UpdateStabilityDeposit(swapped, e, e.amount)

\* Mutant: the deposit is updated before the gain is withdrawn.
HandleFILGainWithdrawnLast(db, e) ==
    LET swapped == SwapTmpDepositUpdate(db, 0)
        update  == db.global.tmpDepositUpdate
    IN WithdrawCollateralGainFromStabilityDeposit(
           IF update = Null THEN swapped ELSE UpdateStabilityDeposit(swapped, e, update), e)

HandleFILGainWithdrawn(db, e) ==
    LET withdrawn == WithdrawCollateralGainFromStabilityDeposit(
                         SwapTmpDepositUpdate(db, 0), e)
        update    == db.global.tmpDepositUpdate
    IN IF update = Null THEN withdrawn
       ELSE UpdateStabilityDeposit(withdrawn, e, update)

RegisterFrontend(db, e) == [db EXCEPT !.frontends = @ \union {e.user}]

AssignFrontendToDepositor(db, e) ==
    IF e.frontend \in db.frontends
    THEN [db EXCEPT !.users[e.user].frontend = e.frontend]
    ELSE db

UpdateUserClaimColl(db, e) ==
    LET begun  == BeginChange(db, e)
        change == InitChange(begun, e, "surplus", e.user, "none")
        state  == [begun.state EXCEPT
                     !.collSurplusPoolBalance = @ + (e.amount - db.users[e.user].collSurplus)]
    IN IF e.amount = db.users[e.user].collSurplus THEN db
       ELSE [FinishChange(BumpSystemState(begun, state), change)
                EXCEPT !.users[e.user].collSurplus = e.amount]

-----------------------------------------------------------------------------
(* Stakes of protocol tokens.                                               *)

GetOperationType(old, new) ==
    IF new > old THEN (IF old = 0 THEN "stakeCreated" ELSE "stakeIncreased")
    ELSE IF new = 0 THEN "stakeRemoved" ELSE "stakeDecreased"

\* getUserStake() || createStake(): the stake is saved when the handler ends.
StakeChange(db, e, operation, amount) ==
    LET begun  == BeginChange(db, e)
        change == InitChange(begun, e, "stake", e.user, operation)
        state  == [begun.state EXCEPT
                     !.totalProtocolTokensStaked = @ + (amount - db.stakes[e.user].amount)]
    IN [FinishChange(BumpSystemState(begun, state), change)
           EXCEPT !.stakes[e.user] = [amount |-> amount, exists |-> TRUE]]

CountStake(db, u, operation) ==
    CASE operation = "stakeCreated" /\ ~db.stakes[u].exists ->
            IncreaseCounter(IncreaseCounter(db, "totalNumberOfProtocolTokenStakes"),
                            "numberOfActiveProtocolTokenStakes")
      [] operation = "stakeCreated" /\ db.stakes[u].exists ->
            IncreaseCounter(db, "numberOfActiveProtocolTokenStakes")
      [] operation = "stakeRemoved" ->
            DecreaseCounter(db, "numberOfActiveProtocolTokenStakes")
      [] OTHER -> db

UpdateStake(db, e) ==
    LET operation == GetOperationType(db.stakes[e.user].amount, e.amount)
    IN StakeChange(CountStake(db, e.user, operation), e, operation, e.amount)

WithdrawStakeGains(db, e) ==
    IF e.gain = 0 THEN db
    ELSE StakeChange(db, e, "gainsWithdrawn", db.stakes[e.user].amount)

-----------------------------------------------------------------------------
(* Token balances and allowances.                                           *)

Debit(balances, u, value) ==
    IF u = Nobody THEN balances ELSE [balances EXCEPT ![u] = @ - value]
Credit(balances, u, value) ==
    IF u = Nobody THEN balances ELSE [balances EXCEPT ![u] = @ + value]

UpdateBalance(db, e) ==
    [db EXCEPT
       !.token.totalSupply = @ + (IF e.from = Nobody THEN e.value ELSE 0)
                               - (IF e.to = Nobody THEN e.value ELSE 0),
       !.token.balances = Credit(Debit(@, e.from, e.value), e.to, e.value)]

UpdateAllowance(db, e) ==
    [db EXCEPT !.token.allowances[<<e.owner, e.spender>>] = e.value]

-----------------------------------------------------------------------------
(* The manifest: which handler each event has.                              *)

Handle(db, e) ==
    CASE e.name = "LastGoodPriceUpdated" -> UpdatePrice(db, e)
      [] e.name = "TroveUpdated" ->
            UpdateTrove(db, e, e.operation, e.user, e.coll, e.debt, e.stake)
      [] e.name = "DebtTokenBorrowingFeePaid" ->
            SetBorrowingFeeOfLastTroveChange(db, e.fee)
      [] e.name = "TroveLiquidated" -> ApplyRedistributionToTroveBeforeLiquidation(db, e)
      [] e.name = "Liquidation" -> FinishCurrentLiquidation(db, e)
      [] e.name = "Redemption" -> FinishCurrentRedemption(db, e)
      [] e.name = "LTermsUpdated" -> UpdateTotalRedistributed(db, e)
      [] e.name = "UserDepositChanged" -> HandleUserDepositChanged(db, e)
      [] e.name = "FILGainWithdrawn" -> HandleFILGainWithdrawn(db, e)
      [] e.name = "FrontEndRegistered" -> RegisterFrontend(db, e)
      [] e.name = "FrontEndTagSet" -> AssignFrontendToDepositor(db, e)
      [] e.name = "CollBalanceUpdated" -> UpdateUserClaimColl(db, e)
      [] e.name = "StakeChanged" -> UpdateStake(db, e)
      [] e.name = "StakingGainsWithdrawn" -> WithdrawStakeGains(db, e)
      [] e.name = "Transfer" -> UpdateBalance(db, e)
      [] e.name = "Approval" -> UpdateAllowance(db, e)
=============================================================================
