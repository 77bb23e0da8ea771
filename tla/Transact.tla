------------------------------ MODULE Transact ------------------------------
(***************************************************************************)
(* One call of a function of the SDK that sends a transaction              *)
(* (lib-ethers/src): what PopulatableEthers reads and prepares,            *)
(* SendableEthers sends and EthersSfStablecoin waits for, while the chain  *)
(* goes on.  Every answer of the node is about the chain at its own time.  *)
(***************************************************************************)
EXTENDS SortedTroves, SentTransaction

CONSTANTS
    Calls,              \* the calls that are made
    FirstChains,        \* where the chain may be when the call is made
    NewTroves,          \* what somebody else's Trove may become
    Prices, GainStep, RedeemedElsewhere, MaxMinute,
    MaxNews,            \* bound: what happens on the chain meanwhile
    defaultBorrowingRateSlippageTolerance,
    defaultRedemptionRateSlippageTolerance,
    defaultBorrowingFeeDecayToleranceMinutes

\* The parameters of a loan that a caller may give.
Parameters ==
    [type : {"none", "creation", "adjustment"},
     depositCollateral : Nat \cup {Absent}, withdrawCollateral : Nat \cup {Absent},
     borrowDebtToken : Nat \cup {Absent}, repayDebtToken : Nat \cup {Absent},
     setToZero : {"none"}, invalidTrove : {EmptyTrove}]

IsCall(c) ==
    /\ c \in [function : {c.function}, change : Parameters, amount : Nat,
              maxRate : Nat \cup {Absent}, minutes : Nat,
              gasLimit : Nat \cup {Absent}]
    /\ c.function = "openTrove" => c.change.type = "creation"
    /\ c.function = "adjustTrove" => c.change.type = "adjustment"

ASSUME TransactAssumption ==
    /\ \A c \in FirstChains : IsChain(c)
    /\ \A c \in Calls : IsCall(c)
    /\ DOMAIN NewTroves \subseteq Nat \ {AddressZero}
    /\ \A o \in DOMAIN NewTroves : NewTroves[o] \in OpenTroves
    /\ Prices \subseteq Nat
    /\ {GainStep, RedeemedElsewhere} \subseteq Nat

VARIABLES
    chain,
    call,       \* the function and its arguments
    phase,      \* where the call is
    got,        \* the answers to the reads that were made together
    hints,      \* as far as the search has come
    gas,        \* the estimates that are in
    tx,         \* the populated transaction
    mined,      \* what became of it on the chain
    promise,    \* what the caller has been told
    since,      \* history: what has happened on the chain since the call
    news        \* bound

vars == <<chain, call, phase, got, hints, gas, tx, mined, promise, since, news>>

-----------------------------------------------------------------------------
(* The functions, and the gas that they add to an estimate.                *)

Log2Headroom(minutes) == 10000 + 1414 * Log2Ceiling(minutes + 1)

\* Mutant: the time that passes while the transaction is pending is forgotten.
NoBaseRateHeadroom(minutes, amount) == amount

addGasForBaseRateUpdate(minutes, amount)  == amount + Log2Headroom(minutes)
addGasForPotentialListTraversal(amount)   == amount + 80000
addGasForProtocolTokenIssuance(amount)    == amount + 50000
addGasForUnipoolRewardUpdate(amount)      == amount + 20000

TokenCalls == {"claimCollateralSurplus", "setPrice", "sendDebtToken",
               "sendProtocolToken"}
StakingCalls == {"stakeProtocolToken", "unstakeProtocolToken",
                 "withdrawGainsFromStaking", "registerFrontend", "mintUniToken",
                 "approveUniTokens"}
IssuanceCalls == {"liquidate", "liquidateUpTo", "depositDebtTokenInStabilityPool",
                  "withdrawDebtTokenFromStabilityPool",
                  "withdrawGainsFromStabilityPool"}
UnipoolCalls == {"stakeUniTokens", "unstakeUniTokens", "exitLiquidityMining",
                 "withdrawProtocolTokenRewardFromProtocolMining"}

Trades(c)  == c.function \in {"openTrove", "adjustTrove"}
Redeems(c) == c.function = "redeemDebtToken"
Borrows(c) == Trades(c) /\ c.change.borrowDebtToken # Absent

\* What the gas limit is made of the estimates.
GasLimit(c, g) ==
    CASE Trades(c) ->
            LET walked == Larger(addGasForPotentialListTraversal(g.now), g.later)
            IN IF Borrows(c) THEN addGasForBaseRateUpdate(c.minutes, walked)
               ELSE walked
      [] Redeems(c) ->
            addGasForBaseRateUpdate(defaultBorrowingFeeDecayToleranceMinutes, g.now)
      [] c.function = "transferCollateralGainToTrove" ->
            addGasForPotentialListTraversal(addGasForProtocolTokenIssuance(g.now))
      [] c.function \in IssuanceCalls -> addGasForProtocolTokenIssuance(g.now)
      [] c.function \in UnipoolCalls  -> addGasForUnipoolRewardUpdate(g.now)
      [] OTHER -> g.now

\* The other functions change nothing here but what is due.
Simple(c, function) ==
    Done([c EXCEPT !.due = FALSE],
         BaseGas + (IF function \in IssuanceCalls THEN IssuanceGas(c)
                    ELSE IF function \in UnipoolCalls THEN UnipoolGas(c) ELSE 0),
         <<>>)

Execute(c, t) ==
    CASE Trades(t)                                   -> Borrow(c, t)
      [] Redeems(t)                                  -> Redeem(c, t)
      [] t.function = "closeTrove"                   -> Close(c)
      [] t.function = "transferCollateralGainToTrove" -> MoveGain(c, t)
      [] OTHER                                       -> Simple(c, t.function)

\* The transaction on the chain, with its limit of gas.
Limited(c, result, limit) ==
    IF result.ok /\ result.gas > limit THEN Refused(c, "gas") ELSE result

Run(c, t) == Limited(c, Execute(c, t), t.gasLimit)

-----------------------------------------------------------------------------
(* Reading                                                                 *)

\* The reads that are made together.
Needs(c) ==
    CASE c.function = "openTrove" -> {"fees", "timestamp", "total", "price"}
      [] c.function = "adjustTrove" ->
            {"trove"} \cup (IF Borrows(c) THEN {"fees", "timestamp", "total", "price"}
                            ELSE {})
      [] Redeems(c) -> {"fees", "timestamp", "total", "price"}
      [] c.function = "transferCollateralGainToTrove" -> {"trove", "deposit"}
      [] OTHER -> {}

Read(c, name) ==
    CASE name = "fees" -> [base |-> c.baseRate, lastFeeOperation |-> c.lastFeeOperation]
      [] name = "timestamp" -> c.minute
      [] name = "total"     -> Total(c)
      [] name = "price"     -> c.price
      [] name = "deposit"   -> c.gain
      [] name = "trove"     -> IF Own \in Owners(c) THEN c.troves[Own] ELSE EmptyTrove

AllRead == Needs(call) \subseteq DOMAIN got

FeesRead ==
    [base |-> got.fees.base, lastFeeOperation |-> got.fees.lastFeeOperation,
     recoveryMode |-> IsBelowCritical(got.total, got.price)]

\* decayBorrowingRate(); without fees the algebra takes the lowest rate.
RateAfter(minutes) ==
    IF Borrows(call) THEN BorrowingRate(FeesRead, got.timestamp + minutes)
    ELSE MINIMUM_BORROWING_RATE

Before == IF call.function = "openTrove" THEN EmptyTrove ELSE got.trove
TroveAfter(minutes) == Apply(Before, call.change, RateAfter(minutes))

\* The borrowed amount that makes today the debt of the decayed rate.
SimulatingDecay ==
    WhatChanged(Before, TroveAfter(call.minutes), RateAfter(0)).borrowDebtToken

HintedRatio ==
    IF Redeems(call) THEN tx.ratio
    ELSE IF Trades(call) THEN NominalRatio(TroveAfter(0))
    ELSE NominalRatio(Plus(got.trove, Trove(got.deposit, 0)))

OwnAddress ==
    IF call.function \in {"adjustTrove", "transferCollateralGainToTrove"}
    THEN Own ELSE AddressZero

\* defaultMaxRedemptionRate(), from the fees and the total read at first.
DefaultMaxRate(amount) ==
    Smaller(RedemptionRate(FeesRead, Div(amount, got.total.debt), got.timestamp)
                + defaultRedemptionRateSlippageTolerance, ONE)

MaxRate(amount) ==
    IF call.maxRate # Absent THEN call.maxRate
    ELSE IF Redeems(call) THEN DefaultMaxRate(amount)
    ELSE IF Borrows(call) THEN RateAfter(0) + defaultBorrowingRateSlippageTolerance
    ELSE 0

-----------------------------------------------------------------------------
(* The steps of the call                                                   *)

NoTx == [function |-> "", change |-> NoChange, amount |-> 0, attempted |-> 0,
         ratio |-> 0, maxRate |-> 0, hints |-> <<0, 0>>, gasLimit |-> 0]
NoGas == [now |-> Absent, later |-> Absent]
Pending == [status |-> "pending", why |-> "", details |-> <<>>]

Rejected(why) == [Pending EXCEPT !.status = "rejected", !.why = why]

Reject(why) ==
    /\ promise' = Rejected(why)
    /\ phase' = "settled"
    /\ UNCHANGED <<chain, call, got, hints, gas, tx, mined, since, news>>

Normalized(c) ==
    IF c.function = "adjustTrove" THEN [c EXCEPT !.change = NormalizedAdjustment(@)]
    ELSE c

InvalidParams(c) ==
    \/ c.function = "openTrove" /\ CreationThrows(c.change)
    \/ c.function = "adjustTrove" /\ AdjustmentThrows(c.change)

Begin(c) ==
    /\ phase = "idle"
    /\ call' = Normalized(c)
    /\ tx' = [NoTx EXCEPT !.function = c.function, !.change = call'.change,
                          !.attempted = c.amount]
    /\ since' = [since EXCEPT !.start = chain.minute]
    /\ IF InvalidParams(c)
       THEN phase' = "settled" /\ promise' = Rejected("invalid")
       ELSE /\ phase' = IF Needs(c) = {} THEN "preparing" ELSE "reading"
            /\ UNCHANGED promise
    /\ UNCHANGED <<chain, got, hints, gas, mined, news>>

Answer(name) ==
    /\ phase \in {"reading", "counting", "searching", "jumping", "preparing"}
    /\ name \in Needs(call) \ DOMAIN got
    /\ got' = [n \in DOMAIN got \cup {name} |->
                   IF n = name THEN Read(chain, n) ELSE got[n]]
    /\ UNCHANGED <<chain, call, phase, hints, gas, tx, mined, promise, since, news>>

\* findRedemptionHints(), from the price that was read.
Truncate ==
    /\ phase = "reading" /\ Redeems(call) /\ "price" \in DOMAIN got
    /\ \E r \in {GetRedemptionHints(chain, call.amount, got.price)} :
          /\ tx' = [tx EXCEPT !.amount = r.truncated, !.ratio = r.ratio]
          /\ phase' = IF r.ratio = 0 THEN "preparing" ELSE "counting"
    /\ UNCHANGED <<chain, call, got, hints, gas, mined, promise, since, news>>

StartSearch ==
    /\ phase = "reading" /\ ~Redeems(call) /\ AllRead
    /\ phase' = "counting"
    /\ UNCHANGED <<chain, call, got, hints, gas, tx, mined, promise, since, news>>

\* getNumberOfTroves(), and the Troves without debt.
Count ==
    /\ phase = "counting"
    /\ hints' = IF HintedRatio = INFINITY /\ Owners(chain) # {}
                THEN <<AddressZero, GetFirst(chain)>> ELSE <<0, 0>>
    /\ phase' = IF Owners(chain) = {} \/ HintedRatio = INFINITY
                THEN "preparing" ELSE "searching"
    /\ UNCHANGED <<chain, call, got, gas, tx, mined, promise, since, news>>

\* "Don't use address(0) as hint".
NoZero(h) ==
    IF h[1] = AddressZero THEN <<h[2], h[2]>>
    ELSE IF h[2] = AddressZero THEN <<h[1], h[1]>> ELSE h

\* Mutant: the own Trove, about to be taken out of the list, stays a hint.
NeverJump(h) == FALSE

NeedsJump(h) == OwnAddress # AddressZero /\ OwnAddress \in {h[1], h[2]}

Search ==
    /\ phase = "searching"
    /\ \E h \in {FindInsertPosition(chain, HintedRatio)} :
          IF NeedsJump(h)
          THEN hints' = h /\ phase' = "jumping"
          ELSE hints' = NoZero(h) /\ phase' = "preparing"
    /\ UNCHANGED <<chain, call, got, gas, tx, mined, promise, since, news>>

\* "Jump over" the own Trove, wherever it is by now.
Jump ==
    /\ phase = "jumping"
    /\ hints' = NoZero(IF hints[1] = Own THEN <<GetPrev(chain, Own), hints[2]>>
                       ELSE <<hints[1], GetNext(chain, Own)>>)
    /\ phase' = "preparing"
    /\ UNCHANGED <<chain, call, got, gas, tx, mined, promise, since, news>>

\* Before the estimates: "amount too low to redeem", "Trove's debt might fall
\* below ... within ... minutes", which is not asked when the limit is given.
Hopeless ==
    \/ Redeems(call) /\ tx.amount = 0
    \/ /\ Trades(call) /\ call.gasLimit = Absent
       /\ TroveAfter(call.minutes).debt < MINIMUM_DEBT

Prepare ==
    /\ phase = "preparing" /\ AllRead
    /\ IF Hopeless THEN Reject("hopeless")
       ELSE /\ tx' = [tx EXCEPT !.hints = hints, !.maxRate = MaxRate(tx.amount),
                                !.gasLimit = call.gasLimit]
            /\ phase' = IF call.gasLimit = Absent THEN "estimating" ELSE "populated"
            /\ UNCHANGED <<chain, call, got, hints, gas, mined, promise, since, news>>

\* The two estimates of a loan are made together, any other is alone.
Estimates == IF Borrows(call) THEN {"now", "later"} ELSE {"now"}

Estimated(which) ==
    IF which = "later"
    THEN [tx EXCEPT !.change = [@ EXCEPT !.borrowDebtToken = SimulatingDecay]] ELSE tx

Estimate(which) ==
    /\ phase = "estimating" /\ which \in Estimates /\ gas[which] = Absent
    /\ \E result \in {Execute(chain, Estimated(which))} :
          IF ~result.ok THEN Reject("estimate")
          ELSE /\ gas' = [gas EXCEPT ![which] = result.gas]
               /\ IF \A e \in Estimates : gas'[e] # Absent
                  THEN /\ tx' = [tx EXCEPT !.gasLimit = GasLimit(call, gas')]
                       /\ phase' = "populated"
                  ELSE UNCHANGED <<tx, phase>>
               /\ UNCHANGED <<chain, call, got, hints, mined, promise, since, news>>

IsTruncated == Redeems(call) /\ tx.amount < tx.attempted

\* Mutant: the increase is by the minimum debt, the reserve included.
IncreasedByDebt(amount) == amount + MINIMUM_DEBT

Increased(amount) == amount + MINIMUM_NET_DEBT

\* increaseAmountByMinimumNetDebt(): without hints for a partial redemption.
Increase ==
    /\ phase = "populated" /\ IsTruncated
    /\ LET amount == Increased(tx.amount)
       IN tx' = [tx EXCEPT !.amount = amount, !.attempted = amount, !.ratio = 0,
                           !.hints = <<0, 0>>, !.maxRate = MaxRate(amount),
                           !.gasLimit = call.gasLimit]
    /\ gas' = NoGas
    /\ phase' = IF call.gasLimit = Absent THEN "estimating" ELSE "populated"
    /\ UNCHANGED <<chain, call, got, hints, mined, promise, since, news>>

\* sendTransaction() of the signer, which may refuse.
Send ==
    /\ phase = "populated"
    /\ phase' = "sent"
    /\ UNCHANGED <<chain, call, got, hints, gas, tx, mined, promise, since, news>>

Deny == phase = "populated" /\ Reject("denied")

Mine(fate) ==
    /\ phase = "sent"
    /\ \E result \in {Run(chain, tx)} :
             IF Supplanted(fate)
             THEN /\ mined' = [fate |-> fate, why |-> "", logs |-> <<>>, before |-> chain]
                  /\ UNCHANGED chain
             ELSE /\ RawStatus(fate) = result.ok
                  /\ mined' = [fate |-> fate, why |-> result.why,
                               logs |-> result.logs, before |-> chain]
                  /\ chain' = result.chain
    /\ phase' = "mined"
    /\ UNCHANGED <<call, got, hints, gas, tx, promise, since, news>>

\* The callers take the first of the events.
FirstOf(logs, found) == logs[CHOOSE i \in found : \A j \in found : i <= j]

\* Mutant: the logs are not filtered by the contract's address.
ExtractByName(logs, address, name) ==
    FirstOf(logs, {i \in DOMAIN logs : logs[i].name = name}).args

\* extractEvents(): the first log of that contract with that name.
Extract(logs, address, name) ==
    FirstOf(logs, {i \in DOMAIN logs :
                     logs[i].address = address /\ logs[i].name = name}).args

Parse(function, logs) ==
    CASE function \in {"openTrove", "adjustTrove"} ->
            <<Extract(logs, "borrowerOperations", "TroveUpdated"),
              Extract(logs, "borrowerOperations", "DebtTokenBorrowingFeePaid")>>
      [] function = "closeTrove" ->
            <<Extract(logs, "activePool", "FILSent"),
              Extract(logs, "debtToken", "Transfer")>>
      [] function = "transferCollateralGainToTrove" ->
            <<Extract(logs, "borrowerOperations", "TroveUpdated"),
              Extract(logs, "stabilityPool", "FILGainWithdrawn")>>
      [] function = "redeemDebtToken" -> <<Extract(logs, "troveManager", "Redemption")>>
      [] OTHER -> <<>>

\* waitForSuccess()
Settle ==
    /\ phase = "mined"
    /\ phase' = "settled"
    /\ LET receipt == WaitForReceipt(mined.fate)
       IN promise' =
            CASE receipt = "succeeded" ->
                    [status |-> "resolved", why |-> "",
                     details |-> Parse(call.function, mined.logs)]
              [] receipt = "failed" -> Rejected("EthersTransactionFailedError")
              [] OTHER -> Rejected(receipt)
    /\ UNCHANGED <<chain, call, got, hints, gas, tx, mined, since, news>>

\* The receipt cannot be had: wait() throws something else.
LoseReceipt == phase \in {"sent", "mined"} /\ Reject("connection")

-----------------------------------------------------------------------------
(* The chain meanwhile                                                     *)

Differ(c, d) ==
    {o \in Owners(c) \cup Owners(d) :
        ~(o \in Owners(c) /\ o \in Owners(d) /\ c.troves[o] = d.troves[o])}

Happens(c) ==
    /\ phase \notin {"idle", "mined", "settled"}
    /\ chain' = c
    /\ since' = [since EXCEPT
                    !.touched = @ \cup Differ(chain, c),
                    !.raised  = @ \/ BaseRate(Fees(c), c.minute)
                                        > BaseRate(Fees(chain), chain.minute),
                    !.priced  = @ \/ c.price # chain.price,
                    !.mode    = @ \/ RecoveryMode(c) # RecoveryMode(chain)]
    /\ UNCHANGED <<call, phase, got, hints, gas, tx, mined, promise>>

Tick ==
    /\ chain.minute < MaxMinute
    /\ Happens([chain EXCEPT !.minute = @ + 1])
    /\ UNCHANGED news

IsNews == news < MaxNews /\ news' = news + 1

\* Somebody else opens or adjusts a Trove, and borrows; or closes it.
Elsewhere(o, t) ==
    /\ IsNews
    /\ o # Own
    /\ o \in Owners(chain) => chain.troves[o] # t
    /\ Happens(With(FeeOperation(chain, BaseRate(Fees(chain), chain.minute)), o, t))

CloseElsewhere(o) ==
    /\ IsNews
    /\ o \in Owners(chain) \ {Own}
    /\ Happens(Without(chain, o))

RedeemElsewhere ==
    /\ IsNews
    /\ \E result \in {Redeem(chain, [amount |-> RedeemedElsewhere, ratio |-> 0,
                                      maxRate |-> ONE, hints |-> <<0, 0>>])} :
           result.ok /\ Happens(result.chain)

PriceMoves(price) ==
    IsNews /\ price # chain.price /\ Happens([chain EXCEPT !.price = price])

\* A liquidation: gains for the deposits, and tokens to issue.
LiquidateElsewhere ==
    /\ IsNews
    /\ Happens([chain EXCEPT !.gain = @ + GainStep, !.due = TRUE])

World ==
    \/ Tick \/ RedeemElsewhere \/ LiquidateElsewhere
    \/ \E o \in DOMAIN NewTroves : Elsewhere(o, NewTroves[o]) \/ CloseElsewhere(o)
    \/ \E p \in Prices : PriceMoves(p)

Init ==
    /\ chain \in FirstChains
    /\ call = [function |-> "", change |-> NoChange, amount |-> 0,
               maxRate |-> Absent, minutes |-> 0, gasLimit |-> Absent]
    /\ phase = "idle"
    /\ got = <<>>
    /\ hints = <<0, 0>>
    /\ gas = NoGas
    /\ tx = NoTx
    /\ mined = [fate |-> "", why |-> "", logs |-> <<>>, before |-> chain]
    /\ promise = Pending
    /\ since = [start |-> 0, touched |-> {}, raised |-> FALSE, priced |-> FALSE,
                mode |-> FALSE]
    /\ news = 0

Next ==
    \/ \E c \in Calls : Begin(c)
    \/ \E name \in {"fees", "timestamp", "total", "price", "trove", "deposit"} :
            Answer(name)
    \/ Truncate \/ StartSearch \/ Count \/ Search \/ Jump \/ Prepare
    \/ \E which \in {"now", "later"} : Estimate(which)
    \/ Increase \/ Send \/ Deny
    \/ \E fate \in Fates : Mine(fate)
    \/ Settle \/ LoseReceipt
    \/ World

Spec == Init /\ [][Next]_vars

-----------------------------------------------------------------------------
(* Properties                                                              *)

Mined == phase = "mined" /\ ~Supplanted(mined.fate)

\* A transaction that was populated with the SDK's own limits and estimates
\* fails on the chain only for what they are not meant to cover: more time than
\* the tolerance (addGasForBaseRateUpdate, gasLater), a Trove next to its place
\* that moved (addGasForPotentialListTraversal), a higher rate (slippage), a
\* price or a mode that changed.  The limit covers the decay or some steps in the
\* list, not both together.  Running out of gas when an issuance or a
\* reward falls due, or because the fee decays while it is pending, is not one.
Late == mined.before.minute >
            (IF "timestamp" \in DOMAIN got THEN got.timestamp ELSE since.start)
                + call.minutes

Waited == "timestamp" \in DOMAIN got /\ mined.before.minute > got.timestamp

Excuse(why) ==
    CASE why = "gas"     -> Late \/ since.mode \/ since.raised
                                \/ \E i \in {1, 2} : tx.hints[i] \in since.touched
                                \/ (Waited /\ since.touched # {})
      [] why = "fee"     -> since.raised \/ since.mode \/ call.maxRate # Absent
                                \/ (Redeems(call) /\ since.touched # {})
      [] why = "debt"    -> Late \/ since.mode \/ Own \in since.touched
      [] why = "ratio"   -> since.priced \/ since.mode \/ since.touched # {}
      [] why = "status"  -> since.touched # {} \/ since.mode
      [] why = "nothing" -> since.touched # {} \/ since.priced

FailsForAReason ==
    Mined /\ ~RawStatus(mined.fate) /\ call.gasLimit = Absent => Excuse(mined.why)

\* What a populated redemption calls redeemable is what it redeems, unless
\* another's transaction or the price came between; an increased one may only
\* come short when there is no Trove left for the increase.
NoneLeft(c, actual) ==
    Cardinality(Clearing(c, c.price, actual).cleared)
        = Smaller(Cardinality(Redeemable(c, c.price)), redeemMaxIterations)

RedeemsWhatIsRedeemable ==
    Mined /\ RawStatus(mined.fate) /\ Redeems(call)
          /\ since.touched = {} /\ ~since.priced
    => LET actual == Parse("redeemDebtToken", mined.logs)[1]
       IN \/ actual = tx.amount
          \/ /\ tx.amount < call.amount + MINIMUM_NET_DEBT
             /\ actual = tx.amount - MINIMUM_NET_DEBT
             /\ NoneLeft(mined.before, actual)

\* The hints of a reinsertion, of a Trove that keeps some debt, never name the
\* Trove that is reinserted, and are address(0) only when there is no other one:
\* unless the list moved while it was searched, the contract inserts at them
\* without a walk.  (It refuses to open a second Trove, whatever the hints.)
HintsAreUsable ==
    phase = "populated" /\ ~Redeems(call) /\ Needs(call) # {} /\ since.touched = {}
          /\ HintedRatio # INFINITY
          /\ (call.function = "openTrove" => Own \notin Owners(chain))
    => /\ OwnAddress # AddressZero => OwnAddress \notin {hints[1], hints[2]}
       /\ Owners(chain) \ {Own} # {} => AddressZero \notin {hints[1], hints[2]}
       /\ \E h \in {hints, <<AddressZero, hints[2]>>, <<hints[1], AddressZero>>} :
              Hops(Without(chain, Own), HintedRatio, h) = 0

\* The promise of a call resolves only when its own transaction was mined and
\* succeeded, with the Trove that it left on the chain and not the one expected
\* when it was prepared.  It is rejected as failed only when the transaction was
\* mined and reverted, as cancelled only when nothing happened; for want of a
\* receipt it is rejected as neither.
PromiseTellsTheTruth ==
    /\ promise.status = "resolved" \/ promise.why = "EthersTransactionFailedError"
       => /\ ~Supplanted(mined.fate)
          /\ Run(mined.before, tx).ok = (promise.status = "resolved")
    /\ promise.why = "EthersTransactionCancelledError" =>
            chain = mined.before
    /\ promise.status = "resolved"
          /\ call.function \in {"openTrove", "adjustTrove",
                                "transferCollateralGainToTrove"}
       => promise.details[1] = chain.troves[Own]

\* PopulatableProtocol.ts on increaseAmountByMinimumNetDebt(): without a rate
\* of its own "the current redemption rate (based on the increased amount) plus
\* 0.1% is used as maximum acceptable rate".  The code does not keep this: the
\* increase uses the fees and the total that were read for the original.
IncreaseUsesCurrentRate ==
    [][phase = "populated" /\ phase' = "estimating" /\ call.maxRate = Absent
       => tx'.maxRate =
            Smaller(RedemptionRate(Fees(chain), Div(tx'.amount, Total(chain).debt),
                                   chain.minute)
                        + defaultRedemptionRateSlippageTolerance, ONE)]_vars
=============================================================================
