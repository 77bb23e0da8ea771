------------------------------ MODULE Subgraph -------------------------------
(***************************************************************************)
(* The subgraph following the contracts.  A call of a user changes the     *)
(* contracts' books at once and queues its events; Index has the indexer   *)
(* handle the next one.  Blocks are indexed as a whole before they can be  *)
(* queried, so a query (and the next call, which needs no interleaving:    *)
(* handlers look at nothing but events and entities) finds no event left.  *)
(* A client of lib-subgraph fetches a trove with two queries that may be   *)
(* answered at different blocks.                                           *)
(***************************************************************************)
EXTENDS ProtocolContracts

CONSTANTS Enabled,       \* the calls this instance explores
          StakeSizes, DebtSizes, Fees, PoolSizes, Prices, Gains, Values,
          MaxCalls,      \* bound: calls of users and price movements
          FirstQuery,    \* bound: a client asks after this many calls
          TokenCalls     \* bound: tokens move among the first so many calls

\* What the contracts let through: no empty trove and no negative amount.
ASSUME SubgraphAssumption ==
    /\ IsFiniteSet(Users)
    /\ Unit \in Nat \ {0}
    /\ StakeSizes \union DebtSizes \subseteq Nat \ {0}
    /\ PoolSizes \union Values \union Gains \subseteq Nat

VARIABLES books,         \* the contracts' own state
          events,        \* emitted, not yet indexed
          db,            \* the subgraph's store
          calls,         \* number of transactions so far
          last,          \* the last call: its name and the troves it closes or changes
          client         \* one getTrove() of a client

vars == <<books, events, db, calls, last, client>>

NoAnswer == [status |-> "unanswered"]
NoQuery == [user |-> Nobody, trove |-> NoAnswer, total |-> NoAnswer, true |-> {}]

Init ==
    /\ \E p \in Prices : books = NewBooks(p)
    /\ events = <<>>
    /\ db = EmptyStore
    /\ calls = 0
    /\ last = [call |-> "none", users |-> {}]
    /\ client = NoQuery

-----------------------------------------------------------------------------
(* Calls of users.                                                          *)

\* What getTrove() could truly answer while the client waits.
Witnessed(b) ==
    IF client.user = Nobody THEN client
    ELSE [client EXCEPT !.true = @ \union {Entire(b, client.user)}]

Call(name, users, outcome) ==
    /\ name \in Enabled
    /\ calls < MaxCalls
    /\ events = <<>>
    /\ calls' = calls + 1
    /\ books' = outcome.books
    /\ events' = outcome.events
    /\ last' = [call |-> name, users |-> users]
    /\ client' = Witnessed(outcome.books)
    /\ UNCHANGED db

Open(u) == books.troves[u].stake # 0

OpenTrove(u) ==
    /\ ~Open(u)
    /\ \E s \in StakeSizes, d \in DebtSizes, fee \in Fees :
          Call("trove", {u}, PutTrove(books, calls, u, "openTrove", s, d, fee))

AdjustTrove(u) ==
    /\ Open(u)
    /\ \E s \in StakeSizes, d \in DebtSizes, fee \in Fees :
          /\ [coll |-> s * UnitNow(books), debt |-> d] # Entire(books, u)
          /\ d <= Entire(books, u).debt => fee = 0
          /\ Call("adjust", {u}, PutTrove(books, calls, u, "adjustTrove", s, d, fee))

Close(u) ==
    /\ Open(u)
    /\ Active(books) # {u}
    /\ Call("close", {u}, CloseTrove(books, calls, u))

\* liquidate() and liquidateTroves(): one trove or several, in either mode.
LiquidateCall(us) ==
    /\ \A i \in DOMAIN us : Open(us[i])
    /\ \E op \in {"liquidateInNormalMode", "liquidateInRecoveryMode"} :
          /\ CanRedistribute(LiquidateTroves(books, calls, us, op))
          /\ Call("liquidate", ToSet(us), Liquidate(books, calls, us, op))

RedeemCall(us) ==
    /\ \A i \in DOMAIN us : Open(us[i])
    /\ \/ /\ Active(books) # ToSet(us)
          /\ Call("redeem", ToSet(us), Redeem(books, calls, us, 0, 0))
       \/ \E s \in StakeSizes, d \in DebtSizes :
             /\ s < books.troves[Last(us)].stake
             /\ d < Entire(books, Last(us)).debt
             /\ Call("redeem", ToSet(us), Redeem(books, calls, us, s, d))

ChangeDeposit(u) ==
    \E amount \in PoolSizes, tag \in books.frontends \union {Nobody} :
       /\ amount = Compounded(books, u) => books.gains[u] > 0
       /\ books.deposits[u] = 0 => amount > 0
       /\ tag # Nobody => books.deposits[u] = 0
       /\ Call("deposit", {u}, SetDeposit(books, calls, u, amount, tag))

MoveGainToTrove(u) ==
    /\ Open(u) /\ books.gains[u] > 0
    /\ \E s \in StakeSizes :
          /\ s > books.troves[u].stake
          /\ Call("gain", {u}, GainToTrove(books, calls, u, s))

Claim(u) ==
    /\ books.surplus[u] > 0
    /\ Call("claim", {u}, ClaimSurplus(books, calls, u))

ChangeStake(u) ==
    \E amount \in Values \union {0}, gain \in Gains :
       /\ gain > 0 => books.staked[u] > 0
       /\ amount = books.staked[u] => gain > 0
       /\ Call("stake", {u}, SetStake(books, calls, u, amount, gain))

RegisterCall(u) ==
    /\ u \notin books.frontends
    /\ Call("frontend", {u}, Register(books, calls, u))

Move(from, to) ==
    \E value \in Values :
       /\ from # Nobody => value <= books.balances[from]
       /\ {from, to} # {Nobody}
       /\ calls < TokenCalls
       /\ Call("token", {}, Transfer(books, calls, from, to, value))

ApproveCall(owner, spender) ==
    \E value \in Values :
       /\ calls < TokenCalls
       /\ Call("token", {}, Approve(books, calls, owner, spender, value))

\* The market moves; the contracts report it with the next call that asks.
PriceMoves ==
    /\ "price" \in Enabled
    /\ events = <<>>
    /\ calls < MaxCalls
    /\ \E p \in Prices \ {books.price} : books' = [books EXCEPT !.price = p]
    /\ calls' = calls + 1
    /\ UNCHANGED <<events, db, last, client>>

-----------------------------------------------------------------------------
(* The indexer and the client.                                              *)

Index ==
    /\ events # <<>>
    /\ db' = Handle(db, Head(events))
    /\ events' = Tail(events)
    /\ UNCHANGED <<books, calls, last, client>>

\* getTrove(): both queries leave at the same time.
Ask(u) ==
    /\ calls >= FirstQuery
    /\ client.user = Nobody
    /\ events = <<>>
    /\ client' = [NoQuery EXCEPT !.user = u, !.true = {Entire(books, u)}]
    /\ UNCHANGED <<books, events, db, calls, last>>

AnswerTrove ==
    /\ client.user # Nobody /\ client.trove = NoAnswer
    /\ events = <<>>
    /\ client' = [client EXCEPT !.trove = db.troves[client.user]]
    /\ UNCHANGED <<books, events, db, calls, last>>

AnswerTotal ==
    /\ client.user # Nobody /\ client.total = NoAnswer
    /\ events = <<>>
    /\ client' = [client EXCEPT !.total =
                    [status |-> "answered",
                     collateral |-> db.global.rawTotalRedistributedCollateral,
                     debt |-> db.global.rawTotalRedistributedDebt]]
    /\ UNCHANGED <<books, events, db, calls, last>>

Next ==
    \/ \E u \in Users :
          \/ OpenTrove(u) \/ AdjustTrove(u) \/ Close(u)
          \/ ChangeDeposit(u) \/ MoveGainToTrove(u) \/ Claim(u)
          \/ ChangeStake(u) \/ RegisterCall(u) \/ Ask(u)
    \/ \E u, v \in Users :
          \E us \in {<<u>>, <<u, v>>} :
             /\ Len(us) = 2 => u # v
             /\ LiquidateCall(us) \/ RedeemCall(us)
    \/ \E u, v \in Users \union {Nobody} : Move(u, v)
    \/ \E u, v \in Users : ApproveCall(u, v)
    \/ PriceMoves
    \/ Index
    \/ AnswerTrove \/ AnswerTotal

Spec == Init /\ [][Next]_vars

-----------------------------------------------------------------------------
(* Properties.                                                              *)

Indexed == events = <<>>

\* The totals a query finds are the contracts' own: over every call, the
\* debt and collateral of all troves (with what was redistributed to them),
\* the pool, the surplus and the stakes, which the handlers only follow by
\* adding differences and by replaying what a liquidation takes from the pool
\* (entities/SystemState.ts).
TotalsAreTheContracts ==
    Indexed =>
        /\ db.state.totalCollateral = Total([u \in Users |-> Entire(books, u).coll], Users)
        /\ db.state.totalDebt = Total([u \in Users |-> Entire(books, u).debt], Users)
        /\ db.state.tokensInStabilityPool = PoolSize(books)
        /\ db.state.collSurplusPoolBalance = Total(books.surplus, Users)
        /\ db.state.totalProtocolTokensStaked = Total(books.staked, Users)

\* A trove read at one block, with the redistribution of that block applied
\* as the client does, is the trove the contracts have, closed the way it was.
TroveIsTheContracts ==
    Indexed => \A u \in Users :
        LET t == db.troves[u]
        IN /\ t.status = books.closedBy[u]
           /\ t.collateral + Redistribution(t, t.snapshotCollateral,
                  db.global.rawTotalRedistributedCollateral) = Entire(books, u).coll
           /\ t.debt + Redistribution(t, t.snapshotDebt,
                  db.global.rawTotalRedistributedDebt) = Entire(books, u).debt

\* Ordering open troves by collateralRatioSortKey orders them by debt per
\* collateral, however long ago each was last updated (SubgraphSfStablecoin.ts
\* reads pages in this order): a smaller key means less debt per collateral, and
\* less debt per collateral a smaller key unless the other key was rounded down.
SortKeyOrdersByRatio ==
    Indexed => \A u, v \in Active(books) :
        LET p == Entire(books, u)
            q == Entire(books, v)
            t == db.troves[v]
            isLess == p.debt * q.coll < q.debt * p.coll
        IN /\ db.troves[u].sortKey < t.sortKey => isLess
           /\ isLess /\ (t.debt * Scaling) % t.rawStake = 0
                 => db.troves[u].sortKey < t.sortKey

WithStatus(status) == Cardinality({u \in Users : db.troves[u].status = status})

\* The counters of Global agree with the statuses of the troves, through
\* opening, closing in each way, and opening again.
CountersCount ==
    Indexed =>
        /\ db.global.numberOfOpenTroves = WithStatus("open")
        /\ db.global.numberOfTrovesClosedByOwner = WithStatus("closedByOwner")
        /\ db.global.numberOfLiquidatedTroves = WithStatus("closedByLiquidation")
        /\ db.global.numberOfRedeemedTroves = WithStatus("closedByRedemption")
        /\ db.global.totalNumberOfTroves = Cardinality(Users) - WithStatus("nonExistent")

\* "Only used internally as temporary storage. Will always be null in queries"
\* (schema.graphql): no call leaves a liquidation, a redemption or half of a
\* deposit's update behind.
TemporariesAreNull ==
    Indexed => /\ db.global.currentLiquidation = Null
               /\ db.global.currentRedemption = Null
               /\ db.global.tmpDepositUpdate = Null

\* The other accounts are the contracts' as well: a deposit is what they have
\* recorded, less the losses taken out of it, under the frontend its owner was
\* tagged with, whichever of the two events of a call comes first; the counters
\* of stakes count who ever staked and who does now; balances are the token's
\* and add up to its supply.
AccountsAreTheContracts ==
    Indexed =>
        /\ \A u \in Users :
              /\ db.deposits[u].amount = books.deposits[u]
              /\ books.deposits[u] > 0 => db.deposits[u].frontend = books.tags[u]
              /\ db.stakes[u].amount = books.staked[u]
        /\ db.global.totalNumberOfProtocolTokenStakes
              = Cardinality({u \in Users : db.stakes[u].exists})
        /\ db.global.numberOfActiveProtocolTokenStakes
              = Cardinality({u \in Users : books.staked[u] > 0})
        /\ db.token.balances = books.balances
        /\ db.token.totalSupply = Total(books.balances, Users)

\* What belongs to one call finds each other: when the fee event arrives, the
\* last saved change is a trove change of that borrower and transaction, and
\* after a liquidating or redeeming call the one Liquidation or Redemption of
\* that call has exactly the changes of its troves, and no earlier ones.
ChangesFindTheirCall ==
    /\ (events # <<>> /\ Head(events).name = "DebtTokenBorrowingFeePaid") =>
          /\ db.change.kind = "trove"
          /\ db.change.owner = Head(events).user
          /\ db.change.transaction = db.global.transactionCount - 1
    /\ Indexed /\ last.call = "liquidate" => db.liquidation.troves = last.users
    /\ Indexed /\ last.call = "redeem" => db.redemption.troves = last.users

\* Changes are numbered without gaps and form a chain: a change starts in the
\* system state the one before it ended in, ends in the next one, and that is
\* the current state; no state comes without a change but the first.
ChangesAreAChain ==
    LET g == db.global
    IN /\ g.systemStateCount = g.changeCount + (IF g.currentSystemState = Null THEN 0 ELSE 1)
       /\ g.changeCount > 0 =>
            /\ db.change.id = g.changeCount - 1
            /\ db.change.before = db.change.id
            /\ db.change.after = db.change.id + 1
            /\ g.currentSystemState = db.change.after

\* TroveWithPendingRedistribution.applyRedistribution().
Applied(amount, snapshot, total, stake) ==
    amount + (IF total > snapshot THEN ((total - snapshot) * stake) \div Scaling ELSE 0)

\* A getTrove() answers with a trove the contracts had while it was waiting
\* ("Get the current state of a Trove", lib-base/src/ReadableProtocol.ts).  The
\* code does not keep this: the trove and the total redistribution come from
\* two queries that may be answered for different blocks.
AnswerIsTrue ==
    (client.trove # NoAnswer /\ client.total # NoAnswer) =>
        LET t == client.trove
        IN [coll |-> Applied(t.collateral, t.snapshotCollateral,
                             client.total.collateral, t.rawStake),
            debt |-> Applied(t.debt, t.snapshotDebt, client.total.debt, t.rawStake)]
           \in client.true
=============================================================================
