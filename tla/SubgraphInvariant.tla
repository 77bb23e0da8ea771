-------------------------- MODULE SubgraphInvariant --------------------------
(***************************************************************************)
(* The inductive invariant of Subgraph, IInv at the end of the module, and *)
(* the words its proof is written in.  Between two events the store may be *)
(* anywhere inside a call; what is invariant is that handling the events   *)
(* that are left, one after the other, leads to a store that Follows the   *)
(* contracts' books.                                                       *)
(***************************************************************************)
EXTENDS Subgraph

-----------------------------------------------------------------------------
(* The shape of a store.  Handlers only ever replace fields, so what one of *)
(* them leaves alone is read off the fields it names.                       *)

StoreFields ==
    {"global", "state", "transaction", "change", "liquidation", "redemption",
     "troves", "deposits", "stakes", "users", "frontends", "token"}

ChainKeys == {"systemStateCount", "transactionCount", "changeCount", "currentSystemState"}

TroveCounters ==
    {"numberOfOpenTroves", "numberOfLiquidatedTroves", "numberOfRedeemedTroves",
     "numberOfTrovesClosedByOwner", "totalNumberOfTroves"}

OtherKeys ==
    {"liquidationCount", "redemptionCount",
     "totalNumberOfProtocolTokenStakes", "numberOfActiveProtocolTokenStakes",
     "totalBorrowingFeesPaid", "totalRedemptionFeesPaid",
     "rawTotalRedistributedCollateral", "rawTotalRedistributedDebt",
     "currentLiquidation", "currentRedemption", "tmpDepositUpdate"}

GlobalKeys == ChainKeys \union TroveCounters \union OtherKeys

IsStore(d) == /\ d = [f \in StoreFields |-> d[f]]
              /\ d.global = [k \in GlobalKeys |-> d.global[k]]

\* Nothing of the store but the fields F, and nothing of Global but the keys K.
Keeps(d, r, F, K) ==
    /\ IsStore(r)
    /\ \A f \in StoreFields \ (F \union {"global"}) : r[f] = d[f]
    /\ \A k \in GlobalKeys \ K : r.global[k] = d.global[k]

\* Replacing a key of Global.
WithKey(d, k, x) == [d EXCEPT !.global = [d.global EXCEPT ![k] = x]]

-----------------------------------------------------------------------------
(* The chain of changes.  Between two handlers it is whole; inside of one,  *)
(* from beginChange() to finishChange(), it lacks its last change.          *)

\* The fields of a change; ending one fills them in.
ChangeNames == {"id", "kind", "owner", "operation", "transaction", "before", "after",
                "borrowingFee"}

\* The conjuncts of ChangesAreAChain, and what they rest on: the numbers count,
\* and the last transaction is the one with the last number.
ChainInv(d) ==
    LET g == d.global
    IN /\ d.change = [f \in ChangeNames |-> d.change[f]]
       /\ {g.systemStateCount, g.changeCount, g.transactionCount} \subseteq Nat
       /\ g.currentSystemState = g.systemStateCount - 1
       /\ g.systemStateCount = g.changeCount + (IF g.currentSystemState = Null THEN 0 ELSE 1)
       /\ g.changeCount > 0 =>
            /\ d.change.id = g.changeCount - 1
            /\ d.change.before = d.change.id
            /\ d.change.after = d.change.id + 1
       /\ d.transaction.hash # Null => d.transaction.sequenceNumber = g.transactionCount - 1

BegunInv(d, tx) ==
    LET g == d.global
    IN /\ {g.systemStateCount, g.changeCount, g.transactionCount} \subseteq Nat
       /\ g.changeCount > 0
       /\ g.currentSystemState = g.systemStateCount - 1
       /\ g.systemStateCount = g.changeCount
       /\ d.transaction.hash = tx
       /\ d.transaction.sequenceNumber = g.transactionCount - 1

SameChain(d, r) ==
    /\ \A k \in ChainKeys : r.global[k] = d.global[k]
    /\ r.change = d.change
    /\ r.transaction = d.transaction

-----------------------------------------------------------------------------
(* The numbers of the current state.  Until there is one they are zero, as  *)
(* they are in a new state.                                                 *)

TallyNames == {"totalCollateral", "totalDebt", "tokensInStabilityPool",
               "collSurplusPoolBalance", "totalProtocolTokensStaked"}

StateNames == TallyNames \union {"id", "price", "totalCollateralRatio"}

IsState(s) == /\ s = [f \in StateNames |-> s[f]]
              /\ \A f \in TallyNames : s[f] \in Int

HasState(d) ==
    /\ IsState(d.state)
    /\ d.global.currentSystemState = Null =>
          d.state.price = Null /\ \A f \in TallyNames : d.state[f] = 0

\* The price and the numbers of a state, which its id is not one of.
SameNumbers(s, t) == \A f \in TallyNames \union {"price"} : t[f] = s[f]

\* A handler that leaves the numbers alone, one that sets them to those of s,
\* and one that moves each by its part of n.
Steady(d, r) == HasState(r) /\ SameNumbers(d.state, r.state)
Settles(r, s) == HasState(r) /\ SameNumbers(s, r.state)
Moves(d, r, n) ==
    /\ HasState(r)
    /\ r.state.price = d.state.price
    /\ \A f \in TallyNames : n[f] \in Int /\ r.state[f] = d.state[f] + n[f]

Only(f, x) == [g \in TallyNames |-> IF g = f THEN x ELSE 0]

-----------------------------------------------------------------------------
(* Changes of a trove.                                                      *)

TroveNames == {"status", "collateral", "debt", "rawStake", "snapshotCollateral",
               "snapshotDebt", "sortKey"}

ClosedStatuses == {"closedByOwner", "closedByLiquidation", "closedByRedemption"}
Statuses == ClosedStatuses \union {"nonExistent", "open"}

\* The troves of a store, and its last liquidation and redemption.
HasTroves(d) ==
    /\ d.troves = [u \in Users |-> d.troves[u]]
    /\ \A u \in Users : /\ d.troves[u] = [f \in TroveNames |-> d.troves[u][f]]
                        /\ d.troves[u].status \in Statuses

HasCalls(d) ==
    /\ d.liquidation = [f \in {"id", "debt", "collateral", "troves"} |-> d.liquidation[f]]
    /\ d.redemption = [f \in {"id", "attempted", "actual", "troves"} |-> d.redemption[f]]
    /\ {d.global.liquidationCount, d.global.redemptionCount} \subseteq Nat

\* The key of Global that counts the troves of a status.
KeyOf(status) == IF status = "open" THEN "numberOfOpenTroves" ELSE CounterOf(status)

\* One trove goes from a status to another.
Recounts(d, r, old, new) ==
    /\ \A s \in Statuses \ {"nonExistent"} :
          r.global[KeyOf(s)] = d.global[KeyOf(s)] + (IF s = new THEN 1 ELSE 0)
                                                  - (IF s = old THEN 1 ELSE 0)
    /\ r.global.totalNumberOfTroves
          = d.global.totalNumberOfTroves + (IF old = "nonExistent" THEN 1 ELSE 0)

CountersAreNumbers(d) == \A k \in TroveCounters : d.global[k] \in Int

\* A trove of a liquidating or redeeming call is added to the liquidation or
\* redemption of that call, a new one when none is under way.
Links(d, r, op, u) ==
    /\ IF IsLiquidation(op)
       THEN /\ r.global.currentLiquidation # Null
            /\ r.liquidation.troves = (IF d.global.currentLiquidation # Null
                                       THEN d.liquidation.troves ELSE {}) \union {u}
       ELSE /\ r.global.currentLiquidation = d.global.currentLiquidation
            /\ r.liquidation = d.liquidation
    /\ IF IsRedemption(op)
       THEN /\ r.global.currentRedemption # Null
            /\ r.redemption.troves = (IF d.global.currentRedemption # Null
                                      THEN d.redemption.troves ELSE {}) \union {u}
       ELSE /\ r.global.currentRedemption = d.global.currentRedemption
            /\ r.redemption = d.redemption

CallKeys == {"liquidationCount", "redemptionCount", "currentLiquidation", "currentRedemption"}

IsNoop(d, u, coll, debt) == coll = d.troves[u].collateral /\ debt = d.troves[u].debt

\* The trove that a change stores.
Stored(d, status, coll, debt, stake) ==
    LET g == d.global
    IN [status |-> status, collateral |-> coll, debt |-> debt, rawStake |-> stake,
        snapshotCollateral |-> IF stake = 0 THEN 0 ELSE g.rawTotalRedistributedCollateral,
        snapshotDebt |-> IF stake = 0 THEN 0 ELSE g.rawTotalRedistributedDebt,
        sortKey |-> IF stake = 0 THEN 0
                    ELSE (debt * Scaling) \div stake - g.rawTotalRedistributedDebt]

\* The numbers after a change of the trove of u.
TroveTallied(d, r, op, u, coll, debt) ==
    \E s : /\ IsState(s) /\ SameNumbers(d.state, s)
           /\ LET next == StateAfterTroveChange(s, op, d.troves[u], coll, debt)
              IN IsState(next) => Settles(r, next)

\* Any other event: the trove is stored with its snapshots, the counters follow
\* its status, the change is the last of the chain and finds its call.
TroveWritten(d, r, op, u, coll, debt, stake) ==
    LET new == StatusAfter(op, coll)
    IN /\ Keeps(d, r, {"state", "transaction", "change", "liquidation",
                       "redemption", "troves"},
                ChainKeys \union TroveCounters \union CallKeys)
       /\ ChainInv(r)
       /\ r.troves = [d.troves EXCEPT ![u] = Stored(d, new, coll, debt, stake)]
       /\ HasTroves(r)
       /\ Recounts(d, r, d.troves[u].status, new)
       /\ HasCalls(r)
       /\ Links(d, r, op, u)
       /\ r.change.kind = "trove"
       /\ r.change.owner = u
       /\ r.change.transaction = r.global.transactionCount - 1
       /\ HasState(d) => TroveTallied(d, r, op, u, coll, debt)

-----------------------------------------------------------------------------
(* The other handlers.                                                      *)

\* The entities of an account.
HasAccounts(d) ==
    /\ d.deposits = [u \in Users |-> [amount   |-> d.deposits[u].amount,
                                      frontend |-> d.deposits[u].frontend]]
    /\ d.users = [u \in Users |-> [collSurplus |-> d.users[u].collSurplus,
                                   frontend    |-> d.users[u].frontend]]
    /\ d.stakes = [u \in Users |-> [amount |-> d.stakes[u].amount,
                                    exists |-> d.stakes[u].exists]]
    /\ d.token = [totalSupply |-> d.token.totalSupply, balances |-> d.token.balances,
                  allowances |-> d.token.allowances]

ChangeFields == {"state", "transaction", "change"}

WithAmount(deposits, u, amount) == [deposits EXCEPT ![u] = [@ EXCEPT !.amount = amount]]

\* What the deposit of a user becomes; the others stay.
DepositIs(d, r, u, amount, frontend) ==
    r.deposits = [d.deposits EXCEPT ![u] = [amount |-> amount, frontend |-> frontend]]

\* An amount that differs from the one so far is stored with the frontend that
\* the owner has been tagged with.
TagFor(d, u, old, amount) ==
    IF amount = old THEN d.deposits[u].frontend ELSE d.users[u].frontend

\* What the stake of a user becomes; the others stay.
StakeIs(d, r, u, amount) ==
    r.stakes = [d.stakes EXCEPT ![u] = [amount |-> amount, exists |-> TRUE]]

StakeCounters == {"totalNumberOfProtocolTokenStakes", "numberOfActiveProtocolTokenStakes"}

-----------------------------------------------------------------------------
(* The numbers that the handlers of accounts move.                          *)

Pooled(n) == Only("tokensInStabilityPool", n)

Staked(n) == Only("totalProtocolTokensStaked", n)

-----------------------------------------------------------------------------
(* Sums over a finite set.  FoldFunctionOnSet() takes one element after the *)
(* other off the set; that there is a function that does so, on all of its  *)
(* subsets, is what gives the sum a value.                                  *)

Pick(s) == CHOOSE x \in s : TRUE

\* One round of the recursion.
Summed(g, f, s) == IF s = {} THEN 0 ELSE f[Pick(s)] + g[s \ {Pick(s)}]

AtMost(S, n) == {s \in SUBSET S : Cardinality(s) <= n}

Sums(g, f, D) == g = [s \in D |-> Summed(g, f, s)]

SumsOn(f, S) == CHOOSE g : Sums(g, f, SUBSET S)

-----------------------------------------------------------------------------
(* What is true of the contracts' books between two calls.                  *)

BookNames == {"price", "lColl", "lDebt", "troves", "closedBy", "deposits", "losses", "gains",
              "tags", "frontends", "surplus", "staked", "balances", "allowances"}

\* A redistribution adds a whole amount per unit of stake.
IsTerm(l) == \E k \in Nat : l = k * Scaling

\* From the term n to the term l a stake of s gains m per unit of it.
Gained(l, n, s, m) ==
    /\ l = n + m * Scaling
    /\ l \div Scaling = n \div Scaling + m
    /\ (s * (l - n)) \div Scaling = s * m /\ s * m \in Nat

TroveTerms == {"coll", "debt", "stake", "snapColl", "snapDebt"}

\* An open trove has what its stake is worth at its snapshots, and a debt.
IsBooked(b, t) ==
    /\ t = [f \in TroveTerms |-> t[f]]
    /\ \A f \in TroveTerms : t[f] \in Nat
    /\ IF t.stake = 0 THEN t = Closed
       ELSE /\ t.coll = t.stake * (Unit + t.snapColl \div Scaling)
            /\ t.debt > 0
            /\ IsTerm(t.snapColl) /\ IsTerm(t.snapDebt)
            /\ t.snapColl <= b.lColl /\ t.snapDebt <= b.lDebt

TrovesBooked(b) ==
    /\ {b.lColl, b.lDebt} \subseteq Nat
    /\ IsTerm(b.lColl) /\ IsTerm(b.lDebt)
    /\ b.troves = [u \in Users |-> b.troves[u]]
    /\ b.closedBy = [u \in Users |-> b.closedBy[u]]
    /\ \A u \in Users :
          /\ IsBooked(b, b.troves[u])
          /\ b.closedBy[u] \in Statuses
          /\ b.closedBy[u] = "open" <=> b.troves[u].stake # 0

\* No depositor loses more than was deposited.
PoolBooked(b) ==
    /\ {b.deposits, b.losses} \subseteq [Users -> Nat]
    /\ \A u \in Users : b.losses[u] <= b.deposits[u]
    /\ b.gains = [u \in Users |-> b.gains[u]]
    /\ b.tags = [u \in Users |-> b.tags[u]]

AccountsBooked(b) ==
    /\ b.staked \in [Users -> Nat]
    /\ b.balances \in [Users -> Int]

BooksInv(b) ==
    /\ b = [f \in BookNames |-> b[f]]
    /\ TrovesBooked(b)
    /\ PoolBooked(b)
    /\ AccountsBooked(b)

-----------------------------------------------------------------------------
(* The totals: each is the sum of what the users have a part in.  While a   *)
(* liquidation goes through its troves, what it will redistribute, owed to  *)
(* nobody yet, is in the totals as well.                                    *)

Parts(b) ==
    [totalCollateral          |-> [u \in Users |-> Entire(b, u).coll],
     totalDebt                |-> [u \in Users |-> Entire(b, u).debt],
     tokensInStabilityPool    |-> [u \in Users |-> Compounded(b, u)],
     collSurplusPoolBalance   |-> [u \in Users |-> b.surplus[u]],
     totalProtocolTokensStaked |-> [u \in Users |-> b.staked[u]]]

Moved(coll, debt) == [f \in TallyNames |-> IF f = "totalCollateral" THEN coll
                                           ELSE IF f = "totalDebt" THEN debt ELSE 0]

Tallied(d, b, coll, debt) ==
    /\ HasState(d)
    /\ b.surplus \in [Users -> Int]
    /\ \A u \in Users : d.users[u].collSurplus = b.surplus[u]
    /\ \A f \in TallyNames :
          /\ \A u \in Users : Parts(b)[f][u] \in Int
          /\ d.state[f] = Total(Parts(b)[f], Users) + Moved(coll, debt)[f]

-----------------------------------------------------------------------------
(* A store that has followed the books: what is true of it when no event is *)
(* left.                                                                    *)

\* The key that the trove is sorted by was right when it was written.
SortKey(x) == (x.debt * Scaling) \div x.stake - x.snapDebt

TroveFollows(t, b, u) ==
    /\ t.status = b.closedBy[u]
    /\ t.collateral = b.troves[u].coll
    /\ t.debt = b.troves[u].debt
    /\ t.rawStake = b.troves[u].stake
    /\ t.snapshotCollateral = b.troves[u].snapColl
    /\ t.snapshotDebt = b.troves[u].snapDebt
    /\ b.troves[u].stake # 0 => t.sortKey = SortKey(b.troves[u])

With(d, status) == {u \in Users : d.troves[u].status = status}

CountersFollow(d) ==
    /\ \A s \in Statuses \ {"nonExistent"} : d.global[KeyOf(s)] = Cardinality(With(d, s))
    /\ d.global.totalNumberOfTroves = Cardinality(Users) - Cardinality(With(d, "nonExistent"))

TroveSide(d, b) ==
    /\ HasTroves(d)
    /\ CountersFollow(d)
    /\ \A u \in Users : TroveFollows(d.troves[u], b, u)
    /\ d.global.rawTotalRedistributedCollateral = b.lColl
    /\ d.global.rawTotalRedistributedDebt = b.lDebt

\* A frontend counts from the next time there is a deposit.
DepositFollows(d, b, u) ==
    /\ d.deposits[u].amount = b.deposits[u]
    /\ b.deposits[u] > 0 => d.deposits[u].frontend = b.tags[u]
    /\ d.users[u].frontend = b.tags[u]

DepositSide(d, b) ==
    /\ \A u \in Users : DepositFollows(d, b, u)
    /\ d.frontends = b.frontends

StakeSide(d, b) ==
    /\ \A u \in Users : /\ d.stakes[u].exists \in BOOLEAN
                        /\ d.stakes[u].amount = b.staked[u]
                        /\ b.staked[u] > 0 => d.stakes[u].exists
    /\ d.global.totalNumberOfProtocolTokenStakes
          = Cardinality({u \in Users : d.stakes[u].exists})
    /\ d.global.numberOfActiveProtocolTokenStakes
          = Cardinality({u \in Users : b.staked[u] > 0})

TokenSide(d, b) ==
    /\ d.token.balances = b.balances
    /\ d.token.totalSupply = Total(b.balances, Users)

\* The liquidation under way has the changes of the troves liq, the redemption
\* those of red: there is none when that is no trove.
CallSide(d, liq, red) ==
    /\ HasCalls(d)
    /\ IF liq = {} THEN d.global.currentLiquidation = Null
       ELSE d.global.currentLiquidation # Null /\ d.liquidation.troves = liq
    /\ IF red = {} THEN d.global.currentRedemption = Null
       ELSE d.global.currentRedemption # Null /\ d.redemption.troves = red
    /\ d.global.tmpDepositUpdate = Null

Follows(d, b, liq, red) ==
    /\ IsStore(d) /\ ChainInv(d)
    /\ TroveSide(d, b)
    /\ HasAccounts(d) /\ DepositSide(d, b) /\ StakeSide(d, b) /\ TokenSide(d, b)
    /\ CallSide(d, liq, red)
    /\ liq = {} => Tallied(d, b, 0, 0)

-----------------------------------------------------------------------------
(* Queues of events, and the stores on the way from one to another.         *)

IsSeq(s) == \E S : s \in Seq(S)

\* An event meets a store it belongs to: the store's changes form a chain, and
\* a fee finds the trove change it was paid for.
Fits(d, e) ==
    /\ IsStore(d) /\ ChainInv(d)
    /\ e.name = "DebtTokenBorrowingFeePaid" =>
          /\ d.change.kind = "trove"
          /\ d.change.owner = e.user
          /\ d.change.transaction = d.global.transactionCount - 1

\* The indexer comes from store d to store r by handling the events s.
Replays(d, s, r) ==
    /\ IsSeq(s)
    /\ \E trail :
          /\ trail[0] = d
          /\ trail[Len(s)] = r
          /\ \A i \in 1 .. Len(s) : /\ Fits(trail[i - 1], s[i])
                                    /\ trail[i] = Handle(trail[i - 1], s[i])

-----------------------------------------------------------------------------
(* A trove that changes.                                                    *)

\* The books c are the books b with the trove of u written, or emptied, as the
\* event of a trove change tells it.
Puts(b, c, u, status, coll, debt, stake) ==
    /\ c.troves = [b.troves EXCEPT ![u] =
                     [coll |-> coll, debt |-> debt, stake |-> stake,
                      snapColl |-> IF stake = 0 THEN 0 ELSE b.lColl,
                      snapDebt |-> IF stake = 0 THEN 0 ELSE b.lDebt]]
    /\ c.closedBy = [b.closedBy EXCEPT ![u] = status]
    /\ c.lColl = b.lColl /\ c.lDebt = b.lDebt

SameAccounts(b, c) ==
    /\ c.deposits = b.deposits /\ c.tags = b.tags /\ c.frontends = b.frontends
    /\ c.staked = b.staked /\ c.surplus = b.surplus
    /\ c.balances = b.balances

\* The troves of the books, of which little is known between two events.
HasBooks(b) ==
    /\ b.troves = [u \in Users |-> b.troves[u]]
    /\ b.closedBy = [u \in Users |-> b.closedBy[u]]
    /\ {b.lColl, b.lDebt} \subseteq Int

\* The trove of u joins the call that its change belongs to.
InLiquidation(op, liq, u) == IF IsLiquidation(op) THEN liq \union {u} ELSE liq
InRedemption(op, red, u) == IF IsRedemption(op) THEN red \union {u} ELSE red

\* The last change of the store is that of the trove of u.
LastIsOf(d, u) ==
    /\ d.change.kind = "trove"
    /\ d.change.owner = u
    /\ d.change.transaction = d.global.transactionCount - 1

SameUsers(d, r) == r.users = d.users

\* The word of an accrual is what the owner is entitled to; a call that changes
\* a trove has had what was pending applied, and leaves the pool alone.
Fair(b, c, op, u, coll, debt, stake) ==
    /\ {coll, debt, stake} \subseteq Int
    /\ c.losses = b.losses
    /\ \/ op = "accrueRewards" /\ Entire(b, u) = [coll |-> coll, debt |-> debt]
       \/ /\ IsBorrowerOperation(op) \/ IsRedemption(op)
          /\ Entire(b, u) = [coll |-> b.troves[u].coll, debt |-> b.troves[u].debt]

-----------------------------------------------------------------------------
(* The books: what a trove is worth, and which books are left by a call.    *)

IsBooks(b) == b = [f \in BookNames |-> b[f]]

\* The books c are the books b but for the fields F.
BooksKeep(b, c, F) == IsBooks(c) /\ \A f \in BookNames \ F : c[f] = b[f]

WithTrove(b, u, x) == [b EXCEPT !.troves[u] = x]
WithWay(b, u, how) == [b EXCEPT !.closedBy[u] = how]

\* The trove of u is put: its owner has it open.
TrovePut(b, u, coll, debt, stake) ==
    [Written(b, u, coll, debt, stake) EXCEPT !.closedBy[u] = "open"]

\* What is written of a trove is in order: open and worth its stake, or empty.
InOrderAt(b, status, coll, debt, stake) ==
    IF stake = 0 THEN coll = 0 /\ debt = 0 /\ status \in Statuses \ {"open"}
    ELSE /\ stake \in Nat /\ debt \in Nat \ {0}
         /\ coll = stake * UnitNow(b)
         /\ status = "open"

-----------------------------------------------------------------------------
(* The events of troves, replayed.                                          *)

\* Pending rewards leave books c whose trove of u has what it is entitled to,
\* and whatever is put of that trove next can as well be put into b.
Accrued(b, c, u) ==
    /\ IsBooks(c) /\ HasBooks(c)
    /\ c.troves[u].coll = Entire(b, u).coll
    /\ c.troves[u].debt = Entire(b, u).debt
    /\ Entire(c, u) = Entire(b, u)
    /\ c.closedBy[u] = b.closedBy[u]
    /\ SameAccounts(b, c) /\ c.losses = b.losses
    /\ c.lColl = b.lColl
    /\ \A f, status, coll, debt, stake :
          Puts(b, f, u, status, coll, debt, stake) => Puts(c, f, u, status, coll, debt, stake)

-----------------------------------------------------------------------------
(* Calls that go through one trove or two.                                  *)

\* The troves of a call: one, or two different ones, all of them open.
OneOrTwo(us, u, v) == us \in {<<u>>, <<u, v>>} /\ (us = <<u, v>> => u # v)

TrovesOpen(b, us) == \A i \in DOMAIN us : b.troves[us[i]].stake # 0

LiquidationStart(b, tx) ==
    [books |-> b, coll |-> 0, debt |-> 0, allDebt |-> 0, events |-> <<Price(b, tx)>>]

\* One round of the recursion over the positions of us.
LiquidationRound(g, b, tx, us, op, s) ==
    IF s = {} THEN LiquidationStart(b, tx)
    ELSE LiquidateOne(g[s \ {Max(s)}], tx, us[Max(s)], op)

LiquidationRounds(g, b, tx, us, op) ==
    g = [s \in SUBSET DOMAIN us |-> LiquidationRound(g, b, tx, us, op, s)]

RedemptionStart(b, tx) == [books |-> b, actual |-> 0, events |-> <<Price(b, tx)>>]

RedemptionEnd(done, tx) ==
    [books |-> done.books,
     events |-> Append(done.events,
         [name |-> "Redemption", tx |-> tx, attempted |-> done.actual,
          actual |-> done.actual, fee |-> 1])]

RedemptionRound(g, b, tx, us, stake, debt, s) ==
    IF s = {} THEN RedemptionStart(b, tx)
    ELSE RedeemOne(g[s \ {Max(s)}], tx, us[Max(s)], stake,
                   IF us[Max(s)] = Last(us) THEN debt ELSE 0)

RedemptionRounds(g, b, tx, us, stake, debt) ==
    g = [s \in SUBSET DOMAIN us |-> RedemptionRound(g, b, tx, us, stake, debt, s)]

-----------------------------------------------------------------------------
(* Redemptions.                                                             *)

Replaced(f, u, x) == [f EXCEPT ![u] = x]

WithSurplus(b, u, x) == [b EXCEPT !.surplus[u] = x]

\* The books that one trove of a redemption leaves.
RedeemedBooks(b, u, stake, debt) ==
    IF debt = 0
    THEN WithSurplus(ClosedTrove(b, u, "closedByRedemption"), u,
                     ClosedTrove(b, u, "closedByRedemption").surplus[u] + 1)
    ELSE Written(b, u, stake * UnitNow(b), debt, stake)

\* The events of a call up to now have been replayed, and led to the books c.
RedeemedTo(d, step, c, red) ==
    /\ \E r : Replays(d, step.events, r) /\ Follows(r, step.books, {}, red)
    /\ step.books = c

-----------------------------------------------------------------------------
(* The losses of the pool.                                                  *)

\* The i-th depositor's loss, of what those before have left to lose.
LossAt(b, amount, i) ==
    LET order == SetToSeq(Users)
        left == amount - Total([u \in Users |-> Compounded(b, u)],
                               {order[j] : j \in 1 .. (i - 1)})
    IN IF left <= 0 THEN 0
       ELSE IF left < Compounded(b, order[i]) THEN left
       ELSE Compounded(b, order[i])

\* Those before the i-th depositor, and with the i-th.
UpTo(n) == {SetToSeq(Users)[j] : j \in 1 .. n}

-----------------------------------------------------------------------------
(* Liquidations.                                                            *)

\* The rewards that are pending for a trove, written without a stake.
AccruedBooks(b, u, coll, debt) ==
    WithWay(WithTrove(b, u, [coll |-> coll, debt |-> debt, stake |-> 0,
                             snapColl |-> 0, snapDebt |-> 0]), u, "open")

\* What a call leaves to be redistributed: no collateral without a debt.
LeftOver(step) ==
    /\ {step.coll, step.debt, step.allDebt} \subseteq Nat
    /\ step.debt = 0 => step.coll = 0

\* What the pool takes of a trove of a liquidation.
OffsetOf(b, u, op) ==
    LET t == Entire(b, u)
    IN IF ~(~IsRecoveryModeLiquidation(op)
              \/ CalculateCollateralRatio(t.coll, t.debt, b.price) > RatioScale) THEN 0
       ELSE IF t.debt <= PoolSize(b) THEN t.debt ELSE PoolSize(b)

RestOf(b, u) == Entire(b, u).coll - Entire(b, u).coll \div GasDivisor

TakenOf(b, u, op) == (RestOf(b, u) * OffsetOf(b, u, op)) \div Entire(b, u).debt

LiquidatedBooks(b, u, op) ==
    IF OffsetOf(b, u, op) = 0 THEN ClosedTrove(b, u, "closedByLiquidation")
    ELSE TakeLosses(ClosedTrove(b, u, "closedByLiquidation"), OffsetOf(b, u, op),
                    TakenOf(b, u, op))

\* What the handler takes to be offset when a trove t is liquidated.
Offsetting(op, t, price, pool) ==
    IF ~(~IsRecoveryModeLiquidation(op)
           \/ CalculateCollateralRatio(t.collateral, t.debt, price) > RatioScale) THEN 0
    ELSE IF t.debt <= pool THEN t.debt ELSE pool

\* A liquidating call that has come as far as step, through the troves liq.
LiquidatedTo(d, b, step, liq) ==
    /\ \E r : /\ Replays(d, step.events, r) /\ Follows(r, step.books, liq, {})
             /\ Tallied(r, step.books, step.coll, step.debt)
             /\ r.state.price = step.books.price
    /\ BooksKeep(b, step.books, {"troves", "closedBy", "losses", "gains"})
    /\ TrovesBooked(step.books) /\ PoolBooked(step.books)
    /\ LeftOver(step)
    /\ \A v \in Users \ liq : step.books.troves[v] = b.troves[v]

StakesOf(b) == Stakes(b, Active(b))

\* The books with what is left over shared out.
SharedOut(done) ==
    [done.books EXCEPT !.lColl = @ + (done.coll * Scaling) \div StakesOf(done.books),
                       !.lDebt = @ + (done.debt * Scaling) \div StakesOf(done.books)]

-----------------------------------------------------------------------------
(* Deposits: two events of one call, in either order.                       *)

\* The books c are the books b with a new deposit of u, nothing lost of it and
\* nothing gained.
DepositPut(b, c, u, amount) ==
    /\ BooksKeep(b, c, {"deposits", "losses", "gains"})
    /\ c.deposits = [b.deposits EXCEPT ![u] = amount]
    /\ c.losses = [b.losses EXCEPT ![u] = 0]
    /\ c.gains = [b.gains EXCEPT ![u] = 0]

WithDeposit(b, u, amount) ==
    [b EXCEPT !.deposits[u] = amount, !.losses[u] = 0, !.gains[u] = 0]

WithTag(b, u, tag) == [b EXCEPT !.tags[u] = tag]

TagPut(b, c, u, tag) ==
    BooksKeep(b, c, {"tags"}) /\ c.tags = [b.tags EXCEPT ![u] = tag]

\* The books of a call that sets a deposit, with its tag when it is the first.
SetBooks(b, u, amount, tag) ==
    [b EXCEPT !.deposits[u] = amount, !.losses[u] = 0, !.gains[u] = 0, !.tags[u] = tag]

-----------------------------------------------------------------------------
(* The other accounts: one handler each.                                    *)

WithFrontend(b, u) == [b EXCEPT !.frontends = @ \union {u}]

WithAllowance(b, owner, spender, value) ==
    [b EXCEPT !.allowances[<<owner, spender>>] = value]

WithBalances(b, balances) == [b EXCEPT !.balances = balances]

Stakers(d) == {v \in Users : d.stakes[v].exists}
Staking(b) == {v \in Users : b.staked[v] > 0}

\* The counters of Global: a stake is created once and counts while it is not
\* empty.
StakeRecounts(d, r, u, old, amount) ==
    LET operation == GetOperationType(old, amount)
    IN /\ r.global.totalNumberOfProtocolTokenStakes
             = d.global.totalNumberOfProtocolTokenStakes
                 + (IF operation = "stakeCreated" /\ ~d.stakes[u].exists THEN 1 ELSE 0)
       /\ r.global.numberOfActiveProtocolTokenStakes
             = d.global.numberOfActiveProtocolTokenStakes
                 + (IF operation = "stakeCreated" THEN 1 ELSE 0)
                 - (IF operation = "stakeRemoved" THEN 1 ELSE 0)

WithStaked(b, u, amount) == [b EXCEPT !.staked[u] = amount]

-----------------------------------------------------------------------------
(* The invariant: the books are in order, and handling the events that are  *)
(* left, one after the other, leads to a store that has followed them.      *)

\* The liquidation or redemption of the last call has the troves of that call.
CallIsLinked(r, l) ==
    /\ l.call = "liquidate" => r.liquidation.troves = l.users
    /\ l.call = "redeem" => r.redemption.troves = l.users

Ahead(d, s, b, l) ==
    \E r : Replays(d, s, r) /\ Follows(r, b, {}, {}) /\ CallIsLinked(r, l)

IInv ==
    /\ calls \in Nat
    /\ BooksInv(books)
    /\ Ahead(db, events, books, last)

\* What a call finds: the store follows the books, and the books are in order.
Ready ==
    /\ Follows(db, books, {}, {})
    /\ IsBooks(books) /\ TrovesBooked(books) /\ PoolBooked(books)
    /\ AccountsBooked(books) /\ calls \in Nat

=============================================================================
