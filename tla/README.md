# Verification of the stablecoin SDK

TLA+ models of the stateful parts of the SDK and its front end, TLC
configurations that check them on small instances, and TLAPS proofs for every
value of the constants. Paths below are relative to `src/packages`.

How to run, inside this directory: `tlasany M.tla` parses a module,
`tlc -config X.cfg MCM.tla` checks a configuration, `tlapm M_proofs.tla` checks
the proofs of a module. `PROJECT.json` lists components, runs, mutants (faults
that each property must detect), the lines of code behind each definition,
findings, hazards and theorems.

## 1. The system and its parts

The contracts are not in the repository (they appear as ABIs and addresses); the
repository is a TypeScript client of them.

| Part | State | Operations | Talks to |
|---|---|---|---|
| **Store** (`lib-base/src/SfStablecoinStore.ts`, `lib-ethers/src/BlockPolledSfStablecoinStore.ts`) | `_loaded`, base, derived and extra state, listeners, heartbeat timer; per `start()` a debounce timer and the newest block | `start`, stop, `_get`, `_load`, `_update`, `_derive`, `subscribe`, `_notify` | reads the chain through the readable protocol; calls `onLoaded` and the listeners |
| **Batched provider** (`dev-frontend/src/providers/BatchingProvider.ts`) | the current batch and its timer | `perform` of calls, dispatch, results | sits between the readable protocol and the node |
| **Transactions** (`lib-ethers/src/PopulatableEthers.ts`, `dev-frontend/src/components/Transaction.tsx`) | one transaction state shared by all components; per effect `cancelled` and `finished`; a timer | buttons, `waitForReceipt`, monitoring and clearing effects | wallet, chain, every panel |
| **Panels** (staking, stability deposit, trove, redemption: view providers and editors) | a view, `changePending`, an edit and the original it is based on | reducers driven by the user, the store and the transaction state | store, transactions |
| **React binding** (`lib-react`) | the loaded store, a reducer's state in a ref | mount, subscribe, render | store, panels |
| **Readable, observable, populatable protocols** (`lib-ethers`) | none but caches and debounce timers | reads through the store's cache, hints, watchers, gas and fee headroom, redemption | chain, store |
| **Arithmetic** (`lib-base`: `Decimal`, `Trove`, `Fees`, deposits, stakes) | immutable values | `whatChanged`, `apply`, fees, redistribution | everything |
| **Subgraph** (`subgraph`) and its client (`lib-subgraph`) | entities, counters, the chain of changes | one handler per event | chain; queries |
| Connection, deployment, bot, fuzzer, layout | configuration only | | |

What is hard in it is asynchrony. Reads overlap and return in any order;
nothing cancels them; timers are armed by one callback and cancelled by another;
effects see the state React rendered, which is not the one that was last set;
the chain, the wallet and the store report the same fact at different times.
`PROJECT.json` lists each hazard at its line.

What makes each part correct:

- store: its state is never a mixture of blocks, followers that apply
  `stateChange` stay in step, every announced block is eventually reflected, no
  timer is lost or left over;
- listeners: each is called once per update, and a notification ends;
- batched provider: callers cannot tell it from a provider without batching;
- transactions: the state never claims what did not happen, every outcome is
  shown, buttons wait;
- panels: the overlay is there while, and only while, something is pending; a
  button sends what the fields show; an edit survives unrelated updates, and an
  untouched field follows the chain;
- React binding: a mounted component shows what the store has;
- transactable protocol: limits, rates and hints prepared from reads of several
  blocks still fit the block in which the transaction is mined, and the promise
  says what that transaction did;
- arithmetic: `apply(whatChanged)` is the target, rounding is in the right
  direction, nothing becomes negative;
- subgraph: what it derives from events is what the contracts hold, counters
  agree with the entities, changes form a chain, temporary fields are null after
  each call.

## 2. The modules

### The store: `StoreState`, `StoreContract`, `BlockPolledStore`

`StoreState` holds the data. A base state maps `Fields` to values; `_derive()` is
abstracted to the inputs it uses, so that two derived states are equal when their
inputs are. `Read(f, b)` is what the chain answers about field `f` at block `b`.
`Reduce`, `ReduceDerived`, `ReduceExtra`, `Difference` are the pure functions of
the same purpose in the code.

`BlockPolledStore` is the behaviour: one action per callback.

| Action | Code |
|---|---|
| `Start`, `Stop` | `start()`, `_doStart()` and the functions they return |
| `ReadLatest` | one read of the untagged `_get()`, evaluated at the block that is newest when the node serves it |
| `FirstFetchReturns` | the `.then` of the untagged fetch: load unless loaded |
| `BlockListener`, `DebounceFires` | the block listener and its 50 ms timer |
| `BlockFetchReturns` | `handleBlock()` after its await: update or load |
| `FetchFails` | a rejection that nobody handles |
| `HeartbeatFires` | the 30 s timer of `_scheduleUpdate()` |
| `Mine` | the environment |

`StoreLoad` and `StoreUpdate` are `_load()` and `_update()` with every call they
make: reduce, derive, schedule, notify. The variable `view` is a follower that
subscribes in `onLoaded` and applies each `stateChange`.

`StoreContract` is the abstract specification: one cell, empty until it is loaded
once, that then only holds reliable states and moves only by changing its block.
`BlockPolledStore` implements it with `cell <- State` (checked and proved).

Assumptions on the environment: the chain only grows (no reorganisations), blocks
are announced in any order, and a provider without listeners does not poll, so
that announced blocks wait for the next listener.

### The listeners: `StoreListeners`

`_notify()` in small steps, so that callbacks can subscribe, unsubscribe and throw
between them. A JavaScript `Set` is a sequence without duplicates.

### The provider: `ReadProvider`, `BatchedProvider`

`BatchedProvider` has `PerformDirectly` and `PerformBatched` for the two outcomes
of `_performCall()`, `DispatchCalls` for the timer, and the three ways a request
ends. Positions matter, so the batch is a pair of sequences as in the code; a
single call is a request of one. `ReadProvider` is what a caller relies on: its
call settles once, with its own answer at its own block, or with an error.
`BatchedProvider` implements it by the identity mapping.

### The transactions: `SentTransaction`, `TransactionMonitor`, `StakingView`

`SentTransaction` says what `waitForReceipt()` does for each fate of a transaction
(mined, reverted, repriced, cancelled, replaced).

`TransactionMonitor` distinguishes `transactionState`, what
`setTransactionState()` was last called with, from `rendered`, what the effects
last saw. `Render(s)` is one commit of React with everything it triggers, in
order: the cleanup of the monitoring effect, which cancels an unfinished wait and
resets the state to idle; the new monitoring effect; the clearing effect, which
turns `confirmedOneShot` into `confirmed` or arms the five second timer. A state
that is overwritten before it is rendered is never seen by the effects. A click
renders synchronously (`Press`), everything else renders later (`Rerender`).

| Action | Code |
|---|---|
| `Press`, `SendReturns`, `SendThrows` | `sendTransaction()` before its await, after it, and in its catch; the guard is `<Transaction>`'s |
| `ReceiptSucceeded`, `ReceiptFailed`, `ReasonReturns`, `ReceiptCancelled`, `ReceiptUnavailable` | the branches of `waitForConfirmation()`; asking for the revert reason is a second await, after `finished` was set |
| `Clear` | the five second timer |
| `Approve`, `Decide` | wallet and chain |

`StakingView` composes it with the staking panel: every transaction step also
runs the panel's effect (`Follow`) and, when it decides a staking transaction,
changes the stake on the chain (`Stakes`). `UpdateStore` is the reducer's answer
to the store. Abstractions: `staked` counts the changes of the stake (the reducer
only asks whether it differs), the two kinds of gain are one, and typed amounts
are left out. `overlapped` and `outrun` are history variables: they record that a
button was pressed under an unfinished transaction, and that the store told of a
staking transaction before the wallet did or that a claim made no difference to
what the store last told. `PendingIsTrueInOrder` has both directions: the overlay
does not stay when nothing is pending (`PendingIsTrue`, not if `outrun`), and it
is there as long as a transaction is undecided or its success is not in the store
(`PendingIsShown`, in whatever order the store and the wallet tell, unless a
receipt could not be had).

### The React binding and the redemption panel: `StoreHooks`, `RedemptionPanel`

`StoreHooks` is the provider (`Mount`, `StartStore` for its effect,
`RenderChildren` once the store is loaded, `Unmount`), the store as the hooks
meet it (`Started`, `Fetched`, `Heartbeat`, with `Load` and `Update` for the two
outcomes), and a component with a selector and a reducer (`Subscribe` for its
effects, `Render`, `Leave`). A block stands for the state fetched at it, and
`Selection` for what the component selects. The store keeps the old object for a
field whose value did not change, so that the identity that `equals()` looks at
is equality of values. `missed` is a history variable: what an update between
the first rendering and the subscription has escaped.

`RedemptionPanel` adds the panel below the provider: an amount is entered
(`Enter`), a second later its hints are asked for (`TimerFires`), the answer sets
the estimate whatever has been entered since (`Answer`), and the button (`Press`)
sends the amount while `Follow` is the effect on the transaction's state.
`overtaken` records that an answer about another amount has come since the
amount was entered. The node answers; an answer that is an error, which leaves
the panel waiting until the next entry, is not modelled.

### The arithmetic: `FixedPoint`, `TroveAlgebra`

`FixedPoint` is `Decimal`: integers that count units of `1 / DIGITS`,
multiplication and division that round down (`mulDivCeil` up), formatting and
parsing by what they lose. A result outside `Nat` is the constructor's exception.
`TroveAlgebra` has `Trove` (`whatChanged`, `apply`, the checks against the ratios,
redistribution), `Fees` (decay, rates, borrowing and redemption fees),
`StabilityDeposit` and `ProtocolTokenStake`, and the normalisation of the
parameters of a borrowing operation. The value `Thrown` is an exception.

### The editors: `TroveEditor`, `DepositEditor`, `Editors`

One component per page, each with the phases of React: a handler, a subscription
or an effect sets state; `Draw` renders and commits it, reading the store as it is
then; `Effects` runs the passive effects of that commit with the values it closed
over. News of the chain (`World`: redistribution, liquidation, redemption,
closing or opening in another window, price, time), the store's updates, the user
(typing, Max, Reset, the buttons of each view) and the wallet come in any order.
`TroveEditor` covers the view machine of `TroveViewProvider`, the panels
`Opening` and `Adjusting` with their rebasing, `TroveManager` and its reducer
with the panel that closes a Trove, `validateTroveChange` and
`useStableTroveChange`. `DepositEditor` covers `StabilityViewProvider` and
`StabilityDepositManager`. `Editors` runs one or the other. `hasty` and
`poolHasty` record that the user pressed a button of a view that was about to be
replaced, or that something happened on the chain that the page does not notice.
A component hears of an update only if the effect that subscribes its selector
has run (`Listening`, `PoolListening`; `useSfStablecoinSelector`): an update
between the first commit of a page and the effects of that commit requests no
rendering. `overlooked` and `poolOverlooked` record that such an update changed
what the view is chosen by, the Trove's status or whether the deposit is empty.
The transaction state `confirmed` is merged with `idle`, and one transaction is
under way at a time: overlaps are the subject of `StakingView`.

### The transactable protocol: `SortedTroves`, `Transact`

`SortedTroves` is external: the contracts as far as the SDK relies on them, that
is the list of Troves in the order of their nominal ratios, what borrowing,
closing, moving gains and redeeming do or refuse, and the gas they take. The gas
figures are those of the comments in `lib-ethers/src/PopulatableEthers.ts`.

`Transact` is one call of a function that sends a transaction.

| Action | Code |
|---|---|
| `Begin` | `_prepareOverrides` and the checks before any read |
| `Answer` | one answer of the reads that are made together, about the chain at its own time |
| `Truncate`, `StartSearch`, `Count`, `Search`, `Jump` | redemption hints, the number of trials, the insert position, the jump over the own Trove |
| `Prepare`, `Estimate` | the limits of rate; the estimates now and for a decayed rate, and the larger of the two with its headroom |
| `Increase` | `increaseAmountByMinimumNetDebt()` of a truncated redemption |
| `Send`, `Deny`, `Mine`, `Settle`, `LoseReceipt` | sending, the fates of `SentTransaction`, the receipt and the details taken from its logs |
| `World` | time, and one event of others: a Trove that moves, is closed, liquidated or redeemed, a price |

`since` records what the chain did after the reads. Functions of a family that
differ only in the contract they call are one element of `Calls`. The reads of the
fees (two calls) and of the total (four calls) are each one answer.

### The subgraph: `SubgraphStore`, `ProtocolContracts`, `Subgraph`

`SubgraphStore` has the entities and one operator per event handler of the
mappings, with the helpers of `entities/` that it calls. `ProtocolContracts` is
external: the contracts' books, and the events of each call in the order the
handlers are written for. `Subgraph` composes them: a call changes the books and
queues its events, `Index` handles one. A client of `lib-subgraph` asks for a
Trove with two queries that may be answered at different blocks.

## 3. What the runs check

| Run | Shows | Bounds |
|---|---|---|
| `store_safety` | consistency, follower in step, asserts, refinement of `StoreContract` | 2 starts, 3 fetches, 3 blocks, 1 failure; symmetric in starts and fetches |
| `store_live` | loading, catching up with every announced block, settling on the newest | 1 start, 2 fetches, 3 blocks, 1 failure |
| `store_reorder` | *violation*: the older of two overlapping fetches wins for ever | 2 blocks |
| `listeners` | each update once, nobody left out unless a listener throws, termination | 3 listeners, 3 updates |
| `batching` | own answers, refinement of `ReadProvider`, every call settles | 4 calls, 2 blocks, 1 lost request |
| `staking` | nothing false is shown, state kept, every outcome shown, the overlay stays as long as it has to and goes away | 3 presses, 1 gain, 1 lost receipt |
| `subgraph_troves` | totals, Troves, sort keys, counters, links between changes | 3 interchangeable users, 5 calls |
| `subgraph_pool` | totals against a pool that offsets all, part or none; deposits, gains, stakes, tokens | 2 users, 5 calls of which 3 for tokens |
| `editors` | what the button sends, what follows the chain, which panel is shown, for both pages | 2 news and 3 inputs per page |
| `editors_crash` | *violation*: a getter throws while the panel is drawn | as above |
| `transact` | gas, rates, redemption, hints, truth of the promise | 19 calls of 8 functions, 3 chains, 4 minutes, 1 event of others |
| `panel` | the screen follows the store, estimates, loading and waiting end | 3 blocks, 2 mounts, 3 entries of 3 amounts |

Why the bounds are enough. The store's races are between two fetches, or a fetch
and a restart; three fetches allow the untagged one and two block fetches at
once, three blocks allow an older block between two others. Three listeners are a
caller, one before it and one after it. Four calls are a batch of two, a
conflicting call and one that bypasses batching. Three presses are two
transactions that overlap and a third that must be guarded. Three users let a
liquidation of one redistribute to another who then meets a third, and five calls
open, change, end and reopen a Trove. Two news let an edit be rebased twice, once
onto a Trove that is gone, and three inputs touch both fields and confirm. The
chains of `transact` put the other Troves around the places through which the
own Trove moves while the fee decays; the base rate halves every minute, so that
every headroom is used up within the four minutes. Three blocks
of `panel` change one selected field each, and three entries let two older
answers overtake the last. Amounts are multiples of one hundredth: rounding
happens at every division. The theorems of section 4 remove the bounds for the
properties they name.

Deadlock is not checked where the system may come to rest (bounded blocks, calls
and presses); it is checked for the listeners, whose user code can always act.

Fairness. Only what an event loop does on its own is fair: timers that are armed
fire, events that are queued are delivered, promises whose answer is there settle,
React renders a state that was set and runs its effects, `_notify()` continues,
and, in `panel`, the node answers. Nothing is assumed of users, of the growth of
the chain, of the wallet's approval, or of the verdict on a transaction.
`CatchesUp` and `SettlesWithoutOverlap` state what they need in addition: no fetch
fails and the store stays monitored; for the second, that no fetches overlap.
`EveryOutcomeIsShown` speaks of transactions the chain has decided, and excuses
those that overlap with another. `FirstMountIsDrawn` is about the first mount
only: a provider mounted again around a loaded store waits for an `onLoaded` that
never comes. The specifications of the subgraph, the editors and `Transact` state
safety only and need none.

The findings are the two violations. Other promises that the code does not keep
are stated in the modules, each with a comment that says so, and have no run of
their own. Each was seen violated with the configuration named here, changed as
the third column says; the last four are what a checked property says when the
window it excuses is not:

| Statement | What happens | How to see it |
|---|---|---|
| `BlockPolledStore!SettlesOnHead`, `SettlesWithoutOverlap` | a stop and a start lose an announced block | PROPERTY in `store_live` with two sessions and no failure |
| `BlockPolledStore!StopStopsEverything` | a fetch that returns after `stop()` re-arms the heartbeat | INVARIANT in `store_safety` |
| `StoreListeners!EveryListenerIsTold` | an exception silences later listeners | INVARIANT in `listeners` |
| `StakingView!MustWait` | an overlapping transaction re-enables the guarded buttons | PROPERTY in `staking` |
| `StakingView!PendingIsTrue` | news from the store before the wallet's leaves the overlay for ever | INVARIANT in `staking` |
| `Subgraph!AnswerIsTrue` | a Trove is combined with the redistribution of another block | INVARIANT in `subgraph_troves` with `FirstQuery = 3` |
| `Transact!IncreaseUsesCurrentRate` | an increased redemption is bounded by the fees read for the original | PROPERTY in `transact` |
| `RedemptionPanel!ConfirmSendsWhatIsShown` | after a transaction an old estimate is offered as an adjustment of zero | INVARIANT in `panel` |
| `TroveEditor!ViewFollowsTheTrove` without `~overlooked` | a Trove closed between the first commit of the page and its effects leaves the ACTIVE view | without that conjunct, in `editors` |
| `DepositEditor!EmptyDepositIsNotShown` without `~poolOverlooked` | the same for a deposit that is emptied | without that conjunct, in `editors` |
| `StoreHooks!ScreenFollowsStore` without `missed` | the same for any selector or reducer | without that hypothesis, in `panel` |
| `RedemptionPanel!EstimateIsOfTheAmount` without `~overtaken` | the answer for an older amount is taken for the present one | without that hypothesis, in `panel` |

Some further observations need no model. `getPrice()` of the cached readable calls
itself on a miss (`lib-ethers/src/ReadableEthers.ts:779`). The documentation of a
listener's `newState` and `oldState` is swapped
(`lib-base/src/SfStablecoinStore.ts:174`). The heartbeat is meant to let
time-dependent derived state pass (`SfStablecoinStore.ts:612`), while `Fees` keeps
the time it was created with.

## 4. What is proved

Every theorem about a state machine is `Spec => ...`, for every number of
sessions, fetches, blocks, calls, users, amounts, transactions and so on. The
assumptions are the named `ASSUME`s of the modules, which TLC evaluates: sets are
disjoint, bounds and amounts are naturals, the chain's answers are values. What
some of them say besides, the code or the contracts guarantee:

- `ParametersAssumption` (`TroveAlgebra`): scale, reserve, minimum debt and ratios
  are positive, the decay factor is below one and the largest borrowing rate at most
  one, as the constants of `lib-base` are.
- `ListAssumption` and `TransactAssumption`: addresses are positive and the list is
  finite; open Troves, the own one included, have at least the minimum debt, and
  what a caller gives are naturals or nothing, of the type that the function takes.
- `SubgraphAssumption`: no Trove is opened without stake or debt and no amount is
  negative, since the contracts revert.

- `Store_proofs`. `TypeCorrect` first: its last conjunct, a loaded
  store has every field, makes `Reduce` by a full snapshot yield that snapshot
  (`ReduceFull`). `Consistent` and `FollowersInSync` rest on the inductive
  `ConsistencyInv`: it adds that the follower is in step also before the store is
  loaded, which makes `Patch` after `Difference` the identity on the new state
  (`PatchDifference`). `ImplementsContract` maps each step to `Load`, `Move` or
  stuttering; an update with an unchanged state is a stutter. `TimersInv` gives
  the heartbeat, the debounce and the asserts together, since an assert can only
  fail in a callback that should not be armed. `DebounceIsMonotone` needs
  `FetchesBehind`: what a session fetches is no newer than the block it has seen.
  The listeners rest on `ListenersInv`: while a notification runs, those still to
  be called have not heard of the update, and who is subscribed and has not heard
  of it is still to be called; nobody is in the copy twice (`NoneTwice`), so that a
  call makes nobody hear it again. `NotificationsTell` reads off the same
  invariant that a notification leaves out a subscriber only by ending in an
  exception, before that subscriber's turn.
- `BatchedProvider_proofs`. One invariant `Inv`: the two sequences of the batch
  and of every request are equal and all their calls were made for its block
  (`Aligned`), and a pending call is in exactly one place. Own answers and the
  refinement follow from it.
- `StakingView_proofs`. `TxInv` (types, truth of what is shown, one monitor) is
  inductive without any assumption on overlaps: `RenderInv` treats a commit of
  React once for clicks and later renderings, `SetStateInv` all steps that set the
  state without rendering it. `StateIsKept` is not inductive; `Turns` strengthens
  it with the phases an unfinished transaction goes through (asked, sent but not
  rendered, waiting for the receipt or the reason, outcome not rendered), each
  with what is set and what is rendered. A step of the transaction moves it to
  another phase (`OwnStep`), a rendering does so or finishes it, and a press opens
  a turn only when nothing is unfinished. `PendingIsShownInOrder` needs
  two invariants, one per direction. `PendingInv`: while a change is pending its
  transaction is unfinished and has not succeeded, or its success is on the chain
  and untold by the store; and every success that the panel has not heard of is
  untold. `ShownInv` does without the assumption on the store's order: what is on
  the chain and untold, or asked for and undecided, is shown as pending, and
  while a transaction that has paid nothing is unfinished, nothing is untold
  (`UntoldIsPaid`). `Decided` adds that the panel takes a transaction for finished,
  failed or cancelled only if the chain has decided it or it was never sent.
- `TroveAlgebra_proofs`. No state machine: lemmas about division (`QuotientIs`
  and its rounded-up counterpart `CeilQuotient`) give the fee lemmas; `ChangeIsApplied` treats
  creation, closure and adjustment apart, and an adjustment field by field, where
  a debt that grows loses at most the unit that removing and adding the fee
  rounds. `RatesAreBounded` is an induction over the loop of `Decimal.pow()`: the
  loop is a recursive function of the exponent, so that it is defined at every
  natural (`PowLoopUnfolds`) and decreases with every squaring.
- `Editors_proofs`, the Trove page and then the other. `EditInv` states the
  properties of the fields for every point between a commit and its effects, where
  an edit is already rebased and the panel not redrawn; `ViewInv` relates the view
  to the status last drawn, the store, the chain and the end of the page's own
  transaction. The button's theorem adds `ChangeIsApplied` of
  `TroveAlgebra_proofs`. `UntouchedAmountFollows` from `UntouchedInv`, which adds
  what an edit and its original are between a commit and its effects;
  `EmptyDepositsAreNotShown` from `PageInv`. It relates the view to the chain, and
  between them stand the store, the deposit last drawn, the effects of the last
  commit that have not run, and a transaction whose end the page has yet to see;
  the parts of `PageInv` say which of these may lag behind which. Both theorems
  are about pages that overlooked nothing before they subscribed; from then on
  `Listening` holds as long as the page does, and a store that differs from what
  is drawn has a rendering requested.
- `Transact_proofs`. First the list: its order is strict and total, so that each
  place has one Trove (`AtIs`), and every set closed upwards is a head of the list
  (`HeadsOfTheList`). The Troves whose ratio is not below the one searched for are
  such a head, and the two addresses that enclose it enclose the place of the
  Trove also in the list without it (`StillEncloses`), or do so after the jump
  (`JumpIsUsable`). `HintInv` carries this through the steps: once the search has
  started all the reads are in, so that the ratio stays, and as long as no Trove
  has changed the hints are those of the present list. `HintsAreRight` follows.
  Then redemptions: `ClearingIs` says which Troves of the queue an amount clears,
  by sums over its prefixes (`SumsExist`, `SumsGrow`, `OneFits`);
  `RedeemsAsHinted` and `RedeemsAsIncreased` compare what the hints call
  redeemable with what is then redeemed, the increase by the minimum net debt
  included. `RedeemInv` keeps amount and ratio those of the present list
  (`Quoted`), and `RedemptionsAreExact` follows. `TheTruthIsTold` rests on
  `PromiseInv`, which remembers the transaction's outcome from the block to the
  promise, and on `ExecuteIs`: what a transaction of each kind leaves behind.
  `TypeCorrect` needs the contracts' side of it, that every chain they lead to is
  one again (`IsChain`).
- `Subgraph_proofs`. The indexer lags behind the contracts, so an invariant about
  the store and the books can only speak of the moment when the queue is empty,
  and is not inductive. `IInv` speaks of the future instead: `Ahead` says that
  handling the events still queued leads (`Replays`) to a store that agrees with
  the books (`Follows`). `Index` then only drops the first event of the replay, and
  a call has to show that its events, handled on a store that agrees with the
  books before it, lead to one that agrees with the books after it. Below that are
  one lemma per handler (what it keeps, `Keeps`; that the changes still form a
  chain, `ChainInv`; what it writes), `BooksInv` about the contracts' own books, and
  lemmas about sums over the users (`TotalMoves`) and about the folds over a
  liquidation's or redemption's list, by well-founded induction on the number of
  users. The totals have an account of their own (`Tallied`): each is the sum of
  the users' parts (`Parts`), plus, between the first Trove of a liquidation and
  its `LTermsUpdated`, the debt and collateral that nobody owes yet (`Moved`). A
  handler moves one number by a known difference (`Moves`); an offset takes
  exactly its amount from the depositors, whatever their order (`PoolTaken`); and
  what is redistributed is what the remaining stakes gain, to the last unit
  (`SharedOutTallied`). A sort key is a scaled ratio rounded down, written at the
  Trove's last change; what was redistributed since is a whole number of terms per
  unit of stake (`IsTerm`), so the key still is the rounded ratio less what every
  Trove shares (`KeyIs`), and two keys compare as their ratios do (`KeysOrder`).
  The words of these proofs, and `IInv`, are in the module `SubgraphInvariant`.
  `Fits` is what an event needs of the store it meets, such as a fee of the Trove
  change before it: that is what `ChangesFindTheirCall` reads off the queue.
- `RedemptionPanel_proofs`. `HooksTypeOK` is inductive: a component exists only
  below a loaded provider, so that `_load()` never meets one. `ScreenInv` states
  `ScreenFollowsStore` for components that have not subscribed as well, and one
  step per callback keeps it. `EstimateInv` drops the description from
  `EstimateIsOfTheAmount`.

Induction. The library's induction theorems take an operator as a parameter,
which the provers do not instantiate. The proofs by induction here argue from a
least counterexample, or use well-founded induction over a set instead: the set of
naturals for which the statement fails is named, and is empty. It works for
recursive functions and for folds of finite sets.

What the attempts found. `EmptyDepositIsNotShown` and `ViewFollowsTheTrove` were not
inductive for reasons that were the model's: `poolHasty` and `hasty` excused more,
and at another time, than the behaviour they stand for, the page did not record which
end of a transaction it had seen (`seen`), and a Trove reopened in another window was
not told apart (`Reopens`). `StatusAfter`, `GetOperationType`, `Apply` and `TxEvent`
were written as `CASE` with arms that overlap, in the order of the code's `if`s. TLC
takes the first arm; in TLA+ the choice is open, and the provers were right to refuse
what followed from the first. The arms are disjoint now. `HintsAreUsable` was false
for `openTrove`: a caller whose Trove is open already and last in the list gets it as
a hint, since nothing is jumped over for an address that is not given. The contract
refuses the transaction whatever its hints, and the property says so now. The runs
had no such chain. Neither view theorem would have held of a page that had not yet
subscribed: its selector subscribes in an effect of the first commit, and a status
that changes before it is never compared with the one drawn. `SortKeyOrdersByRatio`
was an equivalence, true in the runs because their keys are exact: two ratios closer
than the scale can tell apart have one key. It says now that a smaller key means a
smaller ratio, always, and that a smaller ratio has a smaller key unless the other
key was rounded down, which in the runs is as much as before.

Only model-checked:

- liveness (`EventuallyLoaded`, `CatchesUp`, `SettlesWithoutOverlap`,
  `NotificationEnds`, `EveryCallSettles`, `EveryOutcomeIsShown`,
  `FirstMountIsDrawn`, `HintsArrive`), which is out of the prover's reach;
- `FailsForAReason`: that the headroom suffices is true of the lists of the run and
  not of every one. With many other Troves between the old place and the new the
  walk takes more gas than `addGasForPotentialListTraversal` adds, also when
  nothing happens but time.

## 5. Not modelled

- Reorganisations of the chain, errors thrown by the user's own `onLoaded`, and
  providers that keep polling without listeners.
- A send that fails after the node has accepted the transaction; nodes that reject
  a read in `Transact` or `RedemptionPanel`.
- The batching ratio (only logged), `getReceipt()`, messages and wording.
- `ObservableEthers`, to which nothing in the repository subscribes;
  `useAsyncValue`, whose one use fetches the configuration once; and
  `_CachedReadableProtocol`, which is exported and used by nothing.
- Several transactions at once in the editors, and both pages at once: they share
  only the store and the transaction state.
- The staking panel's typed amounts: its reducer is that of the deposits.
- The gas limit when both the fee decays and the list moves: it is the larger of
  the two allowances, and `FailsForAReason` excuses a transaction that needs both.
- Connection, deployment, generated types, the example bot, the fuzzer, layout:
  no state that changes, or programs on top of the SDK.

## 6. Plan

Done, in this order: the store with its contract and listeners, the batched
provider, the transactions with the staking panel, the subgraph, the arithmetic
and the editors, the transactable protocol, the React binding with the redemption
panel.

Left: the watchers of `ObservableEthers`; rejected reads in `Transact` and in the
panel.
