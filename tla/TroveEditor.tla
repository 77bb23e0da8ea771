----------------------------- MODULE TroveEditor -----------------------------
(***************************************************************************)
(* The Trove page of the dev-frontend: the view (TroveViewProvider), the   *)
(* panel it mounts (Opening, Adjusting, or TroveManager to close), and the *)
(* validation of what the user asks for, between a store that follows the  *)
(* chain and a transaction that the wallet and the chain take time over.   *)
(*                                                                         *)
(* React is modelled by its phases.  A handler, a subscription or an       *)
(* effect sets state; Draw renders and commits it, reading store.state as  *)
(* it is then; Effects runs the passive effects of the last commit, with   *)
(* the values that commit closed over.  Anything may happen between a      *)
(* commit and its effects, except another render.                          *)
(***************************************************************************)
EXTENDS TroveAlgebra

CONSTANTS
    CollateralInputs, DebtInputs,   \* what a user types
    Units,                  \* what the last digit shown of an amount is worth
    Prices,
    Others,                 \* external: the other Troves, as one
    Share,                  \* external: what one redistribution adds
    AccountBalance, DebtTokenBalance, GasRoom, Slippage, NumberOfTroves,
    Base, LastMinute,       \* the base rate without decay, and the last minute
    MaxNews,                \* bound: how often the chain moves by itself
    MaxInputs               \* bound: what the user types and presses

ASSUME EditorAssumption ==
    /\ CollateralInputs \cup DebtInputs \cup Prices \subseteq Nat
    /\ Units \subseteq Nat \ {0}
    /\ Others \in Troves /\ Share \in Troves
    /\ {AccountBalance, DebtTokenBalance, GasRoom, Base} \subseteq Nat
    /\ {MaxNews, MaxInputs, LastMinute} \subseteq Nat

VARIABLES
    chain,      \* external: the owner's Trove, the price and the minute
    store,      \* store.state: the same, as the store last read it
    news,
    inputs,
    view, viewRef, shown,   \* the view set, its ref, and the view mounted
    form,       \* the hooks of Opening and Adjusting
    manager,    \* the reducer's state in TroveManager
    tx,         \* the transaction the monitor follows
    drawn,      \* what the last commit closed over
    effects,    \* the effects of the last commit that have not run
    dirty,      \* a render is due
    crashed,    \* an exception was thrown while rendering
    overlooked, \* the provider has not drawn the status: it came before its
                \* selector subscribed, and nothing else has asked it to render
    hasty       \* history: a button was pressed between a commit, its effects
                \* and the render they ask for, or a Trove was closed and
                \* opened again before the page was done with the closure

chainVars == <<chain, news>>
viewVars == <<view, viewRef, shown>>
vars == <<chain, store, news, inputs, view, viewRef, shown, form, manager, tx,
          drawn, effects, dirty, crashed, overlooked, hasty>>

Waiting == {"waitingForApproval", "waitingForConfirmation"}
Idle == [id |-> "none", type |-> "idle", change |-> NoChange, receipt |-> "none"]

Fees(s) == [base |-> Base, lastFeeOperation |-> 0,
            recoveryMode |-> IsBelowCritical(Plus(s.trove, Others), s.price)]
Rate(s) == BorrowingRate(Fees(s), s.minute)

-----------------------------------------------------------------------------
(* validateTroveChange()                                                   *)

InvalidCreation(s, change, result, recovery, triggers) ==
    \/ change.borrowDebtToken < MINIMUM_NET_DEBT
    \/ recovery /\ IsBelowCritical(result, s.price)
    \/ ~recovery /\ (IsBelowMinimum(result, s.price) \/ triggers)
    \/ change.depositCollateral > AccountBalance

InvalidAdjustment(s, change, result, recovery, triggers) ==
    \/ /\ recovery
       /\ \/ change.withdrawCollateral # Absent
          \/ /\ change.borrowDebtToken # Absent
             /\ \/ IsBelowCritical(result, s.price)
                \/ CollateralRatio(result, s.price)
                       < CollateralRatio(s.trove, s.price)
    \/ ~recovery /\ (IsBelowMinimum(result, s.price) \/ triggers)
    \/ /\ change.repayDebtToken # Absent
       /\ result.debt < MINIMUM_DEBT \/ change.repayDebtToken > DebtTokenBalance
    \/ change.depositCollateral > AccountBalance

InvalidClosure(s, change, result, recovery, triggers) ==
    \/ NumberOfTroves = 1 \/ recovery \/ triggers
    \/ change.repayDebtToken > DebtTokenBalance

ValidChange(s, from, to) ==
    LET change   == WhatChanged(from, to, Rate(s))
        result   == Apply(from, change, Rate(s))
        total    == Plus(s.trove, Others)
        recovery == IsBelowCritical(total, s.price)
        triggers == IsBelowCritical(Plus(Subtract(total, from), result), s.price)
        invalid  ==
            CASE change.type = "creation" ->
                    InvalidCreation(s, change, result, recovery, triggers)
              [] change.type = "closure" ->
                    InvalidClosure(s, change, result, recovery, triggers)
              [] change.type = "adjustment" ->
                    InvalidAdjustment(s, change, result, recovery, triggers)
              [] OTHER -> TRUE
    IN IF invalid THEN NoChange ELSE change

\* useStableTroveChange(): the comparison of two changes.
SameChange(a, b) == [a EXCEPT !.setToZero = "none"] = [b EXCEPT !.setToZero = "none"]
-----------------------------------------------------------------------------
(* The view: transitions, and the events of the Trove's status.            *)

Transitions ==
    [NONE |-> [OPEN_TROVE_PRESSED |-> "OPENING", TROVE_OPENED |-> "ACTIVE"],
     LIQUIDATED |-> [OPEN_TROVE_PRESSED |-> "OPENING",
                     TROVE_SURPLUS_COLLATERAL_CLAIMED |-> "NONE",
                     TROVE_OPENED |-> "ACTIVE"],
     REDEEMED |-> [OPEN_TROVE_PRESSED |-> "OPENING",
                   TROVE_SURPLUS_COLLATERAL_CLAIMED |-> "NONE",
                   TROVE_OPENED |-> "ACTIVE"],
     OPENING |-> [CANCEL_ADJUST_TROVE_PRESSED |-> "NONE",
                  TROVE_OPENED |-> "ACTIVE"],
     ADJUSTING |-> [CANCEL_ADJUST_TROVE_PRESSED |-> "ACTIVE",
                    TROVE_ADJUSTED |-> "ACTIVE", TROVE_CLOSED |-> "NONE",
                    TROVE_LIQUIDATED |-> "LIQUIDATED",
                    TROVE_REDEEMED |-> "REDEEMED"],
     CLOSING |-> [CANCEL_ADJUST_TROVE_PRESSED |-> "ACTIVE",
                  TROVE_CLOSED |-> "NONE", TROVE_ADJUSTED |-> "ACTIVE",
                  TROVE_LIQUIDATED |-> "LIQUIDATED",
                  TROVE_REDEEMED |-> "REDEEMED"],
     ACTIVE |-> [ADJUST_TROVE_PRESSED |-> "ADJUSTING",
                 CLOSE_TROVE_PRESSED |-> "CLOSING", TROVE_CLOSED |-> "NONE",
                 TROVE_LIQUIDATED |-> "LIQUIDATED",
                 TROVE_REDEEMED |-> "REDEEMED"]]

Views == DOMAIN Transitions

\* Mutant: a liquidation is not noticed while the Trove is being closed.
TransitionLost(v, event) ==
    IF event \in DOMAIN Transitions[v] /\ ~(v = "CLOSING" /\ event = "TROVE_LIQUIDATED")
    THEN Transitions[v][event] ELSE v

Transition(v, event) ==
    IF event \in DOMAIN Transitions[v] THEN Transitions[v][event] ELSE v

StatusEvents == [open |-> "TROVE_OPENED", closedByOwner |-> "TROVE_CLOSED",
                 closedByLiquidation |-> "TROVE_LIQUIDATED",
                 closedByRedemption |-> "TROVE_REDEEMED"]
Statuses == DOMAIN StatusEvents \cup {"nonExistent"}

InitialView(status) ==
    CASE status = "closedByLiquidation" -> "LIQUIDATED"
      [] status = "closedByRedemption"  -> "REDEEMED"
      [] status = "open"                -> "ACTIVE"
      [] OTHER                          -> "NONE"

-----------------------------------------------------------------------------
(* The panels                                                              *)

NewForm(v, s) ==
    [collateral |-> IF v = "ADJUSTING" THEN s.trove.collateral ELSE 0,
     amount     |-> IF v = "ADJUSTING" THEN NetDebt(s.trove) ELSE 0,
     previous   |-> s.trove, stable |-> NoChange, touched |-> FALSE]

IsDirty(s, f) == f.collateral # s.trove.collateral \/ f.amount # NetDebt(s.trove)

\* feeFrom(): the fee of what would be borrowed.
FeeFrom(from, to, rate) ==
    LET change == WhatChanged(from, to, rate)
    IN IF change.type = "invalidCreation" \/ change.borrowDebtToken = Absent THEN 0
       ELSE Mul(change.borrowDebtToken, rate)

\* Adjusting: the Trove that the fields describe.
AdjustedTrove(s, f) ==
    LET more == Less(f.amount, NetDebt(s.trove))
        fee  == FeeFrom(s.trove, Plus(s.trove, Trove(0, more)), Rate(s))
    IN IF IsDirty(s, f)
       THEN Trove(f.collateral, f.amount + LIQUIDATION_RESERVE + fee)
       ELSE s.trove

\* Opening: the Trove that the fields describe.
OpenedTrove(s, f) ==
    IF f.collateral = 0 /\ f.amount = 0 THEN EmptyTrove
    ELSE Trove(f.collateral,
               f.amount + LIQUIDATION_RESERVE + Mul(f.amount, Rate(s)))

\* The change that the panel of view v offers to confirm.
Offered(v, s, f, m) ==
    CASE v = "OPENING"   -> ValidChange(s, EmptyTrove, OpenedTrove(s, f))
      [] v = "ADJUSTING" -> ValidChange(s, s.trove, AdjustedTrove(s, f))
      [] v = "CLOSING"   -> ValidChange(s, m.original, m.edited)
      [] OTHER           -> NoChange

\* useMyTransactionState(): TroveManager matches every id "trove-...".
MyTx(v, t) ==
    IF \/ v = "OPENING" /\ t.id = "trove-creation"
       \/ v = "ADJUSTING" /\ t.id = "trove-adjustment"
       \/ v = "CLOSING" /\ t.id # "none"
    THEN t.type ELSE "idle"

Rebased(unsaved, old) ==
    IF unsaved.sign = "+" THEN old + unsaved.absoluteValue
    ELSE IF unsaved.sign = "-" /\ unsaved.absoluteValue < old
         THEN old - unsaved.absoluteValue
    ELSE old

(***************************************************************************)
(* The effect of Adjusting that carries the user's edit over to a Trove    *)
(* that changed: it sees the fields as they were drawn, and what it sets   *)
(* comes after what a handler has set since.                               *)
(***************************************************************************)
\* Mutant: the effect forgets to remember the Trove it rebased on.
RebaseOnce(f, seen, trove) ==
    [f EXCEPT
        !.collateral = IF f.previous.collateral = trove.collateral THEN @
                       ELSE Rebased(Between(seen.collateral, f.previous.collateral),
                                    trove.collateral),
        !.amount = IF f.previous.debt = trove.debt THEN @
                   ELSE Rebased(Between(seen.amount, NetDebt(f.previous)),
                                NetDebt(trove))]

Rebase(f, seen, trove) ==
    [f EXCEPT
        !.collateral = IF f.previous.collateral = trove.collateral THEN @
                       ELSE Rebased(Between(seen.collateral, f.previous.collateral),
                                    trove.collateral),
        !.amount = IF f.previous.debt = trove.debt THEN @
                   ELSE Rebased(Between(seen.amount, NetDebt(f.previous)),
                                NetDebt(trove)),
        !.previous = trove]

Stabilized(f, change) ==
    IF SameChange(f.stable, change) THEN f ELSE [f EXCEPT !.stable = change]

-----------------------------------------------------------------------------
(* TroveManager's reducer                                                  *)

NewManager(trove) ==
    [original |-> trove, edited |-> trove, changePending |-> FALSE,
     debtDirty |-> FALSE, addedMinimumDebt |-> FALSE, subscribed |-> FALSE]

Revert(m) == [m EXCEPT !.edited = m.original, !.debtDirty = FALSE,
                       !.addedMinimumDebt = FALSE]

SetCollateral(m, new) ==
    LET set == [m EXCEPT !.edited.collateral = new]
    IN IF ~m.debtDirty /\ IsEmpty(m.edited) /\ new # 0
       THEN [set EXCEPT !.edited.debt = MINIMUM_DEBT, !.addedMinimumDebt = TRUE]
       ELSE IF ~m.debtDirty /\ m.addedMinimumDebt /\ new = 0
       THEN [set EXCEPT !.edited.debt = 0, !.addedMinimumDebt = FALSE]
       ELSE set

SetDebt(m, new) == [m EXCEPT !.edited.debt = new, !.debtDirty = TRUE]

\* Mutant: the edit is reverted to the Trove before the update.
UpdateStoreRevertsFirst(m, trove, committed) ==
    LET change == WhatChanged(m.original, m.edited, 0)
        told   == [m EXCEPT !.original = trove]
    IN IF m.changePending /\ committed
       THEN [Revert(m) EXCEPT !.original = trove, !.changePending = FALSE]
       ELSE IF \/ change.type = "creation" /\ ~IsEmpty(trove)
               \/ change.type = "closure" /\ IsEmpty(trove)
       THEN Revert(told)
       ELSE [told EXCEPT !.edited = Apply(trove, change, 0)]

UpdateStore(m, trove, committed) ==
    LET change == WhatChanged(m.original, m.edited, 0)
        told   == [m EXCEPT !.original = trove]
    IN IF m.changePending /\ committed
       THEN [Revert(told) EXCEPT !.changePending = FALSE]
       ELSE IF \/ change.type = "creation" /\ ~IsEmpty(trove)
               \/ change.type = "closure" /\ IsEmpty(trove)
       THEN Revert(told)
       ELSE [told EXCEPT !.edited = Apply(trove, change, 0)]

-----------------------------------------------------------------------------
(* External: what happens on the chain.                                    *)

Chains(trove, status, touched) ==
    [chain EXCEPT !.trove = trove, !.status = status, !.touched = touched]
Touch == 1 - chain.touched

\* The Trove is opened again before the page is done with its closure.
Reopens(c) == /\ c.status = "open" /\ chain.status # "open"
              /\ drawn.status = "open" \/ tx.id = "trove-closure"

News(c) ==
    /\ news < MaxNews
    /\ news' = news + 1
    /\ chain' = c
    /\ hasty' = (hasty \/ Reopens(c))
    /\ UNCHANGED <<store, inputs, viewVars, form, manager, tx, drawn, effects,
                   dirty, crashed, overlooked>>

Redistribute ==
    /\ chain.status = "open"
    /\ News(Chains(Plus(chain.trove, Share), "open", chain.touched))

Lose(status) ==     \* liquidated, redeemed, or closed in another window
    /\ chain.status = "open"
    /\ News(Chains(EmptyTrove, status, Touch))

OpenElsewhere ==
    /\ chain.status # "open"
    /\ \E c \in CollateralInputs :
          News(Chains(Trove(c, MINIMUM_DEBT), "open", Touch))

MovePrice == \E p \in Prices \ {chain.price} : News([chain EXCEPT !.price = p])
Decay == chain.minute < LastMinute /\ News([chain EXCEPT !.minute = @ + 1])

World ==
    \/ Redistribute \/ OpenElsewhere \/ MovePrice \/ Decay
    \/ \E s \in DOMAIN StatusEvents \ {"open"} : Lose(s)

-----------------------------------------------------------------------------
(* The program                                                             *)

(***************************************************************************)
(* useSfStablecoinSelector() and useSfStablecoinReducer() subscribe in an  *)
(* effect: until it has run they hear nothing.  So the effects of the page *)
(* load subscribe the provider, and an update that beats them asks for no  *)
(* render, nor does any later one that leaves the status as it is.  React  *)
(* runs the effects of a click's commit at once, so the selectors of a     *)
(* panel are never late.                                                   *)
(***************************************************************************)
Listening == "subscribe" \notin effects

\* The store reads the chain; its listeners ask for a render.
StoreUpdate ==
    /\ store # chain
    /\ store' = chain
    /\ dirty' = (dirty \/ Listening)
    /\ overlooked' = IF Listening THEN overlooked /\ chain.status = store.status
                     ELSE chain.status # drawn.status
    /\ manager' = IF shown = "CLOSING" /\ manager.subscribed
                  THEN UpdateStore(manager, chain.trove,
                                   chain.touched # store.touched)
                  ELSE manager
    /\ UNCHANGED <<chainVars, inputs, viewVars, form, tx, drawn, effects, crashed, hasty>>

\* Rendering Adjusting reads trove.netDebt before it looks at the status.
Crash ==
    /\ dirty /\ effects = {} /\ ~crashed
    /\ view = "ADJUSTING" /\ NetDebtThrows(store.trove)
    /\ crashed' = TRUE
    /\ dirty' = FALSE
    /\ UNCHANGED <<chainVars, store, inputs, viewVars, form, manager, tx, drawn,
                   effects, overlooked, hasty>>

Draw ==
    /\ dirty /\ effects = {} /\ ~crashed
    /\ ~(view = "ADJUSTING" /\ NetDebtThrows(store.trove))
    /\ LET mounts == view # shown
           f == IF mounts THEN NewForm(view, store) ELSE form
           m == IF mounts THEN NewManager(store.trove) ELSE manager
           offered == Offered(view, store, f, m)
       IN /\ form' = IF mounts THEN [f EXCEPT !.stable = offered] ELSE f
          /\ manager' = m
          /\ drawn' = [store |-> store, form |-> form', manager |-> m,
                       change |-> offered, type |-> MyTx(view, tx),
                       seen |-> tx.type,
                       status |-> IF overlooked /\ ~mounts THEN drawn.status
                                  ELSE store.status]
          /\ overlooked' = (overlooked /\ ~mounts)
          /\ effects' =
                {"draw"} \cup (IF mounts THEN {"mount"} ELSE {})
                \cup (IF drawn'.status # drawn.status THEN {"status"} ELSE {})
                \cup (IF mounts \/ MyTx(view, tx) # drawn.type THEN {"tx"} ELSE {})
    /\ shown' = view
    /\ dirty' = FALSE
    /\ UNCHANGED <<chainVars, store, inputs, view, viewRef, tx, crashed, hasty>>

\* What the panel dispatches when its transaction is confirmed.
TxEvent ==
    IF "tx" \notin effects \/ drawn.type # "confirmedOneShot" THEN "none"
    ELSE CASE shown = "ADJUSTING" -> "TROVE_ADJUSTED"
           [] shown = "CLOSING" ->
                 IF tx.id = "trove-closure" THEN "TROVE_CLOSED" ELSE "TROVE_ADJUSTED"
           [] OTHER -> "none"

StatusEvent ==
    IF "status" \in effects /\ drawn.status \in DOMAIN StatusEvents
    THEN StatusEvents[drawn.status] ELSE "none"

FormAfterEffects ==
    CASE shown = "ADJUSTING" ->
            Stabilized(Rebase(form, drawn.form, drawn.store.trove), drawn.change)
      [] shown = "OPENING" /\ drawn.form.collateral # 0 /\ drawn.form.amount = 0 ->
            [Stabilized(form, drawn.change) EXCEPT !.amount = MINIMUM_NET_DEBT]
      [] OTHER -> Stabilized(form, drawn.change)

ManagerAfterEffects ==
    LET mounted == IF "mount" \in effects
                   THEN [SetDebt(SetCollateral(manager, 0), 0)
                             EXCEPT !.subscribed = TRUE]
                   ELSE manager
    IN IF shown # "CLOSING" THEN manager
       ELSE IF "tx" \notin effects THEN mounted
       ELSE [mounted EXCEPT !.changePending =
                 IF drawn.type \in Waiting THEN TRUE
                 ELSE IF drawn.type \in {"failed", "cancelled"} THEN FALSE ELSE @]

\* The panel's effects run before the provider's; the monitor, which follows
\* every transaction, then moves on from confirmedOneShot, to what no panel
\* tells from idle.
Effects ==
    /\ effects # {} /\ ~crashed
    /\ form' = FormAfterEffects
    /\ manager' = ManagerAfterEffects
    /\ view' = IF StatusEvent # "none" THEN Transition(shown, StatusEvent)
               ELSE IF TxEvent # "none" THEN Transition(viewRef, TxEvent)
               ELSE view
    /\ viewRef' = shown
    /\ tx' = IF drawn.seen = "confirmedOneShot" THEN Idle ELSE tx
    /\ dirty' = (dirty \/ form' # form \/ manager' # manager \/ view' # shown
                       \/ tx' # tx)
    /\ effects' = {}
    /\ UNCHANGED <<chainVars, store, inputs, shown, drawn, crashed, overlooked, hasty>>

-----------------------------------------------------------------------------
(* The user and the wallet.  A panel whose transaction is pending is       *)
(* covered by an overlay.                                                  *)

Input ==
    /\ inputs < MaxInputs /\ ~crashed
    /\ inputs' = inputs + 1
    /\ dirty' = TRUE

Uncovered ==
    IF shown = "CLOSING" THEN ~drawn.manager.changePending
    ELSE drawn.type \notin Waiting

\* A button of the panel; a surplus claimed (CollateralSurplusAction) is one step.
Press(event) ==
    /\ Input /\ Uncovered
    /\ event \in DOMAIN Transitions[shown]
    /\ event \in {"OPEN_TROVE_PRESSED", "CANCEL_ADJUST_TROVE_PRESSED",
                  "ADJUST_TROVE_PRESSED", "CLOSE_TROVE_PRESSED",
                  "TROVE_SURPLUS_COLLATERAL_CLAIMED"}
    /\ view' = Transition(viewRef, event)
    /\ hasty' = (hasty \/ effects # {} \/ dirty)
    /\ UNCHANGED <<chainVars, store, viewRef, shown, form, manager, tx, drawn,
                   effects, crashed, overlooked>>

SetForm(f) ==
    /\ shown \in {"OPENING", "ADJUSTING"} /\ Input /\ Uncovered
    /\ form' = f
    /\ UNCHANGED <<chainVars, store, viewVars, manager, tx, drawn, effects, crashed,
                   overlooked, hasty>>

TypeCollateral(c) == SetForm([form EXCEPT !.collateral = c, !.touched = TRUE])
TypeAmount(a)     == SetForm([form EXCEPT !.amount = a, !.touched = TRUE])

\* The user edits the text shown, and undoes the edit.
Retype(unit) ==
    SetForm([form EXCEPT !.collateral = FromText(Text(drawn.form.collateral, unit), unit),
                         !.touched = TRUE])

\* The buttons "max" and "reset".  The history "touched" keeps a reset apart
\* that an effect may still override.
PressMax ==
    SetForm([form EXCEPT !.touched = TRUE, !.collateral =
        Less(AccountBalance, GasRoom)
            + (IF shown = "ADJUSTING" THEN drawn.store.trove.collateral ELSE 0)])

PressReset ==
    SetForm(IF shown = "OPENING"
            THEN [form EXCEPT !.collateral = 0, !.amount = 0]
            ELSE [form EXCEPT !.collateral = drawn.store.trove.collateral,
                              !.amount = NetDebt(drawn.store.trove),
                              !.touched = @ /\ effects # {}])

\* The change that the button Confirm was drawn with.
Button == IF shown = "CLOSING" THEN drawn.change ELSE drawn.form.stable

\* TroveAction
Confirm ==
    /\ Input /\ Uncovered
    /\ shown \in {"OPENING", "ADJUSTING", "CLOSING"}
    /\ Button # NoChange
    /\ tx.type \in {"idle", "failed", "cancelled"}    \* bound: one at a time
    /\ tx' = [id |-> CASE shown = "OPENING"   -> "trove-creation"
                       [] shown = "ADJUSTING" -> "trove-adjustment"
                       [] OTHER               -> "trove-closure",
              type |-> "waitingForApproval", change |-> Button,
              receipt |-> "none"]
    /\ UNCHANGED <<chainVars, store, viewVars, form, manager, drawn, effects, crashed,
                   overlooked, hasty>>

TxMoves(t) ==
    /\ tx' = t
    /\ dirty' = TRUE
    /\ UNCHANGED <<chainVars, store, inputs, viewVars, form, manager, drawn,
                   effects, crashed, overlooked, hasty>>

Approve == /\ tx.type = "waitingForApproval"
           /\ TxMoves([tx EXCEPT !.type = "waitingForConfirmation"])
Deny    == /\ tx.type = "waitingForApproval"
           /\ TxMoves([tx EXCEPT !.type = "cancelled"])

\* The monitor gets the receipt; a failed transaction is put away in the end.
Confirmed ==
    /\ tx.type = "waitingForConfirmation" /\ tx.receipt # "none"
    /\ TxMoves([tx EXCEPT !.type = IF tx.receipt = "succeeded"
                                   THEN "confirmedOneShot" ELSE "failed"])
Dismiss == tx.type \in {"failed", "cancelled"} /\ TxMoves(Idle)

\* External: a block applies the change if it still can be.
Mined ==
    /\ tx.type = "waitingForConfirmation" /\ tx.receipt = "none"
    /\ LET closes == tx.change.type = "closure"
           legal == /\ (tx.change.type = "creation") <=> (chain.status # "open")
                    /\ OrZero(tx.change.withdrawCollateral) <= chain.trove.collateral
                    /\ closes \/ OrZero(tx.change.repayDebtToken)
                                     <= Less(chain.trove.debt, MINIMUM_DEBT)
       IN IF legal
          THEN /\ chain' = Chains(Apply(chain.trove, tx.change, Rate(chain)),
                                  IF closes THEN "closedByOwner" ELSE "open", Touch)
               /\ tx' = [tx EXCEPT !.receipt = "succeeded"]
          ELSE /\ tx' = [tx EXCEPT !.receipt = "failed"]
               /\ UNCHANGED chain
    /\ hasty' = (hasty \/ Reopens(chain'))
    /\ UNCHANGED <<news, store, inputs, viewVars, form, manager, drawn, effects,
                   dirty, crashed, overlooked>>

User ==
    \/ \E e \in {"OPEN_TROVE_PRESSED", "CANCEL_ADJUST_TROVE_PRESSED",
               "ADJUST_TROVE_PRESSED", "CLOSE_TROVE_PRESSED",
               "TROVE_SURPLUS_COLLATERAL_CLAIMED"} : Press(e)
    \/ \E c \in CollateralInputs : TypeCollateral(c)
    \/ \E a \in DebtInputs : TypeAmount(a)
    \/ \E u \in Units : Retype(u)
    \/ PressMax \/ PressReset \/ Confirm

Wallet == Approve \/ Deny \/ Mined \/ Confirmed \/ Dismiss

-----------------------------------------------------------------------------
(* The page is loaded: the first commit has been drawn.                    *)

FirstDrawn(s) ==
    [store |-> s, form |-> NewForm(InitialView(s.status), s),
     manager |-> NewManager(s.trove), change |-> NoChange, type |-> "idle",
     seen |-> "idle", status |-> s.status]

Init ==
    /\ \E c \in CollateralInputs \ {0}, p \in Prices :
          chain \in {[trove |-> Trove(c, MINIMUM_DEBT), status |-> "open",
                     price |-> p, minute |-> 0, touched |-> 0],
                    [trove |-> EmptyTrove, status |-> "nonExistent",
                     price |-> p, minute |-> 0, touched |-> 0]}
    /\ store = chain
    /\ news = 0 /\ inputs = 0
    /\ view = InitialView(store.status) /\ viewRef = view /\ shown = view
    /\ drawn = FirstDrawn(store)
    /\ form = drawn.form /\ manager = drawn.manager
    /\ tx = Idle
    /\ effects = {"draw", "mount", "status", "subscribe"}
    /\ dirty = FALSE /\ crashed = FALSE /\ overlooked = FALSE /\ hasty = FALSE

\* The user loads the page again after a crash.
Reload ==
    /\ crashed
    /\ store' = chain
    /\ view' = InitialView(chain.status) /\ viewRef' = view' /\ shown' = view'
    /\ drawn' = FirstDrawn(chain)
    /\ form' = drawn'.form /\ manager' = drawn'.manager
    /\ tx' = Idle
    /\ effects' = {"draw", "mount", "status", "subscribe"}
    /\ dirty' = FALSE /\ crashed' = FALSE /\ overlooked' = FALSE /\ hasty' = FALSE
    /\ UNCHANGED <<chainVars, inputs>>

Next == World \/ StoreUpdate \/ Crash \/ Draw \/ Effects \/ User \/ Wallet \/ Reload

Spec == Init /\ [][Next]_vars

-----------------------------------------------------------------------------
(* Properties                                                              *)

Quiescent == ~dirty /\ effects = {} /\ ~crashed

\* When the page has settled, the change that the button would send makes of
\* the Trove what the fields show: the same collateral, and a total debt that
\* removing and adding the fee has rounded by at most one unit.
ButtonDoesWhatIsShown ==
    Quiescent /\ shown \in {"OPENING", "ADJUSTING"} /\ Button # NoChange =>
        LET from   == IF shown = "OPENING" THEN EmptyTrove ELSE store.trove
            wanted == IF shown = "OPENING" THEN OpenedTrove(store, form)
                      ELSE AdjustedTrove(store, form)
            result == Apply(from, Button, Rate(store))
        IN /\ result.collateral = wanted.collateral
           /\ result.debt - wanted.debt \in {0, 1}

\* Fields that the user has not touched follow the Trove through every
\* redistribution and price: they never offer a change of their own accord.
UntouchedFieldsFollow ==
    Quiescent /\ shown = "ADJUSTING" /\ ~form.touched =>
        ~IsDirty(store, form) /\ Button = NoChange

\* The panel that closes a Trove ("Only used for closing Troves now") edits it
\* into nothing else, whatever news and whatever end of a transaction its
\* reducer carries the edit over.
ClosingOnlyCloses ==
    shown = "CLOSING" =>
        WhatChanged(manager.original, manager.edited, Rate(store)).type
            \in {"none", "closure"}

\* When all is settled and known, the page shows the panels of an open Trove
\* exactly when the Trove is open, whatever its transaction has come to, unless
\* a button of a view that was about to be replaced has been pressed or the
\* Trove was opened again before the page was done with its closure.  A status
\* that came before the page had subscribed to the store is made up for by the
\* next change of the status or of the view, and by nothing else.
ViewFollowsTheTrove ==
    Quiescent /\ store = chain /\ ~hasty /\ ~overlooked =>
        (shown \in {"ACTIVE", "ADJUSTING", "CLOSING"} <=> store.status = "open")

\* Trove.ts: netDebt throws "netDebt should not be used when debt < 20".  The
\* panel Adjusting uses it of a Trove that was closed under it.
NetDebtIsNotUsedBelowReserve == ~crashed

=============================================================================
