---------------------------- MODULE DepositEditor ----------------------------
(***************************************************************************)
(* The Stability Pool page of the dev-frontend: StabilityViewProvider and  *)
(* StabilityDepositManager, in the phases of React that TroveEditor        *)
(* describes.  The reducer cannot tell whose change it is told of: it      *)
(* takes the fields that only the depositor's own calls move for a sign.   *)
(***************************************************************************)
EXTENDS TroveAlgebra

CONSTANTS
    DepositInputs,      \* what the user types
    TokenBalance,       \* debtTokenBalance
    Loss, Gain,         \* external: what a liquidation takes and gives
    MaxDepositNews, MaxDepositInputs        \* bounds

ASSUME DepositAssumption ==
    /\ DepositInputs \subseteq Nat
    /\ {TokenBalance, Loss, Gain, MaxDepositNews, MaxDepositInputs} \subseteq Nat

VARIABLES
    pool,           \* external: the deposit on the chain, and whether there
                    \* are undercollateralized Troves
    known,          \* the same, as the store last read it
    poolNews, poolInputs,
    poolView, poolViewRef, poolShown,
    deposit,        \* the reducer's state
    poolTx,         \* the transaction "stability-deposit"
    poolDrawn,      \* what the last commit closed over
    poolEffects, poolDirty,
    poolOverlooked, \* the provider has not drawn that the deposit was emptied or
                    \* made: it came before its selector subscribed, and nothing
                    \* else has asked it to render
    poolHasty       \* history: a button was pressed too early (see TroveEditor), a
                    \* deposit was made in another window, which no view notices, or
                    \* one was emptied there while the page was busy; or the page's
                    \* own transaction came too late to add to one that was emptied
                    \* there, and made it again

poolEnv == <<pool, poolNews>>
poolViews == <<poolView, poolViewRef, poolShown>>
depositVars == <<pool, known, poolNews, poolInputs, poolView, poolViewRef,
                 poolShown, deposit, poolTx, poolDrawn, poolEffects, poolDirty,
                 poolOverlooked, poolHasty>>

Deposit(initial, current, gain, reward) ==
    [initial |-> initial, current |-> current, gain |-> gain, reward |-> reward]
NoDeposit == Deposit(0, 0, 0, 0)
NoPoolTx == [type |-> "idle", change |-> NoAmountChange, receipt |-> "none"]
Pending == {"waitingForApproval", "waitingForConfirmation"}

PoolTransitions ==
    [NONE       |-> [DEPOSIT_PRESSED |-> "DEPOSITING"],
     DEPOSITING |-> [CANCEL_PRESSED |-> "NONE", DEPOSIT_CONFIRMED |-> "ACTIVE"],
     ACTIVE     |-> [REWARDS_CLAIMED |-> "ACTIVE", DEPOSIT_EMPTIED |-> "NONE",
                     ADJUST_DEPOSIT_PRESSED |-> "ADJUSTING"],
     ADJUSTING  |-> [CANCEL_PRESSED |-> "ACTIVE", DEPOSIT_CONFIRMED |-> "ACTIVE",
                     DEPOSIT_EMPTIED |-> "NONE"]]

\* Mutant: an emptied deposit does not close the editor.
PoolTransitionLost(v, event) ==
    IF event \in DOMAIN PoolTransitions[v] /\ ~(v = "ADJUSTING" /\ event = "DEPOSIT_EMPTIED")
    THEN PoolTransitions[v][event] ELSE v

PoolTransition(v, event) ==
    IF event \in DOMAIN PoolTransitions[v] THEN PoolTransitions[v][event] ELSE v

\* validateStabilityDepositChange()
ValidDepositChange(s, original, edited) ==
    LET change == AmountChanged(original.current, edited)
    IN IF \/ change.up # Absent /\ change.up > TokenBalance
          \/ change.down # Absent /\ s.undercollateralized
       THEN NoAmountChange ELSE change

NewDepositManager(d) ==
    [original |-> d, edited |-> d.current, changePending |-> FALSE,
     subscribed |-> FALSE, touched |-> FALSE]

\* Mutant: the amount typed stays as it is.
ReduceDepositKeeping(m, old, new) ==
    LET committed == \/ new.initial # m.original.initial
                     \/ new.current > m.original.current
                     \/ new.gain < m.original.gain
                     \/ new.reward < m.original.reward
    IN IF new = old THEN m
       ELSE IF m.changePending /\ committed
       THEN [m EXCEPT !.original = new, !.edited = new.current,
                      !.changePending = FALSE, !.touched = FALSE]
       ELSE [m EXCEPT !.original = new]

\* The case "updateStore" of the reducer.
ReduceDeposit(m, old, new) ==
    LET committed == \/ new.initial # m.original.initial
                     \/ new.current > m.original.current
                     \/ new.gain < m.original.gain
                     \/ new.reward < m.original.reward
    IN IF new = old THEN m
       ELSE IF m.changePending /\ committed
       THEN [m EXCEPT !.original = new, !.edited = new.current,
                      !.changePending = FALSE, !.touched = FALSE]
       ELSE [m EXCEPT !.original = new, !.edited =
                ApplyAmount(new.current, AmountChanged(m.original.current, @))]

-----------------------------------------------------------------------------
(* External: the pool, and the transaction on its way into a block.        *)

PoolNews(p) ==
    /\ poolNews < MaxDepositNews
    /\ poolNews' = poolNews + 1
    /\ pool' = p
    /\ poolHasty' = \/ poolHasty
                    \/ DepositIsEmpty(pool.deposit) /\ ~DepositIsEmpty(p.deposit)
                    \/ /\ ~DepositIsEmpty(pool.deposit) /\ DepositIsEmpty(p.deposit)
                       /\ DepositIsEmpty(poolDrawn.deposit) \/ poolTx # NoPoolTx
    /\ UNCHANGED <<known, poolInputs, poolViews, deposit, poolTx, poolDrawn,
                   poolEffects, poolDirty, poolOverlooked>>

Liquidation ==
    /\ pool.deposit.current > 0
    /\ PoolNews([pool EXCEPT !.deposit.current = Less(@, Loss),
                             !.deposit.gain = @ + Gain, !.deposit.reward = @ + 1])

SetElsewhere ==     \* in another window
    \E d \in DepositInputs : PoolNews([pool EXCEPT !.deposit = Deposit(d, d, 0, 0)])

PriceCrosses == PoolNews([pool EXCEPT !.undercollateralized = ~@])

DepositMined ==
    /\ poolTx.type = "waitingForConfirmation" /\ poolTx.receipt = "none"
    /\ IF pool.undercollateralized /\ poolTx.change.down # Absent
       THEN pool' = pool /\ poolTx' = [poolTx EXCEPT !.receipt = "failed"]
       ELSE /\ LET d == ApplyAmount(pool.deposit.current, poolTx.change)
               IN pool' = [pool EXCEPT !.deposit = Deposit(d, d, 0, 0)]
            /\ poolTx' = [poolTx EXCEPT !.receipt = "succeeded"]
    /\ poolHasty' = \/ poolHasty
                    \/ /\ DepositIsEmpty(pool.deposit) /\ ~DepositIsEmpty(pool'.deposit)
                       /\ poolView # "DEPOSITING"
    /\ UNCHANGED <<known, poolNews, poolInputs, poolViews, deposit, poolDrawn,
                   poolEffects, poolDirty, poolOverlooked>>

PoolTxMoves(t) ==
    /\ poolTx' = t
    /\ poolDirty' = TRUE
    /\ UNCHANGED <<poolEnv, known, poolInputs, poolViews, deposit, poolDrawn,
                   poolEffects, poolOverlooked, poolHasty>>

DepositWallet ==
    \/ poolTx.type = "waitingForApproval"
       /\ PoolTxMoves([poolTx EXCEPT !.type = "waitingForConfirmation"])
    \/ poolTx.type = "waitingForApproval"
       /\ PoolTxMoves([poolTx EXCEPT !.type = "cancelled"])
    \/ poolTx.type = "waitingForConfirmation" /\ poolTx.receipt # "none"
       /\ PoolTxMoves([poolTx EXCEPT !.type =
              IF poolTx.receipt = "succeeded" THEN "confirmedOneShot" ELSE "failed"])
    \/ poolTx.type \in {"failed", "cancelled"} /\ PoolTxMoves(NoPoolTx)

-----------------------------------------------------------------------------
(* The program                                                             *)

Editing == poolShown \in {"DEPOSITING", "ADJUSTING"}

\* The selector of the provider is subscribed by the effects of the page load
\* (see TroveEditor).
PoolListening == "subscribe" \notin poolEffects

SameEmptiness(a, b) == DepositIsEmpty(a) <=> DepositIsEmpty(b)

PoolStoreUpdate ==
    /\ known # pool
    /\ known' = pool
    /\ poolDirty' = (poolDirty \/ PoolListening)
    /\ poolOverlooked' = IF PoolListening
                         THEN poolOverlooked /\ pool.deposit = known.deposit
                         ELSE ~SameEmptiness(pool.deposit, poolDrawn.deposit)
    /\ deposit' = IF Editing /\ deposit.subscribed
                  THEN ReduceDeposit(deposit, known.deposit, pool.deposit)
                  ELSE deposit
    /\ UNCHANGED <<poolEnv, poolInputs, poolViews, poolTx, poolDrawn, poolEffects,
                   poolHasty>>

DrawPool ==
    /\ poolDirty /\ poolEffects = {}
    /\ LET edits(v) == v \in {"DEPOSITING", "ADJUSTING"}
           mounts == edits(poolView) /\ ~edits(poolShown)
           m == IF mounts THEN NewDepositManager(known.deposit) ELSE deposit
       IN /\ deposit' = m
          /\ poolOverlooked' = (poolOverlooked /\ poolView = poolShown)
          /\ poolDrawn' = [deposit |-> IF poolOverlooked' THEN poolDrawn.deposit
                                       ELSE known.deposit,
                           manager |-> m,
                           type |-> IF edits(poolView) THEN poolTx.type ELSE "idle",
                           seen |-> poolTx.type,
                           change |-> ValidDepositChange(known, m.original, m.edited)]
          /\ poolEffects' =
                {"draw"} \cup (IF mounts THEN {"mount"} ELSE {})
                \cup (IF poolDrawn'.type # poolDrawn.type \/ mounts THEN {"tx"} ELSE {})
                \cup (IF SameEmptiness(poolDrawn'.deposit, poolDrawn.deposit)
                      THEN {} ELSE {"status"})
    /\ poolShown' = poolView
    /\ poolDirty' = FALSE
    /\ UNCHANGED <<poolEnv, known, poolInputs, poolView, poolViewRef, poolTx,
                   poolHasty>>

RunPoolEffects ==
    /\ poolEffects # {}
    /\ deposit' = [deposit EXCEPT
            !.subscribed = @ \/ "mount" \in poolEffects,
            !.changePending =
                IF ~Editing \/ "tx" \notin poolEffects THEN @
                ELSE IF poolDrawn.type \in Pending THEN TRUE
                ELSE IF poolDrawn.type \in {"failed", "cancelled"} THEN FALSE ELSE @]
    /\ poolView' =
            IF "status" \in poolEffects /\ DepositIsEmpty(poolDrawn.deposit)
            THEN PoolTransition(poolShown, "DEPOSIT_EMPTIED")
            ELSE IF Editing /\ "tx" \in poolEffects /\ poolDrawn.type = "confirmedOneShot"
            THEN PoolTransition(poolViewRef, "DEPOSIT_CONFIRMED")
            ELSE poolView
    /\ poolViewRef' = poolShown
    /\ poolTx' = IF poolDrawn.seen = "confirmedOneShot" THEN NoPoolTx ELSE poolTx
    /\ poolDirty' = (poolDirty \/ deposit' # deposit \/ poolView' # poolShown
                               \/ poolTx' # poolTx)
    /\ poolEffects' = {}
    /\ UNCHANGED <<poolEnv, known, poolInputs, poolShown, poolDrawn, poolOverlooked,
                   poolHasty>>

PoolInput ==
    /\ poolInputs < MaxDepositInputs
    /\ poolInputs' = poolInputs + 1
    /\ ~(Editing /\ poolDrawn.manager.changePending)    \* the overlay
    /\ poolDirty' = TRUE
    /\ UNCHANGED <<poolEnv, known, poolViewRef, poolShown, poolDrawn, poolEffects,
                   poolOverlooked>>

PressPool(event) ==
    /\ PoolInput
    /\ event \in DOMAIN PoolTransitions[poolShown]
    /\ poolView' = PoolTransition(poolViewRef, event)
    /\ poolHasty' = (poolHasty \/ poolDirty \/ poolEffects # {} \/ poolTx # NoPoolTx)
    /\ UNCHANGED <<deposit, poolTx>>

TypeDeposit(d) ==
    /\ PoolInput /\ Editing
    /\ deposit' = [deposit EXCEPT !.edited = d, !.touched = TRUE]
    /\ UNCHANGED <<poolView, poolTx, poolHasty>>

\* StabilityDepositAction
ConfirmDeposit ==
    /\ PoolInput /\ Editing
    /\ poolDrawn.change # NoAmountChange
    /\ poolTx.type \in {"idle", "failed", "cancelled"}    \* bound: one at a time
    /\ poolTx' = [type |-> "waitingForApproval", change |-> poolDrawn.change,
                  receipt |-> "none"]
    /\ UNCHANGED <<poolView, deposit, poolHasty>>

DepositInit ==
    /\ pool \in [deposit : {NoDeposit, Deposit(Loss, Loss, 0, 0)},
                 undercollateralized : {FALSE}]
    /\ known = pool
    /\ poolNews = 0 /\ poolInputs = 0
    /\ poolView = (IF DepositIsEmpty(pool.deposit) THEN "NONE" ELSE "ACTIVE")
    /\ poolViewRef = poolView /\ poolShown = poolView
    /\ deposit = NewDepositManager(pool.deposit)
    /\ poolTx = NoPoolTx
    /\ poolDrawn = [deposit |-> pool.deposit, manager |-> deposit, type |-> "idle",
                    seen |-> "idle", change |-> NoAmountChange]
    /\ poolEffects = {"draw", "status", "subscribe"}
    /\ poolDirty = FALSE /\ poolOverlooked = FALSE /\ poolHasty = FALSE

DepositNext ==
    \/ Liquidation \/ SetElsewhere \/ PriceCrosses \/ DepositMined \/ DepositWallet
    \/ PoolStoreUpdate \/ DrawPool \/ RunPoolEffects
    \/ \E e \in {"DEPOSIT_PRESSED", "CANCEL_PRESSED", "ADJUST_DEPOSIT_PRESSED"} :
          PressPool(e)
    \/ \E d \in DepositInputs : TypeDeposit(d)
    \/ ConfirmDeposit

-----------------------------------------------------------------------------
(* Properties                                                              *)

PoolQuiescent == ~poolDirty /\ poolEffects = {}

\* An amount that the user has not touched follows the deposit through every
\* liquidation, and the editor then offers nothing.
UntouchedDepositFollows ==
    PoolQuiescent /\ Editing /\ deposit.subscribed /\ ~deposit.touched =>
        deposit.edited = deposit.original.current
        /\ poolDrawn.change = NoAmountChange

\* When all is settled and known, the page of an active deposit is not shown
\* for an empty one, unless another window made the deposit, or emptied it while
\* the page was busy or about to add to it.  A deposit emptied before the page
\* had subscribed to the store is noticed with its next change or that of the
\* view, and not before.
EmptyDepositIsNotShown ==
    PoolQuiescent /\ known = pool /\ poolTx = NoPoolTx /\ ~poolHasty /\ ~poolOverlooked =>
        (poolShown \in {"ACTIVE", "ADJUSTING"} => ~DepositIsEmpty(known.deposit))
=============================================================================
