---------------------------- MODULE StakingView ----------------------------
(***************************************************************************)
(* StakingViewProvider (dev-frontend/src/components/Staking/context) on    *)
(* top of TransactionMonitor and the store: the staking panel follows the  *)
(* rendered transaction state to know that a change is pending, and the    *)
(* store to know that it was committed.                                    *)
(***************************************************************************)
EXTENDS TransactionMonitor

CONSTANTS
    StakeId,      \* the id of the panel's own transactions
    Claims(_),    \* does a transaction only claim gains
    MaxGains      \* bound: how often gains accrue

ASSUME StakingAssumption == IsFiniteSet(Txs) /\ MaxGains \in Nat

VARIABLES
    chain,           \* external: the stake and its gains on the chain
    gains,           \* external: how often gains have accrued
    stake,           \* protocolTokenStake, as the store last told it
    changePending,
    adjusting,
    outrun           \* history: the store was ahead of the wallet, or a claim
                     \* makes no difference to what it last told

viewVars == <<chain, gains, stake, changePending, adjusting, outrun>>
vars == <<txVars, viewVars>>

StakeTxs == {t \in Txs : Id(t) = StakeId}

Init ==
    /\ TxInit
    /\ chain = [staked |-> 0, gain |-> 0]
    /\ gains = 0
    /\ stake = chain
    /\ changePending = FALSE
    /\ adjusting = FALSE
    /\ outrun = FALSE

\* useMyTransactionState("stake")
MyType(s) == IF s.type # "idle" /\ IdOf(s) = StakeId THEN s.type ELSE "idle"

\* Mutant: a denied or supplanted transaction does not abort the change.
FollowFailuresOnly ==
    /\ changePending' =
          IF MyType(rendered') = MyType(rendered) THEN changePending
          ELSE IF MyType(rendered') \in Waiting THEN TRUE
          ELSE IF MyType(rendered') = "failed" THEN FALSE
          ELSE changePending
    /\ UNCHANGED <<gains, stake, adjusting>>

\* The effect on the type of the panel's own transaction state.
Follow ==
    /\ changePending' =
          IF MyType(rendered') = MyType(rendered) THEN changePending
          ELSE IF MyType(rendered') \in Waiting THEN TRUE
          ELSE IF MyType(rendered') \in {"failed", "cancelled"} THEN FALSE
          ELSE changePending
    /\ UNCHANGED <<gains, stake, adjusting>>

\* The store has yet to tell a change that the reducer takes for a commit.
Committed == chain.staked # stake.staked \/ chain.gain < stake.gain

\* External: a stake transaction that succeeds changes the stake, or only
\* claims, and pays out the gains either way.
Stakes ==
    LET done == {t \in StakeTxs : /\ fate[t] = "none"
                                  /\ fate'[t] \in {"succeeded", "repriced"}}
    IN  /\ chain' = IF done = {} THEN chain
                    ELSE [staked |-> chain.staked
                                     + Cardinality({t \in done : ~Claims(t)}),
                          gain |-> 0]
        /\ outrun' = (outrun \/ (done # {} /\ ~Committed'))

\* Its own buttons are in the panel: "Confirm" while adjusting, "Claim gains"
\* otherwise, enabled when there are some; a pending change covers them.
Enabled(t) ==
    /\ ~changePending
    /\ IF Claims(t) THEN ~adjusting /\ stake.gain > 0 ELSE adjusting

OwnButtons ==
    \A t \in StakeTxs : sending[t] = "no" /\ sending'[t] # "no" => Enabled(t)

TransactionStep == TxNext /\ OwnButtons /\ Follow /\ Stakes

\* External: a fee is collected and the stake gains by it.
Accrue ==
    /\ gains < MaxGains
    /\ gains' = gains + 1
    /\ chain' = [chain EXCEPT !.gain = @ + 1]
    /\ outrun' = (outrun \/ chain.gain < stake.gain)
    /\ UNCHANGED <<txVars, stake, changePending, adjusting>>

\* External: a staking transaction was mined, but is not yet rendered as one
\* that waits for its confirmation.
MinedUnawares ==
    \E t \in StakeTxs : /\ fate[t] \in {"succeeded", "repriced"}
                        /\ monitor[t] = "none"

\* The store tells the newest stake: the reducer's "updateStore".
UpdateStore ==
    /\ chain # stake
    /\ stake' = chain
    /\ adjusting' = FALSE
    /\ changePending' = (changePending /\ ~Committed)
    /\ outrun' = (outrun \/ MinedUnawares)
    /\ UNCHANGED <<txVars, chain, gains>>

\* "Adjust" or, with no stake and hence no cover, "Start staking".
StartAdjusting ==
    /\ ~adjusting
    /\ adjusting' = TRUE
    /\ UNCHANGED <<txVars, chain, gains, stake, changePending, outrun>>

\* "Cancel": a pending change covers it.
CancelAdjusting ==
    /\ adjusting
    /\ ~changePending
    /\ adjusting' = FALSE
    /\ UNCHANGED <<txVars, chain, gains, stake, changePending, outrun>>

Next ==
    \/ TransactionStep
    \/ Accrue
    \/ UpdateStore
    \/ StartAdjusting
    \/ CancelAdjusting

Spec == Init /\ [][Next]_vars

Step(A) == A /\ Follow /\ Stakes

\* React renders, promises settle once the chain has decided, timers fire and
\* the store follows the chain.  The user need not press or approve anything,
\* and the chain need not decide.
Fairness ==
    /\ WF_vars(Step(Rerender))
    /\ WF_vars(Step(Clear))
    /\ WF_vars(UpdateStore)
    /\ \A t \in Txs : /\ WF_vars(Step(SendReturns(t)))
                      /\ WF_vars(Step(Monitoring(t)))

FairSpec == Spec /\ Fairness

-----------------------------------------------------------------------------
TypeOK ==
    /\ TxTypeOK
    /\ stake \in [staked : Nat, gain : Nat]
    /\ chain \in [staked : Nat, gain : Nat]
    /\ gains \in 0..MaxGains
    /\ changePending \in BOOLEAN
    /\ adjusting \in BOOLEAN
    /\ outrun \in BOOLEAN

\* A transaction that was sent and that the chain has decided is reported: the
\* rendered state comes to show its outcome, unless transactions overlap.
EveryOutcomeIsShown ==
    \A t \in Txs :
        sending[t] = "sent" /\ monitor[t] # "finished" /\ fate[t] # "none"
            ~> overlapped \/ (rendered.tx = t /\ rendered.type \notin Waiting)

\* "You must wait for confirmation": a button made with <Transaction> is never
\* enabled while another transaction is unfinished.  The code does not keep
\* this: the cleanup of one transaction sets the state of the next to idle.
MustWait ==
    [][\A t \in Guarded : sending[t] = "no" /\ sending'[t] # "no" =>
          \A u \in Txs : ~Unfinished(u)]_vars

\* Something is left of a staking transaction: it is unfinished, its outcome is
\* yet to be rendered, or the store has yet to tell the stake.
StakingTxPending ==
    \/ \E t \in StakeTxs : Unfinished(t)
    \/ transactionState # rendered
    \/ stake # chain

\* "Indicates that a staking TX is pending": the overlay does not stay on the
\* panel when nothing is left that could remove it.  The code does not keep
\* this: the wallet may tell of the outcome before or after the store.
PendingIsTrue == changePending => StakingTxPending

\* And it is on the panel from the press of a button until the chain decides
\* and, when that is a commit, until the store tells it.
PendingIsShown ==
    Committed \/ (\E t \in StakeTxs : Unfinished(t) /\ fate[t] = "none")
        => changePending

\* As long as transactions do not overlap, the overlay stays as long as it has
\* to, unless a receipt cannot be had; and no longer, unless the store tells of
\* a transaction before the wallet does, or a claim makes no difference to it.
PendingIsTrueInOrder ==
    ~overlapped => /\ ~outrun => PendingIsTrue
                   /\ failures = 0 => PendingIsShown
=============================================================================
