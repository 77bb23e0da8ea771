------------------------- MODULE TransactionMonitor -------------------------
(***************************************************************************)
(* dev-frontend/src/components/Transaction.tsx: the one transaction state  *)
(* shared by all components, the buttons that send transactions, and       *)
(* TransactionMonitor, whose effects wait for the receipt and clear the    *)
(* state.  setTransactionState() takes effect when React renders: effects  *)
(* see the rendered state, asynchronous code may set the state again       *)
(* before that, and then an intermediate state is never rendered.          *)
(***************************************************************************)
EXTENDS SentTransaction, Naturals, FiniteSets

CONSTANTS
    Txs,          \* bound: the times that a button is pressed
    Id(_),        \* the id of the button
    Guarded,      \* those made with <Transaction>, disabled while one waits
    None,         \* no transaction
    ChainFates,   \* bound: the fates the chain chooses from
    MaxFailures   \* bound: the receipts that cannot be had

ASSUME TransactionsAssumption ==
    /\ Guarded \subseteq Txs
    /\ None \notin Txs
    /\ ChainFates \subseteq Fates
    /\ MaxFailures \in Nat

VARIABLES
    transactionState,  \* what setTransactionState() was last called with
    rendered,          \* the state the effects last saw
    sending,           \* per press of a button: how far send() is
    fate,              \* external: what became of it on the chain
    monitor,           \* waitForConfirmation(): its progress, cancelled, finished
    clearing,          \* the timer of the state's five seconds is armed
    failures,          \* external: receipts that could not be had
    overlapped         \* history: a button was pressed under a transaction

txVars == <<transactionState, rendered, sending, fate, monitor, clearing,
            failures, overlapped>>

Waiting == {"waitingForApproval", "waitingForConfirmation"}
Over == {"confirmed", "failed", "cancelled"}
Types == Waiting \cup Over \cup {"idle", "confirmedOneShot"}

Idle == [type |-> "idle", tx |-> None]
At(type, t) == [type |-> type, tx |-> t]

TxInit ==
    /\ transactionState = Idle
    /\ rendered = Idle
    /\ sending = [t \in Txs |-> "no"]
    /\ fate = [t \in Txs |-> "none"]
    /\ monitor = [t \in Txs |-> "none"]
    /\ clearing = FALSE
    /\ failures = 0
    /\ overlapped = FALSE

IdOf(s) == IF s.type = "idle" THEN None ELSE Id(s.tx)
TxOf(s) == IF s.type = "waitingForConfirmation" THEN s.tx ELSE None

\* The monitoring effect depends on id and tx, the clearing one on type and id.
MonitorAgain(s) == IdOf(s) # IdOf(rendered) \/ TxOf(s) # TxOf(rendered)
ClearAgain(s) == s.type # rendered.type \/ IdOf(s) # IdOf(rendered)

\* The cleanup of the monitoring effect cancels what is not finished.
Cancels(s) ==
    /\ MonitorAgain(s)
    /\ TxOf(rendered) # None
    /\ monitor[TxOf(rendered)] = "waiting"

\* Mutant: the effect that clears the state has no cleanup.
RenderKeepsTimer(s) ==
    /\ rendered' = s
    /\ monitor' = [t \in Txs |->
          IF MonitorAgain(s) /\ TxOf(s) = t THEN "waiting"
          ELSE IF Cancels(s) /\ TxOf(rendered) = t THEN "cancelled"
          ELSE monitor[t]]
    /\ clearing' = (clearing \/ s.type \in Over)
    /\ transactionState' =
          IF s.type = "confirmedOneShot" THEN [s EXCEPT !.type = "confirmed"]
          ELSE IF Cancels(s) THEN Idle
          ELSE s

\* React renders state s: the cleanups run, then the effects.
Render(s) ==
    /\ rendered' = s
    /\ monitor' = [t \in Txs |->
          IF MonitorAgain(s) /\ TxOf(s) = t THEN "waiting"
          ELSE IF Cancels(s) /\ TxOf(rendered) = t THEN "cancelled"
          ELSE monitor[t]]
    /\ clearing' = IF ClearAgain(s) THEN s.type \in Over ELSE clearing
    /\ transactionState' =
          IF s.type = "confirmedOneShot" THEN [s EXCEPT !.type = "confirmed"]
          ELSE IF Cancels(s) THEN Idle
          ELSE s

Rerender ==
    /\ transactionState # rendered
    /\ Render(transactionState)
    /\ UNCHANGED <<sending, fate, failures, overlapped>>

\* Between the press of its button and the rendering of its outcome.
Unfinished(t) ==
    \/ sending[t] \in {"asking", "submitted"}
    \/ sending[t] = "sent" /\ monitor[t] # "finished"
    \/ rendered.tx = t /\ rendered.type \in Waiting

\* sendTransaction(), up to its await.  What a click sets is rendered, effects
\* included, before anything else runs.
Press(t) ==
    /\ sending[t] = "no"
    /\ t \in Guarded => rendered.type \notin Waiting
    /\ sending' = [sending EXCEPT ![t] = "asking"]
    /\ Render(At("waitingForApproval", t))
    /\ overlapped' = (overlapped \/ \E u \in Txs : Unfinished(u))
    /\ UNCHANGED <<fate, failures>>

\* The user approves, and the wallet hands the transaction to its node.
Approve(t) ==
    /\ sending[t] = "asking"
    /\ sending' = [sending EXCEPT ![t] = "submitted"]
    /\ UNCHANGED <<transactionState, rendered, fate, monitor, clearing, failures,
                   overlapped>>

\* sendTransaction() after its await.
SendReturns(t) ==
    /\ sending[t] = "submitted"
    /\ sending' = [sending EXCEPT ![t] = "sent"]
    /\ transactionState' = At("waitingForConfirmation", t)
    /\ UNCHANGED <<rendered, fate, monitor, clearing, failures, overlapped>>

\* Its catch: the user denied, or anything else went wrong.
SendThrows(t) ==
    /\ sending[t] = "asking"
    /\ sending' = [sending EXCEPT ![t] = "unsent"]
    /\ \E type \in {"cancelled", "failed"} : transactionState' = At(type, t)
    /\ UNCHANGED <<rendered, fate, monitor, clearing, failures, overlapped>>

\* The chain decides, at the earliest when the transaction is submitted.
Decide(t) ==
    /\ sending[t] \in {"submitted", "sent"}
    /\ fate[t] = "none"
    /\ \E f \in ChainFates : fate' = [fate EXCEPT ![t] = f]
    /\ UNCHANGED <<transactionState, rendered, sending, monitor, clearing, failures,
                   overlapped>>

\* waitForConfirmation() after its first await, when it is not cancelled.
ReceiptSucceeded(t) ==
    /\ monitor[t] = "waiting" /\ fate[t] # "none"
    /\ WaitForReceipt(fate[t]) = "succeeded"
    /\ monitor' = [monitor EXCEPT ![t] = "finished"]
    /\ transactionState' = At("confirmedOneShot", t)
    /\ UNCHANGED <<rendered, sending, fate, clearing, failures, overlapped>>

\* A failed transaction is finished, but its failure is not yet known.
ReceiptFailed(t) ==
    /\ monitor[t] = "waiting" /\ fate[t] # "none"
    /\ WaitForReceipt(fate[t]) = "failed"
    /\ monitor' = [monitor EXCEPT ![t] = "asking for the reason"]
    /\ UNCHANGED <<transactionState, rendered, sending, fate, clearing, failures,
                   overlapped>>

\* waitForConfirmation() after its second await: nothing cancels it any more.
ReasonReturns(t) ==
    /\ monitor[t] = "asking for the reason"
    /\ monitor' = [monitor EXCEPT ![t] = "finished"]
    /\ transactionState' = At("failed", t)
    /\ UNCHANGED <<rendered, sending, fate, clearing, failures, overlapped>>

\* Mutant: the cancellation of a transaction is only logged.
ReceiptCancelledSilently(t) ==
    /\ monitor[t] = "waiting" /\ fate[t] # "none"
    /\ WaitForReceipt(fate[t]) = "EthersTransactionCancelledError"
    /\ monitor' = [monitor EXCEPT ![t] = "finished"]
    /\ UNCHANGED <<transactionState, rendered, sending, fate, clearing, failures,
                   overlapped>>

ReceiptCancelled(t) ==
    /\ monitor[t] = "waiting" /\ fate[t] # "none"
    /\ WaitForReceipt(fate[t]) = "EthersTransactionCancelledError"
    /\ monitor' = [monitor EXCEPT ![t] = "finished"]
    /\ transactionState' = At("cancelled", t)
    /\ UNCHANGED <<rendered, sending, fate, clearing, failures, overlapped>>

ReceiptUnavailable(t) ==
    /\ monitor[t] = "waiting"
    /\ failures < MaxFailures
    /\ failures' = failures + 1
    /\ monitor' = [monitor EXCEPT ![t] = "finished"]
    /\ transactionState' = At("failed", t)
    /\ UNCHANGED <<rendered, sending, fate, clearing, overlapped>>

\* Five seconds later, unless the effect was cleaned up.
Clear ==
    /\ clearing
    /\ clearing' = FALSE
    /\ transactionState' = Idle
    /\ UNCHANGED <<rendered, sending, fate, monitor, failures, overlapped>>

Monitoring(t) ==
    \/ ReceiptSucceeded(t)
    \/ ReceiptFailed(t)
    \/ ReasonReturns(t)
    \/ ReceiptCancelled(t)

TxNext ==
    \/ Rerender
    \/ \E t \in Txs : Press(t)
    \/ \E t \in Txs : Approve(t)
    \/ \E t \in Txs : SendReturns(t)
    \/ \E t \in Txs : SendThrows(t)
    \/ \E t \in Txs : Decide(t)
    \/ \E t \in Txs : Monitoring(t)
    \/ \E t \in Txs : ReceiptUnavailable(t)
    \/ Clear

-----------------------------------------------------------------------------
\* The types of the state; besides, the timer only runs for a state that is
\* over, and only what was sent has a fate and is monitored.
TxTypeOK ==
    /\ transactionState \in [type : Types, tx : Txs \cup {None}]
    /\ rendered \in [type : Types, tx : Txs \cup {None}]
    /\ transactionState.type # "idle" => transactionState.tx \in Txs
    /\ rendered.type # "idle" => rendered.tx \in Txs
    /\ sending \in [Txs -> {"no", "asking", "submitted", "sent", "unsent"}]
    /\ fate \in [Txs -> ChainFates \cup {"none"}]
    /\ monitor \in [Txs -> {"none", "waiting", "asking for the reason",
                            "finished", "cancelled"}]
    /\ clearing \in BOOLEAN
    /\ failures \in 0..MaxFailures
    /\ overlapped \in BOOLEAN
    /\ clearing => rendered.type \in Over
    /\ \A t \in Txs : monitor[t] # "none" => sending[t] = "sent"
    /\ \A t \in Txs : fate[t] # "none" => sending[t] \in {"submitted", "sent"}

\* Whatever transactions overlap, the state never claims what did not happen:
\* only what was sent waits for its confirmation, a confirmed transaction has
\* succeeded, itself or with another price, and a cancelled one has not.
ShownIsTrue ==
    \A s \in {transactionState, rendered} :
        /\ s.type = "waitingForConfirmation" => sending[s.tx] = "sent"
        /\ s.type \in {"confirmedOneShot", "confirmed"} =>
              fate[s.tx] \in {"succeeded", "repriced"}
        /\ s.type = "cancelled" =>
              sending[s.tx] = "unsent" \/ fate[s.tx] \in {"cancelled", "replaced"}

\* The state stays with a transaction until its outcome is rendered, and the
\* buttons of <Transaction> stay disabled, unless a button is pressed under it.
StateKeptWhileUnfinished ==
    ~overlapped => \A t \in Txs : Unfinished(t) => /\ transactionState.tx = t
                                                  /\ rendered.type \in Waiting

\* Only one receipt is waited for at a time, that of the rendered transaction.
OneMonitor ==
    \A t \in Txs : monitor[t] = "waiting" => rendered = At("waitingForConfirmation", t)
=============================================================================
