--------------------------- MODULE RedemptionPanel ---------------------------
(***************************************************************************)
(* The redemption panel (dev-frontend/src/components/Redemption) below the *)
(* store's provider: an amount is entered, a second later the panel asks   *)
(* how much of it can be redeemed, and offers a button that sends the      *)
(* amount.  Answers may overtake each other, and blocks come meanwhile.    *)
(***************************************************************************)
EXTENDS StoreHooks

CONSTANTS
    Amounts,    \* what the user enters
    Truncated,  \* per block and amount: what findRedemptionHints() answers
    MaxEntries, \* bound: how often the user enters an amount
    None        \* no timer

ASSUME PanelAssumption ==
    /\ Amounts \subseteq Nat
    /\ None \notin Amounts
    /\ \A b \in Blocks : Selection[b].debtTokenBalance \in Nat
    /\ \A b \in Blocks, a \in Amounts : Truncated[b][a] \in Nat

VARIABLES
    debtToken,          \* the amount entered
    estimated,          \* estimatedDebtToken
    hintsPending,
    timer,              \* the amount that the timer will ask about
    asked,              \* how many requests are under way, per amount
    tx,                 \* myTransactionState.type
    changePending,
    estimatedOf,        \* history: the amount that the estimate is about
    overtaken,          \* history: an older answer came after the amount
    entries             \* bound

panelVars == <<debtToken, estimated, hintsPending, timer, asked, tx,
               changePending, estimatedOf, overtaken, entries>>
vars == <<hookVars, panelVars>>

Waiting == {"waitingForApproval", "waitingForConfirmation"}
TxTypes == {"idle", "failed", "cancelled", "confirmed"} \cup Waiting

PanelInit ==
    /\ debtToken = 0
    /\ estimated = 0
    /\ hintsPending = FALSE
    /\ timer = None
    /\ asked = [a \in Amounts |-> 0]
    /\ tx = "idle"
    /\ changePending = FALSE
    /\ estimatedOf = 0
    /\ overtaken = FALSE
    /\ entries = 0

-----------------------------------------------------------------------------
(* What is drawn                                                           *)

Balance == Selection[screen].debtTokenBalance

Adjusted == ~hintsPending /\ estimated # debtToken

Description ==
    IF debtToken > Balance THEN "exceeds"
    ELSE IF Adjusted /\ estimated = 0 THEN "tooLow"
    ELSE IF Adjusted THEN "adjusted"
    ELSE IF ~hintsPending /\ debtToken # 0 THEN "redeem"
    ELSE "none"

\* The button can be pressed: isValid, no hints pending, and no overlay.
Confirmable ==
    /\ child # "none"
    /\ Description \in {"adjusted", "redeem"}
    /\ ~hintsPending
    /\ ~changePending

-----------------------------------------------------------------------------
(* The amount                                                              *)

\* Mutant: the hints of the new amount are not awaited.
SetDebtTokenNotWaiting(amount) ==
    /\ debtToken' = amount
    /\ timer' = IF amount = 0 THEN None ELSE amount
    /\ hintsPending' = FALSE

\* Mutant: the cleanup stops the timer and goes on waiting for its hints.
SetDebtTokenStillWaiting(amount) ==
    /\ debtToken' = amount
    /\ timer' = IF amount = 0 THEN None ELSE amount
    /\ hintsPending' = (amount # 0 \/ hintsPending)

\* setDebtToken() and the effect that follows it: its cleanup stops the timer,
\* and an amount that is not zero starts another.
SetDebtToken(amount) ==
    /\ debtToken' = amount
    /\ timer' = IF amount = 0 THEN None ELSE amount
    /\ hintsPending' = (amount # 0)

Enter(amount) ==
    /\ ~changePending
    /\ entries < MaxEntries
    /\ entries' = entries + 1
    /\ SetDebtToken(amount)
    /\ overtaken' = FALSE
    /\ UNCHANGED <<estimated, asked, tx, changePending, estimatedOf>>

\* After a second.
TimerFires ==
    /\ timer # None
    /\ asked' = [asked EXCEPT ![timer] = @ + 1]
    /\ timer' = None
    /\ UNCHANGED <<debtToken, estimated, hintsPending, tx, changePending,
                   estimatedOf, overtaken, entries>>

\* An answer, whatever has been entered since.
Answer(amount) ==
    /\ asked[amount] > 0
    /\ asked' = [asked EXCEPT ![amount] = @ - 1]
    /\ estimated' = Truncated[head][amount]
    /\ estimatedOf' = amount
    /\ overtaken' = (amount # debtToken)
    /\ hintsPending' = FALSE
    /\ UNCHANGED <<debtToken, timer, tx, changePending, entries>>

-----------------------------------------------------------------------------
(* The transaction                                                         *)

\* The effect on myTransactionState.type: only a failure keeps the amount.
Follow(type) ==
    /\ tx' = type
    /\ changePending' = (type \in Waiting)
    /\ IF type \in Waiting \cup {"failed"}
       THEN UNCHANGED <<debtToken, timer, hintsPending>>
       ELSE SetDebtToken(0)
    /\ UNCHANGED <<estimated, asked, estimatedOf, overtaken, entries>>

Press == Confirmable /\ Follow("waitingForApproval")

Approve == tx = "waitingForApproval" /\ Follow("waitingForConfirmation")

Finish(type) ==
    /\ tx \in Waiting
    /\ type = "confirmed" => tx = "waitingForConfirmation"
    /\ Follow(type)

\* Five seconds later.
Clear ==
    /\ tx \in {"failed", "cancelled", "confirmed"}
    /\ Follow("idle")

PanelStep ==
    \/ \E a \in Amounts : Enter(a) \/ Answer(a)
    \/ TimerFires \/ Press \/ Approve \/ Clear
    \/ \E type \in {"failed", "cancelled", "confirmed"} : Finish(type)

-----------------------------------------------------------------------------
(* The panel is mounted and unmounted with the component of StoreHooks; a  *)
(* transaction goes on without it, and an answer comes to nothing.         *)

PanelMounts ==
    /\ debtToken' = 0 /\ estimated' = 0 /\ estimatedOf' = 0
    /\ hintsPending' = FALSE /\ overtaken' = FALSE
    /\ timer' = None
    /\ asked' = [a \in Amounts |-> 0]
    /\ changePending' = (tx \in Waiting)
    /\ UNCHANGED <<tx, entries>>

\* What happens to the transaction while the panel is not mounted.
TransactionGoesOn ==
    /\ child = "none"
    /\ \/ tx = "waitingForApproval" /\ tx' = "waitingForConfirmation"
       \/ tx \in Waiting /\ tx' \in {"failed", "cancelled"}
       \/ tx = "waitingForConfirmation" /\ tx' = "confirmed"
       \/ tx \in {"failed", "cancelled", "confirmed"} /\ tx' = "idle"
    /\ UNCHANGED <<debtToken, estimated, hintsPending, timer, asked,
                   changePending, estimatedOf, overtaken, entries>>

Init == HooksInit /\ PanelInit

Next ==
    \/ RenderChildren /\ PanelMounts
    \/ Leave /\ PanelMounts
    \/ Unmount /\ PanelMounts
    \/ TransactionGoesOn /\ UNCHANGED hookVars
    \/ HookStep /\ UNCHANGED panelVars
    \/ child # "none" /\ PanelStep /\ UNCHANGED hookVars

Spec == Init /\ [][Next]_vars

\* Effects run, the node answers, and timers fire; users need not do anything.
Fairness ==
    /\ WF_vars(StartStore /\ UNCHANGED panelVars)
    /\ WF_vars(RenderChildren /\ PanelMounts)
    /\ WF_vars(child # "none" /\ TimerFires /\ UNCHANGED hookVars)
    /\ \A b \in Blocks : WF_vars((Started(b) \/ Fetched(b)) /\ UNCHANGED panelVars)
    /\ \A a \in Amounts : WF_vars(child # "none" /\ Answer(a) /\ UNCHANGED hookVars)

FairSpec == Spec /\ Fairness

-----------------------------------------------------------------------------
(* Properties                                                              *)

TypeOK ==
    /\ head \in Blocks
    /\ (loading \cup fetching) \subseteq Blocks
    /\ state \in Blocks \cup {0}
    /\ provider \in {"none", "mounted", "waiting", "loaded"}
    /\ child \in {"none", "drawn", "subscribed"}
    /\ provider = "loaded" => state # 0
    /\ child # "none" => provider = "loaded" /\ {screen, state, reduced} \subseteq Blocks
    /\ {debtToken, estimated, estimatedOf} \subseteq Nat
    /\ timer \in Amounts \cup {None}
    /\ asked \in [Amounts -> Nat]
    /\ tx \in TxTypes

\* When the button offers to redeem an amount, the estimate that decides on it
\* is of that amount, whatever timers, answers and transactions came before,
\* unless an older answer has arrived since the amount was entered.
EstimateIsOfTheAmount ==
    Confirmable /\ debtToken # 0 /\ ~overtaken => estimatedOf = debtToken

\* The panel does not wait for hints for ever, however often the amount is
\* changed, put back or sent meanwhile, as long as the node answers.
HintsArrive == hintsPending ~> ~hintsPending

\* "The entered amount has been adjusted ... You will redeem": the amount that
\* Redemption.tsx shows is an estimate of the amount that its button redeems.
\* The code does not keep this: the estimate stays when the amount is put back.
ConfirmSendsWhatIsShown ==
    Confirmable /\ Description = "adjusted" => estimatedOf = debtToken
=============================================================================
