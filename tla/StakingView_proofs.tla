------------------------- MODULE StakingView_proofs -------------------------
(***************************************************************************)
(* Proofs about TransactionMonitor and StakingView, for any number of      *)
(* transactions, any buttons and any order of events.  The steps of        *)
(* TransactionMonitor are treated first; the staking panel only follows.   *)
(***************************************************************************)
EXTENDS StakingView, FiniteSetTheorems, TLAPS

\* What holds of the shared state by itself.
TxInv == TxTypeOK /\ ShownIsTrue /\ OneMonitor

\* A transaction state is a type and, unless idle, a transaction.
States == {s \in [type : Types, tx : Txs \cup {None}] : s.type # "idle" => s.tx \in Txs}

LEMMA AtIsState ==
    ASSUME NEW type \in Types, NEW t \in Txs
    PROVE  At(type, t) \in States /\ At(type, t).type = type /\ At(type, t).tx = t
  BY DEF At, States

LEMMA IdleIsState == Idle \in States /\ Idle.type = "idle"
  BY DEF Idle, States, Types

LEMMA TxInitInv == TxInit => TxInv
<1> SUFFICES ASSUME TxInit PROVE TxInv
  OBVIOUS
<1>1. 0 \in 0..MaxFailures
  BY TransactionsAssumption
<1>2. /\ Idle \in [type : Types, tx : Txs \cup {None}]
      /\ Idle.type = "idle"
  BY IdleIsState DEF States
<1>3. TxTypeOK
  BY <1>1, <1>2 DEF TxInit, TxTypeOK
<1>4. ShownIsTrue
  BY <1>2 DEF TxInit, ShownIsTrue
<1>5. OneMonitor
  BY DEF TxInit, OneMonitor
<1> QED
  BY <1>3, <1>4, <1>5 DEF TxInv

\* Rendering a state whose claims are true keeps one monitor, that of the
\* rendered transaction, and only ever shows what was true before.
LEMMA RenderInv ==
    ASSUME TxInv, NEW s \in States, Render(s),
           s.type = "waitingForConfirmation" => sending'[s.tx] = "sent",
           sending' \in [Txs -> {"no", "asking", "submitted", "sent", "unsent"}],
           \A t \in Txs : sending[t] = "sent" => sending'[t] = "sent",
           \A t \in Txs : fate[t] # "none" => sending'[t] \in {"submitted", "sent"},
           s.type \in {"confirmedOneShot", "confirmed"} =>
              fate[s.tx] \in {"succeeded", "repriced"},
           s.type = "cancelled" =>
              sending'[s.tx] = "unsent" \/ fate[s.tx] \in {"cancelled", "replaced"},
           UNCHANGED <<fate, failures>>, overlapped' \in BOOLEAN
    PROVE  TxInv'
<1>1. /\ rendered' = s
      /\ s \in [type : Types, tx : Txs \cup {None}]
      /\ s.type # "idle" => s.tx \in Txs
  BY DEF Render, States
<1>2. transactionState' \in {[s EXCEPT !.type = "confirmed"], Idle, s}
      /\ (s.type = "confirmedOneShot" => transactionState' = [s EXCEPT !.type = "confirmed"])
      /\ (s.type # "confirmedOneShot" => transactionState' \in {Idle, s})
  BY DEF Render
<1>3. /\ transactionState' \in [type : Types, tx : Txs \cup {None}]
      /\ transactionState'.type # "idle" => transactionState'.tx \in Txs
  BY <1>1, <1>2, IdleIsState DEF States, Types, Over, Waiting
<1>4. monitor' \in [Txs -> {"none", "waiting", "asking for the reason", "finished",
                            "cancelled"}]
  BY DEF Render, TxInv, TxTypeOK
<1>5. \A t \in Txs : monitor'[t] # "none" => sending'[t] = "sent"
  <2> SUFFICES ASSUME NEW t \in Txs, monitor'[t] # "none" PROVE sending'[t] = "sent"
    OBVIOUS
  <2>1. CASE TxOf(s) = t
    BY <2>1, TransactionsAssumption DEF TxOf
  <2>2. CASE TxOf(s) # t
    BY <2>2 DEF Render, Cancels, TxInv, TxTypeOK
  <2> QED
    BY <2>1, <2>2
<1>6. clearing' \in BOOLEAN /\ (clearing' => rendered'.type \in Over)
  <2>1. CASE ClearAgain(s)
    <3>1. clearing' = (s.type \in Over)
      BY <2>1, Zenon DEF Render
    <3>2. rendered'.type = s.type
      BY <1>1
    <3>3. CASE s.type \in Over
      <4>1. clearing' = TRUE
        BY <3>1, <3>3, Zenon
      <4>2. rendered'.type \in Over
        BY <3>2, <3>3, SMT
      <4> QED
        BY <4>1, <4>2, Zenon
    <3>4. CASE ~(s.type \in Over)
      <4>1. (s.type \in Over) = FALSE
        BY <3>4, SMT
      <4>2. clearing' = FALSE
        BY <3>1, <4>1, Zenon
      <4> QED
        BY <4>2, Zenon
    <3> QED
      BY <3>3, <3>4, Zenon
  <2>2. CASE ~ClearAgain(s)
    <3>1. clearing' = clearing /\ s.type = rendered.type
      BY <2>2, Zenon DEF Render, ClearAgain
    <3>2. rendered'.type = rendered.type
      BY <1>1, <3>1
    <3>3. clearing \in BOOLEAN /\ (clearing => rendered.type \in Over)
      BY Zenon DEF TxInv, TxTypeOK
    <3>4. clearing => rendered'.type \in Over
      BY <3>2, <3>3, SMT
    <3>5. clearing' = clearing
      BY <3>1
    <3> QED
      BY <3>3, <3>4, <3>5, Zenon
  <2> QED
    BY <2>1, <2>2
<1>7. TxTypeOK'
  BY <1>1, <1>3, <1>4, <1>5, <1>6 DEF TxInv, TxTypeOK
<1>8. ShownIsTrue'
  BY <1>1, <1>2 DEF ShownIsTrue, Idle
<1>9. OneMonitor'
  <2> SUFFICES ASSUME NEW t \in Txs, monitor'[t] = "waiting"
               PROVE  s = At("waitingForConfirmation", t)
    BY <1>1 DEF OneMonitor
  <2>1. TxOf(s) = t
    <3>1. CASE MonitorAgain(s) /\ TxOf(s) = t
      BY <3>1
    <3>2. CASE ~(MonitorAgain(s) /\ TxOf(s) = t)
      <4>1. monitor[t] = "waiting" /\ ~(Cancels(s) /\ TxOf(rendered) = t)
        BY <3>2 DEF Render
      <4>2. rendered = At("waitingForConfirmation", t)
        BY <4>1 DEF TxInv, OneMonitor
      <4>3. TxOf(rendered) = t /\ t # None
        BY <4>2, TransactionsAssumption DEF TxOf, At
      <4> QED
        BY <4>1, <4>3 DEF Cancels, MonitorAgain
    <3> QED
      BY <3>1, <3>2
  <2>2. t # None
    BY TransactionsAssumption
  <2> QED
    BY <1>1, <2>1, <2>2 DEF TxOf, At
<1> QED
  BY <1>7, <1>8, <1>9 DEF TxInv

LEMMA RerenderInv == ASSUME TxInv, Rerender PROVE TxInv'
<1>1. transactionState \in States
  BY DEF TxInv, TxTypeOK, States
<1>2. Render(transactionState) /\ UNCHANGED <<sending, fate, failures, overlapped>>
  BY DEF Rerender
<1>3. /\ transactionState.type = "waitingForConfirmation" =>
            sending[transactionState.tx] = "sent"
      /\ transactionState.type \in {"confirmedOneShot", "confirmed"} =>
            fate[transactionState.tx] \in {"succeeded", "repriced"}
      /\ transactionState.type = "cancelled" =>
            \/ sending[transactionState.tx] = "unsent"
            \/ fate[transactionState.tx] \in {"cancelled", "replaced"}
  BY DEF TxInv, ShownIsTrue
<1> QED
  BY <1>1, <1>2, <1>3, RenderInv DEF TxInv, TxTypeOK

LEMMA PressInv == ASSUME TxInv, NEW t \in Txs, Press(t) PROVE TxInv'
<1>1. At("waitingForApproval", t) \in States
      /\ At("waitingForApproval", t).type = "waitingForApproval"
  BY AtIsState DEF Types, Waiting
<1>2. /\ Render(At("waitingForApproval", t))
      /\ sending[t] = "no"
      /\ sending' = [sending EXCEPT ![t] = "asking"]
      /\ UNCHANGED <<fate, failures>>
  BY DEF Press
<1>3. overlapped' \in BOOLEAN
  <2>1. overlapped' = (overlapped \/ \E u \in Txs : Unfinished(u))
    BY Zenon DEF Press
  <2> QED
    BY <2>1, Zenon
<1>4. /\ sending' \in [Txs -> {"no", "asking", "submitted", "sent", "unsent"}]
      /\ \A u \in Txs : sending[u] = "sent" => sending'[u] = "sent"
      /\ \A u \in Txs : fate[u] # "none" => sending'[u] \in {"submitted", "sent"}
  BY <1>2 DEF TxInv, TxTypeOK
<1> QED
  BY <1>1, <1>2, <1>3, <1>4, RenderInv

\* The steps that set the state without rendering it.
LEMMA SetStateInv ==
    ASSUME TxInv, NEW s \in States, transactionState' = s, UNCHANGED rendered,
           sending' \in [Txs -> {"no", "asking", "submitted", "sent", "unsent"}],
           fate' \in [Txs -> ChainFates \cup {"none"}],
           monitor' \in [Txs -> {"none", "waiting", "asking for the reason",
                                 "finished", "cancelled"}],
           clearing' \in {clearing, FALSE}, failures' \in 0..MaxFailures,
           UNCHANGED overlapped,
           \A t \in Txs : sending[t] \in {"sent", "unsent"} => sending'[t] = sending[t],
           \A t \in Txs : fate[t] # "none" => fate'[t] = fate[t],
           \A t \in Txs : fate'[t] # "none" => sending'[t] \in {"submitted", "sent"},
           \A t \in Txs : monitor'[t] # "none" => monitor[t] # "none",
           \A t \in Txs : monitor'[t] = "waiting" => monitor[t] = "waiting",
           s.type = "waitingForConfirmation" => sending'[s.tx] = "sent",
           s.type \in {"confirmedOneShot", "confirmed"} =>
              fate'[s.tx] \in {"succeeded", "repriced"},
           s.type = "cancelled" =>
              sending'[s.tx] = "unsent" \/ fate'[s.tx] \in {"cancelled", "replaced"}
    PROVE  TxInv'
<1>1. /\ s \in [type : Types, tx : Txs \cup {None}]
      /\ s.type # "idle" => s.tx \in Txs
  BY DEF States
<1>2. clearing' \in BOOLEAN /\ (clearing' => rendered'.type \in Over)
  <2>1. clearing \in BOOLEAN /\ (clearing => rendered.type \in Over)
    BY DEF TxInv, TxTypeOK
  <2>2. CASE clearing' = clearing
    BY <2>1, <2>2, Zenon
  <2>3. CASE clearing' = FALSE
    BY <2>3, Zenon
  <2> QED
    BY <2>2, <2>3
<1>3. TxTypeOK'
  <2>1. /\ transactionState' \in [type : Types, tx : Txs \cup {None}]
        /\ rendered' \in [type : Types, tx : Txs \cup {None}]
        /\ transactionState'.type # "idle" => transactionState'.tx \in Txs
        /\ rendered'.type # "idle" => rendered'.tx \in Txs
    BY <1>1 DEF TxInv, TxTypeOK
  <2>2. overlapped' \in BOOLEAN
    BY Zenon DEF TxInv, TxTypeOK
  <2>3. \A t \in Txs : monitor'[t] # "none" => sending'[t] = "sent"
    BY DEF TxInv, TxTypeOK
  <2> QED
    BY <1>2, <2>1, <2>2, <2>3, Zenon DEF TxTypeOK
<1>4. ShownIsTrue'
  <2>1. /\ rendered.type = "waitingForConfirmation" => sending'[rendered.tx] = "sent"
        /\ rendered.type \in {"confirmedOneShot", "confirmed"} =>
              fate'[rendered.tx] \in {"succeeded", "repriced"}
        /\ rendered.type = "cancelled" =>
              \/ sending'[rendered.tx] = "unsent"
              \/ fate'[rendered.tx] \in {"cancelled", "replaced"}
    BY DEF TxInv, TxTypeOK, ShownIsTrue
  <2> QED
    BY <2>1 DEF ShownIsTrue
<1>5. OneMonitor'
  BY DEF TxInv, OneMonitor
<1> QED
  BY <1>3, <1>4, <1>5 DEF TxInv

LEMMA WalletInv ==
    ASSUME TxInv, NEW t \in Txs, Approve(t) \/ SendReturns(t) \/ SendThrows(t)
    PROVE  TxInv'
<1>1. transactionState \in States
  BY DEF TxInv, TxTypeOK, States
<1>2. CASE Approve(t)
  BY <1>1, <1>2, SetStateInv DEF Approve, TxInv, TxTypeOK, ShownIsTrue
<1>3. CASE SendReturns(t)
  <2> DEFINE s == At("waitingForConfirmation", t)
  <2>1. s \in States /\ s.type = "waitingForConfirmation" /\ s.tx = t
    BY AtIsState DEF Types, Waiting
  <2>2. /\ transactionState' = s /\ sending[t] = "submitted"
        /\ sending' = [sending EXCEPT ![t] = "sent"]
        /\ UNCHANGED <<rendered, fate, monitor, clearing, failures, overlapped>>
    BY <1>3 DEF SendReturns
  <2>3. /\ sending' \in [Txs -> {"no", "asking", "submitted", "sent", "unsent"}]
        /\ sending'[t] = "sent"
        /\ \A u \in Txs : sending[u] \in {"sent", "unsent"} => sending'[u] = sending[u]
        /\ \A u \in Txs : fate'[u] # "none" => sending'[u] \in {"submitted", "sent"}
    BY <2>2 DEF TxInv, TxTypeOK
  <2> HIDE DEF s
  <2> QED
    BY <2>1, <2>2, <2>3, SetStateInv DEF TxInv, TxTypeOK
<1>4. CASE SendThrows(t)
  <2>1. PICK type \in {"cancelled", "failed"} : transactionState' = At(type, t)
    BY <1>4 DEF SendThrows
  <2> DEFINE s == At(type, t)
  <2>2. s \in States /\ s.type = type /\ s.tx = t
    BY AtIsState DEF Types, Over
  <2>3. /\ transactionState' = s /\ sending[t] = "asking"
        /\ sending' = [sending EXCEPT ![t] = "unsent"]
        /\ UNCHANGED <<rendered, fate, monitor, clearing, failures, overlapped>>
    BY <1>4, <2>1 DEF SendThrows
  <2>4. /\ sending' \in [Txs -> {"no", "asking", "submitted", "sent", "unsent"}]
        /\ sending'[t] = "unsent"
        /\ \A u \in Txs : sending[u] \in {"sent", "unsent"} => sending'[u] = sending[u]
        /\ \A u \in Txs : fate'[u] # "none" => sending'[u] \in {"submitted", "sent"}
    BY <2>3 DEF TxInv, TxTypeOK
  <2> HIDE DEF s
  <2> QED
    BY <2>2, <2>3, <2>4, SetStateInv DEF TxInv, TxTypeOK
<1> QED
  BY <1>2, <1>3, <1>4

LEMMA DecideInv == ASSUME TxInv, NEW t \in Txs, Decide(t) PROVE TxInv'
<1>1. transactionState \in States
  BY DEF TxInv, TxTypeOK, States
<1>2. PICK f \in ChainFates : fate' = [fate EXCEPT ![t] = f]
  BY DEF Decide
<1>3. /\ transactionState.type \in {"confirmedOneShot", "confirmed"} =>
            fate'[transactionState.tx] \in {"succeeded", "repriced"}
      /\ transactionState.type = "cancelled" =>
            \/ sending[transactionState.tx] = "unsent"
            \/ fate'[transactionState.tx] \in {"cancelled", "replaced"}
  BY <1>2 DEF Decide, TxInv, TxTypeOK, ShownIsTrue, Types, Over
<1> QED
  BY <1>1, <1>2, <1>3, SetStateInv DEF Decide, TxInv, TxTypeOK, ShownIsTrue

LEMMA MonitoringInv ==
    ASSUME TxInv, NEW t \in Txs, Monitoring(t) \/ ReceiptUnavailable(t)
    PROVE  TxInv'
<1>1. CASE ReceiptSucceeded(t)
  <2> DEFINE s == At("confirmedOneShot", t)
  <2>1. s \in States /\ s.type = "confirmedOneShot" /\ s.tx = t
    BY AtIsState DEF Types
  <2>2. fate[t] \in {"succeeded", "repriced"}
    BY <1>1, TransactionsAssumption
    DEF ReceiptSucceeded, WaitForReceipt, Supplanted, RawStatus, Fates, TxInv, TxTypeOK
  <2> QED
    BY <1>1, <2>1, <2>2, SetStateInv DEF ReceiptSucceeded, TxInv, TxTypeOK
<1>2. CASE ReceiptFailed(t)
  <2>1. transactionState \in States
    BY DEF TxInv, TxTypeOK, States
  <2> QED
    BY <1>2, <2>1, SetStateInv DEF ReceiptFailed, TxInv, TxTypeOK, ShownIsTrue
<1>3. CASE ReasonReturns(t) \/ ReceiptUnavailable(t)
  <2> DEFINE s == At("failed", t)
  <2>1. s \in States /\ s.type = "failed" /\ s.tx = t
    BY AtIsState DEF Types, Over
  <2>2. failures' \in 0..MaxFailures
    <3>1. failures \in 0..MaxFailures /\ MaxFailures \in Nat
      BY TransactionsAssumption DEF TxInv, TxTypeOK
    <3>2. failures' = failures \/ (failures < MaxFailures /\ failures' = failures + 1)
      BY <1>3 DEF ReasonReturns, ReceiptUnavailable
    <3> QED
      BY <3>1, <3>2
  <2>3. /\ transactionState' = s /\ UNCHANGED <<rendered, sending, fate, clearing, overlapped>>
        /\ monitor[t] # "none" /\ monitor' = [monitor EXCEPT ![t] = "finished"]
    BY <1>3 DEF ReasonReturns, ReceiptUnavailable
  <2>4. /\ monitor' \in [Txs -> {"none", "waiting", "asking for the reason",
                                 "finished", "cancelled"}]
        /\ \A u \in Txs : monitor'[u] # "none" => monitor[u] # "none"
        /\ \A u \in Txs : monitor'[u] = "waiting" => monitor[u] = "waiting"
    BY <2>3 DEF TxInv, TxTypeOK
  <2> HIDE DEF s
  <2> QED
    BY <2>1, <2>2, <2>3, <2>4, SetStateInv DEF TxInv, TxTypeOK
<1>4. CASE ReceiptCancelled(t)
  <2> DEFINE s == At("cancelled", t)
  <2>1. s \in States /\ s.type = "cancelled" /\ s.tx = t
    BY AtIsState DEF Types, Over
  <2>2. fate[t] \in {"cancelled", "replaced"}
    BY <1>4 DEF ReceiptCancelled, WaitForReceipt, Supplanted
  <2> QED
    BY <1>4, <2>1, <2>2, SetStateInv DEF ReceiptCancelled, TxInv, TxTypeOK
<1> QED
  BY <1>1, <1>2, <1>3, <1>4 DEF Monitoring

LEMMA ClearInv == ASSUME TxInv, Clear PROVE TxInv'
<1>1. clearing' \in {clearing, FALSE}
  BY Zenon DEF Clear
<1> QED
  BY <1>1, IdleIsState, SetStateInv DEF Clear, TxInv, TxTypeOK

LEMMA TxNextInv == ASSUME TxInv, TxNext PROVE TxInv'
  BY RerenderInv, PressInv, WalletInv, DecideInv, MonitoringInv, ClearInv DEF TxNext

-----------------------------------------------------------------------------
\* How far an unfinished transaction can be, and what the state says then: the
\* user is asked, its sending is yet to be rendered, its receipt or the reason
\* of its failure is awaited, or its outcome is yet to be rendered.
Phase(t) ==
    \/ /\ sending[t] \in {"asking", "submitted"}
       /\ rendered = At("waitingForApproval", t)
       /\ transactionState = At("waitingForApproval", t)
    \/ /\ sending[t] = "sent" /\ monitor[t] = "none"
       /\ rendered = At("waitingForApproval", t)
       /\ transactionState = At("waitingForConfirmation", t)
    \/ /\ sending[t] = "sent" /\ monitor[t] \in {"waiting", "asking for the reason"}
       /\ rendered = At("waitingForConfirmation", t)
       /\ transactionState = At("waitingForConfirmation", t)
    \/ /\ sending[t] = "unsent" \/ (sending[t] = "sent" /\ monitor[t] = "finished")
       /\ rendered \in {At("waitingForApproval", t), At("waitingForConfirmation", t)}
       /\ transactionState \in {At("confirmedOneShot", t), At("failed", t),
                                At("cancelled", t)}

\* Transactions that do not overlap take turns.
Turns ==
    /\ \A t \in Txs : Unfinished(t) => Phase(t)
    /\ transactionState.type \in Waiting => Unfinished(transactionState.tx)

InTurn == ~overlapped => Turns

LEMMA AtFields == \A type, t : At(type, t).type = type /\ At(type, t).tx = t
  BY DEF At

LEMMA TurnIsShown ==
    ASSUME Turns, NEW t \in Txs, Unfinished(t)
    PROVE  /\ Phase(t)
           /\ transactionState.tx = t /\ rendered.tx = t
           /\ rendered.type \in Waiting
<1>1. Phase(t)
  BY DEF Turns
<1>2. transactionState.tx = t
  <2>1. transactionState \in {At(type, t) : type \in Types}
    BY <1>1 DEF Phase, Types, Waiting, Over
  <2> QED
    BY <2>1, AtFields
<1>3. rendered.tx = t /\ rendered.type \in Waiting
  <2>1. rendered \in {At(type, t) : type \in Waiting}
    BY <1>1 DEF Phase, Waiting
  <2> QED
    BY <2>1, AtFields
<1> QED
  BY <1>1, <1>2, <1>3

\* Steps of one transaction that render nothing.
LEMMA OwnStep ==
    ASSUME TxInv, Turns, NEW t \in Txs, Unfinished(t), UNCHANGED rendered,
           \A u \in Txs \ {t} : sending'[u] = sending[u] /\ monitor'[u] = monitor[u],
           Phase(t)',
           transactionState'.type \in Waiting => Unfinished(t)'
    PROVE  Turns'
<1>1. transactionState'.tx = t
  <2>1. transactionState' \in {At(type, t) : type \in Types}
    BY DEF Phase, Types, Waiting, Over
  <2> QED
    BY <2>1, AtFields
<1>2. ASSUME NEW u \in Txs, Unfinished(u)' PROVE u = t
  <2> SUFFICES ASSUME u # t PROVE Unfinished(u)
    BY TurnIsShown
  <2> QED
    BY <1>2 DEF Unfinished
<1> QED
  BY <1>1, <1>2 DEF Turns

LEMMA WalletTurn ==
    ASSUME TxInv, Turns, NEW t \in Txs, Approve(t) \/ SendReturns(t) \/ SendThrows(t)
    PROVE  Turns'
<1>1. sending[t] \in {"asking", "submitted"} /\ Unfinished(t)
  BY DEF Approve, SendReturns, SendThrows, Unfinished
<1>2. /\ rendered = At("waitingForApproval", t)
      /\ transactionState = At("waitingForApproval", t)
      /\ monitor[t] = "none"
  BY <1>1, TurnIsShown DEF Phase, TxInv, TxTypeOK
<1>3. /\ sending \in [Txs -> {"no", "asking", "submitted", "sent", "unsent"}]
      /\ UNCHANGED <<rendered, monitor>>
      /\ \A u \in Txs \ {t} : sending'[u] = sending[u]
  BY DEF Approve, SendReturns, SendThrows, TxInv, TxTypeOK
<1>4. Phase(t)' /\ (transactionState'.type \in Waiting => Unfinished(t)')
  <2>1. CASE Approve(t)
    BY <1>2, <1>3, <2>1 DEF Approve, Phase, Unfinished
  <2>2. CASE SendReturns(t)
    BY <1>2, <1>3, <2>2 DEF SendReturns, Phase, Unfinished
  <2>3. CASE SendThrows(t)
    <3>1. PICK type \in {"cancelled", "failed"} : transactionState' = At(type, t)
      BY <2>3 DEF SendThrows
    <3> QED
      BY <1>2, <1>3, <2>3, <3>1 DEF SendThrows, Phase, At, Waiting
  <2> QED
    BY <2>1, <2>2, <2>3
<1> QED
  BY <1>1, <1>3, <1>4, OwnStep

LEMMA MonitoringTurn ==
    ASSUME TxInv, Turns, NEW t \in Txs, Monitoring(t) \/ ReceiptUnavailable(t)
    PROVE  Turns'
<1>1. /\ monitor[t] \in {"waiting", "asking for the reason"}
      /\ sending[t] = "sent" /\ Unfinished(t)
  BY DEF Monitoring, ReceiptSucceeded, ReceiptFailed, ReasonReturns, ReceiptCancelled,
         ReceiptUnavailable, Unfinished, TxInv, TxTypeOK
<1>2. /\ rendered = At("waitingForConfirmation", t)
      /\ transactionState = At("waitingForConfirmation", t)
  BY <1>1, TurnIsShown DEF Phase
<1>3. /\ monitor \in [Txs -> {"none", "waiting", "asking for the reason",
                              "finished", "cancelled"}]
      /\ UNCHANGED <<rendered, sending>>
      /\ \A u \in Txs \ {t} : monitor'[u] = monitor[u]
  BY DEF Monitoring, ReceiptSucceeded, ReceiptFailed, ReasonReturns, ReceiptCancelled,
         ReceiptUnavailable, TxInv, TxTypeOK
<1>4. Phase(t)' /\ (transactionState'.type \in Waiting => Unfinished(t)')
  <2>1. CASE ReceiptFailed(t)
    BY <1>1, <1>2, <1>3, <2>1 DEF ReceiptFailed, Phase, Unfinished
  <2>2. CASE ~ReceiptFailed(t)
    <3>1. PICK type \in {"confirmedOneShot", "failed", "cancelled"} :
             transactionState' = At(type, t) /\ monitor'[t] = "finished"
      BY <1>3, <2>2 DEF Monitoring, ReceiptSucceeded, ReasonReturns, ReceiptCancelled,
                        ReceiptUnavailable
    <3> QED
      BY <1>1, <1>2, <1>3, <3>1 DEF Phase, At, Waiting
  <2> QED
    BY <2>1, <2>2
<1> QED
  BY <1>1, <1>3, <1>4, OwnStep

LEMMA ClearTurn == ASSUME TxInv, Turns, Clear PROVE Turns'
<1>1. clearing
  BY Zenon DEF Clear
<1>2. rendered.type \in Over
  BY <1>1, Zenon DEF TxInv, TxTypeOK
<1>3. \A t \in Txs : ~Unfinished(t)
  BY <1>2, TurnIsShown DEF Waiting, Over
<1> QED
  BY <1>3, IdleIsState DEF Clear, Turns, Unfinished, Waiting

LEMMA DecideTurn == ASSUME TxInv, Turns, NEW t \in Txs, Decide(t) PROVE Turns'
  BY DEF Turns, Unfinished, Phase, Decide

\* A transaction that is not unfinished has no receipt to wait for, so that no
\* cleanup cancels anything.
LEMMA NothingToCancel ==
    ASSUME TxInv, NEW s, ~Unfinished(TxOf(rendered)) \/ TxOf(rendered) = None
    PROVE  ~Cancels(s)
<1>1. SUFFICES ASSUME Cancels(s) PROVE FALSE
  OBVIOUS
<1>2. TxOf(rendered) \in Txs /\ monitor[TxOf(rendered)] = "waiting"
  BY <1>1 DEF Cancels, TxOf, TxInv, TxTypeOK
<1>3. Unfinished(TxOf(rendered))
  BY <1>2 DEF Unfinished, TxInv, TxTypeOK
<1> QED
  BY <1>1, <1>2, <1>3 DEF Cancels

\* Rendering what was set meanwhile lets an unfinished transaction wait for its
\* receipt, or finishes it.
LEMMA RerenderTurn == ASSUME TxInv, Turns, Rerender PROVE Turns'
<1> DEFINE s == transactionState
<1>1. /\ s # rendered /\ rendered' = s
      /\ UNCHANGED sending
      /\ monitor' = [t \in Txs |->
            IF MonitorAgain(s) /\ TxOf(s) = t THEN "waiting"
            ELSE IF Cancels(s) /\ TxOf(rendered) = t THEN "cancelled"
            ELSE monitor[t]]
      /\ transactionState' =
            IF s.type = "confirmedOneShot" THEN [s EXCEPT !.type = "confirmed"]
            ELSE IF Cancels(s) THEN Idle
            ELSE s
  BY DEF Rerender, Render
<1>2. ~Cancels(s)
  <2>1. SUFFICES ASSUME Cancels(s), TxOf(rendered) \in Txs PROVE FALSE
    BY DEF Cancels, TxOf, TxInv, TxTypeOK
  <2>2. monitor[TxOf(rendered)] = "waiting" /\ Unfinished(TxOf(rendered))
    BY <2>1 DEF Cancels, Unfinished, TxInv, TxTypeOK
  <2>3. Phase(TxOf(rendered))
    BY <2>1, <2>2, TurnIsShown
  <2>4. sending[TxOf(rendered)] = "sent"
    BY <2>1, <2>2 DEF TxInv, TxTypeOK
  <2> QED
    BY <1>1, <2>2, <2>3, <2>4 DEF Phase
<1>3. CASE \E t \in Txs : Unfinished(t)
  <2>1. PICK t \in Txs : Unfinished(t)
    BY <1>3
  <2>2. Phase(t) /\ s.tx = t /\ rendered.tx = t /\ rendered.type \in Waiting
    BY <2>1, TurnIsShown
  <2>3. \A u \in Txs \ {t} : ~Unfinished(u)
    BY <2>2, TurnIsShown
  <2>4. \A u \in Txs \ {t} : ~Unfinished(u)'
    <3> SUFFICES ASSUME NEW u \in Txs \ {t} PROVE ~Unfinished(u)'
      OBVIOUS
    <3>1. TxOf(s) # u
      BY <2>2, TransactionsAssumption DEF TxOf
    <3>2. monitor'[u] = monitor[u] /\ rendered'.tx # u
      BY <1>1, <1>2, <2>2, <3>1
    <3> QED
      BY <1>1, <2>3, <3>2 DEF Unfinished
  <2>5. CASE s = At("waitingForConfirmation", t)
    <3>1. rendered = At("waitingForApproval", t) /\ sending[t] = "sent"
      <4>1. /\ s # At("waitingForApproval", t)
            /\ s \notin {At("confirmedOneShot", t), At("failed", t), At("cancelled", t)}
        BY <2>5 DEF At
      <4> QED
        BY <1>1, <2>2, <2>5, <4>1 DEF Phase
    <3>2. TxOf(s) = t /\ TxOf(rendered) = None /\ t # None
      BY <2>5, <3>1, AtFields, TransactionsAssumption DEF TxOf
    <3>3. monitor'[t] = "waiting"
      BY <1>1, <3>2 DEF MonitorAgain
    <3>4. transactionState' = s /\ rendered' = s
      BY <1>1, <1>2, <2>5, AtFields
    <3>5. Phase(t)' /\ Unfinished(t)'
      BY <1>1, <2>5, <3>1, <3>3, <3>4 DEF Phase, Unfinished
    <3> QED
      BY <2>2, <2>4, <3>4, <3>5 DEF Turns
  <2>6. CASE s # At("waitingForConfirmation", t)
    <3>1. /\ sending[t] = "unsent" \/ (sending[t] = "sent" /\ monitor[t] = "finished")
          /\ s \in {At("confirmedOneShot", t), At("failed", t), At("cancelled", t)}
      BY <1>1, <2>2, <2>6 DEF Phase
    <3>2. s.type \in {"confirmedOneShot", "failed", "cancelled"}
      BY <3>1, AtFields
    <3>3. monitor'[t] = monitor[t]
      BY <1>1, <1>2, <3>2, TransactionsAssumption DEF TxOf
    <3>4. ~Unfinished(t)'
      BY <1>1, <3>1, <3>2, <3>3 DEF Unfinished, Waiting
    <3>5. transactionState'.type \notin Waiting
      BY <1>1, <1>2, <3>1, <3>2, AtFields DEF Waiting, At
    <3> QED
      BY <2>4, <3>4, <3>5 DEF Turns
  <2> QED
    BY <2>5, <2>6
<1>4. CASE \A t \in Txs : ~Unfinished(t)
  <2>1. s.type \notin Waiting
    BY <1>4 DEF Turns, TxInv, TxTypeOK, Waiting
  <2>2. TxOf(s) = None
    BY <2>1 DEF TxOf, Waiting
  <2>3. \A t \in Txs : monitor'[t] = monitor[t]
    BY <1>1, <1>2, <2>2, TransactionsAssumption
  <2>4. \A t \in Txs : ~Unfinished(t)'
    BY <1>1, <1>4, <2>1, <2>3 DEF Unfinished
  <2>5. transactionState'.type \notin Waiting
    <3>1. transactionState \in [type : Types, tx : Txs \cup {None}]
      BY DEF TxInv, TxTypeOK
    <3> QED
      BY <1>1, <1>2, <2>1, <3>1 DEF Waiting
  <2> QED
    BY <2>4, <2>5 DEF Turns
<1> QED
  BY <1>3, <1>4

\* A button that is pressed when nothing is unfinished starts a turn.
LEMMA PressTurn ==
    ASSUME TxInv, Turns, NEW t \in Txs, Press(t), \A u \in Txs : ~Unfinished(u)
    PROVE  Turns'
<1> DEFINE s == At("waitingForApproval", t)
<1>1. /\ sending[t] = "no" /\ sending' = [sending EXCEPT ![t] = "asking"]
      /\ rendered' = s
      /\ monitor' = [u \in Txs |->
            IF MonitorAgain(s) /\ TxOf(s) = u THEN "waiting"
            ELSE IF Cancels(s) /\ TxOf(rendered) = u THEN "cancelled"
            ELSE monitor[u]]
      /\ transactionState' =
            IF s.type = "confirmedOneShot" THEN [s EXCEPT !.type = "confirmed"]
            ELSE IF Cancels(s) THEN Idle
            ELSE s
  BY DEF Press, Render
<1>2. s.type = "waitingForApproval" /\ s.tx = t /\ TxOf(s) = None
  BY AtFields DEF TxOf
<1>3. ~Cancels(s)
  BY NothingToCancel DEF TxOf, TxInv, TxTypeOK
<1>4. /\ transactionState' = s
      /\ \A u \in Txs : monitor'[u] = monitor[u]
  BY <1>1, <1>2, <1>3, TransactionsAssumption
<1>5. /\ sending'[t] = "asking"
      /\ \A u \in Txs \ {t} : sending'[u] = sending[u]
  BY <1>1 DEF TxInv, TxTypeOK
<1>6. \A u \in Txs \ {t} : ~Unfinished(u)'
  BY <1>1, <1>2, <1>4, <1>5 DEF Unfinished
<1>7. Phase(t)' /\ Unfinished(t)'
  BY <1>1, <1>4, <1>5 DEF Phase, Unfinished
<1> QED
  BY <1>2, <1>4, <1>6, <1>7 DEF Turns

-----------------------------------------------------------------------------
\* The steps of the panel and of the store leave the transactions alone.
LEMMA StutterInv == ASSUME TxInv, UNCHANGED txVars PROVE TxInv'
  BY DEF TxInv, TxTypeOK, ShownIsTrue, OneMonitor, txVars

LEMMA TxInvariance == Spec => []TxInv
<1>1. Init => TxInv
  BY TxInitInv DEF Init
<1>2. TxInv /\ [Next]_vars => TxInv'
  BY TxNextInv, StutterInv
  DEF Next, TransactionStep, Accrue, UpdateStore, StartAdjusting, CancelAdjusting, vars
<1> QED
  BY <1>1, <1>2, PTL DEF Spec

LEMMA TurnsStep == ASSUME TxInv, InTurn, TxNext PROVE InTurn'
<1>1. CASE \E t \in Txs : Press(t)
  <2>1. PICK t \in Txs : Press(t)
    BY <1>1
  <2>2. overlapped' = (overlapped \/ \E u \in Txs : Unfinished(u))
    BY <2>1, Zenon DEF Press
  <2>3. CASE overlapped'
    BY <2>3, Zenon DEF InTurn
  <2>4. CASE ~overlapped'
    <3>1. ~overlapped /\ \A u \in Txs : ~Unfinished(u)
      BY <2>2, <2>4, Zenon
    <3>2. Turns'
      BY <2>1, <3>1, PressTurn DEF InTurn
    <3> QED
      BY <3>2, Zenon DEF InTurn
  <2> QED
    BY <2>3, <2>4
<1>2. CASE ~\E t \in Txs : Press(t)
  <2>1. overlapped' = overlapped
    BY <1>2, Zenon DEF TxNext, Rerender, Approve, SendReturns, SendThrows, Decide, Monitoring,
       ReceiptSucceeded, ReceiptFailed, ReasonReturns, ReceiptCancelled, ReceiptUnavailable,
       Clear
  <2>2. Turns => Turns'
    BY <1>2, RerenderTurn, WalletTurn, DecideTurn, MonitoringTurn, ClearTurn DEF TxNext
  <2> QED
    BY <2>1, <2>2, Zenon DEF InTurn
<1> QED
  BY <1>1, <1>2

LEMMA TurnsInit == TxInit => InTurn
  BY DEF TxInit, InTurn, Turns, Unfinished, Idle, Waiting

LEMMA TurnsInvariance == Spec => []InTurn
<1>1. Init => InTurn
  BY TurnsInit DEF Init
<1>2. TxInv /\ InTurn /\ [Next]_vars => InTurn'
  <2> SUFFICES ASSUME TxInv, InTurn, [Next]_vars PROVE InTurn'
    OBVIOUS
  <2>1. CASE TxNext
    BY <2>1, TurnsStep
  <2>2. CASE UNCHANGED txVars
    <3>1. UNCHANGED <<transactionState, rendered, sending, monitor, overlapped>>
      BY <2>2 DEF txVars
    <3> QED
      BY <3>1 DEF InTurn, Turns, Unfinished, Phase
  <2> QED
    BY <2>1, <2>2
    DEF Next, TransactionStep, Accrue, UpdateStore, StartAdjusting, CancelAdjusting, vars
<1> QED
  BY <1>1, <1>2, TxInvariance, PTL DEF Spec

-----------------------------------------------------------------------------
\* The types of the panel's state: its amounts and its flags.
Amounts ==
    /\ stake \in [staked : Nat, gain : Nat]
    /\ chain \in [staked : Nat, gain : Nat]
    /\ gains \in 0..MaxGains

Flags == changePending \in BOOLEAN /\ adjusting \in BOOLEAN /\ outrun \in BOOLEAN

LEMMA AmountsInvariance == Spec => []Amounts
<1>1. Init => Amounts
  BY StakingAssumption DEF Init, Amounts
<1>2. ASSUME Amounts, [Next]_vars PROVE Amounts'
  <2>1. CASE TransactionStep
    <3>1. UNCHANGED <<gains, stake>>
      BY <2>1, Zenon DEF TransactionStep, Follow
    <3>2. \A S \in SUBSET Txs : Cardinality(S) \in Nat
      BY StakingAssumption, FS_Subset, FS_CardinalityType
    <3>3. chain' \in [staked : Nat, gain : Nat]
      <4> DEFINE done == {t \in StakeTxs : /\ fate[t] = "none"
                                           /\ fate'[t] \in {"succeeded", "repriced"}}
                 changed == {t \in done : ~Claims(t)}
      <4>1. chain' = IF done = {} THEN chain
                     ELSE [staked |-> chain.staked + Cardinality(changed), gain |-> 0]
        BY <2>1, Zenon DEF TransactionStep, Stakes
      <4>2. Cardinality(changed) \in Nat
        BY <3>2, changed \in SUBSET Txs DEF StakeTxs
      <4>3. chain.staked \in Nat /\ chain \in [staked : Nat, gain : Nat]
        BY <1>2 DEF Amounts
      <4> HIDE DEF done, changed
      <4> QED
        BY <4>1, <4>2, <4>3
    <3> QED
      BY <1>2, <3>1, <3>3 DEF Amounts
  <2>2. CASE Accrue
    <3>1. /\ gains < MaxGains /\ gains' = gains + 1
          /\ chain' = [chain EXCEPT !.gain = @ + 1] /\ UNCHANGED stake
      BY <2>2, Zenon DEF Accrue
    <3> QED
      BY <1>2, <3>1, StakingAssumption DEF Amounts
  <2>3. CASE UpdateStore
    <3>1. stake' = chain /\ UNCHANGED <<chain, gains>>
      BY <2>3, Zenon DEF UpdateStore
    <3> QED
      BY <1>2, <3>1 DEF Amounts
  <2>4. CASE UNCHANGED <<stake, chain, gains>>
    BY <1>2, <2>4 DEF Amounts
  <2> QED
    BY <1>2, <2>1, <2>2, <2>3, <2>4, Zenon
    DEF Next, StartAdjusting, CancelAdjusting, vars, viewVars
<1> QED
  BY <1>1, <1>2, PTL DEF Spec

LEMMA FlagsInvariance == Spec => []Flags
<1>1. Init => Flags
  BY Zenon DEF Init, Flags
<1>2. ASSUME Flags, [Next]_vars PROVE Flags'
  <2>1. CASE TransactionStep
    <3>1. changePending' \in {changePending, TRUE, FALSE} /\ UNCHANGED adjusting
      BY <2>1, Zenon DEF TransactionStep, Follow
    <3>2. outrun' \in BOOLEAN
      BY <2>1, Zenon DEF TransactionStep, Stakes
    <3> QED
      BY <1>2, <3>1, <3>2, Zenon DEF Flags
  <2>2. CASE Accrue
    BY <1>2, <2>2, Zenon DEF Accrue, Flags
  <2>3. CASE UpdateStore
    BY <1>2, <2>3, Zenon DEF UpdateStore, Flags
  <2>4. CASE StartAdjusting \/ CancelAdjusting
    BY <1>2, <2>4, Zenon DEF StartAdjusting, CancelAdjusting, Flags
  <2>5. CASE UNCHANGED viewVars
    <3>1. UNCHANGED <<changePending, adjusting, outrun>>
      BY <2>5, Zenon DEF viewVars
    <3> QED
      BY <1>2, <3>1, Zenon DEF Flags
  <2> QED
    BY <1>2, <2>1, <2>2, <2>3, <2>4, <2>5, Zenon DEF Next, vars
<1> QED
  BY <1>1, <1>2, PTL DEF Spec

-----------------------------------------------------------------------------
(* The overlay of the panel.  While a change is pending, its transaction is *)
(* unfinished and has not succeeded, or the store has yet to tell its       *)
(* success; and a success of which the panel has not heard is still untold. *)
Paid(t) == fate[t] \in {"succeeded", "repriced"}
AwaitsOutcome == \E t \in StakeTxs : Unfinished(t) /\ ~Paid(t)

InOrder ==
    /\ changePending => AwaitsOutcome \/ Committed
    /\ \A t \in StakeTxs : Paid(t) /\ monitor[t] = "none" => Committed

PendingInv == ~overlapped /\ ~outrun => InOrder

LEMMA CommitIsUntold == ASSUME Amounts, Committed PROVE stake # chain
<1>1. stake.gain \in Nat
  BY DEF Amounts
<1> QED
  BY <1>1 DEF Committed

\* What the chain decides is untold, unless the history says otherwise.
LEMMA DecidedIsUntold ==
    ASSUME Stakes, UNCHANGED stake, ~outrun'
    PROVE  /\ ~outrun
           /\ Committed => Committed'
           /\ \A t \in StakeTxs : fate[t] = "none" /\ Paid(t)' => Committed'
<1> DEFINE done == {t \in StakeTxs : /\ fate[t] = "none"
                                     /\ fate'[t] \in {"succeeded", "repriced"}}
<1>1. ~outrun /\ (done = {} \/ Committed')
  BY Zenon DEF Stakes
<1>2. done = {} => chain' = chain
  BY Zenon DEF Stakes
<1>3. CASE done = {}
  BY <1>1, <1>2, <1>3 DEF Paid, Committed
<1>4. CASE done # {}
  BY <1>1, <1>4
<1> QED
  BY <1>3, <1>4

\* An unfinished transaction stays so until something is rendered.
LEMMA UnfinishedUntilRendered ==
    ASSUME Turns, NEW t \in Txs, Unfinished(t), UNCHANGED rendered
    PROVE  Unfinished(t)'
  BY TurnIsShown DEF Unfinished

\* The button of a transaction: its own is unfinished, no other one is.
LEMMA PressPending ==
    ASSUME TxInv, Turns, InOrder, NEW t \in Txs, Press(t), Follow, Stakes,
           ~overlapped', ~outrun'
    PROVE  InOrder'
<1>1. \A u \in Txs : ~Unfinished(u)
  BY Zenon DEF Press
<1>2. /\ sending[t] = "no" /\ sending' = [sending EXCEPT ![t] = "asking"]
      /\ rendered' = At("waitingForApproval", t) /\ UNCHANGED fate
      /\ monitor' = [u \in Txs |->
            IF MonitorAgain(rendered') /\ TxOf(rendered') = u THEN "waiting"
            ELSE IF Cancels(rendered') /\ TxOf(rendered) = u THEN "cancelled"
            ELSE monitor[u]]
  BY DEF Press, Render
<1>3. UNCHANGED stake
  BY Zenon DEF Follow
<1>4. Committed => Committed'
  BY <1>3, DecidedIsUntold
<1>5. changePending' => AwaitsOutcome' \/ Committed'
  <2>1. CASE t \in StakeTxs
    <3>1. Unfinished(t)' /\ ~Paid(t)'
      BY <1>2 DEF Unfinished, Paid, TxInv, TxTypeOK
    <3> QED
      BY <2>1, <3>1 DEF AwaitsOutcome, StakeTxs
  <2>2. CASE t \notin StakeTxs
    <3>1. MyType(rendered') = "idle"
      BY <1>2, <2>2, AtFields DEF MyType, IdOf, StakeTxs
    <3>2. changePending' => changePending
      BY <3>1, Zenon DEF Follow, Waiting
    <3>3. ~AwaitsOutcome
      BY <1>1 DEF AwaitsOutcome, StakeTxs
    <3> QED
      BY <1>4, <3>2, <3>3, Zenon DEF InOrder
  <2> QED
    BY <2>1, <2>2
<1>6. \A u \in StakeTxs : Paid(u)' /\ monitor'[u] = "none" => Committed'
  <2> SUFFICES ASSUME NEW u \in StakeTxs, Paid(u)', monitor'[u] = "none"
               PROVE  Committed'
    OBVIOUS
  <2>1. u \in Txs /\ monitor[u] = "none" /\ Paid(u)
    BY <1>2 DEF StakeTxs, Paid
  <2> QED
    BY <1>4, <2>1 DEF InOrder
<1> QED
  BY <1>5, <1>6, Zenon DEF InOrder

\* What is rendered is the wait of the one unfinished transaction, whose
\* success is untold if it has come already, or an outcome: a failure ends the
\* change, a success is untold.
LEMMA RerenderPending ==
    ASSUME TxInv, Turns, InOrder, Rerender, Follow, Stakes, ~outrun'
    PROVE  InOrder'
<1> DEFINE s == transactionState
<1>1. /\ rendered' = s /\ UNCHANGED <<sending, fate>>
      /\ monitor' = [t \in Txs |->
            IF MonitorAgain(s) /\ TxOf(s) = t THEN "waiting"
            ELSE IF Cancels(s) /\ TxOf(rendered) = t THEN "cancelled"
            ELSE monitor[t]]
  BY DEF Rerender, Render
<1>2. UNCHANGED stake
  BY Zenon DEF Follow
<1>3. Committed => Committed'
  BY <1>2, DecidedIsUntold
<1>4. \A t \in StakeTxs : Paid(t)' /\ monitor'[t] = "none" => Committed'
  <2> SUFFICES ASSUME NEW t \in StakeTxs, Paid(t)', monitor'[t] = "none"
               PROVE  Committed'
    OBVIOUS
  <2>1. t \in Txs /\ monitor[t] = "none" /\ Paid(t)
    BY <1>1 DEF StakeTxs, Paid
  <2> QED
    BY <1>3, <2>1 DEF InOrder
<1>5. ASSUME changePending' PROVE AwaitsOutcome' \/ Committed'
  <2>1. CASE \E t \in Txs : Unfinished(t)
    <3>1. PICK t \in Txs : Unfinished(t)
      BY <2>1
    <3>2. Phase(t) /\ s.tx = t /\ rendered.tx = t /\ rendered.type \in Waiting
      BY <3>1, TurnIsShown
    <3>3. ASSUME AwaitsOutcome PROVE t \in StakeTxs /\ ~Paid(t)
      BY <3>2, <3>3, TurnIsShown DEF AwaitsOutcome, StakeTxs
    <3>4. CASE s.type = "waitingForConfirmation"
      <4>1. rendered' = s /\ Unfinished(t)'
        BY <1>1, <3>2, <3>4 DEF Unfinished, Waiting
      <4>2. CASE t \in StakeTxs /\ ~Paid(t)
        <5>1. ~Paid(t)'
          BY <1>1, <4>2 DEF Paid
        <5> QED
          BY <4>1, <4>2, <5>1 DEF AwaitsOutcome
      <4>3. CASE t \in StakeTxs /\ Paid(t)
        <5>1. s # rendered
          BY DEF Rerender
        <5>2. s \notin {At("confirmedOneShot", t), At("failed", t), At("cancelled", t)}
          BY <3>4, AtFields
        <5>3. monitor[t] = "none"
          BY <3>2, <5>1, <5>2 DEF Phase
        <5> QED
          BY <1>3, <4>3, <5>3 DEF InOrder
      <4>4. CASE t \notin StakeTxs
        <5>1. MyType(rendered') = "idle"
          BY <1>1, <3>2, <4>4 DEF MyType, IdOf, StakeTxs
        <5>2. changePending
          BY <1>5, <5>1, Zenon DEF Follow, Waiting
        <5> QED
          BY <1>3, <3>3, <4>4, <5>2, Zenon DEF InOrder
      <4> QED
        BY <4>2, <4>3, <4>4
    <3>5. CASE s.type # "waitingForConfirmation"
      <4>1. /\ s.type \in {"confirmedOneShot", "failed", "cancelled"}
            /\ s # rendered
        <5>1. s # rendered
          BY DEF Rerender
        <5>2. s # At("waitingForConfirmation", t)
          BY <3>5, AtFields
        <5>3. s \in {At("confirmedOneShot", t), At("failed", t), At("cancelled", t)}
          BY <3>2, <5>1, <5>2 DEF Phase
        <5> QED
          BY <5>1, <5>3, AtFields
      <4>2. MyType(rendered') \notin Waiting
        BY <1>1, <4>1 DEF MyType, Waiting
      <4>3. changePending
        BY <1>5, <4>2, Zenon DEF Follow
      <4>4. ASSUME AwaitsOutcome PROVE FALSE
        <5>1. Id(t) = StakeId /\ ~Paid(t)
          BY <3>3, <4>4 DEF StakeTxs
        <5>2. s.type \in {"failed", "cancelled"}
          BY <3>2, <4>1, <5>1 DEF TxInv, ShownIsTrue, Paid
        <5>3. /\ MyType(rendered') \in {"failed", "cancelled"}
              /\ MyType(rendered) \in Waiting
          BY <1>1, <3>2, <5>1, <5>2 DEF MyType, IdOf, Waiting
        <5>4. MyType(rendered') # MyType(rendered)
          BY <5>3 DEF Waiting
        <5> QED
          BY <1>5, <4>2, <5>3, <5>4, Zenon DEF Follow
      <4> QED
        BY <1>3, <4>3, <4>4, Zenon DEF InOrder
    <3> QED
      BY <3>4, <3>5
  <2>2. CASE \A t \in Txs : ~Unfinished(t)
    <3>1. s.type \notin Waiting
      BY <2>2 DEF Turns, TxInv, TxTypeOK, Waiting
    <3>2. MyType(rendered') \notin Waiting
      BY <1>1, <3>1 DEF MyType, Waiting
    <3>3. changePending
      BY <1>5, <3>2, Zenon DEF Follow
    <3>4. ~AwaitsOutcome
      BY <2>2 DEF AwaitsOutcome, StakeTxs
    <3> QED
      BY <1>3, <3>3, <3>4, Zenon DEF InOrder
  <2> QED
    BY <2>1, <2>2
<1> QED
  BY <1>4, <1>5, Zenon DEF InOrder

\* The other steps of a transaction render nothing.
LEMMA UnrenderedPending ==
    ASSUME TxInv, Turns, InOrder, UNCHANGED rendered, Follow, Stakes, ~outrun',
           \A t \in Txs : monitor'[t] = "none" => monitor[t] = "none",
           \A t \in Txs : fate[t] # "none" => fate'[t] = fate[t]
    PROVE  InOrder'
<1>1. UNCHANGED <<stake, changePending>>
  BY Zenon DEF Follow
<1>2. /\ Committed => Committed'
      /\ \A t \in StakeTxs : fate[t] = "none" /\ Paid(t)' => Committed'
  BY <1>1, DecidedIsUntold
<1>3. AwaitsOutcome => AwaitsOutcome' \/ Committed'
  <2> SUFFICES ASSUME NEW t \in StakeTxs, Unfinished(t), ~Paid(t)
               PROVE  AwaitsOutcome' \/ Committed'
    BY DEF AwaitsOutcome
  <2>1. Unfinished(t)' /\ t \in Txs
    BY UnfinishedUntilRendered DEF StakeTxs
  <2>2. ~Paid(t)' \/ Committed'
    BY <1>2, <2>1 DEF Paid
  <2> QED
    BY <2>1, <2>2 DEF AwaitsOutcome
<1>4. \A t \in StakeTxs : Paid(t)' /\ monitor'[t] = "none" => Committed'
  <2> SUFFICES ASSUME NEW t \in StakeTxs, Paid(t)', monitor'[t] = "none"
               PROVE  Committed'
    OBVIOUS
  <2>1. monitor[t] = "none"
    BY DEF StakeTxs
  <2>2. CASE fate[t] = "none"
    BY <1>2, <2>2
  <2>3. CASE fate[t] # "none"
    <3>1. Paid(t)
      BY <2>3 DEF Paid, StakeTxs
    <3> QED
      BY <1>2, <2>1, <3>1 DEF InOrder
  <2> QED
    BY <2>2, <2>3
<1> QED
  BY <1>1, <1>2, <1>3, <1>4, Zenon DEF InOrder

LEMMA TransactionPending ==
    ASSUME TxInv, InTurn, PendingInv, TransactionStep PROVE PendingInv'
<1> SUFFICES ASSUME ~overlapped', ~outrun' PROVE InOrder'
  BY Zenon DEF PendingInv
<1>1. TxNext /\ Follow /\ Stakes
  BY Zenon DEF TransactionStep
<1>2. ~outrun
  BY <1>1, DecidedIsUntold, Zenon DEF Follow
<1>3. ~overlapped
  <2>1. CASE \E t \in Txs : Press(t)
    BY <2>1, Zenon DEF Press
  <2>2. CASE ~\E t \in Txs : Press(t)
    BY <1>1, <2>2, Zenon DEF TxNext, Rerender, Approve, SendReturns, SendThrows, Decide,
       Monitoring, ReceiptSucceeded, ReceiptFailed, ReasonReturns, ReceiptCancelled,
       ReceiptUnavailable, Clear
  <2> QED
    BY <2>1, <2>2
<1>4. Turns /\ InOrder
  BY <1>2, <1>3, Zenon DEF InTurn, PendingInv
<1>5. CASE \E t \in Txs : Press(t)
  BY <1>1, <1>4, <1>5, PressPending
<1>6. CASE Rerender
  BY <1>1, <1>4, <1>6, RerenderPending
<1>7. ASSUME NEW t \in Txs,
             \/ Approve(t) \/ SendReturns(t) \/ SendThrows(t) \/ Monitoring(t)
             \/ ReceiptUnavailable(t) \/ Clear
      PROVE  InOrder'
  <2>1. UNCHANGED <<rendered, fate>>
    BY <1>7 DEF Approve, SendReturns, SendThrows, Monitoring, ReceiptSucceeded,
       ReceiptFailed, ReasonReturns, ReceiptCancelled, ReceiptUnavailable, Clear
  <2>2. \A u \in Txs : monitor'[u] = "none" => monitor[u] = "none"
    BY <1>7 DEF Approve, SendReturns, SendThrows, Monitoring, ReceiptSucceeded,
       ReceiptFailed, ReasonReturns, ReceiptCancelled, ReceiptUnavailable, Clear,
       TxInv, TxTypeOK
  <2> QED
    BY <1>1, <1>4, <2>1, <2>2, UnrenderedPending
<1>8. ASSUME NEW t \in Txs, Decide(t) PROVE InOrder'
  <2>1. UNCHANGED <<rendered, monitor>> /\ \A u \in Txs : fate[u] # "none" => fate'[u] = fate[u]
    BY <1>8 DEF Decide, TxInv, TxTypeOK
  <2> QED
    BY <1>1, <1>4, <2>1, UnrenderedPending
<1>9. CASE Clear
  <2>1. /\ UNCHANGED <<rendered, fate, monitor>>
    BY <1>9 DEF Clear
  <2> QED
    BY <1>1, <1>4, <2>1, UnrenderedPending
<1> QED
  BY <1>1, <1>5, <1>6, <1>7, <1>8, <1>9 DEF TxNext

\* News tell what is committed, which ends the change; a gain can only hide it
\* in a way that the history records.
LEMMA NewsPending ==
    ASSUME PendingInv, Amounts, Accrue \/ UpdateStore PROVE PendingInv'
<1> SUFFICES ASSUME ~overlapped', ~outrun' PROVE InOrder'
  BY Zenon DEF PendingInv
<1>1. UNCHANGED txVars
  BY Zenon DEF Accrue, UpdateStore
<1>2. UNCHANGED <<transactionState, rendered, sending, fate, monitor, overlapped>>
  BY <1>1 DEF txVars
<1>3. ~overlapped /\ ~outrun
  BY <1>2, Zenon DEF Accrue, UpdateStore
<1>4. InOrder
  BY <1>3, Zenon DEF PendingInv
<1>5. /\ AwaitsOutcome' <=> AwaitsOutcome
      /\ \A t \in StakeTxs : Paid(t)' <=> Paid(t)
  BY <1>2 DEF AwaitsOutcome, Unfinished, Paid
<1>6. CASE Accrue
  <2>1. ~(chain.gain < stake.gain)
    BY <1>6, Zenon DEF Accrue
  <2>2. chain' = [chain EXCEPT !.gain = @ + 1] /\ UNCHANGED stake
    BY <1>6, Zenon DEF Accrue
  <2>3. Committed => Committed'
    BY <2>1, <2>2 DEF Committed, Amounts
  <2>4. UNCHANGED changePending
    BY <1>6, Zenon DEF Accrue
  <2>5. \A t \in StakeTxs : Paid(t)' /\ monitor'[t] = "none" => Committed'
    BY <1>2, <1>4, <1>5, <2>3 DEF InOrder
  <2>6. changePending' => AwaitsOutcome' \/ Committed'
    BY <1>4, <1>5, <2>3, <2>4, Zenon DEF InOrder
  <2> QED
    BY <2>5, <2>6, Zenon DEF InOrder
<1>7. CASE UpdateStore
  <2>1. changePending' => changePending /\ ~Committed
    BY <1>7, Zenon DEF UpdateStore
  <2>2. ~MinedUnawares
    BY <1>7, Zenon DEF UpdateStore
  <2>3. \A t \in StakeTxs : ~(Paid(t) /\ monitor[t] = "none")
    BY <2>2 DEF MinedUnawares, Paid
  <2>4. \A t \in StakeTxs : Paid(t)' /\ monitor'[t] = "none" => Committed'
    BY <1>2, <1>5, <2>3
  <2>5. changePending' => AwaitsOutcome' \/ Committed'
    BY <1>4, <1>5, <2>1, Zenon DEF InOrder
  <2> QED
    BY <2>4, <2>5, Zenon DEF InOrder
<1> QED
  BY <1>6, <1>7

-----------------------------------------------------------------------------
(* The overlay stays.  A change whose transaction is undecided is pending,  *)
(* and so is one that the store has yet to tell, which is then the last:    *)
(* its overlay covers the buttons.  Unless a receipt cannot be had, what is *)
(* told to have failed did not succeed, and what is finished was decided.   *)
Lost(t) == fate[t] # "none" /\ ~Paid(t)

Shown ==
    /\ Committed => changePending
    /\ \A t \in StakeTxs : Unfinished(t) /\ fate[t] = "none" => changePending
    /\ \A t \in StakeTxs : Unfinished(t) /\ ~Paid(t) => ~Committed

Decided ==
    /\ \A t \in Txs : monitor[t] = "finished" => fate[t] # "none"
    /\ \A t \in Txs : monitor[t] = "asking for the reason" => Lost(t)
    /\ transactionState.type = "failed" =>
          \/ sending[transactionState.tx] = "unsent"
          \/ Lost(transactionState.tx)
    /\ transactionState.type \in {"failed", "cancelled"} =>
          transactionState = rendered \/ Unfinished(transactionState.tx)

ShownInv == ~overlapped /\ failures = 0 => Shown /\ Decided

\* Rendering finishes nothing, and sets no failure that was not set before.
LEMMA RenderDecided ==
    ASSUME TxInv, Decided, NEW s \in States, Render(s), UNCHANGED fate,
           \A t \in Txs : sending[t] = "unsent" => sending'[t] = "unsent",
           s.type \in {"failed", "cancelled"} => s = transactionState
    PROVE  Decided'
<1>1. /\ rendered' = s
      /\ \A t \in Txs : monitor'[t] \in {"waiting", "cancelled", monitor[t]}
  BY DEF Render
<1>2. transactionState' \in {s, Idle} \/ transactionState'.type = "confirmed"
  BY DEF Render, States
<1>3. transactionState'.type \in {"failed", "cancelled"} =>
         transactionState' = s /\ s = transactionState /\ s.tx \in Txs
  BY <1>2, IdleIsState DEF States
<1> QED
  BY <1>1, <1>3 DEF Decided, Lost, Paid

\* A step that renders nothing tells of a failure only when there was one.
LEMMA UnrenderedDecided ==
    ASSUME TxInv, Turns, Decided, NEW t \in Txs, failures' = 0,
           \/ Approve(t) \/ SendReturns(t) \/ SendThrows(t) \/ Decide(t)
           \/ Monitoring(t) \/ ReceiptUnavailable(t) \/ Clear
    PROVE  Decided'
<1>1. /\ sending \in [Txs -> {"no", "asking", "submitted", "sent", "unsent"}]
      /\ fate \in [Txs -> ChainFates \cup {"none"}]
      /\ monitor \in [Txs -> {"none", "waiting", "asking for the reason", "finished",
                              "cancelled"}]
      /\ transactionState.type # "idle" => transactionState.tx \in Txs
      /\ ChainFates \subseteq Fates
  BY TransactionsAssumption DEF TxInv, TxTypeOK
<1>2. \A u \in Txs : Unfinished(u) /\ UNCHANGED rendered => Unfinished(u)'
  BY UnfinishedUntilRendered
<1>3. CASE Approve(t)
  BY <1>1, <1>2, <1>3 DEF Approve, Decided, Lost, Paid
<1>4. CASE SendReturns(t)
  <2>1. transactionState'.type = "waitingForConfirmation"
    BY <1>4, AtFields DEF SendReturns
  <2>2. /\ UNCHANGED <<fate, monitor>>
        /\ transactionState'.type \notin {"failed", "cancelled"}
    BY <1>4, <2>1 DEF SendReturns
  <2> QED
    BY <2>2 DEF Decided, Lost, Paid
<1>5. CASE SendThrows(t)
  <2>1. Unfinished(t) /\ transactionState'.tx = t /\ sending'[t] = "unsent"
    <3>1. PICK type \in {"cancelled", "failed"} : transactionState' = At(type, t)
      BY <1>5 DEF SendThrows
    <3>2. transactionState'.tx = t
      BY <3>1, AtFields
    <3>3. Unfinished(t) /\ sending'[t] = "unsent"
      BY <1>1, <1>5 DEF SendThrows, Unfinished
    <3> QED
      BY <3>2, <3>3
  <2>2. Unfinished(t)' /\ UNCHANGED <<fate, monitor>>
    BY <1>2, <1>5, <2>1 DEF SendThrows
  <2> QED
    BY <2>1, <2>2 DEF Decided, Lost, Paid
<1>6. CASE Decide(t)
  <2>1. /\ UNCHANGED <<transactionState, rendered, sending, monitor>>
        /\ \A u \in Txs : fate[u] # "none" => fate'[u] = fate[u]
    BY <1>1, <1>6 DEF Decide
  <2> QED
    BY <1>1, <1>2, <2>1 DEF Decided, Lost, Paid
<1>7. CASE ReceiptSucceeded(t)
  <2>1. transactionState'.type = "confirmedOneShot"
    BY <1>7, AtFields DEF ReceiptSucceeded
  <2>2. /\ UNCHANGED fate /\ fate[t] # "none"
        /\ monitor' = [monitor EXCEPT ![t] = "finished"]
        /\ transactionState'.type \notin {"failed", "cancelled"}
    BY <1>7, <2>1 DEF ReceiptSucceeded
  <2> QED
    BY <1>1, <2>2 DEF Decided, Lost, Paid
<1>8. CASE ReceiptFailed(t)
  <2>1. Lost(t)
    BY <1>1, <1>8 DEF ReceiptFailed, WaitForReceipt, Supplanted, RawStatus, Fates, Lost, Paid
  <2>2. UNCHANGED <<transactionState, rendered, sending, fate>>
    BY <1>8 DEF ReceiptFailed
  <2>3. monitor' = [monitor EXCEPT ![t] = "asking for the reason"]
    BY <1>8 DEF ReceiptFailed
  <2> QED
    BY <1>1, <1>2, <2>1, <2>2, <2>3 DEF Decided, Lost, Paid
<1>9. CASE ReasonReturns(t) \/ ReceiptCancelled(t)
  <2>1. /\ monitor[t] \in {"waiting", "asking for the reason"} /\ sending[t] = "sent"
        /\ UNCHANGED <<rendered, fate, sending>>
        /\ monitor' = [monitor EXCEPT ![t] = "finished"]
    BY <1>9 DEF ReasonReturns, ReceiptCancelled, TxInv, TxTypeOK
  <2>2. Unfinished(t)
    BY <2>1 DEF Unfinished
  <2>3. /\ transactionState' \in {At("failed", t), At("cancelled", t)}
        /\ transactionState' = At("failed", t) => Lost(t)
        /\ fate[t] # "none"
    <3>1. At("cancelled", t) # At("failed", t)
      <4>1. At("cancelled", t).type = "cancelled" /\ At("failed", t).type = "failed"
        BY AtFields
      <4> QED
        BY <4>1
    <3>2. CASE ReasonReturns(t)
      BY <3>2 DEF ReasonReturns, Decided, Lost
    <3>3. CASE ReceiptCancelled(t)
      BY <3>1, <3>3 DEF ReceiptCancelled
    <3> QED
      BY <1>9, <3>2, <3>3
  <2>4. Unfinished(t)' /\ transactionState'.tx = t
    <3>1. At("failed", t).tx = t /\ At("cancelled", t).tx = t
      BY AtFields
    <3> QED
      BY <1>2, <2>1, <2>2, <2>3, <3>1
  <2>5. transactionState'.type = "failed" => Lost(t)
    BY <2>3, AtFields
  <2> QED
    BY <1>1, <2>1, <2>3, <2>4, <2>5 DEF Decided, Lost, Paid
<1>10. CASE ReceiptUnavailable(t)
  <2>1. failures \in 0..MaxFailures /\ MaxFailures \in Nat
    BY TransactionsAssumption DEF TxInv, TxTypeOK
  <2>2. failures' = failures + 1
    BY <1>10 DEF ReceiptUnavailable
  <2> QED
    BY <2>1, <2>2
<1>11. CASE Clear
  BY <1>11, IdleIsState DEF Clear, Decided, Lost, Paid
<1> QED
  BY <1>3, <1>4, <1>5, <1>6, <1>7, <1>8, <1>9, <1>10, <1>11 DEF Monitoring

\* Only a success gives the store something to tell.
LEMMA UntoldIsPaid ==
    ASSUME Stakes, UNCHANGED stake
    PROVE  Committed' => Committed \/ \E t \in StakeTxs : fate[t] = "none" /\ Paid(t)'
<1> DEFINE done == {t \in StakeTxs : /\ fate[t] = "none"
                                     /\ fate'[t] \in {"succeeded", "repriced"}}
<1>1. done = {} => chain' = chain
  BY Zenon DEF Stakes
<1>2. CASE done = {}
  BY <1>1, <1>2 DEF Committed
<1>3. CASE done # {}
  BY <1>3 DEF Paid
<1> QED
  BY <1>2, <1>3

\* A pending change covers the buttons of the panel.
LEMMA PressShown ==
    ASSUME TxInv, Turns, Shown, NEW t \in Txs, Press(t), OwnButtons, Follow, Stakes,
           ~overlapped'
    PROVE  Shown'
<1>1. \A u \in Txs : ~Unfinished(u)
  BY Zenon DEF Press
<1>2. /\ sending[t] = "no" /\ sending' = [sending EXCEPT ![t] = "asking"]
      /\ rendered' = At("waitingForApproval", t) /\ UNCHANGED fate
      /\ monitor' = [u \in Txs |->
            IF MonitorAgain(rendered') /\ TxOf(rendered') = u THEN "waiting"
            ELSE IF Cancels(rendered') /\ TxOf(rendered) = u THEN "cancelled"
            ELSE monitor[u]]
  BY DEF Press, Render
<1>3. ~Cancels(rendered') /\ TxOf(rendered') = None
  <2>1. rendered'.type = "waitingForApproval"
    BY <1>2, AtFields
  <2>2. ~Unfinished(TxOf(rendered)) \/ TxOf(rendered) = None
    BY <1>1 DEF TxOf, TxInv, TxTypeOK
  <2>3. \A s : ~Cancels(s)
    BY <2>2, NothingToCancel
  <2> QED
    BY <2>1, <2>3 DEF TxOf
<1>4. \A u \in Txs \ {t} : ~Unfinished(u)'
  <2>1. rendered'.tx = t
    BY <1>2, AtFields
  <2>2. \A u \in Txs : monitor'[u] = monitor[u]
    BY <1>2, <1>3, TransactionsAssumption
  <2>3. \A u \in Txs \ {t} : sending'[u] = sending[u]
    BY <1>2 DEF TxInv, TxTypeOK
  <2> QED
    BY <1>1, <2>1, <2>2, <2>3 DEF Unfinished
<1>5. Committed' => Committed
  <2>1. UNCHANGED stake
    BY Zenon DEF Follow
  <2> QED
    BY <1>2, <2>1, UntoldIsPaid DEF Paid
<1>6. CASE t \in StakeTxs
  <2>1. ~changePending
    <3>1. sending'[t] # "no"
      BY <1>2 DEF TxInv, TxTypeOK
    <3> QED
      BY <1>2, <1>6, <3>1, Zenon DEF OwnButtons, Enabled
  <2>2. ~Committed'
    BY <1>5, <2>1, Zenon DEF Shown
  <2>3. MyType(rendered') = "waitingForApproval"
    BY <1>2, <1>6, AtFields DEF MyType, IdOf, StakeTxs
  <2>4. MyType(rendered) \notin Waiting
    BY <1>1 DEF MyType, Unfinished, Waiting, TxInv, TxTypeOK
  <2>5. MyType(rendered') \in Waiting /\ MyType(rendered') # MyType(rendered)
    BY <2>3, <2>4 DEF Waiting
  <2>6. changePending' = TRUE
    BY <2>5, Zenon DEF Follow
  <2> QED
    BY <2>2, <2>6, Zenon DEF Shown
<1>7. CASE t \notin StakeTxs
  <2>1. MyType(rendered') = "idle"
    BY <1>2, <1>7, AtFields DEF MyType, IdOf, StakeTxs
  <2>2. MyType(rendered') \notin Waiting \cup {"failed", "cancelled"}
    BY <2>1 DEF Waiting
  <2>3. changePending' = changePending
    BY <2>2, Zenon DEF Follow
  <2>4. \A u \in StakeTxs : ~Unfinished(u)'
    BY <1>4, <1>7 DEF StakeTxs
  <2> QED
    BY <1>5, <2>3, <2>4, Zenon DEF Shown
<1> QED
  BY <1>6, <1>7

\* What is rendered is the wait of the transaction, which shows the overlay, or
\* its failure, when the store has nothing to tell.
LEMMA RerenderShown ==
    ASSUME TxInv, Turns, Shown, Decided, Rerender, Follow, Stakes
    PROVE  Shown'
<1> DEFINE s == transactionState
<1>1. /\ rendered' = s /\ s # rendered /\ UNCHANGED <<sending, fate>>
      /\ monitor' = [t \in Txs |->
            IF MonitorAgain(s) /\ TxOf(s) = t THEN "waiting"
            ELSE IF Cancels(s) /\ TxOf(rendered) = t THEN "cancelled"
            ELSE monitor[t]]
  BY DEF Rerender, Render
<1>2. Committed' => Committed
  <2>1. UNCHANGED stake
    BY Zenon DEF Follow
  <2> QED
    BY <1>1, <2>1, UntoldIsPaid DEF Paid
<1>3. ASSUME NEW t \in Txs, Unfinished(t)' PROVE Unfinished(t)
  <2>1. CASE TxOf(s) = t
    BY <2>1, TransactionsAssumption DEF TxOf, Turns, Waiting
  <2>2. CASE s.tx = t /\ s.type \in Waiting
    BY <2>2 DEF Turns
  <2>3. CASE TxOf(s) # t /\ ~(s.tx = t /\ s.type \in Waiting)
    <3>1. sending[t] \in {"asking", "submitted"} \/ (sending[t] = "sent" /\ monitor'[t] # "finished")
      BY <1>1, <1>3, <2>3 DEF Unfinished
    <3>2. monitor'[t] # "finished" => monitor[t] # "finished"
      BY <1>1, <2>3 DEF Cancels
    <3> QED
      BY <3>1, <3>2 DEF Unfinished
  <2> QED
    BY <2>1, <2>2, <2>3
<1>4. CASE MyType(s) \in Waiting
  <2>1. s.tx \in StakeTxs /\ s.type \in Waiting
    BY <1>4 DEF MyType, IdOf, Waiting, StakeTxs, TxInv, TxTypeOK
  <2>2. Unfinished(s.tx)
    BY <2>1 DEF Turns
  <2>3. changePending'
    <3>1. CASE MyType(rendered') = MyType(rendered)
      <4>1. s.tx \in Txs
        BY <2>1 DEF StakeTxs
      <4>2. Phase(s.tx) /\ rendered.tx = s.tx /\ rendered.type \in Waiting
        BY <2>2, <4>1, TurnIsShown
      <4>3. rendered.type = s.type
        BY <1>1, <2>1, <3>1, <4>2 DEF MyType, IdOf, StakeTxs, Waiting
      <4>4. s \in [type : Types, tx : Txs \cup {None}]
            /\ rendered \in [type : Types, tx : Txs \cup {None}]
        BY DEF TxInv, TxTypeOK
      <4> QED
        BY <1>1, <4>2, <4>3, <4>4
    <3>2. CASE MyType(rendered') # MyType(rendered)
      <4>1. MyType(rendered') \in Waiting
        BY <1>1, <1>4
      <4> QED
        BY <3>2, <4>1, Zenon DEF Follow
    <3> QED
      BY <3>1, <3>2
  <2>4. \A t \in StakeTxs : Unfinished(t)' /\ ~Paid(t)' => ~Committed'
    BY <1>1, <1>2, <1>3 DEF Shown, Paid, StakeTxs
  <2> QED
    BY <2>3, <2>4, Zenon DEF Shown
<1>5. CASE MyType(s) \in {"failed", "cancelled"}
  <2>1. /\ s.type \in {"failed", "cancelled"} /\ s.tx \in StakeTxs /\ s.tx \in Txs
    BY <1>5 DEF MyType, IdOf, StakeTxs, TxInv, TxTypeOK
  <2>2. Unfinished(s.tx) /\ ~Paid(s.tx)
    BY <1>1, <2>1 DEF Decided, Lost, Paid, TxInv, TxTypeOK, ShownIsTrue
  <2>3. ~Committed'
    BY <1>2, <2>1, <2>2 DEF Shown
  <2>4. \A t \in StakeTxs : ~Unfinished(t)'
    <3> SUFFICES ASSUME NEW t \in StakeTxs, Unfinished(t)' PROVE FALSE
      OBVIOUS
    <3>1. t \in Txs /\ Unfinished(t)
      BY <1>3 DEF StakeTxs
    <3>2. s.tx = t /\ Phase(t)
      BY <3>1, TurnIsShown
    <3>3. /\ s # At("waitingForApproval", t) /\ s # At("waitingForConfirmation", t)
      BY <2>1, AtFields
    <3>4. sending[t] = "unsent" \/ (sending[t] = "sent" /\ monitor[t] = "finished")
      BY <3>2, <3>3 DEF Phase
    <3>5. TxOf(s) # t /\ s.type \notin Waiting
      BY <2>1, <3>1, TransactionsAssumption DEF TxOf, Waiting
    <3>6. monitor'[t] # "finished"
      BY <1>1, <3>4, <3>5 DEF Unfinished
    <3>7. Cancels(s) /\ TxOf(rendered) = t /\ monitor[t] = "finished"
      BY <1>1, <3>1, <3>4, <3>5, <3>6 DEF Unfinished
    <3> QED
      BY <3>7 DEF Cancels
  <2> QED
    BY <2>3, <2>4, Zenon DEF Shown
<1>6. CASE MyType(s) \notin Waiting \cup {"failed", "cancelled"}
  <2>1. changePending' = changePending
    <3>1. MyType(rendered') \notin Waiting \cup {"failed", "cancelled"}
      BY <1>1, <1>6
    <3> QED
      BY <3>1, Zenon DEF Follow
  <2>2. /\ \A t \in StakeTxs : Unfinished(t)' /\ fate'[t] = "none" => changePending'
        /\ \A t \in StakeTxs : Unfinished(t)' /\ ~Paid(t)' => ~Committed'
    BY <1>1, <1>2, <1>3, <2>1 DEF Shown, Paid, StakeTxs
  <2> QED
    BY <1>2, <2>1, <2>2, Zenon DEF Shown
<1> QED
  BY <1>4, <1>5, <1>6

\* A transaction whose success is untold is the one that was pending.
LEMMA UnrenderedShown ==
    ASSUME TxInv, Turns, Shown, Decided, UNCHANGED rendered, Follow, Stakes,
           \A t \in Txs : Unfinished(t)' => Unfinished(t),
           \A t \in Txs : fate[t] # "none" => fate'[t] = fate[t],
           \A t \in Txs : fate[t] = "none" /\ fate'[t] # "none" =>
              sending[t] \in {"submitted", "sent"}
    PROVE  Shown'
<1>1. UNCHANGED <<stake, changePending>>
  BY Zenon DEF Follow
<1>2. \A t \in Txs : fate[t] = "none" /\ fate'[t] # "none" => Unfinished(t)
  BY DEF Unfinished, Decided
<1>3. CASE \E t \in StakeTxs : fate[t] = "none" /\ Paid(t)'
  <2>1. PICK t \in StakeTxs : fate[t] = "none" /\ Paid(t)'
    BY <1>3
  <2>2. t \in Txs /\ Unfinished(t)
    BY <1>2, <2>1 DEF StakeTxs, Paid
  <2>3. changePending
    BY <2>1, <2>2 DEF Shown
  <2>4. \A u \in StakeTxs : Unfinished(u)' => Paid(u)'
    <3> SUFFICES ASSUME NEW u \in StakeTxs, Unfinished(u)' PROVE Paid(u)'
      OBVIOUS
    <3>1. u \in Txs /\ Unfinished(u)
      BY DEF StakeTxs
    <3>2. u = t
      BY <2>2, <3>1, TurnIsShown
    <3> QED
      BY <2>1, <3>2
  <2> QED
    BY <1>1, <2>3, <2>4, Zenon DEF Shown
<1>4. CASE ~\E t \in StakeTxs : fate[t] = "none" /\ Paid(t)'
  <2>1. Committed' => Committed
    BY <1>1, <1>4, UntoldIsPaid
  <2>2. \A t \in StakeTxs : /\ Unfinished(t)' => Unfinished(t)
                            /\ fate'[t] = "none" => fate[t] = "none"
                            /\ ~Paid(t)' => ~Paid(t)
    BY DEF StakeTxs, Paid
  <2> QED
    BY <1>1, <2>1, <2>2, Zenon DEF Shown
<1> QED
  BY <1>3, <1>4

LEMMA TransactionShown ==
    ASSUME TxInv, InTurn, ShownInv, TransactionStep PROVE ShownInv'
<1> SUFFICES ASSUME ~overlapped', failures' = 0 PROVE Shown' /\ Decided'
  BY Zenon DEF ShownInv
<1>1. TxNext /\ OwnButtons /\ Follow /\ Stakes
  BY Zenon DEF TransactionStep
<1>2. ~overlapped
  <2>1. CASE \E t \in Txs : Press(t)
    BY <2>1, Zenon DEF Press
  <2>2. CASE ~\E t \in Txs : Press(t)
    BY <1>1, <2>2, Zenon DEF TxNext, Rerender, Approve, SendReturns, SendThrows, Decide,
       Monitoring, ReceiptSucceeded, ReceiptFailed, ReasonReturns, ReceiptCancelled,
       ReceiptUnavailable, Clear
  <2> QED
    BY <2>1, <2>2
<1>3. failures = 0
  <2>1. failures' = failures \/ failures' = failures + 1
    BY <1>1 DEF TxNext, Press, Rerender, Approve, SendReturns, SendThrows, Decide,
       Monitoring, ReceiptSucceeded, ReceiptFailed, ReasonReturns, ReceiptCancelled,
       ReceiptUnavailable, Clear
  <2>2. failures \in 0..MaxFailures /\ MaxFailures \in Nat
    BY TransactionsAssumption DEF TxInv, TxTypeOK
  <2> QED
    BY <2>1, <2>2
<1>4. Turns /\ Shown /\ Decided
  BY <1>2, <1>3, Zenon DEF InTurn, ShownInv
<1>5. ASSUME NEW t \in Txs, Press(t) PROVE Shown' /\ Decided'
  <2>1. At("waitingForApproval", t) \in States
        /\ At("waitingForApproval", t).type = "waitingForApproval"
    BY AtIsState DEF Types, Waiting
  <2>2. /\ Render(At("waitingForApproval", t)) /\ UNCHANGED fate
        /\ \A u \in Txs : sending[u] = "unsent" => sending'[u] = "unsent"
    BY <1>5 DEF Press, TxInv, TxTypeOK
  <2>3. Decided'
    BY <1>4, <2>1, <2>2, RenderDecided
  <2> QED
    BY <1>1, <1>4, <1>5, <2>3, PressShown
<1>6. CASE Rerender
  <2>1. transactionState \in States
    BY DEF TxInv, TxTypeOK, States
  <2>2. Render(transactionState) /\ UNCHANGED <<fate, sending>>
    BY <1>6 DEF Rerender
  <2>3. Decided'
    BY <1>4, <2>1, <2>2, RenderDecided
  <2> QED
    BY <1>1, <1>4, <1>6, <2>3, RerenderShown
<1>7. ASSUME NEW t \in Txs,
             \/ Approve(t) \/ SendReturns(t) \/ SendThrows(t) \/ Decide(t)
             \/ Monitoring(t) \/ ReceiptUnavailable(t)
      PROVE  Shown' /\ Decided'
  <2>1. Decided'
    BY <1>4, <1>7, UnrenderedDecided
  <2>2. /\ UNCHANGED rendered
        /\ sending[t] \in {"asking", "submitted", "sent"}
        /\ \A u \in Txs \ {t} : sending'[u] = sending[u] /\ monitor'[u] = monitor[u]
        /\ \A u \in Txs : fate[u] # "none" => fate'[u] = fate[u]
        /\ \A u \in Txs : fate[u] = "none" /\ fate'[u] # "none" =>
              sending[u] \in {"submitted", "sent"}
    BY <1>7 DEF Approve, SendReturns, SendThrows, Decide, Monitoring, ReceiptSucceeded,
       ReceiptFailed, ReasonReturns, ReceiptCancelled, ReceiptUnavailable, TxInv, TxTypeOK
  <2>3. Unfinished(t)' => Unfinished(t)
    <3>1. sending[t] = "sent" => sending'[t] = "sent"
      BY <1>7 DEF Approve, SendReturns, SendThrows, Decide, Monitoring, ReceiptSucceeded,
         ReceiptFailed, ReasonReturns, ReceiptCancelled, ReceiptUnavailable, TxInv, TxTypeOK
    <3>2. monitor[t] = "finished" => monitor'[t] = "finished"
      BY <1>7 DEF Approve, SendReturns, SendThrows, Decide, Monitoring, ReceiptSucceeded,
         ReceiptFailed, ReasonReturns, ReceiptCancelled, ReceiptUnavailable, TxInv, TxTypeOK
    <3> QED
      BY <2>2, <3>1, <3>2 DEF Unfinished
  <2>4. \A u \in Txs : Unfinished(u)' => Unfinished(u)
    BY <2>2, <2>3 DEF Unfinished
  <2> QED
    BY <1>1, <1>4, <2>1, <2>2, <2>4, UnrenderedShown
<1>8. CASE Clear
  <2>1. Decided'
    <3>1. CASE Txs = {}
      BY <1>4, <1>8, <3>1, IdleIsState DEF Clear, Decided, Lost, Paid
    <3>2. CASE Txs # {}
      BY <1>4, <1>8, <3>2, UnrenderedDecided
    <3> QED
      BY <3>1, <3>2
  <2>2. UNCHANGED <<rendered, sending, fate, monitor>>
    BY <1>8 DEF Clear
  <2>3. \A u \in Txs : Unfinished(u)' => Unfinished(u)
    BY <2>2 DEF Unfinished
  <2> QED
    BY <1>1, <1>4, <2>1, <2>2, <2>3, UnrenderedShown
<1> QED
  BY <1>1, <1>5, <1>6, <1>7, <1>8 DEF TxNext

\* The store ends a change only when it tells a commit, and gains are none.
LEMMA NewsShown ==
    ASSUME ShownInv, Amounts, Accrue \/ UpdateStore PROVE ShownInv'
<1> SUFFICES ASSUME ~overlapped', failures' = 0 PROVE Shown' /\ Decided'
  BY Zenon DEF ShownInv
<1>1. UNCHANGED txVars
  BY Zenon DEF Accrue, UpdateStore
<1>2. UNCHANGED <<transactionState, rendered, sending, fate, monitor, failures, overlapped>>
  BY <1>1 DEF txVars
<1>3. Shown /\ Decided
  BY <1>2, Zenon DEF ShownInv
<1>4. Decided'
  BY <1>2, <1>3 DEF Decided, Lost, Paid, Unfinished
<1>5. \A t \in StakeTxs : /\ Unfinished(t)' <=> Unfinished(t)
                          /\ Paid(t)' <=> Paid(t)
                          /\ fate'[t] = fate[t]
  BY <1>2 DEF Unfinished, Paid
<1>6. CASE Accrue
  <2>1. chain' = [chain EXCEPT !.gain = @ + 1] /\ UNCHANGED <<stake, changePending>>
    BY <1>6, Zenon DEF Accrue
  <2>2. Committed' => Committed
    BY <2>1 DEF Committed, Amounts
  <2> QED
    BY <1>3, <1>4, <1>5, <2>1, <2>2, Zenon DEF Shown
<1>7. CASE UpdateStore
  <2>1. /\ stake' = chain /\ chain' = chain
        /\ changePending' = (changePending /\ ~Committed)
    BY <1>7, Zenon DEF UpdateStore
  <2>2. ~Committed'
    BY <2>1 DEF Committed, Amounts
  <2>3. ASSUME NEW t \in StakeTxs, Unfinished(t)', fate'[t] = "none" PROVE changePending'
    <3>1. Unfinished(t) /\ fate[t] = "none" /\ ~Paid(t)
      BY <1>5, <2>3 DEF Paid
    <3>2. changePending /\ ~Committed
      BY <1>3, <3>1, Zenon DEF Shown
    <3> QED
      BY <2>1, <3>2, Zenon
  <2> QED
    BY <1>4, <2>2, <2>3, Zenon DEF Shown
<1> QED
  BY <1>6, <1>7

-----------------------------------------------------------------------------
\* The types of the state of the transactions and of the panel.
THEOREM TypeCorrect == Spec => []TypeOK
<1>1. TxInv /\ Amounts /\ Flags => TypeOK
  BY Zenon DEF TxInv, Amounts, Flags, TypeOK
<1> QED
  BY <1>1, TxInvariance, AmountsInvariance, FlagsInvariance, PTL

\* As long as no button is pressed under an unfinished transaction, the state
\* stays with the transaction until its outcome is rendered, and what is rendered
\* disables the buttons of <Transaction>.
THEOREM StateIsKept == Spec => []StateKeptWhileUnfinished
<1>1. InTurn => StateKeptWhileUnfinished
  <2> SUFFICES ASSUME Turns, NEW t \in Txs, Unfinished(t)
               PROVE  transactionState.tx = t /\ rendered.type \in Waiting
    BY DEF InTurn, StateKeptWhileUnfinished
  <2> QED
    BY TurnIsShown
<1> QED
  BY <1>1, TurnsInvariance, PTL

\* Whatever transactions overlap, the state never claims what did not happen.
THEOREM NothingFalseIsShown == Spec => []ShownIsTrue
  BY TxInvariance, PTL DEF TxInv

\* Only the receipt of the rendered transaction is waited for.
THEOREM OneIsMonitored == Spec => []OneMonitor
  BY TxInvariance, PTL DEF TxInv

\* As long as transactions do not overlap, the overlay is on the panel from the
\* press of a button until its transaction is decided and, if that commits the
\* change, until the store tells it, or a receipt cannot be had; and it is there
\* only while something is left that will remove it, unless the store is ahead
\* of the wallet or a claim makes no difference to what it last told.
THEOREM PendingIsShownInOrder == Spec => []PendingIsTrueInOrder
<1>1. Init => PendingInv /\ ShownInv
  <2> SUFFICES ASSUME Init PROVE InOrder /\ Shown /\ Decided
    BY Zenon DEF PendingInv, ShownInv
  <2>1. changePending = FALSE
    BY Zenon DEF Init
  <2>2. \A t \in StakeTxs : ~Paid(t)
    BY DEF Init, TxInit, StakeTxs, Paid
  <2>3. \A t \in StakeTxs : ~Unfinished(t)
    BY DEF Init, TxInit, StakeTxs, Unfinished, Idle, Waiting
  <2>4. ~Committed
    BY DEF Init, Committed
  <2>5. Decided
    BY DEF Init, TxInit, Idle, Decided
  <2> QED
    BY <2>1, <2>2, <2>3, <2>4, <2>5, Zenon DEF InOrder, Shown
<1>2. TxInv /\ InTurn /\ Amounts /\ PendingInv /\ ShownInv /\ [Next]_vars
         => PendingInv' /\ ShownInv'
  <2> SUFFICES ASSUME TxInv, InTurn, Amounts, PendingInv, ShownInv, [Next]_vars
               PROVE  PendingInv' /\ ShownInv'
    OBVIOUS
  <2>1. CASE TransactionStep
    BY <2>1, TransactionPending, TransactionShown
  <2>2. CASE Accrue \/ UpdateStore
    BY <2>2, NewsPending, NewsShown
  <2>3. CASE UNCHANGED <<txVars, chain, stake, changePending, outrun>>
    <3>1. UNCHANGED <<transactionState, rendered, sending, fate, monitor, failures,
                      overlapped>>
      BY <2>3 DEF txVars
    <3>2. PendingInv'
      BY <2>3, <3>1 DEF PendingInv, InOrder, AwaitsOutcome, Unfinished, Paid, Committed
    <3>3. ShownInv'
      BY <2>3, <3>1 DEF ShownInv, Shown, Decided, Lost, Unfinished, Paid, Committed
    <3> QED
      BY <3>2, <3>3
  <2> QED
    BY <2>1, <2>2, <2>3, Zenon
    DEF Next, StartAdjusting, CancelAdjusting, vars, viewVars
<1>3. TxInv /\ Amounts /\ PendingInv /\ ShownInv => PendingIsTrueInOrder
  <2> SUFFICES ASSUME TxInv, Amounts, PendingInv, ShownInv, ~overlapped
               PROVE  /\ ~outrun => PendingIsTrue
                      /\ failures = 0 => PendingIsShown
    BY Zenon DEF PendingIsTrueInOrder
  <2>1. ASSUME ~outrun, changePending PROVE StakingTxPending
    <3>1. AwaitsOutcome \/ Committed
      BY <2>1, Zenon DEF PendingInv, InOrder
    <3> QED
      BY <3>1, CommitIsUntold, Zenon DEF AwaitsOutcome, StakingTxPending
  <2>2. ASSUME failures = 0 PROVE PendingIsShown
    BY <2>2, Zenon DEF ShownInv, Shown, PendingIsShown
  <2> QED
    BY <2>1, <2>2, Zenon DEF PendingIsTrue
<1> QED
  BY <1>1, <1>2, <1>3, TxInvariance, TurnsInvariance, AmountsInvariance, PTL DEF Spec
=============================================================================
