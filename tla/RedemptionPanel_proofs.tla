----------------------- MODULE RedemptionPanel_proofs -----------------------
(***************************************************************************)
(* Proofs about the provider, the hooks and the redemption panel, for      *)
(* every chain, every selection, every answer and any number of mounts and *)
(* entries.                                                                *)
(***************************************************************************)
EXTENDS RedemptionPanel, TLAPS

\* The steps that do not belong to the panel, by what they do to the hooks.
HookNext ==
    HookStep \/ RenderChildren \/ Leave \/ Unmount \/ UNCHANGED hookVars

-----------------------------------------------------------------------------
(* Types                                                                   *)

HooksTypeOK ==
    /\ head \in Blocks
    /\ loading \subseteq Blocks /\ fetching \subseteq Blocks
    /\ state \in Blocks \cup {0}
    /\ provider \in {"none", "mounted", "waiting", "loaded"}
    /\ child \in {"none", "drawn", "subscribed"}
    /\ provider = "loaded" => state # 0
    /\ child # "none" => /\ provider = "loaded"
                         /\ screen \in Blocks /\ state \in Blocks /\ reduced \in Blocks

PanelTypeOK ==
    /\ debtToken \in Nat /\ estimated \in Nat /\ estimatedOf \in Nat
    /\ timer \in Amounts \cup {None}
    /\ asked \in [Amounts -> Nat]
    /\ tx \in TxTypes

\* The hooks keep their types, whatever the order of fetches and mounts.
LEMMA HookTypesStep ==
    ASSUME HooksTypeOK, HookNext
    PROVE  HooksTypeOK'
<1> USE HooksAssumption DEF HooksTypeOK
<1>1. CASE Mount
  BY <1>1 DEF Mount
<1>2. CASE StartStore
  BY <1>2 DEF StartStore
<1>3. CASE NewBlock
  BY <1>3 DEF NewBlock
<1>4. CASE Subscribe
  BY <1>4 DEF Subscribe
<1>5. CASE Render
  BY <1>5 DEF Render
<1>6. CASE Heartbeat
  BY <1>6 DEF Heartbeat, Update
<1>7. ASSUME NEW b \in Blocks, Started(b)
      PROVE  HooksTypeOK'
  BY <1>7 DEF Started, Load
<1>8. ASSUME NEW b \in Blocks, Fetched(b)
      PROVE  HooksTypeOK'
  <2>1. CASE Load
    BY <1>8, <2>1 DEF Fetched, Load
  <2>2. CASE Update(b)
    BY <1>8, <2>2 DEF Fetched, Update
  <2> QED
    BY <1>8, <2>1, <2>2 DEF Fetched
<1>9. CASE RenderChildren
  BY <1>9 DEF RenderChildren
<1>10. CASE Leave
  BY <1>10 DEF Leave
<1>11. CASE Unmount
  BY <1>11 DEF Unmount
<1>12. CASE UNCHANGED hookVars
  BY <1>12 DEF hookVars
<1> QED
  BY <1>1, <1>2, <1>3, <1>4, <1>5, <1>6, <1>7, <1>8, <1>9, <1>10, <1>11, <1>12
     DEF HookNext, HookStep

\* Every step of the whole is a step of the hooks.
LEMMA EveryStepIsOfTheHooks ==
    [Next]_vars => HookNext
BY DEF Next, vars, HookNext

\* Setting the amount keeps the types.
LEMMA SetDebtTokenTypes ==
    ASSUME NEW amount \in Nat, amount # 0 => amount \in Amounts, SetDebtToken(amount)
    PROVE  debtToken' \in Nat /\ timer' \in Amounts \cup {None}
BY DEF SetDebtToken

\* A transaction that the panel follows keeps the types.
LEMMA FollowTypes ==
    ASSUME PanelTypeOK, NEW type \in TxTypes, Follow(type)
    PROVE  PanelTypeOK'
<1>1. debtToken' \in Nat /\ timer' \in Amounts \cup {None}
  <2>1. CASE type \in Waiting \cup {"failed"}
    BY <2>1 DEF Follow, PanelTypeOK
  <2>2. CASE type \notin Waiting \cup {"failed"}
    BY <2>2, SetDebtTokenTypes DEF Follow
  <2> QED BY <2>1, <2>2
<1> QED
  BY <1>1 DEF Follow, PanelTypeOK

\* The panel keeps its types.
LEMMA PanelTypesStep ==
    ASSUME HooksTypeOK, PanelTypeOK, [Next]_vars
    PROVE  PanelTypeOK'
<1> USE PanelAssumption
<1>1. ASSUME NEW a \in Amounts, Enter(a)
      PROVE  PanelTypeOK'
  BY <1>1, SetDebtTokenTypes DEF Enter, PanelTypeOK
<1>2. ASSUME NEW a \in Amounts, Answer(a)
      PROVE  PanelTypeOK'
  BY <1>2 DEF Answer, PanelTypeOK, HooksTypeOK
<1>3. CASE TimerFires
  <2>1. asked' \in [Amounts -> Nat]
    <3>1. timer \in Amounts
      BY <1>3 DEF TimerFires, PanelTypeOK
    <3>2. asked[timer] \in Nat
      BY <3>1 DEF PanelTypeOK
    <3> QED BY <1>3, <3>1, <3>2 DEF TimerFires, PanelTypeOK
  <2> QED BY <1>3, <2>1 DEF TimerFires, PanelTypeOK
<1>4. CASE Press
  BY <1>4, FollowTypes DEF Press, TxTypes, Waiting
<1>5. CASE Approve
  BY <1>5, FollowTypes DEF Approve, TxTypes, Waiting
<1>6. CASE Clear
  BY <1>6, FollowTypes DEF Clear, TxTypes
<1>7. ASSUME NEW type \in {"failed", "cancelled", "confirmed"}, Finish(type)
      PROVE  PanelTypeOK'
  BY <1>7, FollowTypes DEF Finish, TxTypes
<1>8. CASE PanelMounts
  BY <1>8 DEF PanelMounts, PanelTypeOK
<1>9. CASE TransactionGoesOn
  BY <1>9 DEF TransactionGoesOn, PanelTypeOK, TxTypes, Waiting
<1>10. CASE UNCHANGED panelVars
  BY <1>10 DEF panelVars, PanelTypeOK
<1> QED
  BY <1>1, <1>2, <1>3, <1>4, <1>5, <1>6, <1>7, <1>8, <1>9, <1>10
     DEF Next, vars, PanelStep

Types == HooksTypeOK /\ PanelTypeOK

\* The two halves hold together in every state.
LEMMA TypesHold == Spec => []Types
<1>1. Init => Types
  BY HooksAssumption, PanelAssumption
     DEF Init, HooksInit, PanelInit, Types, HooksTypeOK, PanelTypeOK, TxTypes
<1>2. Types /\ [Next]_vars => Types'
  BY HookTypesStep, PanelTypesStep, EveryStepIsOfTheHooks DEF Types
<1> QED BY <1>1, <1>2, PTL DEF Spec

\* The variables have their types, and a component is only drawn over a store
\* that was loaded.
THEOREM TypeCorrect == Spec => []TypeOK
<1>1. Types => TypeOK
  BY DEF Types, HooksTypeOK, PanelTypeOK, TypeOK
<1> QED BY <1>1, TypesHold, PTL

-----------------------------------------------------------------------------
(* The screen                                                              *)

\* ScreenFollowsStore before the subscription as well.
ScreenInv ==
    child # "none" =>
        /\ "selector" \in missed \/ rerender \/ Selection[screen] = Selection[state]
        /\ "reducer" \in missed \/ reduced = state

LEMMA ScreenStep ==
    ASSUME HooksTypeOK, ScreenInv, HookNext
    PROVE  ScreenInv'
<1> USE HooksAssumption DEF ScreenInv
<1>1. CASE Mount \/ StartStore \/ NewBlock \/ Subscribe \/ UNCHANGED hookVars
  BY <1>1 DEF Mount, StartStore, NewBlock, Subscribe, hookVars, HooksTypeOK
<1>2. CASE Render
  BY <1>2 DEF Render
\* An update, which a component that has not subscribed misses.
<1>3. ASSUME NEW b, Update(b), state' = b
      PROVE  ScreenInv'
  <2>1. CASE child = "subscribed"
    BY <1>3, <2>1 DEF Update, SelectionsEqual
  <2>2. CASE child = "drawn"
    BY <1>3, <2>2 DEF Update
  <2>3. CASE child = "none"
    BY <1>3, <2>3 DEF Update
  <2> QED BY <2>1, <2>2, <2>3 DEF HooksTypeOK
\* Nothing is drawn before the store is loaded.
<1>4. ASSUME Load
      PROVE  ScreenInv'
  BY <1>4 DEF Load, HooksTypeOK
<1>5. CASE Heartbeat
  BY <1>5, <1>3 DEF Heartbeat
<1>6. ASSUME NEW b \in Blocks, Started(b)
      PROVE  ScreenInv'
  <2>1. CASE Load
    BY <2>1, <1>4
  <2>2. CASE ~Load
    BY <1>6, <2>2 DEF Started
  <2> QED BY <2>1, <2>2
<1>7. ASSUME NEW b \in Blocks, Fetched(b)
      PROVE  ScreenInv'
  BY <1>7, <1>3, <1>4 DEF Fetched
<1>8. CASE RenderChildren \/ Leave \/ Unmount
  BY <1>8 DEF RenderChildren, Leave, Unmount
<1> QED
  BY <1>1, <1>2, <1>5, <1>6, <1>7, <1>8 DEF HookNext, HookStep

\* A component that has subscribed shows the store's state and its reducer has
\* seen it, but for what it missed before the subscription: for every order of
\* fetches, heartbeats, renderings and mounts.
THEOREM ScreenIsTrue == Spec => []ScreenFollowsStore
<1>1. Init => ScreenInv
  BY DEF Init, HooksInit, ScreenInv
<1>2. Types /\ ScreenInv /\ [Next]_vars => ScreenInv'
  BY ScreenStep, EveryStepIsOfTheHooks DEF Types
<1>3. ScreenInv => ScreenFollowsStore
  BY DEF ScreenInv, ScreenFollowsStore
<1> QED BY <1>1, <1>2, <1>3, TypesHold, PTL DEF Spec

-----------------------------------------------------------------------------
(* The estimate                                                            *)

\* EstimateIsOfTheAmount without the part of the description in it.
EstimateInv ==
    debtToken # 0 /\ ~hintsPending /\ ~overtaken => estimatedOf = debtToken

\* A transaction changes the amount to zero or not at all.
LEMMA FollowKeepsEstimate ==
    ASSUME EstimateInv, NEW type, Follow(type)
    PROVE  EstimateInv'
<1>1. CASE type \in Waiting \cup {"failed"}
  BY <1>1 DEF Follow, EstimateInv
<1>2. CASE type \notin Waiting \cup {"failed"}
  BY <1>2 DEF Follow, SetDebtToken, EstimateInv
<1> QED BY <1>1, <1>2

LEMMA EstimateStep ==
    ASSUME EstimateInv, [Next]_vars
    PROVE  EstimateInv'
<1>1. ASSUME NEW a \in Amounts, Enter(a)
      PROVE  EstimateInv'
  BY <1>1 DEF Enter, SetDebtToken, EstimateInv
<1>2. ASSUME NEW a \in Amounts, Answer(a)
      PROVE  EstimateInv'
  BY <1>2 DEF Answer, EstimateInv
<1>3. CASE TimerFires
  BY <1>3 DEF TimerFires, EstimateInv
<1>4. CASE Press \/ Approve \/ Clear
  BY <1>4, FollowKeepsEstimate DEF Press, Approve, Clear
<1>5. ASSUME NEW type \in {"failed", "cancelled", "confirmed"}, Finish(type)
      PROVE  EstimateInv'
  BY <1>5, FollowKeepsEstimate DEF Finish
<1>6. CASE PanelMounts
  BY <1>6 DEF PanelMounts, EstimateInv
<1>7. CASE TransactionGoesOn
  BY <1>7 DEF TransactionGoesOn, EstimateInv
<1>8. CASE UNCHANGED panelVars
  BY <1>8 DEF panelVars, EstimateInv
<1> QED
  BY <1>1, <1>2, <1>3, <1>4, <1>5, <1>6, <1>7, <1>8 DEF Next, vars, PanelStep

\* An amount is only offered on the ground of its own estimate, unless an older
\* answer has overtaken it: for all amounts, answers and numbers of requests.
THEOREM EstimateIsTrue == Spec => []EstimateIsOfTheAmount
<1>1. Init => EstimateInv
  BY DEF Init, PanelInit, EstimateInv
<1>2. EstimateInv /\ [Next]_vars => EstimateInv'
  BY EstimateStep
<1>3. EstimateInv => EstimateIsOfTheAmount
  BY DEF EstimateInv, EstimateIsOfTheAmount, Confirmable
<1> QED BY <1>1, <1>2, <1>3, PTL DEF Spec
=============================================================================
