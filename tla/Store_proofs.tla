---------------------------- MODULE Store_proofs ----------------------------
(***************************************************************************)
(* Proofs about BlockPolledStore, for every chain, every set of fields and *)
(* every bound: its types, the consistency of its state, the sync of its   *)
(* followers, its assertions, and that it implements StoreContract.  Then  *)
(* about its listeners, any number of them.                                *)
(***************************************************************************)
EXTENDS BlockPolledStore, StoreListeners, SequenceTheorems, TLAPS

-----------------------------------------------------------------------------
(***************************************************************************)
(* The operators of StoreState.                                            *)
(***************************************************************************)

\* Snapshot reads a value for every field: a block fetch is a full base state.
LEMMA SnapshotType ==
    ASSUME NEW b \in Blocks
    PROVE  Snapshot(b) \in [Fields -> Value] /\ Snapshot(b) \in BaseStates
  BY ChainAssumption DEF Snapshot, BaseStates

\* An update that has every field replaces the base state.
LEMMA ReduceFull ==
    ASSUME NEW old \in BaseStates, NEW update \in [Fields -> Value]
    PROVE  Reduce(old, update) = update
<1>1. ASSUME NEW f \in Fields
      PROVE  update[f] # Undefined
  BY ChainAssumption
<1> QED
  BY <1>1 DEF Reduce, BaseStates

\* An update without fields, as the heartbeat's, leaves the base state alone.
LEMMA ReduceNothing ==
    ASSUME NEW old \in BaseStates
    PROVE  Reduce(old, NoBase) = old
  BY DEF Reduce, NoBase, BaseStates

\* Derived values always end up as freshly derived.
LEMMA ReduceDerivedIsNew ==
    ASSUME NEW old \in DerivedStates, NEW update \in DerivedStates
    PROVE  ReduceDerived(old, update) = update
  BY DEF ReduceDerived, DerivedStates

LEMMA DeriveType ==
    ASSUME NEW b \in BaseStates
    PROVE  Derive(b) \in DerivedStates
  BY FieldsAssumption DEF Derive, DerivedStates, BaseStates

LEMMA NoBaseType == NoBase \in BaseStates
  BY DEF NoBase, BaseStates

\* The getter's keys are the base fields, "derived" and "blockTag".
LEMMA FlatStateParts ==
    ASSUME NEW b, NEW d, NEW t
    PROVE  /\ FlatState(b, d, t)["derived"] = d
           /\ FlatState(b, d, t)["blockTag"] = t
           /\ \A f \in Fields : FlatState(b, d, t)[f] = b[f]
<1>1. /\ "derived" \in StateKeys \ Fields
      /\ "blockTag" \in StateKeys \ Fields
      /\ "derived" # "blockTag"
  BY FieldsAssumption DEF StateKeys
<1>2. ASSUME NEW f \in Fields
      PROVE  f \in StateKeys /\ f # "derived" /\ f # "blockTag"
  BY FieldsAssumption DEF StateKeys
<1>3. FlatState(b, d, t)["derived"] = d
  BY <1>1 DEF FlatState
<1>4. FlatState(b, d, t)["blockTag"] = t
  BY <1>1 DEF FlatState
<1>5. ASSUME NEW f \in Fields
      PROVE  FlatState(b, d, t)[f] = b[f]
  BY <1>2 DEF FlatState
<1> QED
  BY <1>3, <1>4, <1>5

\* A follower that patches the old state with stateChange has the new state.
LEMMA PatchDifference ==
    ASSUME NEW b, NEW d, NEW t, NEW b2, NEW d2, NEW t2
    PROVE  Patch(FlatState(b, d, t),
                 Difference(FlatState(b2, d2, t2), FlatState(b, d, t)))
           = FlatState(b2, d2, t2)
<1> DEFINE old == FlatState(b, d, t)
           new == FlatState(b2, d2, t2)
           changed == {j \in StateKeys : new[j] # old[j]}
<1>1. new = [k \in StateKeys |-> new[k]]
  BY DEF FlatState
<1> HIDE DEF old, new
<1>2. Difference(new, old) = [k \in changed |-> new[k]]
  BY DEF Difference
<1>3. DOMAIN Difference(new, old) = changed
  BY <1>2
<1>4. ASSUME NEW k \in StateKeys
      PROVE  (IF k \in DOMAIN Difference(new, old) THEN Difference(new, old)[k]
                                                  ELSE old[k]) = new[k]
  BY <1>2, <1>3
<1>5. Patch(old, Difference(new, old)) = [k \in StateKeys |-> new[k]]
  BY <1>4 DEF Patch
<1> QED
  BY <1>1, <1>5 DEF old, new

-----------------------------------------------------------------------------
(***************************************************************************)
(* Type correctness.  Its only conjunct that is not a matter of types, a   *)
(* loaded store has every field, rests on the guard of FirstFetchReturns   *)
(* and on ReduceFull.                                                      *)
(***************************************************************************)

\* What _update() needs to know of an update: a full one or an empty one.
IsUpdate(update, tag) ==
    \/ tag \in Blocks /\ update = Snapshot(tag)
    \/ tag = NoBlock /\ update = NoBase

\* _load() keeps the store well typed.
LEMMA LoadType ==
    ASSUME TypeOK, NEW newBase \in [Fields -> Value], NEW tag \in Tags,
           StoreLoad(newBase, tag)
    PROVE  /\ loaded' \in BOOLEAN /\ base' \in BaseStates /\ derived' \in DerivedStates
           /\ blockTag' \in Tags /\ heartbeat' \in BOOLEAN /\ assertFailed' \in BOOLEAN
           /\ loaded' => base' \in [Fields -> Value]
<1>1. newBase \in BaseStates
  BY DEF BaseStates
<1> QED
  BY <1>1, DeriveType DEF TypeOK, StoreLoad, AssertFails

\* _update() keeps the store well typed.
LEMMA UpdateType ==
    ASSUME TypeOK, NEW update, NEW tag, IsUpdate(update, tag),
           StoreUpdate(update, tag)
    PROVE  /\ loaded' \in BOOLEAN /\ base' \in BaseStates /\ derived' \in DerivedStates
           /\ blockTag' \in Tags /\ heartbeat' \in BOOLEAN /\ assertFailed' \in BOOLEAN
           /\ loaded' => base' \in [Fields -> Value]
<1>1. CASE ~loaded
  BY <1>1 DEF TypeOK, StoreUpdate, AssertFails
<1>2. CASE loaded
  <2>1. base \in [Fields -> Value] /\ base \in BaseStates /\ derived \in DerivedStates
    BY <1>2 DEF TypeOK
  <2>2. base' = Reduce(base, update) /\ derived' = ReduceDerived(derived, Derive(base'))
    BY <1>2 DEF StoreUpdate
  <2>3. base' \in [Fields -> Value] /\ base' \in BaseStates
    BY <2>1, <2>2, ReduceFull, ReduceNothing, SnapshotType DEF IsUpdate, BaseStates
  <2>4. derived' \in DerivedStates
    BY <2>1, <2>2, <2>3, DeriveType, ReduceDerivedIsNew
  <2>5. blockTag' \in Tags
    BY <1>2 DEF StoreUpdate, ReduceExtra, TypeOK, IsUpdate, Tags
  <2> QED
    BY <1>2, <2>3, <2>4, <2>5 DEF StoreUpdate, TypeOK
<1> QED
  BY <1>1, <1>2

\* The initial state is well typed.
LEMMA InitType == Init => TypeOK
<1> SUFFICES ASSUME Init PROVE TypeOK
  OBVIOUS
<1>1. 1 \in Blocks /\ NoBlock \in Tags /\ 0 \in 0..MaxFailures
  BY ChainAssumption, PollingAssumption DEF Blocks, Tags
<1>2. base \in BaseStates /\ derived \in DerivedStates
  BY NoBaseType, DeriveType DEF Init
<1> QED
  BY <1>1, <1>2 DEF Init, TypeOK

\* A new fetch is well typed.
LEMMA NewFetchType ==
    ASSUME TypeOK, NEW i \in FetchIds, NEW s \in Sessions, NEW tag \in Tags,
           NewFetch(i, s, tag)
    PROVE  fetch' \in [FetchIds -> Fetches \cup {Idle}]
<1>1. [session |-> s, tag |-> tag, got |-> NoBase] \in Fetches
  BY NoBaseType DEF Fetches
<1> QED
  BY <1>1 DEF NewFetch, TypeOK

\* The actions that change no variable of the store.
LEMMA PollingStepType ==
    ASSUME TypeOK, UNCHANGED storeVars,
           \/ Mine
           \/ \E i \in FetchIds : FetchFails(i)
           \/ \E i \in FetchIds, f \in Fields : ReadLatest(i, f)
           \/ \E s \in Sessions, i \in FetchIds : Start(s, i)
           \/ \E b \in events : BlockListener(b)
    PROVE  TypeOK'
<1> USE DEF storeVars, pollVars, chainVars
<1>1. CASE Mine
  BY <1>1, ChainAssumption DEF Mine, TypeOK, Blocks
<1>2. ASSUME NEW i \in FetchIds, FetchFails(i)
      PROVE  TypeOK'
  BY <1>2, PollingAssumption DEF FetchFails, TypeOK
<1>3. ASSUME NEW i \in FetchIds, NEW f \in Fields, ReadLatest(i, f)
      PROVE  TypeOK'
  <2>1. fetch[i] \in Fetches /\ head \in Blocks
    BY <1>3 DEF ReadLatest, TypeOK
  <2>2. Read(f, head) \in Value
    BY <2>1, ChainAssumption
  <2>3. [fetch[i] EXCEPT !.got[f] = Read(f, head)] \in Fetches
    BY <2>1, <2>2 DEF Fetches, BaseStates
  <2>4. fetch' \in [FetchIds -> Fetches \cup {Idle}]
    BY <1>3, <2>3 DEF ReadLatest, TypeOK
  <2> QED
    BY <1>3, <2>4 DEF ReadLatest, TypeOK
<1>4. ASSUME NEW s \in Sessions, NEW i \in FetchIds, Start(s, i)
      PROVE  TypeOK'
  <2>1. NoBlock \in Tags
    BY DEF Tags
  <2>2. fetch' \in [FetchIds -> Fetches \cup {Idle}]
    BY <1>4, <2>1, NewFetchType DEF Start
  <2> QED
    BY <1>4, <2>2 DEF Start, TypeOK
<1>5. ASSUME NEW b \in events, BlockListener(b)
      PROVE  TypeOK'
  <2>1. latestBlock' \in [Sessions -> Tags]
    BY <1>5 DEF BlockListener, TypeOK, MaxOf, Tags
  <2>2. timer' \in [Sessions -> BOOLEAN]
    BY <1>5 DEF BlockListener, TypeOK
  <2> QED
    BY <1>5, <2>1, <2>2 DEF BlockListener, TypeOK
<1> QED
  BY <1>1, <1>2, <1>3, <1>4, <1>5

\* Every step keeps the types.
LEMMA NextType == TypeOK /\ [Next]_vars => TypeOK'
<1> SUFFICES ASSUME TypeOK, [Next]_vars PROVE TypeOK'
  OBVIOUS
<1>1. CASE \/ Mine
           \/ \E i \in FetchIds : FetchFails(i)
           \/ \E i \in FetchIds, f \in Fields : ReadLatest(i, f)
           \/ \E s \in Sessions, i \in FetchIds : Start(s, i)
           \/ \E b \in events : BlockListener(b)
  <2>1. UNCHANGED storeVars
    BY <1>1 DEF Mine, FetchFails, ReadLatest, Start, BlockListener
  <2> QED
    BY <1>1, <2>1, PollingStepType
<1>2. ASSUME NEW s \in Sessions, Stop(s)
      PROVE  TypeOK'
  BY <1>2 DEF Stop, TypeOK, chainVars
<1>3. ASSUME NEW s \in Sessions, NEW i \in FetchIds, DebounceFires(s, i)
      PROVE  TypeOK'
  <2>1. latestBlock[s] \in Tags
    BY DEF TypeOK
  <2>2. fetch' \in [FetchIds -> Fetches \cup {Idle}]
    BY <1>3, <2>1, NewFetchType DEF DebounceFires
  <2>3. timer' \in [Sessions -> BOOLEAN] /\ assertFailed' \in BOOLEAN
    BY <1>3 DEF DebounceFires, TypeOK
  <2> QED
    BY <1>3, <2>2, <2>3 DEF DebounceFires, TypeOK, chainVars
<1>4. ASSUME NEW i \in FetchIds, FirstFetchReturns(i)
      PROVE  TypeOK'
  <2>1. fetch[i] \in Fetches /\ NoBlock \in Tags
    BY <1>4 DEF FirstFetchReturns, TypeOK, Tags
  <2>2. fetch[i].got \in [Fields -> Value]
    BY <1>4, <2>1 DEF FirstFetchReturns, Fetches, BaseStates
  <2>3. fetch' \in [FetchIds -> Fetches \cup {Idle}]
    BY <1>4 DEF FirstFetchReturns, TypeOK
  <2>4. CASE loaded
    BY <1>4, <2>3, <2>4 DEF FirstFetchReturns, TypeOK, storeVars, chainVars, pollVars
  <2>5. CASE ~loaded
    <3>1. StoreLoad(fetch[i].got, NoBlock) /\ UNCHANGED <<chainVars, pollVars>>
      BY <1>4, <2>5 DEF FirstFetchReturns
    <3> QED
      BY <2>1, <2>2, <2>3, <3>1, LoadType DEF TypeOK, chainVars, pollVars
  <2> QED
    BY <2>4, <2>5
<1>5. ASSUME NEW i \in FetchIds, BlockFetchReturns(i)
      PROVE  TypeOK'
  <2>1. fetch[i].tag \in Blocks /\ fetch[i].tag \in Tags
    BY <1>5 DEF BlockFetchReturns, TypeOK, Fetches, Tags
  <2>2. fetch' \in [FetchIds -> Fetches \cup {Idle}] /\ UNCHANGED <<chainVars, pollVars>>
    BY <1>5 DEF BlockFetchReturns, TypeOK
  <2>3. CASE loaded
    <3>1. StoreUpdate(Snapshot(fetch[i].tag), fetch[i].tag)
      BY <1>5, <2>3 DEF BlockFetchReturns
    <3>2. IsUpdate(Snapshot(fetch[i].tag), fetch[i].tag)
      BY <2>1 DEF IsUpdate
    <3> QED
      BY <2>2, <3>1, <3>2, UpdateType DEF TypeOK, chainVars, pollVars
  <2>4. CASE ~loaded
    <3>1. StoreLoad(Snapshot(fetch[i].tag), fetch[i].tag)
      BY <1>5, <2>4 DEF BlockFetchReturns
    <3> QED
      BY <2>1, <2>2, <3>1, SnapshotType, LoadType DEF TypeOK, chainVars, pollVars
  <2> QED
    BY <2>3, <2>4
<1>6. CASE HeartbeatFires
  <2>1. StoreUpdate(NoBase, NoBlock) /\ IsUpdate(NoBase, NoBlock)
    BY <1>6 DEF HeartbeatFires, IsUpdate
  <2> QED
    BY <1>6, <2>1, UpdateType DEF HeartbeatFires, TypeOK, chainVars, pollVars
<1>7. CASE UNCHANGED vars
  BY <1>7 DEF vars, chainVars, pollVars, storeVars, TypeOK
<1> QED
  BY <1>1, <1>2, <1>3, <1>4, <1>5, <1>6, <1>7 DEF Next

\* The variables of the polling closures, the fetches and the store always have
\* the types of TypeOK, and a loaded store has a value for every field.
THEOREM TypeCorrect == Spec => []TypeOK
  BY InitType, NextType, PTL DEF Spec

-----------------------------------------------------------------------------
(***************************************************************************)
(* Consistency of the state and sync of the follower.  The inductive       *)
(* invariant says "view = State" of the empty store too, so that it needs  *)
(* no case for loading.                                                    *)
(***************************************************************************)
Sync == view = State

ConsistencyInv == TypeOK /\ StateIsConsistent /\ Sync

\* What _load() leaves behind.
LEMMA LoadEffect ==
    ASSUME ConsistencyInv, ~loaded, NEW newBase, NEW tag \in Tags,
           tag # NoBlock => newBase = Snapshot(tag),
           StoreLoad(newBase, tag)
    PROVE  /\ StateIsConsistent' /\ Sync'
           /\ loaded' /\ heartbeat' /\ assertFailed' = assertFailed
  BY DEF StoreLoad, StateIsConsistent, Sync, State, Snapshot

\* What _update() leaves behind: the fetched block's state, or the same state.
LEMMA UpdateEffect ==
    ASSUME ConsistencyInv, loaded, NEW update, NEW tag, IsUpdate(update, tag),
           StoreUpdate(update, tag)
    PROVE  /\ StateIsConsistent' /\ Sync'
           /\ tag = NoBlock => UNCHANGED <<base, derived, blockTag>>
           /\ tag # NoBlock => blockTag' = tag
           /\ loaded' = loaded /\ heartbeat' /\ assertFailed' = assertFailed
<1>1. base \in BaseStates /\ derived \in DerivedStates
  BY DEF ConsistencyInv, TypeOK
<1>2. /\ base' = Reduce(base, update)
      /\ derived' = ReduceDerived(derived, Derive(base'))
      /\ blockTag' = ReduceExtra(blockTag, tag)
      /\ view' = Patch(view, Difference(State', State))
      /\ loaded' = loaded /\ heartbeat' /\ assertFailed' = assertFailed
  BY DEF StoreUpdate, State
<1>3. base' \in BaseStates
  BY UpdateType DEF ConsistencyInv
<1>4. derived' = Derive(base')
  BY <1>1, <1>2, <1>3, DeriveType, ReduceDerivedIsNew
<1>5. view' = State'
  BY <1>2, PatchDifference DEF ConsistencyInv, Sync, State
<1>6. CASE tag = NoBlock
  <2>1. base' = base /\ blockTag' = blockTag
    <3>1. update = NoBase
      BY <1>6, ChainAssumption DEF IsUpdate, Blocks, NoBlock
    <3> QED
      BY <1>1, <1>2, <1>6, <3>1, ReduceNothing DEF ReduceExtra
  <2>2. derived' = derived
    BY <1>4, <2>1 DEF ConsistencyInv, StateIsConsistent
  <2>3. StateIsConsistent'
    BY <2>1, <2>2 DEF ConsistencyInv, StateIsConsistent, Snapshot
  <2> QED
    BY <2>1, <2>2, <2>3, <1>2, <1>6, <1>5 DEF Sync
<1>7. CASE tag # NoBlock
  <2>1. tag \in Blocks /\ update = Snapshot(tag)
    BY <1>7 DEF IsUpdate
  <2>2. base' = Snapshot(tag) /\ blockTag' = tag
    BY <1>1, <1>2, <1>7, <2>1, SnapshotType, ReduceFull DEF ReduceExtra
  <2>3. StateIsConsistent'
    BY <1>4, <2>2 DEF StateIsConsistent, Snapshot
  <2> QED
    BY <1>2, <1>7, <1>5, <2>2, <2>3 DEF Sync
<1> QED
  BY <1>6, <1>7

\* A step that keeps the store's variables but the heartbeat keeps its state.
LEMMA StoreUnchanged ==
    ASSUME StateIsConsistent, Sync, UNCHANGED <<loaded, base, derived, blockTag, view>>
    PROVE  StateIsConsistent' /\ Sync' /\ State' = State
  BY DEF StateIsConsistent, Sync, State, Snapshot

\* The three kinds of steps of the store, in terms of its contract: the state
\* stays, is loaded, or moves to a fetched block.
LEMMA StoreSteps ==
    ASSUME ConsistencyInv, [Next]_vars
    PROVE  /\ StateIsConsistent' /\ Sync'
           /\ \/ loaded' = loaded /\ UNCHANGED <<base, derived, blockTag>>
              \/ ~loaded /\ loaded'
              \/ loaded /\ loaded' /\ blockTag' \in Blocks
<1> USE DEF ConsistencyInv
<1>1. CASE UNCHANGED <<loaded, base, derived, blockTag, view>>
  BY <1>1, StoreUnchanged
<1>2. ASSUME NEW i \in FetchIds, FirstFetchReturns(i), ~loaded
      PROVE  StateIsConsistent' /\ Sync' /\ loaded'
  <2>1. StoreLoad(fetch[i].got, NoBlock) /\ NoBlock \in Tags
    BY <1>2 DEF FirstFetchReturns, Tags
  <2> QED
    BY <1>2, <2>1, LoadEffect DEF NoBlock
<1>3. ASSUME NEW i \in FetchIds, BlockFetchReturns(i), ~loaded
      PROVE  StateIsConsistent' /\ Sync' /\ loaded'
  <2>1. fetch[i].tag \in Tags
    BY <1>3 DEF BlockFetchReturns, TypeOK, Fetches
  <2>2. StoreLoad(Snapshot(fetch[i].tag), fetch[i].tag)
    BY <1>3 DEF BlockFetchReturns
  <2> QED
    BY <1>3, <2>1, <2>2, LoadEffect
<1>4. ASSUME NEW i \in FetchIds, BlockFetchReturns(i), loaded
      PROVE  StateIsConsistent' /\ Sync' /\ loaded' /\ blockTag' \in Blocks
  <2>1. fetch[i].tag \in Blocks /\ fetch[i].tag # NoBlock
    BY <1>4 DEF BlockFetchReturns, TypeOK, Fetches, Tags
  <2>2. StoreUpdate(Snapshot(fetch[i].tag), fetch[i].tag)
    BY <1>4 DEF BlockFetchReturns
  <2>3. IsUpdate(Snapshot(fetch[i].tag), fetch[i].tag)
    BY <2>1 DEF IsUpdate
  <2> QED
    BY <1>4, <2>1, <2>2, <2>3, UpdateEffect
<1>5. ASSUME HeartbeatFires, loaded
      PROVE  StateIsConsistent' /\ Sync' /\ loaded' = loaded
             /\ UNCHANGED <<base, derived, blockTag>>
  <2>1. StoreUpdate(NoBase, NoBlock) /\ IsUpdate(NoBase, NoBlock)
    BY <1>5 DEF HeartbeatFires, IsUpdate
  <2> QED
    BY <1>5, <2>1, UpdateEffect
<1>6. CASE HeartbeatFires /\ ~loaded
  BY <1>1, <1>6 DEF HeartbeatFires, StoreUpdate, AssertFails
<1>7. ASSUME NEW i \in FetchIds, FirstFetchReturns(i), loaded
      PROVE  UNCHANGED <<loaded, base, derived, blockTag, view>>
  BY <1>7 DEF FirstFetchReturns, storeVars
<1>8. CASE \/ Mine
           \/ \E i \in FetchIds : FetchFails(i)
           \/ \E i \in FetchIds, f \in Fields : ReadLatest(i, f)
           \/ \E s \in Sessions, i \in FetchIds : Start(s, i)
           \/ \E s \in Sessions : Stop(s)
           \/ \E b \in events : BlockListener(b)
           \/ \E s \in Sessions, i \in FetchIds : DebounceFires(s, i)
  <2>1. UNCHANGED <<loaded, base, derived, blockTag, view>>
    BY <1>8 DEF Mine, FetchFails, ReadLatest, Start, Stop, BlockListener,
                DebounceFires, storeVars
  <2> QED
    BY <1>1, <2>1
<1>9. CASE UNCHANGED vars
  BY <1>1, <1>9 DEF vars, storeVars
<1> QED
  BY <1>1, <1>2, <1>3, <1>4, <1>5, <1>6, <1>7, <1>8, <1>9 DEF Next

LEMMA ConsistencyInvariant == Spec => []ConsistencyInv
<1>1. Init => ConsistencyInv
  <2> SUFFICES ASSUME Init PROVE ConsistencyInv
    OBVIOUS
  <2>1. StateIsConsistent /\ Sync
    BY DEF Init, StateIsConsistent, Sync, State, EmptyState
  <2> QED
    BY <2>1, InitType DEF ConsistencyInv
<1>2. ConsistencyInv /\ [Next]_vars => ConsistencyInv'
  BY NextType, StoreSteps DEF ConsistencyInv
<1> QED
  BY <1>1, <1>2, PTL DEF Spec

\* Whatever order fetches return in, the derived state belongs to the base
\* state, and a state with a block tag is exactly that block's state.
THEOREM Consistent == Spec => []StateIsConsistent
<1>1. ConsistencyInv => StateIsConsistent
  BY DEF ConsistencyInv
<1> QED
  BY <1>1, ConsistencyInvariant, PTL

\* A follower that applies every stateChange always has the store's state.
THEOREM FollowersInSync == Spec => []FollowerInSync
<1>1. ConsistencyInv => FollowerInSync
  BY DEF ConsistencyInv, Sync, FollowerInSync
<1> QED
  BY <1>1, ConsistencyInvariant, PTL

-----------------------------------------------------------------------------
(***************************************************************************)
(* The store implements its contract.                                      *)
(***************************************************************************)

\* A consistent state is one the contract calls reliable.
LEMMA ConsistentIsReliable ==
    ASSUME NEW b, NEW d, NEW t,
           d = Derive(b), t # NoBlock => b = Snapshot(t)
    PROVE  Contract!Reliable(FlatState(b, d, t))
<1> DEFINE s == FlatState(b, d, t)
<1>1. s["derived"] = d /\ s["blockTag"] = t /\ \A f \in Fields : s[f] = b[f]
  BY FlatStateParts
<1> HIDE DEF s
<1>2. d = [f \in DerivedInputs |-> s[f]]
  BY <1>1, FieldsAssumption DEF Derive
<1>3. ASSUME t # NoBlock, NEW f \in Fields
      PROVE  s[f] = Read(f, t)
  BY <1>1, <1>3 DEF Snapshot
<1>4. Contract!Reliable(s)
  BY <1>1, <1>2, <1>3 DEF Contract!Reliable, Contract!NoBlock, NoBlock
<1> QED
  BY <1>4 DEF s

\* Every step of the store is a step of the contract or changes nothing in it.
LEMMA ContractStep ==
    ASSUME ConsistencyInv, [Next]_vars
    PROVE  [Contract!Next]_(Contract!contractVars)
<1>1. StateIsConsistent' /\ Sync'
  BY StoreSteps
<1>2. Contract!Reliable(State')
  BY <1>1, ConsistentIsReliable DEF StateIsConsistent, State
<1>3. State'["blockTag"] = blockTag' /\ State["blockTag"] = blockTag
  BY FlatStateParts DEF State
<1>4. view = State /\ view' = State'
  BY <1>1 DEF ConsistencyInv, Sync
<1>5. CASE ~loaded /\ loaded'
  <2>1. loaded' = TRUE
    BY <1>5, NextType DEF ConsistencyInv, TypeOK
  <2> QED
    BY <1>2, <1>4, <1>5, <2>1 DEF Contract!Next, Contract!Load
<1>6. CASE loaded' = loaded /\ UNCHANGED <<base, derived, blockTag>>
  BY <1>4, <1>6 DEF Contract!contractVars, State
<1>7. CASE loaded /\ loaded' /\ blockTag' \in Blocks
  <2>1. loaded' = loaded
    BY <1>7, NextType DEF ConsistencyInv, TypeOK
  <2>2. CASE blockTag' # blockTag
    <3>1. blockTag' # NoBlock
      BY <1>7 DEF Blocks, NoBlock
    <3>2. State'["blockTag"] \notin {Contract!NoBlock, State["blockTag"]}
      BY <1>3, <2>2, <3>1 DEF Contract!NoBlock, NoBlock
    <3> QED
      BY <1>2, <1>4, <1>7, <2>1, <3>2 DEF Contract!Next, Contract!Move
  <2>3. CASE blockTag' = blockTag
    <3>1. base' = Snapshot(blockTag') /\ base = Snapshot(blockTag)
      BY <1>1, <1>7, <2>3 DEF ConsistencyInv, StateIsConsistent, Blocks, NoBlock, Snapshot
    <3>2. derived' = derived
      BY <1>1, <2>3, <3>1 DEF ConsistencyInv, StateIsConsistent, Derive
    <3> QED
      BY <1>4, <2>1, <2>3, <3>1, <3>2 DEF Contract!contractVars, State
  <2> QED
    BY <2>2, <2>3
<1> QED
  BY <1>5, <1>6, <1>7, StoreSteps

\* The store implements its contract, for every chain and every number of
\* start() calls, concurrent fetches and failing fetches.
THEOREM ImplementsContract == Spec => ContractHolds
<1>1. Init => Contract!Init
  <2>1. EmptyState = Contract!EmptyState
    BY DEF EmptyState, Contract!EmptyState, FlatState, Contract!FlatState,
           StateKeys, Contract!StateKeys, NoBase, Contract!NoBase, Derive,
           Contract!Derive, NoBlock, Contract!NoBlock
  <2> QED
    BY <2>1 DEF Init, Contract!Init, State, EmptyState
<1>2. ConsistencyInv /\ [Next]_vars => [Contract!Next]_(Contract!contractVars)
  BY ContractStep
<1> QED
  BY <1>1, <1>2, ConsistencyInvariant, PTL DEF Spec, ContractHolds, Contract!Spec

-----------------------------------------------------------------------------
(***************************************************************************)
(* Assertions and timers.  The assert of _update() holds because only a    *)
(* loaded store has a heartbeat, the one of the debounce callback because  *)
(* the timer is armed by the listener that sets latestBlock.               *)
(***************************************************************************)
TimersInv ==
    /\ NoAssertionFails
    /\ heartbeat => loaded
    /\ HeartbeatUntilStopped
    /\ DebounceArmedProperly

\* A block that is announced is not NoBlock, and neither is the newer of two.
LEMMA MaxOfBlock ==
    ASSUME NEW b \in Blocks, NEW t \in Tags
    PROVE  MaxOf(b, t) # NoBlock /\ MaxOf(b, t) >= t
  BY DEF MaxOf, Blocks, Tags, NoBlock

\* _load() and _update() arm the heartbeat and, called as they are, pass their
\* asserts.
LEMMA StoreCallTimers ==
    ASSUME TimersInv, NEW newBase, NEW tag,
           UNCHANGED <<session, timer, latestBlock>>,
           \/ ~loaded /\ StoreLoad(newBase, tag)
           \/ loaded /\ StoreUpdate(newBase, tag)
    PROVE  TimersInv'
  BY DEF TimersInv, StoreLoad, StoreUpdate, NoAssertionFails,
         HeartbeatUntilStopped, DebounceArmedProperly, Running

LEMMA TimersStep ==
    ASSUME TypeOK, TimersInv, [Next]_vars
    PROVE  TimersInv'
<1> USE DEF storeVars, pollVars, chainVars
<1>1. CASE UNCHANGED <<storeVars, pollVars>>
  BY <1>1 DEF TimersInv, NoAssertionFails, HeartbeatUntilStopped,
              DebounceArmedProperly, Running
<1>2. CASE \/ Mine
           \/ \E i \in FetchIds : FetchFails(i)
           \/ \E i \in FetchIds, f \in Fields : ReadLatest(i, f)
           \/ UNCHANGED vars
  BY <1>1, <1>2 DEF Mine, FetchFails, ReadLatest, vars
<1>3. ASSUME NEW s \in Sessions, NEW i \in FetchIds, Start(s, i)
      PROVE  TimersInv'
  BY <1>3 DEF Start, TypeOK, TimersInv, NoAssertionFails, HeartbeatUntilStopped,
              DebounceArmedProperly, Running
<1>4. ASSUME NEW s \in Sessions, Stop(s)
      PROVE  TimersInv'
  BY <1>4 DEF Stop, TypeOK, TimersInv, NoAssertionFails, HeartbeatUntilStopped,
              DebounceArmedProperly, Running
<1>5. ASSUME NEW b \in events, BlockListener(b)
      PROVE  TimersInv'
  <2>1. UNCHANGED <<storeVars, session>>
    BY <1>5 DEF BlockListener
  <2>2. ASSUME NEW s \in Sessions, timer'[s]
        PROVE  s \in Running /\ latestBlock'[s] # NoBlock
    <3>1. timer[s] \/ s \in Running
      BY <1>5, <2>2 DEF BlockListener, TypeOK
    <3>2. s \in Running
      BY <3>1 DEF TimersInv, DebounceArmedProperly
    <3>3. b \in Blocks /\ latestBlock[s] \in Tags
      BY DEF TypeOK
    <3>4. latestBlock'[s] = MaxOf(b, latestBlock[s])
      BY <1>5, <3>2 DEF BlockListener
    <3> QED
      BY <3>2, <3>3, <3>4, MaxOfBlock
  <2> QED
    BY <2>1, <2>2 DEF TimersInv, NoAssertionFails, HeartbeatUntilStopped,
                      DebounceArmedProperly, Running
<1>6. ASSUME NEW s \in Sessions, NEW i \in FetchIds, DebounceFires(s, i)
      PROVE  TimersInv'
  <2>1. latestBlock[s] # NoBlock
    BY <1>6 DEF DebounceFires, TimersInv, DebounceArmedProperly
  <2> QED
    BY <1>6, <2>1 DEF DebounceFires, TypeOK, TimersInv, NoAssertionFails,
                      HeartbeatUntilStopped, DebounceArmedProperly, Running
<1>7. ASSUME NEW i \in FetchIds, FirstFetchReturns(i)
      PROVE  TimersInv'
  <2>1. CASE loaded
    BY <1>1, <1>7, <2>1 DEF FirstFetchReturns
  <2>2. CASE ~loaded
    BY <1>7, <2>2, StoreCallTimers DEF FirstFetchReturns
  <2> QED
    BY <2>1, <2>2
<1>8. ASSUME NEW i \in FetchIds, BlockFetchReturns(i)
      PROVE  TimersInv'
  <2>1. CASE loaded
    BY <1>8, <2>1, StoreCallTimers DEF BlockFetchReturns
  <2>2. CASE ~loaded
    BY <1>8, <2>2, StoreCallTimers DEF BlockFetchReturns
  <2> QED
    BY <2>1, <2>2
<1>9. CASE HeartbeatFires
  <2>1. loaded
    BY <1>9 DEF HeartbeatFires, TimersInv
  <2> QED
    BY <1>9, <2>1, StoreCallTimers DEF HeartbeatFires
<1> QED
  BY <1>2, <1>3, <1>4, <1>5, <1>6, <1>7, <1>8, <1>9 DEF Next

LEMMA TimersInvariant == Spec => []TimersInv
<1>1. Init => TimersInv
  BY DEF Init, TimersInv, NoAssertionFails, HeartbeatUntilStopped,
         DebounceArmedProperly
<1>2. TypeOK /\ TimersInv /\ [Next]_vars => TimersInv'
  BY TimersStep
<1> QED
  BY <1>1, <1>2, TypeCorrect, PTL DEF Spec

\* No assert of the store fails, whatever races to load it.
THEOREM AssertionsHold == Spec => []NoAssertionFails
<1>1. TimersInv => NoAssertionFails
  BY DEF TimersInv
<1> QED
  BY <1>1, TimersInvariant, PTL

\* A store that is loaded and was never stopped has its heartbeat armed.
THEOREM HeartbeatArmed == Spec => []HeartbeatUntilStopped
<1>1. TimersInv => HeartbeatUntilStopped
  BY DEF TimersInv
<1> QED
  BY <1>1, TimersInvariant, PTL

\* Debounce timers only run for running sessions that have seen a block.
THEOREM DebounceArmed == Spec => []DebounceArmedProperly
<1>1. TimersInv => DebounceArmedProperly
  BY DEF TimersInv
<1> QED
  BY <1>1, TimersInvariant, PTL

-----------------------------------------------------------------------------
(***************************************************************************)
(* The debounce never asks for an older block.  The invariant behind it: a *)
(* fetch in flight was issued by a session that has started, for a block   *)
(* that is no newer than the newest the session has seen.                  *)
(***************************************************************************)
FetchesBehind ==
    \A i \in FetchIds : fetch[i] # Idle =>
        /\ session[fetch[i].session] # "new"
        /\ fetch[i].tag <= latestBlock[fetch[i].session]

\* latestBlock never goes back and a started session never becomes new again.
LEMMA SessionsAdvance ==
    ASSUME TypeOK, [Next]_vars, NEW s \in Sessions
    PROVE  /\ latestBlock'[s] >= latestBlock[s]
           /\ session[s] # "new" => session'[s] # "new"
<1> USE DEF storeVars, pollVars, chainVars
<1>1. latestBlock[s] \in Tags /\ latestBlock[s] >= latestBlock[s]
  BY DEF TypeOK, Tags, Blocks, NoBlock
<1>2. ASSUME NEW b \in events, BlockListener(b)
      PROVE  latestBlock'[s] >= latestBlock[s] /\ session' = session
  BY <1>1, <1>2, MaxOfBlock DEF BlockListener, TypeOK
<1>3. ASSUME NEW r \in Sessions, NEW i \in FetchIds, Start(r, i)
      PROVE  latestBlock' = latestBlock /\ (session[s] # "new" => session'[s] # "new")
  BY <1>3 DEF Start, TypeOK
<1>4. ASSUME NEW r \in Sessions, Stop(r)
      PROVE  latestBlock' = latestBlock /\ (session[s] # "new" => session'[s] # "new")
  BY <1>4 DEF Stop, TypeOK
<1>5. CASE ~(\E b \in events : BlockListener(b))
           /\ ~(\E r \in Sessions, i \in FetchIds : Start(r, i))
           /\ ~(\E r \in Sessions : Stop(r))
  <2>1. UNCHANGED <<latestBlock, session>>
    BY <1>5 DEF Next, Mine, FetchFails, ReadLatest, DebounceFires,
                FirstFetchReturns, BlockFetchReturns, HeartbeatFires, vars
  <2> QED
    BY <1>1, <2>1
<1> QED
  BY <1>1, <1>2, <1>3, <1>4, <1>5

\* What a step can do to a slot: free it, add an answer to it, or start a fetch
\* in it, either the first of a new session or for its latestBlock.
LEMMA FetchSlots ==
    ASSUME TypeOK, [Next]_vars, NEW i \in FetchIds, fetch'[i] # Idle
    PROVE  \/ /\ fetch[i] # Idle
              /\ fetch'[i].session = fetch[i].session
              /\ fetch'[i].tag = fetch[i].tag
           \/ /\ fetch[i] = Idle
              /\ \E s \in Sessions :
                    /\ fetch'[i].session = s
                    /\ \/ /\ session[s] = "new" /\ session'[s] = "running"
                          /\ fetch'[i].tag = NoBlock
                       \/ timer[s] /\ fetch'[i].tag = latestBlock[s]
<1> USE DEF storeVars, pollVars, chainVars
<1>1. CASE fetch'[i] = fetch[i]
  BY <1>1
<1>2. ASSUME NEW j \in FetchIds, NEW f \in Fields, ReadLatest(j, f)
      PROVE  /\ fetch[i] # Idle
             /\ fetch'[i].session = fetch[i].session
             /\ fetch'[i].tag = fetch[i].tag
  BY <1>2 DEF ReadLatest, TypeOK, Fetches
<1>3. ASSUME NEW s \in Sessions, NEW j \in FetchIds, Start(s, j), fetch'[i] # fetch[i]
      PROVE  /\ fetch[i] = Idle /\ fetch'[i].session = s
             /\ session[s] = "new" /\ session'[s] = "running"
             /\ fetch'[i].tag = NoBlock
  BY <1>3 DEF Start, NewFetch, TypeOK
<1>4. ASSUME NEW s \in Sessions, NEW j \in FetchIds, DebounceFires(s, j), fetch'[i] # fetch[i]
      PROVE  /\ fetch[i] = Idle /\ fetch'[i].session = s
             /\ timer[s] /\ fetch'[i].tag = latestBlock[s]
  BY <1>4 DEF DebounceFires, NewFetch, TypeOK
<1>5. CASE \/ \E j \in FetchIds : FetchFails(j)
           \/ \E j \in FetchIds : FirstFetchReturns(j)
           \/ \E j \in FetchIds : BlockFetchReturns(j)
  BY <1>1, <1>5 DEF FetchFails, FirstFetchReturns, BlockFetchReturns, TypeOK
<1>6. CASE \/ Mine
           \/ \E s \in Sessions : Stop(s)
           \/ \E b \in events : BlockListener(b)
           \/ HeartbeatFires
           \/ UNCHANGED vars
  BY <1>1, <1>6 DEF Mine, Stop, BlockListener, HeartbeatFires, vars
<1> QED
  BY <1>1, <1>2, <1>3, <1>4, <1>5, <1>6 DEF Next

LEMMA FetchesBehindStep ==
    ASSUME TypeOK, FetchesBehind, TimersInv, [Next]_vars
    PROVE  FetchesBehind'
<1> SUFFICES ASSUME NEW i \in FetchIds, fetch'[i] # Idle
             PROVE  /\ session'[fetch'[i].session] # "new"
                    /\ fetch'[i].tag <= latestBlock'[fetch'[i].session]
  BY DEF FetchesBehind
<1>1. TypeOK'
  BY NextType
<1>2. fetch'[i].session \in Sessions /\ fetch'[i].tag \in Tags
  BY <1>1 DEF TypeOK, Fetches
<1> DEFINE s == fetch'[i].session
<1>3. latestBlock[s] \in Nat /\ latestBlock'[s] \in Nat /\ fetch'[i].tag \in Nat
  BY <1>1, <1>2 DEF TypeOK, Tags, Blocks, NoBlock
<1>4. latestBlock'[s] >= latestBlock[s] /\ (session[s] # "new" => session'[s] # "new")
  BY <1>2, SessionsAdvance
<1>5. CASE /\ fetch[i] # Idle
           /\ fetch'[i].session = fetch[i].session
           /\ fetch'[i].tag = fetch[i].tag
  <2>1. session[s] # "new" /\ fetch'[i].tag <= latestBlock[s]
    BY <1>5 DEF FetchesBehind
  <2> QED
    BY <1>3, <1>4, <2>1
<1>6. CASE /\ session[s] = "new" /\ session'[s] = "running"
           /\ fetch'[i].tag = NoBlock
  BY <1>3, <1>6 DEF NoBlock
<1>7. CASE timer[s] /\ fetch'[i].tag = latestBlock[s]
  <2>1. session[s] # "new"
    BY <1>2, <1>7 DEF TimersInv, DebounceArmedProperly, Running
  <2> QED
    BY <1>3, <1>4, <1>7, <2>1
<1> QED
  BY <1>5, <1>6, <1>7, FetchSlots

\* A session never starts a fetch for a block older than one it is fetching.
THEOREM DebounceIsMonotone == Spec => DebounceMonotone
<1> DEFINE Inv == TypeOK /\ TimersInv /\ FetchesBehind
           Monotone == \A i, j \in FetchIds :
                          (/\ fetch[i] # Idle
                           /\ fetch[j] = Idle
                           /\ fetch'[j] # Idle
                           /\ fetch'[j].session = fetch[i].session)
                          => fetch'[j].tag >= fetch[i].tag
<1>1. Init => FetchesBehind
  BY DEF Init, FetchesBehind
<1>2. TypeOK /\ TimersInv /\ FetchesBehind /\ [Next]_vars => FetchesBehind'
  BY FetchesBehindStep
<1>3. Inv /\ [Next]_vars => [Monotone]_vars
  <2> SUFFICES ASSUME Inv, [Next]_vars,
                      NEW i \in FetchIds, NEW j \in FetchIds,
                      fetch[i] # Idle, fetch[j] = Idle, fetch'[j] # Idle,
                      fetch'[j].session = fetch[i].session
               PROVE  fetch'[j].tag >= fetch[i].tag
    OBVIOUS
  <2>1. /\ fetch[i].tag <= latestBlock[fetch[i].session]
        /\ session[fetch[i].session] # "new"
    BY DEF FetchesBehind
  <2>2. timer[fetch[i].session] /\ fetch'[j].tag = latestBlock[fetch[i].session]
    BY <2>1, FetchSlots
  <2>3. fetch[i].tag \in Nat /\ latestBlock[fetch[i].session] \in Nat
    BY DEF TypeOK, Fetches, Tags, Blocks, NoBlock
  <2> QED
    BY <2>1, <2>2, <2>3
<1> QED
  BY <1>1, <1>2, <1>3, TypeCorrect, TimersInvariant, PTL DEF Spec, DebounceMonotone
-----------------------------------------------------------------------------
(* The listeners.                                                          *)

NoneTwice(s) == \A i, j \in DOMAIN s : s[i] = s[j] => i = j

LEMMA Appended ==
    ASSUME NEW S, NEW s \in Seq(S), NEW l \in S, NoneTwice(s), l \notin ToSet(s)
    PROVE  /\ Append(s, l) \in Seq(S) /\ NoneTwice(Append(s, l))
           /\ ToSet(Append(s, l)) = ToSet(s) \cup {l}
  BY DEF NoneTwice, ToSet

\* A Set without one of its elements.
LEMMA Removed ==
    ASSUME NEW S, NEW s \in Seq(S), NoneTwice(s), NEW i \in DOMAIN s
    PROVE  /\ RemoveAt(s, i) \in Seq(S) /\ NoneTwice(RemoveAt(s, i))
           /\ ToSet(RemoveAt(s, i)) = ToSet(s) \ {s[i]}
<1> DEFINE r == RemoveAt(s, i)
<1>1. i \in 1 .. Len(s) /\ Len(s) \in Nat /\ s \in [1 .. Len(s) -> S]
  OBVIOUS
<1>2. /\ r \in Seq(S) /\ Len(r) = Len(s) - 1
      /\ \A j \in 1 .. Len(s) - 1 : r[j] = IF j < i THEN s[j] ELSE s[j + 1]
  <2> DEFINE a == SubSeq(s, 1, i - 1)
             b == SubSeq(s, i + 1, Len(s))
  <2>1. a \in Seq(S) /\ Len(a) = i - 1 /\ \A j \in 1 .. i - 1 : a[j] = s[j]
    <3>1. \A j \in 1 .. i - 1 : s[j] \in S
      BY <1>1
    <3>2. /\ a \in Seq(S) /\ Len(a) = IF 1 <= i - 1 THEN i - 1 - 1 + 1 ELSE 0
          /\ \A j \in 1 .. i - 1 - 1 + 1 : a[j] = s[1 + j - 1]
      BY <1>1, <3>1, SubSeqProperties
    <3> HIDE DEF a
    <3> QED
      BY <1>1, <3>2
  <2>2. /\ b \in Seq(S) /\ Len(b) = Len(s) - i
        /\ \A j \in 1 .. Len(s) - i : b[j] = s[i + j]
    <3>1. \A j \in i + 1 .. Len(s) : s[j] \in S
      BY <1>1
    <3>2. /\ b \in Seq(S)
          /\ Len(b) = IF i + 1 <= Len(s) THEN Len(s) - (i + 1) + 1 ELSE 0
          /\ \A j \in 1 .. Len(s) - (i + 1) + 1 : b[j] = s[i + 1 + j - 1]
      BY <1>1, <3>1, SubSeqProperties
    <3> HIDE DEF b
    <3>3. Len(s) - (i + 1) + 1 = Len(s) - i
      BY <1>1
    <3>4. Len(b) = Len(s) - i
      BY <1>1, <3>2
    <3>5. ASSUME NEW j \in 1 .. Len(s) - i PROVE b[j] = s[i + j]
      <4>1. i + 1 + j - 1 = i + j
        BY <1>1
      <4> QED
        BY <3>2, <3>3, <4>1
    <3> QED
      BY <3>2, <3>4, <3>5
  <2>3. r = a \o b
    BY DEF RemoveAt
  <2> HIDE DEF a, b, r
  <2>4. /\ r \in Seq(S) /\ Len(r) = Len(a) + Len(b)
        /\ \A j \in 1 .. Len(a) + Len(b) :
              r[j] = IF j <= Len(a) THEN a[j] ELSE b[j - Len(a)]
    BY <2>1, <2>2, <2>3, ConcatProperties
  <2>5. Len(r) = Len(s) - 1
    BY <1>1, <2>1, <2>2, <2>4
  <2>6. ASSUME NEW j \in 1 .. Len(s) - 1
        PROVE  r[j] = IF j < i THEN s[j] ELSE s[j + 1]
    <3>1. r[j] = IF j <= i - 1 THEN a[j] ELSE b[j - (i - 1)]
      BY <1>1, <2>1, <2>2, <2>4
    <3>2. CASE j < i
      BY <1>1, <2>1, <3>1, <3>2
    <3>3. CASE ~(j < i)
      <4>1. j - (i - 1) \in 1 .. Len(s) - i /\ i + (j - (i - 1)) = j + 1
        BY <1>1, <3>3
      <4>2. b[j - (i - 1)] = s[j + 1]
        BY <2>2, <4>1
      <4>3. ~(j <= i - 1)
        BY <1>1, <3>3
      <4> QED
        BY <3>1, <3>3, <4>2, <4>3
    <3> QED
      BY <3>2, <3>3
  <2> QED
    BY <2>4, <2>5, <2>6
<1> HIDE DEF r
<1>3. DOMAIN r = 1 .. Len(s) - 1 /\ DOMAIN s = 1 .. Len(s)
  BY <1>1, <1>2
<1>4. NoneTwice(r)
  <2> SUFFICES ASSUME NEW j \in 1 .. Len(s) - 1, NEW k \in 1 .. Len(s) - 1, r[j] = r[k]
               PROVE  j = k
    BY <1>3 DEF NoneTwice
  <2> DEFINE at(m) == IF m < i THEN m ELSE m + 1
  <2>1. /\ at(j) \in 1 .. Len(s) /\ at(k) \in 1 .. Len(s)
        /\ r[j] = s[at(j)] /\ r[k] = s[at(k)]
    BY <1>1, <1>2
  <2>2. at(j) = at(k)
    BY <1>3, <2>1 DEF NoneTwice
  <2> QED
    BY <1>1, <2>2
<1>5. ASSUME NEW x \in ToSet(r) PROVE x \in ToSet(s) \ {s[i]}
  <2>1. PICK j \in 1 .. Len(s) - 1 : x = r[j]
    BY <1>3 DEF ToSet
  <2> QED
    BY <1>1, <1>2, <1>3, <2>1 DEF ToSet, NoneTwice
<1>6. ASSUME NEW x \in ToSet(s) \ {s[i]} PROVE x \in ToSet(r)
  <2>1. PICK j \in 1 .. Len(s) : x = s[j] /\ j # i
    BY <1>3 DEF ToSet
  <2>2. CASE j < i
    BY <1>1, <1>2, <1>3, <2>1, <2>2 DEF ToSet
  <2>3. CASE j > i
    <3>1. j - 1 \in 1 .. Len(s) - 1 /\ r[j - 1] = s[j]
      BY <1>1, <1>2, <2>1, <2>3
    <3> QED
      BY <1>3, <2>1, <3>1 DEF ToSet
  <2> QED
    BY <1>1, <2>1, <2>2, <2>3
<1> QED
  BY <1>2, <1>4, <1>5, <1>6 DEF r

LEMMA Dropped ==
    ASSUME NEW S, NEW s \in Seq(S), NoneTwice(s), s # <<>>
    PROVE  /\ Head(s) \in S /\ Tail(s) \in Seq(S) /\ NoneTwice(Tail(s))
           /\ ToSet(Tail(s)) = ToSet(s) \ {Head(s)}
<1> DEFINE t == Tail(s)
<1>1. /\ Len(s) \in Nat \ {0} /\ DOMAIN s = 1 .. Len(s) /\ Head(s) = s[1]
      /\ t \in Seq(S) /\ DOMAIN t = 1 .. Len(s) - 1 /\ Head(s) \in S
      /\ \A j \in 1 .. Len(s) - 1 : t[j] = s[j + 1]
  OBVIOUS
<1> HIDE DEF t
<1>2. NoneTwice(t)
  <2> SUFFICES ASSUME NEW j \in 1 .. Len(s) - 1, NEW k \in 1 .. Len(s) - 1, t[j] = t[k]
               PROVE  j = k
    BY <1>1 DEF NoneTwice
  <2>1. s[j + 1] = s[k + 1] /\ j + 1 \in 1 .. Len(s) /\ k + 1 \in 1 .. Len(s)
    BY <1>1
  <2>2. j + 1 = k + 1
    BY <1>1, <2>1 DEF NoneTwice
  <2> QED
    BY <2>2
<1>3. ASSUME NEW x \in ToSet(t) PROVE x \in ToSet(s) \ {Head(s)}
  BY <1>1, <1>3 DEF ToSet, NoneTwice
<1>4. ASSUME NEW x \in ToSet(s) \ {Head(s)} PROVE x \in ToSet(t)
  <2>1. PICK j \in 1 .. Len(s) : x = s[j] /\ j # 1
    BY <1>1 DEF ToSet
  <2>2. j - 1 \in 1 .. Len(s) - 1 /\ t[j - 1] = s[j]
    BY <1>1, <2>1
  <2> QED
    BY <1>1, <2>1, <2>2 DEF ToSet
<1> QED
  BY <1>1, <1>2, <1>3, <1>4 DEF t

\* While a notification runs, those still to be called have not heard of the
\* update, and those who have not heard of it are still to be called.
ListenersInv ==
    /\ version \in Nat /\ notifying \in BOOLEAN
    /\ listeners \in Seq(Subscriptions) /\ NoneTwice(listeners)
    /\ rest \in Seq(Subscriptions) /\ NoneTwice(rest)
    /\ known \in [Subscriptions -> Nat]
    /\ current \in Subscriptions \cup {None}
    /\ \A l \in Subscriptions : known[l] <= version
    /\ ~notifying => rest = <<>> /\ current = None
    /\ \A l \in ToSet(rest) : known[l] < version
    /\ notifying => \A l \in Subscribed : known[l] = version \/ l \in ToSet(rest)

LEMMA ListenersStart == ListenersInit => ListenersInv
<1>1. <<>> \in Seq(Subscriptions) /\ NoneTwice(<<>>) /\ ToSet(<<>>) = {}
  BY DEF NoneTwice, ToSet
<1> SUFFICES ASSUME ListenersInit PROVE ListenersInv
  OBVIOUS
<1>2. known \in [Subscriptions -> Nat] /\ \A l \in Subscriptions : known[l] = 0
  BY DEF ListenersInit
<1>3. /\ version = 0 /\ listeners = <<>> /\ rest = <<>> /\ notifying = FALSE
      /\ current = None
  BY DEF ListenersInit
<1>4. /\ listeners \in Seq(Subscriptions) /\ NoneTwice(listeners)
      /\ rest \in Seq(Subscriptions) /\ NoneTwice(rest) /\ ToSet(rest) = {}
  BY <1>1, <1>3
<1>5. version \in Nat /\ \A l \in Subscriptions : known[l] <= version
  BY <1>2, <1>3
<1> QED
  BY <1>2, <1>3, <1>4, <1>5 DEF ListenersInv

LEMMA ListenersStep ==
    ASSUME ListenersInv, [ListenersNext]_listenerVars
    PROVE  ListenersInv'
<1> USE DEF ListenersInv
<1>0. ToSet(rest) \subseteq Subscriptions /\ Subscribed \subseteq Subscriptions
      /\ ToSet(<<>>) = {} /\ None \notin Subscriptions
  BY ListenersAssumption DEF ToSet, Subscribed
<1>1. ASSUME NEW l \in Subscriptions, Subscribe(l) PROVE ListenersInv'
  <2>1. /\ l \notin ToSet(listeners) /\ l \notin ToSet(rest)
        /\ listeners' = Append(listeners, l)
        /\ known' = [known EXCEPT ![l] = version]
        /\ UNCHANGED <<version, notifying, rest, current>>
    BY <1>1 DEF Subscribe, Subscribed
  <2>2. /\ listeners' \in Seq(Subscriptions) /\ NoneTwice(listeners')
        /\ ToSet(listeners') = ToSet(listeners) \cup {l}
    BY <2>1, Appended
  <2>3. \A k \in ToSet(rest) : known'[k] = known[k]
    BY <1>0, <2>1
  <2>4. notifying => \A k \in Subscribed' : known'[k] = version \/ k \in ToSet(rest)
    BY <1>0, <2>1, <2>2 DEF Subscribed
  <2>5. known' \in [Subscriptions -> Nat] /\ \A k \in Subscriptions : known'[k] <= version
    BY <2>1
  <2> QED
    BY <2>1, <2>2, <2>3, <2>4, <2>5
<1>2. ASSUME NEW l \in Subscriptions, Unsubscribe(l) PROVE ListenersInv'
  <2>1. PICK i \in DOMAIN listeners : listeners' = RemoveAt(listeners, i)
    BY <1>2 DEF Unsubscribe
  <2>2. /\ listeners' \in Seq(Subscriptions) /\ NoneTwice(listeners')
        /\ ToSet(listeners') \subseteq ToSet(listeners)
    BY <2>1, Removed
  <2> QED
    BY <1>2, <2>2 DEF Unsubscribe, Subscribed
<1>3. CASE Update
  BY <1>0, <1>3 DEF Update, Subscribed
<1>4. CASE CallNext
  <2>1. /\ rest # <<>> /\ rest' = Tail(rest) /\ notifying
        /\ \/ /\ Head(rest) \in Subscribed /\ current' = Head(rest)
              /\ known' = [known EXCEPT ![Head(rest)] = version]
           \/ Head(rest) \notin Subscribed /\ UNCHANGED <<current, known>>
        /\ UNCHANGED <<version, listeners, notifying>>
    BY <1>4 DEF CallNext
  <2>2. /\ Head(rest) \in Subscriptions /\ rest' \in Seq(Subscriptions)
        /\ NoneTwice(rest') /\ ToSet(rest') = ToSet(rest) \ {Head(rest)}
    BY <2>1, Dropped
  <2>3. \A k \in ToSet(rest') : known'[k] = known[k]
    BY <1>0, <2>1, <2>2
  <2>4. \A k \in Subscribed : known'[k] = version \/ k \in ToSet(rest')
    BY <1>0, <2>1, <2>2
  <2>5. known' \in [Subscriptions -> Nat] /\ \A k \in Subscriptions : known'[k] <= version
    <3>1. \A k \in Subscriptions : known'[k] = known[k] \/ known'[k] = version
      BY <2>1, <2>2
    <3>2. known' \in [Subscriptions -> Nat]
      BY <2>1, <2>2
    <3>3. version \in Nat /\ \A k \in Subscriptions : known[k] <= version
      OBVIOUS
    <3> HIDE DEF ListenersInv
    <3> QED
      BY <3>1, <3>2, <3>3
  <2>6. Subscribed' = Subscribed
    BY <2>1 DEF Subscribed
  <2> QED
    BY <2>1, <2>2, <2>3, <2>4, <2>5, <2>6
<1>5. CASE Return
  BY <1>0, <1>5 DEF Return, Subscribed
<1>6. CASE Throw
  <2>1. <<>> \in Seq(Subscriptions) /\ NoneTwice(<<>>)
    BY DEF NoneTwice
  <2> QED
    BY <1>0, <1>6, <2>1 DEF Throw
<1>7. CASE NotifyDone
  BY <1>0, <1>7 DEF NotifyDone, Subscribed
<1>8. CASE UNCHANGED listenerVars
  BY <1>8 DEF listenerVars, Subscribed
<1> QED
  BY <1>1, <1>2, <1>3, <1>4, <1>5, <1>6, <1>7, <1>8 DEF ListenersNext

\* A listener is called about each update at most once, and not about the one
\* during which it subscribed, whatever the callbacks of _notify() do.
THEOREM EachUpdateIsHeardOnce == ListenersSpec => HearsEachUpdateOnce
<1>1. ASSUME ListenersInv, [ListenersNext]_listenerVars
      PROVE  [\A l \in Subscriptions :
                 current' = l /\ current # l => known[l] < version]_listenerVars
  <2> SUFFICES ASSUME NEW l \in Subscriptions, current' = l, current # l
               PROVE  known[l] < version
    BY DEF ListenersNext
  <2>1. l # None
    BY ListenersAssumption
  <2>2. CallNext /\ l = Head(rest)
    BY <1>1, <2>1 DEF ListenersNext, listenerVars, Subscribe, Unsubscribe, Update,
                      CallNext, Return, Throw, NotifyDone
  <2>3. l \in ToSet(rest)
    BY <1>1, <2>2 DEF CallNext, ListenersInv, ToSet
  <2> QED
    BY <1>1, <2>3 DEF ListenersInv
<1> QED
  BY <1>1, ListenersStart, ListenersStep, PTL DEF ListenersSpec, HearsEachUpdateOnce

\* A notification has told every listener that is still subscribed when it ends,
\* but for those that come after one that throws.
THEOREM NotificationsTell == ListenersSpec => NotificationTells
<1>1. ASSUME ListenersInv, [ListenersNext]_listenerVars
      PROVE  [notifying /\ ~notifying' =>
                 \A l \in Subscribed : \/ known[l] = version
                                       \/ current \in Throwing /\ l \in ToSet(rest)
             ]_listenerVars
  <2> SUFFICES ASSUME notifying, ~notifying', NEW l \in Subscribed, known[l] # version
               PROVE  current \in Throwing /\ l \in ToSet(rest)
    OBVIOUS
  <2>1. l \in ToSet(rest)
    BY <1>1 DEF ListenersInv
  <2>2. CASE Throw
    BY <2>1, <2>2 DEF Throw
  <2>3. CASE ~Throw
    <3>1. NotifyDone
      BY <1>1, <2>3 DEF ListenersNext, listenerVars, Subscribe, Unsubscribe, Update,
                        CallNext, Return
    <3> QED
      BY <2>1, <3>1 DEF NotifyDone, ToSet
  <2> QED
    BY <2>2, <2>3
<1> QED
  BY <1>1, ListenersStart, ListenersStep, PTL DEF ListenersSpec, NotificationTells
=============================================================================
