-------------------------- MODULE BlockPolledStore --------------------------
(***************************************************************************)
(* BlockPolledSfStablecoinStore on top of SfStablecoinStore: every start() *)
(* fetches the state once without a block tag and listens to new blocks;   *)
(* block events are debounced; each debounced event fetches the state at   *)
(* the newest block seen; fetches run concurrently, return in any order or *)
(* fail; what they return is loaded or reduced into the state; a heartbeat *)
(* timer re-derives the state.  Fetches are not cancelled by the stop      *)
(* function, and the store may be started again.                           *)
(***************************************************************************)
EXTENDS StoreState, FiniteSets

CONSTANTS
    Sessions,      \* bound: the calls of start()
    FetchIds,      \* bound: how many fetches can be in flight
    MaxFailures,   \* bound: how many fetches fail
    Idle           \* the content of a fetch slot not in use

VARIABLES
    head,          \* external: the newest block of the chain
    events,        \* external: blocks the provider has yet to announce
    failures,      \* external: fetches that failed so far
    session,       \* per start(): "new", "running" or "stopped"
    latestBlock,   \* per start(): the closure variable latestBlock
    timer,         \* per start(): is the debounce timer timerId armed
    fetch,         \* the calls of _get() in flight
    loaded,        \* _loaded
    base,          \* _baseState
    derived,       \* _derivedState
    blockTag,      \* _extraState.blockTag
    heartbeat,     \* is _updateTimeoutId armed
    view,          \* a follower subscribed by onLoaded that applies stateChange
    assertFailed   \* one of the store's assert()s failed

chainVars == <<head, events, failures>>
pollVars  == <<session, latestBlock, timer>>
storeVars == <<loaded, base, derived, blockTag, heartbeat, view, assertFailed>>
vars      == <<chainVars, pollVars, fetch, storeVars>>

\* A fetch knows which start() issued it and the block it asks for; got holds
\* the answers received so far by a fetch that asks for no block.
Fetches == [session : Sessions, tag : Tags, got : BaseStates]

ASSUME PollingAssumption ==
    /\ Idle \notin Fetches
    /\ MaxFailures \in Nat

Running == {s \in Sessions : session[s] = "running"}
InFlight == {i \in FetchIds : fetch[i] # Idle}

Init ==
    /\ head = 1
    /\ events = {1}
    /\ failures = 0
    /\ session = [s \in Sessions |-> "new"]
    /\ latestBlock = [s \in Sessions |-> NoBlock]
    /\ timer = [s \in Sessions |-> FALSE]
    /\ fetch = [i \in FetchIds |-> Idle]
    /\ loaded = FALSE
    /\ base = NoBase
    /\ derived = Derive(NoBase)
    /\ blockTag = NoBlock
    /\ heartbeat = FALSE
    /\ view = EmptyState
    /\ assertFailed = FALSE

(***************************************************************************)
(* SfStablecoinStore: _load() and _update().                               *)
(***************************************************************************)
State == FlatState(base, derived, blockTag)

\* A failed assert() throws before anything is assigned.
AssertFails == assertFailed' = TRUE
               /\ UNCHANGED <<loaded, base, derived, blockTag, heartbeat, view>>

\* _load(): onLoaded, called last, reads the state and subscribes the follower.
StoreLoad(newBase, tag) ==
    IF loaded THEN AssertFails
    ELSE /\ base' = newBase
         /\ derived' = Derive(newBase)
         /\ blockTag' = tag
         /\ loaded' = TRUE
         /\ heartbeat' = TRUE
         /\ view' = FlatState(base', derived', blockTag')
         /\ UNCHANGED assertFailed

\* Mutant: _update() derives before it reduces the base state.
StoreUpdateDerivesFirst(update, tag) ==
    IF ~loaded THEN AssertFails
    ELSE /\ derived' = ReduceDerived(derived, Derive(base))
         /\ base' = Reduce(base, update)
         /\ blockTag' = ReduceExtra(blockTag, tag)
         /\ heartbeat' = TRUE
         /\ view' = Patch(view, Difference(FlatState(base', derived', blockTag'), State))
         /\ UNCHANGED <<loaded, assertFailed>>

\* _update(): reduce, derive, schedule the heartbeat, notify the difference.
StoreUpdate(update, tag) ==
    IF ~loaded THEN AssertFails
    ELSE /\ base' = Reduce(base, update)
         /\ derived' = ReduceDerived(derived, Derive(base'))
         /\ blockTag' = ReduceExtra(blockTag, tag)
         /\ heartbeat' = TRUE
         /\ view' = Patch(view, Difference(FlatState(base', derived', blockTag'), State))
         /\ UNCHANGED <<loaded, assertFailed>>

(***************************************************************************)
(* The environment: the chain grows and the provider announces its blocks, *)
(* not necessarily in order.  A provider nobody listens to does not poll.  *)
(***************************************************************************)
Mine ==
    /\ head < MaxBlock
    /\ head' = head + 1
    /\ events' = events \cup {head + 1}
    /\ UNCHANGED <<failures, pollVars, fetch, storeVars>>

\* An RPC error or timeout: nothing handles the rejection of _get().
FetchFails(i) ==
    /\ fetch[i] # Idle
    /\ failures < MaxFailures
    /\ failures' = failures + 1
    /\ fetch' = [fetch EXCEPT ![i] = Idle]
    /\ UNCHANGED <<head, events, pollVars, storeVars>>

\* Without a block tag every read is evaluated at the block that is newest
\* when the node gets to it.
ReadLatest(i, f) ==
    /\ fetch[i] # Idle
    /\ fetch[i].tag = NoBlock
    /\ fetch[i].got[f] = Undefined
    /\ fetch' = [fetch EXCEPT ![i].got[f] = Read(f, head)]
    /\ UNCHANGED <<chainVars, pollVars, storeVars>>

(***************************************************************************)
(* start() and the function it returns.                                    *)
(***************************************************************************)
NewFetch(i, s, tag) ==
    /\ fetch[i] = Idle
    /\ fetch' = [fetch EXCEPT ![i] = [session |-> s, tag |-> tag, got |-> NoBase]]

Start(s, i) ==
    /\ session[s] = "new"
    /\ NewFetch(i, s, NoBlock)
    /\ session' = [session EXCEPT ![s] = "running"]
    /\ UNCHANGED <<chainVars, latestBlock, timer, storeVars>>

\* doStop() and _cancelUpdateIfScheduled(); fetches stay in flight.
Stop(s) ==
    /\ session[s] = "running"
    /\ session' = [session EXCEPT ![s] = "stopped"]
    /\ timer' = [timer EXCEPT ![s] = FALSE]
    /\ heartbeat' = FALSE
    /\ UNCHANGED <<chainVars, latestBlock, fetch, loaded, base, derived,
                   blockTag, view, assertFailed>>

(***************************************************************************)
(* Callbacks: the block listener, the debounce timer, returning fetches    *)
(* and the heartbeat.                                                      *)
(***************************************************************************)

MaxOf(a, b) == IF a > b THEN a ELSE b

\* Mutant: an event that finds the timer armed is taken for a duplicate.
BlockListenerIgnoresWhileArmed(b) ==
    /\ b \in events
    /\ Running # {}
    /\ events' = events \ {b}
    /\ latestBlock' = [s \in Sessions |-> IF s \in Running /\ ~timer[s]
                                          THEN MaxOf(b, latestBlock[s])
                                          ELSE latestBlock[s]]
    /\ timer' = [s \in Sessions |-> timer[s] \/ s \in Running]
    /\ UNCHANGED <<head, failures, session, fetch, storeVars>>

\* Every running session's listener hears the event and restarts its timer.
BlockListener(b) ==
    /\ b \in events
    /\ Running # {}
    /\ events' = events \ {b}
    /\ latestBlock' = [s \in Sessions |-> IF s \in Running
                                          THEN MaxOf(b, latestBlock[s])
                                          ELSE latestBlock[s]]
    /\ timer' = [s \in Sessions |-> timer[s] \/ s \in Running]
    /\ UNCHANGED <<head, failures, session, fetch, storeVars>>

\* assert(latestBlock !== undefined); handleBlock(latestBlock)
DebounceFires(s, i) ==
    /\ timer[s]
    /\ timer' = [timer EXCEPT ![s] = FALSE]
    /\ NewFetch(i, s, latestBlock[s])
    /\ assertFailed' = (assertFailed \/ latestBlock[s] = NoBlock)
    /\ UNCHANGED <<chainVars, session, latestBlock, loaded, base, derived,
                   blockTag, heartbeat, view>>

\* Mutant: the untagged fetch loads without looking whether a block fetch did.
FirstFetchReturnsUnchecked(i) ==
    /\ fetch[i] # Idle
    /\ fetch[i].tag = NoBlock
    /\ \A f \in Fields : fetch[i].got[f] # Undefined
    /\ fetch' = [fetch EXCEPT ![i] = Idle]
    /\ StoreLoad(fetch[i].got, NoBlock)
    /\ UNCHANGED <<chainVars, pollVars>>

\* The fetch without a tag has every answer: load, unless already loaded.
FirstFetchReturns(i) ==
    /\ fetch[i] # Idle
    /\ fetch[i].tag = NoBlock
    /\ \A f \in Fields : fetch[i].got[f] # Undefined
    /\ fetch' = [fetch EXCEPT ![i] = Idle]
    /\ IF ~loaded THEN StoreLoad(fetch[i].got, NoBlock)
       ELSE UNCHANGED storeVars
    /\ UNCHANGED <<chainVars, pollVars>>

\* Mutant: a block fetch only updates and leaves loading to the first fetch.
BlockFetchNeverLoads(i) ==
    /\ fetch[i] # Idle
    /\ fetch[i].tag # NoBlock
    /\ fetch' = [fetch EXCEPT ![i] = Idle]
    /\ IF loaded THEN StoreUpdate(Snapshot(fetch[i].tag), fetch[i].tag)
       ELSE UNCHANGED storeVars
    /\ UNCHANGED <<chainVars, pollVars>>

\* handleBlock() after its await.
BlockFetchReturns(i) ==
    /\ fetch[i] # Idle
    /\ fetch[i].tag # NoBlock
    /\ fetch' = [fetch EXCEPT ![i] = Idle]
    /\ IF loaded THEN StoreUpdate(Snapshot(fetch[i].tag), fetch[i].tag)
       ELSE StoreLoad(Snapshot(fetch[i].tag), fetch[i].tag)
    /\ UNCHANGED <<chainVars, pollVars>>

\* _updateTimeoutId fires: _update() without an update.
HeartbeatFires ==
    /\ heartbeat
    /\ StoreUpdate(NoBase, NoBlock)
    /\ UNCHANGED <<chainVars, pollVars, fetch>>

FetchReturns(i) == FirstFetchReturns(i) \/ BlockFetchReturns(i)

Next ==
    \/ Mine
    \/ \E i \in FetchIds : FetchFails(i)
    \/ \E i \in FetchIds, f \in Fields : ReadLatest(i, f)
    \/ \E s \in Sessions, i \in FetchIds : Start(s, i)
    \/ \E s \in Sessions : Stop(s)
    \/ \E b \in events : BlockListener(b)
    \/ \E s \in Sessions, i \in FetchIds : DebounceFires(s, i)
    \/ \E i \in FetchIds : FirstFetchReturns(i)
    \/ \E i \in FetchIds : BlockFetchReturns(i)
    \/ HeartbeatFires

Spec == Init /\ [][Next]_vars

\* The event loop runs what is due: announced blocks are delivered, armed
\* timers fire, fetches that do not fail return.  Nothing obliges the chain to
\* grow, a fetch to fail, or the user to start or stop the store.
Fairness ==
    /\ WF_vars(\E b \in events : BlockListener(b))
    /\ \A s \in Sessions : WF_vars(\E i \in FetchIds : DebounceFires(s, i))
    /\ \A i \in FetchIds : WF_vars(FetchReturns(i))
    /\ \A i \in FetchIds, f \in Fields : WF_vars(ReadLatest(i, f))
    /\ WF_vars(HeartbeatFires)

FairSpec == Spec /\ Fairness

-----------------------------------------------------------------------------
(***************************************************************************)
(* Correctness.                                                            *)
(***************************************************************************)

\* The types of the variables: the polling closures, the fetches in flight and
\* the store's fields only ever hold what the code can put there, and a loaded
\* store has a value for every field.
TypeOK ==
    /\ head \in Blocks
    /\ events \subseteq Blocks
    /\ failures \in 0..MaxFailures
    /\ session \in [Sessions -> {"new", "running", "stopped"}]
    /\ latestBlock \in [Sessions -> Tags]
    /\ timer \in [Sessions -> BOOLEAN]
    /\ fetch \in [FetchIds -> Fetches \cup {Idle}]
    /\ loaded \in BOOLEAN
    /\ base \in BaseStates
    /\ derived \in DerivedStates
    /\ blockTag \in Tags
    /\ heartbeat \in BOOLEAN
    /\ assertFailed \in BOOLEAN
    /\ loaded => base \in [Fields -> Value]

\* The state is never a mixture: derived values always belong to the current
\* base values, and once blockTag is known every base value is the one of that
\* block, however the untagged first fetch and the block fetches interleaved.
StateIsConsistent ==
    /\ derived = Derive(base)
    /\ blockTag # NoBlock => base = Snapshot(blockTag)

\* A listener that only applies the stateChange of each notification has, at
\* every moment, exactly the store's state: no change is left out of
\* stateChange and none happens without a notification.
FollowerInSync == loaded => view = State

\* The asserts of _load(), _update() and the debounce callback never fail,
\* although the untagged fetch, block fetches and the heartbeat of several
\* start() calls race to be the first to load.
NoAssertionFails == ~assertFailed

\* A monitored store always has its heartbeat armed from the moment it is
\* loaded: no order of loads, updates and firing timers loses it.
HeartbeatUntilStopped ==
    loaded /\ (\A s \in Sessions : session[s] # "stopped") => heartbeat

\* A debounce timer only runs for a session that can still use its result,
\* and it always has a block to fetch.
DebounceArmedProperly ==
    \A s \in Sessions : timer[s] => s \in Running /\ latestBlock[s] # NoBlock

\* A session never asks for a block older than one it is already fetching,
\* whatever the order in which the provider announces blocks.
DebounceMonotone ==
    [][\A i, j \in FetchIds :
          (/\ fetch[i] # Idle
           /\ fetch[j] = Idle
           /\ fetch'[j] # Idle
           /\ fetch'[j].session = fetch[i].session)
          => fetch'[j].tag >= fetch[i].tag]_vars

\* The store implements its contract: it loads once, moves only from one
\* reliable state to another by changing block, and keeps followers in step.
Contract == INSTANCE StoreContract WITH cell <- State

ContractHolds == Contract!Spec

\* Monitoring leads to a loaded store even when one fetch fails.
EventuallyLoaded == Running # {} ~> loaded \/ Running = {}

\* Every block the provider announces is reflected: a store that ends up being
\* monitored, and none of whose fetches fails, gets to hold the state of that
\* block or of a later one.
CatchesUp ==
    [](failures = 0) /\ <>[](Running # {}) =>
        \A b \in Blocks : b \in events ~> blockTag >= b

\* When the chain stops growing while the store is monitored, the store ends up
\* holding the state of the newest block.
SettlesOnHead == <>[](Running # {}) => <>[](base = Snapshot(head))

\* It does so if no fetch fails and no two fetches ever overlap.
SettlesWithoutOverlap ==
    [](failures = 0 /\ Cardinality(InFlight) <= 1) => SettlesOnHead

\* After every session was stopped and its fetches are over, no timer of the
\* store is left running.  The code does not keep this: a fetch that returns
\* after stop() schedules the heartbeat again.
StopStopsEverything ==
    (\A s \in Sessions : session[s] = "stopped") /\ InFlight = {} => ~heartbeat
=============================================================================
