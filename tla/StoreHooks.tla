----------------------------- MODULE StoreHooks -----------------------------
(***************************************************************************)
(* SfStablecoinStoreProvider, useSfStablecoinSelector and                  *)
(* useSfStablecoinReducer (lib-react/src) around a store.  A component is  *)
(* rendered first; its effect, which subscribes, runs later, and what the  *)
(* store does in between goes unheard.                                     *)
(***************************************************************************)
EXTENDS Naturals

CONSTANTS
    Blocks,     \* bound: the blocks of the chain, 1..n
    Selection,  \* per block: what select() takes out of the store's state
    MaxMounts   \* bound: how often the provider is mounted

ASSUME HooksAssumption ==
    /\ Blocks \subseteq Nat \ {0}
    /\ 1 \in Blocks
    /\ DOMAIN Selection = Blocks
    /\ MaxMounts \in Nat

VARIABLES
    head,       \* the last block of the chain
    loading,    \* the blocks of the fetches made by start()
    fetching,   \* the blocks of the fetches made for a new block
    state,      \* the block of store.state, 0 before it is loaded
    onLoaded,   \* store.onLoaded is set
    provider,   \* loadedStore and the life of the provider
    child,      \* the life of a component below it
    screen,     \* the block whose selection the component has drawn
    rerender,   \* the component is about to be drawn again
    reduced,    \* the block of the last update that its reducer has seen
    missed,     \* history: the hooks that an update has escaped
    mounts      \* bound

hookVars == <<head, loading, fetching, state, onLoaded, provider, child, screen,
              rerender, reduced, missed, mounts>>

HooksInit ==
    /\ head = 1
    /\ loading = {}
    /\ fetching = {}
    /\ state = 0
    /\ onLoaded = FALSE
    /\ provider = "none"
    /\ child = "none"
    /\ screen = 0
    /\ rerender = FALSE
    /\ reduced = 0
    /\ missed = {}
    /\ mounts = 0

-----------------------------------------------------------------------------
(* The provider                                                            *)

Mount ==
    /\ provider = "none"
    /\ mounts < MaxMounts
    /\ mounts' = mounts + 1
    /\ provider' = "mounted"
    /\ UNCHANGED <<head, loading, fetching, state, onLoaded, child, screen, rerender,
                   reduced, missed>>

\* Mutant: the store is started before anybody listens to onLoaded.
StartUnheard ==
    /\ provider = "mounted"
    /\ provider' = "waiting"
    /\ loading' = loading \cup {head}
    /\ UNCHANGED <<head, fetching, state, onLoaded, child, screen, rerender, reduced,
                   missed, mounts>>

\* The effect: onLoaded is set, and start() fetches the state.
StartStore ==
    /\ provider = "mounted"
    /\ provider' = "waiting"
    /\ onLoaded' = TRUE
    /\ loading' = loading \cup {head}
    /\ UNCHANGED <<head, fetching, state, child, screen, rerender, reduced, missed, mounts>>

\* The provider is drawn again with the loaded store, and its children with it.
RenderChildren ==
    /\ provider = "loaded"
    /\ child = "none"
    /\ child' = "drawn"
    /\ screen' = state
    /\ reduced' = state
    /\ missed' = {}
    /\ UNCHANGED <<head, loading, fetching, state, onLoaded, provider, rerender, mounts>>

\* The page with the component is left for another one.
Leave ==
    /\ child # "none"
    /\ child' = "none"
    /\ rerender' = FALSE
    /\ missed' = {}
    /\ UNCHANGED <<head, loading, fetching, state, onLoaded, provider, screen,
                   reduced, mounts>>

\* The cleanups.  stop() does not take back what is being fetched.
Unmount ==
    /\ provider \in {"waiting", "loaded"}
    /\ provider' = "none"
    /\ onLoaded' = FALSE
    /\ child' = "none"
    /\ rerender' = FALSE
    /\ missed' = {}
    /\ UNCHANGED <<head, loading, fetching, state, screen, reduced, mounts>>

-----------------------------------------------------------------------------
(* The store                                                               *)

\* A block, which a store that runs fetches.
NewBlock ==
    /\ head + 1 \in Blocks
    /\ head' = head + 1
    /\ fetching' = IF provider \in {"waiting", "loaded"}
                   THEN fetching \cup {head'} ELSE fetching
    /\ UNCHANGED <<loading, state, onLoaded, provider, child, screen, rerender,
                   reduced, missed, mounts>>

\* _load() calls onLoaded, if there is one.
Load ==
    /\ state = 0
    /\ provider' = IF onLoaded THEN "loaded" ELSE provider
    /\ UNCHANGED <<child, screen, rerender, reduced, missed>>

\* Mutant: equals() only looks at the first field.
SelectionsEqualInPrice(a, b) == Selection[a].price = Selection[b].price

\* equals() of what select() returns: the store keeps the object of a field
\* whose value stays, so that the same objects are the same values.
SelectionsEqual(a, b) == Selection[a] = Selection[b]

\* _update() calls the listeners: the selector asks for another rendering when
\* the selection differs, the reducer reduces the update.
Update(b) ==
    /\ state # 0
    /\ CASE child = "subscribed" ->
                /\ rerender' = (rerender \/ ~SelectionsEqual(b, state))
                /\ reduced' = b
                /\ missed' = missed \ {"reducer"}
         [] child = "drawn" ->
                /\ missed' = {"selector", "reducer"}
                /\ UNCHANGED <<rerender, reduced>>
         [] OTHER -> UNCHANGED <<rerender, reduced, missed>>
    /\ UNCHANGED <<provider, child, screen>>

\* What start() has fetched is of no use once the store is loaded.
Started(b) ==
    /\ b \in loading
    /\ loading' = loading \ {b}
    /\ \/ /\ state' = b
          /\ Load
       \/ /\ state # 0
          /\ UNCHANGED <<state, provider, child, screen, rerender, reduced, missed>>
    /\ UNCHANGED <<head, fetching, onLoaded, mounts>>

Fetched(b) ==
    /\ b \in fetching
    /\ fetching' = fetching \ {b}
    /\ state' = b
    /\ Load \/ Update(b)
    /\ UNCHANGED <<head, loading, onLoaded, mounts>>

\* The update after 30 seconds without one.
Heartbeat ==
    /\ Update(state)
    /\ UNCHANGED <<head, loading, fetching, state, onLoaded, mounts>>

-----------------------------------------------------------------------------
(* The hooks                                                               *)

\* The effects: store.subscribe().
Subscribe ==
    /\ child = "drawn"
    /\ child' = "subscribed"
    /\ UNCHANGED <<head, loading, fetching, state, onLoaded, provider, screen, rerender,
                   reduced, missed, mounts>>

\* The component is drawn again, for the hook or for another reason: the
\* selector returns select(store.state), the reducer what it has.
Render ==
    /\ child # "none"
    /\ screen' = state
    /\ rerender' = FALSE
    /\ missed' = IF child = "subscribed" THEN missed \ {"selector"} ELSE missed
    /\ UNCHANGED <<head, loading, fetching, state, onLoaded, provider, child, reduced, mounts>>

HookStep ==
    \/ Mount \/ StartStore \/ NewBlock \/ Subscribe \/ Render
    \/ Heartbeat
    \/ \E b \in Blocks : Started(b) \/ Fetched(b)

-----------------------------------------------------------------------------
(* Properties                                                              *)

\* What a component has drawn is the selection of the store's state, and its
\* reducer has seen the last update, unless an update fell between the first
\* rendering and the subscription.
ScreenFollowsStore ==
    child = "subscribed" =>
        /\ "selector" \in missed \/ rerender \/ Selection[screen] = Selection[state]
        /\ "reducer" \in missed \/ reduced = state

\* Once the store was started by a provider that is mounted for the first time
\* and stays, its children are drawn.  (A provider mounted again around a store
\* that was loaded before waits for an onLoaded that never comes.)
FirstMountIsDrawn ==
    (provider = "waiting" /\ mounts = 1) ~> (child # "none" \/ provider = "none")
=============================================================================
