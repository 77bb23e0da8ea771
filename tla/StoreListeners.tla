--------------------------- MODULE StoreListeners ---------------------------
(***************************************************************************)
(* subscribe(), the function it returns and _notify() of SfStablecoinStore *)
(* (lib-base/src/SfStablecoinStore.ts).  _notify() calls the listeners one *)
(* after the other; while a callback runs it may subscribe new listeners,  *)
(* unsubscribe itself or others, and throw.  The store's state is          *)
(* abstracted to the number of its last update.                            *)
(***************************************************************************)
EXTENDS Naturals, Sequences, SequencesExt

CONSTANTS
    Subscriptions,  \* identities of the wrapped listeners
    Throwing,       \* those whose callback may throw
    MaxUpdates,     \* bound: the updates of the store
    None            \* no callback is running

ASSUME ListenersAssumption ==
    /\ Throwing \subseteq Subscriptions
    /\ None \notin Subscriptions
    /\ MaxUpdates \in Nat

VARIABLES
    version,    \* the number of the store's last update
    listeners,  \* _listeners: a JavaScript Set, in the order of insertion
    known,      \* per listener: the version its owner has seen
    notifying,  \* _notify() is running
    rest,       \* what is left of its copy of _listeners
    current     \* the listener whose callback is running

listenerVars == <<version, listeners, known, notifying, rest, current>>

Subscribed == ToSet(listeners)

ListenersInit ==
    /\ version = 0
    /\ listeners = <<>>
    /\ known = [l \in Subscriptions |-> 0]
    /\ notifying = FALSE
    /\ rest = <<>>
    /\ current = None

\* User code runs outside of _notify() or inside a callback.
UserCodeRuns == ~notifying \/ current # None

\* subscribe() wraps the listener, so that it is never one already in the set;
\* its owner takes the state it starts from at the same time.
Subscribe(l) ==
    /\ UserCodeRuns
    /\ l \notin Subscribed \cup ToSet(rest) \cup {current}
    /\ listeners' = Append(listeners, l)
    /\ known' = [known EXCEPT ![l] = version]
    /\ UNCHANGED <<version, notifying, rest, current>>

Unsubscribe(l) ==
    /\ UserCodeRuns
    /\ \E i \in DOMAIN listeners :
          listeners[i] = l /\ listeners' = RemoveAt(listeners, i)
    /\ UNCHANGED <<version, known, notifying, rest, current>>

\* _update() changes the state and starts to notify a copy of the listeners.
Update ==
    /\ ~notifying
    /\ version < MaxUpdates
    /\ version' = version + 1
    /\ notifying' = TRUE
    /\ rest' = listeners
    /\ UNCHANGED <<listeners, known, current>>

\* Mutant: a listener that is gone ends the loop instead of being skipped.
CallNextStopsAtGone ==
    /\ notifying
    /\ current = None
    /\ rest # <<>>
    /\ IF Head(rest) \in Subscribed
       THEN /\ rest' = Tail(rest)
            /\ current' = Head(rest)
            /\ known' = [known EXCEPT ![Head(rest)] = version]
       ELSE rest' = <<>> /\ UNCHANGED <<current, known>>
    /\ UNCHANGED <<version, listeners, notifying>>

\* The next listener of the copy is called if it is still in the original set.
CallNext ==
    /\ notifying
    /\ current = None
    /\ rest # <<>>
    /\ rest' = Tail(rest)
    /\ IF Head(rest) \in Subscribed
       THEN /\ current' = Head(rest)
            /\ known' = [known EXCEPT ![Head(rest)] = version]
       ELSE UNCHANGED <<current, known>>
    /\ UNCHANGED <<version, listeners, notifying>>

\* Mutant: _notify() iterates on _listeners itself, as Set.forEach() does: a
\* listener added during the iteration is visited too.
ReturnToLiveSet ==
    /\ current # None
    /\ current' = None
    /\ rest' = rest \o SelectSeq(listeners, LAMBDA l : /\ l \notin ToSet(rest)
                                                       /\ known[l] = version
                                                       /\ l # current)
    /\ UNCHANGED <<version, listeners, known, notifying>>

Return ==
    /\ current # None
    /\ current' = None
    /\ UNCHANGED <<version, listeners, known, notifying, rest>>

\* An exception leaves forEach(), _notify() and _update().
Throw ==
    /\ current \in Throwing
    /\ current' = None
    /\ notifying' = FALSE
    /\ rest' = <<>>
    /\ UNCHANGED <<version, listeners, known>>

NotifyDone ==
    /\ notifying
    /\ current = None
    /\ rest = <<>>
    /\ notifying' = FALSE
    /\ UNCHANGED <<version, listeners, known, rest, current>>

ListenersNext ==
    \/ \E l \in Subscriptions : Subscribe(l)
    \/ \E l \in Subscriptions : Unsubscribe(l)
    \/ Update
    \/ CallNext
    \/ Return
    \/ Throw
    \/ NotifyDone

ListenersSpec == ListenersInit /\ [][ListenersNext]_listenerVars

\* _notify() is synchronous code: it goes on until it is done, and callbacks
\* return.  Nothing obliges user code to subscribe, unsubscribe or throw.
ListenersFairness ==
    WF_listenerVars(CallNext) /\ WF_listenerVars(Return) /\ WF_listenerVars(NotifyDone)

FairListenersSpec == ListenersSpec /\ ListenersFairness

-----------------------------------------------------------------------------
\* A listener is called about each update at most once, and never about the
\* update during which it subscribed, whatever callbacks do to the set.
HearsEachUpdateOnce ==
    [][\A l \in Subscriptions :
          current' = l /\ current # l => known[l] < version]_listenerVars

\* A notification has told every listener that is still subscribed when it ends.
\* When a callback throws, which is the only other end, that is so of all but
\* those that come after it.
NotificationTells ==
    [][notifying /\ ~notifying' =>
          \A l \in Subscribed : \/ known[l] = version
                                \/ current \in Throwing /\ l \in ToSet(rest)
      ]_listenerVars

\* "Function that will be called whenever state changes": when a notification
\* is over, every subscribed listener has been told of the update.  The code
\* does not keep this: a listener that throws ends the notification.
EveryListenerIsTold ==
    ~notifying => \A l \in Subscribed : known[l] = version

\* A notification ends, even if callbacks subscribe new listeners or throw.
NotificationEnds == notifying ~> ~notifying
=============================================================================
