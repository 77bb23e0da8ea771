---------------------------- MODULE StoreContract ----------------------------
(***************************************************************************)
(* What a store promises to the code that uses it, whatever fetches,       *)
(* timers and restarts go on behind it: one cell that is empty until it is *)
(* loaded once, that then only ever holds states a user may rely on, and   *)
(* whose every change reaches a subscribed follower in the same step.      *)
(***************************************************************************)
EXTENDS StoreState

VARIABLES
    loaded,   \* onLoaded has been called
    cell,     \* what the getter "state" returns
    view      \* the copy kept by a follower that applies every stateChange

contractVars == <<loaded, cell, view>>

\* A state that can be relied on: the derived part belongs to the base part,
\* and a state that names a block is exactly the contents of that block.
Reliable(c) ==
    /\ c["derived"] = [f \in DerivedInputs |-> c[f]]
    /\ c["blockTag"] # NoBlock =>
          \A f \in Fields : c[f] = Read(f, c["blockTag"])

Init ==
    /\ loaded = FALSE
    /\ cell = EmptyState
    /\ view = EmptyState

Load ==
    /\ ~loaded
    /\ loaded' = TRUE
    /\ Reliable(cell')
    /\ view' = cell'

\* The cell moves only by moving to another block, and never forgets that it
\* belongs to one.
Move ==
    /\ loaded
    /\ loaded' = loaded
    /\ cell'["blockTag"] \notin {NoBlock, cell["blockTag"]}
    /\ Reliable(cell')
    /\ view' = cell'

Next == Load \/ Move

Spec == Init /\ [][Next]_contractVars
=============================================================================
