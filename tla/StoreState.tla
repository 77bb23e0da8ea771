----------------------------- MODULE StoreState -----------------------------
(***************************************************************************)
(* The data of an SfStablecoinStore (lib-base/src/SfStablecoinStore.ts):   *)
(* a base state of independent fields read from the chain, a derived       *)
(* state computed from some of them, and the number of the block they      *)
(* were read at.  The chain itself is the constant operator Read: what a   *)
(* read of field f returns when it is evaluated at block b.                *)
(***************************************************************************)
EXTENDS Naturals

CONSTANTS
    Fields,         \* the names of the base state's variables
    DerivedInputs,  \* those among them that _derive() uses
    Value,          \* the values a field can have
    Undefined,      \* JavaScript's undefined, for a field not (yet) given
    MaxBlock,       \* bound: the number of the last block mined
    Read(_, _)      \* Read(f, b): the value of field f at block b

NoBlock == 0        \* a blockTag that is undefined
Blocks  == 1..MaxBlock
Tags    == Blocks \cup {NoBlock}

ASSUME FieldsAssumption ==
    /\ DerivedInputs \subseteq Fields
    /\ Fields \cap {"derived", "blockTag"} = {}

ASSUME ChainAssumption ==
    /\ MaxBlock \in Nat \ {0}
    /\ Undefined \notin Value
    /\ \A f \in Fields, b \in Blocks : Read(f, b) \in Value

(***************************************************************************)
(* A base state, or a partial update of one: a field that is Undefined is  *)
(* not part of the update.                                                 *)
(***************************************************************************)
BaseStates == [Fields -> Value \cup {Undefined}]
DerivedStates == [DerivedInputs -> Value \cup {Undefined}]
NoBase == [f \in Fields |-> Undefined]
Snapshot(b) == [f \in Fields |-> Read(f, b)]

\* _derive(): abstracted to the inputs the derived state was computed from.
Derive(b) == [f \in DerivedInputs |-> b[f]]

\* Mutant: the comparison of _reduce() is inverted.
ReduceInverted(old, update) ==
    [f \in Fields |-> IF update[f] # Undefined /\ update[f] = old[f]
                      THEN update[f] ELSE old[f]]

\* _reduce(): a field changes when the update has it and it differs.
Reduce(old, update) ==
    [f \in Fields |-> IF update[f] # Undefined /\ update[f] # old[f]
                      THEN update[f] ELSE old[f]]

\* _reduceDerived(): the same, for an update that has every variable.
ReduceDerived(old, update) ==
    [f \in DerivedInputs |-> IF update[f] # old[f] THEN update[f] ELSE old[f]]

\* Mutant: oldState.blockTag ?? stateUpdate.blockTag
ReduceExtraSwapped(old, update) == IF old # NoBlock THEN old ELSE update

\* _reduceExtra(): stateUpdate.blockTag ?? oldState.blockTag
ReduceExtra(old, update) == IF update # NoBlock THEN update ELSE old

(***************************************************************************)
(* The getter "state" merges the three parts into one object; listeners    *)
(* are told the keys whose values changed.                                 *)
(***************************************************************************)
StateKeys == Fields \cup {"derived", "blockTag"}

FlatState(b, d, tag) ==
    [k \in StateKeys |-> IF k \in Fields THEN b[k]
                         ELSE IF k = "derived" THEN d ELSE tag]

\* Mutant: the changed keys with their values before the change.
DifferenceOfOld(a, b) == [k \in {j \in StateKeys : a[j] # b[j]} |-> b[k]]

\* difference(a, b): the part of a that is not in b.
Difference(a, b) == [k \in {j \in StateKeys : a[j] # b[j]} |-> a[k]]

\* A listener that keeps a copy of the state and applies stateChange to it.
Patch(copy, change) ==
    [k \in StateKeys |-> IF k \in DOMAIN change THEN change[k] ELSE copy[k]]

EmptyState == FlatState(NoBase, Derive(NoBase), NoBlock)
=============================================================================
