------------------------- MODULE MCBlockPolledStore -------------------------
(***************************************************************************)
(* Model checking BlockPolledStore on a short chain.  One field changes    *)
(* with every block, the other with every second one, so that an update    *)
(* may leave a field as it was; only the first is an input of the derived  *)
(* state.                                                                  *)
(***************************************************************************)
EXTENDS BlockPolledStore, TLC

MCFields == {"price", "balance"}
MCDerivedInputs == {"price"}
MCValue == 0..MaxBlock
MCRead(f, b) == IF f = "price" THEN b ELSE b \div 2

\* Fetches and sessions are interchangeable (safety runs only).
MCSymmetry == Permutations(Sessions) \cup Permutations(FetchIds)
=============================================================================
