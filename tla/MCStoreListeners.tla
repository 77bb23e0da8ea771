-------------------------- MODULE MCStoreListeners --------------------------
(***************************************************************************)
(* Model checking StoreListeners with a few listeners; an identity may be  *)
(* used again once nothing refers to it any more.                          *)
(***************************************************************************)
EXTENDS StoreListeners
=============================================================================
