-------------------------- MODULE MCBatchedProvider --------------------------
(***************************************************************************)
(* Model checking BatchedProvider: the answer to a call is the call itself *)
(* and the block it was evaluated at, so that no two answers are alike.    *)
(***************************************************************************)
EXTENDS BatchedProvider

MCAnswer(c, t) == <<c, t>>
MCBlockTags == {"latest", "tagged"}
=============================================================================
