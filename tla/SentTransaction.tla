--------------------------- MODULE SentTransaction ---------------------------
(***************************************************************************)
(* SentEthersTransaction (lib-ethers/src/PopulatableEthers.ts): what the   *)
(* promise of waitForReceipt() settles with, for every fate that the chain *)
(* can have in store for a transaction that was sent.                      *)
(***************************************************************************)

\* The transaction is mined and succeeds or reverts; or another transaction
\* with its nonce is mined instead: the same with another price, a transfer of
\* nothing to oneself ("cancelled"), or something else ("replaced").
Fates == {"succeeded", "reverted", "repriced", "repricedAndReverted",
          "cancelled", "replaced"}

\* error.cancelled: somebody else's transaction took the place of this one.
Supplanted(fate) == fate \in {"cancelled", "replaced"}

\* The status in the receipt of the transaction that was mined: the replacement
\* is a transaction like any other, here one that succeeds.
RawStatus(fate) == fate \notin {"reverted", "repricedAndReverted"}

\* Mutant: the receipt of a replacement is taken for the transaction's.
WaitForReceiptOfAny(fate) ==
    IF RawStatus(fate) THEN "succeeded" ELSE "failed"

\* _waitForRawReceipt() and _receiptFrom().
WaitForReceipt(fate) ==
    IF Supplanted(fate) THEN "EthersTransactionCancelledError"
    ELSE IF RawStatus(fate) THEN "succeeded"
    ELSE "failed"
=============================================================================
