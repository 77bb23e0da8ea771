------------------------------- MODULE Editors -------------------------------
(***************************************************************************)
(* The two editors of the dev-frontend.  They share the store and nothing  *)
(* else, so a behaviour is of one page or of the other.                    *)
(***************************************************************************)
EXTENDS TroveEditor, DepositEditor

VARIABLE page       \* the page whose behaviour this is

allVars == <<vars, depositVars, page>>

EditorsInit ==
    /\ page \in {"trove", "pool"}
    /\ Init /\ DepositInit
    /\ page = "trove" => pool.deposit = NoDeposit
    /\ page = "pool"  => chain.status = "nonExistent" /\ chain.price \in Prices
                         /\ \A p \in Prices : p <= chain.price

EditorsNext ==
    /\ UNCHANGED page
    /\ \/ page = "trove" /\ Next /\ UNCHANGED depositVars
       \/ page = "pool" /\ DepositNext /\ UNCHANGED vars

EditorsSpec == EditorsInit /\ [][EditorsNext]_allVars
=============================================================================
