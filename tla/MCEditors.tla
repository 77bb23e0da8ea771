----------------------------- MODULE MCEditors -----------------------------
(* A Trove of 3.47 at a price of 1.00 or 0.80, a scale of one hundredth.   *)
EXTENDS Editors

MCOthers == Trove(1000, 500)
MCShare  == Trove(5, 3)
=============================================================================
