--------------------------- MODULE MCSpendProcess ---------------------------
(***************************************************************************)
(* Instances of SpendProcess for TLC.                                      *)
(***************************************************************************)
EXTENDS SpendProcess

CONSTANTS t1, t2

TwoTx == {t1, t2}
=============================================================================
