---------------------------- MODULE MCSendScreen ----------------------------
(***************************************************************************)
(* An instance of SendScreen for TLC.                                      *)
(***************************************************************************)
EXTENDS SendScreen

CONSTANTS bob, c1, c2

Others   == {bob}
TwoCoins == {c1, c2}
=============================================================================
