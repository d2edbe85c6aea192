---------------------------- MODULE MCCoreStart ----------------------------
(***************************************************************************)
(* Instances of CoreStart for TLC.                                         *)
(***************************************************************************)
EXTENDS CoreStart
=============================================================================
