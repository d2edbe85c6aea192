---------------------------- MODULE MCSyncState ----------------------------
(***************************************************************************)
(* Instances of SyncState for TLC.                                         *)
(***************************************************************************)
EXTENDS SyncState
=============================================================================
