-------------------------- MODULE MCWalletService --------------------------
(***************************************************************************)
(* Instances of WalletService for TLC.  One unit of time is 5 minutes.     *)
(***************************************************************************)
EXTENDS WalletService

AllFaults  == {"init", "check", "destroy", "kill", "reboot", "limits"}
LiveFaults == {"init", "check", "limits"}
NoFaults   == {}
OneHeight  == {7}
=============================================================================
