--------------------------- MODULE MCBackground ---------------------------
(***************************************************************************)
(* Instances for TLC of the small modules of what goes on in the           *)
(* background.  They share no state, so that their interleavings add       *)
(* nothing: an execution runs one of them, chosen at the start.            *)
(***************************************************************************)
EXTENDS TxBroadcast, ListLoader, RateStore, CoinNotice, CrashTraces

VARIABLE part

Parts == {"broadcast", "list", "rates", "notice", "traces"}

Init ==
    /\ TxInit /\ LoaderInit /\ RateInit /\ NoticeInit /\ TraceInit
    /\ part \in Parts

Next ==
    /\ UNCHANGED part
    /\ \/ /\ part = "broadcast" /\ TxNext
          /\ UNCHANGED <<loaderVars, rateVars, noticeVars, traceVars>>
       \/ /\ part = "list" /\ LoaderNext
          /\ UNCHANGED <<txVars, rateVars, noticeVars, traceVars>>
       \/ /\ part = "rates" /\ RateNext
          /\ UNCHANGED <<txVars, loaderVars, noticeVars, traceVars>>
       \/ /\ part = "notice" /\ NoticeNext
          /\ UNCHANGED <<txVars, loaderVars, rateVars, traceVars>>
       \/ /\ part = "traces" /\ TraceNext
          /\ UNCHANGED <<txVars, loaderVars, rateVars, noticeVars>>

vars == <<part, txVars, loaderVars, rateVars, noticeVars, traceVars>>

Fairness ==
    /\ part = "broadcast" => TxFairness
    /\ part = "list" => LoaderFairness

FairSpec == Init /\ [][Next]_vars /\ Fairness

(* Every variable has its type.                                            *)
TypesOK == TxTypeOK /\ LoaderTypeOK /\ RateTypeOK /\ NoticeTypeOK /\ TraceTypeOK
=============================================================================
