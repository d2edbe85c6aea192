--------------------------- MODULE SpendContract ---------------------------
(***************************************************************************)
(* What the wallet promises of a zPIV spend, without the service, the      *)
(* screens and the notifications: a transaction is taken on at most once   *)
(* and by one instance of the service; an instance spends one transaction  *)
(* at a time; a spend that ends is sent or failed, one that does not keeps *)
(* its instance from the next, and only the death of the process loses it. *)
(***************************************************************************)
CONSTANTS Tx, Instance

VARIABLE spend      \* the status of each transaction, and who took it on

Status == {"new", "spending", "closing", "sent", "failed", "lost"}
NoInstance == 0

----------------------------------------------------------------------------
Init == spend = [t \in Tx |-> [status |-> "new", by |-> NoInstance]]

TakeOn(t, i) ==
    /\ spend[t].status = "new"
    /\ \A u \in Tx : ~(spend[u].status = "spending" /\ spend[u].by = i)
    /\ spend' = [spend EXCEPT ![t] = [status |-> "spending", by |-> i]]

(* The coins are spent or they are not; the instance takes on the next one *)
(* while the user is still being told.                                     *)
Release(t) ==
    /\ spend[t].status = "spending"
    /\ spend' = [spend EXCEPT ![t].status = "closing"]

Conclude(t) ==
    /\ spend[t].status = "closing"
    /\ \E result \in {"sent", "failed"} : spend' = [spend EXCEPT ![t].status = result]

Die ==
    spend' = [t \in Tx |-> IF spend[t].status \in {"spending", "closing"}
                           THEN [spend[t] EXCEPT !.status = "lost"]
                           ELSE spend[t]]

Next ==
    \/ \E t \in Tx, i \in Instance : TakeOn(t, i)
    \/ \E t \in Tx : Release(t) \/ Conclude(t)
    \/ Die

Spec == Init /\ [][Next]_spend
=============================================================================
