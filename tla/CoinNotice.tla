---------------------------- MODULE CoinNotice ----------------------------
(***************************************************************************)
(* The notification of received coins.  The library runs                   *)
(* onCoinsReceived on the two threads of the service's executor; each call *)
(* adds to the field notificationAccumulatedAmount, notifies and resets    *)
(* the field, without a lock, and the main thread resets it when the user  *)
(* dismisses the notification.                                             *)
(***************************************************************************)
EXTENDS Integers, FiniteSets

CONSTANTS
    Thread,     \* the threads of the executor
    Amounts,    \* the amounts a transaction may bring
    MaxCoins    \* bound on the transactions received

ASSUME NoticeAssumption == Amounts \subseteq Nat /\ MaxCoins \in Nat

VARIABLES
    accumulated,  \* field notificationAccumulatedAmount
    call,         \* the step of each thread in onCoinsReceived, and its amounts
    notice,       \* the amount the notification shows
    received,     \* the sum of what was received since the last dismissal
    blurred,      \* did a dismissal fall into a call?
    coins

noticeVars == <<accumulated, call, notice, received, blurred, coins>>

NoCall == [step |-> "idle", amount |-> 0, value |-> 0]

NoticeInit ==
    /\ accumulated = 0
    /\ call = [t \in Thread |-> NoCall]
    /\ notice = 0 /\ received = 0
    /\ blurred = FALSE /\ coins = 0

(* Thread t goes from one step of the call to the next.                    *)
CallStep(t, from, to, value) ==
    /\ call[t].step = from
    /\ call' = [call EXCEPT ![t].step = to, ![t].value = value]

(* A transaction with a value for this wallet arrives.                     *)
OnCoinsReceived(t) ==
    /\ call[t].step = "idle" /\ coins < MaxCoins
    /\ \E amount \in Amounts :
           /\ call' = [call EXCEPT ![t] = [step |-> "received", amount |-> amount, value |-> 0]]
           /\ received' = received + amount
    /\ coins' = coins + 1
    /\ UNCHANGED <<accumulated, notice, blurred>>

(* The field is read for the sum ...                                       *)
ReadAmount(t) ==
    /\ CallStep(t, "received", "read", accumulated)
    /\ UNCHANGED <<accumulated, notice, received, blurred, coins>>

(* Mutant: the amount is added to what the user was shown last.            *)
AddToNotice(t) ==
    /\ CallStep(t, "read", "added", 0)
    /\ accumulated' = notice + call[t].value + call[t].amount
    /\ UNCHANGED <<notice, received, blurred, coins>>

(* ... and written.                                                        *)
AddAmount(t) ==
    /\ CallStep(t, "read", "added", 0)
    /\ accumulated' = call[t].value + call[t].amount
    /\ UNCHANGED <<notice, received, blurred, coins>>

(* The text of the notification is made from the field,                    *)
TakeAmount(t) ==
    /\ CallStep(t, "added", "taken", accumulated)
    /\ UNCHANGED <<accumulated, notice, received, blurred, coins>>

(* it replaces the notification that is there,                             *)
Notify(t) ==
    /\ CallStep(t, "taken", "notified", call[t].value)
    /\ notice' = call[t].value
    /\ UNCHANGED <<accumulated, received, blurred, coins>>

(* Mutant: what was shown is subtracted from the field.                    *)
SubtractAmount(t) ==
    /\ CallStep(t, "notified", "idle", 0)
    /\ accumulated' = accumulated - call[t].value
    /\ UNCHANGED <<notice, received, blurred, coins>>

(* and the field is reset.                                                 *)
ResetAmount(t) ==
    /\ CallStep(t, "notified", "idle", 0)
    /\ accumulated' = 0
    /\ UNCHANGED <<notice, received, blurred, coins>>

(* ACTION_CANCEL_COINS_RECEIVED.                                           *)
CancelNotice ==
    /\ notice # 0
    /\ accumulated' = 0 /\ notice' = 0 /\ received' = 0
    /\ blurred' = (blurred \/ \E t \in Thread : call[t].step # "idle")
    /\ UNCHANGED <<call, coins>>

(* onPeerDisconnected clears every notification of the application, and    *)
(* the field stays.                                                        *)
CancelAll ==
    /\ notice # 0 /\ notice' = 0
    /\ UNCHANGED <<accumulated, call, received, blurred, coins>>

NoticeNext ==
    \/ \E t \in Thread :
           \/ OnCoinsReceived(t) \/ ReadAmount(t) \/ AddAmount(t) \/ TakeAmount(t)
           \/ Notify(t) \/ ResetAmount(t)
    \/ CancelNotice \/ CancelAll

NoticeSpec == NoticeInit /\ [][NoticeNext]_noticeVars

----------------------------------------------------------------------------
NoticeTypeOK ==
    /\ {accumulated, notice, received} \subseteq Nat
    /\ call \in [Thread -> [step : {"idle", "received", "read", "added", "taken", "notified"},
                            amount : Amounts \cup {0}, value : Nat]]
    /\ blurred \in BOOLEAN
    /\ coins \in 0..MaxCoins

(* Two calls at once may lose an amount and even show zero, but the user   *)
(* is never told of more than what came in since the last dismissal, as    *)
(* long as no dismissal fell into a call.                                  *)
NeverOverstated == blurred \/ notice <= received
=============================================================================
