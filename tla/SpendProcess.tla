---------------------------- MODULE SpendProcess ----------------------------
(***************************************************************************)
(* Spending zPIV: an activity (send, or convert back to PIV) binds to the  *)
(* running PivxWalletService and hands it a transaction; the service runs  *)
(* the spend on its executor, one at a time per instance (isSending).      *)
(*                                                                         *)
(* The executor of an instance is never shut down, so a spend outlives the *)
(* instance that started it while Android creates the next one.  Every     *)
(* statement of the spend task that another thread can observe is a step   *)
(* of its own; onServiceConnected, onCreate and onDestroy run on the main  *)
(* thread and are single steps.                                            *)
(***************************************************************************)
EXTENDS Integers, FiniteSets

CONSTANTS
    Tx,             \* transactions the user may confirm
    NoTx,           \* a null transaction field
    MaxInstances,   \* bound on the service instances created
    MaxKills        \* bound on the deaths of the process

ASSUME SpendAssumption ==
    NoTx \notin Tx /\ MaxInstances \in Nat \ {0} /\ MaxKills \in Nat

Clients  == {"send", "convert"}
Instance == 1..MaxInstances
PoolSize == 2        \* Executors.newFixedThreadPool(2, ...)

VARIABLES
    cur,         \* the live instance, 0 when there is none
    born,        \* how many instances were created
    isSending,   \* field isSending of each instance
    executor,    \* has each instance got its executor?
    task,        \* the spend task of each transaction: its step and instance
    submits,     \* history: how often each transaction was submitted
    notes,       \* the notifications of the spend process that are shown
    transaction, \* field transaction of each activity
    bound,       \* the service connection of each activity
    kills        \* how often the process died

vars == <<cur, born, isSending, executor, task, submits, notes, transaction, bound,
          kills>>

(* The steps of the task, named by what was done last.                     *)
Step == {"none", "queued", "launched", "spent", "sentFree", "sent", "threw",
         "failFree", "failQuiet", "failTold", "failed", "lost",
         "rejected", "aborted", "stranded"}
(* The steps from which isSending will be reset, and those at which it was *)
(* left set for good: there was no executor to submit the task to, or an   *)
(* Error ended it before or after it showed its notification.              *)
Releasing == {"queued", "launched", "spent", "threw"}
Leaking   == {"rejected", "aborted", "stranded"}
Holding   == Releasing \cup Leaking
(* The steps between the launch of the notification and its last removal.  *)
Showing == {"launched", "spent", "sentFree", "threw", "failFree", "failQuiet", "failTold"}
Ended   == {"none", "sent", "failed", "lost"}

----------------------------------------------------------------------------
Init ==
    /\ cur = 0
    /\ born = 0
    /\ isSending = [i \in Instance |-> FALSE]
    /\ executor = [i \in Instance |-> FALSE]
    /\ task = [t \in Tx |-> [step |-> "none", inst |-> 0]]
    /\ submits = [t \in Tx |-> 0]
    /\ notes = {}
    /\ transaction = [c \in Clients |-> NoTx]
    /\ bound = [c \in Clients |-> "no"]
    /\ kills = 0

----------------------------------------------------------------------------
(* The service.                                                            *)

(* Mutant: the notifications of an earlier instance are left alone.        *)
OnCreateKeeping ==
    /\ cur = 0
    /\ born < MaxInstances
    /\ born' = born + 1
    /\ cur' = born'
    /\ \E made \in BOOLEAN : executor' = [executor EXCEPT ![born'] = made]
    /\ UNCHANGED <<isSending, task, submits, notes, transaction, bound, kills>>

(* onCreate removes every notification and makes a new executor, unless an *)
(* exception ends it before; that is swallowed, and the instance accepts   *)
(* connections all the same.                                               *)
OnCreate ==
    /\ cur = 0
    /\ born < MaxInstances
    /\ born' = born + 1
    /\ cur' = born'
    /\ notes' = {}
    /\ \E made \in BOOLEAN : executor' = [executor EXCEPT ![born'] = made]
    /\ UNCHANGED <<isSending, task, submits, transaction, bound, kills>>

(* onDestroy removes every notification; the executor keeps running.  The  *)
(* connections that are still waiting for the instance die with it.        *)
OnDestroy ==
    /\ cur # 0
    /\ cur' = 0
    /\ notes' = {}
    /\ bound' = [c \in Clients |-> "no"]
    /\ UNCHANGED <<born, isSending, executor, task, submits, transaction, kills>>

(* onPeerDisconnected removes every notification, whoever posted it.       *)
OnPeerDisconnected ==
    /\ cur # 0
    /\ notes # {}
    /\ notes' = {}
    /\ UNCHANGED <<cur, born, isSending, executor, task, submits, transaction, bound,
                   kills>>

(* Mutant: isSending is set without being compared.                        *)
AcceptAlways(t) ==
    /\ isSending' = [isSending EXCEPT ![cur] = TRUE]
    /\ task' = [task EXCEPT ![t] = [step |-> "queued", inst |-> cur]]
    /\ submits' = [submits EXCEPT ![t] = @ + 1]

(* broadcastCoinSpendTransactionSync; refused while isSending is set.  The *)
(* flag is set before the task is submitted, which throws without an       *)
(* executor; the screen catches the exception.                             *)
Accept(t) ==
    /\ ~isSending[cur]
    /\ isSending' = [isSending EXCEPT ![cur] = TRUE]
    /\ task' = [task EXCEPT ![t] =
                   [step |-> IF executor[cur] THEN "queued" ELSE "rejected", inst |-> cur]]
    /\ submits' = [submits EXCEPT ![t] = @ + 1]

Refuse ==
    /\ isSending[cur]
    /\ UNCHANGED <<isSending, task, submits>>

----------------------------------------------------------------------------
(* The activities.                                                         *)

(* The user confirms the dialog (and, sending, the PIN); connectToService  *)
(* binds without creating the service.                                     *)
Confirm(c, t) ==
    /\ submits[t] = 0 /\ \A d \in Clients : transaction[d] # t
    /\ transaction' = [transaction EXCEPT ![c] = t]
    /\ bound' = [bound EXCEPT ![c] = "pending"]
    /\ UNCHANGED <<cur, born, isSending, executor, task, submits, notes, kills>>

(* Mutant: the connection is kept, so that Android calls again when it has *)
(* a new service.                                                          *)
OnServiceConnectedKept(c) ==
    /\ cur # 0
    /\ bound[c] = "pending"
    /\ transaction[c] # NoTx
    /\ Accept(transaction[c]) \/ Refuse
    /\ UNCHANGED <<cur, born, executor, notes, transaction, bound, kills>>

(* Mutant: the connection is marked as bound and never given up.           *)
OnServiceConnectedBound(c) ==
    /\ cur # 0
    /\ bound[c] = "pending"
    /\ transaction[c] # NoTx
    /\ Accept(transaction[c]) \/ Refuse
    /\ bound' = [bound EXCEPT ![c] = "bound"]
    /\ UNCHANGED <<cur, born, executor, notes, transaction, kills>>

(* onServiceConnected: the convert screen forgets the transaction before   *)
(* it hands it over, the send screen keeps it; both unbind at the end.     *)
OnServiceConnected(c) ==
    /\ cur # 0
    /\ bound[c] = "pending"
    /\ transaction[c] # NoTx
    /\ Accept(transaction[c]) \/ Refuse
    /\ bound' = [bound EXCEPT ![c] = "no"]
    /\ transaction' = IF c = "convert"
                      THEN [transaction EXCEPT ![c] = NoTx]
                      ELSE transaction
    /\ UNCHANGED <<cur, born, executor, notes, kills>>

(* The activity is destroyed; Android drops the connection it leaves.      *)
Leave(c) ==
    /\ transaction[c] # NoTx \/ bound[c] # "no"
    /\ transaction' = [transaction EXCEPT ![c] = NoTx]
    /\ bound' = [bound EXCEPT ![c] = "no"]
    /\ UNCHANGED <<cur, born, isSending, executor, task, submits, notes, kills>>

----------------------------------------------------------------------------
(* The spend task, on a thread of the executor of its instance.            *)

Advance(t, from, to) ==
    /\ task[t].step = from
    /\ task' = [task EXCEPT ![t].step = to]
    /\ UNCHANGED <<cur, born, executor, submits, transaction, bound, kills>>

Release(t) == isSending' = [isSending EXCEPT ![task[t].inst] = FALSE]

(* A thread of the pool is free for the queued task t.                     *)
ThreadFor(t) ==
    Cardinality({u \in Tx : task[u].inst = task[t].inst
                               /\ task[u].step \in Showing}) < PoolSize

(* The task starts and shows the ongoing notification.                     *)
Launch(t) ==
    /\ ThreadFor(t)
    /\ Advance(t, "queued", "launched")
    /\ notes' = notes \cup {"spending"}
    /\ UNCHANGED isSending

(* spendZpiv returns; the broadcast and the notification of the result.    *)
SpendSucceeds(t) ==
    /\ Advance(t, "launched", "spent")
    /\ notes' = notes \cup {"sentCompleted"}
    /\ UNCHANGED isSending

SentRelease(t) ==
    /\ Advance(t, "spent", "sentFree")
    /\ Release(t)
    /\ UNCHANGED notes

SentStopNotification(t) ==
    /\ Advance(t, "sentFree", "sent")
    /\ notes' = notes \ {"spending"}
    /\ UNCHANGED isSending

(* Reading the accumulators or spendZpiv throws.                           *)
SpendThrows(t) ==
    /\ \/ ThreadFor(t) /\ Advance(t, "queued", "threw")
       \/ Advance(t, "launched", "threw")
    /\ UNCHANGED <<isSending, notes>>

(* An Error passes by every handler of the task, and with it the release   *)
(* of the flag and the removal of the notification.                        *)
TaskErrs(t) ==
    /\ \/ ThreadFor(t) /\ Advance(t, "queued", "aborted")
       \/ Advance(t, "launched", "stranded")
    /\ UNCHANGED <<isSending, notes>>

(* Mutant: only the successful end resets isSending.                       *)
FailHolds(t) ==
    /\ Advance(t, "threw", "failFree")
    /\ UNCHANGED <<isSending, notes>>

FailRelease(t) ==
    /\ Advance(t, "threw", "failFree")
    /\ Release(t)
    /\ UNCHANGED notes

FailStopNotification(t) ==
    /\ Advance(t, "failFree", "failQuiet")
    /\ notes' = notes \ {"spending"}
    /\ UNCHANGED isSending

(* Mutant: the failure is reported through the service that lives.         *)
FailTellAlive(t) ==
    /\ task[t].inst = cur
    /\ Advance(t, "failQuiet", "failTold")
    /\ notes' = notes \cup {"sendFailed"}
    /\ UNCHANGED isSending

FailTell(t) ==
    /\ Advance(t, "failQuiet", "failTold")
    /\ notes' = notes \cup {"sendFailed"}
    /\ UNCHANGED isSending

(* "Do it twice just for android issues."                                  *)
FailStopAgain(t) ==
    /\ Advance(t, "failTold", "failed")
    /\ notes' = notes \ {"spending"}
    /\ UNCHANGED isSending

TaskStep(t) ==
    \/ Launch(t)
    \/ SpendSucceeds(t) \/ SentRelease(t) \/ SentStopNotification(t)
    \/ SpendThrows(t) \/ FailRelease(t) \/ FailStopNotification(t)
    \/ FailTell(t) \/ FailStopAgain(t)
    \/ TaskErrs(t)

----------------------------------------------------------------------------
(* The process dies: the tasks are lost, what is on the screen stays.      *)
Kill ==
    /\ kills < MaxKills
    /\ kills' = kills + 1
    /\ cur' = 0
    /\ isSending' = [i \in Instance |-> FALSE]
    /\ task' = [t \in Tx |-> IF task[t].step \in Ended
                             THEN task[t]
                             ELSE [task[t] EXCEPT !.step = "lost"]]
    /\ transaction' = [c \in Clients |-> NoTx]
    /\ bound' = [c \in Clients |-> "no"]
    /\ UNCHANGED <<born, executor, submits, notes>>

Next ==
    \/ OnCreate \/ OnDestroy \/ OnPeerDisconnected
    \/ \E c \in Clients, t \in Tx : Confirm(c, t)
    \/ \E c \in Clients : OnServiceConnected(c) \/ Leave(c)
    \/ \E t \in Tx : TaskStep(t)
    \/ Kill

Spec == Init /\ [][Next]_vars

(* A thread of the executor keeps running its task, and spendZpiv returns  *)
(* or fails; nothing is assumed of the user, of Android or of the peers.  *)
FairSpec == Spec /\ \A t \in Tx : WF_vars(TaskStep(t))

----------------------------------------------------------------------------
TypeOK ==
    /\ cur \in 0..MaxInstances /\ born \in 0..MaxInstances /\ kills \in 0..MaxKills
    /\ isSending \in [Instance -> BOOLEAN]
    /\ executor \in [Instance -> BOOLEAN]
    /\ task \in [Tx -> [step : Step, inst : 0..MaxInstances]]
    /\ submits \in [Tx -> Nat]
    /\ notes \subseteq {"spending", "sentCompleted", "sendFailed"}
    /\ transaction \in [Clients -> Tx \cup {NoTx}]
    /\ bound \in [Clients -> {"no", "pending"}]

(* isSending does its work within one instance: two spends of the same     *)
(* instance are never between their acceptance and the end of spendZpiv,   *)
(* although two tasks of it may well run at once.                          *)
OneSpendPerInstance ==
    \A t, u \in Tx :
        /\ task[t].step \in Holding /\ task[u].step \in Holding
        /\ task[t].inst = task[u].inst
        => t = u

(* A confirmed transaction is handed to a spend at most once, although the *)
(* send screen keeps it and services come and go under the screen.         *)
SubmittedOnce == \A t \in Tx : submits[t] <= 1

(* While a service lives, the ongoing notification "Spending zPIV process" *)
(* is backed by a task that will still remove it: neither the overlapping  *)
(* end of an earlier spend nor the death of the process leaves it behind,  *)
(* only an Error that ended the task which had shown it.                   *)
NoStuckNotification ==
    "spending" \in notes /\ cur # 0
        => \E t \in Tx : task[t].step \in Showing \cup {"stranded"}

(* The instance i is left with its flag set.                               *)
Leaked(i) == \E t \in Tx : task[t].inst = i /\ task[t].step \in Leaking

(* The flag does not stay set: an instance that accepted a spend accepts   *)
(* another one sometime, whether the spend succeeds or throws an exception *)
(* - but for the two ways in which the code leaves it set for good: an     *)
(* instance without an executor, and an Error in the task.                 *)
SendingIsReleased ==
    \A i \in Instance : isSending[i] ~> ~isSending[i] \/ Leaked(i)

(* Every spend that reached the executor is finished: the user learns that *)
(* it was sent or that it failed, unless the process dies or an Error ends *)
(* the task in silence.                                                    *)
SpendIsSettled ==
    \A t \in Tx : task[t].step = "queued"
        ~> task[t].step \in {"sent", "failed", "lost", "aborted", "stranded"}

----------------------------------------------------------------------------
(* The statuses of the contract that the steps of a task stand for.        *)
StatusOf(step) ==
    CASE step = "none"                                             -> "new"
      [] step \in Holding                                          -> "spending"
      [] step \in {"sentFree", "failFree", "failQuiet", "failTold"} -> "closing"
      [] OTHER                                                     -> step

Mapped == [t \in Tx |-> [status |-> StatusOf(task[t].step), by |-> task[t].inst]]

Contract == INSTANCE SpendContract WITH spend <- Mapped

(* The task, the flag of the instance, the connections of the two screens  *)
(* and the restarts of the service together keep what SpendContract says.  *)
KeepsContract == Contract!Spec
=============================================================================
