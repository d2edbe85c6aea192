------------------------- MODULE SpendProcessProofs -------------------------
(***************************************************************************)
(* Proofs about SpendProcess, for every set of transactions and every      *)
(* number of service instances and of deaths of the process.               *)
(***************************************************************************)
EXTENDS SpendProcess, TLAPS

(* A task before the end of its spend holds the flag of its own instance.  *)
HolderSetsFlag ==
    \A t \in Tx : task[t].step \in Holding
        => task[t].inst \in Instance /\ isSending[task[t].inst]

(* A screen that waits for the service waits with a transaction that was   *)
(* never submitted, and two screens never hold the same transaction.       *)
PendingIsFresh ==
    \A c \in Clients : bound[c] = "pending"
        => transaction[c] \in Tx /\ submits[transaction[c]] = 0

ScreensDiffer ==
    \A c, d \in Clients : transaction[c] = transaction[d] /\ c # d
        => transaction[c] = NoTx

SendingInv == TypeOK /\ HolderSetsFlag /\ OneSpendPerInstance

SubmitInv == TypeOK /\ PendingIsFresh /\ ScreensDiffer /\ SubmittedOnce

----------------------------------------------------------------------------
(* What one statement of a spend task does to the variables.               *)
LEMMA TaskEffect ==
    ASSUME NEW t \in Tx, TypeOK, TaskStep(t)
    PROVE  /\ \E to \in Step : task' = [task EXCEPT ![t].step = to]
           /\ task'[t].step \in Holding => task[t].step \in Holding
           /\ \/ isSending' = isSending
              \/ /\ isSending' = [isSending EXCEPT ![task[t].inst] = FALSE]
                 /\ task[t].step \in Holding
                 /\ task'[t].step \notin Holding
           /\ UNCHANGED <<cur, born, executor, submits, transaction, bound, kills>>
BY DEF TaskStep, Launch, SpendSucceeds, SentRelease, SentStopNotification, SpendThrows,
       FailRelease, FailStopNotification, FailTell, FailStopAgain, TaskErrs, Advance,
       Release, TypeOK, Step, Holding, Releasing, Leaking

(* Every action of the model is one of these, or a stuttering step.        *)
LEMMA TypeStep ==
    ASSUME TypeOK, [Next]_vars
    PROVE  TypeOK'
<1>. USE SpendAssumption DEF TypeOK, Instance
<1>1. CASE OnCreate
  BY <1>1 DEF OnCreate
<1>2. CASE OnDestroy \/ OnPeerDisconnected
  BY <1>2 DEF OnDestroy, OnPeerDisconnected
<1>3. ASSUME NEW c \in Clients, NEW t \in Tx, Confirm(c, t) PROVE TypeOK'
  BY <1>3 DEF Confirm
<1>4. ASSUME NEW c \in Clients, OnServiceConnected(c) PROVE TypeOK'
  <2>1. CASE Refuse
    BY <1>4, <2>1 DEF OnServiceConnected, Refuse
  <2>2. CASE Accept(transaction[c])
    BY <1>4, <2>2 DEF OnServiceConnected, Accept, Step
  <2>. QED
    BY <1>4, <2>1, <2>2 DEF OnServiceConnected
<1>5. ASSUME NEW c \in Clients, Leave(c) PROVE TypeOK'
  BY <1>5 DEF Leave
<1>6. ASSUME NEW t \in Tx, TaskStep(t) PROVE TypeOK'
  <2>1. notes' \subseteq {"spending", "sentCompleted", "sendFailed"}
    BY <1>6 DEF TaskStep, Launch, SpendSucceeds, SentRelease, SentStopNotification,
                SpendThrows, FailRelease, FailStopNotification, FailTell, FailStopAgain,
                TaskErrs
  <2>2. PICK to \in Step : task' = [task EXCEPT ![t].step = to]
    BY <1>6, TaskEffect
  <2>4. [task[t] EXCEPT !.step = to] \in [step : Step, inst : 0..MaxInstances]
    OBVIOUS
  <2>5. task' \in [Tx -> [step : Step, inst : 0..MaxInstances]]
    BY <2>2, <2>4
  <2>3. isSending' \in [Instance -> BOOLEAN]
    BY <1>6, TaskEffect
  <2>. QED
    BY <1>6, <2>1, <2>3, <2>5, TaskEffect
<1>7. CASE Kill
  <2>1. ASSUME NEW t \in Tx
        PROVE  [task[t] EXCEPT !.step = "lost"] \in [step : Step, inst : 0..MaxInstances]
    BY DEF Step
  <2>2. task' \in [Tx -> [step : Step, inst : 0..MaxInstances]]
    BY <1>7, <2>1 DEF Kill
  <2>. QED
    BY <1>7, <2>2 DEF Kill
<1>8. CASE UNCHANGED vars
  BY <1>8 DEF vars
<1>. QED
  BY <1>1, <1>2, <1>3, <1>4, <1>5, <1>6, <1>7, <1>8 DEF Next

(* The variables keep their types.                                         *)
THEOREM TypeCorrect == Spec => []TypeOK
<1>1. Init => TypeOK
  BY SpendAssumption DEF Init, TypeOK, Instance, Step
<1>. QED
  BY <1>1, TypeStep, PTL DEF Spec

----------------------------------------------------------------------------
(* isSending is a lock of the instance: every action preserves that its    *)
(* holders set it and that there is at most one of them.                   *)
LEMMA SendingStep ==
    ASSUME SendingInv, [Next]_vars
    PROVE  SendingInv'
<1>. USE DEF SendingInv, HolderSetsFlag, OneSpendPerInstance
<1>1. TypeOK'
  BY TypeStep
<1>2. CASE UNCHANGED <<task, isSending>>
  BY <1>1, <1>2
<1>3. ASSUME NEW c \in Clients, OnServiceConnected(c) PROVE SendingInv'
  <2>1. CASE Refuse
    BY <1>1, <1>2, <2>1 DEF Refuse
  <2>2. CASE Accept(transaction[c])
    <3>1. cur \in Instance /\ transaction[c] \in Tx
      BY <1>3 DEF OnServiceConnected, TypeOK, Instance
    <3>2. \A u \in Tx : task[u].step \in Holding => task[u].inst # cur
      BY <2>2 DEF Accept
    <3>3. HolderSetsFlag'
      BY <2>2, <3>1 DEF Accept, TypeOK
    <3>4. OneSpendPerInstance'
      BY <2>2, <3>1, <3>2 DEF Accept, TypeOK
    <3>. QED
      BY <1>1, <3>3, <3>4
  <2>. QED
    BY <1>3, <2>1, <2>2 DEF OnServiceConnected
<1>4. ASSUME NEW t \in Tx, TaskStep(t) PROVE SendingInv'
  <2>1. \A u \in Tx : u # t => task'[u] = task[u]
    BY <1>4, TaskEffect DEF TypeOK
  <2>2. task'[t].inst = task[t].inst
    BY <1>4, TaskEffect DEF TypeOK
  <2>3. OneSpendPerInstance'
    BY <1>4, <2>1, <2>2, TaskEffect
  <2>4. HolderSetsFlag'
    BY <1>4, <2>1, <2>2, TaskEffect DEF TypeOK
  <2>. QED
    BY <1>1, <2>3, <2>4
<1>5. CASE Kill
  BY <1>1, <1>5 DEF Kill, TypeOK, Holding, Releasing, Leaking, Ended
<1>. QED
  BY <1>2, <1>3, <1>4, <1>5
  DEF Next, vars, OnCreate, OnDestroy, OnPeerDisconnected, Confirm, Leave

(* Two spends of the same instance never run at the same time.             *)
THEOREM OneSpend == Spec => []OneSpendPerInstance
<1>1. Init => SendingInv
  <2>1. Init => TypeOK
    BY SpendAssumption DEF Init, TypeOK, Instance, Step
  <2>. QED
    BY <2>1 DEF Init, SendingInv, HolderSetsFlag, OneSpendPerInstance, Holding, Releasing,
                Leaking
<1>2. SendingInv => OneSpendPerInstance
  BY DEF SendingInv
<1>. QED
  BY <1>1, <1>2, SendingStep, PTL DEF Spec

----------------------------------------------------------------------------
(* Unbinding in onServiceConnected makes a transaction be submitted once.  *)
LEMMA SubmitStep ==
    ASSUME SubmitInv, [Next]_vars
    PROVE  SubmitInv'
<1>. USE DEF SubmitInv, PendingIsFresh, ScreensDiffer, SubmittedOnce
<1>1. TypeOK'
  BY TypeStep
<1>2. CASE UNCHANGED <<submits, transaction, bound>>
  BY <1>1, <1>2
<1>3. CASE OnDestroy \/ Kill
  BY <1>1, <1>3 DEF OnDestroy, Kill
<1>4. ASSUME NEW c \in Clients, NEW t \in Tx, Confirm(c, t) PROVE SubmitInv'
  BY <1>1, <1>4, SpendAssumption DEF Confirm, TypeOK
<1>5. ASSUME NEW c \in Clients, Leave(c) PROVE SubmitInv'
  BY <1>1, <1>5 DEF Leave, TypeOK
<1>6. ASSUME NEW c \in Clients, OnServiceConnected(c) PROVE SubmitInv'
  <2>1. transaction[c] \in Tx /\ submits[transaction[c]] = 0
    BY <1>6 DEF OnServiceConnected
  <2>2. \A d \in Clients : d # c => transaction[d] # transaction[c]
    BY <2>1, SpendAssumption
  <2>3. submits' = submits \/ submits' = [submits EXCEPT ![transaction[c]] = @ + 1]
    BY <1>6 DEF OnServiceConnected, Accept, Refuse
  <2>4. SubmittedOnce'
    BY <2>1, <2>3 DEF TypeOK
  <2>5. /\ bound'[c] = "no"
        /\ \A d \in Clients : d # c => bound'[d] = bound[d] /\ transaction'[d] = transaction[d]
        /\ transaction'[c] \in {transaction[c], NoTx}
    BY <1>6 DEF OnServiceConnected, TypeOK
  <2>6. PendingIsFresh'
    BY <2>1, <2>2, <2>3, <2>5 DEF TypeOK
  <2>7. ScreensDiffer'
    BY <2>5 DEF TypeOK
  <2>. QED
    BY <1>1, <2>4, <2>6, <2>7
<1>7. ASSUME NEW t \in Tx, TaskStep(t) PROVE SubmitInv'
  BY <1>2, <1>7, TaskEffect
<1>. QED
  BY <1>2, <1>3, <1>4, <1>5, <1>6, <1>7
  DEF Next, vars, OnCreate, OnPeerDisconnected

(* No transaction is handed to a spend twice.                              *)
THEOREM SubmittedAtMostOnce == Spec => []SubmittedOnce
<1>1. Init => SubmitInv
  <2>1. Init => TypeOK
    BY SpendAssumption DEF Init, TypeOK, Instance, Step
  <2>. QED
    BY <2>1 DEF Init, SubmitInv, PendingIsFresh, ScreensDiffer, SubmittedOnce
<1>2. SubmitInv => SubmittedOnce
  BY DEF SubmitInv
<1>. QED
  BY <1>1, <1>2, SubmitStep, PTL DEF Spec

----------------------------------------------------------------------------
(* A transaction that was never submitted has no task.                     *)
FreshIsIdle == \A t \in Tx : submits[t] = 0 => task[t].step = "none"

NotificationInv == SubmitInv /\ FreshIsIdle /\ NoStuckNotification

LEMMA FreshStep ==
    ASSUME SubmitInv, FreshIsIdle, [Next]_vars
    PROVE  FreshIsIdle'
<1>. USE DEF SubmitInv, FreshIsIdle
<1>1. CASE UNCHANGED <<submits, task>>
  BY <1>1
<1>2. ASSUME NEW c \in Clients, OnServiceConnected(c) PROVE FreshIsIdle'
  <2>1. CASE Refuse
    BY <1>1, <2>1 DEF Refuse
  <2>2. CASE Accept(transaction[c])
    BY <2>2 DEF Accept, TypeOK
  <2>. QED
    BY <1>2, <2>1, <2>2 DEF OnServiceConnected
<1>3. ASSUME NEW t \in Tx, TaskStep(t) PROVE FreshIsIdle'
  <2>1. task[t].step # "none"
    BY <1>3 DEF TaskStep, Launch, SpendSucceeds, SentRelease, SentStopNotification,
                SpendThrows, FailRelease, FailStopNotification, FailTell,
                FailStopAgain, TaskErrs, Advance
  <2>. QED
    BY <1>3, <2>1, TaskEffect DEF TypeOK
<1>4. CASE Kill
  BY <1>4 DEF Kill, Ended, TypeOK
<1>. QED
  BY <1>1, <1>2, <1>3, <1>4
  DEF Next, vars, OnCreate, OnDestroy, OnPeerDisconnected, Confirm, Leave

(* The statement that ends a task removes the ongoing notification, and    *)
(* the creation of a service removes what a dead process left.             *)
LEMMA NotificationStep ==
    ASSUME NotificationInv, [Next]_vars
    PROVE  NoStuckNotification'
<1>. USE DEF NotificationInv, SubmitInv, NoStuckNotification
<1>1. CASE UNCHANGED <<notes, cur, task>>
  BY <1>1
<1>2. CASE OnCreate \/ OnDestroy \/ OnPeerDisconnected \/ Kill
  BY <1>2 DEF OnCreate, OnDestroy, OnPeerDisconnected, Kill
<1>3. ASSUME NEW c \in Clients, OnServiceConnected(c) PROVE NoStuckNotification'
  <2>1. CASE Refuse
    BY <1>1, <1>3, <2>1 DEF OnServiceConnected, Refuse
  <2>2. CASE Accept(transaction[c])
    <3>1. task[transaction[c]].step = "none"
      BY <1>3 DEF OnServiceConnected, PendingIsFresh, FreshIsIdle
    <3>2. \A u \in Tx : u # transaction[c] => task'[u] = task[u]
      BY <2>2 DEF Accept, TypeOK
    <3>3. \A u \in Tx : task[u].step \in Showing \cup {"stranded"} => u # transaction[c]
      BY <3>1 DEF Showing
    <3>4. UNCHANGED <<notes, cur>>
      BY <1>3 DEF OnServiceConnected
    <3>. QED
      BY <3>2, <3>3, <3>4
  <2>. QED
    BY <1>3, <2>1, <2>2 DEF OnServiceConnected
<1>4. ASSUME NEW t \in Tx, TaskStep(t) PROVE NoStuckNotification'
  <2>1. \A u \in Tx : u # t => task'[u] = task[u]
    BY <1>4, TaskEffect DEF TypeOK
  <2>2. \/ "spending" \notin notes'
        \/ task'[t].step \in Showing \cup {"stranded"}
        \/ notes' = notes /\ task[t].step = "queued"
    BY <1>4 DEF TaskStep, Launch, SpendSucceeds, SentRelease, SentStopNotification,
                SpendThrows, FailRelease, FailStopNotification, FailTell, FailStopAgain,
                TaskErrs, Advance, Showing, TypeOK
  <2>3. UNCHANGED cur
    BY <1>4, TaskEffect
  <2>. QED
    BY <2>1, <2>2, <2>3 DEF Showing
<1>. QED
  BY <1>1, <1>2, <1>3, <1>4 DEF Next, vars, Confirm, Leave

(* While a service lives, a task stands behind the ongoing notification.   *)
THEOREM NotificationBacked == Spec => []NoStuckNotification
<1>1. Init => NotificationInv
  <2>1. Init => TypeOK
    BY SpendAssumption DEF Init, TypeOK, Instance, Step
  <2>. QED
    BY <2>1 DEF Init, NotificationInv, SubmitInv, PendingIsFresh, ScreensDiffer,
                SubmittedOnce, FreshIsIdle, NoStuckNotification
<1>2. NotificationInv /\ [Next]_vars => NotificationInv'
  BY SubmitStep, FreshStep, NotificationStep DEF NotificationInv
<1>3. NotificationInv => NoStuckNotification
  BY DEF NotificationInv
<1>. QED
  BY <1>1, <1>2, <1>3, PTL DEF Spec

----------------------------------------------------------------------------
(* The invariant under which every step of the detailed specification is a *)
(* step of the contract.                                                   *)
ContractInv == SendingInv /\ SubmitInv /\ FreshIsIdle

LEMMA StatusTable ==
    /\ StatusOf("none") = "new"
    /\ \A step \in Holding : StatusOf(step) = "spending"
    /\ \A step \in {"sentFree", "failFree", "failQuiet", "failTold"} :
          StatusOf(step) = "closing"
    /\ \A step \in {"sent", "failed", "lost"} : StatusOf(step) = step
BY DEF StatusOf, Holding, Releasing, Leaking

(* Accepting a spend takes it on: the transaction is new, and the flag of  *)
(* the instance keeps every other spend of it out.                         *)
LEMMA AcceptTakesOn ==
    ASSUME ContractInv, NEW c \in Clients, OnServiceConnected(c), Accept(transaction[c])
    PROVE  Contract!TakeOn(transaction[c], cur)
<1>. DEFINE t == transaction[c]
<1>1. t \in Tx /\ cur \in Instance /\ task[t].step = "none"
  BY DEF ContractInv, SubmitInv, PendingIsFresh, FreshIsIdle, OnServiceConnected, TypeOK,
         Instance
<1>2. Mapped[t].status = "new"
  BY <1>1, StatusTable DEF Mapped
<1>3. \A u \in Tx : StatusOf(task[u].step) = "spending" => task[u].step \in Holding
  BY DEF StatusOf, ContractInv, SendingInv, TypeOK, Step, Holding, Releasing, Leaking
<1>4. \A u \in Tx : ~(Mapped[u].status = "spending" /\ Mapped[u].by = cur)
  BY <1>3 DEF Mapped, ContractInv, SendingInv, HolderSetsFlag, Accept
<1>. DEFINE first == IF executor[cur] THEN "queued" ELSE "rejected"
<1>5. task' = [task EXCEPT ![t] = [step |-> first, inst |-> cur]]
  BY DEF Accept
<1>6. StatusOf(first) = "spending"
  BY StatusTable DEF Holding, Releasing, Leaking
<1>7. Mapped' = [Mapped EXCEPT ![t] = [status |-> "spending", by |-> cur]]
  BY <1>1, <1>5, <1>6 DEF Mapped, ContractInv, SendingInv, TypeOK
<1>. QED
  BY <1>2, <1>4, <1>7 DEF Contract!TakeOn, Mapped

(* A statement of a task that moves it from one step to another changes    *)
(* only the status of its transaction.                                     *)
LEMMA AdvanceMaps ==
    ASSUME TypeOK, NEW t \in Tx, NEW from \in Step, NEW to \in Step, Advance(t, from, to)
    PROVE  /\ Mapped[t].status = StatusOf(from)
           /\ Mapped' = [Mapped EXCEPT ![t].status = StatusOf(to)]
           /\ StatusOf(from) = StatusOf(to) => Mapped' = Mapped
<1>1. task' = [task EXCEPT ![t].step = to] /\ task[t].step = from
  BY DEF Advance
<1>2. Mapped[t].status = StatusOf(from)
  BY <1>1 DEF Mapped
<1>3. \A u \in Tx : task'[u] = IF u = t THEN [task[u] EXCEPT !.step = to] ELSE task[u]
  BY <1>1 DEF TypeOK
<1>4. \A u \in Tx : task[u] = [step |-> task[u].step, inst |-> task[u].inst]
  BY DEF TypeOK
<1>5. \A u \in Tx : /\ task'[u].inst = task[u].inst
                    /\ task'[u].step = IF u = t THEN to ELSE task[u].step
  BY <1>3, <1>4
<1>6. Mapped' = [u \in Tx |-> [status |-> IF u = t THEN StatusOf(to)
                                          ELSE StatusOf(task[u].step),
                               by |-> task[u].inst]]
  BY <1>5 DEF Mapped
<1>7. StatusOf(from) = StatusOf(to) => Mapped' = Mapped
  BY <1>1, <1>6 DEF Mapped
<1>. QED
  BY <1>2, <1>6, <1>7 DEF Mapped

LEMMA TaskKeepsContract ==
    ASSUME TypeOK, NEW t \in Tx, TaskStep(t)
    PROVE  Contract!Next \/ Mapped' = Mapped
<1>. USE DEF Holding, Releasing, Leaking, Step
<1>1. ASSUME NEW from \in Holding, NEW to \in Holding, Advance(t, from, to)
      PROVE  Mapped' = Mapped
  <2>1. from \in Step /\ to \in Step /\ StatusOf(from) = StatusOf(to)
    BY StatusTable
  <2>. QED
    BY <1>1, <2>1, AdvanceMaps
<1>2. CASE Advance(t, "spent", "sentFree") \/ Advance(t, "threw", "failFree")
  <2>1. Mapped[t].status = "spending" /\ Mapped' = [Mapped EXCEPT ![t].status = "closing"]
    BY <1>2, AdvanceMaps, StatusTable
  <2>2. Contract!Release(t)
    BY <2>1 DEF Contract!Release
  <2>. QED
    BY <2>2 DEF Contract!Next
<1>3. CASE Advance(t, "failFree", "failQuiet") \/ Advance(t, "failQuiet", "failTold")
  BY <1>3, AdvanceMaps, StatusTable
<1>4. ASSUME NEW from \in {"sentFree", "failTold"}, NEW to \in {"sent", "failed"},
             Advance(t, from, to)
      PROVE  Contract!Next
  <2>1. Mapped[t].status = "closing" /\ Mapped' = [Mapped EXCEPT ![t].status = to]
    BY <1>4, AdvanceMaps, StatusTable
  <2>2. Contract!Conclude(t)
    BY <2>1 DEF Contract!Conclude
  <2>. QED
    BY <2>2 DEF Contract!Next
<1>. QED
  BY <1>1, <1>2, <1>3, <1>4
  DEF TaskStep, Launch, SpendSucceeds, SentRelease, SentStopNotification, SpendThrows,
      FailRelease, FailStopNotification, FailTell, FailStopAgain, TaskErrs

(* The death of the process loses exactly what is not concluded.           *)
LEMMA KillIsDie == ASSUME TypeOK, Kill PROVE Contract!Die
<1>1. \A t \in Tx : task'[t].inst = task[t].inst
                    /\ task'[t].step = IF task[t].step \in Ended THEN task[t].step ELSE "lost"
  BY DEF Kill, TypeOK
<1>2. \A t \in Tx : task[t].step \in Ended
                      <=> StatusOf(task[t].step) \notin {"spending", "closing"}
  BY DEF TypeOK, StatusOf, Ended, Holding, Releasing, Leaking, Step
<1>3. StatusOf("lost") = "lost"
  BY StatusTable
<1>4. Mapped' = [t \in Tx |-> IF Mapped[t].status \in {"spending", "closing"}
                              THEN [Mapped[t] EXCEPT !.status = "lost"]
                              ELSE Mapped[t]]
  BY <1>1, <1>2, <1>3 DEF Mapped
<1>. QED
  BY <1>4 DEF Contract!Die, Mapped

LEMMA StepKeepsContract ==
    ASSUME ContractInv, [Next]_vars
    PROVE  Contract!Next \/ Mapped' = Mapped
<1>. USE DEF ContractInv, SendingInv
<1>1. CASE UNCHANGED task
  BY <1>1 DEF Mapped
<1>2. ASSUME NEW c \in Clients, OnServiceConnected(c)
      PROVE  Contract!Next \/ Mapped' = Mapped
  <2>1. CASE Refuse
    BY <1>1, <2>1 DEF Refuse
  <2>2. CASE Accept(transaction[c])
    <3>1. transaction[c] \in Tx /\ cur \in Instance
      BY <1>2 DEF OnServiceConnected, TypeOK, Instance
    <3>. QED
      BY <1>2, <2>2, <3>1, AcceptTakesOn DEF Contract!Next
  <2>. QED
    BY <1>2, <2>1, <2>2 DEF OnServiceConnected
<1>3. ASSUME NEW t \in Tx, TaskStep(t) PROVE Contract!Next \/ Mapped' = Mapped
  BY <1>3, TaskKeepsContract
<1>4. CASE Kill
  BY <1>4, KillIsDie DEF Contract!Next
<1>. QED
  BY <1>1, <1>2, <1>3, <1>4
  DEF Next, vars, OnCreate, OnDestroy, OnPeerDisconnected, Confirm, Leave

(* SpendProcess implements SpendContract, for every set of transactions,   *)
(* any number of instances and of deaths.                                  *)
THEOREM Implements == Spec => KeepsContract
<1>1. Init => ContractInv
  <2>1. Init => TypeOK
    BY SpendAssumption DEF Init, TypeOK, Instance, Step
  <2>. QED
    BY <2>1 DEF Init, ContractInv, SendingInv, SubmitInv, PendingIsFresh, ScreensDiffer,
                SubmittedOnce, FreshIsIdle, HolderSetsFlag, OneSpendPerInstance, Holding,
                Releasing, Leaking
<1>2. ContractInv /\ [Next]_vars => ContractInv'
  BY SendingStep, SubmitStep, FreshStep DEF ContractInv
<1>3. Init => Contract!Init
  BY StatusTable DEF Mapped, Init, Contract!Init, Contract!NoInstance
<1>4. ContractInv /\ [Next]_vars => [Contract!Next]_Mapped
  BY StepKeepsContract
<1>. QED
  BY <1>1, <1>2, <1>3, <1>4, PTL DEF Spec, KeepsContract, Contract!Spec

----------------------------------------------------------------------------
(* What fairness has to build on.  A flag that is set has a task that will *)
(* reset it, or one of the two ways out that the code leaves open: there   *)
(* was no executor to take the task, or an Error ended the task.  No       *)
(* death, destruction or end of another task leaves a flag set besides.    *)
FlagIsHeld ==
    \A i \in Instance : isSending[i] =>
        \E t \in Tx :
            /\ task[t].inst = i
            /\ \/ task[t].step \in Releasing
               \/ task[t].step \in {"aborted", "stranded"}
               \/ task[t].step = "rejected" /\ ~executor[i]

(* The weaker fact that the steps keep: the flag has a holder.             *)
FlagHasHolder ==
    \A i \in Instance : isSending[i] =>
        \E t \in Tx : task[t].step \in Holding /\ task[t].inst = i

(* Only an instance without an executor throws a task back, and what an    *)
(* instance has got by its creation it keeps.                              *)
RejectedWithout ==
    /\ cur <= born
    /\ \A t \in Tx : task[t].inst <= born
    /\ \A t \in Tx : task[t].step = "rejected"
                        => task[t].inst \in Instance /\ ~executor[task[t].inst]

HeldInv == ContractInv /\ FlagHasHolder /\ RejectedWithout

LEMMA HolderStep ==
    ASSUME HeldInv, [Next]_vars
    PROVE  FlagHasHolder'
<1>. USE DEF HeldInv, ContractInv, SendingInv, SubmitInv, FlagHasHolder
<1>1. CASE UNCHANGED <<task, isSending>>
  BY <1>1
<1>2. ASSUME NEW c \in Clients, OnServiceConnected(c) PROVE FlagHasHolder'
  <2>1. CASE Refuse
    BY <1>1, <2>1 DEF Refuse
  <2>2. CASE Accept(transaction[c])
    <3>. DEFINE new == transaction[c]
                first == IF executor[cur] THEN "queued" ELSE "rejected"
    <3>1. new \in Tx /\ cur \in Instance /\ task[new].step = "none"
      BY <1>2 DEF OnServiceConnected, PendingIsFresh, FreshIsIdle, TypeOK, Instance
    <3>2. /\ task'[new] = [step |-> first, inst |-> cur]
          /\ \A u \in Tx : u # new => task'[u] = task[u]
          /\ \A i \in Instance : isSending'[i] => i = cur \/ isSending[i]
      BY <2>2, <3>1 DEF Accept, TypeOK
    <3>3. \A u \in Tx : task[u].step \in Holding => u # new
      BY <3>1 DEF Holding, Releasing, Leaking
    <3>4. first \in Holding
      BY DEF Holding, Releasing, Leaking
    <3>. HIDE DEF new, first
    <3>. QED
      BY <3>1, <3>2, <3>3, <3>4
  <2>. QED
    BY <1>2, <2>1, <2>2 DEF OnServiceConnected
<1>3. ASSUME NEW t \in Tx, TaskStep(t) PROVE FlagHasHolder'
  <2>1. /\ \A u \in Tx : u # t => task'[u] = task[u]
        /\ task'[t].inst = task[t].inst
    BY <1>3, TaskEffect DEF TypeOK
  <2>2. CASE isSending' = [isSending EXCEPT ![task[t].inst] = FALSE] /\ task[t].step \in Holding
    <3>1. task[t].inst \in Instance
      BY <2>2 DEF HolderSetsFlag
    <3>2. \A i \in Instance : isSending'[i] => i # task[t].inst /\ isSending[i]
      BY <2>2, <3>1 DEF TypeOK
    <3>. QED
      BY <2>1, <3>2
  <2>3. CASE isSending' = isSending /\ (task[t].step \in Holding => task'[t].step \in Holding)
    BY <2>1, <2>3
  <2>4. \/ Release(t) /\ task[t].step \in Holding
        \/ isSending' = isSending /\ (task[t].step \in Holding => task'[t].step \in Holding)
    BY <1>3 DEF TaskStep, Launch, SpendSucceeds, SentRelease, SentStopNotification,
                SpendThrows, FailRelease, FailStopNotification, FailTell, FailStopAgain,
                TaskErrs, Advance, Holding, Releasing, Leaking, TypeOK
  <2>. QED
    BY <2>2, <2>3, <2>4 DEF Release
<1>4. CASE Kill
  BY <1>4 DEF Kill
<1>. QED
  BY <1>1, <1>2, <1>3, <1>4
  DEF Next, vars, OnCreate, OnDestroy, OnPeerDisconnected, Confirm, Leave

LEMMA RejectedStep ==
    ASSUME HeldInv, [Next]_vars
    PROVE  RejectedWithout'
<1>. USE SpendAssumption
     DEF HeldInv, ContractInv, SendingInv, SubmitInv, RejectedWithout, TypeOK, Instance
<1>1. CASE UNCHANGED <<task, executor, cur, born>>
  BY <1>1
<1>2. CASE OnCreate
  <2>1. \A i \in Instance : i <= born => executor'[i] = executor[i]
    BY <1>2 DEF OnCreate
  <2>. QED
    BY <1>2, <2>1 DEF OnCreate
<1>3. CASE OnDestroy
  BY <1>3 DEF OnDestroy
<1>4. ASSUME NEW c \in Clients, OnServiceConnected(c) PROVE RejectedWithout'
  <2>1. CASE Refuse
    BY <1>1, <1>4, <2>1 DEF OnServiceConnected, Refuse
  <2>2. CASE Accept(transaction[c])
    <3>1. transaction[c] \in Tx /\ cur \in Instance /\ UNCHANGED <<executor, cur, born>>
      BY <1>4 DEF OnServiceConnected
    <3>2. /\ \A u \in Tx : u # transaction[c] => task'[u] = task[u]
          /\ task'[transaction[c]].inst = cur
          /\ task'[transaction[c]].step = "rejected" => ~executor[cur]
      BY <2>2, <3>1 DEF Accept
    <3>. QED
      BY <3>1, <3>2
  <2>. QED
    BY <1>4, <2>1, <2>2 DEF OnServiceConnected
<1>5. ASSUME NEW t \in Tx, TaskStep(t) PROVE RejectedWithout'
  <2>0. PICK to \in Step : task' = [task EXCEPT ![t].step = to]
    BY <1>5, TaskEffect
  <2>1. UNCHANGED <<executor, cur, born>>
    BY <1>5, TaskEffect
  <2>3. /\ task'[t].inst = task[t].inst
        /\ \A u \in Tx : u # t => task'[u] = task[u]
    BY <2>0
  <2>2. task'[t].step # "rejected"
    BY <1>5 DEF TaskStep, Launch, SpendSucceeds, SentRelease, SentStopNotification,
                SpendThrows, FailRelease, FailStopNotification, FailTell, FailStopAgain,
                TaskErrs, Advance
  <2>. QED
    BY <2>1, <2>2, <2>3
<1>6. CASE Kill
  <2>1. \A u \in Tx : /\ task'[u].inst = task[u].inst
                      /\ task'[u].step # "rejected"
    BY <1>6 DEF Kill, Ended
  <2>. QED
    BY <1>6, <2>1 DEF Kill
<1>. QED
  BY <1>1, <1>2, <1>3, <1>4, <1>5, <1>6
  DEF Next, vars, OnPeerDisconnected, Confirm, Leave

(* An instance that refuses a spend has a task that will give the flag     *)
(* back, or lost the flag in one of the two named ways, for any number of  *)
(* instances and deaths; fairness only has to run that task.               *)
THEOREM FlagsAreHeld == Spec => []FlagIsHeld
<1>1. Init => HeldInv
  <2>1. Init => TypeOK
    BY SpendAssumption DEF Init, TypeOK, Instance, Step
  <2>. QED
    BY <2>1 DEF Init, HeldInv, ContractInv, SendingInv, SubmitInv, PendingIsFresh,
                ScreensDiffer, SubmittedOnce, FreshIsIdle, HolderSetsFlag,
                OneSpendPerInstance, Holding, Releasing, Leaking, FlagHasHolder,
                RejectedWithout
<1>2. ContractInv /\ [Next]_vars => ContractInv'
  BY SendingStep, SubmitStep, FreshStep DEF ContractInv
<1>3. HeldInv /\ [Next]_vars => HeldInv'
  BY <1>2, HolderStep, RejectedStep DEF HeldInv
<1>4. HeldInv => FlagIsHeld
  BY DEF HeldInv, FlagHasHolder, RejectedWithout, FlagIsHeld, Holding, Leaking
<1>. QED
  BY <1>1, <1>3, <1>4, PTL DEF Spec
=============================================================================
