------------------------ MODULE WalletServiceProofs ------------------------
(***************************************************************************)
(* Proofs about WalletService, for every value of the two delays, every    *)
(* set of rollback heights, every bound on the queue and every set of      *)
(* faults.                                                                 *)
(***************************************************************************)
EXTENDS WalletService, TLAPS

(* What WakeUpPending needs to be inductive: while the saved schedule lies *)
(* in the future and its alarm was not displaced, that alarm is still      *)
(* pending and does not fire before the schedule has passed.               *)
AlarmCoversSaved ==
    sched.saved > 0 /\ ~sched.displaced => sched.alarm >= sched.saved

(* What OnlyAskedResets needs: a flag of the instance is only set by the   *)
(* request the instance received.                                          *)
FlagsAreAsked ==
    resetOnShutdown \/ resetToHeight # NoHeight => asked

IInv == TypeOK /\ AlarmCoversSaved /\ FlagsAreAsked /\ WakeUpPending

USE DEF NoAlarm, NoHeight, NewSchedule

----------------------------------------------------------------------------
(* Both operators of the schedule return a schedule.                       *)
LEMMA ScheduleTypes ==
    ASSUME NEW s \in Schedule
    PROVE  /\ TryScheduleService(s) \in Schedule
           /\ TryScheduleServiceNow(s) \in Schedule
BY DelayAssumption DEF TryScheduleService, TryScheduleServiceNow, Schedule

(* After tryScheduleService the alarm is pending and covers the saved      *)
(* schedule, unless the schedule it trusted had lost its alarm.            *)
LEMMA ScheduleCovers ==
    ASSUME NEW s \in Schedule,
           s.saved > 0 /\ ~s.displaced => s.alarm >= s.saved
    PROVE  LET t == TryScheduleService(s)
           IN  ~t.displaced => t.alarm # NoAlarm /\ t.alarm >= t.saved
BY DelayAssumption DEF TryScheduleService, Schedule

(* The messages the model puts into the queue are messages.                *)
LEMMA MessageTypes ==
    /\ Create \in Message /\ Stop \in Message
    /\ ScheduleCommand \in Message
    /\ \A cmd \in UserCommand : cmd \in Message
    /\ \A m \in Message : m.action = "rollback" => m.height \in Heights
BY DEF Create, Stop, ScheduleCommand, UserCommand, StartCommand, ResetCommand,
       RollbackCommand, Message, Command

(* A delivered message makes the queue longer and leaves it well typed.    *)
LEMMA DeliverType ==
    ASSUME inbox \in Seq(Message), NEW cmd \in Message
    PROVE  Deliver(cmd) \in Seq(Message) /\ Deliver(cmd) # <<>>
<1>1. <<cmd>> \in Seq(Message) /\ <<Create, cmd>> \in Seq(Message)
  BY MessageTypes
<1>. DEFINE tail == IF Recorded THEN <<cmd>> ELSE <<Create, cmd>>
<1>2. tail \in Seq(Message) /\ Len(tail) > 0
  BY <1>1
<1>. HIDE DEF tail
<1>3. inbox \o tail \in Seq(Message) /\ Len(inbox \o tail) > 0
  BY <1>2
<1>. QED
  BY <1>3 DEF Deliver, tail

(* Every outcome of check() leaves a schedule; it never clears the mark    *)
(* that the periodic alarm was displaced.                                  *)
LEMMA CheckSchedule ==
    ASSUME sched \in Schedule, AlarmCoversSaved, Check
    PROVE  sched' \in Schedule /\ AlarmCoversSaved'
BY DelayAssumption DEF Check, AlarmCoversSaved, TryScheduleServiceNow, Schedule

----------------------------------------------------------------------------
(* The invariant holds initially.                                          *)
LEMMA InitIInv == Init => IInv
<1>. SUFFICES ASSUME Init PROVE IInv
  OBVIOUS
<1>. USE DEF Init
<1>1. inbox \in Seq(Message)
  OBVIOUS
<1>2. sched \in Schedule
  BY DEF Schedule
<1>3. TypeOK
  BY <1>1, <1>2 DEF TypeOK
<1>4. AlarmCoversSaved /\ FlagsAreAsked /\ WakeUpPending
  BY DEF AlarmCoversSaved, FlagsAreAsked, WakeUpPending
<1>. QED
  BY <1>3, <1>4 DEF IInv

(* The message at the head of the queue is removed.                        *)
LEMMA TailType ==
    ASSUME inbox \in Seq(Message), inbox # <<>>
    PROVE  Tail(inbox) \in Seq(Message) /\ Head(inbox) \in Message
OBVIOUS

(* Each action of the service keeps the types.                             *)
LEMMA StepTypeOK ==
    ASSUME IInv, [Next]_vars
    PROVE  TypeOK'
<1>. USE DEF IInv, TypeOK
<1>1. ASSUME NEW cmd \in UserCommand, StartService(cmd) PROVE TypeOK'
  BY <1>1, DeliverType, MessageTypes DEF StartService
<1>2. CASE CoreStart
  BY <1>2 DEF CoreStart
<1>3. CASE OnCreate
  BY <1>3, TailType, ScheduleTypes DEF OnCreate
<1>4. CASE OnStartCommand
  <2>. DEFINE cmd == Head(inbox)
              rest == Tail(inbox)
  <2>1. rest \in Seq(Message) /\ cmd \in Message
    BY <1>4, TailType DEF OnStartCommand
  <2>2. StopSelf(rest) \in Seq(Message)
    BY <2>1, MessageTypes DEF StopSelf
  <2>3. inbox' \in Seq(Message)
    BY <1>4, <2>1, <2>2 DEF OnStartCommand
  <2>4. sched' \in Schedule
    BY <1>4, CheckSchedule DEF OnStartCommand
  <2>5. resetToHeight' \in Heights \cup {NoHeight}
    BY <1>4, <2>1, MessageTypes DEF OnStartCommand
  <2>. QED
    BY <1>4, <2>3, <2>4, <2>5 DEF OnStartCommand
<1>5. CASE OnDestroy
  BY <1>5, TailType, ScheduleTypes DEF OnDestroy, DestroyBegins, ChainAfterDestroy
<1>6. CASE OnDestroyThrows
  BY <1>6, TailType DEF OnDestroyThrows, DestroyBegins, ChainAfterDestroy
<1>7. CASE OnConnectivity
  BY <1>7, CheckSchedule DEF OnConnectivity
<1>8. CASE AlarmFires
  <2>1. inbox' \in Seq(Message)
    BY <1>8, DeliverType, MessageTypes DEF AlarmFires
  <2>2. sched' \in Schedule
    BY <1>8 DEF AlarmFires, Schedule
  <2>. QED
    BY <1>8, <2>1, <2>2 DEF AlarmFires
<1>9. CASE Tick
  <2>. DEFINE alarm == IF sched.alarm > 0 THEN sched.alarm - 1 ELSE sched.alarm
              saved == IF sched.saved > 0 THEN sched.saved - 1 ELSE sched.saved
  <2>1. alarm \in Nat \cup {NoAlarm} /\ saved \in Nat
    BY DEF Schedule
  <2>2. sched' \in Schedule
    BY <1>9, <2>1 DEF Tick, Schedule
  <2>. QED
    BY <1>9, <2>2 DEF Tick
<1>10. CASE SystemStop
  BY <1>10, MessageTypes DEF SystemStop
<1>11. CASE NewBlocks
  BY <1>11 DEF NewBlocks
<1>12. CASE Kill \/ Reboot
  <2>1. inbox' = <<>>
    BY <1>12 DEF Kill, Reboot, ProcessDies
  <2>2. inbox' \in Seq(Message)
    BY <2>1
  <2>3. sched' \in Schedule
    BY <1>12 DEF Kill, Reboot, Schedule
  <2>. QED
    BY <1>12, <2>2, <2>3 DEF Kill, Reboot, ProcessDies
<1>13. CASE UNCHANGED vars
  BY <1>13 DEF vars
<1>14. CASE AlarmRefused
  BY <1>14 DEF AlarmRefused, Schedule
<1>. QED
  BY <1>1, <1>2, <1>3, <1>4, <1>5, <1>6, <1>7, <1>8, <1>9, <1>10, <1>11, <1>12,
     <1>13, <1>14 DEF Next, MainThread

(* Only the two schedulers, the clock, the alarm and a reboot touch the    *)
(* schedule; each keeps the alarm at or behind the saved schedule, or      *)
(* marks it as displaced.                                                  *)
LEMMA StepAlarm ==
    ASSUME IInv, [Next]_vars
    PROVE  AlarmCoversSaved'
<1>. USE DEF IInv, TypeOK
<1>1. CASE UNCHANGED sched
  BY <1>1 DEF AlarmCoversSaved
<1>2. CASE OnCreate
  BY <1>2, ScheduleCovers DEF OnCreate, AlarmCoversSaved
<1>3. CASE OnStartCommand
  BY <1>3, <1>1, CheckSchedule DEF OnStartCommand
<1>4. CASE OnDestroy
  <2>1. CASE started
    BY <1>4, <2>1, ScheduleCovers DEF OnDestroy, AlarmCoversSaved
  <2>2. CASE ~started
    BY <1>4, <2>2, DelayAssumption
    DEF OnDestroy, AlarmCoversSaved, TryScheduleService, TryScheduleServiceNow, Schedule
  <2>. QED
    BY <2>1, <2>2
<1>5. CASE OnConnectivity
  BY <1>5, CheckSchedule DEF OnConnectivity
<1>6. CASE AlarmFires \/ AlarmRefused
  <2>1. sched.alarm = 0 /\ sched'.saved = sched.saved /\ sched'.displaced = sched.displaced
    BY <1>6 DEF AlarmFires, AlarmRefused, Schedule
  <2>2. sched.saved \in Nat
    BY DEF Schedule
  <2>. QED
    BY <2>1, <2>2 DEF AlarmCoversSaved
<1>7. CASE Tick
  BY <1>7 DEF Tick, AlarmCoversSaved, Schedule
<1>8. CASE Reboot
  BY <1>8 DEF Reboot, AlarmCoversSaved, Schedule
<1>. QED
  BY <1>1, <1>2, <1>3, <1>4, <1>5, <1>6, <1>7, <1>8
  DEF Next, MainThread, vars, StartService, CoreStart, OnDestroyThrows, SystemStop,
      NewBlocks, Kill

(* The flags of the instance follow the requests it received.              *)
LEMMA StepFlags ==
    ASSUME IInv, [Next]_vars
    PROVE  FlagsAreAsked'
<1>. USE DEF IInv, FlagsAreAsked
<1>1. CASE UNCHANGED <<resetOnShutdown, resetToHeight, asked>>
  BY <1>1
<1>2. CASE OnCreate
  BY <1>2 DEF OnCreate
<1>3. CASE OnStartCommand
  BY <1>3 DEF OnStartCommand
<1>4. CASE OnDestroy \/ OnDestroyThrows
  BY <1>4 DEF OnDestroy, OnDestroyThrows, DestroyBegins
<1>5. CASE Kill \/ Reboot
  BY <1>5 DEF Kill, Reboot, ProcessDies
<1>. QED
  BY <1>1, <1>2, <1>3, <1>4, <1>5
  DEF Next, MainThread, vars, StartService, CoreStart, OnConnectivity, AlarmFires,
      AlarmRefused, Tick, SystemStop, NewBlocks

(* No step loses the wake-up of a service that was shut down.              *)
LEMMA StepWakeUp ==
    ASSUME IInv, [Next]_vars
    PROVE  WakeUpPending'
<1>. USE DEF IInv, TypeOK, WakeUpPending
<1>1. CASE UNCHANGED <<svc, inbox, sched, ended>>
  BY <1>1
<1>2. ASSUME NEW cmd \in UserCommand, StartService(cmd) PROVE WakeUpPending'
  BY <1>2, DeliverType, MessageTypes DEF StartService
<1>3. CASE OnCreate
  BY <1>3 DEF OnCreate
<1>4. CASE OnStartCommand
  BY <1>4 DEF OnStartCommand
<1>5. CASE OnDestroy
  <2>1. CASE started
    BY <1>5, <2>1, ScheduleCovers DEF OnDestroy, AlarmCoversSaved
  <2>2. CASE ~started
    BY <1>5, <2>2, DelayAssumption
    DEF OnDestroy, TryScheduleService, TryScheduleServiceNow, Schedule
  <2>. QED
    BY <2>1, <2>2
<1>6. CASE OnDestroyThrows
  BY <1>6 DEF OnDestroyThrows
<1>7. CASE OnConnectivity
  BY <1>7 DEF OnConnectivity
<1>8. CASE AlarmFires
  BY <1>8, DeliverType, MessageTypes DEF AlarmFires
<1>9. CASE AlarmRefused
  BY <1>9 DEF AlarmRefused, Schedule
<1>10. CASE Tick
  BY <1>10 DEF Tick, Schedule
<1>11. CASE SystemStop
  BY <1>11, MessageTypes DEF SystemStop
<1>12. CASE Kill \/ Reboot
  BY <1>12 DEF Kill, Reboot, ProcessDies
<1>. QED
  BY <1>1, <1>2, <1>3, <1>4, <1>5, <1>6, <1>7, <1>8, <1>9, <1>10, <1>11, <1>12
  DEF Next, MainThread, vars, CoreStart, NewBlocks

(* Every reachable state satisfies the inductive invariant.                *)
THEOREM Invariance == Spec => []IInv
<1>1. IInv /\ [Next]_vars => IInv'
  BY StepTypeOK, StepAlarm, StepFlags, StepWakeUp DEF IInv
<1>. QED
  BY InitIInv, <1>1, PTL DEF Spec

(* The variables of the service keep their types.                          *)
THEOREM TypeCorrect == Spec => []TypeOK
<1>1. IInv => TypeOK
  BY DEF IInv
<1>. QED
  BY Invariance, <1>1, PTL

(* A service that was shut down in an orderly way, and whose periodic      *)
(* alarm was not displaced, has its wake-up pending, whatever the delays.  *)
THEOREM WakeUp == Spec => []WakeUpPending
<1>1. IInv => WakeUpPending
  BY DEF IInv
<1>. QED
  BY Invariance, <1>1, PTL

(* Only an instance that received a request erases or rolls back the chain. *)
THEOREM AskedResets == Spec => OnlyAskedResets
<1>1. IInv /\ [Next]_vars => [chain' \notin {chain, "downloaded"} => asked]_vars
  BY DEF IInv, FlagsAreAsked, Next, MainThread, vars, StartService, CoreStart,
         OnCreate, OnStartCommand, OnDestroy, OnDestroyThrows, ChainAfterDestroy,
         OnConnectivity, AlarmFires, AlarmRefused, Tick, SystemStop, NewBlocks, Kill, Reboot,
         ProcessDies
<1>. QED
  BY Invariance, <1>1, PTL DEF Spec, OnlyAskedResets

----------------------------------------------------------------------------
(* What fairness has to build on: as long as the instance that accepted a  *)
(* request lives, the flag is set and the message that destroys it waits   *)
(* in the queue, whatever commands, stops and alarms come in between.      *)
RequestIsKept ==
    asked /\ svc # "none" => resetOnShutdown /\ \E i \in 1..Len(inbox) : inbox[i] = Stop

(* An orderly destruction of an instance that accepted a request, with the *)
(* core started, erases the chain or rolls it back.                        *)
RequestIsCarriedOut ==
    [][OnDestroy /\ asked /\ started => chain' \in {"erased", "rolledBack"}]_vars

(* A message that waits is still there behind a longer queue, and when     *)
(* another one is taken out.                                               *)
LEMMA StopStays ==
    ASSUME inbox \in Seq(Message), NEW i \in 1..Len(inbox), inbox[i] = Stop
    PROVE  /\ \A rest \in Seq(Message) : \E j \in 1..Len(inbox \o rest) : (inbox \o rest)[j] = Stop
           /\ Head(inbox) # Stop
                => \E j \in 1..Len(Tail(inbox)) : Tail(inbox)[j] = Stop
<1>1. ASSUME NEW rest \in Seq(Message)
      PROVE  i \in 1..Len(inbox \o rest) /\ (inbox \o rest)[i] = Stop
  OBVIOUS
<1>2. ASSUME Head(inbox) # Stop
      PROVE  i - 1 \in 1..Len(Tail(inbox)) /\ Tail(inbox)[i - 1] = Stop
  <2>1. i # 1
    BY <1>2
  <2>. QED
    BY <2>1
<1>. QED
  BY <1>1, <1>2

(* stopSelf leaves a stop in the queue.                                    *)
LEMMA StopSelfStops ==
    ASSUME NEW rest \in Seq(Message)
    PROVE  \E j \in 1..Len(StopSelf(rest)) : StopSelf(rest)[j] = Stop
<1>1. CASE Stop \in Range(rest)
  BY <1>1 DEF StopSelf, Range
<1>2. CASE Stop \notin Range(rest)
  <2>1. StopSelf(rest) = Append(rest, Stop)
    BY <1>2 DEF StopSelf
  <2>2. /\ Len(rest) + 1 \in 1..Len(Append(rest, Stop))
        /\ Append(rest, Stop)[Len(rest) + 1] = Stop
    OBVIOUS
  <2>. QED
    BY <2>1, <2>2
<1>. QED
  BY <1>1, <1>2

(* A callback other than onDestroy, and a message that comes in.           *)
LEMMA KeptInQueue ==
    ASSUME IInv, RequestIsKept, UNCHANGED <<svc, asked, resetOnShutdown>>,
           \/ inbox' = inbox
           \/ \E rest \in Seq(Message) : inbox' = inbox \o rest
           \/ inbox # <<>> /\ Head(inbox) # Stop /\ inbox' = Tail(inbox)
    PROVE  RequestIsKept'
<1>. SUFFICES ASSUME asked, svc # "none"
              PROVE  resetOnShutdown' /\ \E j \in 1..Len(inbox') : inbox'[j] = Stop
  BY DEF RequestIsKept
<1>1. resetOnShutdown'
  BY DEF RequestIsKept
<1>2. PICK i \in 1..Len(inbox) : inbox[i] = Stop
  BY DEF RequestIsKept
<1>3. inbox \in Seq(Message)
  BY DEF IInv, TypeOK
<1>. QED
  BY <1>1, <1>2, <1>3, StopStays

LEMMA StepKept ==
    ASSUME IInv, RequestIsKept, [Next]_vars
    PROVE  RequestIsKept'
<1>. inbox \in Seq(Message)
  BY DEF IInv, TypeOK
<1>1. ASSUME NEW cmd \in Message, inbox' = Deliver(cmd), UNCHANGED <<svc, asked, resetOnShutdown>>
      PROVE  RequestIsKept'
  <2>1. \E rest \in Seq(Message) : Deliver(cmd) = inbox \o rest
    <3>1. <<cmd>> \in Seq(Message) /\ <<Create, cmd>> \in Seq(Message)
      BY MessageTypes
    <3>. QED
      BY <3>1 DEF Deliver
  <2>. QED
    BY <1>1, <2>1, KeptInQueue
<1>2. CASE OnStartCommand
  <2>1. Tail(inbox) \in Seq(Message)
    BY <1>2 DEF OnStartCommand
  <2>2. CASE /\ Head(inbox).action \in {"start", "schedule"}
             /\ inbox' = Tail(inbox) /\ UNCHANGED <<resetOnShutdown, asked>>
    BY <1>2, <2>2, KeptInQueue DEF OnStartCommand, Stop
  <2>3. CASE resetOnShutdown' = TRUE /\ inbox' = StopSelf(Tail(inbox))
    BY <2>1, <2>3, StopSelfStops DEF RequestIsKept
  <2>. QED
    BY <1>2, <2>2, <2>3 DEF OnStartCommand
<1>3. CASE OnCreate
  BY <1>3 DEF OnCreate, RequestIsKept
<1>4. CASE OnDestroy \/ OnDestroyThrows \/ Kill \/ Reboot
  BY <1>4 DEF OnDestroy, OnDestroyThrows, DestroyBegins, Kill, Reboot, ProcessDies, RequestIsKept
<1>5. CASE SystemStop
  <2>1. inbox' = inbox \o <<Stop>> /\ <<Stop>> \in Seq(Message)
    BY <1>5, MessageTypes DEF SystemStop
  <2>. QED
    BY <1>5, <2>1, KeptInQueue DEF SystemStop
<1>6. CASE AlarmFires
  BY <1>1, <1>6, MessageTypes DEF AlarmFires
<1>7. ASSUME NEW cmd \in UserCommand, StartService(cmd)
      PROVE  RequestIsKept'
  BY <1>1, <1>7, MessageTypes DEF StartService
<1>8. CASE CoreStart \/ OnConnectivity \/ AlarmRefused \/ Tick \/ NewBlocks \/ UNCHANGED vars
  BY <1>8, KeptInQueue DEF CoreStart, OnConnectivity, AlarmRefused, Tick, NewBlocks, vars
<1>. QED
  BY <1>2, <1>3, <1>4, <1>5, <1>6, <1>7, <1>8 DEF Next, MainThread

(* An accepted request is not lost in the queue, and is carried out when   *)
(* its instance is destroyed in an orderly way: a further command, a stop  *)
(* by Android or an alarm does no harm.  What is left to fairness is that  *)
(* the main looper drains its queue.                                       *)
THEOREM RequestsAreDone == Spec => []RequestIsKept /\ RequestIsCarriedOut
<1>1. Init => RequestIsKept
  BY DEF Init, RequestIsKept
<1>2. IInv /\ RequestIsKept /\ [Next]_vars
         => [OnDestroy /\ asked /\ started => chain' \in {"erased", "rolledBack"}]_vars
  BY DEF RequestIsKept, OnDestroy, DestroyBegins, ChainAfterDestroy
<1>. QED
  BY Invariance, <1>1, <1>2, StepKept, PTL DEF Spec, RequestIsCarriedOut
=============================================================================
