--------------------------- MODULE WalletService ---------------------------
(***************************************************************************)
(* The life cycle of PivxWalletService: how it is created, commanded,      *)
(* stopped and woken again, and what becomes of a request to erase or roll *)
(* back the stored chain.                                                  *)
(*                                                                         *)
(* Every callback of the service runs on the main thread, so a callback is *)
(* one action.  Between two callbacks the main looper may hold messages:   *)
(* inbox is that queue, filled by startService, by stopSelf, by the alarm  *)
(* and by the system when it stops an idle service.                        *)
(*                                                                         *)
(* Time only appears in the code as "now + delay" and "now < saved", so    *)
(* the alarm and the saved schedule are kept as the time left until them.  *)
(* One unit is 5 minutes.                                                  *)
(***************************************************************************)
EXTENDS Integers, Sequences, SequencesExt

CONSTANTS
    ScheduleDelay,   \* delay of tryScheduleService (15 minutes)
    RetryDelay,      \* delay of tryScheduleServiceNow (10 minutes)
    Heights,         \* heights the rollback dialog may be given
    MaxInbox,        \* bound on the messages waiting in the main looper
    Faults           \* which environment faults happen, of FaultNames

FaultNames == {"init", "check", "destroy", "kill", "reboot", "limits"}

NoHeight == -1       \* the initial value of the field resetToHeight
NoAlarm  == -1       \* no alarm is pending

ASSUME DelayAssumption   == ScheduleDelay \in Nat \ {0} /\ RetryDelay \in Nat \ {0}
ASSUME HeightAssumption  == Heights \subseteq Nat
ASSUME BoundAssumption   == MaxInbox \in Nat
ASSUME FaultAssumption   == Faults \subseteq FaultNames

VARIABLES
    svc,              \* the live instance: "none", "half" (onCreate threw), "up"
    inbox,            \* messages of the main looper addressed to the service
    started,          \* module.isStarted()
    resetOnShutdown,  \* field resetBlockchainOnShutdown of the instance
    resetToHeight,    \* field resetToHeight of the instance
    sched,            \* the alarm, the saved schedule and a history flag
    ended,            \* how the last instance ended
    asked,            \* history: this instance was asked to reset the chain
    chain             \* the stored chain: "downloaded", "erased", "rolledBack"

vars == <<svc, inbox, started, resetOnShutdown, resetToHeight, sched, ended,
          asked, chain>>

Command == [action : {"start", "schedule", "reset"}, height : {NoHeight}]
             \cup [action : {"rollback"}, height : Heights]
Create  == [action |-> "create", height |-> NoHeight]
Stop    == [action |-> "stop", height |-> NoHeight]
Message == Command \cup {Create, Stop}

StartCommand    == [action |-> "start", height |-> NoHeight]
ScheduleCommand == [action |-> "schedule", height |-> NoHeight]
ResetCommand    == [action |-> "reset", height |-> NoHeight]
RollbackCommand(h) == [action |-> "rollback", height |-> h]

Schedule == [alarm : Nat \cup {NoAlarm}, saved : Nat, displaced : BOOLEAN,
             refused : BOOLEAN]
NewSchedule == [alarm |-> ScheduleDelay, saved |-> ScheduleDelay,
                displaced |-> FALSE, refused |-> FALSE]

----------------------------------------------------------------------------
(* The two ways the service asks Android to start it later.  Both use the  *)
(* same PendingIntent, so the second one replaces the first.  displaced    *)
(* and refused are history: the alarm set together with the saved schedule *)
(* is gone; the last alarm came and Android did not start the service.     *)

(* Mutant: the test of the saved schedule is inverted.                     *)
TryScheduleServiceInverted(s) ==
    IF s.saved = 0
    THEN s
    ELSE NewSchedule

TryScheduleService(s) ==
    IF s.saved > 0
    THEN s
    ELSE NewSchedule

(* Mutant: the delay is subtracted from the current time.                  *)
TryScheduleServicePast(s) == [s EXCEPT !.alarm = -RetryDelay, !.displaced = TRUE]

TryScheduleServiceNow(s) ==
    [s EXCEPT !.alarm = RetryDelay, !.displaced = TRUE, !.refused = FALSE]

(* Does Android hold a record of the service that was not stopped yet?     *)
IsLifecycle(m) == m \in {Create, Stop}
Recorded ==
    LET life == SelectSeq(inbox, IsLifecycle)
    IN  IF life = <<>> THEN svc # "none" ELSE Last(life) = Create

Deliver(cmd) ==
    inbox \o (IF Recorded THEN <<cmd>> ELSE <<Create, cmd>>)

----------------------------------------------------------------------------
Init ==
    /\ svc = "none"
    /\ inbox = <<>>
    /\ started = FALSE
    /\ resetOnShutdown = FALSE
    /\ resetToHeight = NoHeight
    /\ sched = [alarm |-> NoAlarm, saved |-> 0, displaced |-> FALSE, refused |-> FALSE]
    /\ ended = "never"
    /\ asked = FALSE
    /\ chain = "downloaded"

(* startService from an activity: Wallet, Settings, StartNode, Pincode,... *)
StartService(cmd) ==
    /\ Len(inbox) + 2 <= MaxInbox
    /\ inbox' = Deliver(cmd)
    /\ UNCHANGED <<svc, started, resetOnShutdown, resetToHeight, sched, ended,
                   asked, chain>>

(* PivxModule.start, on the background thread of startCoreBackground.      *)
CoreStart ==
    /\ ~started
    /\ started' = TRUE
    /\ UNCHANGED <<svc, inbox, resetOnShutdown, resetToHeight, sched, ended,
                   asked, chain>>

(* onCreate: schedule the next wake-up, then initialise.  An exception of  *)
(* the initialisation is swallowed and leaves the half-built service.      *)
OnCreate ==
    /\ inbox # <<>>
    /\ Head(inbox) = Create
    /\ inbox' = Tail(inbox)
    /\ svc' \in {"up"} \cup (IF "init" \in Faults THEN {"half"} ELSE {})
    /\ resetOnShutdown' = FALSE
    /\ resetToHeight' = NoHeight
    /\ asked' = FALSE
    /\ sched' = TryScheduleService(sched)
    /\ UNCHANGED <<started, ended, chain>>

(* check(): a started module checks its peers, and any exception schedules *)
(* a retry; a module that is not started schedules a retry.                *)
Check ==
    IF started
    THEN \/ sched' = sched
         \/ "check" \in Faults /\ sched' = TryScheduleServiceNow(sched)
    ELSE sched' = TryScheduleServiceNow(sched)

(* stopSelf(): ignored when the instance is already being stopped.         *)
StopSelf(rest) == IF Stop \in Range(rest) THEN rest ELSE Append(rest, Stop)

OnStartCommand ==
    /\ inbox # <<>>
    /\ svc # "none"
    /\ LET cmd  == Head(inbox)
           rest == Tail(inbox)
       IN  \/ /\ cmd.action = "start"
              /\ inbox' = rest
              /\ UNCHANGED <<resetOnShutdown, resetToHeight, sched, asked>>
           \/ /\ cmd.action = "schedule"
              /\ Check
              /\ inbox' = rest
              /\ UNCHANGED <<resetOnShutdown, resetToHeight, asked>>
           \/ /\ cmd.action = "reset"
              /\ resetOnShutdown' = TRUE
              /\ asked' = TRUE
              /\ inbox' = StopSelf(rest)
              /\ UNCHANGED <<resetToHeight, sched>>
           \/ /\ cmd.action = "rollback"
              /\ resetOnShutdown' = TRUE
              /\ resetToHeight' = cmd.height
              /\ asked' = TRUE
              /\ inbox' = StopSelf(rest)
              /\ UNCHANGED sched
    /\ UNCHANGED <<svc, started, ended, chain>>

(* connectivityReceiver.onReceive, registered at the end of onCreate.      *)
OnConnectivity ==
    /\ svc = "up"
    /\ Check
    /\ UNCHANGED <<svc, inbox, started, resetOnShutdown, resetToHeight, ended,
                   asked, chain>>

(* Mutant: the height is compared with the default of an int, not with -1. *)
ChainAfterDestroyZero ==
    IF ~started THEN chain
    ELSE IF resetToHeight # 0 THEN "rolledBack"
    ELSE IF resetOnShutdown THEN "erased"
    ELSE chain

(* Mutant: the flag is cleared before it is read.                          *)
ChainAfterDestroyCleared ==
    IF ~started THEN chain
    ELSE IF resetToHeight # NoHeight THEN "rolledBack"
    ELSE chain

(* What onDestroy makes of the stored chain: a rollback goes first.        *)
ChainAfterDestroy ==
    IF ~started THEN chain
    ELSE IF resetToHeight # NoHeight THEN "rolledBack"
    ELSE IF resetOnShutdown THEN "erased"
    ELSE chain

DestroyBegins ==
    /\ inbox # <<>>
    /\ svc # "none"
    /\ Head(inbox) = Stop
    /\ inbox' = Tail(inbox)
    /\ svc' = "none"
    /\ resetOnShutdown' = FALSE
    /\ resetToHeight' = NoHeight
    /\ UNCHANGED <<started, asked>>

(* Mutant: a service whose module is started is not scheduled again.       *)
OnDestroyUnscheduled ==
    /\ DestroyBegins
    /\ chain' = ChainAfterDestroy
    /\ sched' = IF started THEN sched ELSE TryScheduleService(TryScheduleServiceNow(sched))
    /\ ended' = "destroyed"

OnDestroy ==
    /\ DestroyBegins
    /\ chain' = ChainAfterDestroy
    /\ sched' = TryScheduleService(IF started THEN sched ELSE TryScheduleServiceNow(sched))
    /\ ended' = "destroyed"

(* blockchainManager.rollbackTo or destroy throws: the handler around the  *)
(* whole body catches it and the wake-up at its end is skipped.            *)
OnDestroyThrows ==
    /\ "destroy" \in Faults
    /\ started
    /\ DestroyBegins
    /\ chain' \in {chain, ChainAfterDestroy}
    /\ ended' = "threw"
    /\ UNCHANGED sched

----------------------------------------------------------------------------
(* The environment.                                                        *)

(* The intent of the alarm starts the service ...                          *)
AlarmFires ==
    /\ sched.alarm = 0
    /\ Len(inbox) + 2 <= MaxInbox
    /\ sched' = [sched EXCEPT !.alarm = NoAlarm]
    /\ inbox' = Deliver(ScheduleCommand)
    /\ UNCHANGED <<svc, started, resetOnShutdown, resetToHeight, ended, asked, chain>>

(* ... but for an idle app Android 8 and later does not start a service    *)
(* that is not running already, and the alarm is gone.                     *)
AlarmRefused ==
    /\ "limits" \in Faults
    /\ sched.alarm = 0
    /\ ~Recorded
    /\ sched' = [sched EXCEPT !.alarm = NoAlarm, !.refused = TRUE]
    /\ UNCHANGED <<svc, inbox, started, resetOnShutdown, resetToHeight, ended,
                   asked, chain>>

Tick ==
    /\ \/ sched.alarm > 0
       \/ sched.saved > 0
    /\ sched' = [sched EXCEPT !.alarm = IF @ > 0 THEN @ - 1 ELSE @,
                              !.saved = IF @ > 0 THEN @ - 1 ELSE @]
    /\ UNCHANGED <<svc, inbox, started, resetOnShutdown, resetToHeight, ended,
                   asked, chain>>

(* Android stops a started service of an app that went idle.               *)
SystemStop ==
    /\ Recorded
    /\ Len(inbox) + 1 <= MaxInbox
    /\ inbox' = Append(inbox, Stop)
    /\ UNCHANGED <<svc, started, resetOnShutdown, resetToHeight, sched, ended,
                   asked, chain>>

(* The blockchain manager downloads blocks while it runs.                  *)
NewBlocks ==
    /\ svc = "up" /\ started
    /\ chain # "downloaded"
    /\ chain' = "downloaded"
    /\ UNCHANGED <<svc, inbox, started, resetOnShutdown, resetToHeight, sched,
                   ended, asked>>

ProcessDies ==
    /\ svc' = "none"
    /\ inbox' = <<>>
    /\ started' = FALSE
    /\ resetOnShutdown' = FALSE
    /\ resetToHeight' = NoHeight
    /\ asked' = FALSE
    /\ ended' = "killed"
    /\ UNCHANGED chain

Kill == "kill" \in Faults /\ ProcessDies /\ UNCHANGED sched

(* Alarms do not survive a reboot, the preferences do; there is no boot    *)
(* receiver in the manifest.                                               *)
Reboot ==
    /\ "reboot" \in Faults
    /\ ProcessDies
    /\ sched' = [sched EXCEPT !.alarm = NoAlarm, !.displaced = TRUE]

UserCommand == {StartCommand, ResetCommand} \cup {RollbackCommand(h) : h \in Heights}

MainThread == OnCreate \/ OnStartCommand \/ OnDestroy \/ OnDestroyThrows

Next ==
    \/ \E cmd \in UserCommand : StartService(cmd)
    \/ CoreStart
    \/ MainThread
    \/ OnConnectivity
    \/ AlarmFires \/ AlarmRefused
    \/ Tick
    \/ SystemStop
    \/ NewBlocks
    \/ Kill
    \/ Reboot

Spec == Init /\ [][Next]_vars

(* The main looper drains its queue, time passes and Android delivers a    *)
(* due alarm or refuses it; nothing is assumed of the user, the core or    *)
(* the network.                                                            *)
Fairness ==
    WF_vars(MainThread) /\ WF_vars(AlarmFires \/ AlarmRefused) /\ WF_vars(Tick)
FairSpec == Spec /\ Fairness

----------------------------------------------------------------------------
TypeOK ==
    /\ svc \in {"none", "half", "up"}
    /\ inbox \in Seq(Message)
    /\ started \in BOOLEAN
    /\ resetOnShutdown \in BOOLEAN
    /\ resetToHeight \in Heights \cup {NoHeight}
    /\ sched \in Schedule
    /\ ended \in {"never", "destroyed", "threw", "killed"}
    /\ asked \in BOOLEAN
    /\ chain \in {"downloaded", "erased", "rolledBack"}

(* Once the service was shut down in an orderly way it will run again: the *)
(* alarm is pending, or its message already waits in the main looper.  It  *)
(* holds as long as the alarm that tryScheduleService set was not replaced *)
(* by the shorter one of tryScheduleServiceNow, nor dropped by a reboot,   *)
(* nor refused when it came: tryScheduleService trusts the saved schedule, *)
(* which only it writes.                                                   *)
WakeUpPending ==
    svc = "none" /\ ended = "destroyed" /\ ~sched.displaced /\ ~sched.refused
        => sched.alarm # NoAlarm \/ inbox # <<>>

(* The comment at the end of onDestroy without that restriction: "schedule *)
(* service it is not scheduled yet".  After an orderly shutdown an alarm   *)
(* is always pending (or its message already waits).                       *)
ScheduledAfterShutdown ==
    svc = "none" /\ ended = "destroyed"
        => sched.alarm # NoAlarm \/ inbox # <<>>

(* The stored chain is erased or rolled back only by an instance that      *)
(* itself received the request: a service that Android stops, or a later   *)
(* instance, never acts on the flags of another one.                       *)
OnlyAskedResets ==
    [][chain' \notin {chain, "downloaded"} => asked]_vars

(* A service that was shut down runs again without help of the user, or    *)
(* Android refused to start it when its alarm came: the service itself     *)
(* never omits or loses the alarm.                                         *)
WokenAgain ==
    svc = "none" /\ ended = "destroyed" /\ ~sched.displaced
        ~> svc # "none" \/ sched.refused

(* A request accepted while the core is started reaches the chain, however *)
(* many commands, stops and alarms are queued around it.                   *)
ResetLeadsToErasure ==
    asked /\ started /\ svc # "none" ~> chain # "downloaded"
=============================================================================
