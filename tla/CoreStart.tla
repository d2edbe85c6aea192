----------------------------- MODULE CoreStart -----------------------------
(***************************************************************************)
(* The start of the application.  PivxApplication starts the core (the     *)
(* wallet module) on a background thread; the splash screen and the        *)
(* loading screen poll it from timers of the main thread and open the next *)
(* screen; on the first run the user goes through the start, tutorial,     *)
(* node, PIN and word screens.                                             *)
(*                                                                         *)
(* The timers of a screen, and the restore that the screen of the words    *)
(* runs on a thread, go on after the screen has finished: ghosts counts    *)
(* the finished screens whose timer or result is still to come.            *)
(* Preferences are written by apply(): memory first, the disk later, in    *)
(* order.                                                                  *)
(***************************************************************************)
EXTENDS Naturals, Sequences, SequencesExt

CONSTANTS
    Splash,       \* is the splash screen (with its sound) enabled?
    MaxScreens,   \* bound on the open and finished screens
    MaxJobs,      \* starts that wait for their thread are counted up to this
    MaxLaunches,  \* bound on the launches by the user
    MaxKills      \* bound on the deaths of the process

ASSUME StartAssumption ==
    /\ Splash \in BOOLEAN
    /\ MaxScreens \in Nat /\ MaxJobs \in Nat \ {0}
    /\ MaxLaunches \in Nat /\ MaxKills \in Nat

VARIABLES
    alive,      \* does the process exist?
    core,       \* the wallet module
    jobs,       \* background starts that were submitted and have not begun
    crashed,    \* field hasCoreCrashed
    pref, disk, \* the preferences, in memory and as saved
    stack,      \* the open screens, the top one last
    front,      \* is the top screen shown, on its way, or is the user away?
    ghosts,     \* finished screens whose timer or result is still to come
    abandoned,  \* was the loading screen of the PIN left without a core?
    blind,      \* were the words asked of a core that is not started?
    launches, kills

coreVars  == <<core, jobs, crashed>>
prefVars  == <<pref, disk>>
countVars == <<launches, kills>>
vars == <<alive, coreVars, prefVars, stack, front, ghosts, abandoned, blind, countVars>>

Timed      == {"Splash", "SplashPaused", "Loading", "LoadingInit"}
NeedsCore  == {"Node", "Mnemonic", "Wallet", "Words", "Restoring"}
Kind       == Timed \cup NeedsCore
                    \cup {"Start", "Restore", "Tutorial", "Pin", "PinResult"}
(* The screens that leave something behind when they finish: a timer, or   *)
(* the restore that the screen "Words" started to become "Restoring".      *)
Haunting   == Timed \cup {"Restoring"}
GhostKind  == Haunting \ {"SplashPaused"}
Preference == [pin : BOOLEAN, appInit : BOOLEAN]
NoGhost    == [k \in GhostKind |-> 0]
Started    == core = "started"

Top  == stack[Len(stack)]
(* onPause of the splash screen sets ispaused.                             *)
Paused(s) ==
    IF s # <<>> /\ s[Len(s)] = "Splash" THEN [s EXCEPT ![Len(s)] = "SplashPaused"] ELSE s
Open(s, kind)    == Append(Paused(s), kind)
Replace(kind)    == [stack EXCEPT ![Len(stack)] = kind]
GhostOf(kind)    == IF kind = "SplashPaused" THEN "Splash" ELSE kind
AddGhost(kind)   == [ghosts EXCEPT ![GhostOf(kind)] = @ + 1]
DropGhost(kind)  == [ghosts EXCEPT ![kind] = @ - 1]

(* A PIN screen gets the result of the loading screen over it.             *)
Asker(i) == i > 1 /\ stack[i] = "LoadingInit" /\ stack[i-1] = "Pin"
Finished(i) ==
    RemoveAt(IF Asker(i) THEN [stack EXCEPT ![i-1] = "PinResult"] ELSE stack, i)

(* The top screen of s is about to be resumed, if there is one.            *)
Settle(s) ==
    /\ stack' = s
    /\ front' = IF s = <<>> THEN "away" ELSE IF s = stack THEN front ELSE "coming"

----------------------------------------------------------------------------
Init ==
    /\ alive = FALSE
    /\ core = "stopped" /\ jobs = 0 /\ crashed = FALSE
    /\ pref = [pin |-> FALSE, appInit |-> FALSE] /\ disk = pref
    /\ stack = <<>> /\ front = "away"
    /\ ghosts = NoGhost
    /\ abandoned = FALSE /\ blind = FALSE
    /\ launches = 0 /\ kills = 0

----------------------------------------------------------------------------
(* The core, on its background thread.                                     *)

(* Mutant: the thread takes a start nobody submitted.                      *)
CoreBeginsAlone ==
    /\ alive /\ core # "starting"
    /\ jobs' = jobs - 1
    /\ core' = IF Started THEN "started" ELSE "starting"
    /\ UNCHANGED <<alive, crashed, prefVars, stack, front, ghosts, abandoned, blind, countVars>>

(* A submitted start enters startCore; a second start of a started core    *)
(* returns at once.                                                        *)
CoreBegins ==
    /\ jobs > 0 /\ core # "starting"
    /\ jobs' = jobs - 1
    /\ core' = IF Started THEN "started" ELSE "starting"
    /\ UNCHANGED <<alive, crashed, prefVars, stack, front, ghosts, abandoned, blind, countVars>>

CoreStarts ==
    /\ core = "starting"
    /\ core' = "started"
    /\ UNCHANGED <<alive, jobs, crashed, prefVars, stack, front, ghosts, abandoned, blind, countVars>>

(* Mutant: the crash is only announced, and nobody listens.                *)
CoreFailsUnmarked ==
    /\ core = "starting"
    /\ core' = "stopped"
    /\ UNCHANGED <<alive, jobs, crashed, prefVars, stack, front, ghosts, abandoned, blind, countVars>>

(* The start failed: hasCoreCrashed is set, for ever.  The announcement    *)
(* has no receiver.                                                        *)
CoreFails ==
    /\ core = "starting"
    /\ core' = "stopped"
    /\ crashed' = TRUE
    /\ UNCHANGED <<alive, jobs, prefVars, stack, front, ghosts, abandoned, blind, countVars>>

----------------------------------------------------------------------------
(* The timers of the splash and of the loading screens.                    *)

(* Mutant: the splash does not know what to open while the core starts.    *)
JumpTargetWaiting ==
    IF crashed \/ core = "starting" THEN <<>>
    ELSE <<IF pref.appInit THEN "Wallet" ELSE "Start">>

(* What jump() opens: nothing after a crash.                               *)
JumpTarget ==
    CASE crashed           -> <<>>
      [] core = "starting" -> <<"Loading">>
      [] OTHER             -> <<IF pref.appInit THEN "Wallet" ELSE "Start">>

(* startActivity and finish(): s is the stack without the screen.          *)
JumpFrom(s) ==
    Settle(IF JumpTarget = <<>> THEN s ELSE Open(s, JumpTarget[1]))

SplashTimer ==
    /\ UNCHANGED <<alive, coreVars, prefVars, abandoned, blind, countVars>>
    /\ \/ \E i \in 1..Len(stack) :
              /\ stack[i] \in {"Splash", "SplashPaused"}
              /\ JumpFrom(Finished(i))
              /\ UNCHANGED ghosts
       \/ /\ ghosts["Splash"] > 0
          /\ ghosts' = DropGhost("Splash")
          /\ JumpFrom(stack)

(* The core is not started yet: it is started unless somebody does so.     *)
Nudge ==
    /\ ~Started
    /\ jobs' = IF core = "starting" \/ jobs = MaxJobs THEN jobs ELSE jobs + 1

(* The screen after a plain loading screen that is over.                   *)
AfterLoading(kind, s) ==
    IF kind = "LoadingInit" THEN s ELSE Open(s, IF pref.appInit THEN "Wallet" ELSE "Start")

(* Mutant: a core that is being started is taken for a started one.        *)
LoadingTimerEarly ==
    /\ UNCHANGED <<alive, core, crashed, prefVars, blind, countVars>>
    /\ \E i \in 1..Len(stack) :
           /\ stack[i] \in {"Loading", "LoadingInit"}
           /\ \/ /\ core # "stopped"
                 /\ Settle(AfterLoading(stack[i], Finished(i)))
                 /\ UNCHANGED <<jobs, ghosts, abandoned>>
              \/ /\ core = "stopped"
                 /\ Nudge
                 /\ crashed
                 /\ Settle(Finished(i))
                 /\ ghosts' = AddGhost(stack[i])
                 /\ abandoned' = (abandoned \/ Asker(i))

(* An open loading screen looks at the core.  After a crash it finishes,   *)
(* having asked for another start, and its timer goes on.                  *)
LoadingTimer ==
    /\ UNCHANGED <<alive, core, crashed, prefVars, blind, countVars>>
    /\ \E i \in 1..Len(stack) :
           /\ stack[i] \in {"Loading", "LoadingInit"}
           /\ \/ /\ Started
                 /\ Settle(AfterLoading(stack[i], Finished(i)))
                 /\ UNCHANGED <<jobs, ghosts, abandoned>>
              \/ /\ Nudge
                 /\ crashed
                 /\ Settle(Finished(i))
                 /\ ghosts' = AddGhost(stack[i])
                 /\ abandoned' = (abandoned \/ Asker(i))
              \/ /\ Nudge
                 /\ ~crashed
                 /\ UNCHANGED <<stack, front, ghosts, abandoned>>

(* The timer of a finished loading screen does the same, and finish() does *)
(* nothing any more.                                                       *)
GhostTimer ==
    /\ UNCHANGED <<alive, core, crashed, prefVars, abandoned, blind, countVars>>
    /\ \E kind \in {"Loading", "LoadingInit"} :
           /\ ghosts[kind] > 0
           /\ \/ /\ Started
                 /\ ghosts' = DropGhost(kind)
                 /\ Settle(AfterLoading(kind, stack))
                 /\ UNCHANGED jobs
              \/ /\ Nudge
                 /\ UNCHANGED <<ghosts, stack, front>>

----------------------------------------------------------------------------
(* The top screen is resumed: a splash that had been paused jumps at once  *)
(* (its timer stays), the PIN screen takes the result of the loading       *)
(* screen, whatever it is, for the end of the start, and a screen that     *)
(* needs the core gives way to a loading screen.                           *)
OnResume ==
    /\ front = "coming"
    /\ UNCHANGED <<alive, coreVars, prefVars, abandoned, countVars>>
    /\ \/ /\ Top = "SplashPaused"
          /\ JumpFrom(Finished(Len(stack)))
          /\ ghosts' = AddGhost("Splash")
          /\ UNCHANGED blind
       \/ /\ Top = "PinResult"
          /\ Settle(Replace("Mnemonic"))
          /\ blind' = (blind \/ ~Started)
          /\ UNCHANGED ghosts
       \/ /\ Top \in NeedsCore /\ ~Started
          /\ Settle(Replace("Loading"))
          /\ UNCHANGED <<ghosts, blind>>
       \/ /\ Top \notin {"SplashPaused", "PinResult"}
          /\ Top \in NeedsCore => Started
          /\ front' = "resumed"
          /\ UNCHANGED <<stack, ghosts, blind>>

----------------------------------------------------------------------------
(* The user.                                                               *)

(* Bound: screens are opened while there is room for them.                 *)
Room ==
    Len(stack) + ghosts["Splash"] + ghosts["Loading"] + ghosts["LoadingInit"]
               + ghosts["Restoring"] < MaxScreens

(* The launcher icon: onCreate of the application if the process is new,   *)
(* then InitialActivity.                                                   *)
Launch ==
    /\ stack = <<>> /\ Room
    /\ launches < MaxLaunches
    /\ launches' = launches + 1
    /\ alive' = TRUE
    /\ jobs' = IF ~alive /\ pref.appInit THEN 1 ELSE jobs
    /\ Settle(<<IF ~pref.appInit \/ Splash THEN "Splash" ELSE "Wallet">>)
    /\ UNCHANGED <<core, crashed, prefVars, ghosts, abandoned, blind, kills>>

Home ==
    /\ front # "away"
    /\ stack' = Paused(stack)
    /\ front' = "away"
    /\ UNCHANGED <<alive, coreVars, prefVars, ghosts, abandoned, blind, countVars>>

Return ==
    /\ front = "away" /\ stack # <<>>
    /\ front' = "coming"
    /\ UNCHANGED <<alive, coreVars, prefVars, stack, ghosts, abandoned, blind, countVars>>

(* A click on the top screen leads to the stack s.                         *)
Click(kind, s) ==
    /\ front = "resumed" /\ Top = kind
    /\ Settle(s)
    /\ UNCHANGED <<alive, coreVars, disk, ghosts, blind, countVars>>

(* StartActivity: a new wallet and the tutorial.                           *)
CreateWallet ==
    Click("Start", Replace("Tutorial")) /\ UNCHANGED <<pref, abandoned>>

OpenRestore ==
    Room /\ Click("Start", Open(stack, "Restore")) /\ UNCHANGED <<pref, abandoned>>

(* The wallet is restored from a file and the dialog that says so closes:  *)
(* on OK both of its listeners open the tutorial, else one of them does.   *)
RestoreFile ==
    /\ Room
    /\ \E once \in BOOLEAN :
           Click("Restore", IF once THEN Replace("Tutorial")
                            ELSE Open(Replace("Tutorial"), "Tutorial"))
    /\ UNCHANGED <<pref, abandoned>>

OpenWords ==
    Room /\ Click("Restore", Open(stack, "Words")) /\ UNCHANGED <<pref, abandoned>>

(* The words are confirmed; the screen stays while a thread restores the   *)
(* wallet.  Another confirmation shuts that thread down and starts anew.   *)
SubmitWords ==
    /\ front = "resumed" /\ Top = "Words"
    /\ stack' = Replace("Restoring")
    /\ UNCHANGED <<alive, coreVars, prefVars, front, ghosts, abandoned, blind, countVars>>

(* The thread posts its result to the main thread, also when the screen    *)
(* has finished or is not shown.                                           *)
WordsFail ==
    /\ \/ \E i \in 1..Len(stack) :
              /\ stack[i] = "Restoring"
              /\ stack' = [stack EXCEPT ![i] = "Words"]
              /\ UNCHANGED ghosts
       \/ /\ ghosts["Restoring"] > 0
          /\ ghosts' = DropGhost("Restoring")
          /\ UNCHANGED stack
    /\ UNCHANGED <<alive, coreVars, prefVars, front, abandoned, blind, countVars>>

(* The screen, or what is left of it, opens the next one.                  *)
LeaveWords(next) ==
    /\ \/ \E i \in 1..Len(stack) :
              /\ stack[i] = "Restoring"
              /\ Settle(Open(Finished(i), next))
              /\ UNCHANGED ghosts
       \/ /\ ghosts["Restoring"] > 0
          /\ ghosts' = DropGhost("Restoring")
          /\ Settle(Open(stack, next))
    /\ UNCHANGED <<alive, coreVars, disk, abandoned, blind, countVars>>

(* Mutant: whoever restored a wallet is taken to have a PIN.               *)
RestoreWordsUnchecked ==
    /\ LeaveWords("Wallet")
    /\ pref' = [pref EXCEPT !.appInit = TRUE]

(* A restored wallet leads on to the wallet screen if there is a PIN.      *)
RestoreWords ==
    /\ LeaveWords(IF pref.pin THEN "Wallet" ELSE "Tutorial")
    /\ pref' = [pref EXCEPT !.appInit = @ \/ pref.pin]

(* onCreateView of PincodeActivity: with a PIN it goes on to goNext() and  *)
(* finishes, so nobody waits for the result of the loading screen.         *)
PinOpened ==
    /\ pref' = [pref EXCEPT !.appInit = @ \/ pref.pin]
    /\ UNCHANGED abandoned

EndTutorial ==
    Click("Tutorial", Replace(IF pref.pin THEN "LoadingInit" ELSE "Pin")) /\ PinOpened

OpenNodes ==
    Room /\ Click("Tutorial", Open(stack, "Node")) /\ UNCHANGED <<pref, abandoned>>

(* StartNodeActivity.goNext().                                             *)
SelectNode ==
    /\ Click("Node", Replace(IF pref.pin THEN "Wallet" ELSE "Pin"))
    /\ UNCHANGED <<pref, abandoned>>

(* The fourth digit: savePincode and goNext().                             *)
EnterPin ==
    /\ Room
    /\ Click("Pin", Open(stack, "LoadingInit"))
    /\ pref' = [pin |-> TRUE, appInit |-> TRUE]
    /\ UNCHANGED abandoned

Continue ==
    Click("Mnemonic", Replace("Wallet")) /\ UNCHANGED <<pref, abandoned>>

(* Back: the PIN screen without a PIN opens the start screen; a screen     *)
(* with a timer or a restore leaves it behind.                             *)
Back ==
    /\ front = "resumed"
    /\ Settle(IF Top = "Pin" /\ ~pref.pin THEN Replace("Start") ELSE Finished(Len(stack)))
    /\ ghosts' = IF Top \in Haunting THEN AddGhost(Top) ELSE ghosts
    /\ abandoned' = (abandoned \/ (Asker(Len(stack)) /\ ~Started))
    /\ UNCHANGED <<alive, coreVars, prefVars, blind, countVars>>

----------------------------------------------------------------------------
(* Android writes the preferences to the disk, in the order of apply().    *)
Flush ==
    /\ disk # pref
    /\ disk' = IF disk.pin # pref.pin THEN [disk EXCEPT !.pin = pref.pin] ELSE pref
    /\ UNCHANGED <<alive, coreVars, pref, stack, front, ghosts, abandoned, blind, countVars>>

(* The process dies with its task.                                         *)
Kill ==
    /\ alive /\ kills < MaxKills
    /\ kills' = kills + 1
    /\ alive' = FALSE
    /\ core' = "stopped" /\ jobs' = 0 /\ crashed' = FALSE
    /\ pref' = disk
    /\ stack' = <<>> /\ front' = "away"
    /\ ghosts' = NoGhost
    /\ abandoned' = FALSE /\ blind' = FALSE
    /\ UNCHANGED <<disk, launches>>

User ==
    \/ Launch \/ Home \/ Return
    \/ CreateWallet \/ OpenRestore \/ RestoreFile \/ OpenWords \/ SubmitWords
    \/ EndTutorial \/ OpenNodes \/ SelectNode \/ EnterPin \/ Continue \/ Back

Next ==
    \/ CoreBegins \/ CoreStarts \/ CoreFails
    \/ SplashTimer \/ LoadingTimer \/ GhostTimer \/ OnResume
    \/ WordsFail \/ RestoreWords
    \/ User \/ Flush \/ Kill

Spec == Init /\ [][Next]_vars

(* Threads and timers run and the main thread resumes the top screen; a    *)
(* start ends one way or the other.  Nothing is assumed of the user, nor   *)
(* of a restore.                                                           *)
Fairness ==
    /\ WF_vars(CoreBegins) /\ WF_vars(CoreStarts \/ CoreFails)
    /\ WF_vars(SplashTimer) /\ WF_vars(LoadingTimer) /\ WF_vars(GhostTimer)
    /\ WF_vars(OnResume)

FairSpec == Spec /\ Fairness

----------------------------------------------------------------------------
TypeOK ==
    /\ alive \in BOOLEAN
    /\ core \in {"stopped", "starting", "started"}
    /\ jobs \in 0..MaxJobs
    /\ crashed \in BOOLEAN
    /\ pref \in Preference /\ disk \in Preference
    /\ stack \in Seq(Kind)
    /\ front \in {"away", "coming", "resumed"}
    /\ ghosts \in [GhostKind -> Nat]
    /\ abandoned \in BOOLEAN /\ blind \in BOOLEAN
    /\ launches \in 0..MaxLaunches /\ kills \in 0..MaxKills

(* An application that counts as set up has a PIN, also after a death      *)
(* between the writes of the preferences: from then on the first run is    *)
(* never shown again, and paying compares with the PIN (PincodeActivity    *)
(* line 107), which must not be missing.                                   *)
InitHasPin == pref.appInit => pref.pin

(* PincodeActivity.onActivityResult does not look at the result of the     *)
(* loading screen.  The words are asked of a core that is not started only *)
(* if that screen was left before the end or the core had crashed, never   *)
(* because it took a core for started that is not.                         *)
WordsNeedCore == blind => abandoned

(* The application closes only when the user leaves it with Back, when the *)
(* process dies or when the core has crashed; else one screen follows the  *)
(* other.  Left out is the loading screen that a PIN screen opened while   *)
(* it finished itself (PincodeActivity line 50): nobody takes its result   *)
(* and the application closes instead of showing the words.                *)
ClosesOnPurpose ==
    [][stack \notin {<<>>, <<"LoadingInit">>} /\ stack' = <<>>
         => crashed \/ Back \/ Kill]_vars

(* Whoever stays gets on: the splash and the loading screen lead to a      *)
(* screen that can be used, or, after a crash, out of the application.     *)
GetsOn ==
    front # "away" ~>
        front = "away" \/ (front = "resumed" /\ Top \notin Timed)
=============================================================================
