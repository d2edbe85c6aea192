-------------------------- MODULE CoreStartProofs --------------------------
(***************************************************************************)
(* Proofs about CoreStart, for any number of screens, starts, launches and *)
(* deaths.                                                                 *)
(***************************************************************************)
EXTENDS CoreStart, SequenceTheorems, TLAPS

(* What is shown, or on its way, is a screen.                              *)
TypeInv == TypeOK /\ (front # "away" => stack # <<>>)

(* The disk follows the memory and is written in its order.                *)
PinInv ==
    /\ disk \in Preference /\ pref \in Preference
    /\ InitHasPin
    /\ disk.appInit => disk.pin
    /\ disk.pin => pref.pin
    /\ disk.appInit => pref.appInit

(* A loading screen hands its result over once the core is started, or     *)
(* when it is left too early.                                              *)
Plain    == Kind \ {"PinResult"}
WordsInv ==
    /\ TypeInv
    /\ abandoned \/ Started \/ stack \in Seq(Plain)
    /\ WordsNeedCore

----------------------------------------------------------------------------
(* Changing an element leaves a sequence in its set, at any index.         *)
LEMMA ExceptAnywhere ==
    ASSUME NEW S, NEW s \in Seq(S), NEW n, NEW e \in S
    PROVE  /\ [s EXCEPT ![n] = e] \in Seq(S)
           /\ Len([s EXCEPT ![n] = e]) = Len(s)
<1>1. CASE n \in 1..Len(s)
  BY <1>1, ExceptSeq
<1>2. CASE n \notin 1..Len(s)
  <2>1. DOMAIN s = 1..Len(s) /\ s \in [1..Len(s) -> S]
    BY LenProperties
  <2>2. [s EXCEPT ![n] = e] = s
    BY <1>2, <2>1
  <2>. QED
    BY <2>2
<1>. QED
  BY <1>1, <1>2

(* What opening, replacing and finishing a screen does to a stack over S.  *)
LEMMA PausedStack ==
    ASSUME NEW S, "SplashPaused" \in S, NEW s \in Seq(S)
    PROVE  Paused(s) \in Seq(S) /\ Len(Paused(s)) = Len(s)
<1>1. CASE s # <<>> /\ s[Len(s)] = "Splash"
  BY <1>1, ExceptAnywhere DEF Paused
<1>2. CASE ~(s # <<>> /\ s[Len(s)] = "Splash")
  BY <1>2 DEF Paused
<1>. QED
  BY <1>1, <1>2

LEMMA OpenStack ==
    ASSUME NEW S, "SplashPaused" \in S, NEW s \in Seq(S), NEW kind \in S
    PROVE  Open(s, kind) \in Seq(S) /\ Open(s, kind) # <<>>
BY PausedStack, AppendProperties DEF Open

LEMMA ReplaceStack ==
    ASSUME NEW S, stack \in Seq(S), NEW kind \in S
    PROVE  Replace(kind) \in Seq(S) /\ Len(Replace(kind)) = Len(stack)
BY ExceptAnywhere DEF Replace

LEMMA FinishedStack ==
    ASSUME NEW S, stack \in Seq(S), NEW i \in 1..Len(stack),
           Asker(i) => "PinResult" \in S
    PROVE  /\ Finished(i) \in Seq(S)
           /\ Len(Finished(i)) = Len(stack) - 1
<1> DEFINE s == IF Asker(i) THEN [stack EXCEPT ![i-1] = "PinResult"] ELSE stack
<1>1. s \in Seq(S) /\ Len(s) = Len(stack)
  <2>1. CASE Asker(i)
    BY <2>1, ExceptAnywhere
  <2>2. CASE ~Asker(i)
    BY <2>2
  <2>. QED
    BY <2>1, <2>2
<1>2. Finished(i) = SubSeq(s, 1, i-1) \o SubSeq(s, i+1, Len(s))
  BY DEF Finished, RemoveAt
<1>. HIDE DEF s
<1>3. Len(s) \in Nat /\ \A k \in 1..Len(s) : s[k] \in S
  BY <1>1, LenProperties, ElementOfSeq
<1>4. i \in Nat /\ 1 <= i /\ i <= Len(s)
  BY <1>1, <1>3
<1>5. /\ SubSeq(s, 1, i-1) \in Seq(S)
      /\ Len(SubSeq(s, 1, i-1)) = i - 1
  <2>1. \A k \in 1..(i-1) : s[k] \in S
    BY <1>3, <1>4
  <2>2. Len(SubSeq(s, 1, i-1)) = IF 1 <= i-1 THEN (i-1)-1+1 ELSE 0
    BY <1>4, <2>1, SubSeqProperties
  <2>3. SubSeq(s, 1, i-1) \in Seq(S)
    BY <1>4, <2>1, SubSeqProperties
  <2>. QED
    BY <1>4, <2>2, <2>3
<1>6. /\ SubSeq(s, i+1, Len(s)) \in Seq(S)
      /\ Len(SubSeq(s, i+1, Len(s))) = Len(s) - i
  <2>1. \A k \in (i+1)..Len(s) : s[k] \in S
    BY <1>3, <1>4
  <2>2. Len(SubSeq(s, i+1, Len(s))) = IF i+1 <= Len(s) THEN Len(s)-(i+1)+1 ELSE 0
    BY <1>3, <1>4, <2>1, SubSeqProperties
  <2>3. SubSeq(s, i+1, Len(s)) \in Seq(S)
    BY <1>3, <1>4, <2>1, SubSeqProperties
  <2>. QED
    BY <1>3, <1>4, <2>2, <2>3
<1>7. ASSUME NEW a \in Seq(S), NEW b \in Seq(S), Finished(i) = a \o b,
             Len(a) = i - 1, Len(b) = Len(s) - i
      PROVE  Finished(i) \in Seq(S) /\ Len(Finished(i)) = Len(s) - 1
  BY <1>3, <1>4, <1>7, ConcatProperties
<1>. QED
  BY <1>1, <1>2, <1>5, <1>6, <1>7

(* What the timers open is a screen, and something is opened unless the    *)
(* core has crashed.                                                       *)
LEMMA JumpTargetType ==
    /\ JumpTarget = <<>> => crashed
    /\ JumpTarget # <<>> => JumpTarget[1] \in Plain
BY DEF JumpTarget, Plain, Kind, Timed, NeedsCore

LEMMA JumpEffect ==
    ASSUME NEW S, Plain \subseteq S, NEW s \in Seq(S), JumpFrom(s)
    PROVE  /\ stack' \in Seq(S)
           /\ stack' = <<>> => crashed
           /\ Settle(stack')
<1>1. "SplashPaused" \in S
  BY DEF Plain, Kind, Timed
<1>2. CASE JumpTarget = <<>>
  BY <1>2, JumpTargetType DEF JumpFrom, Settle
<1>3. CASE JumpTarget # <<>>
  BY <1>1, <1>3, JumpTargetType, OpenStack DEF JumpFrom, Settle
<1>. QED
  BY <1>2, <1>3

LEMMA AfterLoadingStack ==
    ASSUME NEW S, Plain \subseteq S, NEW s \in Seq(S), NEW kind
    PROVE  /\ AfterLoading(kind, s) \in Seq(S)
           /\ AfterLoading(kind, s) = <<>> => kind = "LoadingInit" /\ s = <<>>
<1>1. /\ "SplashPaused" \in S
      /\ (IF pref.appInit THEN "Wallet" ELSE "Start") \in S
  BY DEF Plain, Kind, Timed, NeedsCore
<1>. QED
  BY <1>1, OpenStack DEF AfterLoading

----------------------------------------------------------------------------
(* Types.                                                                  *)
LEMMA SettleType ==
    ASSUME TypeInv, NEW s, s \in Seq(Kind), Settle(s)
    PROVE  /\ stack' \in Seq(Kind)
           /\ front' \in {"away", "coming", "resumed"}
           /\ front' # "away" => stack' # <<>>
BY DEF TypeInv, TypeOK, Settle

LEMMA GhostType ==
    ASSUME TypeInv
    PROVE  /\ \A k \in Haunting : AddGhost(k) \in [GhostKind -> Nat]
           /\ \A k \in GhostKind : ghosts[k] > 0 => DropGhost(k) \in [GhostKind -> Nat]
<1>1. ASSUME NEW k \in Haunting
      PROVE  AddGhost(k) \in [GhostKind -> Nat]
  <2>1. GhostOf(k) \in GhostKind
    BY DEF GhostOf, GhostKind, Haunting, Timed
  <2>. QED
    BY <2>1 DEF AddGhost, TypeInv, TypeOK
<1>2. ASSUME NEW k \in GhostKind, ghosts[k] > 0
      PROVE  DropGhost(k) \in [GhostKind -> Nat]
  BY <1>2 DEF DropGhost, TypeInv, TypeOK
<1>. QED
  BY <1>1, <1>2

LEMMA NudgeType ==
    ASSUME TypeInv, Nudge
    PROVE  jobs' \in 0..MaxJobs
BY StartAssumption DEF Nudge, TypeInv, TypeOK

(* The top of a shown stack is a screen, and it can be replaced.           *)
LEMMA TopScreen ==
    ASSUME TypeInv, front # "away"
    PROVE  Len(stack) \in 1..Len(stack) /\ Top \in Kind
<1>1. stack \in Seq(Kind) /\ stack # <<>>
  BY DEF TypeInv, TypeOK
<1>2. Len(stack) \in Nat \ {0}
  BY <1>1, EmptySeq
<1>3. Len(stack) \in 1..Len(stack)
  BY <1>2
<1>. QED
  BY <1>1, <1>3, ElementOfSeq DEF Top

LEMMA TypeInit == Init => TypeInv
<1>. SUFFICES ASSUME Init PROVE TypeInv
  OBVIOUS
<1>1. stack \in Seq(Kind)
  BY EmptySeq DEF Init
<1>2. pref \in Preference /\ disk \in Preference
  BY DEF Init, Preference
<1>3. ghosts \in [GhostKind -> Nat]
  BY DEF Init, NoGhost
<1>4. /\ alive \in BOOLEAN /\ crashed \in BOOLEAN
      /\ abandoned \in BOOLEAN /\ blind \in BOOLEAN
  BY Zenon DEF Init
<1>5. /\ core \in {"stopped", "starting", "started"}
      /\ jobs \in 0..MaxJobs /\ launches \in 0..MaxLaunches /\ kills \in 0..MaxKills
  BY StartAssumption DEF Init
<1>6. front = "away"
  BY DEF Init
<1>. QED
  BY <1>1, <1>2, <1>3, <1>4, <1>5, <1>6 DEF TypeInv, TypeOK

(* The steps that leave the screens alone.                                 *)
LEMMA CoreType ==
    ASSUME TypeInv, CoreBegins \/ CoreStarts \/ CoreFails \/ Flush
    PROVE  TypeInv'
<1>1. CASE CoreBegins
  <2>1. jobs' \in 0..MaxJobs
    BY <1>1, StartAssumption DEF CoreBegins, TypeInv, TypeOK
  <2>2. core' \in {"stopped", "starting", "started"}
    BY <1>1 DEF CoreBegins
  <2>. QED
    BY <1>1, <2>1, <2>2
    DEF CoreBegins, TypeInv, TypeOK, prefVars, countVars
<1>2. CASE CoreStarts
  BY <1>2 DEF CoreStarts, TypeInv, TypeOK, prefVars, countVars
<1>3. CASE CoreFails
  <2>1. crashed' \in BOOLEAN /\ core' \in {"stopped", "starting", "started"}
    BY <1>3 DEF CoreFails
  <2>. QED
    BY <1>3, <2>1 DEF CoreFails, TypeInv, TypeOK, prefVars, countVars
<1>4. CASE Flush
  <2>1. pref \in Preference /\ disk \in Preference
    BY DEF TypeInv, TypeOK
  <2>2. [disk EXCEPT !.pin = pref.pin] \in Preference
    BY <2>1 DEF Preference
  <2>3. disk' \in Preference
    BY <1>4, <2>1, <2>2 DEF Flush
  <2>. QED
    BY <1>4, <2>3 DEF Flush, TypeInv, TypeOK, coreVars, countVars
<1>. QED
  BY <1>1, <1>2, <1>3, <1>4

LEMMA PlainKind == Plain \subseteq Kind /\ "PinResult" \in Kind /\ "SplashPaused" \in Kind
BY DEF Plain, Kind, Timed

LEMMA SplashTimerType ==
    ASSUME TypeInv, SplashTimer
    PROVE  TypeInv'
<1>1. /\ stack' \in Seq(Kind)
      /\ Settle(stack')
      /\ ghosts' \in [GhostKind -> Nat]
  <2>0. stack \in Seq(Kind) /\ ghosts \in [GhostKind -> Nat]
    BY DEF TypeInv, TypeOK
  <2>1. ASSUME NEW i \in 1..Len(stack), JumpFrom(Finished(i)), ghosts' = ghosts
        PROVE  stack' \in Seq(Kind) /\ Settle(stack') /\ ghosts' \in [GhostKind -> Nat]
    BY <2>0, <2>1, PlainKind, FinishedStack, JumpEffect
  <2>2. ASSUME ghosts["Splash"] > 0, ghosts' = DropGhost("Splash"), JumpFrom(stack)
        PROVE  stack' \in Seq(Kind) /\ Settle(stack') /\ ghosts' \in [GhostKind -> Nat]
    <3>1. "Splash" \in GhostKind
      BY DEF GhostKind, Haunting, Timed
    <3>. QED
      BY <2>0, <2>2, <3>1, PlainKind, GhostType, JumpEffect
  <2>. QED
    BY <2>1, <2>2 DEF SplashTimer
<1>2. /\ front' \in {"away", "coming", "resumed"}
      /\ front' # "away" => stack' # <<>>
  BY <1>1, SettleType
<1>. QED
  BY <1>1, <1>2 DEF SplashTimer, TypeInv, TypeOK, coreVars, prefVars, countVars

LEMMA LoadingTimerType ==
    ASSUME TypeInv, LoadingTimer
    PROVE  TypeInv'
<1> DEFINE Types == /\ stack' \in Seq(Kind)
                    /\ front' \in {"away", "coming", "resumed"}
                    /\ front' # "away" => stack' # <<>>
                    /\ jobs' \in 0..MaxJobs
                    /\ ghosts' \in [GhostKind -> Nat]
                    /\ abandoned' \in BOOLEAN
<1>0. /\ stack \in Seq(Kind) /\ jobs \in 0..MaxJobs
      /\ ghosts \in [GhostKind -> Nat] /\ abandoned \in BOOLEAN
      /\ front \in {"away", "coming", "resumed"}
      /\ front # "away" => stack # <<>>
  BY DEF TypeInv, TypeOK
<1>1. ASSUME NEW i \in 1..Len(stack), stack[i] \in {"Loading", "LoadingInit"}
      PROVE  Finished(i) \in Seq(Kind) /\ AddGhost(stack[i]) \in [GhostKind -> Nat]
  <2>1. stack[i] \in Haunting
    BY <1>1 DEF Haunting, Timed
  <2>. QED
    BY <1>0, <2>1, PlainKind, FinishedStack, GhostType
<1>2. ASSUME NEW i \in 1..Len(stack), stack[i] \in {"Loading", "LoadingInit"},
             Settle(AfterLoading(stack[i], Finished(i))),
             UNCHANGED <<jobs, ghosts, abandoned>>
      PROVE  Types
  <2>1. AfterLoading(stack[i], Finished(i)) \in Seq(Kind)
    BY <1>1, <1>2, PlainKind, AfterLoadingStack
  <2>. QED
    BY <1>0, <1>2, <2>1, SettleType
<1>3. ASSUME NEW i \in 1..Len(stack), stack[i] \in {"Loading", "LoadingInit"},
             Nudge, Settle(Finished(i)), ghosts' = AddGhost(stack[i]),
             abandoned' = (abandoned \/ Asker(i))
      PROVE  Types
  <2>1. abandoned' \in BOOLEAN
    BY <1>3, Zenon
  <2>. QED
    BY <1>1, <1>3, <2>1, SettleType, NudgeType
<1>4. ASSUME Nudge, UNCHANGED <<stack, front, ghosts, abandoned>>
      PROVE  Types
  BY <1>0, <1>4, NudgeType
<1>5. Types
  BY <1>2, <1>3, <1>4 DEF LoadingTimer
<1>. QED
  BY <1>5 DEF LoadingTimer, TypeInv, TypeOK, prefVars, countVars

LEMMA GhostTimerType ==
    ASSUME TypeInv, GhostTimer
    PROVE  TypeInv'
<1> DEFINE Types == /\ stack' \in Seq(Kind)
                    /\ front' \in {"away", "coming", "resumed"}
                    /\ front' # "away" => stack' # <<>>
                    /\ jobs' \in 0..MaxJobs
                    /\ ghosts' \in [GhostKind -> Nat]
<1>0. /\ stack \in Seq(Kind) /\ jobs \in 0..MaxJobs
      /\ ghosts \in [GhostKind -> Nat]
      /\ front \in {"away", "coming", "resumed"}
      /\ front # "away" => stack # <<>>
  BY DEF TypeInv, TypeOK
<1>1. ASSUME NEW kind \in {"Loading", "LoadingInit"}, ghosts[kind] > 0,
             ghosts' = DropGhost(kind), Settle(AfterLoading(kind, stack)), UNCHANGED jobs
      PROVE  Types
  <2>1. AfterLoading(kind, stack) \in Seq(Kind)
    BY <1>0, PlainKind, AfterLoadingStack
  <2>2. ghosts' \in [GhostKind -> Nat]
    <3>1. kind \in GhostKind
      BY DEF GhostKind, Haunting, Timed
    <3>. QED
      BY <1>1, <3>1, GhostType
  <2>. QED
    BY <1>0, <1>1, <2>1, <2>2, SettleType
<1>2. ASSUME Nudge, UNCHANGED <<ghosts, stack, front>>
      PROVE  Types
  BY <1>0, <1>2, NudgeType
<1>3. Types
  BY <1>1, <1>2 DEF GhostTimer
<1>. QED
  BY <1>3 DEF GhostTimer, TypeInv, TypeOK, prefVars, countVars

LEMMA ResumeType ==
    ASSUME TypeInv, OnResume
    PROVE  TypeInv'
<1> DEFINE Types == /\ stack' \in Seq(Kind)
                    /\ front' \in {"away", "coming", "resumed"}
                    /\ front' # "away" => stack' # <<>>
                    /\ ghosts' \in [GhostKind -> Nat]
                    /\ blind' \in BOOLEAN
<1>0. /\ stack \in Seq(Kind) /\ stack # <<>>
      /\ ghosts \in [GhostKind -> Nat] /\ blind \in BOOLEAN
  BY DEF OnResume, TypeInv, TypeOK
<1>1. Len(stack) \in 1..Len(stack)
  BY TopScreen DEF OnResume
<1>2. ASSUME JumpFrom(Finished(Len(stack))), ghosts' = AddGhost("Splash"), UNCHANGED blind
      PROVE  Types
  <2>1. "Splash" \in Haunting
    BY DEF Haunting, Timed
  <2>2. stack' \in Seq(Kind) /\ Settle(stack')
    BY <1>0, <1>1, <1>2, PlainKind, FinishedStack, JumpEffect
  <2>. QED
    BY <1>0, <1>2, <2>1, <2>2, SettleType, GhostType
<1>3. ASSUME NEW kind \in {"Mnemonic", "Loading"}, Settle(Replace(kind)),
             UNCHANGED ghosts, blind' \in BOOLEAN
      PROVE  Types
  <2>1. kind \in Kind
    BY DEF Kind, NeedsCore, Timed
  <2>. QED
    BY <1>0, <1>3, <2>1, ReplaceStack, SettleType
<1>4. ASSUME Settle(Replace("Mnemonic")), blind' = (blind \/ ~Started), UNCHANGED ghosts
      PROVE  Types
  <2>1. blind' \in BOOLEAN
    BY <1>4, Zenon
  <2>. QED
    BY <1>3, <1>4, <2>1
<1>5. ASSUME Settle(Replace("Loading")), UNCHANGED <<ghosts, blind>>
      PROVE  Types
  BY <1>0, <1>3, <1>5
<1>6. ASSUME front' = "resumed", UNCHANGED <<stack, ghosts, blind>>
      PROVE  Types
  BY <1>0, <1>6
<1>7. Types
  BY <1>2, <1>4, <1>5, <1>6 DEF OnResume
<1>. QED
  BY <1>7 DEF OnResume, TypeInv, TypeOK, coreVars, prefVars, countVars

(* The clicks of the user lead to a stack that is not empty.               *)
ClickStep ==
    \/ CreateWallet \/ OpenRestore \/ RestoreFile \/ OpenWords \/ EndTutorial
    \/ OpenNodes \/ SelectNode \/ EnterPin \/ Continue

LEMMA ClickEffect ==
    ASSUME NEW S, Plain \subseteq S, stack \in Seq(S), TypeInv, ClickStep
    PROVE  /\ \E kind \in Plain : \E s \in Seq(S) : Click(kind, s) /\ s # <<>>
           /\ pref' \in Preference
           /\ UNCHANGED abandoned
<1>0. /\ pref \in Preference
      /\ {"Start", "Restore", "Words", "Tutorial", "Pin", "Node", "Mnemonic", "Wallet",
          "LoadingInit", "SplashPaused"} \subseteq Plain
  BY DEF TypeInv, TypeOK, Plain, Kind, NeedsCore, Timed
<1>a. /\ [pref EXCEPT !.appInit = @ \/ pref.pin] \in Preference
      /\ [pin |-> TRUE, appInit |-> TRUE] \in Preference
  <2>1. \A b \in BOOLEAN : [pref EXCEPT !.appInit = b] \in Preference
    BY <1>0 DEF Preference
  <2>2. (pref.appInit \/ pref.pin) \in BOOLEAN
    BY Zenon
  <2>3. [pref EXCEPT !.appInit = @ \/ pref.pin] \in Preference
    BY <2>1, <2>2
  <2>. QED
    BY <2>3 DEF Preference
<1>b. ASSUME NEW kind \in Plain, NEW s, Click(kind, s)
      PROVE  stack # <<>> /\ Len(stack) \in Nat \ {0}
  BY <1>b, EmptySeq DEF Click, TypeInv
<1>c. ASSUME NEW kind \in Plain, NEW new \in Plain, Click(kind, Replace(new))
      PROVE  Replace(new) \in Seq(S) /\ Replace(new) # <<>>
  <2>1. Replace(new) \in Seq(S) /\ Len(Replace(new)) = Len(stack)
    BY ReplaceStack
  <2>. QED
    BY <1>b, <1>c, <2>1, EmptySeq
<1>d. ASSUME NEW new \in Plain
      PROVE  Open(stack, new) \in Seq(S) /\ Open(stack, new) # <<>>
  BY <1>0, OpenStack
<1>1. CASE CreateWallet
  BY <1>1, <1>0, <1>c DEF CreateWallet
<1>2. CASE RestoreFile
  <2>1. CASE Click("Restore", Replace("Tutorial"))
    BY <1>2, <2>1, <1>0, <1>c DEF RestoreFile
  <2>2. CASE Click("Restore", Open(Replace("Tutorial"), "Tutorial"))
    <3>1. Replace("Tutorial") \in Seq(S)
      BY <1>0, ReplaceStack
    <3>2. /\ Open(Replace("Tutorial"), "Tutorial") \in Seq(S)
          /\ Open(Replace("Tutorial"), "Tutorial") # <<>>
      BY <3>1, <1>0, OpenStack
    <3>. QED
      BY <1>2, <2>2, <3>2, <1>0 DEF RestoreFile
  <2>. QED
    BY <1>2, <2>1, <2>2 DEF RestoreFile
<1>3. CASE OpenRestore \/ OpenWords
  BY <1>3, <1>0, <1>d DEF OpenRestore, OpenWords
<1>4. CASE EndTutorial
  <2>1. (IF pref.pin THEN "LoadingInit" ELSE "Pin") \in Plain
    BY <1>0
  <2>. QED
    BY <1>4, <2>1, <1>0, <1>a, <1>c DEF EndTutorial, PinOpened
<1>5. CASE OpenNodes
  BY <1>5, <1>0, <1>d DEF OpenNodes
<1>6. CASE SelectNode
  <2>1. (IF pref.pin THEN "Wallet" ELSE "Pin") \in Plain
    BY <1>0
  <2>. QED
    BY <1>6, <2>1, <1>0, <1>c DEF SelectNode
<1>7. CASE EnterPin
  BY <1>7, <1>0, <1>a, <1>d DEF EnterPin
<1>8. CASE Continue
  BY <1>8, <1>0, <1>c DEF Continue
<1>. QED
  BY <1>1, <1>2, <1>3, <1>4, <1>5, <1>6, <1>7, <1>8 DEF ClickStep

(* The restore from words, with what it may leave of the stack.            *)
WordsScreen == SubmitWords \/ WordsFail \/ RestoreWords

LEMMA WordsEffect ==
    ASSUME NEW S, Plain \subseteq S, stack \in Seq(S), TypeInv, WordsScreen
    PROVE  /\ stack' \in Seq(S)
           /\ stack' = <<>> => stack = <<>>
           /\ front' \in {"away", "coming", "resumed"}
           /\ front' # "away" => stack' # <<>>
           /\ ghosts' \in [GhostKind -> Nat]
           /\ pref' = pref \/ pref' = [pref EXCEPT !.appInit = @ \/ pref.pin]
           /\ UNCHANGED <<alive, coreVars, disk, abandoned, blind, countVars>>
<1>0. /\ {"Wallet", "Tutorial", "Words", "Restoring", "SplashPaused"} \subseteq S
      /\ "Restoring" \in GhostKind
      /\ front \in {"away", "coming", "resumed"}
      /\ front # "away" => stack # <<>>
      /\ ghosts \in [GhostKind -> Nat]
  BY DEF Plain, Kind, NeedsCore, Timed, GhostKind, Haunting, TypeInv, TypeOK
<1>1. ghosts["Restoring"] > 0 => DropGhost("Restoring") \in [GhostKind -> Nat]
  BY <1>0, GhostType
<1>2. ASSUME NEW n, NEW kind \in S, stack' = [stack EXCEPT ![n] = kind]
      PROVE  stack' \in Seq(S) /\ (stack' = <<>> => stack = <<>>)
  BY <1>2, ExceptAnywhere, EmptySeq
<1>3. CASE SubmitWords
  <2>1. stack' \in Seq(S) /\ (stack' = <<>> => stack = <<>>)
    BY <1>0, <1>2, <1>3 DEF SubmitWords, Replace
  <2>. QED
    BY <1>0, <1>3, <2>1 DEF SubmitWords, prefVars
<1>4. CASE WordsFail
  <2>1. stack' \in Seq(S) /\ (stack' = <<>> => stack = <<>>)
    BY <1>0, <1>2, <1>4 DEF WordsFail
  <2>2. ghosts' \in [GhostKind -> Nat]
    BY <1>0, <1>1, <1>4 DEF WordsFail
  <2>. QED
    BY <1>0, <1>4, <2>1, <2>2 DEF WordsFail, prefVars
<1>5. CASE RestoreWords
  <2> DEFINE next == IF pref.pin THEN "Wallet" ELSE "Tutorial"
  <2>0. next \in S
    BY <1>0
  <2>1. PICK s \in Seq(S) : Settle(Open(s, next))
    <3>1. ASSUME NEW i \in 1..Len(stack), stack[i] = "Restoring"
          PROVE  Finished(i) \in Seq(S)
      BY <3>1, FinishedStack DEF Asker
    <3>. QED
      BY <1>5, <3>1 DEF RestoreWords, LeaveWords
  <2>2. Open(s, next) \in Seq(S) /\ Open(s, next) # <<>>
    BY <1>0, <2>0, OpenStack
  <2>3. ghosts' \in [GhostKind -> Nat]
    BY <1>0, <1>1, <1>5 DEF RestoreWords, LeaveWords
  <2>4. /\ pref' = [pref EXCEPT !.appInit = @ \/ pref.pin]
        /\ UNCHANGED <<alive, coreVars, disk, abandoned, blind, countVars>>
    BY <1>5 DEF RestoreWords, LeaveWords
  <2>. HIDE DEF next
  <2>5. /\ stack' \in Seq(S) /\ stack' # <<>>
        /\ front' \in {"away", "coming", "resumed"}
    BY <1>0, <2>1, <2>2 DEF Settle
  <2>. QED
    BY <2>3, <2>4, <2>5
<1>. QED
  BY <1>3, <1>4, <1>5 DEF WordsScreen

(* Back, with what it may leave of the stack.                              *)
LEMMA BackEffect ==
    ASSUME NEW S, Plain \subseteq S, stack \in Seq(S), TypeInv, Back,
           Asker(Len(stack)) => "PinResult" \in S
    PROVE  /\ stack' \in Seq(S)
           /\ Settle(stack')
           /\ ghosts' \in [GhostKind -> Nat]
           /\ abandoned' \in BOOLEAN
<1>1. Len(stack) \in 1..Len(stack)
  BY TopScreen DEF Back
<1>2. "Start" \in S
  BY DEF Plain, Kind
<1>3. Finished(Len(stack)) \in Seq(S) /\ Replace("Start") \in Seq(S)
  BY <1>1, <1>2, FinishedStack, ReplaceStack
<1>4. ghosts' \in [GhostKind -> Nat]
  <2>1. Top \in Haunting => AddGhost(Top) \in [GhostKind -> Nat]
    BY GhostType
  <2>. QED
    BY <2>1 DEF Back, TypeInv, TypeOK
<1>5. abandoned' \in BOOLEAN
  BY Zenon DEF Back
<1>6. stack' \in Seq(S) /\ Settle(stack')
  BY <1>3 DEF Back, Settle
<1>. QED
  BY <1>4, <1>5, <1>6

LEMMA UserType ==
    ASSUME TypeInv, User \/ Kill \/ WordsScreen
    PROVE  TypeInv'
<1>0. /\ stack \in Seq(Kind) /\ jobs \in 0..MaxJobs
      /\ pref \in Preference /\ disk \in Preference
      /\ launches \in 0..MaxLaunches /\ kills \in 0..MaxKills
  BY DEF TypeInv, TypeOK
<1>1. CASE Launch
  <2> DEFINE first == IF ~pref.appInit \/ Splash THEN "Splash" ELSE "Wallet"
  <2>1. first \in Kind
    BY DEF Kind, Timed, NeedsCore
  <2>2. <<first>> \in Seq(Kind)
    BY <2>1, EmptySeq, AppendProperties
  <2>3. /\ stack' \in Seq(Kind)
        /\ front' \in {"away", "coming", "resumed"}
        /\ front' # "away" => stack' # <<>>
    BY <1>1, <2>2, SettleType DEF Launch
  <2>4. jobs' \in 0..MaxJobs
    BY <1>0, <1>1, StartAssumption DEF Launch
  <2>5. launches' \in 0..MaxLaunches
    BY <1>0, <1>1, StartAssumption DEF Launch
  <2>6. alive' \in BOOLEAN
    BY <1>1 DEF Launch
  <2>. QED
    BY <1>1, <2>3, <2>4, <2>5, <2>6 DEF Launch, TypeInv, TypeOK, prefVars
<1>2. CASE Home
  <2>1. stack' \in Seq(Kind)
    BY <1>0, <1>2, PlainKind, PausedStack DEF Home
  <2>. QED
    BY <1>2, <2>1 DEF Home, TypeInv, TypeOK, coreVars, prefVars, countVars
<1>3. CASE Return
  BY <1>3 DEF Return, TypeInv, TypeOK, coreVars, prefVars, countVars
<1>4. CASE ClickStep
  <2>1. PICK kind \in Plain, s \in Seq(Kind) : Click(kind, s)
    BY <1>0, <1>4, PlainKind, ClickEffect
  <2>2. pref' \in Preference /\ abandoned' = abandoned
    BY <1>0, <1>4, PlainKind, ClickEffect
  <2>3. /\ stack' \in Seq(Kind)
        /\ front' \in {"away", "coming", "resumed"}
        /\ front' # "away" => stack' # <<>>
    BY <2>1, SettleType DEF Click
  <2>. QED
    BY <2>1, <2>2, <2>3 DEF Click, TypeInv, TypeOK, coreVars, countVars
<1>5. CASE Back
  <2>1. /\ stack' \in Seq(Kind) /\ Settle(stack')
        /\ ghosts' \in [GhostKind -> Nat] /\ abandoned' \in BOOLEAN
    BY <1>0, <1>5, PlainKind, BackEffect
  <2>2. /\ front' \in {"away", "coming", "resumed"}
        /\ front' # "away" => stack' # <<>>
    BY <2>1, SettleType
  <2>. QED
    BY <1>5, <2>1, <2>2 DEF Back, TypeInv, TypeOK, coreVars, prefVars, countVars
<1>6. CASE Kill
  <2>1. /\ stack' \in Seq(Kind) /\ front' = "away"
    BY <1>6, EmptySeq DEF Kill
  <2>2. /\ pref' \in Preference /\ disk' \in Preference
        /\ kills' \in 0..MaxKills /\ launches' \in 0..MaxLaunches
        /\ jobs' \in 0..MaxJobs
    BY <1>0, <1>6, StartAssumption DEF Kill
  <2>3. ghosts' \in [GhostKind -> Nat]
    BY <1>6 DEF Kill, NoGhost
  <2>4. /\ alive' \in BOOLEAN /\ crashed' \in BOOLEAN
        /\ abandoned' \in BOOLEAN /\ blind' \in BOOLEAN
        /\ core' \in {"stopped", "starting", "started"}
    BY <1>6 DEF Kill
  <2>. QED
    BY <2>1, <2>2, <2>3, <2>4 DEF TypeInv, TypeOK
<1>7. CASE WordsScreen
  <2>1. /\ stack' \in Seq(Kind)
        /\ front' \in {"away", "coming", "resumed"}
        /\ front' # "away" => stack' # <<>>
        /\ ghosts' \in [GhostKind -> Nat]
        /\ pref' = pref \/ pref' = [pref EXCEPT !.appInit = @ \/ pref.pin]
        /\ UNCHANGED <<alive, coreVars, disk, abandoned, blind, countVars>>
    BY <1>0, <1>7, PlainKind, WordsEffect
  <2>2. pref' \in Preference
    <3>1. \A b \in BOOLEAN : [pref EXCEPT !.appInit = b] \in Preference
      BY <1>0 DEF Preference
    <3>2. (pref.appInit \/ pref.pin) \in BOOLEAN
      BY Zenon
    <3>3. [pref EXCEPT !.appInit = @ \/ pref.pin] \in Preference
      BY <3>1, <3>2
    <3>. QED
      BY <1>0, <2>1, <3>3
  <2>. QED
    BY <2>1, <2>2 DEF TypeInv, TypeOK, coreVars, countVars
<1>. QED
  BY <1>1, <1>2, <1>3, <1>4, <1>5, <1>6, <1>7 DEF User, ClickStep, WordsScreen

LEMMA TypeStep == TypeInv /\ [Next]_vars => TypeInv'
<1>1. ASSUME TypeInv, UNCHANGED vars
      PROVE  TypeInv'
  BY <1>1 DEF TypeInv, TypeOK, vars, coreVars, prefVars, countVars
<1>. QED
  BY <1>1, CoreType, SplashTimerType, LoadingTimerType, GhostTimerType, ResumeType, UserType
  DEF Next, WordsScreen

(* The variables keep their types, whatever the number of screens, starts  *)
(* and deaths.                                                             *)
THEOREM TypeCorrect == Spec => []TypeOK
<1>1. TypeInv => TypeOK
  BY DEF TypeInv
<1>. QED
  BY <1>1, TypeInit, TypeStep, PTL DEF Spec

----------------------------------------------------------------------------
(* The preferences.                                                        *)
LEMMA PinStep == PinInv /\ TypeInv /\ [Next]_vars => PinInv'
<1>. SUFFICES ASSUME PinInv, TypeInv, [Next]_vars
              PROVE  PinInv'
  OBVIOUS
<1>0. /\ pref \in Preference /\ disk \in Preference
      /\ pref.pin \in BOOLEAN /\ pref.appInit \in BOOLEAN
      /\ disk.pin \in BOOLEAN /\ disk.appInit \in BOOLEAN
  BY DEF TypeInv, TypeOK, Preference
<1>1. CASE UNCHANGED prefVars
  BY <1>1 DEF PinInv, InitHasPin, prefVars
<1>2. CASE Flush
  <2>1. CASE disk.pin # pref.pin
    <3>1. disk' = [disk EXCEPT !.pin = pref.pin] /\ pref' = pref
      BY <1>2, <2>1 DEF Flush
    <3>2. disk' \in Preference /\ disk'.pin = pref.pin /\ disk'.appInit = disk.appInit
      BY <1>0, <3>1 DEF Preference
    <3>. QED
      BY <3>1, <3>2 DEF PinInv, InitHasPin
  <2>2. CASE disk.pin = pref.pin
    <3>1. disk' = pref /\ pref' = pref
      BY <1>2, <2>2 DEF Flush
    <3>. QED
      BY <3>1 DEF PinInv, InitHasPin
  <2>. QED
    BY <2>1, <2>2
<1>3. CASE Kill
  BY <1>3 DEF Kill, PinInv, InitHasPin
<1>4. CASE ClickStep
  <2>1. disk' = disk
    BY <1>4 DEF ClickStep, Click, CreateWallet, OpenRestore, RestoreFile, OpenWords,
                EndTutorial, OpenNodes, SelectNode, EnterPin, Continue
  <2>2. ASSUME pref' = [pref EXCEPT !.appInit = @ \/ pref.pin]
        PROVE  pref'.pin = pref.pin /\ pref'.appInit = (pref.appInit \/ pref.pin)
    BY <1>0, <2>2 DEF Preference
  <2>3. \/ pref' = pref
        \/ pref' = [pref EXCEPT !.appInit = @ \/ pref.pin]
        \/ pref' = [pin |-> TRUE, appInit |-> TRUE]
    BY <1>4 DEF ClickStep, CreateWallet, OpenRestore, RestoreFile, OpenWords,
                EndTutorial, PinOpened, OpenNodes, SelectNode, EnterPin, Continue
  <2>4. pref' \in Preference
    <3>1. stack \in Seq(Kind)
      BY DEF TypeInv, TypeOK
    <3>. QED
      BY <1>4, <3>1, PlainKind, ClickEffect
  <2>5. CASE pref' = pref
    BY <2>1, <2>5 DEF PinInv, InitHasPin
  <2>6. CASE pref' = [pref EXCEPT !.appInit = @ \/ pref.pin]
    BY <2>1, <2>2, <2>4, <2>6 DEF PinInv, InitHasPin
  <2>7. CASE pref' = [pin |-> TRUE, appInit |-> TRUE]
    BY <2>1, <2>4, <2>7 DEF PinInv, InitHasPin
  <2>. QED
    BY <2>3, <2>5, <2>6, <2>7
<1>5. CASE WordsScreen
  <2>1. disk' = disk /\ (pref' = pref \/ pref' = [pref EXCEPT !.appInit = @ \/ pref.pin])
    <3>1. stack \in Seq(Kind)
      BY DEF TypeInv, TypeOK
    <3>. QED
      BY <1>5, <3>1, PlainKind, WordsEffect
  <2>2. ASSUME pref' = [pref EXCEPT !.appInit = @ \/ pref.pin]
        PROVE  /\ pref' \in Preference
               /\ pref'.pin = pref.pin /\ pref'.appInit = (pref.appInit \/ pref.pin)
    <3>1. (pref.appInit \/ pref.pin) \in BOOLEAN
      BY Zenon
    <3>. QED
      BY <1>0, <2>2, <3>1 DEF Preference
  <2>3. CASE pref' = pref
    BY <2>1, <2>3 DEF PinInv, InitHasPin
  <2>4. CASE pref' = [pref EXCEPT !.appInit = @ \/ pref.pin]
    BY <2>1, <2>2, <2>4 DEF PinInv, InitHasPin
  <2>. QED
    BY <2>1, <2>3, <2>4
<1>6. Next => UNCHANGED prefVars \/ Flush \/ Kill \/ ClickStep \/ WordsScreen
  BY DEF Next, User, ClickStep, WordsScreen, CoreBegins, CoreStarts, CoreFails, SplashTimer, LoadingTimer,
         GhostTimer, OnResume, Launch, Home, Return, Back
<1>. QED
  BY <1>1, <1>2, <1>3, <1>4, <1>5, <1>6 DEF vars

(* An application that counts as set up has a PIN, wherever the process    *)
(* dies between the writes of the two preferences.                         *)
THEOREM SetUpHasPin == Spec => []InitHasPin
<1>1. Init => PinInv
  BY DEF Init, PinInv, InitHasPin, Preference
<1>2. PinInv => InitHasPin
  BY DEF PinInv
<1>. QED
  BY <1>1, <1>2, TypeInit, TypeStep, PinStep, PTL DEF Spec

----------------------------------------------------------------------------
(* The words.                                                              *)

(* Only the result of a loading screen brings "PinResult" onto the stack.  *)
LEMMA StackOf ==
    ASSUME WordsInv
    PROVE  stack \in Seq(Kind)
BY DEF WordsInv, TypeInv, TypeOK

LEMMA WordsStep == WordsInv /\ [Next]_vars => WordsInv'
<1>. SUFFICES ASSUME WordsInv, [Next]_vars
              PROVE  WordsInv'
  OBVIOUS
<1>0. TypeInv /\ TypeInv'
  BY TypeStep DEF WordsInv
<1>1. CASE UNCHANGED vars
  BY <1>0, <1>1 DEF WordsInv, WordsNeedCore, Started, vars, coreVars
<1>2. CASE CoreBegins \/ CoreStarts \/ CoreFails \/ Flush
  <2>1. /\ stack' = stack /\ abandoned' = abandoned /\ blind' = blind
        /\ Started => Started'
    BY <1>2 DEF CoreBegins, CoreStarts, CoreFails, Flush, Started, coreVars
  <2>. QED
    BY <1>0, <2>1 DEF WordsInv, WordsNeedCore
<1>3. CASE SplashTimer
  <2>1. /\ abandoned' = abandoned /\ blind' = blind
        /\ Started' <=> Started
    BY <1>3 DEF SplashTimer, Started, coreVars
  <2>2. ASSUME stack \in Seq(Plain)
        PROVE  stack' \in Seq(Plain)
    <3>1. ASSUME NEW i \in 1..Len(stack), stack[i] \in {"Splash", "SplashPaused"},
                 JumpFrom(Finished(i))
          PROVE  stack' \in Seq(Plain)
      <4>1. ~Asker(i)
        BY <3>1 DEF Asker
      <4>. QED
        BY <2>2, <3>1, <4>1, FinishedStack, JumpEffect
    <3>2. CASE JumpFrom(stack)
      BY <2>2, <3>2, JumpEffect
    <3>. QED
      BY <1>3, <3>1, <3>2 DEF SplashTimer
  <2>. QED
    BY <1>0, <2>1, <2>2 DEF WordsInv, WordsNeedCore
<1>4. CASE LoadingTimer
  <2>1. /\ blind' = blind /\ (Started' <=> Started) /\ (abandoned => abandoned')
    <3>1. blind' = blind /\ core' = core
      BY <1>4 DEF LoadingTimer
    <3>2. \/ abandoned' = abandoned
          \/ \E i \in 1..Len(stack) : abandoned' = (abandoned \/ Asker(i))
      BY <1>4 DEF LoadingTimer
    <3>3. Started' <=> Started
      BY <3>1 DEF Started
    <3>4. abandoned => abandoned'
      BY <3>2, Zenon
    <3>. QED
      BY <3>1, <3>3, <3>4
  <2>2. ASSUME stack \in Seq(Plain), ~Started
        PROVE  abandoned' \/ stack' \in Seq(Plain)
    <3>1. ASSUME NEW i \in 1..Len(stack), Settle(Finished(i)),
                 abandoned' = (abandoned \/ Asker(i))
          PROVE  abandoned' \/ stack' \in Seq(Plain)
      BY <2>2, <3>1, FinishedStack DEF Settle
    <3>. QED
      BY <1>4, <2>2, <3>1 DEF LoadingTimer
  <2>. QED
    BY <1>0, <2>1, <2>2 DEF WordsInv, WordsNeedCore
<1>5. CASE GhostTimer
  <2>1. /\ abandoned' = abandoned /\ blind' = blind
        /\ Started' <=> Started
    BY <1>5 DEF GhostTimer, Started
  <2>2. ASSUME stack \in Seq(Plain)
        PROVE  stack' \in Seq(Plain)
    BY <1>5, <2>2, AfterLoadingStack DEF GhostTimer, Settle
  <2>. QED
    BY <1>0, <2>1, <2>2 DEF WordsInv, WordsNeedCore
<1>6. CASE OnResume
  <2>0. /\ abandoned' = abandoned
        /\ Started' <=> Started
        /\ Len(stack) \in 1..Len(stack)
    BY <1>0, <1>6, TopScreen DEF OnResume, Started, coreVars
  <2>1. ASSUME stack \in Seq(Plain)
        PROVE  stack' \in Seq(Plain) /\ blind' = blind
    <3>1. Top \in Plain
      BY <2>0, <2>1, ElementOfSeq DEF Top
    <3>2. Top # "PinResult"
      BY <3>1 DEF Plain
    <3>3. ASSUME Top = "SplashPaused", JumpFrom(Finished(Len(stack)))
          PROVE  stack' \in Seq(Plain)
      <4>1. ~Asker(Len(stack))
        BY <3>3 DEF Asker, Top
      <4>. QED
        BY <2>0, <2>1, <3>3, <4>1, FinishedStack, JumpEffect
    <3>4. ASSUME Settle(Replace("Loading"))
          PROVE  stack' \in Seq(Plain)
      <4>1. "Loading" \in Plain
        BY DEF Plain, Kind, Timed
      <4>. QED
        BY <2>1, <3>4, <4>1, ReplaceStack DEF Settle
    <3>. QED
      BY <1>6, <2>1, <3>2, <3>3, <3>4 DEF OnResume
  <2>2. blind' => blind \/ ~Started
    BY <1>6 DEF OnResume
  <2>. QED
    BY <1>0, <2>0, <2>1, <2>2 DEF WordsInv, WordsNeedCore
<1>7. CASE Launch \/ Home \/ Return
  <2>1. /\ abandoned' = abandoned /\ blind' = blind
        /\ Started' <=> Started
    BY <1>7 DEF Launch, Home, Return, Started, coreVars
  <2>2. ASSUME stack \in Seq(Plain)
        PROVE  stack' \in Seq(Plain)
    <3>1. "Splash" \in Plain /\ "Wallet" \in Plain /\ "SplashPaused" \in Plain
      BY DEF Plain, Kind, Timed, NeedsCore
    <3>2. \A kind \in Plain : <<kind>> \in Seq(Plain)
      BY EmptySeq, AppendProperties
    <3>3. CASE Launch
      BY <3>1, <3>2, <3>3 DEF Launch, Settle
    <3>4. CASE Home
      BY <2>2, <3>1, <3>4, PausedStack DEF Home
    <3>5. CASE Return
      BY <2>2, <3>5 DEF Return
    <3>. QED
      BY <1>7, <3>3, <3>4, <3>5
  <2>. QED
    BY <1>0, <2>1, <2>2 DEF WordsInv, WordsNeedCore
<1>8. CASE ClickStep
  <2>1. ASSUME NEW S, Plain \subseteq S, stack \in Seq(S)
        PROVE  /\ stack' \in Seq(S)
               /\ abandoned' = abandoned /\ blind' = blind
               /\ Started' <=> Started
    <3>1. PICK kind \in Plain, s \in Seq(S) : Click(kind, s)
      BY <1>0, <1>8, <2>1, ClickEffect
    <3>2. abandoned' = abandoned
      BY <1>0, <1>8, <2>1, ClickEffect
    <3>. QED
      BY <3>1, <3>2 DEF Click, Settle, Started, coreVars
  <2>2. /\ abandoned' = abandoned /\ blind' = blind
        /\ Started' <=> Started
    BY <2>1, StackOf, PlainKind
  <2>3. stack \in Seq(Plain) => stack' \in Seq(Plain)
    BY <2>1
  <2>. QED
    BY <1>0, <2>2, <2>3 DEF WordsInv, WordsNeedCore
<1>9. CASE Back
  <2>1. /\ blind' = blind /\ (Started' <=> Started) /\ (abandoned => abandoned')
    BY <1>9 DEF Back, Started, coreVars
  <2>2. ASSUME stack \in Seq(Plain), ~Started
        PROVE  abandoned' \/ stack' \in Seq(Plain)
    <3>1. CASE Asker(Len(stack))
      BY <1>9, <2>2, <3>1 DEF Back
    <3>2. CASE ~Asker(Len(stack))
      BY <1>0, <1>9, <2>2, <3>2, BackEffect
    <3>. QED
      BY <3>1, <3>2
  <2>. QED
    BY <1>0, <2>1, <2>2 DEF WordsInv, WordsNeedCore
<1>10. CASE Kill
  <2>1. stack' \in Seq(Plain) /\ ~blind'
    BY <1>10, EmptySeq DEF Kill
  <2>. QED
    BY <1>0, <2>1 DEF WordsInv, WordsNeedCore
<1>11. CASE WordsScreen
  <2>1. ASSUME NEW S, Plain \subseteq S, stack \in Seq(S)
        PROVE  /\ stack' \in Seq(S)
               /\ abandoned' = abandoned /\ blind' = blind
               /\ Started' <=> Started
    BY <1>0, <1>11, <2>1, WordsEffect DEF Started, coreVars
  <2>2. /\ abandoned' = abandoned /\ blind' = blind
        /\ Started' <=> Started
    BY <2>1, StackOf, PlainKind
  <2>3. stack \in Seq(Plain) => stack' \in Seq(Plain)
    BY <2>1
  <2>. QED
    BY <1>0, <2>2, <2>3 DEF WordsInv, WordsNeedCore
<1>. QED
  BY <1>1, <1>2, <1>3, <1>4, <1>5, <1>6, <1>7, <1>8, <1>9, <1>10, <1>11
  DEF Next, User, ClickStep, WordsScreen

(* The words are asked of a core that is not started only after the        *)
(* loading screen was left or the core had crashed.                        *)
THEOREM WordsWaitForCore == Spec => []WordsNeedCore
<1>1. Init => WordsInv
  <2>. SUFFICES ASSUME Init PROVE WordsInv
    OBVIOUS
  <2>1. stack \in Seq(Plain) /\ ~blind
    BY EmptySeq DEF Init
  <2>. QED
    BY <2>1, TypeInit DEF WordsInv, WordsNeedCore
<1>2. WordsInv => WordsNeedCore
  BY DEF WordsInv
<1>. QED
  BY <1>1, <1>2, WordsStep, PTL DEF Spec

----------------------------------------------------------------------------
(* The end of the screens.                                                 *)
LEMMA CloseStep ==
    ASSUME TypeInv, [Next]_vars, stack \notin {<<>>, <<"LoadingInit">>}, stack' = <<>>
    PROVE  crashed \/ Back \/ Kill
<1>. SUFFICES ASSUME ~crashed, ~Back, ~Kill
              PROVE  FALSE
  OBVIOUS
<1>0. stack \in Seq(Kind) /\ Len(stack) \in Nat \ {0}
  BY EmptySeq DEF TypeInv, TypeOK
<1>1. stack' # stack
  OBVIOUS
<1>2. CASE SplashTimer
  <2>1. ASSUME NEW i \in 1..Len(stack), stack[i] \in {"Splash", "SplashPaused"},
               JumpFrom(Finished(i))
        PROVE  FALSE
    BY <1>0, <2>1, PlainKind, FinishedStack, JumpEffect
  <2>2. ASSUME JumpFrom(stack)
        PROVE  FALSE
    BY <1>0, <2>2, PlainKind, JumpEffect
  <2>. QED
    BY <1>2, <2>1, <2>2 DEF SplashTimer
<1>3. CASE LoadingTimer
  <2>1. PICK i \in 1..Len(stack) : stack' = AfterLoading(stack[i], Finished(i))
    BY <1>1, <1>3 DEF LoadingTimer, Settle
  <2>2. Finished(i) \in Seq(Kind) /\ Len(Finished(i)) = Len(stack) - 1
    BY <1>0, PlainKind, FinishedStack
  <2>3. stack[i] = "LoadingInit" /\ Finished(i) = <<>>
    BY <2>1, <2>2, PlainKind, AfterLoadingStack
  <2>4. Len(stack) = 1 /\ i = 1
    <3>1. Len(Finished(i)) = 0
      BY <2>3, EmptySeq
    <3>2. Len(stack) = 1
      BY <1>0, <2>2, <3>1
    <3>3. i \in 1..Len(stack)
      BY <2>1
    <3>. QED
      BY <3>2, <3>3
  <2>5. <<"LoadingInit">> \in Seq(Kind) /\ Len(<<"LoadingInit">>) = 1
        /\ <<"LoadingInit">>[1] = "LoadingInit"
    BY DEF Kind, Timed
  <2>6. stack = <<"LoadingInit">>
    BY <1>0, <2>3, <2>4, <2>5, SeqEqual
  <2>. QED
    BY <2>6
<1>4. CASE GhostTimer
  BY <1>0, <1>1, <1>4, PlainKind, AfterLoadingStack DEF GhostTimer, Settle
<1>5. CASE OnResume
  <2>1. Len(stack) \in 1..Len(stack)
    BY <1>0
  <2>2. ASSUME JumpFrom(Finished(Len(stack)))
        PROVE  FALSE
    <3>1. Finished(Len(stack)) \in Seq(Kind)
      BY <1>0, <2>1, PlainKind, FinishedStack
    <3>. QED
      BY <2>2, <3>1, PlainKind, JumpEffect
  <2>3. ASSUME NEW kind \in {"Mnemonic", "Loading"}, stack' = Replace(kind)
        PROVE  FALSE
    <3>1. kind \in Kind
      BY DEF Kind, NeedsCore, Timed
    <3>. QED
      BY <1>0, <2>3, <3>1, ReplaceStack, EmptySeq
  <2>. QED
    BY <1>1, <1>5, <2>2, <2>3 DEF OnResume, Settle
<1>6. CASE Launch
  BY <1>6 DEF Launch
<1>7. CASE Home
  BY <1>0, <1>7, PlainKind, PausedStack, EmptySeq DEF Home
<1>8. CASE ClickStep
  BY <1>0, <1>8, PlainKind, ClickEffect DEF Click, Settle
<1>9. CASE UNCHANGED stack
  BY <1>1, <1>9
<1>10. CASE WordsScreen
  BY <1>0, <1>10, PlainKind, WordsEffect
<1>11. Next => \/ SplashTimer \/ LoadingTimer \/ GhostTimer \/ OnResume
               \/ Launch \/ Home \/ ClickStep \/ WordsScreen \/ UNCHANGED stack
  BY DEF Next, User, ClickStep, WordsScreen, CoreBegins, CoreStarts, CoreFails, Return, Flush
<1>. QED
  BY <1>2, <1>3, <1>4, <1>5, <1>6, <1>7, <1>8, <1>9, <1>10, <1>11 DEF vars

(* The application closes only on Back, on a death or after a crash.       *)
THEOREM ClosedOnPurpose == Spec => ClosesOnPurpose
<1>1. TypeInv /\ [Next]_vars =>
          [stack \notin {<<>>, <<"LoadingInit">>} /\ stack' = <<>>
             => crashed \/ Back \/ Kill]_vars
  BY CloseStep
<1>. QED
  BY <1>1, TypeInit, TypeStep, PTL DEF Spec, ClosesOnPurpose
=============================================================================
