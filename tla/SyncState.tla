----------------------------- MODULE SyncState -----------------------------
(***************************************************************************)
(* What the wallet says about its synchronisation.  PivxWalletService      *)
(* keeps a blockchainState; the thread of the download peer sets it from   *)
(* the blocks that are left, the main thread overrides it when the network *)
(* goes away, and both announce it, at most once per window of six seconds *)
(* that lastMessageTime measures for the two together.  The drawer screen  *)
(* keeps a state of its own, which it takes from the announcements and     *)
(* recomputes from the peers when it is resumed or a peer connects.        *)
(*                                                                         *)
(* Each access of a thread to the shared fields is a step.  The accesses   *)
(* are taken in program order: blockchainState is not volatile, but the    *)
(* preferences (a lock) and lastMessageTime (volatile) are accessed        *)
(* between its accesses.                                                   *)
(***************************************************************************)
EXTENDS Integers, Sequences, FiniteSets

CONSTANTS
    Window,      \* the time without an announcement, 6 seconds
    SyncGap,     \* the service is in sync with fewer blocks left (6)
    ScreenGap,   \* the screen is in sync with fewer blocks missing (10)
    MaxGap,      \* bound on the blocks the peer is ahead
    MaxMail      \* bound on the announcements that wait for the screen

ASSUME SyncAssumption ==
    /\ Window \in Nat /\ MaxGap \in Nat /\ MaxMail \in Nat
    /\ SyncGap \in Nat \ {0} /\ ScreenGap \in Nat \ {0}

VARIABLES
    impediments,  \* field impediments
    state,        \* field blockchainState
    since,        \* time since lastMessageTime, up to Window + 1
    pc,           \* where each thread is in its callback
    left,         \* argument blocksLeft of the peer's callback
    gap,          \* blocks the connected peer is ahead of the stored chain
    recent,       \* is lastBestChainBlockTime younger than OUT_OF_SYNC_TIME?
    connected,    \* is a peer connected?
    mail,         \* local broadcasts posted to the main thread
    screen,       \* field blockchainState of the drawer screen
    threw         \* history: the peer's callback threw after it wrote the
                  \* state, and no thread looked at the impediments since

vars == <<impediments, state, since, pc, left, gap, recent, connected, mail, screen,
          threw>>
peerVars == <<gap, connected>>

Threads    == {"main", "peer"}
State      == {"SYNC", "SYNCING", "NOT_CONNECTION"}
Impediment == {"NETWORK", "STORAGE"}
Mail       == State \cup {"PEER_CONNECTED"}
Quiet      == since > Window

(* Bound: a callback begins, and a peer connects, only when the queue of   *)
(* the screen has room for what the callbacks under way may still post.    *)
Room == Len(mail) + Cardinality({p \in Threads : pc[p] # "idle"}) < MaxMail

----------------------------------------------------------------------------
Init ==
    /\ impediments = {}
    /\ state = "NOT_CONNECTION"
    /\ since = 0
    /\ pc = [p \in Threads |-> "idle"]
    /\ left = 0
    /\ gap \in 0..MaxGap
    /\ recent = FALSE
    /\ connected = FALSE
    /\ mail = <<>>
    /\ screen = "SYNCING"
    /\ threw = FALSE

----------------------------------------------------------------------------
(* The thread of the peer: onBlocksDownloaded.                             *)

(* Mutant: the blocks left are not kept from falling below zero.           *)
OnBlocksDownloadedBelow ==
    /\ pc["peer"] = "idle"
    /\ connected
    /\ Room
    /\ gap' = gap - 1
    /\ left' = gap'
    /\ pc' = IF Quiet THEN [pc EXCEPT !["peer"] = "mark"] ELSE pc
    /\ UNCHANGED <<impediments, state, since, recent, connected, mail, screen, threw>>

(* Mutant: the window is restarted by every block.                         *)
OnBlocksDownloadedRestarts ==
    /\ pc["peer"] = "idle"
    /\ connected
    /\ Room
    /\ gap' = IF gap > 0 THEN gap - 1 ELSE 0
    /\ left' = gap'
    /\ since' = 0
    /\ pc' = IF Quiet THEN [pc EXCEPT !["peer"] = "mark"] ELSE pc
    /\ UNCHANGED <<impediments, state, recent, connected, mail, screen, threw>>

(* A block was stored; inside the window the callback does nothing.        *)
OnBlocksDownloaded ==
    /\ pc["peer"] = "idle"
    /\ connected
    /\ Room
    /\ gap' = IF gap > 0 THEN gap - 1 ELSE 0
    /\ left' = gap'
    /\ pc' = IF Quiet THEN [pc EXCEPT !["peer"] = "mark"] ELSE pc
    /\ UNCHANGED <<impediments, state, since, recent, connected, mail, screen, threw>>

MarkState ==
    /\ pc["peer"] = "mark"
    /\ state' = IF left < SyncGap THEN "SYNC" ELSE "SYNCING"
    /\ pc' = [pc EXCEPT !["peer"] = "prefs"]
    /\ UNCHANGED <<impediments, since, left, peerVars, recent, mail, screen, threw>>

(* setLastBestChainBlockTime: the last block of the chain may be recent,   *)
(* one before it is not.                                                   *)
SavePrefs ==
    /\ pc["peer"] = "prefs"
    /\ recent' \in {FALSE, left = 0}
    /\ pc' = [pc EXCEPT !["peer"] = "impede"]
    /\ UNCHANGED <<impediments, state, since, left, peerVars, mail, screen, threw>>

(* One of the two preferences throws: the handler reports the exception,   *)
(* and the callback ends with the state written, without a look at the     *)
(* impediments and without an announcement.                                *)
SavePrefsThrows ==
    /\ pc["peer"] = "prefs"
    /\ recent' \in {recent, FALSE, left = 0}
    /\ pc' = [pc EXCEPT !["peer"] = "idle"]
    /\ threw' = TRUE
    /\ UNCHANGED <<impediments, state, since, left, peerVars, mail, screen>>

----------------------------------------------------------------------------
(* The main thread: connectivityReceiver, which goes on to check().  The   *)
(* set of impediments is an EnumSet: the thread of the peer may iterate    *)
(* over it meanwhile and sees the elements at one moment.                  *)

OnReceive(now) ==
    /\ pc["main"] = "idle"
    /\ Room
    /\ impediments' = now
    /\ pc' = [pc EXCEPT !["main"] = "impede"]
    /\ UNCHANGED <<state, since, left, peerVars, recent, mail, screen, threw>>

NetworkUp   == OnReceive(impediments \ {"NETWORK"})
NetworkDown == OnReceive(impediments \cup {"NETWORK"})
StorageOk   == OnReceive(impediments \ {"STORAGE"})
StorageLow  == OnReceive(impediments \cup {"STORAGE"})

----------------------------------------------------------------------------
(* Both threads: broadcastBlockchainState.                                 *)

(* Only the network impediment changes the state.                          *)
Impeded == "NETWORK" \in impediments

(* Mutant: only check() looks at the impediments, not the peer's callback. *)
CheckImpedimentsMain(p) ==
    /\ pc[p] = "impede"
    /\ state' = IF Impeded /\ p = "main" THEN "NOT_CONNECTION" ELSE state
    /\ pc' = [pc EXCEPT ![p] = "announce"]
    /\ threw' = FALSE
    /\ UNCHANGED <<impediments, since, left, peerVars, recent, mail, screen>>

CheckImpediments(p) ==
    /\ pc[p] = "impede"
    /\ state' = IF Impeded THEN "NOT_CONNECTION" ELSE state
    /\ pc' = [pc EXCEPT ![p] = "announce"]
    /\ threw' = FALSE
    /\ UNCHANGED <<impediments, since, left, peerVars, recent, mail, screen>>

(* blockchainManager.check threw: nothing is announced.                    *)
CheckThrew ==
    /\ pc["main"] = "announce"
    /\ pc' = [pc EXCEPT !["main"] = "idle"]
    /\ UNCHANGED <<impediments, state, since, left, peerVars, recent, mail, screen, threw>>

(* broadcastBlockchainStateIntent: inside the window the announcement is   *)
(* dropped, not postponed.  Both threads may find the window over before   *)
(* one of them starts it again.                                            *)
Announce(p) ==
    /\ pc[p] = "announce"
    /\ pc' = [pc EXCEPT ![p] = IF Quiet THEN "stamp" ELSE "idle"]
    /\ UNCHANGED <<impediments, state, since, left, peerVars, recent, mail, screen, threw>>

StampMessage(p) ==
    /\ pc[p] = "stamp"
    /\ since' = 0
    /\ pc' = [pc EXCEPT ![p] = "send"]
    /\ UNCHANGED <<impediments, state, left, peerVars, recent, mail, screen, threw>>

Send(p) ==
    /\ pc[p] = "send"
    /\ mail' = Append(mail, state)
    /\ pc' = [pc EXCEPT ![p] = "idle"]
    /\ UNCHANGED <<impediments, state, since, left, peerVars, recent, screen, threw>>

----------------------------------------------------------------------------
(* The peers.                                                              *)

OnPeerConnected ==
    /\ ~connected
    /\ "NETWORK" \notin impediments
    /\ Room
    /\ connected' = TRUE
    /\ mail' = Append(mail, "PEER_CONNECTED")
    /\ UNCHANGED <<impediments, state, since, pc, left, gap, recent, screen, threw>>

(* onPeerDisconnected only removes notifications.                          *)
OnPeerDisconnected ==
    /\ connected
    /\ connected' = FALSE
    /\ UNCHANGED <<impediments, state, since, pc, left, gap, recent,
                   mail, screen, threw>>

(* The network finds blocks that the wallet does not have yet.             *)
BlockMined ==
    /\ gap < MaxGap
    /\ gap' = gap + 1
    /\ UNCHANGED <<impediments, state, since, pc, left, connected, recent,
                   mail, screen, threw>>

----------------------------------------------------------------------------
(* The drawer screen, on the main thread.                                  *)

(* checkState: the two branches on the age of the last block compute the   *)
(* same state.                                                             *)
CheckState ==
    IF connected
    THEN IF gap < ScreenGap THEN "SYNC" ELSE "SYNCING"
    ELSE "NOT_CONNECTION"

OnResume ==
    /\ pc["main"] = "idle"
    /\ screen' = CheckState
    /\ UNCHANGED <<impediments, state, since, pc, left, peerVars, recent, mail, threw>>

ReceiveBroadcast ==
    /\ pc["main"] = "idle"
    /\ mail # <<>>
    /\ mail' = Tail(mail)
    /\ screen' = IF Head(mail) = "PEER_CONNECTED" THEN CheckState ELSE Head(mail)
    /\ UNCHANGED <<impediments, state, since, pc, left, peerVars, recent, threw>>

----------------------------------------------------------------------------
Tick ==
    /\ since <= Window
    /\ since' = since + 1
    /\ UNCHANGED <<impediments, state, pc, left, peerVars, recent, mail, screen, threw>>

(* The last block grows older than OUT_OF_SYNC_TIME.                       *)
BlockAges ==
    /\ recent
    /\ recent' = FALSE
    /\ UNCHANGED <<impediments, state, since, pc, left, peerVars, mail,
                   screen, threw>>

ThreadStep(p) ==
    \/ p = "peer" /\ (MarkState \/ SavePrefs \/ SavePrefsThrows)
    \/ CheckImpediments(p) \/ Announce(p) \/ StampMessage(p) \/ Send(p)

Connectivity == NetworkUp \/ NetworkDown \/ StorageOk \/ StorageLow

Next ==
    \/ OnBlocksDownloaded
    \/ Connectivity
    \/ \E p \in Threads : ThreadStep(p)
    \/ CheckThrew
    \/ OnPeerConnected \/ OnPeerDisconnected
    \/ BlockMined
    \/ OnResume \/ ReceiveBroadcast
    \/ Tick \/ BlockAges

Spec == Init /\ [][Next]_vars

(* Threads run on, posted broadcasts are delivered and time passes.        *)
Fairness ==
    /\ \A p \in Threads : WF_vars(ThreadStep(p))
    /\ WF_vars(ReceiveBroadcast)
    /\ WF_vars(Tick)
FairSpec == Spec /\ Fairness

----------------------------------------------------------------------------
TypeOK ==
    /\ impediments \subseteq Impediment
    /\ state \in State /\ screen \in State
    /\ since \in 0..(Window + 1)
    /\ pc \in [Threads -> {"idle", "mark", "prefs", "impede", "announce", "stamp", "send"}]
    /\ gap \in 0..MaxGap /\ left \in 0..MaxGap
    /\ recent \in BOOLEAN /\ connected \in BOOLEAN /\ threw \in BOOLEAN
    /\ mail \in Seq(Mail)

(* The service does not rest on a state that claims a connection while it  *)
(* knows that the network is gone, in whatever order the two threads write *)
(* the field: whoever writes last has looked at the impediments after it.  *)
(* The exception: a callback of the peer that threw between the two leaves *)
(* its SYNC until the next look of either thread.                          *)
OfflineIsKnown ==
    Impeded /\ ~threw /\ (\A p \in Threads : pc[p] \notin {"mark", "prefs", "impede"})
        => state = "NOT_CONNECTION"

(* The wallet stays online with a peer that is at most a few blocks ahead. *)
Settled ==
    /\ connected /\ impediments = {} /\ pc["main"] # "impede"
    /\ gap < SyncGap /\ gap < ScreenGap

(* What the throttle dropped is made up for: once the wallet stays online  *)
(* with a peer it has nearly caught up with, and blocks go on arriving and *)
(* the callback stops throwing, the screen comes to say SYNC and stays     *)
(* with it.                                                                *)
CatchesUp ==
    /\ <>[]Settled
    /\ []<><<OnBlocksDownloaded>>_vars
    /\ <>[][~SavePrefsThrows]_vars
    => <>[](screen = "SYNC")
=============================================================================
