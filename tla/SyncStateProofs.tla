-------------------------- MODULE SyncStateProofs --------------------------
(***************************************************************************)
(* Theorems of SyncState: the type invariant, and that a service that      *)
(* knows the network is gone does not go on claiming a connection.         *)
(***************************************************************************)
EXTENDS SyncState, TLAPS

USE DEF Threads, State, Impediment, Mail, peerVars

LEMMA TypeInit == Init => TypeOK
<1> SUFFICES ASSUME Init PROVE TypeOK
  OBVIOUS
<1>1. since \in 0..(Window + 1) /\ left \in 0..MaxGap
  BY SyncAssumption DEF Init
<1>2. mail \in Seq(Mail)
  BY DEF Init
<1> QED
  BY <1>1, <1>2 DEF Init, TypeOK

(* Every step preserves the types of the fields and of the mail.           *)
LEMMA TypeStep == TypeOK /\ [Next]_vars => TypeOK'
<1> SUFFICES ASSUME TypeOK, [Next]_vars PROVE TypeOK'
  OBVIOUS
<1> USE SyncAssumption DEF TypeOK
<1>1. CASE OnBlocksDownloaded
  BY <1>1 DEF OnBlocksDownloaded
<1>2. ASSUME NEW now \in SUBSET Impediment, OnReceive(now) PROVE TypeOK'
  BY <1>2 DEF OnReceive
<1>3. CASE Connectivity
  <2>1. /\ impediments \ {"NETWORK"} \in SUBSET Impediment
        /\ impediments \cup {"NETWORK"} \in SUBSET Impediment
        /\ impediments \ {"STORAGE"} \in SUBSET Impediment
        /\ impediments \cup {"STORAGE"} \in SUBSET Impediment
    OBVIOUS
  <2> QED
    BY <1>2, <1>3, <2>1
    DEF Connectivity, NetworkUp, NetworkDown, StorageOk, StorageLow
<1>4. ASSUME NEW p \in Threads, ThreadStep(p) PROVE TypeOK'
  <2>1. CASE MarkState
    BY <2>1 DEF MarkState
  <2>2. CASE SavePrefs \/ SavePrefsThrows
    BY <2>2 DEF SavePrefs, SavePrefsThrows
  <2>3. CASE CheckImpediments(p)
    BY <2>3 DEF CheckImpediments
  <2>4. CASE Announce(p)
    BY <2>4 DEF Announce
  <2>5. CASE StampMessage(p)
    BY <2>5 DEF StampMessage
  <2>6. CASE Send(p)
    <3>1. mail' \in Seq(Mail)
      BY <2>6 DEF Send
    <3> QED
      BY <2>6, <3>1 DEF Send
  <2> QED
    BY <1>4, <2>1, <2>2, <2>3, <2>4, <2>5, <2>6 DEF ThreadStep
<1>5. CASE CheckThrew
  BY <1>5 DEF CheckThrew
<1>6. CASE OnPeerConnected
  <2>1. mail' \in Seq(Mail)
    BY <1>6 DEF OnPeerConnected
  <2> QED
    BY <1>6, <2>1 DEF OnPeerConnected
<1>7. CASE OnPeerDisconnected
  BY <1>7 DEF OnPeerDisconnected
<1>8. CASE BlockMined
  BY <1>8 DEF BlockMined
<1>9. CASE OnResume
  BY <1>9 DEF OnResume, CheckState
<1>10. CASE ReceiveBroadcast
  <2>1. Head(mail) \in Mail /\ Tail(mail) \in Seq(Mail)
    BY <1>10 DEF ReceiveBroadcast
  <2> QED
    BY <1>10, <2>1 DEF ReceiveBroadcast, CheckState
<1>11. CASE Tick
  BY <1>11 DEF Tick
<1>12. CASE BlockAges
  BY <1>12 DEF BlockAges
<1>13. CASE UNCHANGED vars
  BY <1>13 DEF vars
<1> QED
  BY <1>1, <1>3, <1>4, <1>5, <1>6, <1>7, <1>8, <1>9, <1>10, <1>11, <1>12, <1>13
  DEF Next

(* The fields of the service, of its threads and of the screen keep their  *)
(* types, for any window and any length of the mail.                       *)
THEOREM TypeCorrect == Spec => []TypeOK
<1>1. TypeOK /\ [Next]_vars => TypeOK'
  BY TypeStep
<1> QED
  BY <1>1, TypeInit, PTL DEF Spec

----------------------------------------------------------------------------
(* The inductive part: a thread that is past its look at the impediments   *)
(* leaves a state that agrees with them, unless the other one still has to *)
(* look, or threw before it did.                                           *)
LEMMA OfflineStep == TypeOK /\ OfflineIsKnown /\ [Next]_vars => OfflineIsKnown'
<1> SUFFICES ASSUME TypeOK, OfflineIsKnown, [Next]_vars PROVE OfflineIsKnown'
  OBVIOUS
<1> USE DEF TypeOK, OfflineIsKnown, Impeded
<1>1. CASE OnBlocksDownloaded
  BY <1>1 DEF OnBlocksDownloaded
<1>2. ASSUME NEW now, OnReceive(now) PROVE OfflineIsKnown'
  BY <1>2 DEF OnReceive
<1>3. CASE Connectivity
  BY <1>2, <1>3 DEF Connectivity, NetworkUp, NetworkDown, StorageOk, StorageLow
<1>4. ASSUME NEW p \in Threads, ThreadStep(p) PROVE OfflineIsKnown'
  <2>1. CASE MarkState
    BY <2>1 DEF MarkState
  <2>2. CASE SavePrefs \/ SavePrefsThrows
    BY <2>2 DEF SavePrefs, SavePrefsThrows
  <2>3. CASE CheckImpediments(p)
    BY <2>3 DEF CheckImpediments
  <2>4. CASE Announce(p)
    BY <2>4 DEF Announce
  <2>5. CASE StampMessage(p)
    BY <2>5 DEF StampMessage
  <2>6. CASE Send(p)
    BY <2>6 DEF Send
  <2> QED
    BY <1>4, <2>1, <2>2, <2>3, <2>4, <2>5, <2>6 DEF ThreadStep
<1>5. CASE CheckThrew
  BY <1>5 DEF CheckThrew
<1>6. CASE OnPeerConnected
  BY <1>6 DEF OnPeerConnected
<1>7. CASE OnPeerDisconnected
  BY <1>7 DEF OnPeerDisconnected
<1>8. CASE BlockMined
  BY <1>8 DEF BlockMined
<1>9. CASE OnResume
  BY <1>9 DEF OnResume
<1>10. CASE ReceiveBroadcast
  BY <1>10 DEF ReceiveBroadcast
<1>11. CASE Tick
  BY <1>11 DEF Tick
<1>12. CASE BlockAges
  BY <1>12 DEF BlockAges
<1>13. CASE UNCHANGED vars
  BY <1>13 DEF vars
<1> QED
  BY <1>1, <1>3, <1>4, <1>5, <1>6, <1>7, <1>8, <1>9, <1>10, <1>11, <1>12, <1>13
  DEF Next

(* In whatever order the thread of the peer and the main thread write      *)
(* blockchainState, it does not come to rest with a value other than       *)
(* NOT_CONNECTION while the network impediment is recorded, unless the     *)
(* callback of the peer threw between its write and its look and nobody    *)
(* has looked since.                                                       *)
THEOREM Offline == Spec => []OfflineIsKnown
<1>1. Init => TypeOK /\ OfflineIsKnown
  BY TypeInit DEF Init, OfflineIsKnown, Impeded
<1>2. TypeOK /\ OfflineIsKnown /\ [Next]_vars => TypeOK' /\ OfflineIsKnown'
  BY TypeStep, OfflineStep
<1> QED
  BY <1>1, <1>2, PTL DEF Spec
=============================================================================
