-------------------------- MODULE BackgroundProofs --------------------------
(***************************************************************************)
(* Proofs about the parts in the background, for any transactions,         *)
(* threads, readers and bounds.                                            *)
(***************************************************************************)
EXTENDS MCBackground, FiniteSetTheorems, SequenceTheorems, TLAPS

(***************************************************************************)
(* TxBroadcast                                                             *)
(***************************************************************************)
LEMMA TxTypes == TxSpec => []TxTypeOK
<1>1. TxInit => TxTypeOK
  <2>. SUFFICES ASSUME TxInit PROVE TxTypeOK
    OBVIOUS
  <2>1. {pending, saved, screen, intents, outbox, network, forgotten} \subseteq SUBSET Tx
    BY DEF TxInit
  <2>2. connected \in BOOLEAN
    BY DEF TxInit
  <2>3. txDeaths \in 0..MaxTxDeaths
    BY TxAssumption DEF TxInit
  <2>. QED
    BY <2>1, <2>2, <2>3 DEF TxTypeOK
<1>2. TxTypeOK /\ [TxNext]_txVars => TxTypeOK'
  <2>. SUFFICES ASSUME TxTypeOK, [TxNext]_txVars
                PROVE  TxTypeOK'
    OBVIOUS
  <2>. USE TxAssumption DEF TxTypeOK
  <2>1. CASE CommitTx
    BY <2>1 DEF CommitTx
  <2>2. CASE StartService
    BY <2>2 DEF StartService
  <2>3. CASE BroadcastTransaction
    BY <2>3 DEF BroadcastTransaction
  <2>4. CASE SendOutbox
    BY <2>4 DEF SendOutbox
  <2>5. ASSUME NEW all \in BOOLEAN, OnPeerConnected(all)
        PROVE  TxTypeOK'
    BY <2>5 DEF OnPeerConnected
  <2>6. CASE OnPeerDisconnected
    BY <2>6 DEF OnPeerDisconnected
  <2>7. CASE Confirm
    BY <2>7 DEF Confirm
  <2>8. CASE SaveWallet
    BY <2>8 DEF SaveWallet
  <2>9. CASE DieAndRestart
    <3>1. {pending', saved', screen', intents', outbox', network', forgotten'} \subseteq SUBSET Tx
      BY <2>9 DEF DieAndRestart
    <3>2. connected' \in BOOLEAN
      BY <2>9 DEF DieAndRestart
    <3>3. txDeaths' \in 0..MaxTxDeaths
      BY <2>9 DEF DieAndRestart
    <3>. QED
      BY <3>1, <3>2, <3>3
  <2>10. CASE UNCHANGED txVars
    BY <2>10 DEF txVars
  <2>. QED
    BY <2>1, <2>2, <2>3, <2>4, <2>5, <2>6, <2>7, <2>8, <2>9, <2>10 DEF TxNext
<1>. QED
  BY <1>1, <1>2, PTL DEF TxSpec

(***************************************************************************)
(* CrashTraces                                                             *)
(***************************************************************************)

(* A trace that is saved does not depend on a copy that may still fail:    *)
(* while the reader has not deleted the file, the file has it, or another  *)
(* reader that has, or it is gone.                                         *)
TraceInv ==
    /\ TraceTypeOK
    /\ writing.open => writing.trace \in Trace
    /\ kept \subseteq file.traces \cup reported \cup gone
                      \cup UNION {reader[r].copied : r \in {q \in Reader : reader[q].step = "deleted"}}

LEMMA TraceInvariant == TraceSpec => []TraceInv
<1>1. TraceInit => TraceInv
  BY TraceAssumption DEF TraceInit, TraceInv, TraceTypeOK, NoFile, NoWrite, Idle
<1>2. TraceInv /\ [TraceNext]_traceVars => TraceInv'
  <2>. SUFFICES ASSUME TraceInv, [TraceNext]_traceVars
                PROVE  TraceInv'
    OBVIOUS
  <2>. USE TraceAssumption DEF TraceInv, TraceTypeOK
  <2>1. CASE OpenTraces
    <3>1. PICK t \in Trace \ kept : writing' = [open |-> TRUE, trace |-> t, unlinked |-> FALSE]
      BY <2>1 DEF OpenTraces
    <3>2. /\ file' \in [there : BOOLEAN, traces : SUBSET Trace]
          /\ file'.traces = file.traces
      BY <2>1 DEF OpenTraces
    <3>3. UNCHANGED <<reader, kept, reported, gone, reboots>>
      BY <2>1 DEF OpenTraces
    <3>. QED
      BY <3>1, <3>2, <3>3
  <2>2. CASE WriteTrace
    BY <2>2 DEF WriteTrace, NoWrite
  <2>3. CASE FailTrace
    BY <2>3 DEF FailTrace, NoWrite
  <2>4. CASE DieWithTraces
    BY <2>4 DEF DieWithTraces, Copied, NoWrite, Idle
  <2>5. ASSUME NEW r \in Reader, CopyTraces(r)
        PROVE  TraceInv'
    <3>1. PICK report \in BOOLEAN :
             reader' = [reader EXCEPT ![r] = [step |-> "copied", copied |-> file.traces,
                                              report |-> report]]
      BY <2>5 DEF CopyTraces
    <3>2. /\ file' \in [there : BOOLEAN, traces : SUBSET Trace]
          /\ file'.traces = file.traces
      BY <2>5 DEF CopyTraces
    <3>3. reader[r].step = "idle" /\ UNCHANGED <<writing, kept, reported, gone, reboots>>
      BY <2>5 DEF CopyTraces
    <3>4. reader' \in [Reader -> [step : {"idle", "copied", "deleted"}, copied : SUBSET Trace,
                                  report : BOOLEAN]]
      BY <3>1
    <3>5. \A q \in Reader : reader[q].step = "deleted" => reader'[q] = reader[q]
      BY <3>1, <3>3
    <3>. QED
      BY <3>2, <3>3, <3>4, <3>5
  <2>6. ASSUME NEW r \in Reader, CopyFails(r)
        PROVE  TraceInv'
    BY <2>6 DEF CopyFails
  <2>7. ASSUME NEW r \in Reader, DeleteTraces(r)
        PROVE  TraceInv'
    BY <2>7 DEF DeleteTraces, NoFile
  <2>8. ASSUME NEW r \in Reader, EndReader(r)
        PROVE  TraceInv'
    BY <2>8 DEF EndReader, Idle
  <2>9. CASE UNCHANGED traceVars
    BY <2>9 DEF traceVars
  <2>. QED
    BY <2>1, <2>2, <2>3, <2>4, <2>5, <2>6, <2>7, <2>8, <2>9 DEF TraceNext
<1>. QED
  BY <1>1, <1>2, PTL DEF TraceSpec

(* No saved trace vanishes in another way than those the code knows,       *)
(* however many threads save and however many readers copy and delete.     *)
THEOREM TracesAreAccountedFor == TraceSpec => []TracesAccountedFor
<1>1. TraceInv => TracesAccountedFor
  BY DEF TraceInv, TracesAccountedFor, Copied
<1>. QED
  BY <1>1, TraceInvariant, PTL

(***************************************************************************)
(* CoinNotice                                                              *)
(***************************************************************************)

(* What was received and is not yet added to the field, coin by coin: the  *)
(* number of these pairs is the sum of the amounts.                        *)
Unadded(t) == call[t].step \in {"received", "read"}
Awaited    == {coin \in Thread \X Nat :
                  Unadded(coin[1]) /\ coin[2] \in 1..call[coin[1]].amount}

(* The field, and any value read from it and not yet written back, leave   *)
(* room for everything that is still to be added.                          *)
NoticeInv ==
    /\ NoticeTypeOK
    /\ IsFiniteSet(Awaited)
    /\ \/ blurred
       \/ /\ notice <= received
          /\ accumulated + Cardinality(Awaited) <= received
          /\ \A t \in Thread :
                /\ call[t].step = "read" => call[t].value + Cardinality(Awaited) <= received
                /\ call[t].step = "taken" => call[t].value <= received

(* The coins of one thread.                                                *)
LEMMA CoinsOfOne ==
    ASSUME NEW t, NEW n \in Nat
    PROVE  IsFiniteSet({t} \X (1..n)) /\ Cardinality({t} \X (1..n)) = n
<1>1. IsFiniteSet({t}) /\ Cardinality({t}) = 1
  BY FS_Singleton
<1>2. IsFiniteSet(1..n) /\ Cardinality(1..n) = n
  BY FS_Interval
<1>3. /\ IsFiniteSet({t} \X (1..n))
      /\ Cardinality({t} \X (1..n)) = Cardinality({t}) * Cardinality(1..n)
  BY <1>1, <1>2, FS_Product, Zenon
<1>4. 1 * n = n
  OBVIOUS
<1>. QED
  BY <1>1, <1>2, <1>3, <1>4, Zenon

(* The coins of a thread that comes, or goes, count once.                  *)
LEMMA CoinsCome ==
    ASSUME NEW S, IsFiniteSet(S), NEW t, NEW n \in Nat, \A m \in Nat : <<t, m>> \notin S
    PROVE  /\ IsFiniteSet(S \cup ({t} \X (1..n)))
           /\ Cardinality(S \cup ({t} \X (1..n))) = Cardinality(S) + n
<1>. DEFINE T == {t} \X (1..n)
<1>1. S \cap T = {}
  OBVIOUS
<1>2. IsFiniteSet(T) /\ Cardinality(T) = n
  BY CoinsOfOne, Zenon
<1>. HIDE DEF T
<1>3. Cardinality(S) \in Nat
  BY FS_CardinalityType
<1>4. IsFiniteSet(S \cup T) /\ Cardinality(S \cup T) = Cardinality(S) + n
  BY <1>1, <1>2, <1>3, FS_Union, FS_EmptySet
<1>. QED
  BY <1>4 DEF T

(* A step of one thread changes the call of no other.                      *)
LEMMA CallSteps ==
    ASSUME NoticeTypeOK, NEW t \in Thread, NEW from,
           NEW to \in {"idle", "received", "read", "added", "taken", "notified"},
           NEW value \in Nat, CallStep(t, from, to, value)
    PROVE  /\ call' \in [Thread -> [step : {"idle", "received", "read", "added", "taken", "notified"},
                                    amount : Amounts \cup {0}, value : Nat]]
           /\ call'[t].step = to /\ call'[t].value = value /\ call'[t].amount = call[t].amount
           /\ \A other \in Thread \ {t} : call'[other] = call[other]
BY DEF NoticeTypeOK, CallStep

(* A step that adds nothing leaves the coins that are awaited.             *)
LEMMA SameAwaited ==
    ASSUME \A t \in Thread : /\ Unadded(t)' <=> Unadded(t)
                             /\ Unadded(t) => call'[t].amount = call[t].amount
    PROVE  Awaited' = Awaited
BY DEF Awaited

(* When a thread receives an amount, its coins are awaited, and when it    *)
(* writes the sum they are not any more.                                   *)
LEMMA ReceivedIsAwaited ==
    ASSUME NoticeTypeOK, NEW t \in Thread, ~Unadded(t), Unadded(t)', call'[t].amount \in Nat,
           \A other \in Thread \ {t} : call'[other] = call[other], IsFiniteSet(Awaited)
    PROVE  /\ IsFiniteSet(Awaited')
           /\ Cardinality(Awaited') = Cardinality(Awaited) + call'[t].amount
<1>1. Awaited' = Awaited \cup ({t} \X (1..call'[t].amount))
  BY DEF Awaited, Unadded
<1>2. \A m \in Nat : <<t, m>> \notin Awaited
  BY DEF Awaited
<1>. QED
  BY <1>1, <1>2, CoinsCome

LEMMA AddedIsNotAwaited ==
    ASSUME NoticeTypeOK, NEW t \in Thread, Unadded(t), ~Unadded(t)', call[t].amount \in Nat,
           \A other \in Thread \ {t} : call'[other] = call[other], IsFiniteSet(Awaited)
    PROVE  /\ IsFiniteSet(Awaited')
           /\ Cardinality(Awaited) = Cardinality(Awaited') + call[t].amount
<1>1. Awaited = Awaited' \cup ({t} \X (1..call[t].amount))
  BY DEF Awaited, Unadded
<1>2. \A m \in Nat : <<t, m>> \notin Awaited'
  BY DEF Awaited
<1>3. IsFiniteSet(Awaited')
  BY <1>1, FS_Subset
<1>. QED
  BY <1>1, <1>2, <1>3, CoinsCome

LEMMA InitNotice == NoticeInit => NoticeInv
<1>. SUFFICES ASSUME NoticeInit PROVE NoticeInv
  OBVIOUS
<1>1. Awaited = {}
  BY DEF NoticeInit, Awaited, Unadded, NoCall
<1>2. IsFiniteSet(Awaited) /\ Cardinality(Awaited) = 0
  BY <1>1, FS_EmptySet
<1>3. blurred \in BOOLEAN
  BY DEF NoticeInit
<1>4. NoticeTypeOK
  BY <1>3, NoticeAssumption DEF NoticeInit, NoticeTypeOK, NoCall
<1>. QED
  BY <1>2, <1>4 DEF NoticeInit, NoticeInv, NoCall

(* An amount is received and awaited at once.                              *)
LEMMA OnCoinsReceivedStep ==
    ASSUME NoticeInv, NEW t \in Thread, OnCoinsReceived(t)
    PROVE  NoticeInv'
<1>. USE DEF NoticeInv
<1>1. PICK amount \in Amounts :
         /\ call' = [call EXCEPT ![t] = [step |-> "received", amount |-> amount, value |-> 0]]
         /\ received' = received + amount
  BY DEF OnCoinsReceived
<1>2. /\ call[t].step = "idle" /\ coins < MaxCoins /\ coins' = coins + 1
      /\ UNCHANGED <<accumulated, notice, blurred>>
  BY DEF OnCoinsReceived
<1>3. amount \in Nat
  BY NoticeAssumption
<1>4. call' \in [Thread -> [step : {"idle", "received", "read", "added", "taken", "notified"},
                            amount : Amounts \cup {0}, value : Nat]]
  BY <1>1 DEF NoticeTypeOK
<1>5. /\ call'[t].step = "received" /\ call'[t].amount = amount
      /\ \A other \in Thread \ {t} : call'[other] = call[other]
  BY <1>1 DEF NoticeTypeOK
<1>6. ~Unadded(t) /\ Unadded(t)'
  BY <1>2, <1>5 DEF Unadded
<1>7. IsFiniteSet(Awaited') /\ Cardinality(Awaited') = Cardinality(Awaited) + amount
  BY <1>3, <1>5, <1>6, ReceivedIsAwaited
<1>8. NoticeTypeOK'
  <2>1. received' \in Nat /\ coins' \in 0..MaxCoins
    BY <1>1, <1>2, <1>3, NoticeAssumption DEF NoticeTypeOK
  <2>2. {accumulated', notice'} \subseteq Nat /\ blurred' \in BOOLEAN
    BY <1>2 DEF NoticeTypeOK
  <2>. QED
    BY <2>1, <2>2, <1>4 DEF NoticeTypeOK
<1>9. Cardinality(Awaited) \in Nat
  BY FS_CardinalityType
<1>10. CASE blurred
  BY <1>2, <1>7, <1>8, <1>10
<1>11. CASE ~blurred
  <2>1. /\ notice' <= received'
        /\ accumulated' + Cardinality(Awaited') <= received'
    BY <1>1, <1>2, <1>3, <1>7, <1>9, <1>11 DEF NoticeTypeOK
  <2>2. ASSUME NEW u \in Thread
        PROVE  /\ call'[u].step = "read" => call'[u].value + Cardinality(Awaited') <= received'
               /\ call'[u].step = "taken" => call'[u].value <= received'
    BY <1>1, <1>3, <1>5, <1>7, <1>9, <1>11 DEF NoticeTypeOK
  <2>. QED
    BY <1>7, <1>8, <2>1, <2>2
<1>. QED
  BY <1>10, <1>11

(* Reading, taking, showing and resetting the field add nothing to it.     *)
LEMMA QuietSteps ==
    ASSUME NoticeInv, NEW t \in Thread,
           ReadAmount(t) \/ TakeAmount(t) \/ Notify(t) \/ ResetAmount(t)
    PROVE  NoticeInv'
<1>. USE DEF NoticeInv
<1>1. PICK from \in {"received", "read", "added", "taken", "notified"},
           to \in {"idle", "read", "added", "taken", "notified"}, value \in Nat :
         /\ CallStep(t, from, to, value)
         /\ from = "received" <=> to = "read"
         /\ from # "read"
         /\ to \in {"read", "taken"} => value = accumulated /\ UNCHANGED notice
         /\ UNCHANGED notice \/ (from = "taken" /\ notice' = call[t].value)
         /\ accumulated' \in {0, accumulated}
         /\ UNCHANGED <<received, blurred, coins>>
  <2>1. call[t].value \in Nat /\ accumulated \in Nat
    BY DEF NoticeTypeOK
  <2>2. CASE ReadAmount(t)
    BY <2>1, <2>2 DEF ReadAmount
  <2>3. CASE TakeAmount(t)
    BY <2>1, <2>3 DEF TakeAmount
  <2>4. CASE Notify(t)
    BY <2>1, <2>4 DEF Notify
  <2>5. CASE ResetAmount(t)
    BY <2>1, <2>5 DEF ResetAmount
  <2>. QED
    BY <2>2, <2>3, <2>4, <2>5
<1>2. /\ call' \in [Thread -> [step : {"idle", "received", "read", "added", "taken", "notified"},
                               amount : Amounts \cup {0}, value : Nat]]
      /\ call'[t].step = to /\ call'[t].value = value /\ call'[t].amount = call[t].amount
      /\ \A other \in Thread \ {t} : call'[other] = call[other]
  <2>1. to \in {"idle", "received", "read", "added", "taken", "notified"}
    OBVIOUS
  <2>2. NoticeTypeOK /\ CallStep(t, from, to, value)
    BY <1>1
  <2>. HIDE DEF NoticeInv
  <2>. QED
    BY <2>1, <2>2, CallSteps
<1>3. call[t].step = from
  BY <1>1 DEF CallStep
<1>4. Awaited' = Awaited
  BY <1>1, <1>2, <1>3, SameAwaited DEF Unadded
<1>5. NoticeTypeOK'
  BY <1>1, <1>2 DEF NoticeTypeOK
<1>6. Cardinality(Awaited) \in Nat
  BY FS_CardinalityType
<1>7. CASE blurred
  BY <1>1, <1>4, <1>5, <1>7
<1>8. CASE ~blurred
  <2>1. notice' <= received' /\ accumulated' + Cardinality(Awaited) <= received'
    BY <1>1, <1>3, <1>6, <1>8 DEF NoticeTypeOK
  <2>2. ASSUME NEW u \in Thread
        PROVE  /\ call'[u].step = "read" => call'[u].value + Cardinality(Awaited) <= received'
               /\ call'[u].step = "taken" => call'[u].value <= received'
    BY <1>1, <1>2, <1>6, <1>8 DEF NoticeTypeOK
  <2>. QED
    BY <1>4, <1>5, <2>1, <2>2
<1>. QED
  BY <1>7, <1>8

(* The sum is written: what it gains is not awaited any more.              *)
LEMMA AddAmountStep ==
    ASSUME NoticeInv, NEW t \in Thread, AddAmount(t)
    PROVE  NoticeInv'
<1>. USE DEF NoticeInv
<1>1. /\ CallStep(t, "read", "added", 0)
      /\ accumulated' = call[t].value + call[t].amount
      /\ UNCHANGED <<notice, received, blurred, coins>>
  BY DEF AddAmount
<1>2. /\ call' \in [Thread -> [step : {"idle", "received", "read", "added", "taken", "notified"},
                               amount : Amounts \cup {0}, value : Nat]]
      /\ call'[t].step = "added"
      /\ \A other \in Thread \ {t} : call'[other] = call[other]
  BY <1>1, CallSteps
<1>3. call[t].step = "read"
  BY <1>1 DEF CallStep
<1>4. call[t].amount \in Nat /\ call[t].value \in Nat
  <2>1. call[t].amount \in Amounts \cup {0} /\ call[t].value \in Nat
    BY DEF NoticeTypeOK
  <2>2. Amounts \cup {0} \subseteq Nat
    BY NoticeAssumption
  <2>. QED
    BY <2>1, <2>2
<1>5. Unadded(t) /\ ~Unadded(t)'
  BY <1>2, <1>3 DEF Unadded
<1>6. IsFiniteSet(Awaited') /\ Cardinality(Awaited) = Cardinality(Awaited') + call[t].amount
  BY <1>2, <1>4, <1>5, AddedIsNotAwaited
<1>7. NoticeTypeOK'
  BY <1>1, <1>2, <1>4 DEF NoticeTypeOK
<1>8. Cardinality(Awaited') \in Nat
  BY <1>6, FS_CardinalityType
<1>9. CASE blurred
  BY <1>1, <1>6, <1>7, <1>9
<1>10. CASE ~blurred
  <2>1. notice' <= received' /\ accumulated' + Cardinality(Awaited') <= received'
    BY <1>1, <1>3, <1>4, <1>6, <1>8, <1>10 DEF NoticeTypeOK
  <2>2. ASSUME NEW u \in Thread
        PROVE  /\ call'[u].step = "read" => call'[u].value + Cardinality(Awaited') <= received'
               /\ call'[u].step = "taken" => call'[u].value <= received'
    BY <1>1, <1>2, <1>4, <1>6, <1>8, <1>10 DEF NoticeTypeOK
  <2>. QED
    BY <1>6, <1>7, <2>1, <2>2
<1>. QED
  BY <1>9, <1>10

(* The user dismisses the notification, or all of them are cleared.        *)
LEMMA CancelSteps ==
    ASSUME NoticeInv, CancelNotice \/ CancelAll
    PROVE  NoticeInv'
<1>. USE DEF NoticeInv
<1>1. UNCHANGED <<call, coins>> /\ notice' = 0
  BY DEF CancelNotice, CancelAll
<1>2. Awaited' = Awaited
  BY <1>1 DEF Awaited, Unadded
<1>3. CASE CancelAll
  BY <1>1, <1>2, <1>3 DEF CancelAll, NoticeTypeOK
<1>4. CASE CancelNotice
  <2>1. NoticeTypeOK'
    <3>1. {accumulated', notice', received'} \subseteq Nat
      BY <1>4 DEF CancelNotice
    <3>2. blurred' \in BOOLEAN
      BY <1>4 DEF CancelNotice, NoticeTypeOK
    <3>. QED
      BY <1>1, <3>1, <3>2 DEF NoticeTypeOK
  <2>2. CASE \E t \in Thread : call[t].step # "idle"
    <3>1. blurred'
      BY <1>4, <2>2 DEF CancelNotice
    <3>. QED
      BY <1>2, <2>1, <3>1
  <2>3. CASE ~\E t \in Thread : call[t].step # "idle"
    <3>1. Awaited = {}
      BY <2>3 DEF Awaited, Unadded
    <3>2. Cardinality(Awaited') = 0
      BY <1>2, <3>1, FS_EmptySet
    <3>3. accumulated' = 0 /\ notice' = 0 /\ received' = 0
      BY <1>4 DEF CancelNotice
    <3>4. \A t \in Thread : call'[t].step \notin {"read", "taken"}
      BY <1>1, <2>3
    <3>. QED
      BY <1>2, <2>1, <3>2, <3>3, <3>4
  <2>. QED
    BY <2>2, <2>3
<1>. QED
  BY <1>3, <1>4

LEMMA NoticeInvariant == NoticeSpec => []NoticeInv
<1>1. NoticeInv /\ [NoticeNext]_noticeVars => NoticeInv'
  <2>. SUFFICES ASSUME NoticeInv, [NoticeNext]_noticeVars
                PROVE  NoticeInv'
    OBVIOUS
  <2>1. CASE UNCHANGED noticeVars
    BY <2>1 DEF NoticeInv, NoticeTypeOK, Awaited, Unadded, noticeVars
  <2>. QED
    BY <2>1, OnCoinsReceivedStep, QuietSteps, AddAmountStep, CancelSteps DEF NoticeNext
<1>. QED
  BY <1>1, InitNotice, PTL DEF NoticeSpec

(* The notification never tells of more than was received since the last   *)
(* dismissal, however many threads the executor has, unless a dismissal    *)
(* fell into a call.                                                       *)
THEOREM NeverTooMuch == NoticeSpec => []NeverOverstated
<1>1. NoticeInv => NeverOverstated
  BY DEF NoticeInv, NeverOverstated
<1>. QED
  BY <1>1, NoticeInvariant, PTL

(***************************************************************************)
(* RateStore                                                               *)
(***************************************************************************)
Ended == {r \in Requester : request[r].step = "ended"}

(* Each thread inserts one row at most, and ends with that; as long as no  *)
(* two threads overlapped, only one is between look and write, and what it *)
(* saw is still so.                                                        *)
RateInv ==
    /\ clock \in 0..MaxTime
    /\ rows \in Seq(0..MaxTime)
    /\ request \in [Requester -> [step : Steps, rate : 0..MaxTime, found : BOOLEAN]]
    /\ overlapped \in BOOLEAN
    /\ Len(rows) <= Cardinality(Ended)
    /\ \/ overlapped
       \/ /\ Len(rows) <= 1
          /\ \A r, q \in Requester : request[r].step = "looked" /\ request[q].step = "looked" => r = q
          /\ \A r \in Requester : request[r].step = "looked" => (request[r].found <=> rows # <<>>)

LEMMA EndedIsFinite == IsFiniteSet(Ended) /\ Cardinality(Ended) \in Nat
<1>1. Ended \subseteq Requester /\ IsFiniteSet(Requester)
  BY RateAssumption DEF Ended
<1>. QED
  BY <1>1, FS_Subset, FS_CardinalityType

(* Threads end and do not begin again.                                     *)
LEMMA EndedGrows ==
    ASSUME Ended \subseteq Ended'
    PROVE  Cardinality(Ended) <= Cardinality(Ended') /\ Cardinality(Ended') \in Nat
<1>1. Ended' \subseteq Requester /\ IsFiniteSet(Requester)
  BY RateAssumption DEF Ended
<1>2. IsFiniteSet(Ended')
  BY <1>1, FS_Subset
<1>. QED
  BY <1>2, FS_Subset, FS_CardinalityType

LEMMA InitRate == RateInit => RateInv
<1>. SUFFICES ASSUME RateInit PROVE RateInv
  OBVIOUS
<1>1. clock \in 0..MaxTime /\ rows \in Seq(0..MaxTime) /\ Len(rows) = 0
  BY RateAssumption DEF RateInit
<1>2. request \in [Requester -> [step : Steps, rate : 0..MaxTime, found : BOOLEAN]]
  BY RateAssumption DEF RateInit, Steps
<1>3. overlapped \in BOOLEAN
  BY DEF RateInit
<1>4. \A r \in Requester : request[r].step # "looked"
  BY DEF RateInit
<1>. QED
  BY <1>1, <1>2, <1>3, <1>4, EndedIsFinite DEF RateInv

LEMMA TickStep ==
    ASSUME RateInv, Tick
    PROVE  RateInv'
BY RateAssumption DEF RateInv, Tick, Ended

LEMMA KillRequestsStep ==
    ASSUME RateInv, KillRequests
    PROVE  RateInv'
<1>1. /\ request' = [r \in Requester |-> IF request[r].step = "new" THEN request[r]
                                         ELSE [request[r] EXCEPT !.step = "ended"]]
      /\ UNCHANGED <<clock, rows, overlapped>>
  BY DEF KillRequests
<1>2. request' \in [Requester -> [step : Steps, rate : 0..MaxTime, found : BOOLEAN]]
  BY <1>1 DEF RateInv, Steps
<1>3. \A r \in Requester : /\ request'[r].step # "looked"
                           /\ request[r].step = "ended" => request'[r].step = "ended"
  BY <1>1 DEF RateInv
<1>4. Ended \subseteq Ended'
  BY <1>3 DEF Ended
<1>. QED
  BY <1>1, <1>2, <1>3, <1>4, EndedGrows, EndedIsFinite DEF RateInv

(* A thread that asks, gets its rate or looks leaves the rows.             *)
LEMMA RequestSteps ==
    ASSUME RateInv, NEW r \in Requester, RequestRateCoin(r) \/ Answer(r)
    PROVE  RateInv'
<1>1. UNCHANGED <<clock, rows, overlapped>>
  BY DEF RequestRateCoin, Answer
<1>2. /\ request' \in [Requester -> [step : Steps, rate : 0..MaxTime, found : BOOLEAN]]
      /\ \A q \in Requester \ {r} : request'[q] = request[q]
      /\ request'[r].step # "looked" /\ request[r].step # "ended"
  <2>1. CASE RequestRateCoin(r)
    BY <2>1 DEF RequestRateCoin, RateInv, Steps
  <2>2. CASE request[r].step = "asking"
             /\ request' = [request EXCEPT ![r].step = "has rate", ![r].rate = clock]
    BY <2>2 DEF RateInv, Steps
  <2>3. CASE request[r].step = "asking" /\ request' = [request EXCEPT ![r].step = "ended"]
    BY <2>3 DEF RateInv, Steps
  <2>. QED
    BY <2>1, <2>2, <2>3 DEF Answer
<1>3. Ended \subseteq Ended'
  BY <1>2 DEF Ended
<1>4. Len(rows') <= Cardinality(Ended')
  <2>1. Len(rows) \in Nat /\ Len(rows) <= Cardinality(Ended) /\ rows' = rows
    BY <1>1, LenProperties DEF RateInv
  <2>. QED
    BY <1>3, <2>1, EndedGrows, EndedIsFinite
<1>5. CASE overlapped
  BY <1>1, <1>2, <1>4, <1>5 DEF RateInv
<1>6. CASE ~overlapped
  <2>1. /\ \A s, q \in Requester :
              request'[s].step = "looked" /\ request'[q].step = "looked" => s = q
        /\ \A q \in Requester :
              request'[q].step = "looked" => (request'[q].found <=> rows' # <<>>)
    <3>1. /\ \A s, q \in Requester : request[s].step = "looked" /\ request[q].step = "looked" => s = q
          /\ \A q \in Requester : request[q].step = "looked" => (request[q].found <=> rows # <<>>)
      BY <1>6 DEF RateInv
    <3>. QED
      BY <1>1, <1>2, <3>1
  <2>2. Len(rows') <= 1
    BY <1>1, <1>6 DEF RateInv
  <2>3. overlapped' \in BOOLEAN /\ clock' \in 0..MaxTime /\ rows' \in Seq(0..MaxTime)
    BY <1>1 DEF RateInv
  <2>. QED
    BY <1>2, <1>4, <2>1, <2>2, <2>3 DEF RateInv
<1>. QED
  BY <1>5, <1>6

LEMMA LookForRateStep ==
    ASSUME RateInv, NEW r \in Requester, LookForRate(r)
    PROVE  RateInv'
<1>1. /\ request[r].step = "has rate"
      /\ request' = [request EXCEPT ![r].step = "looked", ![r].found = rows # <<>>]
      /\ overlapped' = (overlapped \/ \E other \in Requester : request[other].step = "looked")
      /\ UNCHANGED <<clock, rows>>
  BY DEF LookForRate
<1>2. /\ request' \in [Requester -> [step : Steps, rate : 0..MaxTime, found : BOOLEAN]]
      /\ \A q \in Requester \ {r} : request'[q] = request[q]
      /\ request'[r].step = "looked" /\ (request'[r].found <=> rows # <<>>)
  BY <1>1 DEF RateInv, Steps
<1>3. Ended \subseteq Ended'
  BY <1>1, <1>2 DEF Ended
<1>4. overlapped' \in BOOLEAN
  BY <1>1 DEF RateInv
<1>5. overlapped' \/ (~overlapped /\ \A q \in Requester : request[q].step # "looked")
  BY <1>1 DEF RateInv
<1>6. Len(rows') <= Cardinality(Ended')
  <2>1. Len(rows) \in Nat /\ Len(rows) <= Cardinality(Ended) /\ rows' = rows
    BY <1>1, LenProperties DEF RateInv
  <2>. QED
    BY <1>3, <2>1, EndedGrows, EndedIsFinite
<1>7. CASE overlapped'
  BY <1>1, <1>2, <1>4, <1>6, <1>7 DEF RateInv
<1>8. CASE ~overlapped'
  <2>1. /\ \A s, q \in Requester :
              request'[s].step = "looked" /\ request'[q].step = "looked" => s = q
        /\ \A q \in Requester :
              request'[q].step = "looked" => (request'[q].found <=> rows' # <<>>)
    BY <1>1, <1>2, <1>5, <1>8
  <2>2. Len(rows') <= 1
    BY <1>1, <1>5, <1>8 DEF RateInv
  <2>. QED
    BY <1>1, <1>2, <1>4, <1>6, <2>1, <2>2 DEF RateInv
<1>. QED
  BY <1>7, <1>8

LEMMA WriteRateStep ==
    ASSUME RateInv, NEW r \in Requester, WriteRate(r)
    PROVE  RateInv'
<1>1. /\ request[r].step = "looked"
      /\ rows' = IF request[r].found THEN [i \in 1..Len(rows) |-> request[r].rate]
                 ELSE Append(rows, request[r].rate)
      /\ request' = [request EXCEPT ![r].step = "ended"]
      /\ UNCHANGED <<clock, overlapped>>
  BY DEF WriteRate
<1>2. /\ request' \in [Requester -> [step : Steps, rate : 0..MaxTime, found : BOOLEAN]]
      /\ \A q \in Requester \ {r} : request'[q] = request[q]
      /\ request'[r].step = "ended"
  BY <1>1 DEF RateInv, Steps
<1>3. rows \in Seq(0..MaxTime) /\ Len(rows) \in Nat /\ request[r].rate \in 0..MaxTime
  BY DEF RateInv
<1>4. /\ rows' \in Seq(0..MaxTime)
      /\ Len(rows') = IF request[r].found THEN Len(rows) ELSE Len(rows) + 1
  <2>1. CASE request[r].found
    <3>1. rows' = [i \in 1..Len(rows) |-> request[r].rate]
      BY <1>1, <2>1
    <3>2. rows' \in Seq(0..MaxTime) /\ Len(rows') = Len(rows)
      BY <1>3, <3>1, IsASeq
    <3>. QED
      BY <2>1, <3>2
  <2>2. CASE ~request[r].found
    BY <1>1, <1>3, <2>2, AppendProperties
  <2>. QED
    BY <2>1, <2>2
<1>5. Cardinality(Ended') = Cardinality(Ended) + 1
  <2>1. Ended' = Ended \cup {r} /\ r \notin Ended
    BY <1>1, <1>2 DEF Ended
  <2>. QED
    BY <2>1, EndedIsFinite, FS_AddElement
<1>6. Len(rows') <= Cardinality(Ended')
  BY <1>3, <1>4, <1>5, EndedIsFinite DEF RateInv
<1>7. CASE overlapped
  BY <1>1, <1>2, <1>4, <1>6, <1>7 DEF RateInv
<1>8. CASE ~overlapped
  <2>1. \A q \in Requester : request'[q].step # "looked"
    BY <1>1, <1>2, <1>8 DEF RateInv
  <2>2. request[r].found <=> rows # <<>>
    BY <1>1, <1>8 DEF RateInv
  <2>3. rows = <<>> => Len(rows) = 0
    OBVIOUS
  <2>4. Len(rows') <= 1
    BY <1>4, <1>8, <2>2, <2>3 DEF RateInv
  <2>. QED
    BY <1>1, <1>2, <1>4, <1>6, <2>1, <2>4 DEF RateInv
<1>. QED
  BY <1>7, <1>8

LEMMA RateInvariant == RateSpec => []RateInv
<1>1. RateInv /\ [RateNext]_rateVars => RateInv'
  <2>. SUFFICES ASSUME RateInv, [RateNext]_rateVars
                PROVE  RateInv'
    OBVIOUS
  <2>1. CASE UNCHANGED rateVars
    BY <2>1 DEF RateInv, Ended, rateVars
  <2>. QED
    BY <2>1, TickStep, KillRequestsStep, RequestSteps, LookForRateStep, WriteRateStep DEF RateNext
<1>. QED
  BY <1>1, InitRate, PTL DEF RateSpec

(* A coin has one row, however many threads ask and whatever deaths come   *)
(* in between, unless two threads were between look and write at once.     *)
THEOREM CoinHasOneRow == RateSpec => []OneRowPerCoin
<1>1. RateInv => OneRowPerCoin
  BY DEF RateInv, OneRowPerCoin
<1>. QED
  BY <1>1, RateInvariant, PTL

(* The rows are never more than the threads.                               *)
LEMMA RateTypes == RateInv => RateTypeOK
<1>. SUFFICES ASSUME RateInv PROVE RateTypeOK
  OBVIOUS
<1>1. Cardinality(Ended) <= Cardinality(Requester) /\ Cardinality(Requester) \in Nat
  <2>1. Ended \subseteq Requester /\ IsFiniteSet(Requester)
    BY RateAssumption DEF Ended
  <2>. QED
    BY <2>1, FS_Subset, FS_CardinalityType
<1>2. Len(rows) \in 0..Cardinality(Requester) /\ rows \in [1..Len(rows) -> 0..MaxTime]
  <2>1. rows \in Seq(0..MaxTime) /\ Len(rows) <= Cardinality(Ended)
    BY DEF RateInv
  <2>2. Len(rows) \in Nat /\ rows \in [1..Len(rows) -> 0..MaxTime]
    BY <2>1, LenProperties
  <2>. QED
    BY <1>1, <2>1, <2>2, EndedIsFinite
<1>3. rows \in BoundedSeq(0..MaxTime, Cardinality(Requester))
  BY <1>2 DEF BoundedSeq, SeqOf
<1>. QED
  BY <1>3 DEF RateInv, RateTypeOK

(***************************************************************************)
(* ListLoader                                                              *)
(***************************************************************************)
ALoad == [own : BOOLEAN, read : BOOLEAN, got : 0..MaxVersion]

LoaderTypes ==
    /\ {version, list, shown} \subseteq 0..MaxVersion
    /\ {visible, refreshing, late} \subseteq BOOLEAN
    /\ queued \in Nat /\ running \in Seq(ALoad) /\ posted \in Seq(BOOLEAN)
    /\ queued + Len(running) + Len(posted) <= MaxLoads

(* No load is ahead of the data, and, before a load of an earlier visit    *)
(* has written the field, what is shown is no newer than the field, which  *)
(* is no newer than what the one load of this visit has read.              *)
Orderly ==
    /\ list <= version
    /\ \A i \in 1..Len(running) : running[i].got <= version
    /\ \/ late
       \/ /\ shown <= list
          /\ \A i, j \in 1..Len(running) : running[i].own /\ running[j].own => i = j
          /\ \A i \in 1..Len(running) :
                running[i].own /\ running[i].read => list <= running[i].got

LoaderInv == LoaderTypes /\ Orderly

(* What is left of a sequence without one element.                         *)
LEMMA Removed ==
    ASSUME NEW S, NEW s \in Seq(S), NEW i \in 1..Len(s)
    PROVE  /\ RemoveAt(s, i) \in Seq(S)
           /\ Len(RemoveAt(s, i)) = Len(s) - 1
           /\ \A j \in 1..Len(s) - 1 : RemoveAt(s, i)[j] = IF j < i THEN s[j] ELSE s[j + 1]
<1>. DEFINE front == SubSeq(s, 1, i - 1)
            back  == SubSeq(s, i + 1, Len(s))
<1>1. Len(s) \in Nat
  BY LenProperties
<1>2. front \in Seq(S) /\ Len(front) = i - 1 /\ \A j \in 1..i - 1 : front[j] = s[j]
  BY <1>1, SubSeqProperties
<1>3. back \in Seq(S) /\ Len(back) = Len(s) - i /\ \A j \in 1..Len(s) - i : back[j] = s[i + j]
  BY <1>1, SubSeqProperties
<1>. HIDE DEF front, back
<1>4. RemoveAt(s, i) = front \o back
  BY DEF RemoveAt, front, back
<1>5. /\ front \o back \in Seq(S) /\ Len(front \o back) = Len(front) + Len(back)
      /\ \A j \in 1..Len(front) + Len(back) :
            (front \o back)[j] = IF j <= Len(front) THEN front[j] ELSE back[j - Len(front)]
  BY <1>2, <1>3, ConcatProperties
<1>6. Len(front \o back) = Len(s) - 1
  BY <1>1, <1>2, <1>3, <1>5
<1>7. ASSUME NEW j \in 1..Len(s) - 1
      PROVE  (front \o back)[j] = IF j < i THEN s[j] ELSE s[j + 1]
  <2>1. CASE j < i
    BY <1>1, <1>2, <1>3, <1>5, <2>1
  <2>2. CASE ~(j < i)
    <3>. i \in Int /\ j \in Int /\ j >= i
      BY <1>1, <2>2
    <3>1. (front \o back)[j] = back[j - (i - 1)] /\ j - (i - 1) \in 1..Len(s) - i
      BY <1>1, <1>2, <1>3, <1>5, <2>2
    <3>2. back[j - (i - 1)] = s[i + (j - (i - 1))] /\ i + (j - (i - 1)) = j + 1
      BY <1>3, <3>1
    <3>3. (front \o back)[j] = s[j + 1]
      BY <3>1, <3>2
    <3>. QED
      BY <2>2, <3>3
  <2>. QED
    BY <2>1, <2>2
<1>. QED
  <2>1. front \o back \in Seq(S)
    BY <1>5
  <2>2. \A j \in 1..Len(s) - 1 : (front \o back)[j] = IF j < i THEN s[j] ELSE s[j + 1]
    BY <1>7
  <2>. QED
    BY <1>4, <1>6, <2>1, <2>2

LEMMA LengthsOfLoads ==
    ASSUME LoaderTypes
    PROVE  Len(running) \in Nat /\ Len(posted) \in Nat
BY LenProperties DEF LoaderTypes

LEMMA InitLoader == LoaderInit => LoaderInv
<1>. SUFFICES ASSUME LoaderInit PROVE LoaderInv
  OBVIOUS
<1>1. {visible, refreshing, late} \subseteq BOOLEAN
  BY DEF LoaderInit
<1>2. {version, list, shown} \subseteq 0..MaxVersion
  BY LoaderAssumption DEF LoaderInit
<1>3. running \in Seq(ALoad) /\ posted \in Seq(BOOLEAN) /\ Len(running) = 0 /\ Len(posted) = 0
  BY DEF LoaderInit
<1>4. LoaderTypes
  BY <1>1, <1>2, <1>3, LoaderAssumption DEF LoaderInit, LoaderTypes
<1>5. Orderly
  BY <1>3 DEF LoaderInit, Orderly
<1>. QED
  BY <1>4, <1>5 DEF LoaderInv

(* The data change, and only that.                                         *)
LEMMA ChangeDataStep ==
    ASSUME LoaderInv, ChangeData
    PROVE  LoaderInv'
<1>1. /\ version < MaxVersion /\ version' = version + 1
      /\ UNCHANGED <<visible, queued, running, list, posted, shown, refreshing, late>>
  BY DEF ChangeData
<1>2. {version', list', shown'} \subseteq 0..MaxVersion
  BY <1>1, LoaderAssumption DEF LoaderInv, LoaderTypes
<1>3. LoaderTypes'
  BY <1>1, <1>2 DEF LoaderInv, LoaderTypes
<1>4. running \in Seq(ALoad) /\ version \in Nat /\ list \in Nat
  BY LoaderAssumption DEF LoaderInv, LoaderTypes
<1>5. \A i \in 1..Len(running) : running[i].got \in Nat
  <2>1. \A i \in 1..Len(running) : running[i] \in ALoad
    BY <1>4, ElementOfSeq
  <2>. QED
    BY <2>1, LoaderAssumption DEF ALoad
<1>6. list' <= version' /\ \A i \in 1..Len(running) : running'[i].got <= version'
  BY <1>1, <1>4, <1>5 DEF LoaderInv, Orderly
<1>7. Orderly'
  BY <1>1, <1>6 DEF LoaderInv, Orderly
<1>. QED
  BY <1>3, <1>7 DEF LoaderInv

(* Asking for a load, now or for a screen that is not there.               *)
LEMMA LoadSteps ==
    ASSUME LoaderInv, OnResumeList \/ Refresh
    PROVE  LoaderInv'
<1>1. /\ LoadRoom /\ refreshing' = TRUE /\ queued' \in {queued, queued + 1}
      /\ UNCHANGED <<version, running, list, posted, shown, late>>
  BY DEF OnResumeList, Refresh, Load
<1>2. visible' \in BOOLEAN
  BY DEF OnResumeList, Refresh, LoaderInv, LoaderTypes
<1>3. {visible', refreshing', late'} \subseteq BOOLEAN
  BY <1>1, <1>2 DEF LoaderInv, LoaderTypes
<1>4. queued' \in Nat /\ queued' + Len(running') + Len(posted') <= MaxLoads
  BY <1>1, LengthsOfLoads, LoaderAssumption DEF LoadRoom, LoaderInv, LoaderTypes
<1>5. LoaderTypes'
  BY <1>1, <1>3, <1>4 DEF LoaderInv, LoaderTypes
<1>6. Orderly'
  BY <1>1 DEF LoaderInv, Orderly
<1>. QED
  BY <1>5, <1>6 DEF LoaderInv

(* What runs when the screen stops is of an earlier visit from then on.    *)
LEMMA OnStopStep ==
    ASSUME LoaderInv, OnStop
    PROVE  LoaderInv'
<1>1. /\ visible' = FALSE /\ queued' = 0
      /\ running' = [i \in 1..Len(running) |-> [running[i] EXCEPT !.own = FALSE]]
      /\ UNCHANGED <<version, list, posted, shown, refreshing, late>>
  BY DEF OnStop
<1>2. \A i \in 1..Len(running) : running[i] \in ALoad
  BY ElementOfSeq DEF LoaderInv, LoaderTypes
<1>3. \A i \in 1..Len(running) : /\ [running[i] EXCEPT !.own = FALSE] \in ALoad
                                  /\ ~[running[i] EXCEPT !.own = FALSE].own
                                  /\ [running[i] EXCEPT !.own = FALSE].got = running[i].got
  BY <1>2 DEF ALoad
<1>4. Len(running) \in Nat /\ Len(posted) \in Nat
  BY LengthsOfLoads DEF LoaderInv
<1>5. running' \in Seq(ALoad) /\ Len(running') = Len(running)
  BY <1>1, <1>3, <1>4, IsASeq
<1>6. \A i \in 1..Len(running') : ~running'[i].own /\ running'[i].got = running[i].got
  BY <1>1, <1>3, <1>5
<1>7. {visible', refreshing', late'} \subseteq BOOLEAN
  BY <1>1 DEF LoaderInv, LoaderTypes
<1>8. queued' \in Nat /\ queued' + Len(running') + Len(posted') <= MaxLoads
  BY <1>1, <1>4, <1>5, LoaderAssumption DEF LoaderInv, LoaderTypes
<1>9. LoaderTypes'
  BY <1>1, <1>5, <1>7, <1>8 DEF LoaderInv, LoaderTypes
<1>10. Orderly'
  BY <1>1, <1>5, <1>6 DEF LoaderInv, Orderly
<1>. QED
  BY <1>9, <1>10 DEF LoaderInv

(* The next load begins when no other of this visit runs.                  *)
LEMMA BeginLoadStep ==
    ASSUME LoaderInv, BeginLoad
    PROVE  LoaderInv'
<1>. DEFINE new == [own |-> TRUE, read |-> FALSE, got |-> 0]
<1>1. /\ queued > 0 /\ queued' = queued - 1
      /\ \A i \in 1..Len(running) : ~running[i].own
      /\ running' = Append(running, new)
      /\ UNCHANGED <<version, visible, list, posted, shown, refreshing, late>>
  BY DEF BeginLoad
<1>2. new \in ALoad /\ new.own /\ ~new.read /\ new.got = 0
  BY LoaderAssumption DEF ALoad
<1>. HIDE DEF new
<1>3. running \in Seq(ALoad) /\ Len(running) \in Nat /\ Len(posted) \in Nat
  BY LengthsOfLoads DEF LoaderInv, LoaderTypes
<1>4. /\ running' \in Seq(ALoad) /\ Len(running') = Len(running) + 1
      /\ \A i \in 1..Len(running) : running'[i] = running[i]
      /\ running'[Len(running) + 1] = new
  BY <1>1, <1>2, <1>3, AppendProperties
<1>5. queued' \in Nat /\ queued' + Len(running') + Len(posted') <= MaxLoads
  BY <1>1, <1>3, <1>4, LoaderAssumption DEF LoaderInv, LoaderTypes
<1>6. LoaderTypes'
  BY <1>1, <1>4, <1>5 DEF LoaderInv, LoaderTypes
<1>7. \A i \in 1..Len(running') : i \in 1..Len(running) \/ i = Len(running) + 1
  BY <1>3, <1>4
<1>8. version \in Nat
  BY LoaderAssumption DEF LoaderInv, LoaderTypes
<1>9. \A i \in 1..Len(running') : running'[i].got <= version'
  BY <1>1, <1>2, <1>4, <1>7, <1>8 DEF LoaderInv, Orderly
<1>10. \A i \in 1..Len(running') : running'[i].own => i = Len(running) + 1 /\ ~running'[i].read
  BY <1>1, <1>2, <1>4, <1>7
<1>11. Orderly'
  BY <1>1, <1>9, <1>10 DEF LoaderInv, Orderly
<1>. QED
  BY <1>6, <1>11 DEF LoaderInv

(* A load reads the data as they are.                                      *)
LEMMA ReadDataStep ==
    ASSUME LoaderInv, ReadData
    PROVE  LoaderInv'
<1>1. PICK i \in 1..Len(running) :
         /\ ~running[i].read
         /\ running' = [running EXCEPT ![i].read = TRUE, ![i].got = version]
  BY DEF ReadData
<1>2. UNCHANGED <<version, visible, queued, list, posted, shown, refreshing, late>>
  BY DEF ReadData
<1>3. /\ running \in Seq(ALoad) /\ Len(running) \in Nat
      /\ running[i] \in ALoad /\ version \in 0..MaxVersion
  BY LengthsOfLoads, ElementOfSeq DEF LoaderInv, LoaderTypes
<1>. DEFINE done == [running[i] EXCEPT !.read = TRUE, !.got = version]
<1>4. done \in ALoad /\ done.got = version /\ done.own = running[i].own
  BY <1>3 DEF ALoad
<1>5. running' = [running EXCEPT ![i] = done]
  BY <1>1
<1>. HIDE DEF done
<1>6. /\ running' \in Seq(ALoad) /\ Len(running') = Len(running)
      /\ \A j \in 1..Len(running) : running'[j] = IF j = i THEN done ELSE running[j]
  BY <1>3, <1>4, <1>5, ExceptSeq
<1>7. LoaderTypes'
  BY <1>2, <1>6 DEF LoaderInv, LoaderTypes
<1>8. list <= version /\ version \in Nat /\ list \in Nat
  BY <1>3, LoaderAssumption DEF LoaderInv, LoaderTypes, Orderly
<1>9. \A j \in 1..Len(running') : running'[j].got <= version'
  BY <1>2, <1>4, <1>6, <1>8 DEF LoaderInv, Orderly
<1>10. \A j \in 1..Len(running') : running'[j].own = running[j].own
  BY <1>4, <1>6
<1>11. CASE late
  BY <1>2, <1>7, <1>8, <1>9, <1>11 DEF LoaderInv, Orderly
<1>12. CASE ~late
  <2>1. \A j \in 1..Len(running') : running'[j].own /\ running'[j].read => list' <= running'[j].got
    BY <1>2, <1>4, <1>6, <1>8, <1>12 DEF LoaderInv, Orderly
  <2>2. \A j, k \in 1..Len(running') : running'[j].own /\ running'[k].own => j = k
    BY <1>6, <1>10, <1>12 DEF LoaderInv, Orderly
  <2>. QED
    BY <1>2, <1>7, <1>8, <1>9, <1>12, <2>1, <2>2 DEF LoaderInv, Orderly
<1>. QED
  BY <1>11, <1>12

(* What a load leaves behind when it ends, of the loads that still run.    *)
LEMMA OneLoadLess ==
    ASSUME LoaderInv, NEW i \in 1..Len(running), running' = RemoveAt(running, i)
    PROVE  /\ running' \in Seq(ALoad) /\ Len(running') = Len(running) - 1
           /\ Len(running) \in Nat
           /\ \A j \in 1..Len(running') : \E k \in 1..Len(running) :
                 k # i /\ running'[j] = running[k] /\ k = (IF j < i THEN j ELSE j + 1)
<1>1. running \in Seq(ALoad) /\ Len(running) \in Nat
  BY LengthsOfLoads DEF LoaderInv, LoaderTypes
<1>2. /\ running' \in Seq(ALoad) /\ Len(running') = Len(running) - 1
      /\ \A j \in 1..Len(running) - 1 :
            running'[j] = IF j < i THEN running[j] ELSE running[j + 1]
  BY <1>1, Removed
<1>3. ASSUME NEW j \in 1..Len(running')
      PROVE  \E k \in 1..Len(running) :
                k # i /\ running'[j] = running[k] /\ k = (IF j < i THEN j ELSE j + 1)
  <2>1. CASE j < i
    BY <1>1, <1>2, <2>1
  <2>2. CASE j >= i
    BY <1>1, <1>2, <2>2
  <2>. QED
    BY <2>1, <2>2
<1>. QED
  BY <1>1, <1>2, <1>3

(* A load ends or fails and posts its result.                              *)
LEMMA OneLoadLessOrderly ==
    ASSUME LoaderInv, NEW i \in 1..Len(running), running' = RemoveAt(running, i),
           UNCHANGED <<version, shown>>, list' \in 0..version, late' \in BOOLEAN,
           late \/ late' \/ list' = list
             \/ (running[i].own /\ running[i].read /\ list' = running[i].got),
           late => late'
    PROVE  Orderly'
<1>1. /\ running' \in Seq(ALoad) /\ Len(running') = Len(running) - 1
      /\ Len(running) \in Nat
      /\ \A j \in 1..Len(running') : \E k \in 1..Len(running) :
            k # i /\ running'[j] = running[k] /\ k = (IF j < i THEN j ELSE j + 1)
  BY OneLoadLess
<1>2. version \in Nat /\ list \in Nat /\ shown \in Nat
  BY LoaderAssumption DEF LoaderInv, LoaderTypes
<1>3. list' <= version'
  BY <1>2
<1>4. \A j \in 1..Len(running') : running'[j].got <= version'
  BY <1>1 DEF LoaderInv, Orderly
<1>5. CASE late'
  BY <1>3, <1>4, <1>5 DEF Orderly
<1>6. CASE ~late'
  <2>1. /\ shown <= list
        /\ \A j, k \in 1..Len(running) : running[j].own /\ running[k].own => j = k
        /\ \A j \in 1..Len(running) : running[j].own /\ running[j].read => list <= running[j].got
    BY <1>6 DEF LoaderInv, Orderly
  <2>2. CASE list' = list
    <3>1. \A j, k \in 1..Len(running') : running'[j].own /\ running'[k].own => j = k
      BY <1>1, <2>1
    <3>2. \A j \in 1..Len(running') : running'[j].own /\ running'[j].read => list' <= running'[j].got
      BY <1>1, <2>1, <2>2
    <3>. QED
      BY <1>3, <1>4, <2>1, <2>2, <3>1, <3>2 DEF Orderly
  <2>3. CASE running[i].own /\ running[i].read /\ list' = running[i].got
    <3>1. \A j \in 1..Len(running') : ~running'[j].own
      BY <1>1, <2>1, <2>3
    <3>2. shown' <= list'
      BY <1>2, <2>1, <2>3
    <3>. QED
      BY <1>3, <1>4, <3>1, <3>2 DEF Orderly
  <2>. QED
    BY <1>6, <2>2, <2>3
<1>. QED
  BY <1>5, <1>6

LEMMA EndOfLoadSteps ==
    ASSUME LoaderInv, EndLoad \/ FailLoad
    PROVE  LoaderInv'
<1>1. PICK i \in 1..Len(running) :
         /\ running' = RemoveAt(running, i)
         /\ \/ list' = list /\ late' = late
            \/ running[i].read /\ list' = running[i].got /\ late' = (late \/ ~running[i].own)
  BY DEF EndLoad, FailLoad
<1>2. PICK result \in BOOLEAN : posted' = Append(posted, result)
  BY DEF EndLoad, FailLoad
<1>3. UNCHANGED <<version, visible, queued, shown, refreshing>>
  BY DEF EndLoad, FailLoad
<1>4. /\ running' \in Seq(ALoad) /\ Len(running') = Len(running) - 1
      /\ Len(running) \in Nat
  BY <1>1, OneLoadLess
<1>5. posted' \in Seq(BOOLEAN) /\ Len(posted') = Len(posted) + 1 /\ Len(posted) \in Nat
  BY <1>2, AppendProperties, LengthsOfLoads DEF LoaderInv, LoaderTypes
<1>6. running[i] \in ALoad /\ running[i].got <= version /\ list <= version
  BY ElementOfSeq DEF LoaderInv, LoaderTypes, Orderly
<1>7. running[i].own \in BOOLEAN /\ running[i].got \in 0..MaxVersion
  BY <1>6 DEF ALoad
<1>8. version \in 0..MaxVersion /\ list \in 0..MaxVersion /\ late \in BOOLEAN
  BY DEF LoaderInv, LoaderTypes
<1>9. list' \in 0..version /\ list' \in 0..MaxVersion
  BY <1>1, <1>6, <1>7, <1>8, LoaderAssumption
<1>10. late' \in BOOLEAN /\ (late => late')
  BY <1>1, <1>7, <1>8
<1>11. Orderly'
  <2>1. late \/ late' \/ list' = list
           \/ (running[i].own /\ running[i].read /\ list' = running[i].got)
    BY <1>1
  <2>2. running' = RemoveAt(running, i)
    BY <1>1
  <2>3. UNCHANGED <<version, shown>> /\ list' \in 0..version /\ late' \in BOOLEAN /\ (late => late')
    BY <1>3, <1>9, <1>10
  <2>. QED
    BY <2>1, <2>2, <2>3, OneLoadLessOrderly
<1>12. queued' + Len(running') + Len(posted') <= MaxLoads
  BY <1>3, <1>4, <1>5, LoaderAssumption DEF LoaderInv, LoaderTypes
<1>13. LoaderTypes'
  <2>1. {version', list', shown'} \subseteq 0..MaxVersion
    BY <1>3, <1>9 DEF LoaderInv, LoaderTypes
  <2>2. {visible', refreshing', late'} \subseteq BOOLEAN
    BY <1>3, <1>10 DEF LoaderInv, LoaderTypes
  <2>. QED
    BY <1>3, <1>4, <1>5, <1>12, <2>1, <2>2 DEF LoaderInv, LoaderTypes
<1>. QED
  BY <1>11, <1>13 DEF LoaderInv

(* The main thread shows the field.                                        *)
LEMMA ShowListStep ==
    ASSUME LoaderInv, ShowList
    PROVE  LoaderInv'
<1>1. /\ posted # <<>> /\ posted' = Tail(posted) /\ refreshing' = FALSE
      /\ shown' \in {list, shown}
      /\ UNCHANGED <<version, visible, queued, running, list, late>>
  BY DEF ShowList
<1>2. posted' \in Seq(BOOLEAN) /\ Len(posted') = Len(posted) - 1 /\ Len(posted) \in Nat
  BY <1>1, HeadTailProperties, LengthsOfLoads DEF LoaderInv, LoaderTypes
<1>3. queued' + Len(running') + Len(posted') <= MaxLoads
  BY <1>1, <1>2, LengthsOfLoads, LoaderAssumption DEF LoaderInv, LoaderTypes
<1>4. {version', list', shown'} \subseteq 0..MaxVersion
  BY <1>1 DEF LoaderInv, LoaderTypes
<1>5. {visible', refreshing', late'} \subseteq BOOLEAN
  BY <1>1 DEF LoaderInv, LoaderTypes
<1>6. LoaderTypes'
  BY <1>1, <1>2, <1>3, <1>4, <1>5 DEF LoaderInv, LoaderTypes
<1>7. list \in Nat
  BY LoaderAssumption DEF LoaderInv, LoaderTypes
<1>8. Orderly'
  BY <1>1, <1>7 DEF LoaderInv, Orderly
<1>. QED
  BY <1>6, <1>8 DEF LoaderInv

LEMMA LoaderStep ==
    ASSUME LoaderInv, [LoaderNext]_loaderVars
    PROVE  LoaderInv'
<1>1. CASE UNCHANGED loaderVars
  BY <1>1 DEF LoaderInv, LoaderTypes, Orderly, loaderVars
<1>. QED
  BY <1>1, ChangeDataStep, LoadSteps, OnStopStep, BeginLoadStep, ReadDataStep, EndOfLoadSteps,
     ShowListStep DEF LoaderNext

LEMMA LoaderInvariant == LoaderSpec => []LoaderInv
BY InitLoader, LoaderStep, PTL DEF LoaderSpec

(* The list never goes back to older data, however many visits and loads   *)
(* there are, unless a load of an earlier visit wrote the field.           *)
THEOREM ListNeverOlder == LoaderSpec => NeverOlder
<1>1. ASSUME LoaderInv, [LoaderNext]_loaderVars
      PROVE  [shown' >= shown \/ late]_loaderVars
  <2>1. list \in Nat /\ shown \in Nat /\ (late \/ shown <= list)
    BY <1>1, LoaderAssumption DEF LoaderInv, LoaderTypes, Orderly
  <2>2. CASE shown' \in {list, shown}
    BY <2>1, <2>2
  <2>3. shown' \in {list, shown}
    BY <1>1 DEF LoaderNext, ChangeData, OnResumeList, Refresh, Load, OnStop, BeginLoad, ReadData,
                EndLoad, FailLoad, ShowList, loaderVars
  <2>. QED
    BY <2>2, <2>3
<1>. QED
  BY <1>1, LoaderInvariant, PTL DEF LoaderSpec, NeverOlder

(* What fairness has to build on: while the screen is there and the        *)
(* indicator turns, a load of this visit waits or runs, or a result is on  *)
(* its way, so that no indicator turns for nothing.                        *)
RefreshIsBacked ==
    refreshing /\ visible =>
        \/ queued > 0
        \/ \E i \in 1..Len(running) : running[i].own
        \/ posted # <<>>

LEMMA BackedStep ==
    ASSUME LoaderInv, RefreshIsBacked, [LoaderNext]_loaderVars
    PROVE  RefreshIsBacked'
<1>. USE DEF RefreshIsBacked
<1>1. running \in Seq(ALoad) /\ Len(running) \in Nat /\ queued \in Nat /\ posted \in Seq(BOOLEAN)
  BY LengthsOfLoads DEF LoaderInv, LoaderTypes
<1>2. CASE OnResumeList \/ Refresh
  <2>1. queued' = queued + 1 \/ ~visible'
    BY <1>2 DEF OnResumeList, Refresh, Load
  <2>. QED
    BY <1>1, <2>1
<1>3. CASE OnStop
  BY <1>3 DEF OnStop
<1>4. CASE BeginLoad
  <2>. DEFINE new == [own |-> TRUE, read |-> FALSE, got |-> 0]
  <2>1. running' = Append(running, new) /\ new \in ALoad
    BY <1>4, LoaderAssumption DEF BeginLoad, ALoad
  <2>. HIDE DEF new
  <2>2. Len(running') = Len(running) + 1 /\ running'[Len(running) + 1] = new
    BY <1>1, <2>1, AppendProperties
  <2>. QED
    BY <1>1, <2>2 DEF new
<1>5. CASE ReadData
  <2>1. PICK i \in 1..Len(running) :
           running' = [running EXCEPT ![i].read = TRUE, ![i].got = version]
    BY <1>5 DEF ReadData
  <2>2. \A j \in 1..Len(running) : running[j] \in ALoad
    BY <1>1, ElementOfSeq
  <2>3. /\ Len(running') = Len(running)
        /\ \A j \in 1..Len(running) : running'[j].own = running[j].own
    BY <1>1, <2>1, <2>2 DEF ALoad
  <2>. QED
    BY <1>5, <2>3 DEF ReadData
<1>6. CASE EndLoad \/ FailLoad
  <2>1. PICK result : posted' = Append(posted, result) /\ result \in BOOLEAN
    BY <1>6 DEF EndLoad, FailLoad
  <2>. QED
    BY <1>1, <2>1, AppendProperties
<1>7. CASE ShowList
  BY <1>7 DEF ShowList
<1>8. CASE ChangeData \/ UNCHANGED loaderVars
  BY <1>8 DEF ChangeData, loaderVars
<1>. QED
  BY <1>2, <1>3, <1>4, <1>5, <1>6, <1>7, <1>8 DEF LoaderNext

(* An indicator that turns on a visible list has a load behind it, however *)
(* many visits, refreshes and failed loads came before.                    *)
THEOREM RefreshHasLoad == LoaderSpec => []RefreshIsBacked
<1>1. LoaderInit => RefreshIsBacked
  BY DEF LoaderInit, RefreshIsBacked
<1>. QED
  BY <1>1, LoaderInvariant, BackedStep, PTL DEF LoaderSpec

(* Queue, threads and results together never exceed the bound.             *)
LEMMA LoaderIsTyped == LoaderInv => LoaderTypeOK
<1>. SUFFICES ASSUME LoaderInv PROVE LoaderTypeOK
  OBVIOUS
<1>1. Len(running) \in Nat /\ Len(posted) \in Nat
  BY LengthsOfLoads DEF LoaderInv
<1>2. queued \in 0..MaxLoads /\ Len(running) \in 0..MaxLoads /\ Len(posted) \in 0..MaxLoads
  BY <1>1, LoaderAssumption DEF LoaderInv, LoaderTypes
<1>3. running \in [1..Len(running) -> ALoad] /\ posted \in [1..Len(posted) -> BOOLEAN]
  BY LenProperties DEF LoaderInv, LoaderTypes
<1>4. running \in BoundedSeq([own : BOOLEAN, read : BOOLEAN, got : 0..MaxVersion], MaxLoads)
  BY <1>2, <1>3 DEF BoundedSeq, SeqOf, ALoad
<1>5. posted \in BoundedSeq(BOOLEAN, MaxLoads)
  BY <1>2, <1>3 DEF BoundedSeq, SeqOf
<1>. QED
  BY <1>2, <1>4, <1>5 DEF LoaderInv, LoaderTypes, LoaderTypeOK

(***************************************************************************)
(* The parts together                                                      *)
(***************************************************************************)

(* Every execution of the composition is one of each part.                 *)
THEOREM ExecutesParts ==
    FairSpec => TxSpec /\ LoaderSpec /\ RateSpec /\ NoticeSpec /\ TraceSpec
<1>1. Init => TxInit /\ LoaderInit /\ RateInit /\ NoticeInit /\ TraceInit
  BY DEF Init
<1>2. [Next]_vars => [TxNext]_txVars
  BY DEF Next, vars
<1>3. [Next]_vars => [LoaderNext]_loaderVars
  BY DEF Next, vars
<1>4. [Next]_vars => [RateNext]_rateVars
  BY DEF Next, vars
<1>5. [Next]_vars => [NoticeNext]_noticeVars
  BY DEF Next, vars
<1>6. [Next]_vars => [TraceNext]_traceVars
  BY DEF Next, vars
<1>. QED
  BY <1>1, <1>2, <1>3, <1>4, <1>5, <1>6, PTL
     DEF FairSpec, TxSpec, LoaderSpec, RateSpec, NoticeSpec, TraceSpec

(* The variables keep their types: the field of the amount stays a natural *)
(* number, the loads and the rows stay within their bounds.                *)
THEOREM TypesAreKept == FairSpec => []TypesOK
<1>1. TraceInv => TraceTypeOK
  BY DEF TraceInv
<1>2. NoticeInv => NoticeTypeOK
  BY DEF NoticeInv
<1>3. TxTypeOK /\ LoaderTypeOK /\ RateTypeOK /\ NoticeTypeOK /\ TraceTypeOK => TypesOK
  BY DEF TypesOK
<1>. QED
  BY <1>1, <1>2, <1>3, ExecutesParts, TxTypes, LoaderInvariant, LoaderIsTyped, RateInvariant,
     RateTypes, NoticeInvariant, TraceInvariant, PTL

(* What is proved of the parts holds of the application as a whole,        *)
(* however their steps interleave.                                         *)
THEOREM BackgroundIsSafe ==
    FairSpec => [](TracesAccountedFor /\ NeverOverstated /\ OneRowPerCoin) /\ NeverOlder
BY ExecutesParts, TracesAreAccountedFor, NeverTooMuch, CoinHasOneRow, ListNeverOlder, PTL
=============================================================================
