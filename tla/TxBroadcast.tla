---------------------------- MODULE TxBroadcast ----------------------------
(***************************************************************************)
(* A committed transaction on its way to the network.  The send, donate    *)
(* and convert screens commit it to the wallet and hand its hash to the    *)
(* service with startService; the service asks the library to broadcast    *)
(* it; and whenever a peer connects, the service sends it every pending    *)
(* transaction of the wallet.  The process may die anywhere.               *)
(***************************************************************************)
EXTENDS Naturals

CONSTANTS
    Tx,          \* the transactions the user confirms
    MaxTxDeaths  \* bound on the deaths of the process

ASSUME TxAssumption == MaxTxDeaths \in Nat

VARIABLES
    pending,    \* transactions of the wallet that are not confirmed yet
    saved,      \* the transactions in the wallet file
    screen,     \* transactions that are committed and not handed over
    intents,    \* hashes on their way to onStartCommand
    outbox,     \* transactions the library broadcasts to the next peer
    connected,  \* is a peer connected?
    network,    \* the transactions the network has
    forgotten,  \* committed, and lost with a death before the wallet was saved
    txDeaths

txVars == <<pending, saved, screen, intents, outbox, connected, network, forgotten, txDeaths>>

TxInit ==
    /\ pending = {} /\ saved = {} /\ screen = {} /\ intents = {} /\ outbox = {}
    /\ connected = FALSE
    /\ network = {} /\ forgotten = {}
    /\ txDeaths = 0

----------------------------------------------------------------------------
(* The user confirms and the screen commits.                               *)
CommitTx ==
    /\ \E tx \in Tx \ (pending \cup saved \cup network \cup forgotten) :
           /\ pending' = pending \cup {tx}
           /\ screen' = screen \cup {tx}
    /\ UNCHANGED <<saved, intents, outbox, connected, network, forgotten, txDeaths>>

(* startService with the hash.                                             *)
StartService ==
    /\ \E tx \in screen : screen' = screen \ {tx} /\ intents' = intents \cup {tx}
    /\ UNCHANGED <<pending, saved, outbox, connected, network, forgotten, txDeaths>>

(* onStartCommand: the library looks the hash up in the wallet and takes   *)
(* the transaction on, or throws, which is only logged.                    *)
BroadcastTransaction ==
    /\ \E tx \in intents :
           /\ intents' = intents \ {tx}
           /\ \/ outbox' = outbox \cup ({tx} \cap pending)
              \/ UNCHANGED outbox
    /\ UNCHANGED <<pending, saved, screen, connected, network, forgotten, txDeaths>>

(* The library sends what it was asked to broadcast.                       *)
SendOutbox ==
    /\ connected /\ outbox # {}
    /\ \E tx \in outbox : outbox' = outbox \ {tx} /\ network' = network \cup {tx}
    /\ UNCHANGED <<pending, saved, screen, intents, connected, forgotten, txDeaths>>

(* Mutant: a new peer gets what this process was asked to broadcast.       *)
ResendsOutbox(all) ==
    /\ ~connected /\ connected' = TRUE
    /\ \E sent \in SUBSET outbox :
           /\ all <=> sent = outbox
           /\ network' = network \cup sent
    /\ UNCHANGED <<pending, saved, screen, intents, outbox, forgotten, txDeaths>>

(* onPeerConnected sends the pending transactions one after the other; an  *)
(* exception ends the loop.                                                *)
OnPeerConnected(all) ==
    /\ ~connected /\ connected' = TRUE
    /\ \E sent \in SUBSET pending :
           /\ all <=> sent = pending
           /\ network' = network \cup sent
    /\ UNCHANGED <<pending, saved, screen, intents, outbox, forgotten, txDeaths>>

OnPeerDisconnected ==
    /\ connected /\ connected' = FALSE
    /\ UNCHANGED <<pending, saved, screen, intents, outbox, network, forgotten, txDeaths>>

(* A transaction the network has is confirmed by a block.                  *)
Confirm ==
    /\ connected
    /\ \E tx \in pending \cap network : pending' = pending \ {tx}
    /\ UNCHANGED <<saved, screen, intents, outbox, connected, network, forgotten, txDeaths>>

(* The wallet saves itself some time after a change.                       *)
SaveWallet ==
    /\ saved' = pending /\ saved # pending
    /\ UNCHANGED <<pending, screen, intents, outbox, connected, network, forgotten, txDeaths>>

(* The process dies; an intent that was not delivered may be kept by       *)
(* Android for the next process.                                           *)
DieAndRestart ==
    /\ txDeaths < MaxTxDeaths
    /\ txDeaths' = txDeaths + 1
    /\ pending' = saved
    /\ forgotten' = forgotten \cup (pending \ saved)
    /\ screen' = {} /\ outbox' = {}
    /\ connected' = FALSE
    /\ \E kept \in SUBSET intents : intents' = kept
    /\ UNCHANGED <<saved, network>>

TxNext ==
    \/ CommitTx \/ StartService \/ BroadcastTransaction \/ SendOutbox
    \/ OnPeerConnected(TRUE) \/ OnPeerConnected(FALSE) \/ OnPeerDisconnected
    \/ Confirm \/ SaveWallet \/ DieAndRestart

TxSpec == TxInit /\ [][TxNext]_txVars

(* Peers come and go, and again and again one stays for the whole loop.    *)
TxFairness ==
    /\ WF_txVars(OnPeerDisconnected)
    /\ SF_txVars(OnPeerConnected(TRUE))

----------------------------------------------------------------------------
TxTypeOK ==
    /\ {pending, saved, screen, intents, outbox, network, forgotten} \subseteq SUBSET Tx
    /\ connected \in BOOLEAN
    /\ txDeaths \in 0..MaxTxDeaths

(* What the wallet has committed reaches the network: when startService    *)
(* was not reached, when onStartCommand threw and when the process died    *)
(* before the broadcast, the next peers get it (PivxWalletService lines    *)
(* 163-173).  Only a death before the wallet was saved loses it.           *)
CommittedIsSent == \A tx \in Tx : tx \in pending ~> tx \in network \cup forgotten
=============================================================================
