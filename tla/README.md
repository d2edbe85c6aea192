# PIVX Android wallet: TLA+ models and proofs

This directory holds TLA+ specifications of the PIVX Android wallet, the TLC
configurations that check them on small instances, and TLAPS proofs of their
most important safety properties for every value of the constants. `J` below
stands for `src/app/src/main/java/pivx/org/pivxwallet`.

Run a check with `tlc -config <cfg> <MC module>` and the proofs with
`tlapm <module>Proofs.tla`. `PROJECT.json` lists the components, the runs, the
mutants, the source lines of every definition, the findings, the hazards and
the theorems.

## Inventory of the system

The program is an Android application. One process holds a single
`PivxApplication`, one `PivxModule` (the wallet, in a library outside this
repository), at most one live `PivxWalletService` at a time, and the screens.
Android drives it by callbacks on the main thread; the service has an executor
of two threads, the library has threads of its own for the peers and the chain.

| Component | State | Operations | Interaction | Hard behaviour | What makes it correct |
|---|---|---|---|---|---|
| Wallet service life cycle (`J/service/PivxWalletService.java`) | instance, reset flags, alarm, saved schedule | `onCreate`, `onStartCommand`, `check`, `onDestroy`, `tryScheduleService`, `tryScheduleServiceNow` | started by screens and by the alarm; opens and closes the store | stop and create queued around each other, two alarms that replace each other, an alarm that Android refuses, exceptions that skip the end of a callback, process death | it runs again without the user; a reset is done, and only if asked for |
| zPIV spend (`broadcastCoinSpendTransactionSync`) | `isSending`, executor, notification | hand-over, spend task, release | `SendActivity` and `ConvertActivity` bind to the service | task outlives the instance; instance without an executor; connection without auto-create | one spend of an instance at a time, none twice, every one settled |
| Block chain store (`J/module/store/SnappyBlockchainStore.java`) | LevelDB entries, head, open or closed | `get`, `put`, `setChainHead`, `close`, `truncate`, two `rollbackTo` | chain thread of the library and the service | three calls per block cut by a shutdown, reopening, death between writes | the head and what is below it can be read |
| Synchronisation state (`onBlocksDownloaded`, `broadcastBlockchainState`, `J/ui/base/BaseDrawerActivity.java`) | `blockchainState`, `impediments`, `lastMessageTime`, the state of the screen | callbacks of the peer, connectivity, `checkState` | local broadcasts | two unsynchronised writers, throttle that drops | the screen does not claim what is not so, and catches up |
| Application and core start (`J/PivxApplication.java`, splash, start, restore, loading, PIN and word screens) | core starting / started / crashed, stack of screens, timers, preferences in memory and on disk | `startCoreBackground`, `startCore`, polling, `jump`, `goNext`, `savePincode`, `onResume`, `onActivityResult` | the screens poll the application from timers of the main thread | starts submitted twice, a crash announced once to nobody, timers and a restore that outlive their screen, death between two preferences | every screen gets on; nothing closes by itself; a set-up application has a PIN |
| Committed transactions (`J/service`, send, donate and convert screens) | wallet, its file, outbox of the library | commit, `startService`, `onStartCommand`, `onPeerConnected` | screens, service, library, network | a start that is refused or throws, death between commit and broadcast | what was committed reaches the network |
| Coin notifications (`J/service/PivxWalletService.java`) | accumulated amount, the notification | `onCoinsReceived`, cancel, `onPeerDisconnected` | two threads of the executor, `onStartCommand` | two threads on one field | no notice shows more than came in since the last dismissal |
| Rates (`J/rate`) | table of rates | `requestRateCoin`, `insertOrUpdateIfExist` | one thread per request, on each connectivity event | look and write in two statements | one row per coin |
| Mint, accumulator, contact stores | tables | put, get, update | the wallet library only | keys written in two forms | |
| Send screen (`J/ui/transaction_send_activity`) | inputs, outputs, change, fee, `transaction` | results of sub-screens, `send`, PIN, broadcast | sub-screens, PIN, service | stale combinations of choices | the transaction is the one that was shown and chosen |
| Convert screen (`J/ui/privacy/privacy_convert`) | `transaction`, service connection | mint, reconvert | service | commit and broadcast apart, service not connected yet | each confirmed conversion happens once |
| PIN code, backup, restore, upgrade, node selection | preferences, files | | application, service | several preferences per step | |
| Screens and loaders (`J/ui/base`) | executor, list, refresh indicator | `onResume`, `onStop`, `load`, `refresh` | loader thread and main thread | loads of an earlier visit that go on | the list does not go back; the indicator stops |
| Crash reporting (`J/utils/CrashReporter.java`) | trace files | save, append, delete | every thread that reports | a reader deletes without the lock of the writers | a saved trace is lost only in ways one knows |
| Native helpers (`src/app/src/main/cpp`) | locked pages; hash object; seed and its expansion | `LockRange`, `UnlockRange`; `Write`, `Finalize`, `Reset`; `computeVSeedAndVExpandedNative`, `compute1024seedNative` | JNI, threads of the library | objects that share a page; borders of blocks; an object used after its hash; sign bits | a secret stays on a locked page; every byte is hashed once; a seed expands to the same number again |

The vendored boost and GMP headers (13 500 files) and the libraries that are
not in the repository (the wallet module, the peer-to-peer library, SnappyDB,
Android) are modelled only from how the code uses them.

## Modules

| Module | Models | State and actions |
|---|---|---|
| `WalletService` | life cycle of the service | `svc` is the live instance, `inbox` the messages of the main looper, `sched` the alarm and the preference saved beside it, `resetOnShutdown` and `resetToHeight` the fields; one action per callback (`OnCreate`, `OnStartCommand`, `OnConnectivity`, `OnDestroy`, `OnDestroyThrows`) and one per event of Android |
| `SpendProcess` | spends of zPIV across instances | `cur` and `born` are the instances, `isSending` the flag of each and `executor` whether it has one, `task` the step each spend has reached, `notes` the notifications, `transaction` and `bound` the fields and connections of the two screens |
| `SpendContract` | the promise of a spend, without services and screens | `spend` is the status of each transaction and the instance that took it on; `TakeOn`, `Release`, `Conclude`, `Die` |
| `BlockchainStore` | the store and its two users | `db` is the database, `thread` the block the chain thread is connecting, `rollback` the deletions under way |
| `ChainContract` | the promise of the store to the library, without entries, calls and deletions | `open`, `head`, the blocks that are `known` with their chain, and whether the promise is `broken`; `Learn`, `Create`, `Open`, `Close`, `Connect`, `RollBack`, `CutShort`, `Erase` |
| `SyncState` | the announced synchronisation state | `pc` is where the peer's callback and the main thread are between accesses to the shared fields, `mail` the posted broadcasts, `screen` the field of the screen |
| `SendScreen` | the send screen for PIV | `choice` are the five fields of the options, `asked` what the user approved in the option screens, `transaction` the field, `stack` the screens over it with what each shows, `results` what they returned; one action per click, option screen and result |
| `CoreStart` | start of the application up to the words of the wallet | `core` and `jobs` are the core and the starts submitted for it, `stack` the screens, `ghosts` the timers and restores of screens that have finished, `pref` and `disk` the preferences in memory and on disk; one action per timer, resumption, click, preference write and death |
| `TxBroadcast` | a committed transaction on its way to the network | `pending` and `saved` are the wallet and its file, `screen`, `intents`, `outbox`, `network` the places a transaction has reached |
| `ListLoader` | a list screen and its loads | `running` are the loads, each with what it read, `posted` the runnables, `list` and `shown` the field and the adapter |
| `RateStore` | the table of rates for one coin | `rows`, and the step of each request thread |
| `CoinNotice` | the notification of received coins | the accumulated amount, the step of each thread inside `onCoinsReceived`, and what is shown |
| `CrashTraces` | the file of the background traces | the file, the writers and readers that have it open, and what became of each trace |
| `LockedPages`, `SecretPages` | the page locks, and what they promise | the count of each page, and the objects with their addresses and steps; `SecretPages` only has the objects and the pages that are taken |
| `HashStream` | the bytes into SHA-256 and the double hash | `sha` is the object with its buffer and the blocks it has processed, `written` what was written since the last reset |
| `SeedExpansion` | a seed between its byte forms, and its expansion | `seed`, and the hasher, result and round of the call that makes it and of the one that reads it again |

`MC*` modules give the constants their values for TLC, `*Proofs` modules hold
the theorems. Definitions preceded by a comment that begins with "Mutant" are
not part of a model: each is a plausible bug of one operation, and replacing the
operation by it must violate the property that `PROJECT.json` names.

### WalletService

A callback runs on the main thread to its end, so a callback is one action.
Time is counted down (`alarm`, `saved`), which is what the comparisons of the
code look at; one unit is five minutes. `startService` puts a creation before
the command when Android has no record of a service, so commands can queue up
behind a stop, and an instance can be destroyed with its request undone.
`Faults` chooses which failures happen: `init` (an exception in `onCreate` that
leaves a half-built instance), `check`, `destroy` (an exception in `onDestroy`
that skips its end), `kill`, `reboot`, and `limits`. The last one is Android's:
the alarm is set with an intent that starts a service, and for an idle
application with target SDK 28 Android 8 and later refuses that start while the
service does not run; the alarm is gone then (`AlarmRefused`).

* `WakeUpPending` (safety, all faults) and `WokenAgain` (liveness, with `init`,
  `check` and `limits`): an orderly shutdown leaves an alarm, and the service
  runs again or was refused. What they exclude is that the service itself omits
  or loses the alarm; that Android grants the start is not claimed, and after a
  refusal only a screen starts the service again. Both except the history in
  which the retry alarm replaced the scheduled one; without that exception the
  property is `ScheduledAfterShutdown`, which the code violates:
  `onCreate` schedules at 15 minutes and saves that time, `check` replaces the
  alarm by one at 10 minutes, that one fires, the service is stopped before the
  15 minutes are over, and `tryScheduleService` sets no alarm.
* `OnlyAskedResets`: no instance acts on the flags of another.
  `ResetLeadsToErasure`: an accepted request is carried out if the core is
  started. Without that condition it is lost: `onDestroy` looks at the request
  only if `module.isStarted()` (line 469).

### SpendProcess

The spend task is split at each statement another thread can observe:
acceptance, the ongoing notification, the end of `spendZpiv`, the release of
`isSending`, the removal of the notification, and the failure path. The
executor of an instance is not shut down by `onDestroy`, so tasks of an earlier
instance go on. `bindService` without auto-create leaves a pending connection.
An exception in `onCreate` leaves an instance that may have no executor
(`executor`) and still accepts connections. The flag is set before the task is
submitted, so that such an instance keeps it set for good (`rejected`); an
`Error` in the task passes by every handler and leaves the flag, and the
notification if it was shown already (`TaskErrs`: `aborted`, `stranded`). An
exception, also one between the return of `spendZpiv` and the notification of
the result, takes the failure path.

* `OneSpendPerInstance`, `SubmittedOnce`, `NoStuckNotification`: safety. The
  notification stays only after an `Error`.
* `SendingIsReleased`: a flag that is set is given back, but for the two ways
  above (`Leaked`). `SpendIsSettled`: the user is told of the end of every spend
  that reached the executor, but for an `Error` or a death of the process.
* `KeepsContract`: the module implements `SpendContract` (taken on once, one at
  a time per instance, then sent, failed, or lost with the process; a spend
  that never ends keeps its instance from the next). `Mapped`
  is the refinement mapping: a task that holds the flag is `spending`, one that
  only has to tell the user is `closing`.
* Two instances may spend at once, since the flag is the instance's and the
  executor outlives it; the contract promises no more than one per instance.

### BlockchainStore

The chain thread connects a block by `Get`, `Put`, `SetChainHead` (or leaves it
on a side branch). The service opens, closes, truncates or rolls back between
any two of them, and the process may die between any two writes. Callers of a
rollback hold the lock of the chain, which belongs to the library (the store's
own lock lines are commented out), so a rollback finds the chain thread idle.

* `HeadComplete`: the head and all its predecessors are stored. It excludes
  what the code does not survive (`damaged`): a rollback by height, and a death
  inside a rollback, which deletes blocks before it moves the head.
* `KeepsChain`: the module implements `ChainContract`. Known blocks are lost
  only by a rollback and by an erasure, and the head moves to a known block
  while the store is open, or back on its own chain at once. For the contract a
  rollback is over when it begins: `Head` is already the target, and `Known`
  leaves out the blocks still to be deleted. `Broken` becomes true in the two
  cases that `HeadComplete` excludes, and an erasure makes it false. Part of the
  promise is that `setChainHead` does not reopen a closed database, as get and
  put do (`ClosedHeadStays`).
* `RolledBackHeadIsStored`: violated by `rollbackTo(int)`.

### SyncState

Two threads share `blockchainState`, `impediments` and `lastMessageTime`. Every
access is a step. `gap` is what the peer is ahead of the stored chain, `recent`
whether the last block is younger than `OUT_OF_SYNC_TIME`.

* `OfflineIsKnown`: whichever thread writes last has looked at the impediments
  after it wrote. The exception is a callback of the peer that throws between
  the two, when it saves the preferences (lines 208-209): the handler at line
  212 ends it, and its `SYNC` stays over a known loss of the network until
  either thread looks again (`SavePrefsThrows`, the history variable `threw`).
* `CatchesUp`: the announcements dropped inside the window are made up for, as
  long as blocks go on arriving and the callback stops throwing.
* Both branches of `checkState` on `OUT_OF_SYNC_TIME` compute the same, so an
  old last block does not keep the state from becoming `SYNC`; this is kept in
  the model as the code has it, and no property speaks of the constant.

### SendScreen

A transaction is whom it pays, what it spends, which fee it pays and where its
change goes; amounts are left out, so the library may need further coins, may
find that money is missing, and may leave no change. `send()` is one action
with its exits: before the field changes, after a transaction was begun in it,
after the move of the change failed, and with the confirmation screen opened.
After the move the transaction is completed a second time, by a call that is
given neither the fee nor a change address (lines 908 and 965): it may take
further coins, fall back to the default fee, and send a part of the change to
an address of its own (`CompletedAgain`). The fee screen offers the default, the
minimum, a fee per kilobyte and a total; `getFee` passes the total on as if it
were per kilobyte.
The send screen takes clicks until Android pauses it, so screens can pile up;
their results are handled in the order in which they ended. A recreated screen
keeps the typed address and the transaction and loses the options.

* `CommittedWasConfirmed`: the result of the confirmation says only "OK" and
  the screen commits what its field holds. That is the confirmed transaction,
  unless Send is clicked again before the confirmation covers the screen
  (`retapped`): the code has no guard against it.
* `ShowsWhatWasAsked`: destinations, coins, fee and change to the origin of a
  shown transaction are the ones approved last. Left out are a payment to the
  wallet's own receive address, which the move of the change swallows, the fee
  of a transaction whose change was moved, and a total fee: the code keeps none
  of these.
* `ChangeAsSpecified`: the same for a chosen change address; violated, the
  screen returns it in the extra that clears it.

### CoreStart

The core is started on background threads, at most one at a time inside
`startCore`, from the application, from the splash and from the loading screen.
A screen with a timer leaves the timer behind when it finishes (`ghosts`); a
ghost polls, submits starts and opens screens like its screen did. Preferences
are written by `apply()`: memory at once, the disk later and in order
(`Flush`), so that a death may lose a suffix of the writes. The restore screens
of the first run are part of it: from a file, where OK calls both listeners of
the dialog, so that the tutorial opens twice; and from words, where the screen
needs the core and a thread restores the wallet (`Restoring`). Its result is
posted to the main thread and opens the next screen also when the user has left
(a ghost). A second start of a
started core returns at once, a death of the process ends its task, and the
starts that wait are counted up to `MaxJobs`.

* `InitHasPin`: a set-up application has a PIN, wherever the process dies.
* `WordsNeedCore`: the words are not asked of a core that is not started, but
  for a loading screen that the user left or a core that had crashed:
  `PincodeActivity.onActivityResult` ignores the result.
* `ClosesOnPurpose`: the application closes only by Back, by a death or by a
  crash of the core. `GetsOn`: the splash and the loading screen lead to a
  screen that can be used.
* Seen while modelling, and left in the model: `hasCoreCrashed` is never
  cleared, so that after one crash the splash closes without a word even when a
  later start succeeds; the timers go on after `finish()`; a PIN that is on the
  disk without the flag of the first run makes the PIN screen finish under its
  own loading screen, and the application closes without showing the words
  (left out of `ClosesOnPurpose`); the node screen with a PIN and without that
  flag opens the wallet.

### In the background

Five small parts that share no state with each other. `MCBackground` chooses
one at the start of an execution: interleaving parts that do not interact would
only multiply the states.

* `TxBroadcast`, `CommittedIsSent`: the screens commit a transaction and then
  hand it to the service by `startService`; whatever becomes of that,
  `onPeerConnected` sends all that is pending. A death before the wallet was
  saved forgets a transaction, and the property says so.
* `ListLoader`, `NeverOlder` and `RefreshEnds`: a list does not go back to older
  data but by a load of an earlier visit (`late`), which `shutdownNow` cannot
  take back, and the indicator stops as long as the screen is there.
* `RateStore`, `OneRowPerCoin`: a coin gets a second row only from two threads
  between look and write at once.
* `CoinNotice`, `NeverOverstated`: two calls may lose an amount or show zero, and
  never show more than was received, unless a dismissal falls into a call.
  `nm.cancelAll()` on the loss of a peer removes the notification and leaves the
  amount, which is part of the model.
* `CrashTraces`, `TracesAccountedFor`: `appendSavedBackgroundTraces` of an
  exception reads the file into a text that nobody uses and deletes it, and a
  reader deletes what was written since it copied. The property names these ways
  to lose a trace and excludes every other one.

### The native helpers

Again one part per execution (`MCNative`).

* `LockedPages`: allocation, `LockRange`, `OPENSSL_cleanse`, `UnlockRange` and
  deallocation of each object are steps, the steps of several threads
  interleave, and the system may refuse any page. `CountIsRight` is the
  assertion of `UnlockRange` and more, `SecretIsLocked` is what the class is
  for, and `KeepsPromise` says that the counts implement `SecretPages`: the
  pages that are taken are those of the objects in use. The program as it is
  built does not run this code: `native-lib` is compiled from `native-lib.cpp` alone
  (`src/app/CMakeLists.txt`), and `allocators.h` is included only by
  `allocators.cpp` and, through `utilstrencodings.h`, by `uint256.cpp` and
  `utilstrencodings.cpp`, none of which is part of it. The properties are those
  of a component that the repository keeps, not of the application today; it
  has no hazard in `PROJECT.json`.
* `HashStream`: `Write` with its three ways (fill the buffer, whole blocks, keep
  the rest), `Finalize`, and `GetHash` of the double hash, which finalises,
  resets and finalises the same object. The compression function is left out:
  the blocks it got stand for its state. `StreamIsWritten` and `PaddedWhole`.
  The comment of `GetHash` (`hash.h` line 75) says that it invalidates the
  object; `native-lib.cpp` goes on writing to it, and `PaddedWhole` is why that
  has a defined result: the object is at the border of a block.
* `SeedExpansion`: the bytes of a number are OpenSSL's, with a sign bit, and the
  conversions to and from a word of 32 bytes go through them. `SameExpansion`:
  a seed read back expands to the same number, unless its bytes lost the sign
  byte that `getvch` adds (then `getuint256` clears the highest bit).
  `ExpansionIsWhole`: `setvch` and `getvch` undo each other on the expansion.

## Runs, bounds and fairness

Runs that end in a violation show what a comment or a text of the program
claims and the code does not do; `PROJECT.json` quotes the lines under
`findings`.

| Run | Bounds | Why they are enough |
|---|---|---|
| `WalletService_safety`, `_scheduled` | at most 4 messages queued, delays 3 and 2 units (15 and 10 minutes), one height, all faults in `_safety`, none in `_scheduled` | a stop, a creation and two commands in one queue give every overlap of two instances; the delays keep the order of the real ones |
| `WalletService_live` | 3 messages, failing initialisations and checks, refused alarms; no deaths and no failing shutdown | a creation, a command and a stop |
| `SpendProcess_all` | 2 transactions, 3 instances, 1 death | two tasks of one instance, and an instance before and after; each instance with or without an executor |
| `BlockchainStore_*` | genesis, a chain of 3 and a branch of 1 | reorganisation, rollback over more than one block, blocks above and below the target |
| `SyncState_all` | gap 3, thresholds 2 and 3, 3 broadcasts, window of 1 unit | both sides of each threshold, both threads announce while one broadcast waits |
| `SendScreen_*` | one foreign address and the own one, 2 coins, 2 screens, 2 option screens opened, 2 sends | an option set and cleared, or two options, before a send that is cancelled or fails and one that is confirmed; a click while a screen opens |
| `CoreStart_all` | 4 screens (open or finished), 2 waiting starts, 2 launches, 1 death | a screen with the timer of its predecessor, one start that waits behind another, a launch after a death inside the first run |
| `Background_all` | 2 transactions and 2 deaths; 3 versions and 3 loads; 3 requests; 2 threads and 3 transactions received; 2 traces and 2 readers | two of everything that can overlap, and one more that comes after |
| `Native_all` | 3 objects on 2 pages of 2 bytes; bits as bytes, blocks of 5, a length of 2, writes up to 7 and 10 bytes; a base of 4 with words of 2 and 2 rounds | an object on both pages between two others; writes that end before, on and behind a border, padding of one block and of two; a sign bit, a zero byte, and a result that is hashed again |

The runs of `SpendProcess`, `SendScreen`, `CoreStart`, `Background` and `Native`
do not check for deadlock: instances, transactions, launches and data are used
up, a screen ends, and the user need not do anything.

Fairness. `WalletService`: the main looper drains its queue, time passes, a due
alarm is delivered or refused; nothing is assumed of the user, the core or the
network, nor that Android grants the start. `SpendProcess`: an executor thread
keeps running its task and `spendZpiv` returns or throws (an `Error` included),
its requests having timeouts. `SyncState`: threads run, posted broadcasts are
delivered, time passes; that blocks keep arriving is a premise of the property,
not an assumption. `CoreStart`: threads and timers run, Android resumes the top
screen, a start of the core succeeds or fails. `ListLoader`: threads run, a load
returns or throws, the main thread runs what was posted. `TxBroadcast`: peers
come and go, and (strong fairness) one of the peers that come again and again
stays for the whole loop of `onPeerConnected`; the outbox of the library, the
commands and the saving of the wallet need not happen.

## What is proved

Each `*Proofs` module proves its type invariant from `Init` and one lemma per
action group, and then:

* `WalletServiceProofs`: `WakeUpPending` needs the strengthening that, as long
  as the alarm was neither displaced nor refused, a saved schedule that is still
  in the future has an alarm that is pending and does not fire before that time has passed;
  then an `onDestroy` that sets no alarm has one. `OnlyAskedResets` needs that a
  set flag or height of the live instance was asked for. `RequestsAreDone` is
  the other half: as long as the instance that accepted a request lives, the
  flag stays set and a stop waits in the queue, and an orderly destruction with
  the core started carries the request out.
* `SpendProcessProofs`: `OneSpendPerInstance` needs that a task that holds the
  flag belongs to an instance whose flag is set, which makes acceptance
  exclusive. `SubmittedOnce` needs that a transaction still to be handed over
  has not been handed over and is held by one screen only.
  `NoStuckNotification` needs that, of a live instance, whoever shows the
  notification has a removal ahead or was ended by an `Error`. `Implements` is the refinement: every step
  of a task, a service, a screen or the process is a step of `SpendContract` or
  leaves `Mapped` alone; acceptance is a `TakeOn` because of the first two
  invariants. `FlagsAreHeld` is the converse of the first: a flag that is set
  has a task that will reset it, or one that an `Error` ended, or was set by an
  instance that never got an executor, which the proof carries as a part of its
  own (`RejectedWithout`).
* `BlockchainStoreProofs`: `HeadComplete` needs what the chain thread knows
  between its calls: the predecessors of its block stay stored unless its store
  object has become stale, and a stale one no longer writes the head; and what
  a rollback keeps: the chain of its target, which lies on the chain of the
  head. `Implements` is the refinement. It needs that heights order a chain, so
  that the blocks a rollback deletes, those above a height, are the part of the
  chain that the contract gives up; this follows from the well-founded order of
  the heights (`HigherOnChain`). `ContractSuffices` derives `HeadComplete` from
  the contract alone, so the contract says at least as much. `ClosedHead` is
  the action property of a closed database.
* `SyncStateProofs`: `OfflineIsKnown` is inductive together with the types,
  the exit by an exception included: `threw` is set by it and reset by the next
  look at the impediments.
* `SendScreenProofs`: `CommittedWasConfirmed` needs that every open confirmation
  shows the transaction of the field, and that a waiting confirmation result
  means that the field has been confirmed; no result waits while the screen
  takes clicks. `ShowsWhatWasAsked` needs that the options follow what the user
  approved, also in the waiting results, and that no change address ever gets
  into the fields; of the second completion it needs only what that keeps, the
  outputs and the coins (`CompletedAgain`).

* `CoreStartProofs`: the types need that there is a screen whenever one is
  shown (`TypeInv`). `InitHasPin` needs that the disk is a past of the memory in
  the order of the writes (`PinInv`). `WordsNeedCore` needs that a loading
  screen with a result for the PIN screen lies in the stack only after the core
  has started or after one was left (`WordsInv`). The restore from words, which
  may end behind any screen, has a lemma of its own (`WordsEffect`). `ClosesOnPurpose`
  follows from the types and what a timer opens.
* `BackgroundProofs`, one invariant per part. `TraceInv`: a saved trace that is
  not reported is in the file, or in the copy of a reader that has already
  deleted the file, or gone in one of the ways that `TracesAccountedFor` names;
  a copy that may still fail does not count. `NoticeInv` counts what was
  received and is not yet added, coin by coin, as the cardinality of a set, and
  asks that the field and any value read from it leave room for that.
  `RateInv`: as long as no two threads overlapped, only one is between look and
  write, and what it saw is still so; a thread inserts one row at most and ends
  with it. `LoaderInv`: until a load came late, what is shown is no newer than
  the field, which is no newer than what the one load of this visit has read.
  `RefreshHasLoad`: the indicator of a visible screen turns only while a load
  of this visit waits or runs or a result is posted. `ExecutesParts` says
  that every behaviour of the composition is one of each part, so that the part's theorems hold of it;
  `TypesAreKept` and `BackgroundIsSafe` draw the consequence for the
  specification that TLC runs.
* `NativeProofs`, in three parts.
  The page locks: `CountIsRight` is inductive together with the types; the
  count of each page changes by one exactly for the objects that come to it or
  leave it. `SecretIsLocked` needs that the pages of every object that holds
  something are locked or refused (`HoldersAreLocked`), and the count for the
  pages that stay when one of them leaves. `Implements` is the refinement: a
  lock is a `Hold`, an unlock a `Release`.
  The hash: whatever an object holds, its content is the processed
  blocks and what waits in the buffer. `WriteKeeps` says that `Write` puts the
  data behind the content, by the three ways of the code (`Direct`, `Joined`,
  `Filled`), from lemmas on remainders and parts of sequences; `PaddingLength`
  and `FinalizeKeeps` that the padding ends on a block. `StreamHashed` and
  `PaddingIsWhole` follow from the invariant `StreamInv`, whose further part
  bounds the lengths that `Finalize` is asked for. The sizes of block, length
  and digest are any numbers with the length shorter than a block.
  The seed: the two conversions of OpenSSL are recursive functions, on the
  numbers and on the sequences of digits. That each of them exists is proved
  from approximations that agree (`Recursion`), that they undo each other by
  the least counterexample (`Least`, from the well-founded order of the
  naturals). `ReadBack` and `WriteBack` carry this to `setvch` and `getvch`,
  `WordComesBack` to a word written and read with any zeros above it. `SeedInv`
  then says that a result is the answers so far one after the other, and, as
  long as no sign byte was lost, that the second call has asked exactly what the
  first call had asked by the same round. `ExecutesHelpers` carries all of it to
  the composition.

The proofs assume only the named assumptions on the constants in the modules.
Every invariant of the passing runs, every action property and all three
refinements are proved. What stays with TLC is liveness: `WokenAgain`,
`ResetLeadsToErasure`, `SendingIsReleased`, `SpendIsSettled`, `CatchesUp`,
`GetsOn`, `CommittedIsSent` and `RefreshEnds` need fairness and ENABLED, which
the prover does not reason about. Of `ResetLeadsToErasure`, `SendingIsReleased`
and `RefreshEnds` the safety they build on is proved: whoever waits has
something pending that ends the wait (`RequestsAreDone`, `FlagsAreHeld`,
`RefreshHasLoad`). The violated properties are runs.

## Not modelled

* Of the C and C++ of the repository nearly all is vendored: the headers of
  boost 1.67 and GMP under `src/app/libs`, about 2.5 million lines, third-party
  code that is not part of the wallet. The wallet's own native code is the
  library `native-lib`; the three native modules follow its own logic. Left out
  are the compression function of SHA-256 and the arithmetic of OpenSSL, pure
  computations that a bounded check says nothing about, and the serialisation
  templates.
* The wallet module, the peer-to-peer library, SnappyDB and Android appear only
  through their callbacks and through what the code relies on.
* Mint, accumulator and contact stores: only the wallet library calls them, and
  the order of its calls is not in this repository. As written,
  `MintsStoreDb` inserts under a hexadecimal key and updates under a decimal
  one (line 126), and `ContactsStore.addTxHash` has no caller.
* Backup, upgrade and the restore in a wallet that is set up: calls into the
  wallet library in a row.
* The change of the PIN, the delayed restart after a change of the node, the
  notifications of a changed confidence, the text of reports and screens.
* In the parts that are modelled: amounts (only whether money is missing), the
  memo, fragments that are detached while a load runs, and a failure of Android
  to remove a notification.

## Plan

Done, in order of importance: the service life cycle, the spend, the store, the
synchronisation state, the send screen, the start of the application, the parts
in the background, the native helpers. Left:

1. `ServiceWithStore`: the life cycle composed with the store, with the claim
   that a reset leaves a store that opens with the genesis block.
2. The choice of amounts on the convert screen.
