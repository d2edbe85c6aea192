-------------------------- MODULE BlockchainStore --------------------------
(***************************************************************************)
(* SnappyBlockchainStore: the key-value store of the block chain, with one *)
(* entry per block and one, "chainhead", for the head.                     *)
(*                                                                         *)
(* Two actors use it.  The chain thread of the library connects a block    *)
(* with three calls: get the predecessor, put the block, setChainHead.     *)
(* The main thread opens the store when the service is created and closes, *)
(* truncates or rolls it back when the service is destroyed, in the middle *)
(* of the three calls if need be.  The process may die between any two     *)
(* writes to the database; a rollback writes once per removed block.       *)
(***************************************************************************)
EXTENDS Integers, FiniteSets

CONSTANTS
    Block,      \* the blocks of the network
    Genesis,    \* the first block
    NoBlock,    \* no value under "chainhead"
    Prev,       \* the predecessor of each block
    Height,     \* the height of each block
    Chain       \* each block with all its predecessors

ASSUME GenesisAssumption == Genesis \in Block /\ NoBlock \notin Block
ASSUME HeightAssumption ==
    /\ Height \in [Block -> Nat]
    /\ \A b \in Block : Height[b] = 0 <=> b = Genesis
ASSUME PrevAssumption ==
    /\ Prev \in [Block \ {Genesis} -> Block]
    /\ \A b \in Block \ {Genesis} : Height[b] = Height[Prev[b]] + 1
ASSUME ChainAssumption ==
    /\ Chain \in [Block -> SUBSET Block]
    /\ Chain[Genesis] = {Genesis}
    /\ \A b \in Block \ {Genesis} : Chain[b] = Chain[Prev[b]] \cup {b}
    /\ \A b \in Block : \A a \in Chain[b] : Chain[a] \subseteq Chain[b]
    /\ \A b \in Block : \A a \in Chain[b] : a # b => b \notin Chain[a]

VARIABLES
    db,        \* the database: the stored blocks and the head
    open,      \* the store object of the service has its database open
    fresh,     \* field storedGenesis of that object is set
    thread,    \* the chain thread: its step, its block, and whether the
               \* store object it uses is no longer the open one
    rollback,  \* the rollback under way: the keys still to delete, the target,
               \* and whether it is the one by height
    damaged    \* history: a rollback by height ended, or a death cut one short

vars == <<db, open, fresh, thread, rollback, damaged>>

NoRollback == [todo |-> {}, target |-> NoBlock, byHeight |-> FALSE]
Idle       == [step |-> "idle", block |-> Genesis, stale |-> FALSE]
Rolling    == rollback.target # NoBlock

Empty == [stored |-> {}, head |-> NoBlock]

(* initStoreIfNeeded: without a head, put the genesis block and make it    *)
(* the head.                                                               *)
Initialised(d) ==
    IF d.head # NoBlock
    THEN d
    ELSE [stored |-> d.stored \cup {Genesis}, head |-> Genesis]

----------------------------------------------------------------------------
Init ==
    /\ db = Empty
    /\ open = FALSE
    /\ fresh = FALSE
    /\ thread = Idle
    /\ rollback = NoRollback
    /\ damaged = FALSE

(* The constructor: tryOpen.  LevelDB refuses to open a database twice.    *)
Open ==
    /\ ~open
    /\ open' = TRUE
    /\ fresh' = (db.head = NoBlock)
    /\ db' = Initialised(db)
    /\ UNCHANGED <<thread, rollback, damaged>>

(* The process dies after the genesis block was put and before it became   *)
(* the head.                                                               *)
OpenDies ==
    /\ ~open
    /\ db.head = NoBlock
    /\ db' = [db EXCEPT !.stored = @ \cup {Genesis}]
    /\ thread' = Idle
    /\ UNCHANGED <<open, fresh, rollback, damaged>>

----------------------------------------------------------------------------
(* The chain thread.  get and put reopen a closed database for the time of *)
(* the call, which initialises it if it was destroyed; while another store *)
(* object holds it open they fail.                                         *)

Reopened(stale) == IF stale THEN Initialised(db) ELSE db

(* The thread finds the predecessor of b; unless b extends the head, it    *)
(* walks both branches down to where they part.                            *)
Connectable(b, d) ==
    /\ Prev[b] \in d.stored
    /\ Prev[b] = d.head \/ Chain[Prev[b]] \ Chain[d.head] \subseteq d.stored

Get(b, stale) ==
    /\ thread.step = "idle"
    /\ ~Rolling
    /\ stale = ~open
    /\ LET d == Reopened(stale)
       IN  /\ db' = d
           /\ thread' = IF Connectable(b, d)
                        THEN [step |-> "fetched", block |-> b, stale |-> stale]
                        ELSE Idle
    /\ UNCHANGED <<open, fresh, rollback, damaged>>

Put ==
    /\ thread.step = "fetched"
    /\ ~Rolling
    /\ ~(thread.stale /\ open)
    /\ LET d == Reopened(thread.stale)
       IN  db' = [d EXCEPT !.stored = @ \cup {thread.block}]
    /\ thread' = [thread EXCEPT !.step = "stored"]
    /\ UNCHANGED <<open, fresh, rollback, damaged>>

(* put throws: the database is held by another object, or was closed or    *)
(* destroyed inside the call.                                              *)
PutThrows ==
    /\ thread.step = "fetched"
    /\ thread.stale
    /\ thread' = Idle
    /\ UNCHANGED <<db, open, fresh, rollback, damaged>>

(* Mutant: setChainHead reopens the database as get and put do.            *)
HeadWrittenReopened(d) == [d EXCEPT !.head = thread.block]

(* Mutant: the block is stored under "chainhead", not its hash.            *)
HeadWrittenWhole(d) == [d EXCEPT !.head = thread]

(* setChainHead does not reopen: on a closed database it throws.           *)
HeadWritten(d) == IF thread.stale THEN d ELSE [d EXCEPT !.head = thread.block]

SetChainHead ==
    /\ thread.step = "stored"
    /\ ~Rolling
    /\ db' = HeadWritten(db)
    /\ thread' = Idle
    /\ UNCHANGED <<open, fresh, rollback, damaged>>

(* The block has less work than the head: it stays on a side branch.       *)
SideBranch ==
    /\ thread.step = "stored"
    /\ thread' = Idle
    /\ UNCHANGED <<db, open, fresh, rollback, damaged>>

----------------------------------------------------------------------------
(* The main thread.                                                        *)

Abandon == thread' = IF thread.step = "idle" THEN thread ELSE [thread EXCEPT !.stale = TRUE]

Close ==
    /\ open /\ ~Rolling
    /\ open' = FALSE
    /\ Abandon
    /\ UNCHANGED <<db, fresh, rollback, damaged>>

(* truncate: destroys the database, and closes it.                         *)
Truncate ==
    /\ open /\ ~Rolling
    /\ open' = FALSE
    /\ db' = Empty
    /\ damaged' = FALSE
    /\ Abandon
    /\ UNCHANGED <<fresh, rollback>>

(* The callers of a rollback hold the lock of the chain, so the chain      *)
(* thread is idle.  On a closed store the first deletion throws.           *)
CanRollBack == open /\ ~Rolling /\ thread.step = "idle"

(* rollbackTo(int): the blocks above the height, and then the blocks from  *)
(* the height down to 1.                                                   *)
KeysAboveHeight(h)  == {b \in Chain[db.head] : Height[b] > h}
KeysBelowHeight(h)  == {b \in Chain[db.head] : Height[b] \in 1..h}
RollbackToHeight(h) ==
    /\ CanRollBack
    /\ 0 < h /\ h < Height[db.head]
    /\ Chain[db.head] \subseteq db.stored
    /\ \E b \in Chain[db.head] :
          /\ Height[b] = h
          /\ rollback' = [todo |-> KeysAboveHeight(h) \cup KeysBelowHeight(h),
                          target |-> b, byHeight |-> TRUE]
    /\ UNCHANGED <<db, open, fresh, thread, damaged>>

(* Mutant: the target is added to the blocks to remove.                    *)
KeysFrom(b) == (Chain[db.head] \ Chain[b]) \cup {b}

(* rollbackTo(hash): the walk stops at the target, or throws when it has   *)
(* stepped onto the genesis block that this object stored, be it the       *)
(* target or not.                                                          *)
KeysAbove(b) == Chain[db.head] \ Chain[b]
RollbackToHash(b) ==
    /\ CanRollBack
    /\ b \in Chain[db.head]
    /\ KeysAbove(b) \cup {b} \subseteq db.stored
    /\ b = Genesis /\ db.head # Genesis => ~fresh
    /\ rollback' = [todo |-> KeysAbove(b), target |-> b, byHeight |-> FALSE]
    /\ UNCHANGED <<db, open, fresh, thread, damaged>>

(* One deletion of the list, the highest block first.                      *)
DeleteKey ==
    /\ rollback.todo # {}
    /\ \E b \in rollback.todo :
          /\ \A c \in rollback.todo : Height[c] <= Height[b]
          /\ db' = [db EXCEPT !.stored = @ \ {b}]
          /\ rollback' = [rollback EXCEPT !.todo = @ \ {b}]
    /\ UNCHANGED <<open, fresh, thread, damaged>>

SetRolledBackHead ==
    /\ Rolling
    /\ rollback.todo = {}
    /\ db' = [db EXCEPT !.head = rollback.target]
    /\ rollback' = NoRollback
    /\ damaged' = (damaged \/ rollback.byHeight)
    /\ UNCHANGED <<open, fresh, thread>>

(* The process dies; the next one opens the database as it was left.       *)
Die ==
    /\ open \/ thread # Idle
    /\ open' = FALSE
    /\ fresh' = FALSE
    /\ thread' = Idle
    /\ rollback' = NoRollback
    /\ damaged' = (damaged \/ Rolling)
    /\ UNCHANGED db

----------------------------------------------------------------------------
ChainThread ==
    \/ \E b \in Block \ {Genesis}, stale \in BOOLEAN : Get(b, stale)
    \/ Put \/ PutThrows \/ SetChainHead \/ SideBranch

MainThread ==
    \/ Open \/ Close \/ Truncate
    \/ \E h \in {Height[b] : b \in Block} : RollbackToHeight(h)
    \/ \E b \in Block : RollbackToHash(b)
    \/ DeleteKey \/ SetRolledBackHead

Next == ChainThread \/ MainThread \/ OpenDies \/ Die

Spec == Init /\ [][Next]_vars

----------------------------------------------------------------------------
TypeOK ==
    /\ db \in [stored : SUBSET Block, head : Block \cup {NoBlock}]
    /\ open \in BOOLEAN /\ fresh \in BOOLEAN /\ damaged \in BOOLEAN
    /\ thread \in [step : {"idle", "fetched", "stored"}, block : Block, stale : BOOLEAN]
    /\ rollback \in [todo : SUBSET Block, target : Block \cup {NoBlock},
                     byHeight : BOOLEAN]

(* The stored head can be read, and so can every block below it, whatever  *)
(* the order in which blocks arrive, the service stops and the process     *)
(* dies.  A rollback by height, and a death inside a rollback, are the     *)
(* exceptions the code has.                                                *)
HeadComplete ==
    ~damaged /\ ~Rolling /\ db.head # NoBlock => Chain[db.head] \subseteq db.stored

(* A rollback keeps the chain below the block it rolls back to ("You are   *)
(* going to rollback the chain N blocks"): when it is over, the head it    *)
(* sets is still stored.                                                   *)
RolledBackHeadIsStored ==
    [][SetRolledBackHead => db'.head \in db'.stored]_vars

(* A store that was closed or destroyed keeps its head: a chain thread     *)
(* that had not finished its block cannot move it any more, although its   *)
(* get and put reopen the database.                                        *)
ClosedHeadStays ==
    [][~open /\ ~open' /\ db.head # NoBlock => db'.head = db.head]_vars

----------------------------------------------------------------------------
(* The refinement.  A rollback, a series of deletions, is over for the     *)
(* contract when it begins: the head is the target, and the blocks that    *)
(* are still to be deleted are not counted.                                *)
Head   == IF Rolling THEN rollback.target ELSE db.head
Known  == {b \in Block : Chain[b] \subseteq db.stored \ rollback.todo}
Broken == damaged \/ (Rolling /\ rollback.byHeight)

Contract == INSTANCE ChainContract WITH head <- Head, known <- Known, broken <- Broken

(* The store and its two users keep what ChainContract says, whatever the  *)
(* order of calls, shutdowns and deaths.                                   *)
KeepsChain == Contract!Spec
=============================================================================
