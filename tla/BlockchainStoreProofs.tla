----------------------- MODULE BlockchainStoreProofs -----------------------
(***************************************************************************)
(* Proofs about BlockchainStore, for every block tree.                     *)
(***************************************************************************)
EXTENDS BlockchainStore, NaturalsInduction, WellFoundedInduction, TLAPS

(* An open store has a head.                                               *)
OpenHasHead == open => db.head # NoBlock

(* What the chain thread learned before it stored its block, and what it   *)
(* made true when it stored it; a thread whose store was closed under it   *)
(* knows nothing.                                                          *)
ThreadKnows ==
    /\ thread.step # "idle" => thread.block # Genesis
    /\ thread.step # "idle" /\ ~thread.stale => open
    /\ thread.step = "fetched" /\ ~thread.stale /\ ~damaged
          => Chain[Prev[thread.block]] \subseteq db.stored
    /\ thread.step = "stored" /\ ~thread.stale /\ ~damaged
          => Chain[thread.block] \subseteq db.stored

(* A rollback by hash never deletes a block of the chain it will set.      *)
RollbackKeeps ==
    /\ Rolling => /\ open /\ thread.step = "idle"
                  /\ rollback.target \in Chain[db.head]
    /\ ~Rolling => rollback.todo = {}
    /\ Rolling /\ ~rollback.byHeight /\ ~damaged
          => /\ Chain[rollback.target] \subseteq db.stored
             /\ rollback.todo \cap Chain[rollback.target] = {}

IInv == TypeOK /\ OpenHasHead /\ HeadComplete /\ ThreadKnows /\ RollbackKeeps

----------------------------------------------------------------------------
(* An initialised database has a head, keeps its blocks, and is complete   *)
(* if it was.                                                              *)
LEMMA InitialisedIsComplete ==
    ASSUME db \in [stored : SUBSET Block, head : Block \cup {NoBlock}]
    PROVE  LET d == Initialised(db)
           IN  /\ d \in [stored : SUBSET Block, head : Block]
               /\ db.stored \subseteq d.stored
               /\ db.head # NoBlock => d = db
               /\ (db.head # NoBlock => Chain[db.head] \subseteq db.stored)
                     => Chain[d.head] \subseteq d.stored
<1>1. CASE db.head # NoBlock
  BY <1>1 DEF Initialised
<1>2. CASE db.head = NoBlock
  <2>1. Initialised(db) = [stored |-> db.stored \cup {Genesis}, head |-> Genesis]
    BY <1>2 DEF Initialised
  <2>. QED
    BY <1>2, <2>1, GenesisAssumption, ChainAssumption
<1>. QED
  BY <1>1, <1>2

(* The invariant holds initially.                                          *)
LEMMA InitIInv == Init => IInv
<1>. SUFFICES ASSUME Init PROVE IInv
  OBVIOUS
<1>1. TypeOK
  BY GenesisAssumption DEF Init, TypeOK, Empty, Idle, NoRollback
<1>2. OpenHasHead /\ HeadComplete /\ ThreadKnows /\ RollbackKeeps
  BY DEF Init, OpenHasHead, HeadComplete, ThreadKnows, RollbackKeeps, Empty, Idle,
         NoRollback, Rolling
<1>. QED
  BY <1>1, <1>2 DEF IInv

----------------------------------------------------------------------------
(* Opening and closing the store.                                          *)
LEMMA OpenStep ==
    ASSUME IInv, Open \/ OpenDies
    PROVE  IInv'
<1>. USE DEF IInv, TypeOK, OpenHasHead, HeadComplete, ThreadKnows, RollbackKeeps, Rolling
<1>1. CASE Open
  BY <1>1, InitialisedIsComplete, GenesisAssumption DEF Open
<1>2. CASE OpenDies
  BY <1>2, GenesisAssumption DEF OpenDies, Idle
<1>. QED
  BY <1>1, <1>2

LEMMA CloseStep ==
    ASSUME IInv, Close \/ Truncate \/ Die
    PROVE  IInv'
<1>. USE DEF IInv, TypeOK, OpenHasHead, HeadComplete, ThreadKnows, RollbackKeeps, Rolling
<1>1. CASE Close
  BY <1>1 DEF Close, Abandon
<1>2. CASE Truncate
  BY <1>2, GenesisAssumption DEF Truncate, Abandon, Empty
<1>3. CASE Die
  BY <1>3, GenesisAssumption DEF Die, Idle, NoRollback
<1>. QED
  BY <1>1, <1>2, <1>3

----------------------------------------------------------------------------
(* What the thread checked about the predecessor covers its whole chain.   *)
LEMMA ConnectableChain ==
    ASSUME NEW b \in Block \ {Genesis},
           NEW d, d.head \in Block, Chain[d.head] \subseteq d.stored,
           Connectable(b, d)
    PROVE  Chain[Prev[b]] \subseteq d.stored
BY DEF Connectable

LEMMA GetStep ==
    ASSUME IInv, NEW b \in Block \ {Genesis}, NEW stale \in BOOLEAN, Get(b, stale)
    PROVE  IInv'
<1>. USE DEF IInv, TypeOK
<1>. DEFINE d == Reopened(stale)
<1>1. /\ db' = d
      /\ thread' = IF Connectable(b, d)
                   THEN [step |-> "fetched", block |-> b, stale |-> stale]
                   ELSE Idle
      /\ UNCHANGED <<open, fresh, rollback, damaged>>
      /\ stale = ~open /\ ~Rolling
  BY DEF Get
<1>2. d \in [stored : SUBSET Block, head : Block \cup {NoBlock}]
  BY InitialisedIsComplete DEF Reopened
<1>3. HeadComplete'
  BY <1>1, InitialisedIsComplete DEF Reopened, HeadComplete, Rolling
<1>4. ThreadKnows'
  <2>1. CASE Connectable(b, d) /\ ~stale /\ ~damaged
    <3>1. d = db /\ db.head \in Block /\ Chain[db.head] \subseteq db.stored
      BY <1>1, <2>1 DEF Reopened, OpenHasHead, HeadComplete
    <3>2. Chain[Prev[b]] \subseteq db.stored
      BY <2>1, <3>1, ConnectableChain
    <3>. QED
      BY <1>1, <2>1, <3>1, <3>2 DEF ThreadKnows
  <2>2. CASE ~(Connectable(b, d) /\ ~stale /\ ~damaged)
    BY <1>1, <2>2 DEF ThreadKnows, Idle
  <2>. QED
    BY <2>1, <2>2
<1>5. TypeOK'
  BY <1>1, <1>2, GenesisAssumption DEF Idle
<1>6. OpenHasHead' /\ RollbackKeeps'
  BY <1>1 DEF OpenHasHead, RollbackKeeps, Reopened, Rolling
<1>. QED
  BY <1>3, <1>4, <1>5, <1>6

LEMMA PutStep ==
    ASSUME IInv, Put
    PROVE  IInv'
<1>. USE DEF IInv, TypeOK
<1>. DEFINE d == Reopened(thread.stale)
<1>1. /\ db' = [d EXCEPT !.stored = @ \cup {thread.block}]
      /\ thread' = [thread EXCEPT !.step = "stored"]
      /\ UNCHANGED <<open, fresh, rollback, damaged>>
      /\ thread.step = "fetched" /\ ~Rolling
  BY DEF Put
<1>2. d \in [stored : SUBSET Block, head : Block \cup {NoBlock}]
  BY InitialisedIsComplete DEF Reopened
<1>3. db' = [stored |-> d.stored \cup {thread.block}, head |-> d.head]
  BY <1>1, <1>2
<1>4. HeadComplete'
  BY <1>1, <1>3, InitialisedIsComplete DEF Reopened, HeadComplete, Rolling
<1>5. ThreadKnows'
  <2>1. CASE ~thread.stale /\ ~damaged
    <3>1. Chain[thread.block] = Chain[Prev[thread.block]] \cup {thread.block}
      BY <1>1, ChainAssumption DEF ThreadKnows
    <3>2. Chain[thread.block] \subseteq db'.stored
      BY <1>1, <1>3, <2>1, <3>1 DEF ThreadKnows, Reopened
    <3>. QED
      BY <1>1, <3>2 DEF ThreadKnows
  <2>2. CASE thread.stale \/ damaged
    BY <1>1, <2>2 DEF ThreadKnows
  <2>. QED
    BY <2>1, <2>2
<1>6. TypeOK'
  BY <1>1, <1>2, <1>3
<1>7. OpenHasHead' /\ RollbackKeeps'
  BY <1>1, <1>3, InitialisedIsComplete DEF OpenHasHead, RollbackKeeps, Reopened, Rolling
<1>. QED
  BY <1>4, <1>5, <1>6, <1>7

LEMMA HeadStep ==
    ASSUME IInv, PutThrows \/ SetChainHead \/ SideBranch
    PROVE  IInv'
<1>. USE DEF IInv, TypeOK, OpenHasHead, HeadComplete, ThreadKnows, RollbackKeeps, Rolling
<1>1. CASE PutThrows \/ SideBranch
  <2>1. thread' = Idle /\ UNCHANGED <<db, open, fresh, rollback, damaged>>
    BY <1>1 DEF PutThrows, SideBranch
  <2>2. TypeOK'
    BY <2>1, GenesisAssumption DEF Idle
  <2>. QED
    BY <2>1, <2>2 DEF Idle
<1>2. CASE SetChainHead /\ thread.stale
  BY <1>2, GenesisAssumption DEF SetChainHead, HeadWritten, Idle
<1>3. CASE SetChainHead /\ ~thread.stale
  <2>1. db' = [stored |-> db.stored, head |-> thread.block]
    BY <1>3 DEF SetChainHead, HeadWritten
  <2>. QED
    BY <1>3, <2>1, GenesisAssumption DEF SetChainHead, Idle
<1>. QED
  BY <1>1, <1>2, <1>3

----------------------------------------------------------------------------
(* Beginning, going through and ending a rollback.                         *)
LEMMA RollbackStep ==
    ASSUME IInv, NEW b \in Block, RollbackToHash(b)
    PROVE  IInv'
<1>. USE DEF IInv, TypeOK
<1>1. db.head \in Block /\ ~Rolling /\ open /\ thread.step = "idle"
  BY DEF RollbackToHash, CanRollBack, OpenHasHead
<1>2. Chain[b] \subseteq Chain[db.head]
  BY <1>1, ChainAssumption DEF RollbackToHash
<1>3. rollback' = [todo |-> Chain[db.head] \ Chain[b], target |-> b, byHeight |-> FALSE]
  BY DEF RollbackToHash, KeysAbove
<1>4. UNCHANGED <<db, open, fresh, thread, damaged>>
  BY DEF RollbackToHash
<1>5. ~damaged => Chain[b] \subseteq db.stored
  BY <1>1, <1>2, GenesisAssumption DEF HeadComplete
<1>6. RollbackKeeps'
  BY <1>1, <1>3, <1>4, <1>5, GenesisAssumption DEF RollbackKeeps, Rolling, RollbackToHash
<1>7. TypeOK'
  BY <1>1, <1>3, <1>4, ChainAssumption
<1>. QED
  BY <1>1, <1>3, <1>4, <1>6, <1>7, GenesisAssumption
  DEF OpenHasHead, HeadComplete, ThreadKnows, Rolling

LEMMA HeightStep ==
    ASSUME IInv, NEW h, RollbackToHeight(h)
    PROVE  IInv'
<1>. USE DEF IInv, TypeOK
<1>1. db.head \in Block /\ open /\ thread.step = "idle"
  BY DEF RollbackToHeight, CanRollBack, OpenHasHead
<1>2. PICK b \in Chain[db.head] :
         rollback' = [todo |-> KeysAboveHeight(h) \cup KeysBelowHeight(h),
                      target |-> b, byHeight |-> TRUE]
  BY DEF RollbackToHeight
<1>3. b \in Block /\ KeysAboveHeight(h) \cup KeysBelowHeight(h) \subseteq Block
  BY <1>1, ChainAssumption DEF KeysAboveHeight, KeysBelowHeight
<1>4. UNCHANGED <<db, open, fresh, thread, damaged>>
  BY DEF RollbackToHeight
<1>. QED
  BY <1>1, <1>2, <1>3, <1>4, GenesisAssumption
  DEF OpenHasHead, HeadComplete, ThreadKnows, RollbackKeeps, Rolling

LEMMA DeleteStep ==
    ASSUME IInv, DeleteKey \/ SetRolledBackHead
    PROVE  IInv'
<1>. USE DEF IInv, TypeOK
<1>1. CASE DeleteKey
  <2>1. PICK b \in rollback.todo :
           /\ db' = [db EXCEPT !.stored = @ \ {b}]
           /\ rollback' = [rollback EXCEPT !.todo = @ \ {b}]
    BY <1>1 DEF DeleteKey
  <2>2. Rolling /\ Rolling'
    BY <2>1 DEF RollbackKeeps, Rolling
  <2>3. UNCHANGED <<open, fresh, thread, damaged>>
    BY <1>1 DEF DeleteKey
  <2>. QED
    BY <2>1, <2>2, <2>3 DEF OpenHasHead, HeadComplete, ThreadKnows, RollbackKeeps, Rolling
<1>2. CASE SetRolledBackHead
  <2>1. db' = [stored |-> db.stored, head |-> rollback.target]
    BY <1>2 DEF SetRolledBackHead
  <2>. QED
    BY <1>2, <2>1
    DEF SetRolledBackHead, OpenHasHead, HeadComplete, ThreadKnows, RollbackKeeps,
        Rolling, NoRollback
<1>. QED
  BY <1>1, <1>2

----------------------------------------------------------------------------
(* The invariant is inductive.                                             *)
LEMMA NextIInv == IInv /\ [Next]_vars => IInv'
<1>. SUFFICES ASSUME IInv, [Next]_vars PROVE IInv'
  OBVIOUS
<1>1. CASE ChainThread
  BY <1>1, GetStep, PutStep, HeadStep DEF ChainThread
<1>2. CASE MainThread
  BY <1>2, OpenStep, CloseStep, RollbackStep, HeightStep, DeleteStep DEF MainThread
<1>3. CASE OpenDies \/ Die
  BY <1>3, OpenStep, CloseStep
<1>4. CASE UNCHANGED vars
  BY <1>4
  DEF vars, IInv, TypeOK, OpenHasHead, HeadComplete, ThreadKnows, RollbackKeeps, Rolling
<1>. QED
  BY <1>1, <1>2, <1>3, <1>4 DEF Next

(* The variables keep their types.                                         *)
THEOREM TypeCorrect == Spec => []TypeOK
<1>1. IInv => TypeOK
  BY DEF IInv
<1>. QED
  BY InitIInv, NextIInv, <1>1, PTL DEF Spec

(* The chain below the head can be read, unless a rollback by height or a  *)
(* death inside a rollback came before.                                    *)
THEOREM HeadIsComplete == Spec => []HeadComplete
<1>1. IInv => HeadComplete
  BY DEF IInv
<1>. QED
  BY InitIInv, NextIInv, <1>1, PTL DEF Spec

(* A store that is closed keeps its head.                                  *)
THEOREM ClosedHead == Spec => ClosedHeadStays
<1>1. IInv /\ [Next]_vars => [~open /\ ~open' /\ db.head # NoBlock => db'.head = db.head]_vars
  <2>. SUFFICES ASSUME IInv, [Next]_vars, ~open, ~open', db.head # NoBlock
                PROVE  db'.head = db.head
    OBVIOUS
  <2>. USE DEF IInv, TypeOK
  <2>1. CASE ChainThread
    BY <2>1, InitialisedIsComplete
    DEF ChainThread, Get, Put, PutThrows, SetChainHead, SideBranch, HeadWritten,
        Reopened, ThreadKnows, Initialised
  <2>2. CASE MainThread
    BY <2>2
    DEF MainThread, Open, Close, Truncate, RollbackToHeight, RollbackToHash,
        CanRollBack, DeleteKey, SetRolledBackHead, RollbackKeeps, Rolling
  <2>3. CASE OpenDies \/ Die \/ UNCHANGED vars
    BY <2>3 DEF OpenDies, Die, vars
  <2>. QED
    BY <2>1, <2>2, <2>3 DEF Next
<1>. QED
  BY InitIInv, NextIInv, <1>1, PTL DEF Spec, ClosedHeadStays
----------------------------------------------------------------------------
(* The chain of a block.                                                   *)

(* Of two blocks of one chain, one is below the other, and heights tell.   *)
InOrder(x) ==
    \A a, c \in Chain[x] :
        Height[a] <= Height[x] /\ (c \in Chain[a] \/ Height[a] < Height[c])

LEMMA OnChain == \A b \in Block : b \in Chain[b] /\ Chain[b] \subseteq Block
BY GenesisAssumption, PrevAssumption, ChainAssumption

LEMMA InOrderAbove ==
    ASSUME NEW x \in Block \ {Genesis}, InOrder(Prev[x])
    PROVE  InOrder(x)
<1>. DEFINE p == Prev[x]
<1>1. p \in Block /\ Chain[x] = Chain[p] \cup {x} /\ Height[x] = Height[p] + 1
      /\ Height \in [Block -> Nat] /\ Chain[p] \subseteq Block
  BY PrevAssumption, ChainAssumption, HeightAssumption, OnChain
<1>. HIDE DEF p
<1>2. ASSUME NEW a \in Chain[x]
      PROVE  Height[a] <= Height[x] /\ (a # x => Height[a] < Height[x])
  <2>1. CASE a = x
    BY <1>1, <2>1
  <2>2. CASE a \in Chain[p]
    <3>1. Height[a] <= Height[p] /\ Height[a] \in Nat /\ Height[p] \in Nat
      BY <1>1, <2>2 DEF InOrder, p
    <3>. QED
      BY <1>1, <3>1
  <2>. QED
    BY <1>1, <2>1, <2>2
<1>3. ASSUME NEW a \in Chain[x], NEW c \in Chain[x]
      PROVE  c \in Chain[a] \/ Height[a] < Height[c]
  <2>1. CASE a = x
    BY <2>1
  <2>2. CASE a # x /\ c = x
    BY <1>2, <2>2
  <2>3. CASE a # x /\ c # x
    BY <1>1, <2>3 DEF InOrder, p
  <2>. QED
    BY <2>1, <2>2, <2>3
<1>. QED
  BY <1>2, <1>3 DEF InOrder

LEMMA ChainInOrder == \A x \in Block : InOrder(x)
<1>. DEFINE Bad == {Height[x] : x \in {y \in Block : ~InOrder(y)}}
<1>1. SUFFICES ASSUME Bad # {} PROVE FALSE
  OBVIOUS
<1>2. Bad \subseteq Nat
  BY HeightAssumption
<1>3. PICK n \in Bad : \A m \in Bad : ~(<<m, n>> \in {ss \in Nat \X Nat : ss[1] < ss[2]})
  <2>1. IsWellFoundedOn({ss \in Nat \X Nat : ss[1] < ss[2]}, Nat)
    BY NatLessThanWellFounded DEF OpToRel
  <2>. QED
    BY <1>1, <1>2, <2>1, WFMin
<1>4. PICK x \in Block : Height[x] = n /\ ~InOrder(x)
  BY <1>3
<1>5. x # Genesis
  BY <1>4, ChainAssumption, HeightAssumption, GenesisAssumption DEF InOrder
<1>6. Prev[x] \in Block /\ Height[x] = Height[Prev[x]] + 1
  BY <1>5, PrevAssumption
<1>7. ~InOrder(Prev[x])
  BY <1>4, <1>5, InOrderAbove
<1>8. Height[Prev[x]] \in Bad /\ Height[Prev[x]] \in Nat /\ n \in Nat
  BY <1>2, <1>3, <1>6, <1>7, HeightAssumption
<1>9. Height[Prev[x]] < n
  BY <1>4, <1>6, <1>8
<1>. HIDE DEF Bad
<1>. QED
  BY <1>3, <1>8, <1>9

(* Blocks of a chain that are not below its block b are higher than b.     *)
LEMMA HigherOnChain ==
    ASSUME NEW x \in Block, NEW b \in Chain[x]
    PROVE  \A c \in Chain[x] \ Chain[b] : Height[c] > Height[b]
<1>1. ASSUME NEW c \in Chain[x] \ Chain[b] PROVE Height[b] < Height[c]
  BY ChainInOrder DEF InOrder
<1>2. Chain[x] \subseteq Block /\ Height \in [Block -> Nat]
  BY OnChain, HeightAssumption
<1>. QED
  BY <1>1, <1>2

----------------------------------------------------------------------------
(* ChainContract.                                                          *)

(* The blocks that are not deleted or about to be.                         *)
Kept == db.stored \ rollback.todo

(* A head is a block of the tree, and so is the target of a rollback.      *)
LEMMA HeadTypes ==
    ASSUME IInv
    PROVE  /\ Head \in Block \cup {NoBlock}
           /\ open => Head \in Block
           /\ ~Rolling => Head = db.head /\ Kept = db.stored /\ Broken = damaged
BY DEF IInv, TypeOK, OpenHasHead, RollbackKeeps, Rolling, Head, Kept, Broken

(* When nothing is taken away, known blocks stay known, and a new one has  *)
(* a known predecessor.                                                    *)
LEMMA KnownGrows ==
    ASSUME Kept \subseteq Kept'
    PROVE  Contract!Grows
<1>1. Known \subseteq Known'
  BY DEF Known, Kept
<1>2. ASSUME NEW b \in Known' \ Known, b # Genesis
      PROVE  Prev[b] \in Known'
  <2>1. b \in Block \ {Genesis} /\ Chain[b] \subseteq Kept'
    BY <1>2 DEF Known, Kept
  <2>2. Prev[b] \in Block /\ Chain[Prev[b]] \subseteq Chain[b]
    BY <2>1, PrevAssumption, ChainAssumption
  <2>. QED
    BY <2>1, <2>2 DEF Known, Kept
<1>. QED
  BY <1>1, <1>2 DEF Contract!Grows

LEMMA InitContract == Init => Contract!Init
<1>. SUFFICES ASSUME Init PROVE Contract!Init
  OBVIOUS
<1>1. ~Rolling /\ Head = NoBlock /\ ~Broken /\ open = FALSE
  BY DEF Init, Rolling, NoRollback, Head, Broken, Empty
<1>2. ASSUME NEW b \in Known PROVE FALSE
  <2>1. b \in Block /\ Chain[b] \subseteq {}
    BY <1>2 DEF Known, Init, Empty
  <2>2. b \in Chain[b]
    BY <2>1, PrevAssumption, ChainAssumption
  <2>. QED
    BY <2>1, <2>2
<1>. QED
  BY <1>1, <1>2 DEF Contract!Init, Broken

(* A database that is initialised in a call, or when it is opened.         *)
LEMMA InitialisedStep ==
    ASSUME IInv, IInv', ~Rolling, UNCHANGED <<rollback, damaged>>, open => open',
           NEW S \in SUBSET Block,
           db'.stored = Initialised(db).stored \cup S, db'.head = Initialised(db).head
    PROVE  \/ db.head = NoBlock /\ Contract!Create
           \/ db.head # NoBlock /\ Head' = Head /\ Broken' = Broken /\ Contract!Grows
<1>1. ~Rolling' /\ rollback.todo = {} /\ rollback'.todo = {}
  BY DEF IInv, RollbackKeeps, Rolling
<1>2. Head = db.head /\ Head' = db'.head /\ Broken' = Broken
  BY <1>1 DEF Head, Broken, Rolling
<1>3. db.stored \subseteq Initialised(db).stored /\ (db.head # NoBlock => Initialised(db) = db)
  BY InitialisedIsComplete DEF IInv, TypeOK
<1>4. Kept \subseteq Kept'
  BY <1>1, <1>3 DEF Kept
<1>5. Contract!Grows
  BY <1>4, KnownGrows
<1>6. CASE db.head = NoBlock
  <2>1. Initialised(db) = [stored |-> db.stored \cup {Genesis}, head |-> Genesis]
    BY <1>6 DEF Initialised
  <2>2. Genesis \in Known'
    BY <1>1, <2>1, GenesisAssumption, ChainAssumption DEF Known
  <2>. QED
    BY <1>2, <1>5, <1>6, <2>1, <2>2 DEF Contract!Create
<1>7. CASE db.head # NoBlock
  BY <1>2, <1>3, <1>5, <1>7
<1>. QED
  BY <1>6, <1>7

(* Opening and closing.                                                    *)
LEMMA OpenMaps ==
    ASSUME IInv, IInv', Open \/ OpenDies
    PROVE  [Contract!Next]_<<open, Head, Known, Broken>>
<1>1. ~Rolling /\ UNCHANGED <<rollback, damaged>> /\ (open => open')
  BY DEF Open, OpenDies, IInv, RollbackKeeps
<1>2. CASE Open
  <2>1. db' = Initialised(db) /\ ~open /\ open'
    BY <1>2 DEF Open
  <2>2. \/ db.head = NoBlock /\ Contract!Create
        \/ db.head # NoBlock /\ Head' = Head /\ Broken' = Broken /\ Contract!Grows
    BY <1>1, <2>1, InitialisedStep, {} \in SUBSET Block
  <2>3. CASE db.head # NoBlock
    <3>1. db' = db
      BY <2>1, <2>3 DEF Initialised
    <3>2. Known' = Known /\ Head = db.head
      BY <1>1, <3>1 DEF Known, Head
    <3>. QED
      BY <2>1, <2>2, <2>3, <3>2 DEF Contract!Next, Contract!Open
  <2>. QED
    BY <2>2, <2>3 DEF Contract!Next
<1>3. CASE OpenDies
  <2>1. /\ db' = [stored |-> db.stored \cup {Genesis}, head |-> db.head]
        /\ open' = open
    BY <1>3 DEF OpenDies, IInv, TypeOK
  <2>2. Kept \subseteq Kept' /\ Head' = Head /\ Broken' = Broken
    BY <1>1, <2>1 DEF Kept, Head, Broken, Rolling
  <2>. QED
    BY <2>1, <2>2, KnownGrows DEF Contract!Next, Contract!Learn
<1>. QED
  BY <1>2, <1>3

LEMMA CloseMaps ==
    ASSUME IInv, Close \/ Truncate
    PROVE  [Contract!Next]_<<open, Head, Known, Broken>>
<1>1. ~Rolling /\ ~Rolling' /\ rollback' = rollback /\ open /\ open' = FALSE
  BY DEF Close, Truncate, Rolling
<1>2. CASE Close
  <2>1. UNCHANGED <<db, damaged>>
    BY <1>2 DEF Close
  <2>. QED
    BY <1>1, <2>1 DEF Contract!Next, Contract!Close, Head, Known, Broken, Rolling
<1>3. CASE Truncate
  <2>1. db' = [stored |-> {}, head |-> NoBlock] /\ damaged' = FALSE
    BY <1>3 DEF Truncate, Empty
  <2>2. Head' = NoBlock /\ ~Broken'
    BY <1>1, <2>1 DEF Head, Broken
  <2>3. ASSUME NEW b \in Block, Chain[b] \subseteq {} PROVE FALSE
    BY <2>3, PrevAssumption, ChainAssumption
  <2>4. Known' = {}
    BY <2>1, <2>3 DEF Known
  <2>. QED
    BY <1>1, <2>2, <2>4 DEF Contract!Next, Contract!Erase
<1>. QED
  BY <1>2, <1>3

(* A death leaves everything as it is on the disk; inside a rollback the   *)
(* old head comes back.                                                    *)
LEMMA DieMaps ==
    ASSUME IInv, Die
    PROVE  [Contract!Next]_<<open, Head, Known, Broken>>
<1>1. /\ db' = db /\ open' = FALSE /\ rollback' = NoRollback
      /\ damaged' = (damaged \/ Rolling)
  BY DEF Die
<1>2. ~Rolling' /\ Head' = db.head /\ rollback'.todo = {}
  BY <1>1 DEF Rolling, NoRollback, Head
<1>3. CASE Rolling
  <2>1. Broken' /\ open
    BY <1>1, <1>2, <1>3 DEF Broken, IInv, RollbackKeeps
  <2>2. Kept \subseteq Kept'
    BY <1>1, <1>2 DEF Kept
  <2>3. Head' # NoBlock /\ Head \in Chain[Head']
    BY <1>2, <1>3, <2>1 DEF Head, IInv, OpenHasHead, RollbackKeeps
  <2>. QED
    BY <1>1, <2>1, <2>2, <2>3, KnownGrows DEF Contract!Next, Contract!CutShort
<1>4. CASE ~Rolling
  <2>1. Head = db.head /\ rollback.todo = {} /\ Known' = Known /\ Broken' = Broken
    BY <1>1, <1>2, <1>4 DEF Head, Known, Broken, IInv, RollbackKeeps
  <2>2. CASE open
    BY <1>1, <1>2, <2>1, <2>2 DEF Contract!Next, Contract!Close
  <2>3. CASE ~open
    BY <1>1, <1>2, <2>1, <2>3 DEF IInv, TypeOK
  <2>. QED
    BY <2>2, <2>3
<1>. QED
  BY <1>3, <1>4

(* The chain thread.                                                       *)
LEMMA GetMaps ==
    ASSUME IInv, IInv', NEW b \in Block \ {Genesis}, NEW stale \in BOOLEAN, Get(b, stale)
    PROVE  [Contract!Next]_<<open, Head, Known, Broken>>
<1>1. /\ ~Rolling /\ stale = ~open /\ db' = Reopened(stale)
      /\ UNCHANGED <<open, fresh, rollback, damaged>>
  BY DEF Get
<1>2. CASE stale
  <2>1. db' = Initialised(db)
    BY <1>1, <1>2 DEF Reopened
  <2>2. \/ db.head = NoBlock /\ Contract!Create
        \/ db.head # NoBlock /\ Head' = Head /\ Broken' = Broken /\ Contract!Grows
    BY <1>1, <2>1, InitialisedStep, {} \in SUBSET Block
  <2>. QED
    BY <1>1, <2>2 DEF Contract!Next, Contract!Learn
<1>3. CASE ~stale
  BY <1>1, <1>3 DEF Reopened, Head, Known, Broken, Rolling
<1>. QED
  BY <1>2, <1>3

LEMMA PutMaps ==
    ASSUME IInv, IInv', Put
    PROVE  [Contract!Next]_<<open, Head, Known, Broken>>
<1>. DEFINE d == Reopened(thread.stale)
<1>1. /\ ~Rolling /\ thread.step = "fetched"
      /\ db' = [d EXCEPT !.stored = @ \cup {thread.block}]
      /\ UNCHANGED <<open, fresh, rollback, damaged>>
  BY DEF Put
<1>2. thread.block \in Block /\ (thread.stale \/ open)
  BY <1>1 DEF IInv, TypeOK, ThreadKnows
<1>3. d = Initialised(db)
  <2>1. CASE thread.stale
    BY <2>1 DEF Reopened
  <2>2. CASE ~thread.stale
    BY <1>2, <2>2 DEF Reopened, Initialised, IInv, OpenHasHead
  <2>. QED
    BY <2>1, <2>2
<1>4. d \in [stored : SUBSET Block, head : Block]
  BY <1>3, InitialisedIsComplete DEF IInv, TypeOK
<1>5. db'.stored = Initialised(db).stored \cup {thread.block} /\ db'.head = Initialised(db).head
  BY <1>1, <1>3, <1>4
<1>6. {thread.block} \in SUBSET Block
  BY <1>2
<1>7. \/ db.head = NoBlock /\ Contract!Create
      \/ db.head # NoBlock /\ Head' = Head /\ Broken' = Broken /\ Contract!Grows
  BY <1>1, <1>5, <1>6, InitialisedStep
<1>. QED
  BY <1>1, <1>7 DEF Contract!Next, Contract!Learn

LEMMA HeadMaps ==
    ASSUME IInv, SetChainHead
    PROVE  [Contract!Next]_<<open, Head, Known, Broken>>
<1>1. /\ ~Rolling /\ thread.step = "stored" /\ db' = HeadWritten(db)
      /\ UNCHANGED <<open, fresh, rollback, damaged>>
  BY DEF SetChainHead
<1>2. CASE thread.stale
  BY <1>1, <1>2 DEF HeadWritten, Head, Known, Broken, Rolling
<1>3. CASE ~thread.stale
  <2>1. open /\ thread.block \in Block /\ rollback.todo = {}
        /\ (damaged \/ Chain[thread.block] \subseteq db.stored)
    BY <1>1, <1>3 DEF IInv, TypeOK, ThreadKnows, RollbackKeeps
  <2>2. db' = [stored |-> db.stored, head |-> thread.block]
    BY <1>1, <1>3 DEF HeadWritten, IInv, TypeOK
  <2>3. Head' = thread.block /\ Known' = Known /\ Broken' = Broken
    BY <1>1, <2>2 DEF Head, Known, Broken, Rolling
  <2>4. thread.block \in Known \/ Broken
    BY <2>1 DEF Known, Broken
  <2>5. Contract!Connect(thread.block)
    BY <1>1, <2>1, <2>3, <2>4 DEF Contract!Connect
  <2>. QED
    BY <2>1, <2>5 DEF Contract!Next
<1>. QED
  BY <1>2, <1>3

(* Rollbacks.                                                              *)
LEMMA HashMaps ==
    ASSUME IInv, NEW b \in Block, RollbackToHash(b)
    PROVE  [Contract!Next]_<<open, Head, Known, Broken>>
<1>1. /\ open /\ ~Rolling /\ b \in Chain[db.head]
      /\ rollback' = [todo |-> Chain[db.head] \ Chain[b], target |-> b, byHeight |-> FALSE]
      /\ UNCHANGED <<db, open, damaged>>
  BY DEF RollbackToHash, CanRollBack, KeysAbove
<1>2. Head = db.head /\ Head # NoBlock /\ rollback.todo = {} /\ b # NoBlock
  BY <1>1, GenesisAssumption DEF Head, IInv, OpenHasHead, RollbackKeeps
<1>3. Head' = b /\ Broken' = Broken
  BY <1>1, <1>2 DEF Head, Broken, Rolling
<1>4. Known' = Contract!Without(b)
  BY <1>1, <1>2 DEF Known, Contract!Without
<1>. QED
  BY <1>1, <1>2, <1>3, <1>4 DEF Contract!Next, Contract!RollBack

LEMMA HeightMaps ==
    ASSUME IInv, NEW h, RollbackToHeight(h)
    PROVE  [Contract!Next]_<<open, Head, Known, Broken>>
<1>1. /\ open /\ ~Rolling /\ UNCHANGED <<db, open, damaged>>
  BY DEF RollbackToHeight, CanRollBack
<1>2. PICK b \in Chain[db.head] :
         /\ Height[b] = h
         /\ rollback' = [todo |-> KeysAboveHeight(h) \cup KeysBelowHeight(h),
                         target |-> b, byHeight |-> TRUE]
  BY DEF RollbackToHeight
<1>3. /\ Head = db.head /\ db.head \in Block /\ rollback.todo = {} /\ b \in Block
      /\ b # NoBlock /\ Head # NoBlock
  BY <1>1, GenesisAssumption, ChainAssumption DEF Head, IInv, TypeOK, OpenHasHead, RollbackKeeps
<1>4. Head' = b /\ Broken'
  BY <1>1, <1>2, <1>3 DEF Head, Broken, Rolling
<1>5. Chain[db.head] \ Chain[b] \subseteq KeysAboveHeight(h)
  BY <1>2, <1>3, HigherOnChain DEF KeysAboveHeight
<1>6. Known' \subseteq Contract!Without(b)
  BY <1>1, <1>2, <1>3, <1>5 DEF Known, Contract!Without
<1>. QED
  BY <1>1, <1>2, <1>3, <1>4, <1>6 DEF Contract!Next, Contract!RollBack

LEMMA DeleteMaps ==
    ASSUME IInv, IInv', DeleteKey \/ SetRolledBackHead
    PROVE  UNCHANGED <<open, Head, Known, Broken>>
<1>1. CASE DeleteKey
  <2>1. PICK b \in rollback.todo :
           /\ db' = [db EXCEPT !.stored = @ \ {b}]
           /\ rollback' = [rollback EXCEPT !.todo = @ \ {b}]
    BY <1>1 DEF DeleteKey
  <2>2. /\ db'.stored = db.stored \ {b} /\ rollback'.todo = rollback.todo \ {b}
        /\ rollback'.target = rollback.target /\ rollback'.byHeight = rollback.byHeight
        /\ UNCHANGED <<open, damaged>>
    BY <1>1, <2>1 DEF DeleteKey, IInv, TypeOK
  <2>3. Rolling /\ Rolling'
    BY <2>1, <2>2 DEF IInv, RollbackKeeps, Rolling
  <2>4. db'.stored \ rollback'.todo = db.stored \ rollback.todo
    BY <2>1, <2>2
  <2>. QED
    BY <2>2, <2>3, <2>4 DEF Head, Known, Broken
<1>2. CASE SetRolledBackHead
  <2>1. /\ Rolling /\ ~Rolling' /\ rollback.todo = {} /\ rollback'.todo = {}
        /\ db' = [stored |-> db.stored, head |-> rollback.target]
        /\ damaged' = (damaged \/ rollback.byHeight) /\ open' = open
    BY <1>2 DEF SetRolledBackHead, IInv, TypeOK, Rolling, NoRollback
  <2>2. Head' = Head /\ Known' = Known
    BY <2>1 DEF Head, Known
  <2>3. rollback.byHeight \in BOOLEAN /\ damaged \in BOOLEAN
    BY DEF IInv, TypeOK
  <2>4. Broken' = Broken
    BY <2>1, <2>3 DEF Broken
  <2>. QED
    BY <2>1, <2>2, <2>4
<1>. QED
  BY <1>1, <1>2

LEMMA NextMaps ==
    IInv /\ IInv' /\ [Next]_vars => [Contract!Next]_<<open, Head, Known, Broken>>
<1>. SUFFICES ASSUME IInv, IInv', [Next]_vars
              PROVE  [Contract!Next]_<<open, Head, Known, Broken>>
  OBVIOUS
<1>1. CASE ChainThread
  <2>1. CASE PutThrows \/ SideBranch
    BY <2>1 DEF PutThrows, SideBranch, Head, Known, Broken, Rolling
  <2>2. CASE ~(PutThrows \/ SideBranch)
    BY <1>1, <2>2, GetMaps, PutMaps, HeadMaps DEF ChainThread
  <2>. QED
    BY <2>1, <2>2
<1>2. CASE MainThread
  <2>1. DeleteKey \/ SetRolledBackHead => UNCHANGED <<open, Head, Known, Broken>>
    BY DeleteMaps
  <2>. QED
    BY <1>2, <2>1, OpenMaps, CloseMaps, HashMaps, HeightMaps DEF MainThread
<1>3. CASE OpenDies \/ Die
  BY <1>3, OpenMaps, DieMaps
<1>4. CASE UNCHANGED vars
  BY <1>4 DEF vars, Head, Known, Broken, Rolling
<1>. QED
  BY <1>1, <1>2, <1>3, <1>4 DEF Next

(* The store implements ChainContract: the head moves only to a block      *)
(* whose chain can be read, while the store is open, or back on its own    *)
(* chain; a block that can be read with its chain is lost only by a        *)
(* rollback and by an erasure; and a rollback, although it is a series of  *)
(* deletions, is done at once or cut short by a death.                     *)
THEOREM Implements == Spec => KeepsChain
BY InitIInv, NextIInv, InitContract, NextMaps, PTL
   DEF Spec, KeepsChain, Contract!Spec, Contract!vars

(* The contract is enough for whoever reads the chain: of a store that     *)
(* keeps it, the head can be read with all that is below it.               *)
THEOREM ContractSuffices == KeepsChain => []HeadComplete
<1>. DEFINE Sound == Broken \/ Head = NoBlock \/ Head \in Known
<1>1. Contract!Init => Sound
  BY DEF Contract!Init
<1>2. Sound /\ [Contract!Next]_<<open, Head, Known, Broken>> => Sound'
  <2>. SUFFICES ASSUME Sound, [Contract!Next]_<<open, Head, Known, Broken>>
                PROVE  Sound'
    OBVIOUS
  <2>1. CASE Contract!Learn
    BY <2>1 DEF Contract!Learn, Contract!Grows
  <2>2. CASE Contract!Create \/ Contract!Open \/ Contract!Close
    BY <2>2 DEF Contract!Create, Contract!Open, Contract!Close
  <2>3. CASE Contract!CutShort \/ Contract!Erase
    BY <2>3 DEF Contract!CutShort, Contract!Erase
  <2>4. ASSUME NEW b \in Block, Contract!Connect(b)
        PROVE  Sound'
    BY <2>4 DEF Contract!Connect
  <2>5. ASSUME NEW b \in Block, Contract!RollBack(b)
        PROVE  Sound'
    <3>1. /\ b \in Chain[Head] /\ Head' = b /\ Head # NoBlock
          /\ \/ Known' = Contract!Without(b) /\ Broken' = Broken
             \/ Broken'
      BY <2>5 DEF Contract!RollBack
    <3>2. CASE ~Broken' /\ Head \in Known
      <4>1. Head \in Block /\ Chain[Head] \subseteq db.stored \ rollback.todo
        BY <3>2 DEF Known
      <4>2. b \in Contract!Without(b)
        BY <3>1, <4>1, ChainAssumption DEF Known, Contract!Without
      <4>. QED
        BY <3>1, <3>2, <4>2
    <3>. QED
      BY <3>1, <3>2
  <2>6. CASE UNCHANGED <<open, Head, Known, Broken>>
    BY <2>6
  <2>. QED
    BY <2>1, <2>2, <2>3, <2>4, <2>5, <2>6 DEF Contract!Next
<1>3. Sound => HeadComplete
  BY DEF HeadComplete, Head, Known, Broken
<1>. QED
  BY <1>1, <1>2, <1>3, PTL DEF KeepsChain, Contract!Spec, Contract!vars
=============================================================================
