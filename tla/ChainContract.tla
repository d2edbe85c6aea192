--------------------------- MODULE ChainContract ---------------------------
(***************************************************************************)
(* What the library is promised of the block chain store, without entries, *)
(* calls and deletions: a block is known when its whole chain can be read, *)
(* known blocks are lost only by a rollback and by an erasure, and the     *)
(* head moves only to a known block, while the store is open, or back on   *)
(* its own chain, which happens at once.                                   *)
(***************************************************************************)
CONSTANTS Block, Genesis, NoBlock, Prev, Chain

VARIABLES
    open,      \* the service has the store open
    head,      \* the head of the chain
    known,     \* the blocks whose whole chain can be read
    broken     \* the promise about the head is void until the store is erased

vars == <<open, head, known, broken>>

----------------------------------------------------------------------------
Init == open = FALSE /\ head = NoBlock /\ known = {} /\ broken = FALSE

(* Blocks become known, each on a known one.                               *)
Grows ==
    /\ known \subseteq known'
    /\ \A b \in known' \ known : b = Genesis \/ Prev[b] \in known'

Learn == Grows /\ UNCHANGED <<open, head, broken>>

(* A store without a head gets the genesis block, when it is opened or     *)
(* when a call opens it for a while.                                       *)
Create ==
    /\ head = NoBlock /\ head' = Genesis
    /\ Grows /\ Genesis \in known'
    /\ open => open'
    /\ UNCHANGED broken

Open == head # NoBlock /\ ~open /\ open' /\ UNCHANGED <<head, known, broken>>

Close == open /\ ~open' /\ UNCHANGED <<head, known, broken>>

(* A block becomes the head.                                               *)
Connect(b) ==
    /\ open
    /\ b \in known \/ broken
    /\ head' = b
    /\ UNCHANGED <<open, known, broken>>

(* What is left of the known blocks when the head goes back to b.          *)
Without(b) == {c \in known : Chain[c] \cap (Chain[head] \ Chain[b]) = {}}

RollBack(b) ==
    /\ open /\ head # NoBlock
    /\ b \in Chain[head]
    /\ head' = b
    /\ \/ known' = Without(b) /\ UNCHANGED broken
       \/ known' \subseteq Without(b) /\ broken'
    /\ UNCHANGED open

(* The process dies inside a rollback: the head is the old one again, and  *)
(* some of the blocks that went may be back.                               *)
CutShort ==
    /\ open /\ ~open'
    /\ head' # NoBlock /\ head \in Chain[head']
    /\ Grows
    /\ broken'

Erase ==
    /\ open /\ ~open'
    /\ head' = NoBlock /\ known' = {} /\ ~broken'

Next ==
    \/ Learn \/ Create \/ Open \/ Close \/ CutShort \/ Erase
    \/ \E b \in Block : Connect(b) \/ RollBack(b)

Spec == Init /\ [][Next]_vars
=============================================================================
