------------------------- MODULE MCBlockchainStore -------------------------
(***************************************************************************)
(* A small block tree for BlockchainStore: a chain of three blocks on the  *)
(* genesis block, and a branch that leaves it after the first one.         *)
(***************************************************************************)
EXTENDS BlockchainStore

CONSTANTS g, a1, a2, a3, b2

MCBlock  == {g, a1, a2, a3, b2}
MCPrev   == [b \in {a1, a2, a3, b2} |->
               CASE b = a1 -> g [] b = a2 -> a1 [] b = a3 -> a2 [] b = b2 -> a1]
MCHeight == [b \in MCBlock |->
               CASE b = g -> 0 [] b = a1 -> 1 [] b \in {a2, b2} -> 2 [] b = a3 -> 3]
MCChain  == [b \in MCBlock |->
               CASE b = g -> {g} [] b = a1 -> {g, a1} [] b = a2 -> {g, a1, a2}
                 [] b = b2 -> {g, a1, b2} [] b = a3 -> {g, a1, a2, a3}]
=============================================================================
