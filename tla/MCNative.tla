----------------------------- MODULE MCNative -----------------------------
(***************************************************************************)
(* Instances for TLC of the modules of the native helpers.  They share no  *)
(* state: an execution runs one of them, chosen at the start.              *)
(***************************************************************************)
EXTENDS LockedPages, HashStream, SeedExpansion

VARIABLE part

Init ==
    /\ PageInit /\ HashInit /\ SeedInit
    /\ part \in {"pages", "hash", "seed"}
    /\ part # "hash" => sha.buf[1] = Zero

Next ==
    /\ UNCHANGED part
    /\ \/ part = "pages" /\ PageNext /\ UNCHANGED <<hashVars, seedVars>>
       \/ part = "hash" /\ HashNext /\ UNCHANGED <<pageVars, seedVars>>
       \/ part = "seed" /\ SeedNext /\ UNCHANGED <<pageVars, hashVars>>

Spec == Init /\ [][Next]_<<part, pageVars, hashVars, seedVars>>

(* A length in bits, the highest first: a byte has one bit here.           *)
Bits(n) == [i \in 1..LengthSize |-> (n \div 2 ^ (LengthSize - i)) % 2]
=============================================================================
