--------------------------- MODULE SeedExpansion ---------------------------
(***************************************************************************)
(* The seed of a zPIV and its expansion (cpp/native-lib.cpp) with the      *)
(* conversions of CBigNum (cpp/libzerocoin/bignum.h) it goes through.  One *)
(* call makes a random seed and expands it; when the coin is spent another *)
(* call expands the seed again, from bytes the Java library made of the    *)
(* number it was given.  The bytes of a number are those of OpenSSL's MPI  *)
(* format in reverse: the top bit of the last is the sign, and a positive  *)
(* number that would set it gets a zero byte more.  Hashing is an oracle   *)
(* that answers the same when it is asked the same.                        *)
(***************************************************************************)
EXTENDS Integers, Sequences, FiniteSets, SequencesExt

CONSTANTS
    Base,       \* 256
    WordSize,   \* 32, the bytes of a uint256
    Rounds,     \* 4
    MaxAsked    \* bound on the different questions to the hash

ASSUME SeedAssumption ==
    /\ Base \in Nat \ {0, 1} /\ Base % 2 = 0
    /\ {WordSize, Rounds, MaxAsked} \subseteq Nat \ {0}

VARIABLES
    oracle,    \* what was asked of the hash, with the answers
    call,      \* the two calls: the step, the seed, the hasher's input, and vResult
    seed,      \* vSeed as the first call returns it
    signed     \* do the bytes of the second call have their sign byte, if one is due?

seedVars == <<oracle, call, seed, signed>>

Half   == Base \div 2
Digit  == 0..Base - 1
Word   == [1..WordSize -> Digit]   \* a uint256, the lowest byte first

----------------------------------------------------------------------------
Magnitude[bytes \in Seq(Digit)] ==
    IF bytes = <<>> THEN 0 ELSE Head(bytes) + Base * Magnitude[Tail(bytes)]

BytesOf[n \in Nat] == IF n = 0 THEN <<>> ELSE <<n % Base>> \o BytesOf[n \div Base]

(* setvch                                                                  *)
SetVch(bytes) ==
    IF bytes # <<>> /\ Last(bytes) >= Half
    THEN -Magnitude[[bytes EXCEPT ![Len(bytes)] = @ - Half]]
    ELSE Magnitude[bytes]

Abs(n) == IF n < 0 THEN -n ELSE n

(* Mutant: a number without regard to the sign bit.                        *)
GetVchUnsigned(n) == BytesOf[Abs(n)]

(* getvch                                                                  *)
GetVch(n) ==
    LET bytes  == BytesOf[Abs(n)]
        padded == IF bytes # <<>> /\ Last(bytes) >= Half THEN bytes \o <<0>> ELSE bytes
    IN  IF n < 0 THEN [padded EXCEPT ![Len(padded)] = @ + Half] ELSE padded

(* Mutant: no sign byte.                                                   *)
SetUint256Bare(word) == SetVch(BytesOf[Magnitude[word]])

(* setuint256: the leading zeros go, and the sign byte comes if it is due. *)
SetUint256(word) == SetVch(GetVch(Magnitude[word]))

(* getuint256: the sign bit is cleared, the lowest bytes are taken.        *)
GetUint256(n) ==
    LET bytes   == GetVch(n)
        cleared == IF bytes = <<>> THEN bytes
                   ELSE [bytes EXCEPT ![Len(bytes)] = @ % Half]
    IN  [i \in 1..WordSize |-> IF i <= Len(cleared) THEN cleared[i] ELSE 0]

----------------------------------------------------------------------------
Idle == [step |-> "idle", word |-> [i \in 1..WordSize |-> 0], input |-> <<>>, result |-> <<>>,
         round |-> 0]

SeedInit ==
    /\ oracle = {}
    /\ call = [c \in {"make", "again"} |-> Idle]
    /\ seed = 0 /\ signed = TRUE

(* The hasher gets the seed.                                               *)
Begin(c, word) ==
    call' = [call EXCEPT ![c] = [Idle EXCEPT !.step = "expanding", !.word = word,
                                             !.input = <<word>>]]

(* computeVSeedAndVExpandedNative: randBignum is below 2^256 - 1.          *)
MakeSeed ==
    /\ call["make"].step = "idle"
    /\ \E n \in 0..Base ^ WordSize - 2 :
           LET word == GetUint256(n)
           IN  Begin("make", word) /\ seed' = SetUint256(word)
    /\ UNCHANGED <<oracle, signed>>

(* compute1024seedNative: the bytes may come without their sign byte, and  *)
(* with zeros up to the width of a word.                                   *)
ReadSeed ==
    /\ call["make"].step = "expanded" /\ call["again"].step = "idle"
    /\ \/ /\ Begin("again", GetUint256(SetVch(GetVch(seed))))
          /\ UNCHANGED signed
       \/ /\ Begin("again", GetUint256(SetVch(GetVch(seed) \o <<0>>)))
          /\ UNCHANGED signed
       \/ /\ Begin("again", GetUint256(SetVch(BytesOf[Abs(seed)])))
          /\ signed' = (BytesOf[Abs(seed)] = GetVch(seed))
    /\ UNCHANGED <<oracle, seed>>

(* One round: the hash of all the hasher got so far, with the bytes of the *)
(* hash added to vResult and vResult to the input.                         *)
HashRound(c) ==
    /\ call[c].step = "expanding" /\ call[c].round < Rounds
    /\ \E hash \in Word :
           /\ \A entry \in oracle : entry.input = call[c].input => entry.hash = hash
           /\ oracle' = oracle \cup {[input |-> call[c].input, hash |-> hash]}
           /\ Cardinality(oracle') <= MaxAsked
           /\ LET result == call[c].result \o GetVch(SetUint256(hash))
              IN  call' = [call EXCEPT ![c].round = @ + 1, ![c].result = result,
                                       ![c].input = Append(@, result)]
    /\ UNCHANGED <<seed, signed>>

(* bnResult.setvch(vResult), and its bytes or its digits for the caller.   *)
EndExpansion(c) ==
    /\ call[c].step = "expanding" /\ call[c].round = Rounds
    /\ call' = [call EXCEPT ![c].step = "expanded"]
    /\ UNCHANGED <<oracle, seed, signed>>

SeedNext == MakeSeed \/ ReadSeed \/ \E c \in {"make", "again"} : HashRound(c) \/ EndExpansion(c)

SeedSpec == SeedInit /\ [][SeedNext]_seedVars

----------------------------------------------------------------------------
(* A seed that was made is expanded to the same number when it is read     *)
(* again, whatever its leading zeros and its highest bit, unless its bytes *)
(* lost the sign byte: then getuint256 clears the highest bit              *)
(* (bignum.h line 271) and the coin's expansion is another one.            *)
SameExpansion ==
    signed =>
        /\ IsPrefix(call["again"].result, call["make"].result)
        /\ call["again"].step = "expanded"
               => SetVch(call["again"].result) = SetVch(call["make"].result)

(* The expansion is not negative, and its bytes are those of the hashes    *)
(* one after the other: what setvch is given comes back from getvch.       *)
ExpansionIsWhole ==
    \A c \in {"make", "again"} :
        call[c].step = "expanded" => GetVch(SetVch(call[c].result)) = call[c].result
=============================================================================
