---------------------------- MODULE HashStream ----------------------------
(***************************************************************************)
(* The stream of bytes into SHA-256 (CSHA256::Write and Finalize in        *)
(* cpp/sha256.cpp) and the double hash over it (CHash256, CHashWriter in   *)
(* cpp/hash.h).  Callers write pieces of any length; whole blocks go to    *)
(* the compression function, the rest waits in a buffer; GetHash pads and  *)
(* hashes the hash again on the same object, and the callers in            *)
(* cpp/native-lib.cpp go on writing to it.  What the compression function  *)
(* computes is left out: the blocks it got stand for its state.            *)
(***************************************************************************)
EXTENDS Naturals, Sequences

CONSTANTS
    Byte,           \* the values of a byte
    Zero, Mark,     \* 0x00 and 0x80
    BlockSize,      \* 64
    LengthSize,     \* 8, the bytes of the length at the end of the padding
    DigestSize,     \* 32
    SizeDesc(_),    \* the bytes of the length
    MaxWrite,       \* bound on the length of a write
    MaxBytes        \* bound on the bytes between two resets

ASSUME HashAssumption ==
    /\ {Zero, Mark} \subseteq Byte
    /\ {BlockSize, LengthSize, DigestSize} \subseteq Nat \ {0}
    /\ LengthSize < BlockSize
    /\ {MaxWrite, MaxBytes} \subseteq Nat
    /\ \A n \in 0..MaxBytes + DigestSize + LengthSize + BlockSize : SizeDesc(n) \in [1..LengthSize -> Byte]

VARIABLES
    sha,      \* the object: bytes, the array buf, and the bytes of the blocks
    step,     \* "open", "inner" after the first Finalize of GetHash, "hashed"
    written,  \* all that was written since the last reset, the padding included
    message   \* the length of what was hashed last

hashVars == <<sha, step, written, message>>

Fresh(buf) == [bytes |-> 0, buf |-> buf, blocks |-> <<>>]

HashInit ==
    /\ \E any \in Byte : sha = Fresh([i \in 1..BlockSize |-> any])
    /\ step = "open" /\ written = <<>> /\ message = 0

----------------------------------------------------------------------------
(* memcpy of the piece to the place in the array after the first at bytes. *)
CopyTo(buf, at, piece) ==
    [i \in 1..BlockSize |-> IF i \in at + 1..at + Len(piece) THEN piece[i - at] ELSE buf[i]]

(* Mutant: a buffer that the piece just fills is not processed.            *)
WriteLate(h, data) ==
    LET size   == h.bytes % BlockSize
        full   == size # 0 /\ size + Len(data) > BlockSize
        fill   == IF full THEN BlockSize - size ELSE 0
        filled == IF full THEN CopyTo(h.buf, size, SubSeq(data, 1, fill)) ELSE h.buf
        rest   == SubSeq(data, fill + 1, Len(data))
        direct == IF full \/ size = 0 THEN Len(rest) - (Len(rest) % BlockSize) ELSE 0
    IN  [bytes  |-> h.bytes + Len(data),
         blocks |-> h.blocks \o (IF full THEN filled ELSE <<>>) \o SubSeq(rest, 1, direct),
         buf    |-> CopyTo(filled, IF full THEN 0 ELSE size,
                           SubSeq(rest, direct + 1, Len(rest)))]

(* CSHA256::Write: the buffer is filled and processed if the data reach    *)
(* its end, whole blocks go directly, the rest is kept.                    *)
Write(h, data) ==
    LET size   == h.bytes % BlockSize
        full   == size # 0 /\ size + Len(data) >= BlockSize
        fill   == IF full THEN BlockSize - size ELSE 0
        filled == IF full THEN CopyTo(h.buf, size, SubSeq(data, 1, fill)) ELSE h.buf
        rest   == SubSeq(data, fill + 1, Len(data))
        direct == Len(rest) - (Len(rest) % BlockSize)
    IN  [bytes  |-> h.bytes + Len(data),
         blocks |-> h.blocks \o (IF full THEN filled ELSE <<>>) \o SubSeq(rest, 1, direct),
         buf    |-> CopyTo(filled, IF full THEN 0 ELSE size,
                           SubSeq(rest, direct + 1, Len(rest)))]

(* Mutant: the bytes of the length are not counted.                        *)
PaddingWithoutLength(n) ==
    [i \in 1..1 + ((2 * BlockSize - 1 - (n % BlockSize)) % BlockSize) |->
        IF i = 1 THEN Mark ELSE Zero]

(* 0x80 and 1 + ((119 - bytes % 64) % 64) bytes in all.                    *)
Padding(n) ==
    [i \in 1..1 + ((2 * BlockSize - 1 - LengthSize - (n % BlockSize)) % BlockSize) |->
        IF i = 1 THEN Mark ELSE Zero]

(* CSHA256::Finalize                                                       *)
Finalize(h) == Write(Write(h, Padding(h.bytes)), SizeDesc(h.bytes))

Tailing(h) == Padding(h.bytes) \o SizeDesc(h.bytes)

----------------------------------------------------------------------------
(* CHashWriter::write; after a GetHash as well.                            *)
WriteData ==
    /\ step # "inner"
    /\ step' = "open"
    /\ \E n \in 0..MaxWrite : \E data \in [1..n -> Byte] :
           /\ Len(written) + n <= MaxBytes
           /\ sha' = Write(sha, data)
           /\ written' = written \o data
    /\ UNCHANGED message

(* GetHash: the first Finalize ...                                         *)
FinalizeInner ==
    /\ step # "inner"
    /\ step' = "inner"
    /\ sha' = Finalize(sha)
    /\ written' = written \o Tailing(sha)
    /\ message' = sha.bytes

(* ... and the hash of its result, on the object that was reset.           *)
FinalizeOuter ==
    /\ step = "inner"
    /\ step' = "hashed"
    /\ \E digest \in [1..DigestSize -> Byte] :
           LET h == Write(Fresh(sha.buf), digest)
           IN  sha' = Finalize(h) /\ written' = digest \o Tailing(h)
    /\ message' = DigestSize

(* CHash256::Reset; the array keeps what it has.                           *)
Reset ==
    /\ step # "inner"
    /\ sha' = Fresh(sha.buf)
    /\ step' = "open" /\ written' = <<>> /\ message' = 0

HashNext == WriteData \/ FinalizeInner \/ FinalizeOuter \/ Reset

HashSpec == HashInit /\ [][HashNext]_hashVars

----------------------------------------------------------------------------
HashTypeOK ==
    /\ sha.bytes \in Nat
    /\ sha.buf \in [1..BlockSize -> Byte]
    /\ sha.blocks \in Seq(Byte)
    /\ step \in {"open", "inner", "hashed"}
    /\ written \in Seq(Byte)
    /\ message \in Nat

(* However the bytes were split, the compression function got them all,    *)
(* once and in their order, but for those that wait in the buffer.  What   *)
(* an earlier use left behind in the array is never hashed.                *)
StreamIsWritten ==
    /\ sha.bytes = Len(written)
    /\ sha.blocks \o SubSeq(sha.buf, 1, sha.bytes % BlockSize) = written

(* Finalize ends on the end of a block, the first that has room for the    *)
(* mark and the length, and takes no more bytes than the array of the      *)
(* padding has: the hash is that of the message and an object that is used *)
(* on after GetHash, as native-lib.cpp does, starts from a whole block.    *)
PaddedWhole ==
    step # "open" =>
        /\ Len(sha.blocks) = sha.bytes
        /\ sha.bytes % BlockSize = 0
        /\ message + 1 + LengthSize <= sha.bytes
        /\ sha.bytes < message + 1 + LengthSize + BlockSize
=============================================================================
