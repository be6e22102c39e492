------------------------------ MODULE MCHmacSha2 ------------------------------
(***************************************************************************)
(* An instance of HmacSha2 for TLC, with the library's own block sizes.    *)
(***************************************************************************)
EXTENDS HmacSha2, Bitwise

\* A checksum of the bytes from one index to another, by halves.
RECURSIVE Checksum(_, _, _)
Checksum(bytes, from, to) ==
    IF from = to THEN bytes[from] + to
    ELSE LET middle == (from + to) \div 2
         IN (31 * Checksum(bytes, from, middle) + 7 * Checksum(bytes, middle + 1, to)) % 65521

\* It tells apart the chaining values of an instance.
ToyDigest(h) ==
    LET sum == Checksum(h.bytes, 1, Len(h.bytes))
    IN SubSeq([i \in 1..64 |-> (sum \div i + i) % 256], 1, 64)

XorTable == [b \in Byte, pad \in {54, 92} |-> b ^^ pad]

TableXor(b, pad) == XorTable[b, pad]

\* n bytes that differ from their neighbours.
Bytes(n) == [i \in 1..n |-> (11 * i + n) % 256]

\* Nothing; and what ends, alone or with others, just before, at and after the
\* places where the padding or the buffer of either block size overflows.
SomePieces == {Bytes(n) : n \in {0, 9, 55, 111}}

\* Shorter than a block, a block, longer than one.
SomeKeys == {Bytes(n) : n \in {20, 64, 131}}
===============================================================================
