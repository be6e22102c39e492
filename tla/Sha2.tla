--------------------------------- MODULE Sha2 ---------------------------------
(***************************************************************************)
(* The SHA-2 functions the signature of an Amazon request rests on: how    *)
(* src-external/hmac/sha2.c cuts a message that comes in pieces into       *)
(* blocks, and pads its end.                                               *)
(*                                                                         *)
(* A context is the C structure.  The compression of a block is not        *)
(* modelled: the chaining value h is the initial value it started from     *)
(* and the bytes compressed since, on which it depends and nothing else.   *)
(* Bytes of the buffer nobody has written yet are Garbage.                 *)
(***************************************************************************)
EXTENDS Naturals, Sequences

CONSTANTS
    UintLimit,      \* unsigned int counts modulo this number
    Garbage,        \* an uninitialised byte
    Digest(_)       \* the bytes of a chaining value

Byte == 0..255

\* block and digest: SHA..._BLOCK_SIZE and _DIGEST_SIZE, in bytes; length: the
\* length field that ends the last block.
SHA224 == [name |-> "SHA-224", block |-> 64,  digest |-> 28, length |-> 8]
SHA256 == [name |-> "SHA-256", block |-> 64,  digest |-> 32, length |-> 8]
SHA384 == [name |-> "SHA-384", block |-> 128, digest |-> 48, length |-> 16]
SHA512 == [name |-> "SHA-512", block |-> 128, digest |-> 64, length |-> 16]

Algorithms == {SHA224, SHA256, SHA384, SHA512}

ASSUME LimitAssumption == UintLimit \in Nat /\ UintLimit > 256

ASSUME GarbageAssumption == Garbage \notin Byte

-----------------------------------------------------------------------------
\* memcpy(dest + at, src, n)
memcpy(dest, at, src, n) ==
    [i \in DOMAIN dest |-> IF at < i /\ i <= at + n THEN src[i - at] ELSE dest[i]]

memset(dest, at, byte, n) ==
    [i \in DOMAIN dest |-> IF at < i /\ i <= at + n THEN byte ELSE dest[i]]

UNPACK32_Uncut(x) ==  \* mutant: the last byte takes more than eight bits
    << (x \div 16777216) % 256, (x \div 65536) % 256, (x \div 256) % 256, x >>

\* The four bytes of a word, the most significant first.
UNPACK32(x) ==
    << (x \div 16777216) % 256, (x \div 65536) % 256, (x \div 256) % 256, x % 256 >>

\* The chaining value after the first block_nb blocks of message.
transf(a, h, message, block_nb) ==
    [start |-> h.start, bytes |-> h.bytes \o SubSeq(message, 1, block_nb * a.block)]

init(a) ==
    [len     |-> 0,
     tot_len |-> 0,
     block   |-> [i \in 1..(2 * a.block) |-> Garbage],
     h       |-> [start |-> a.name, bytes |-> <<>>]]

Fits_PieceAlone(a, ctx, len) == len < a.block  \* mutant: what waits in the buffer is not counted

\* The message leaves room in the buffer; unsigned int may wrap around.
Fits(a, ctx, len) == (ctx.len + len) % UintLimit < a.block

(***************************************************************************)
(* update: the message fills the buffer up to a block; if it does, that    *)
(* block and the whole ones after it are compressed, and the rest of the   *)
(* message is left at the start of the buffer.                             *)
(***************************************************************************)
update(a, ctx, message) ==
    LET len      == Len(message)
        tmp_len  == a.block - ctx.len
        rem_len  == IF len < tmp_len THEN len ELSE tmp_len
        filled   == memcpy(ctx.block, ctx.len, message, rem_len)
        new_len  == len - rem_len
        block_nb == new_len \div a.block
        shifted  == SubSeq(message, rem_len + 1, len)
        rest     == new_len % a.block
    IN IF Fits(a, ctx, len)
         THEN [len     |-> (ctx.len + len) % UintLimit,
               tot_len |-> ctx.tot_len,
               block   |-> filled,
               h       |-> ctx.h]
         ELSE [len     |-> rest,
               tot_len |-> (ctx.tot_len + (block_nb + 1) * a.block) % UintLimit,
               block   |-> memcpy(filled, 0, SubSeq(shifted, block_nb * a.block + 1, new_len), rest),
               h       |-> transf(a, transf(a, ctx.h, filled, 1), shifted, block_nb)]

\* Blocks final still has to compress: a second one when the field does not fit.
LastBlocks(a, ctx) ==
    IF a.block - (a.length + 1) < ctx.len % a.block THEN 2 ELSE 1

(***************************************************************************)
(* final: a bit, zeros and the length in bits close the message, in the    *)
(* last block or, when that has no room for them, in one more.  The length *)
(* is one word of the field; what is above it stays zero.                  *)
(***************************************************************************)
final(a, ctx) ==
    LET block_nb == LastBlocks(a, ctx)
        len_b    == ((ctx.tot_len + ctx.len) * 8) % UintLimit
        pm_len   == block_nb * a.block
        zeroed   == memset(ctx.block, ctx.len, 0, pm_len - ctx.len)
        marked   == memset(zeroed, ctx.len, 128, 1)
        padded   == memcpy(marked, pm_len - 4, UNPACK32(len_b), 4)
        h        == transf(a, ctx.h, padded, block_nb)
    IN [ctx    |-> [len |-> ctx.len, tot_len |-> ctx.tot_len, block |-> padded, h |-> h],
        digest |-> SubSeq(Digest(h), 1, a.digest)]

-----------------------------------------------------------------------------
\* The functions of sha2.c, one set of copies for each algorithm.
sha224_init == init(SHA224)
sha256_init == init(SHA256)
sha384_init == init(SHA384)
sha512_init == init(SHA512)

sha224_update(ctx, message) == update(SHA224, ctx, message)
sha256_update(ctx, message) == update(SHA256, ctx, message)
sha384_update(ctx, message) == update(SHA384, ctx, message)
sha512_update(ctx, message) == update(SHA512, ctx, message)

sha384_final_ShortField(ctx) == final([SHA384 EXCEPT !.length = 8], ctx)  \* mutant: SHA-256's test

sha224_final(ctx) == final(SHA224, ctx)
sha256_final(ctx) == final(SHA256, ctx)
sha384_final(ctx) == final(SHA384, ctx)
sha512_final(ctx) == final(SHA512, ctx)

sha224(message) == sha224_final(sha224_update(sha224_init, message)).digest
sha256(message) == sha256_final(sha256_update(sha256_init, message)).digest
sha384(message) == sha384_final(sha384_update(sha384_init, message)).digest
sha512(message) == sha512_final(sha512_update(sha512_init, message)).digest

-----------------------------------------------------------------------------
(***************************************************************************)
(* What they promise (FIPS 180-2): the digest of the message with a bit,   *)
(* the least number of zeros and the length of the message in bits after   *)
(* it.  This is the length field of messages below 2^32 bits.              *)
(***************************************************************************)
Zeros(n) == [i \in 1..n |-> 0]

PaddingZeros(a, n) ==
    CHOOSE k \in 0..(a.block - 1) : (n + 1 + k + a.length) % a.block = 0

Padded(a, data) ==
    data \o <<128>> \o Zeros(PaddingZeros(a, Len(data)) + a.length - 4) \o UNPACK32(8 * Len(data))

FIPS(a, data) ==
    SubSeq(Digest([start |-> a.name, bytes |-> Padded(a, data)]), 1, a.digest)

\* The contexts of an algorithm.
Cell == Byte \cup {Garbage}

Contexts(a) ==
    [len : Nat, tot_len : Nat, block : [1..(2 * a.block) -> Cell],
     h : [start : {a.name}, bytes : Seq(Cell)]]

(***************************************************************************)
(* A context has absorbed data: its whole blocks are compressed and the    *)
(* rest waits in the buffer.                                               *)
(***************************************************************************)
Absorbed(a, ctx, data) ==
    /\ ctx.len \in 0..(a.block - 1)
    /\ ctx.tot_len = Len(ctx.h.bytes)
    /\ ctx.tot_len % a.block = 0
    /\ ctx.h.start = a.name
    /\ Len(data) = ctx.tot_len + ctx.len
    /\ \A i \in 1..ctx.tot_len : ctx.h.bytes[i] = data[i]
    /\ \A i \in 1..ctx.len : ctx.block[i] = data[ctx.tot_len + i]
===============================================================================
