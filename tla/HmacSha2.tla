------------------------------- MODULE HmacSha2 -------------------------------
(***************************************************************************)
(* The message authentication codes of src-external/hmac/hmac_sha2.c:      *)
(* SignedAwsSearchRequest signs the URLs it sends to Amazon with           *)
(* hmac_sha256; the library also takes a message in pieces and, with       *)
(* reinit, several messages for one key.                                   *)
(*                                                                         *)
(* A caller initialises a context, adds pieces of a message, and ends it;  *)
(* then it may begin a new message with the same key or with another key.  *)
(***************************************************************************)
EXTENDS Sha2

CONSTANTS
    Keys,           \* the keys callers use
    Pieces,         \* the pieces messages come in
    MacSizes,       \* the sizes of codes callers ask for
    MaxMessage,     \* bound: bytes of a message
    xor(_, _)       \* exclusive or of two bytes

ASSUME XorAssumption ==
    \A pad \in {54, 92} : xor(0, pad) = pad /\ \A b \in Byte : xor(b, pad) \in Byte

ASSUME InputAssumption ==
    /\ Keys \subseteq Seq(Byte)
    /\ Pieces \subseteq Seq(Byte)
    /\ MacSizes \subseteq Nat

\* Inside the hash, a message follows one block made from the key.
ASSUME LengthAssumption ==
    /\ MaxMessage \in Nat
    /\ 8 * (SHA512.block + MaxMessage) < UintLimit
    /\ 8 * (SHA512.block + SHA512.digest) < UintLimit
    /\ \A key \in Keys : 8 * Len(key) < UintLimit

VARIABLES
    algorithm,      \* the functions the caller uses
    ctx,            \* the caller's context
    phase,          \* "unused", "adding" or "ended"
    mac,            \* the code of the message, once it is ended
    key, message    \* history: the key, and the message so far

vars == <<algorithm, ctx, phase, mac, key, message>>

Init ==
    /\ algorithm \in Algorithms
    /\ ctx = [inside |-> init(algorithm), outside |-> init(algorithm),
              inside_reinit |-> init(algorithm), outside_reinit |-> init(algorithm)]
    /\ phase = "unused"
    /\ mac = <<>>
    /\ key = <<>>
    /\ message = <<>>

-----------------------------------------------------------------------------
\* What is hashed of a key: it, or the digest of one that is longer than a block.
KeyUsed(a, Hash(_), k) == IF Len(k) > a.block THEN Hash(k) ELSE k

\* block_ipad and block_opad: the bytes after the key are zeros under the pad.
KeyBlock(a, used, pad) ==
    [i \in 1..a.block |-> IF i <= Len(used) THEN xor(used[i], pad) ELSE pad]

hmac_init(a, Hash(_), Start, Add(_, _), k) ==
    LET used    == KeyUsed(a, Hash, k)
        inside  == Add(Start, KeyBlock(a, used, 54))
        outside == Add(Start, KeyBlock(a, used, 92))
    IN /\ algorithm = a
       /\ ctx' = [inside |-> inside, outside |-> outside,
                  inside_reinit |-> inside, outside_reinit |-> outside]
       /\ phase' = "adding"
       /\ key' = k
       /\ message' = <<>>
       /\ mac' = <<>>
       /\ UNCHANGED algorithm

hmac_reinit_Swapped(a) ==  \* mutant: memcpy's arguments the other way round
    /\ algorithm = a
    /\ phase \in {"adding", "ended"}
    /\ ctx' = [inside |-> ctx.inside, outside |-> ctx.outside,
               inside_reinit |-> ctx.inside, outside_reinit |-> ctx.outside]
    /\ phase' = "adding"
    /\ message' = <<>>
    /\ mac' = <<>>
    /\ UNCHANGED <<algorithm, key>>

hmac_reinit(a) ==
    /\ algorithm = a
    /\ phase \in {"adding", "ended"}
    /\ ctx' = [inside |-> ctx.inside_reinit, outside |-> ctx.outside_reinit,
               inside_reinit |-> ctx.inside_reinit, outside_reinit |-> ctx.outside_reinit]
    /\ phase' = "adding"
    /\ message' = <<>>
    /\ mac' = <<>>
    /\ UNCHANGED <<algorithm, key>>

hmac_update(a, Add(_, _), piece) ==
    /\ algorithm = a
    /\ phase = "adding"
    /\ Len(message) + Len(piece) <= MaxMessage
    /\ ctx' = [inside |-> Add(ctx.inside, piece), outside |-> ctx.outside,
               inside_reinit |-> ctx.inside_reinit, outside_reinit |-> ctx.outside_reinit]
    /\ message' = message \o piece
    /\ UNCHANGED <<algorithm, phase, mac, key>>

\* The digest of the inside is a message for the outside; mac_size bytes are
\* returned, of which a caller may ask for no more than the digest has.
hmac_final(a, Add(_, _), End(_), mac_size) ==
    LET inner == End(ctx.inside)
        outer == End(Add(ctx.outside, inner.digest))
    IN /\ algorithm = a
       /\ phase = "adding"
       /\ mac_size <= a.digest
       /\ ctx' = [inside |-> inner.ctx, outside |-> outer.ctx,
                  inside_reinit |-> ctx.inside_reinit, outside_reinit |-> ctx.outside_reinit]
       /\ phase' = "ended"
       /\ mac' = SubSeq(outer.digest, 1, mac_size)
       /\ UNCHANGED <<algorithm, key, message>>

-----------------------------------------------------------------------------
\* The functions of hmac_sha2.c, one set of copies for each algorithm.
hmac_sha224_init(k) == hmac_init(SHA224, sha224, sha224_init, sha224_update, k)
hmac_sha256_init(k) == hmac_init(SHA256, sha256, sha256_init, sha256_update, k)
hmac_sha384_init(k) == hmac_init(SHA384, sha384, sha384_init, sha384_update, k)
hmac_sha512_init(k) == hmac_init(SHA512, sha512, sha512_init, sha512_update, k)

hmac_sha224_reinit == hmac_reinit(SHA224)
hmac_sha256_reinit == hmac_reinit(SHA256)
hmac_sha384_reinit == hmac_reinit(SHA384)
hmac_sha512_reinit == hmac_reinit(SHA512)

hmac_sha224_update(piece) == hmac_update(SHA224, sha224_update, piece)
hmac_sha256_update(piece) == hmac_update(SHA256, sha256_update, piece)
hmac_sha384_update(piece) == hmac_update(SHA384, sha384_update, piece)
hmac_sha512_update(piece) == hmac_update(SHA512, sha512_update, piece)

hmac_sha224_final(mac_size) == hmac_final(SHA224, sha224_update, sha224_final, mac_size)
hmac_sha256_final(mac_size) == hmac_final(SHA256, sha256_update, sha256_final, mac_size)
hmac_sha384_final(mac_size) == hmac_final(SHA384, sha384_update, sha384_final, mac_size)
hmac_sha512_final(mac_size) == hmac_final(SHA512, sha512_update, sha512_final, mac_size)

Next ==
    \/ \E k \in Keys : \/ hmac_sha224_init(k)
                       \/ hmac_sha256_init(k)
                       \/ hmac_sha384_init(k)
                       \/ hmac_sha512_init(k)
    \/ hmac_sha224_reinit
    \/ hmac_sha256_reinit
    \/ hmac_sha384_reinit
    \/ hmac_sha512_reinit
    \/ \E piece \in Pieces : \/ hmac_sha224_update(piece)
                             \/ hmac_sha256_update(piece)
                             \/ hmac_sha384_update(piece)
                             \/ hmac_sha512_update(piece)
    \/ \E size \in MacSizes : \/ hmac_sha224_final(size)
                              \/ hmac_sha256_final(size)
                              \/ hmac_sha384_final(size)
                              \/ hmac_sha512_final(size)

Spec == Init /\ [][Next]_vars

-----------------------------------------------------------------------------
\* RFC 2104: the key, padded with zeros to a block, under the two pads.
Key0(a, k) ==
    LET k0 == IF Len(k) > a.block THEN FIPS(a, k) ELSE k
    IN k0 \o Zeros(a.block - Len(k0))

Under(a, k, pad) == LET k0 == Key0(a, k) IN [i \in 1..a.block |-> xor(k0[i], pad)]

HMAC(a, k, m) == FIPS(a, Under(a, k, 92) \o FIPS(a, Under(a, k, 54) \o m))

\* Types; the lengths and the buffers are those of the algorithm.
TypeOK ==
    /\ algorithm \in Algorithms
    /\ ctx \in [inside : Contexts(algorithm), outside : Contexts(algorithm),
               inside_reinit : Contexts(algorithm), outside_reinit : Contexts(algorithm)]
    /\ phase \in {"unused", "adding", "ended"}
    /\ key \in Keys \cup {<<>>}
    /\ message \in Seq(Byte)
    /\ mac \in Seq(Byte)
    /\ Len(message) <= MaxMessage

(***************************************************************************)
(* hmac_..._final: whatever pieces a message came in, however many         *)
(* messages the context served before, the code is the first bytes of the  *)
(* HMAC of the message under the key.                                      *)
(***************************************************************************)
MacIsRight ==
    phase = "ended" => mac = SubSeq(HMAC(algorithm, key, message), 1, Len(mac))

(***************************************************************************)
(* Between calls, the inner context has absorbed the key's block and the   *)
(* message so far, the outer one its key's block: no byte is lost, counted *)
(* twice or read before it was written where pieces end at a block's end.  *)
(***************************************************************************)
ContextsHoldMessage ==
    phase = "adding" =>
        /\ Absorbed(algorithm, ctx.inside, Under(algorithm, key, 54) \o message)
        /\ Absorbed(algorithm, ctx.outside, Under(algorithm, key, 92))

(***************************************************************************)
(* The copies reinit restores are those of the current key, also after     *)
(* final has used up the contexts.                                         *)
(***************************************************************************)
CopiesHoldKey ==
    phase # "unused" =>
        /\ Absorbed(algorithm, ctx.inside_reinit, Under(algorithm, key, 54))
        /\ Absorbed(algorithm, ctx.outside_reinit, Under(algorithm, key, 92))
===============================================================================
