---------------------------- MODULE HmacSha2_proofs ----------------------------
(***************************************************************************)
(* HmacSha2: the codes are right for all keys, messages and pieces, for    *)
(* any compression function that gives bytes.                              *)
(***************************************************************************)
EXTENDS HmacSha2, Sha2_proofs

Chaining == [start : {a.name : a \in Algorithms}, bytes : Seq(Byte)]

\* What is assumed of the compression: 64 bytes, of which a digest takes the first.
DigestBytes == \A h \in Chaining : Digest(h) \in Seq(Byte) /\ Len(Digest(h)) = 64

\* The invariant the proofs need: each part of it rests on the others.
HmacInv == TypeOK /\ ContextsHoldMessage /\ CopiesHoldKey /\ MacIsRight

-----------------------------------------------------------------------------
LEMMA PaddedIsBytes ==
    ASSUME NEW a \in Algorithms, NEW data \in Seq(Byte)
    PROVE  Padded(a, data) \in Seq(Byte)
  <1> DEFINE n == Len(data)
             b == a.block
             rest == [len |-> n % b]
             done == (n \div b) * b
             k == PaddingZeros(a, n)
             z == k + a.length - 4
             word == UNPACK32(8 * n)
  <1>1. n \in Nat /\ b \in {64, 128} /\ b \in Nat /\ a.length \in Nat /\ 8 <= a.length
    BY Sizes, LenProperties
  <1> HIDE DEF n, b
  <1>2. n \div b \in Nat /\ n % b \in 0..(b - 1) /\ n = done + (n % b) /\ done \in Nat
    BY <1>1, WholeBlocks
  <1>3. done % b = 0
    <2>1. CASE b = 64
      BY <2>1, <1>2
    <2>2. CASE b = 128
      BY <2>2, <1>2
    <2> QED
      BY <2>1, <2>2, <1>1
  <1> HIDE DEF done
  <1>4. k \in Nat
    <2>1. rest.len \in 0..(a.block - 1) /\ rest.len = n % b
      BY <1>2 DEF b
    <2>2. PaddingZeros(a, done + rest.len) \in Nat
      <3> HIDE DEF rest
      <3> QED
        BY <2>1, <1>2, <1>3, ZerosFillBlocks DEF b
    <2> QED
      BY <2>1, <2>2, <1>2
  <1> HIDE DEF k
  <1>5. z \in Nat
    BY <1>1, <1>4
  <1>6. word \in Seq(Byte) /\ Len(word) = 4
    BY <1>1, WordBytes
  <1> HIDE DEF z, word
  <1>7. data \o <<128>> \o Zeros(z) \o word \in Seq(Byte)
    BY <1>5, <1>6, PaddedBytes DEF PaddedParts
  <1> QED
    BY <1>7 DEF Padded, z, word, k, n

LEMMA FIPSBytes ==
    ASSUME DigestBytes, NEW a \in Algorithms, NEW data \in Seq(Byte)
    PROVE  FIPS(a, data) \in Seq(Byte) /\ Len(FIPS(a, data)) = a.digest
  <1> DEFINE d == Digest([start |-> a.name, bytes |-> Padded(a, data)])
             size == a.digest
  <1>1. d \in Seq(Byte) /\ Len(d) = 64
    <2>1. [start |-> a.name, bytes |-> Padded(a, data)] \in Chaining
      BY PaddedIsBytes DEF Chaining
    <2> QED
      BY <2>1 DEF DigestBytes
  <1>2. size \in 28..64
    BY Sizes
  <1> HIDE DEF d, size
  <1>3. \A i \in 1..size : d[i] \in Byte
    <2>1. \A i \in 1..Len(d) : d[i] \in Byte
      BY <1>1, ElementOfSeq
    <2>2. \A i \in 1..size : i \in 1..64
      BY <1>2
    <2>3. \A i \in 1..64 : d[i] \in Byte
      BY <2>1, <1>1
    <2> QED
      BY <2>2, <2>3
  <1>4. /\ SubSeq(d, 1, size) \in Seq(Byte)
        /\ Len(SubSeq(d, 1, size)) = IF 1 <= size THEN size - 1 + 1 ELSE 0
    <2>1. 1 \in Int /\ size \in Int
      BY <1>2
    <2> QED
      BY <2>1, <1>3, SubSeqProperties
  <1>5. Len(SubSeq(d, 1, size)) = size
    BY <1>2, <1>4
  <1> QED
    BY <1>4, <1>5 DEF FIPS, d, size

\* The functions that hash a message in one go.
LEMMA OneShot ==
    ASSUME NEW a \in Algorithms, NEW data \in Seq(Byte), 8 * Len(data) < UintLimit
    PROVE  /\ update(a, init(a), data) \in Contexts(a)
           /\ Absorbed(a, update(a, init(a), data), data)
           /\ final(a, update(a, init(a), data)).digest = FIPS(a, data)
  <1> DEFINE c == update(a, init(a), data)
  <1>1. <<>> \in Seq(Byte) /\ Len(<<>>) = 0 /\ <<>> \o data = data
    BY ConcatEmptySeq
  <1>2. Len(<<>>) + Len(data) < UintLimit
    BY <1>1, LenProperties, LimitAssumption
  <1>3. init(a) \in Contexts(a) /\ Absorbed(a, init(a), <<>>)
    BY InitAbsorbs
  <1>4. c \in Contexts(a) /\ Absorbed(a, c, <<>> \o data)
    BY <1>1, <1>2, <1>3, UpdateAbsorbs
  <1>5. Absorbed(a, c, data)
    BY <1>1, <1>4
  <1> HIDE DEF c
  <1>6. final(a, c).digest = FIPS(a, data)
    BY <1>4, <1>5, FinalIsFIPS
  <1> QED
    BY <1>4, <1>5, <1>6 DEF c

-----------------------------------------------------------------------------
\* The key's block, as coded and as RFC 2104 has it.
Used(a, k) == IF Len(k) > a.block THEN FIPS(a, k) ELSE k

LEMMA UsedFits ==
    ASSUME DigestBytes, NEW a \in Algorithms, NEW k \in Seq(Byte)
    PROVE  Used(a, k) \in Seq(Byte) /\ Len(Used(a, k)) <= a.block
  <1> DEFINE b == a.block
             size == a.digest
             f == FIPS(a, k)
  <1>1. size \in 28..64 /\ b \in {64, 128} /\ Len(k) \in Nat
    BY Sizes, LenProperties
  <1>2. f \in Seq(Byte) /\ Len(f) = size
    BY FIPSBytes
  <1>3. Used(a, k) = IF Len(k) > b THEN f ELSE k
    BY DEF Used
  <1> HIDE DEF b, size, f
  <1>4. Len(f) <= b
    BY <1>1, <1>2
  <1>5. Used(a, k) \in Seq(Byte) /\ Len(Used(a, k)) <= b
    BY <1>1, <1>2, <1>3, <1>4
  <1> QED
    BY <1>5 DEF b

LEMMA KeyBlockIsUnder ==
    ASSUME DigestBytes, NEW a \in Algorithms, NEW k \in Seq(Byte), NEW pad \in {54, 92}
    PROVE  /\ KeyBlock(a, Used(a, k), pad) = Under(a, k, pad)
           /\ Under(a, k, pad) \in Seq(Byte)
           /\ Len(Under(a, k, pad)) = a.block
  <1> DEFINE u == Used(a, k)
             b == a.block
             zs == Zeros(b - Len(u))
             k0 == u \o zs
  <1>1. u \in Seq(Byte) /\ Len(u) \in Nat /\ Len(u) <= b /\ b \in Nat
    BY UsedFits, Sizes, LenProperties
  <1>2. Under(a, k, pad) = [i \in 1..b |-> xor(k0[i], pad)]
    BY DEF Under, Key0, Used
  <1>3. KeyBlock(a, u, pad) = [i \in 1..b |-> IF i <= Len(u) THEN xor(u[i], pad) ELSE pad]
    BY DEF KeyBlock
  <1> HIDE DEF u, b
  <1>4. zs \in Seq(Byte) /\ Len(zs) = b - Len(u) /\ \A i \in 1..(b - Len(u)) : zs[i] = 0
    <2>1. \A i \in 1..(b - Len(u)) : 0 \in Byte
      BY DEF Byte
    <2>2. b - Len(u) \in Nat
      BY <1>1
    <2> QED
      BY <2>1, <2>2, IsASeq DEF Zeros
  <1> HIDE DEF zs
  <1>5. \A i \in 1..b : k0[i] = IF i <= Len(u) THEN u[i] ELSE 0
    <2>1. /\ Len(k0) = Len(u) + Len(zs)
          /\ \A i \in 1..Len(u) : k0[i] = u[i]
          /\ \A i \in 1..Len(zs) : k0[Len(u) + i] = zs[i]
      BY <1>1, <1>4, JoinedBytes
    <2> HIDE DEF k0
    <2> SUFFICES ASSUME NEW i \in 1..b
                 PROVE  k0[i] = IF i <= Len(u) THEN u[i] ELSE 0
      OBVIOUS
    <2>2. CASE i <= Len(u)
      BY <2>1, <2>2, <1>1
    <2>3. CASE Len(u) < i
      <3>1. i - Len(u) \in 1..(b - Len(u)) /\ Len(u) + (i - Len(u)) = i
        BY <2>3, <1>1
      <3> QED
        <4>1. k0[Len(u) + (i - Len(u))] = zs[i - Len(u)] /\ zs[i - Len(u)] = 0
          BY <3>1, <2>1, <1>4
        <4> QED
          BY <4>1, <3>1, <2>3, <1>1
    <2> QED
      BY <2>2, <2>3, <1>1
  <1> HIDE DEF k0
  <1>6. xor(0, pad) = pad /\ \A byte \in Byte : xor(byte, pad) \in Byte
    BY XorAssumption
  <1>7. \A i \in 1..b : xor(k0[i], pad) = IF i <= Len(u) THEN xor(u[i], pad) ELSE pad
    BY <1>5, <1>6
  <1>8. \A i \in 1..b : xor(k0[i], pad) \in Byte
    <2>1. \A i \in 1..b : k0[i] \in Byte
      <3>1. 0 \in Byte
        BY DEF Byte
      <3>2. \A i \in 1..b : i <= Len(u) => u[i] \in Byte
        BY <1>1, ElementOfSeq
      <3> QED
        BY <3>1, <3>2, <1>5
    <2> QED
      BY <2>1, <1>6
  <1>9. KeyBlock(a, u, pad) = Under(a, k, pad)
    BY <1>2, <1>3, <1>7
  <1>10. Under(a, k, pad) \in Seq(Byte) /\ Len(Under(a, k, pad)) = b
    BY <1>1, <1>2, <1>8, IsASeq
  <1> QED
    BY <1>9, <1>10 DEF u, b

-----------------------------------------------------------------------------
\* The actions of an algorithm, with the functions it passes written out.
InitStep(a, k) ==
    LET used    == IF Len(k) > a.block THEN final(a, update(a, init(a), k)).digest ELSE k
        inside  == update(a, init(a), KeyBlock(a, used, 54))
        outside == update(a, init(a), KeyBlock(a, used, 92))
    IN /\ algorithm = a
       /\ ctx' = [inside |-> inside, outside |-> outside,
                  inside_reinit |-> inside, outside_reinit |-> outside]
       /\ phase' = "adding"
       /\ key' = k
       /\ message' = <<>>
       /\ mac' = <<>>
       /\ algorithm' = algorithm

UpdateStep(a, piece) ==
    /\ algorithm = a
    /\ phase = "adding"
    /\ Len(message) + Len(piece) <= MaxMessage
    /\ ctx' = [inside |-> update(a, ctx.inside, piece), outside |-> ctx.outside,
               inside_reinit |-> ctx.inside_reinit, outside_reinit |-> ctx.outside_reinit]
    /\ message' = message \o piece
    /\ algorithm' = algorithm /\ phase' = phase /\ mac' = mac /\ key' = key

FinalStep(a, mac_size) ==
    LET inner == final(a, ctx.inside)
        outer == final(a, update(a, ctx.outside, inner.digest))
    IN /\ algorithm = a
       /\ phase = "adding" /\ mac_size <= a.digest
       /\ ctx' = [inside |-> inner.ctx, outside |-> outer.ctx,
                  inside_reinit |-> ctx.inside_reinit, outside_reinit |-> ctx.outside_reinit]
       /\ phase' = "ended"
       /\ mac' = SubSeq(outer.digest, 1, mac_size)
       /\ algorithm' = algorithm /\ key' = key /\ message' = message

LEMMA StepsOfAnAlgorithm ==
    ASSUME Next
    PROVE  \E a \in Algorithms :
             \/ \E k \in Keys : InitStep(a, k)
             \/ hmac_reinit(a)
             \/ \E piece \in Pieces : UpdateStep(a, piece)
             \/ \E size \in MacSizes : FinalStep(a, size)
  <1>1. /\ SHA224 \in Algorithms /\ SHA256 \in Algorithms
        /\ SHA384 \in Algorithms /\ SHA512 \in Algorithms
    BY DEF Algorithms
  <1>2. ASSUME NEW k \in Keys
        PROVE  /\ hmac_sha224_init(k) => InitStep(SHA224, k)
               /\ hmac_sha256_init(k) => InitStep(SHA256, k)
               /\ hmac_sha384_init(k) => InitStep(SHA384, k)
               /\ hmac_sha512_init(k) => InitStep(SHA512, k)
    BY Zenon DEF InitStep, hmac_init, KeyUsed,
         hmac_sha224_init, sha224, sha224_init, sha224_update, sha224_final,
         hmac_sha256_init, sha256, sha256_init, sha256_update, sha256_final,
         hmac_sha384_init, sha384, sha384_init, sha384_update, sha384_final,
         hmac_sha512_init, sha512, sha512_init, sha512_update, sha512_final
  <1>3. /\ hmac_sha224_reinit => hmac_reinit(SHA224)
        /\ hmac_sha256_reinit => hmac_reinit(SHA256)
        /\ hmac_sha384_reinit => hmac_reinit(SHA384)
        /\ hmac_sha512_reinit => hmac_reinit(SHA512)
    BY Zenon DEF hmac_sha224_reinit, hmac_sha256_reinit, hmac_sha384_reinit, hmac_sha512_reinit
  <1>4. ASSUME NEW piece \in Pieces
        PROVE  /\ hmac_sha224_update(piece) => UpdateStep(SHA224, piece)
               /\ hmac_sha256_update(piece) => UpdateStep(SHA256, piece)
               /\ hmac_sha384_update(piece) => UpdateStep(SHA384, piece)
               /\ hmac_sha512_update(piece) => UpdateStep(SHA512, piece)
    BY Zenon DEF UpdateStep, hmac_update,
         hmac_sha224_update, sha224_update, hmac_sha256_update, sha256_update,
         hmac_sha384_update, sha384_update, hmac_sha512_update, sha512_update
  <1>5. ASSUME NEW size \in MacSizes
        PROVE  /\ hmac_sha224_final(size) => FinalStep(SHA224, size)
               /\ hmac_sha256_final(size) => FinalStep(SHA256, size)
               /\ hmac_sha384_final(size) => FinalStep(SHA384, size)
               /\ hmac_sha512_final(size) => FinalStep(SHA512, size)
    BY Zenon DEF FinalStep, hmac_final,
         hmac_sha224_final, sha224_update, sha224_final,
         hmac_sha256_final, sha256_update, sha256_final,
         hmac_sha384_final, sha384_update, sha384_final,
         hmac_sha512_final, sha512_update, sha512_final
  <1> QED
    BY <1>1, <1>2, <1>3, <1>4, <1>5, Zenon DEF Next

-----------------------------------------------------------------------------
LEMMA Lengths ==
    ASSUME TypeOK, NEW a \in Algorithms
    PROVE  /\ key \in Seq(Byte) /\ message \in Seq(Byte) /\ Len(message) \in Nat
           /\ \A k \in Keys : k \in Seq(Byte) /\ 8 * Len(k) < UintLimit
           /\ \A n \in Nat : n <= MaxMessage => 8 * (a.block + n) < UintLimit
           /\ 8 * (a.block + a.digest) < UintLimit
           /\ UintLimit \in Nat /\ MaxMessage \in Nat
  <1> DEFINE b == a.block
             size == a.digest
             m == MaxMessage
  <1>1. b \in {64, 128} /\ size \in 28..64
    BY Sizes
  <1>2. m \in Nat /\ 8 * (128 + m) < UintLimit /\ 8 * (128 + 64) < UintLimit /\ UintLimit \in Nat
    BY LengthAssumption, LimitAssumption DEF SHA512
  <1>3. \A k \in Keys : k \in Seq(Byte) /\ 8 * Len(k) < UintLimit
    BY LengthAssumption, InputAssumption
  <1>4. key \in Seq(Byte) /\ message \in Seq(Byte) /\ Len(message) \in Nat
    <2>1. <<>> \in Seq(Byte) /\ key \in Keys \cup {<<>>} /\ message \in Seq(Byte)
      BY DEF TypeOK
    <2> QED
      BY <2>1, <1>3, LenProperties
  <1> HIDE DEF b, size, m
  <1>5. /\ \A n \in Nat : n <= m => 8 * (b + n) < UintLimit
        /\ 8 * (b + size) < UintLimit
    BY <1>1, <1>2
  <1> QED
    BY <1>2, <1>3, <1>4, <1>5 DEF b, size, m

\* What an initialised context holds of a key's block.
LEMMA KeyContexts ==
    ASSUME DigestBytes, TypeOK, NEW a \in Algorithms, NEW k \in Keys, NEW pad \in {54, 92}
    PROVE  LET used == IF Len(k) > a.block THEN final(a, update(a, init(a), k)).digest ELSE k
               c    == update(a, init(a), KeyBlock(a, used, pad))
           IN  c \in Contexts(a) /\ Absorbed(a, c, Under(a, k, pad))
  <1>1. k \in Seq(Byte) /\ 8 * Len(k) < UintLimit
    BY Lengths
  <1>2. final(a, update(a, init(a), k)).digest = FIPS(a, k)
    BY <1>1, OneShot
  <1> DEFINE u == Under(a, k, pad)
  <1>3. KeyBlock(a, Used(a, k), pad) = u /\ u \in Seq(Byte) /\ Len(u) = a.block
    BY <1>1, KeyBlockIsUnder
  <1>4. 8 * Len(u) < UintLimit
    <2>1. 0 \in Nat /\ 0 <= MaxMessage /\ a.block \in Nat
      <3>1. a.block \in {64, 128}
        BY Sizes
      <3>2. MaxMessage \in Nat
        BY Lengths
      <3> QED
        BY <3>1, <3>2
    <2>2. 8 * (a.block + 0) < UintLimit
      BY <2>1, Lengths
    <2> QED
      BY <2>1, <2>2, <1>3
  <1> HIDE DEF u
  <1>5. update(a, init(a), u) \in Contexts(a) /\ Absorbed(a, update(a, init(a), u), u)
    BY <1>3, <1>4, OneShot
  <1> QED
    BY <1>2, <1>3, <1>5 DEF Used, u

LEMMA InitialisingIsSound ==
    ASSUME DigestBytes, HmacInv, NEW a \in Algorithms, NEW k \in Keys, InitStep(a, k)
    PROVE  HmacInv'
  <1> DEFINE used == IF Len(k) > a.block THEN final(a, update(a, init(a), k)).digest ELSE k
             inside == update(a, init(a), KeyBlock(a, used, 54))
             outside == update(a, init(a), KeyBlock(a, used, 92))
  <1>1. TypeOK
    BY DEF HmacInv
  <1>2. /\ inside \in Contexts(a) /\ Absorbed(a, inside, Under(a, k, 54))
        /\ outside \in Contexts(a) /\ Absorbed(a, outside, Under(a, k, 92))
    BY <1>1, KeyContexts
  <1>3. /\ algorithm' = a /\ phase' = "adding" /\ key' = k /\ message' = <<>> /\ mac' = <<>>
        /\ ctx' = [inside |-> inside, outside |-> outside,
                   inside_reinit |-> inside, outside_reinit |-> outside]
    BY DEF InitStep
  <1> HIDE DEF used, inside, outside
  <1>4. Under(a, k, 54) \o <<>> = Under(a, k, 54)
    <2>1. Under(a, k, 54) \in Seq(Byte)
      BY <1>1, Lengths, KeyBlockIsUnder
    <2> QED
      BY <2>1, ConcatEmptySeq
  <1>5. TypeOK'
    <2>1. <<>> \in Seq(Byte) /\ Len(<<>>) = 0 /\ 0 <= MaxMessage
      BY <1>1, Lengths
    <2> QED
      BY <2>1, <1>2, <1>3 DEF TypeOK
  <1>6. ContextsHoldMessage'
    BY <1>2, <1>3, <1>4 DEF ContextsHoldMessage
  <1>7. CopiesHoldKey'
    BY <1>2, <1>3 DEF CopiesHoldKey
  <1>8. MacIsRight'
    BY <1>3 DEF MacIsRight
  <1> QED
    BY <1>5, <1>6, <1>7, <1>8 DEF HmacInv

LEMMA ReinitialisingIsSound ==
    ASSUME DigestBytes, HmacInv, NEW a \in Algorithms, hmac_reinit(a)
    PROVE  HmacInv'
  <1>1. TypeOK
    BY DEF HmacInv
  <1>2. /\ algorithm = a /\ phase \in {"adding", "ended"} /\ algorithm' = a
        /\ phase' = "adding" /\ key' = key /\ message' = <<>> /\ mac' = <<>>
        /\ ctx' = [inside |-> ctx.inside_reinit, outside |-> ctx.outside_reinit,
                   inside_reinit |-> ctx.inside_reinit, outside_reinit |-> ctx.outside_reinit]
    BY DEF hmac_reinit
  <1>3. ctx.inside_reinit \in Contexts(a) /\ ctx.outside_reinit \in Contexts(a)
    BY <1>1, <1>2 DEF TypeOK
  <1>4. /\ Absorbed(a, ctx.inside_reinit, Under(a, key, 54))
        /\ Absorbed(a, ctx.outside_reinit, Under(a, key, 92))
    BY <1>2 DEF HmacInv, CopiesHoldKey
  <1>5. Under(a, key, 54) \o <<>> = Under(a, key, 54)
    <2>1. Under(a, key, 54) \in Seq(Byte)
      BY <1>1, Lengths, KeyBlockIsUnder
    <2> QED
      BY <2>1, ConcatEmptySeq
  <1>6. TypeOK'
    <2>1. <<>> \in Seq(Byte) /\ Len(<<>>) = 0 /\ 0 <= MaxMessage
      BY <1>1, Lengths
    <2>2. key \in Keys \cup {<<>>}
      BY <1>1 DEF TypeOK
    <2> QED
      BY <2>1, <2>2, <1>2, <1>3 DEF TypeOK
  <1>7. ContextsHoldMessage'
    BY <1>2, <1>4, <1>5 DEF ContextsHoldMessage
  <1>8. CopiesHoldKey'
    BY <1>2, <1>4 DEF CopiesHoldKey
  <1>9. MacIsRight'
    BY <1>2 DEF MacIsRight
  <1> QED
    BY <1>6, <1>7, <1>8, <1>9 DEF HmacInv

LEMMA AddingIsSound ==
    ASSUME DigestBytes, HmacInv, NEW a \in Algorithms, NEW piece \in Pieces, UpdateStep(a, piece)
    PROVE  HmacInv'
  <1> DEFINE u == Under(a, key, 54)
             c == update(a, ctx.inside, piece)
  <1>1. TypeOK
    BY DEF HmacInv
  <1>2. /\ algorithm = a /\ algorithm' = a /\ phase = "adding" /\ phase' = "adding"
        /\ key' = key /\ mac' = mac
        /\ message' = message \o piece /\ Len(message) + Len(piece) <= MaxMessage
        /\ ctx' = [inside |-> c, outside |-> ctx.outside,
                   inside_reinit |-> ctx.inside_reinit, outside_reinit |-> ctx.outside_reinit]
    BY DEF UpdateStep
  <1>3. /\ ctx.inside \in Contexts(a) /\ ctx.outside \in Contexts(a)
        /\ ctx.inside_reinit \in Contexts(a) /\ ctx.outside_reinit \in Contexts(a)
    BY <1>1, <1>2 DEF TypeOK
  <1>4. /\ Absorbed(a, ctx.inside, u \o message)
        /\ Absorbed(a, ctx.outside, Under(a, key, 92))
    BY <1>2 DEF HmacInv, ContextsHoldMessage
  <1>5. /\ u \in Seq(Byte) /\ Len(u) = a.block
        /\ message \in Seq(Byte) /\ piece \in Seq(Byte)
    BY <1>1, Lengths, KeyBlockIsUnder, InputAssumption
  <1> HIDE DEF u, c
  <1>6. /\ message \o piece \in Seq(Byte) /\ Len(message \o piece) <= MaxMessage
        /\ (u \o message) \o piece = u \o (message \o piece)
    BY <1>2, <1>5, ConcatProperties, ConcatAssociative
  <1>7. u \o message \in Seq(Byte) /\ Len(u \o message) + Len(piece) < UintLimit
    <2> DEFINE n == Len(message) + Len(piece)
    <2>1. n \in Nat /\ n <= MaxMessage
      BY <1>2, <1>5, LenProperties
    <2>2. 8 * (a.block + n) < UintLimit /\ a.block \in Nat /\ UintLimit \in Nat
      BY <2>1, <1>1, Lengths, Sizes
    <2>3. u \o message \in Seq(Byte) /\ Len(u \o message) = a.block + Len(message)
      BY <1>5, ConcatProperties
    <2>4. Len(message) \in Nat /\ Len(piece) \in Nat
      BY <1>5, LenProperties
    <2> QED
      BY <2>1, <2>2, <2>3, <2>4
  <1>8. c \in Contexts(a) /\ Absorbed(a, c, u \o (message \o piece))
    <2>1. /\ update(a, ctx.inside, piece) \in Contexts(a)
          /\ Absorbed(a, update(a, ctx.inside, piece), (u \o message) \o piece)
      BY <1>3, <1>4, <1>5, <1>7, UpdateAbsorbs
    <2> QED
      BY <2>1, <1>6 DEF c
  <1>9. TypeOK'
    <2>1. key \in Keys \cup {<<>>} /\ mac \in Seq(Byte)
      BY <1>1 DEF TypeOK
    <2> QED
      BY <2>1, <1>2, <1>3, <1>6, <1>8 DEF TypeOK
  <1>10. ContextsHoldMessage'
    BY <1>2, <1>4, <1>8 DEF ContextsHoldMessage, u
  <1>11. CopiesHoldKey'
    <2>1. /\ Absorbed(a, ctx.inside_reinit, Under(a, key, 54))
          /\ Absorbed(a, ctx.outside_reinit, Under(a, key, 92))
      BY <1>2 DEF HmacInv, CopiesHoldKey
    <2> QED
      BY <2>1, <1>2 DEF CopiesHoldKey
  <1>12. MacIsRight'
    BY <1>2 DEF MacIsRight
  <1> QED
    BY <1>9, <1>10, <1>11, <1>12 DEF HmacInv

LEMMA EndingIsSound ==
    ASSUME DigestBytes, HmacInv, NEW a \in Algorithms, NEW size \in MacSizes, FinalStep(a, size)
    PROVE  HmacInv'
  <1> DEFINE u == Under(a, key, 54) \o message
             v == Under(a, key, 92)
             f == FIPS(a, u)
             inner == final(a, ctx.inside)
             c == update(a, ctx.outside, inner.digest)
             outer == final(a, c)
  <1>1. TypeOK
    BY DEF HmacInv
  <1>2. /\ algorithm = a /\ algorithm' = a /\ phase = "adding" /\ phase' = "ended"
        /\ key' = key /\ message' = message
        /\ mac' = SubSeq(outer.digest, 1, size)
        /\ ctx' = [inside |-> inner.ctx, outside |-> outer.ctx,
                   inside_reinit |-> ctx.inside_reinit, outside_reinit |-> ctx.outside_reinit]
    BY DEF FinalStep
  <1>3. /\ ctx.inside \in Contexts(a) /\ ctx.outside \in Contexts(a)
        /\ ctx.inside_reinit \in Contexts(a) /\ ctx.outside_reinit \in Contexts(a)
    BY <1>1, <1>2 DEF TypeOK
  <1>4. Absorbed(a, ctx.inside, u) /\ Absorbed(a, ctx.outside, v)
    BY <1>2 DEF HmacInv, ContextsHoldMessage
  <1>5. /\ v \in Seq(Byte) /\ Len(v) = a.block
        /\ u \in Seq(Byte) /\ Len(u) = a.block + Len(message)
    <2>1. /\ Under(a, key, 54) \in Seq(Byte) /\ Len(Under(a, key, 54)) = a.block
          /\ message \in Seq(Byte)
      BY <1>1, Lengths, KeyBlockIsUnder
    <2>2. v \in Seq(Byte) /\ Len(v) = a.block
      BY <1>1, Lengths, KeyBlockIsUnder
    <2> DEFINE w == Under(a, key, 54)
    <2>3. u \in Seq(Byte) /\ Len(u) = Len(w) + Len(message)
      <3> HIDE DEF w
      <3> QED
        BY <2>1, JoinedBytes DEF w
    <2> QED
      BY <2>1, <2>2, <2>3
  <1> HIDE DEF u, v, inner, outer, c, f
  <1>6. inner.digest = f /\ inner.ctx \in Contexts(a)
    <2>1. Len(message) \in Nat /\ Len(message) <= MaxMessage
      BY <1>1, Lengths DEF TypeOK
    <2>2. 8 * Len(u) < UintLimit
      BY <2>1, <1>1, <1>5, Lengths
    <2> QED
      BY <2>2, <1>3, <1>4, <1>5, FinalIsFIPS DEF inner, f
  <1>7. f \in Seq(Byte) /\ Len(f) = a.digest
    BY <1>5, FIPSBytes DEF f
  <1>8. 8 * (a.block + a.digest) < UintLimit /\ a.block \in Nat /\ a.digest \in 28..64 /\ UintLimit \in Nat
    <2>1. 8 * (a.block + a.digest) < UintLimit /\ UintLimit \in Nat
      BY ONLY <1>1, a \in Algorithms, Lengths
    <2>2. a.block \in {64, 128} /\ a.digest \in 28..64
      BY ONLY a \in Algorithms, Sizes
    <2>3. a.block \in Nat
      BY ONLY <2>2
    <2> QED
      BY ONLY <2>1, <2>2, <2>3
  <1>9. c \in Contexts(a) /\ Absorbed(a, c, v \o f)
    <2>1. Len(v) + Len(f) < UintLimit
      BY <1>5, <1>7, <1>8
    <2> QED
      BY <2>1, <1>3, <1>4, <1>5, <1>6, <1>7, UpdateAbsorbs DEF c
  <1>10. outer.digest = FIPS(a, v \o f) /\ outer.ctx \in Contexts(a)
    <2>1. v \o f \in Seq(Byte) /\ Len(v \o f) = a.block + a.digest
      <3>1. v \o f \in Seq(Byte) /\ Len(v \o f) = Len(v) + Len(f)
        BY <1>5, <1>7, JoinedBytes
      <3> QED
        BY <3>1, <1>5, <1>7
    <2>2. 8 * Len(v \o f) < UintLimit
      BY <2>1, <1>8
    <2> QED
      BY <2>1, <2>2, <1>9, FinalIsFIPS DEF outer
  <1>11. outer.digest = HMAC(a, key, message)
    BY <1>10 DEF HMAC, f, u, v
  <1>12. outer.digest \in Seq(Byte) /\ Len(outer.digest) = a.digest
    <2>1. v \o f \in Seq(Byte)
      BY <1>5, <1>7, ConcatProperties
    <2> QED
      BY <2>1, <1>10, FIPSBytes
  <1>13. mac' \in Seq(Byte) /\ Len(mac') = size
    <2> DEFINE d == outer.digest
    <2>1. size \in Nat /\ size <= a.digest
      BY InputAssumption DEF FinalStep
    <2>2. d \in Seq(Byte) /\ Len(d) = a.digest
      BY <1>12
    <2> HIDE DEF d
    <2>3. \A i \in 1..size : i \in 1..Len(d)
      <3> DEFINE dg == a.digest
      <3>1. dg \in 28..64 /\ Len(d) = dg /\ size \in Nat /\ size <= dg
        BY <2>1, <2>2, <1>8
      <3> HIDE DEF dg
      <3> QED
        BY <3>1
    <2>4. \A i \in 1..size : d[i] \in Byte
      BY <2>2, <2>3, ElementOfSeq
    <2>5. /\ SubSeq(d, 1, size) \in Seq(Byte)
          /\ Len(SubSeq(d, 1, size)) = IF 1 <= size THEN size - 1 + 1 ELSE 0
      <3>1. 1 \in Int /\ size \in Int
        BY <2>1
      <3> QED
        BY <3>1, <2>4, SubSeqProperties
    <2>6. Len(SubSeq(d, 1, size)) = size
      BY <2>1, <2>5
    <2> QED
      BY <2>5, <2>6, <1>2 DEF d
  <1>14. TypeOK'
    <2>1. key \in Keys \cup {<<>>} /\ message \in Seq(Byte) /\ Len(message) <= MaxMessage
      BY <1>1 DEF TypeOK
    <2> QED
      BY <2>1, <1>2, <1>3, <1>6, <1>10, <1>13 DEF TypeOK
  <1>15. ContextsHoldMessage'
    BY <1>2 DEF ContextsHoldMessage
  <1>16. CopiesHoldKey'
    <2>1. /\ Absorbed(a, ctx.inside_reinit, Under(a, key, 54))
          /\ Absorbed(a, ctx.outside_reinit, Under(a, key, 92))
      BY <1>2 DEF HmacInv, CopiesHoldKey
    <2> QED
      BY <2>1, <1>2 DEF CopiesHoldKey
  <1>17. MacIsRight'
    BY <1>2, <1>11, <1>13 DEF MacIsRight
  <1> QED
    BY <1>14, <1>15, <1>16, <1>17 DEF HmacInv

-----------------------------------------------------------------------------
(***************************************************************************)
(* hmac_sha2.c: every behaviour keeps the invariant: types and lengths,    *)
(* what the contexts and their copies hold, and the code that is returned. *)
(***************************************************************************)
THEOREM HmacInvariant ==
    ASSUME DigestBytes
    PROVE  Spec => []HmacInv
  <1>1. Init => HmacInv
    <2> SUFFICES ASSUME Init PROVE HmacInv
      OBVIOUS
    <2>1. algorithm \in Algorithms /\ init(algorithm) \in Contexts(algorithm)
      BY InitAbsorbs DEF Init
    <2>2. <<>> \in Seq(Byte) /\ Len(<<>>) <= MaxMessage
      BY LengthAssumption
    <2>3. TypeOK
      BY <2>1, <2>2 DEF Init, TypeOK
    <2> QED
      BY <2>3 DEF Init, HmacInv, ContextsHoldMessage, CopiesHoldKey, MacIsRight
  <1>2. HmacInv /\ [Next]_vars => HmacInv'
    <2> SUFFICES ASSUME HmacInv, [Next]_vars PROVE HmacInv'
      OBVIOUS
    <2>1. CASE Next
      <3>1. PICK a \in Algorithms :
               \/ \E k \in Keys : InitStep(a, k)
               \/ hmac_reinit(a)
               \/ \E piece \in Pieces : UpdateStep(a, piece)
               \/ \E size \in MacSizes : FinalStep(a, size)
        BY <2>1, StepsOfAnAlgorithm
      <3>2. CASE \E k \in Keys : InitStep(a, k)
        BY <3>2, InitialisingIsSound
      <3>3. CASE hmac_reinit(a)
        BY <3>3, ReinitialisingIsSound
      <3>4. CASE \E piece \in Pieces : UpdateStep(a, piece)
        BY <3>4, AddingIsSound
      <3>5. CASE \E size \in MacSizes : FinalStep(a, size)
        BY <3>5, EndingIsSound
      <3> QED
        BY <3>1, <3>2, <3>3, <3>4, <3>5
    <2>2. CASE UNCHANGED vars
      BY <2>2 DEF vars, HmacInv, TypeOK, ContextsHoldMessage, CopiesHoldKey, MacIsRight
    <2> QED
      BY <2>1, <2>2
  <1> QED
    BY <1>1, <1>2, PTL DEF Spec

(***************************************************************************)
(* The contexts keep the types and the sizes of the algorithm's            *)
(* structures, with every call of hmac_sha2.c.                             *)
(***************************************************************************)
THEOREM HmacTypeCorrect ==
    ASSUME DigestBytes
    PROVE  Spec => []TypeOK
  <1>1. HmacInv => TypeOK
    BY DEF HmacInv
  <1> QED
    BY <1>1, HmacInvariant, PTL

(***************************************************************************)
(* hmac_sha256_final and its copies return the HMAC of the message under   *)
(* the key, cut to the size asked for, in whatever pieces it came and      *)
(* whatever the context was used for before.                               *)
(***************************************************************************)
THEOREM CodesAreRight ==
    ASSUME DigestBytes
    PROVE  Spec => []MacIsRight
  <1>1. HmacInv => MacIsRight
    BY DEF HmacInv
  <1> QED
    BY <1>1, HmacInvariant, PTL

(***************************************************************************)
(* Between the calls of hmac_sha256_update and its copies no byte of the   *)
(* message is lost, doubled or out of place.                               *)
(***************************************************************************)
THEOREM ContextsAreRight ==
    ASSUME DigestBytes
    PROVE  Spec => []ContextsHoldMessage
  <1>1. HmacInv => ContextsHoldMessage
    BY DEF HmacInv
  <1> QED
    BY <1>1, HmacInvariant, PTL

(***************************************************************************)
(* What hmac_sha256_reinit and its copies restore is the state after the   *)
(* current key, at any time.                                               *)
(***************************************************************************)
THEOREM CopiesAreRight ==
    ASSUME DigestBytes
    PROVE  Spec => []CopiesHoldKey
  <1>1. HmacInv => CopiesHoldKey
    BY DEF HmacInv
  <1> QED
    BY <1>1, HmacInvariant, PTL
===============================================================================
