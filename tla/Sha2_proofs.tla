------------------------------ MODULE Sha2_proofs ------------------------------
(***************************************************************************)
(* Sha2: for all messages and all ways to cut them into pieces, a context  *)
(* holds what was added, and final compresses the padding of FIPS 180-2.   *)
(***************************************************************************)
EXTENDS Sha2, SequenceTheorems, TLAPS

-----------------------------------------------------------------------------
\* Division by the size of a block.
LEMMA SmallMod == ASSUME NEW m \in Nat, NEW n \in Nat, n < m PROVE n % m = n
  BY SMT

LEMMA WholeBlocks ==
    ASSUME NEW b \in {64, 128}, NEW n \in Nat
    PROVE  /\ n \div b \in Nat
           /\ n % b \in 0..(b - 1)
           /\ n = (n \div b) * b + (n % b)
  <1>1. CASE b = 64
    BY <1>1, SMT
  <1>2. CASE b = 128
    BY <1>2, SMT
  <1> QED
    BY <1>1, <1>2

\* The sizes of the four algorithms.
LEMMA Sizes ==
    ASSUME NEW a \in Algorithms
    PROVE  /\ a.block \in {64, 128}
           /\ a.length \in Nat /\ 8 <= a.length /\ 2 * a.length < a.block
           /\ a.digest \in 28..64
  <1>1. CASE a = SHA224
    BY <1>1 DEF SHA224
  <1>2. CASE a = SHA256
    BY <1>2 DEF SHA256
  <1>3. CASE a = SHA384
    BY <1>3 DEF SHA384
  <1>4. CASE a = SHA512
    BY <1>4 DEF SHA512
  <1> QED
    BY <1>1, <1>2, <1>3, <1>4 DEF Algorithms

-----------------------------------------------------------------------------
\* transf appends the blocks to what was compressed.
LEMMA TransfAppends ==
    ASSUME NEW a \in Algorithms, NEW h \in [start : {a.name}, bytes : Seq(Cell)],
           NEW s \in Seq(Cell), NEW k \in Nat, k * a.block <= Len(s)
    PROVE  /\ transf(a, h, s, k) \in [start : {a.name}, bytes : Seq(Cell)]
           /\ Len(transf(a, h, s, k).bytes) = Len(h.bytes) + k * a.block
           /\ \A i \in 1..Len(h.bytes) : transf(a, h, s, k).bytes[i] = h.bytes[i]
           /\ \A i \in 1..(k * a.block) :
                transf(a, h, s, k).bytes[Len(h.bytes) + i] = s[i]
  <1> DEFINE n == k * a.block
             t == SubSeq(s, 1, n)
  <1>1. n \in Nat /\ n <= Len(s) /\ a.block \in Nat
    BY Sizes
  <1>2. t \in Seq(Cell) /\ Len(t) = n /\ \A i \in 1..n : t[i] = s[i]
    <2>1. 1 \in 1..(Len(s) + 1) /\ n \in (1 - 1)..Len(s)
      BY <1>1
    <2> HIDE DEF n
    <2> QED
      BY <2>1, <1>1, SubSeqProperties
  <1>3. transf(a, h, s, k) = [start |-> h.start, bytes |-> h.bytes \o t]
    BY DEF transf
  <1> DEFINE u == h.bytes
  <1>5. u \in Seq(Cell) /\ Len(u) \in Nat /\ h.start = a.name
    BY LenProperties DEF u
  <1> HIDE DEF n, t, u
  <1>4. /\ u \o t \in Seq(Cell)
        /\ Len(u \o t) = Len(u) + n
        /\ \A i \in 1..(Len(u) + n) :
             (u \o t)[i] = IF i <= Len(u) THEN u[i] ELSE t[i - Len(u)]
    BY <1>1, <1>2, <1>5, ConcatProperties
  <1> QED
    BY <1>1, <1>2, <1>3, <1>4, <1>5 DEF n, u

-----------------------------------------------------------------------------
(***************************************************************************)
(* sha224_init and its copies: an initialised context has absorbed the     *)
(* empty message, whatever its buffer holds.                               *)
(***************************************************************************)
THEOREM InitAbsorbs ==
    ASSUME NEW a \in Algorithms
    PROVE  init(a) \in Contexts(a) /\ Absorbed(a, init(a), <<>>)
  <1>1. a.block \in {64, 128}
    BY Sizes
  <1>2. <<>> \in Seq(Cell) /\ Len(<<>>) = 0
    OBVIOUS
  <1>3. init(a) \in Contexts(a)
    BY <1>1, <1>2 DEF init, Contexts, Cell
  <1>4. 0 % a.block = 0
    BY <1>1, WholeBlocks, SmallMod
  <1> QED
    BY <1>1, <1>2, <1>3, <1>4 DEF init, Absorbed

LEMMA ContextFields ==
    ASSUME NEW a, NEW ctx \in Contexts(a)
    PROVE  /\ ctx.len \in Nat /\ ctx.tot_len \in Nat
           /\ ctx.block \in [1..(2 * a.block) -> Cell]
           /\ ctx.h \in [start : {a.name}, bytes : Seq(Cell)]
           /\ ctx.h.bytes \in Seq(Cell)
           /\ ctx = [len |-> ctx.len, tot_len |-> ctx.tot_len,
                     block |-> ctx.block, h |-> ctx.h]
  BY DEF Contexts

LEMMA JoinedBytes ==
    ASSUME NEW data \in Seq(Byte), NEW piece \in Seq(Byte)
    PROVE  /\ data \o piece \in Seq(Byte)
           /\ Len(data \o piece) = Len(data) + Len(piece)
           /\ \A i \in 1..Len(data) : (data \o piece)[i] = data[i]
           /\ \A i \in 1..Len(piece) : (data \o piece)[Len(data) + i] = piece[i]
  <1>1. Len(data) \in Nat /\ Len(piece) \in Nat
    BY LenProperties
  <1> QED
    BY <1>1, ConcatProperties

\* The first n cells are the bytes of data from one index on.
Holds(cells, n, data, done) == \A i \in 1..n : cells[i] = data[done + i]

\* The buffer continues with the start of the piece.
LEMMA FilledBuffer ==
    ASSUME NEW size \in Nat, NEW block \in [1..size -> Cell],
           NEW data \in Seq(Byte), NEW piece \in Seq(Byte),
           NEW done \in Nat, NEW at \in Nat, NEW k \in 0..Len(piece),
           Len(data) = done + at, at + k <= size, Holds(block, at, data, done)
    PROVE  /\ memcpy(block, at, piece, k) \in [1..size -> Cell]
           /\ Holds(memcpy(block, at, piece, k), at + k, data \o piece, done)
  <1>1. piece \in Seq(Cell) /\ Len(piece) \in Nat /\ k \in Nat
    BY SeqMonotonic, LenProperties DEF Cell
  <1>2. /\ memcpy(block, at, piece, k) \in [1..size -> Cell]
        /\ \A i \in 1..size : memcpy(block, at, piece, k)[i] =
             IF at < i /\ i <= at + k THEN piece[i - at] ELSE block[i]
    <2>1. \A i \in 1..size : at < i /\ i <= at + k => piece[i - at] \in Cell
      BY <1>1, ElementOfSeq
    <2> QED
      BY <2>1, <1>1 DEF memcpy
  <1> SUFFICES ASSUME NEW i \in 1..(at + k)
               PROVE  memcpy(block, at, piece, k)[i] = (data \o piece)[done + i]
    BY <1>2 DEF Holds
  <1>3. CASE i <= at
    <2>1. done + i \in 1..Len(data) /\ i \in 1..size /\ i \in 1..at
      BY <1>1, <1>3
    <2> QED
      BY <2>1, <1>2, <1>3, JoinedBytes DEF Holds
  <1>4. CASE at < i
    <2> DEFINE j == i - at
    <2>1. j \in 1..Len(piece) /\ i \in 1..size /\ done + i = Len(data) + j /\ i <= at + k
      BY <1>1, <1>4
    <2>2. memcpy(block, at, piece, k)[i] = piece[j]
      BY ONLY <2>1, <1>2, <1>4
    <2> HIDE DEF j
    <2>3. (data \o piece)[Len(data) + j] = piece[j]
      BY ONLY <2>1, data \in Seq(Byte), piece \in Seq(Byte), JoinedBytes
    <2> QED
      BY ONLY <2>1, <2>2, <2>3
  <1>5. i <= at \/ at < i
    <2>1. i \in Nat /\ at \in Nat
      BY ONLY <1>1, at \in Nat, i \in 1..(at + k)
    <2> QED
      BY ONLY <2>1
  <1> QED
    BY ONLY <1>3, <1>4, <1>5

\* A piece that leaves room in the buffer.
LEMMA FittingPiece ==
    ASSUME NEW a \in Algorithms, NEW ctx \in Contexts(a),
           NEW data \in Seq(Byte), NEW piece \in Seq(Byte),
           Absorbed(a, ctx, data), Len(data) + Len(piece) < UintLimit,
           ctx.len + Len(piece) < a.block
    PROVE  /\ update(a, ctx, piece) \in Contexts(a)
           /\ Absorbed(a, update(a, ctx, piece), data \o piece)
  <1> DEFINE b == a.block
             len == Len(piece)
             at == ctx.len
             done == ctx.tot_len
             block == ctx.block
             h == ctx.h
             both == data \o piece
             filled == memcpy(block, at, piece, len)
  <1>1. /\ b \in {64, 128} /\ b \in Nat /\ len \in Nat /\ at + len < b
        /\ UintLimit \in Nat /\ b < UintLimit
    BY Sizes, LimitAssumption, LenProperties
  <1>2. at \in Nat /\ done \in Nat /\ Len(data) = done + at
    BY ContextFields DEF Absorbed
  <1>3. /\ h.start = a.name /\ done = Len(h.bytes) /\ done % b = 0
        /\ \A i \in 1..done : h.bytes[i] = data[i]
        /\ \A i \in 1..at : block[i] = data[done + i]
    BY DEF Absorbed
  <1>4. block \in [1..(2 * b) -> Cell] /\ h \in [start : {a.name}, bytes : Seq(Cell)]
    BY ContextFields
  <1>5. (at + len) % UintLimit = at + len => Fits(a, ctx, len)
    BY <1>1 DEF Fits
  <1>6. Len(both) = Len(data) + len
    BY JoinedBytes
  <1> HIDE DEF b, len, at, done, block, h, both, filled
  <1>7. (at + len) % UintLimit = at + len /\ len < b - at
    <2>1. at + len \in Nat /\ at + len < UintLimit
      BY <1>1, <1>2
    <2> QED
      BY <2>1, <1>1, <1>2, SmallMod
  <1>8. update(a, ctx, piece) =
          [len |-> at + len, tot_len |-> done, block |-> filled, h |-> h]
    BY <1>5, <1>7 DEF update, b, len, at, done, block, h, filled
  <1>9. /\ filled \in [1..(2 * b) -> Cell]
        /\ \A i \in 1..(at + len) : filled[i] = both[done + i]
    <2> DEFINE size == 2 * b
    <2>1. size \in Nat /\ at + len <= size
      BY <1>1, <1>2
    <2>2. len \in 0..Len(piece)
      BY <1>1 DEF len
    <2>3. block \in [1..size -> Cell] /\ Holds(block, at, data, done)
      BY <1>3, <1>4 DEF Holds
    <2> HIDE DEF size
    <2>4. /\ memcpy(block, at, piece, len) \in [1..size -> Cell]
          /\ Holds(memcpy(block, at, piece, len), at + len, data \o piece, done)
      BY <2>1, <2>2, <2>3, <1>2, FilledBuffer
    <2> QED
      BY <2>4 DEF filled, both, size, Holds
  <1>10. \A i \in 1..done : h.bytes[i] = both[i]
    <2>1. \A i \in 1..done : i \in 1..Len(data)
      BY <1>2
    <2> QED
      BY <2>1, <1>3, JoinedBytes DEF both
  <1>11. at + len \in 0..(b - 1) /\ Len(both) = done + (at + len)
    BY <1>1, <1>2, <1>6
  <1>12. update(a, ctx, piece) \in Contexts(a)
    BY <1>1, <1>2, <1>4, <1>8, <1>9 DEF Contexts, b
  <1>13. Absorbed(a, [len |-> at + len, tot_len |-> done, block |-> filled, h |-> h], both)
    BY <1>3, <1>9, <1>10, <1>11 DEF Absorbed, b
  <1> QED
    BY <1>8, <1>12, <1>13 DEF both

\* The part of a piece from one index on.
LEMMA PieceFrom ==
    ASSUME NEW piece \in Seq(Byte), NEW from \in Nat, NEW n \in Nat,
           Len(piece) = from + n
    PROVE  /\ SubSeq(piece, from + 1, Len(piece)) \in Seq(Byte)
           /\ Len(SubSeq(piece, from + 1, Len(piece))) = n
           /\ Holds(SubSeq(piece, from + 1, Len(piece)), n, piece, from)
  <1> DEFINE m == from + 1
             to == Len(piece)
  <1>1. m \in Int /\ to \in Int /\ (\A i \in m..to : piece[i] \in Byte)
    BY ElementOfSeq, LenProperties
  <1> HIDE DEF m, to
  <1>2. /\ SubSeq(piece, m, to) \in Seq(Byte)
        /\ Len(SubSeq(piece, m, to)) = IF m <= to THEN to - m + 1 ELSE 0
        /\ \A i \in 1..(to - m + 1) : SubSeq(piece, m, to)[i] = piece[m + i - 1]
    BY <1>1, SubSeqProperties
  <1>3. to - m + 1 = n /\ (IF m <= to THEN to - m + 1 ELSE 0) = n
    BY DEF m, to
  <1>4. \A i \in 1..n : m + i - 1 = from + i
    BY DEF m
  <1> QED
    BY <1>2, <1>3, <1>4 DEF m, to, Holds

LEMMA SkippedBytes ==
    ASSUME NEW data \in Seq(Byte), NEW piece \in Seq(Byte),
           NEW done \in Nat, NEW at \in Nat, NEW skip \in Nat, NEW n \in Nat, NEW cells,
           Len(data) = done + at, skip + n <= Len(piece), Holds(cells, n, piece, skip)
    PROVE  Holds(cells, n, data \o piece, done + at + skip)
  <1> SUFFICES ASSUME NEW i \in 1..n
               PROVE  cells[i] = (data \o piece)[done + at + skip + i]
    BY DEF Holds
  <1>1. skip + i \in 1..Len(piece) /\ done + at + skip + i = Len(data) + (skip + i)
    BY LenProperties
  <1>2. cells[i] = piece[skip + i]
    BY DEF Holds
  <1> QED
    BY <1>1, <1>2, JoinedBytes

\* What is left after w bytes goes to the start of the buffer.
LEMMA RestOfPiece ==
    ASSUME NEW both \in Seq(Byte), NEW shifted \in Seq(Byte), NEW w \in Nat,
           NEW rest \in Nat, NEW from \in Nat, NEW size \in Nat,
           NEW filled \in [1..size -> Cell],
           Len(shifted) = w + rest, rest <= size, Holds(shifted, w + rest, both, from)
    PROVE  LET left == SubSeq(shifted, w + 1, Len(shifted))
           IN  /\ memcpy(filled, 0, left, rest) \in [1..size -> Cell]
               /\ Holds(memcpy(filled, 0, left, rest), rest, both, from + w)
  <1> DEFINE left == SubSeq(shifted, w + 1, Len(shifted))
  <1>1. left \in Seq(Byte) /\ Len(left) = rest /\ Holds(left, rest, shifted, w)
    BY PieceFrom
  <1> HIDE DEF left
  <1>2. \A i \in 1..rest : left[i] \in Cell /\ left[i] = both[from + w + i]
    <2> SUFFICES ASSUME NEW i \in 1..rest
                 PROVE  left[i] \in Cell /\ left[i] = both[from + w + i]
      OBVIOUS
    <2>1. w + i \in 1..(w + rest) /\ from + (w + i) = from + w + i
      OBVIOUS
    <2>2. left[i] = shifted[w + i] /\ shifted[w + i] = both[from + (w + i)]
      BY <2>1, <1>1 DEF Holds
    <2>3. left[i] \in Byte
      BY <1>1, ElementOfSeq
    <2> QED
      BY <2>1, <2>2, <2>3 DEF Cell
  <1>3. \A i \in 1..size : memcpy(filled, 0, left, rest)[i] =
           IF i <= rest THEN left[i] ELSE filled[i]
    BY DEF memcpy
  <1>4. memcpy(filled, 0, left, rest) \in [1..size -> Cell]
    <2>1. \A i \in 1..size : 0 < i /\ i <= 0 + rest => left[i - 0] \in Cell
      BY <1>2
    <2> QED
      BY <2>1 DEF memcpy
  <1>5. \A i \in 1..rest : i \in 1..size /\ i <= rest
    OBVIOUS
  <1> QED
    BY <1>2, <1>3, <1>4, <1>5 DEF Holds, left

\* A piece fills the buffer; whole blocks of w bytes follow, and the rest.
Overflows(b, w, block, data, piece, done, at, r, rest) ==
    /\ b \in Nat /\ w \in Nat /\ done \in Nat /\ at \in Nat /\ r \in Nat /\ rest \in Nat
    /\ data \in Seq(Byte) /\ piece \in Seq(Byte)
    /\ block \in [1..(2 * b) -> Cell]
    /\ Len(data) = done + at /\ at + r = b
    /\ Len(piece) = r + (w + rest) /\ rest < b
    /\ Holds(block, at, data, done)

LEMMA OverflowingBytes ==
    ASSUME NEW b, NEW w, NEW block, NEW data, NEW piece,
           NEW done, NEW at, NEW r, NEW rest,
           Overflows(b, w, block, data, piece, done, at, r, rest)
    PROVE  LET filled  == memcpy(block, at, piece, r)
               shifted == SubSeq(piece, r + 1, Len(piece))
               left    == SubSeq(shifted, w + 1, Len(shifted))
           IN
           /\ filled \in [1..(2 * b) -> Cell]
           /\ Holds(filled, b, data \o piece, done)
           /\ shifted \in Seq(Byte) /\ Len(shifted) = w + rest
           /\ Holds(shifted, w + rest, data \o piece, done + b)
           /\ memcpy(filled, 0, left, rest) \in [1..(2 * b) -> Cell]
           /\ Holds(memcpy(filled, 0, left, rest), rest, data \o piece, done + b + w)
  <1>0. /\ b \in Nat /\ w \in Nat /\ done \in Nat /\ at \in Nat /\ r \in Nat /\ rest \in Nat
        /\ data \in Seq(Byte) /\ piece \in Seq(Byte)
        /\ block \in [1..(2 * b) -> Cell]
        /\ Len(data) = done + at /\ at + r = b
        /\ Len(piece) = r + (w + rest) /\ rest < b
        /\ Holds(block, at, data, done)
    BY DEF Overflows
  <1> USE <1>0
  <1> DEFINE both == data \o piece
             size == 2 * b
             filled == memcpy(block, at, piece, r)
             shifted == SubSeq(piece, r + 1, Len(piece))
             left == SubSeq(shifted, w + 1, Len(shifted))
  <1>1. size \in Nat /\ r \in 0..Len(piece) /\ at + r <= size /\ w + rest \in Nat
    OBVIOUS
  <1>2. filled \in [1..size -> Cell] /\ Holds(filled, b, both, done)
    <2> HIDE DEF size
    <2>1. /\ memcpy(block, at, piece, r) \in [1..size -> Cell]
          /\ Holds(memcpy(block, at, piece, r), at + r, data \o piece, done)
      BY <1>1, FilledBuffer DEF size
    <2> QED
      BY <2>1
  <1>3. shifted \in Seq(Byte) /\ Len(shifted) = w + rest /\ Holds(shifted, w + rest, piece, r)
    BY <1>1, PieceFrom
  <1>4. Holds(shifted, w + rest, both, done + b)
    <2>1. Holds(shifted, w + rest, both, done + at + r)
      BY <1>1, <1>3, SkippedBytes
    <2>2. done + at + r = done + b
      OBVIOUS
    <2> HIDE DEF both
    <2> QED
      BY <2>1, <2>2, Zenon
  <1>5. both \in Seq(Byte) /\ done + b \in Nat /\ rest <= size
    BY JoinedBytes
  <1> HIDE DEF both, size, filled, shifted
  <1>6. /\ memcpy(filled, 0, left, rest) \in [1..size -> Cell]
        /\ Holds(memcpy(filled, 0, left, rest), rest, both, done + b + w)
    <2> DEFINE from == done + b
    <2>1. from \in Nat /\ Holds(shifted, w + rest, both, from)
      BY <1>4
    <2> HIDE DEF from
    <2>2. /\ memcpy(filled, 0, left, rest) \in [1..size -> Cell]
          /\ Holds(memcpy(filled, 0, left, rest), rest, both, from + w)
      BY <2>1, <1>1, <1>2, <1>3, <1>5, RestOfPiece
    <2> QED
      BY <2>2 DEF from
  <1> QED
    BY <1>2, <1>3, <1>4, <1>6 DEF both, size, filled, shifted

\* h has compressed the first bytes of both; s holds n bytes, k blocks, after them.
Continues(a, h, s, k, n, both, done) ==
    /\ h \in [start : {a.name}, bytes : Seq(Cell)]
    /\ s \in Seq(Cell) /\ both \in Seq(Byte)
    /\ k \in Nat /\ n \in Nat /\ done \in Nat
    /\ n = k * a.block /\ n <= Len(s)
    /\ Len(h.bytes) = done
    /\ Holds(h.bytes, done, both, 0)
    /\ Holds(s, n, both, done)

LEMMA TransfHolds ==
    ASSUME NEW a \in Algorithms, NEW h, NEW s, NEW k, NEW n, NEW both, NEW done,
           Continues(a, h, s, k, n, both, done)
    PROVE  /\ transf(a, h, s, k) \in [start : {a.name}, bytes : Seq(Cell)]
           /\ Len(transf(a, h, s, k).bytes) = done + n
           /\ Holds(transf(a, h, s, k).bytes, done + n, both, 0)
  <1>0. /\ h \in [start : {a.name}, bytes : Seq(Cell)]
        /\ s \in Seq(Cell) /\ both \in Seq(Byte)
        /\ k \in Nat /\ n \in Nat /\ done \in Nat
        /\ n = k * a.block /\ n <= Len(s)
        /\ Len(h.bytes) = done
        /\ Holds(h.bytes, done, both, 0)
        /\ Holds(s, n, both, done)
    BY DEF Continues
  <1> USE <1>0
  <1> DEFINE t == transf(a, h, s, k)
             u == h.bytes
             v == t.bytes
  <1>1. /\ t \in [start : {a.name}, bytes : Seq(Cell)]
        /\ Len(v) = Len(u) + k * a.block
        /\ \A i \in 1..Len(u) : v[i] = u[i]
        /\ \A i \in 1..(k * a.block) : v[Len(u) + i] = s[i]
    BY TransfAppends
  <1> HIDE DEF t, u, v
  <1>2. Len(u) = done /\ Holds(u, done, both, 0)
    BY DEF u
  <1>3. /\ Len(v) = done + n
        /\ \A i \in 1..done : v[i] = u[i]
        /\ \A i \in 1..n : v[done + i] = s[i]
    BY <1>1, <1>2
  <1>4. \A i \in 1..(done + n) : v[i] = both[0 + i]
    <2> SUFFICES ASSUME NEW i \in 1..(done + n)
                 PROVE  v[i] = both[i]
      OBVIOUS
    <2>1. CASE i <= done
      <3>1. i \in 1..done
        BY <2>1
      <3> QED
        BY <3>1, <1>2, <1>3 DEF Holds
    <2>2. CASE done < i
      <3>1. i - done \in 1..n /\ done + (i - done) = i
        BY <2>2
      <3>2. s[i - done] = both[done + (i - done)]
        BY <3>1 DEF Holds
      <3> QED
        BY <3>1, <3>2, <1>3
    <2> QED
      BY <2>1, <2>2
  <1> QED
    BY <1>1, <1>3, <1>4 DEF t, v, Holds

\* A piece that fills the buffer.
LEMMA FillingPiece ==
    ASSUME NEW a \in Algorithms, NEW ctx \in Contexts(a),
           NEW data \in Seq(Byte), NEW piece \in Seq(Byte),
           Absorbed(a, ctx, data), Len(data) + Len(piece) < UintLimit,
           a.block <= ctx.len + Len(piece)
    PROVE  /\ update(a, ctx, piece) \in Contexts(a)
           /\ Absorbed(a, update(a, ctx, piece), data \o piece)
  <1> DEFINE b == a.block
             len == Len(piece)
             at == ctx.len
             done == ctx.tot_len
             block == ctx.block
             h == ctx.h
             both == data \o piece
             r == b - at
             new_len == len - r
             k == new_len \div b
             w == k * b
             rest == new_len % b
             filled == memcpy(block, at, piece, r)
             shifted == SubSeq(piece, r + 1, len)
             left == SubSeq(shifted, w + 1, new_len)
             first == transf(a, h, filled, 1)
             second == transf(a, first, shifted, k)
             last == memcpy(filled, 0, left, rest)
  <1>1. /\ b \in {64, 128} /\ b \in Nat /\ len \in Nat /\ b <= at + len
        /\ UintLimit \in Nat /\ Len(data) + len < UintLimit
    BY Sizes, LimitAssumption, LenProperties
  <1>2. at \in 0..(b - 1) /\ at \in Nat /\ done \in Nat /\ Len(data) = done + at
    BY ContextFields DEF Absorbed
  <1>3. /\ h.start = a.name /\ done = Len(h.bytes) /\ done % b = 0
        /\ Holds(h.bytes, done, data, 0) /\ Holds(block, at, data, done)
    BY DEF Absorbed, Holds
  <1>4. block \in [1..(2 * b) -> Cell] /\ h \in [start : {a.name}, bytes : Seq(Cell)]
    BY ContextFields
  <1>5. both \in Seq(Byte) /\ Len(both) = Len(data) + len
    BY JoinedBytes
  <1>6. Fits(a, ctx, len) <=> (at + len) % UintLimit < b
    BY DEF Fits
  <1> HIDE DEF b, len, at, done, block, h, both
  <1>7. r \in Nat /\ at + r = b /\ ~(len < r) /\ new_len \in Nat /\ len = r + new_len
    BY <1>1, <1>2
  <1>8. ~Fits(a, ctx, len)
    <2>1. at + len \in Nat /\ at + len < UintLimit
      BY <1>1, <1>2
    <2>2. (at + len) % UintLimit = at + len
      BY <2>1, <1>1, SmallMod
    <2> QED
      BY <2>1, <2>2, <1>1, <1>6
  <1> HIDE DEF r, new_len
  <1>9. k \in Nat /\ rest \in Nat /\ rest < b /\ rest \in 0..(b - 1) /\ new_len = w + rest /\ w \in Nat
    BY <1>1, <1>7, WholeBlocks
  <1> HIDE DEF k, rest
  <1>10. (k + 1) * b = b + w /\ (done + (k + 1) * b) % b = 0
    <2>1. b \in {64, 128} /\ done \in Nat /\ done % b = 0 /\ k \in Nat
      BY <1>1, <1>2, <1>3, <1>9
    <2>2. (k + 1) * b = b + k * b /\ (done + (k + 1) * b) % b = 0
      <3>1. CASE b = 64
        BY <2>1, <3>1
      <3>2. CASE b = 128
        BY <2>1, <3>2
      <3> QED
        BY <2>1, <3>1, <3>2
    <2> QED
      BY <2>2 DEF w
  <1> HIDE DEF w, filled, shifted, left, first, second, last
  <1>11. (done + (k + 1) * b) % UintLimit = done + b + w
    <2>1. /\ done + b + w \in Nat /\ done + b + w < UintLimit
          /\ done + (k + 1) * b = done + b + w
      BY <1>1, <1>2, <1>7, <1>9, <1>10
    <2> QED
      BY <2>1, <1>1, SmallMod
  <1>12. update(a, ctx, piece) =
           [len |-> rest, tot_len |-> done + b + w, block |-> last, h |-> second]
    BY <1>7, <1>8, <1>11 DEF update, b, len, at, done, block, h, r, new_len, k, w, rest,
         filled, shifted, left, first, second, last
  <1>13. /\ filled \in [1..(2 * b) -> Cell] /\ Holds(filled, b, both, done)
         /\ shifted \in Seq(Byte) /\ Len(shifted) = w + rest
         /\ Holds(shifted, w + rest, both, done + b)
         /\ last \in [1..(2 * b) -> Cell] /\ Holds(last, rest, both, done + b + w)
    <2>1. len = Len(piece) /\ len = r + (w + rest)
      BY <1>7, <1>9 DEF len
    <2>2. Overflows(b, w, block, data, piece, done, at, r, rest)
      BY <2>1, <1>1, <1>2, <1>3, <1>4, <1>7, <1>9 DEF Overflows
    <2>3. shifted = SubSeq(piece, r + 1, Len(piece))
      BY <2>1 DEF shifted
    <2>4. Len(shifted) = new_len
      BY <2>2, <2>3, <1>9, OverflowingBytes
    <2>5. left = SubSeq(shifted, w + 1, Len(shifted))
      BY <2>4 DEF left
    <2> QED
      BY <2>2, <2>3, <2>5, OverflowingBytes DEF filled, last, both
  <1>14. /\ first \in [start : {a.name}, bytes : Seq(Cell)]
         /\ Len(first.bytes) = done + b /\ Holds(first.bytes, done + b, both, 0)
    <2>1. filled \in Seq(Cell) /\ Len(filled) = 2 * b
      BY <1>1, <1>13
    <2>2. b = 1 * a.block /\ b <= Len(filled)
      BY <2>1, <1>1 DEF b
    <2>3. Holds(h.bytes, done, both, 0)
      <3>1. \A i \in 1..done : i \in 1..Len(data) /\ 0 + i = i
        BY <1>2
      <3> QED
        BY <3>1, <1>3, JoinedBytes DEF Holds, both
    <2>4. 1 \in Nat /\ b \in Nat /\ Len(h.bytes) = done /\ Holds(filled, b, both, done)
      BY <1>1, <1>3, <1>13
    <2>5. /\ transf(a, h, filled, 1) \in [start : {a.name}, bytes : Seq(Cell)]
          /\ Len(transf(a, h, filled, 1).bytes) = done + b
          /\ Holds(transf(a, h, filled, 1).bytes, done + b, both, 0)
      <3>1. Continues(a, h, filled, 1, b, both, done)
        BY <2>1, <2>2, <2>3, <2>4, <1>2, <1>4, <1>5 DEF Continues
      <3> QED
        BY <3>1, TransfHolds
    <2> QED
      BY <2>5 DEF first
  <1>15. /\ second \in [start : {a.name}, bytes : Seq(Cell)]
         /\ Len(second.bytes) = done + b + w /\ Holds(second.bytes, done + b + w, both, 0)
    <2> DEFINE more == done + b
    <2>1. shifted \in Seq(Cell) /\ w <= Len(shifted) /\ more \in Nat
      BY <1>1, <1>2, <1>9, <1>13, SeqMonotonic DEF Cell
    <2>2. Len(first.bytes) = more /\ Holds(first.bytes, more, both, 0)
      BY <1>14
    <2>3. Holds(shifted, w, both, more)
      <3>1. \A i \in 1..w : i \in 1..(w + rest)
        BY <1>9
      <3>2. Holds(shifted, w + rest, both, more)
        BY <1>13
      <3> HIDE DEF more
      <3> QED
        BY <3>1, <3>2 DEF Holds
    <2>4. w = k * a.block
      BY DEF w, b
    <2> HIDE DEF more
    <2>5. /\ transf(a, first, shifted, k) \in [start : {a.name}, bytes : Seq(Cell)]
          /\ Len(transf(a, first, shifted, k).bytes) = more + w
          /\ Holds(transf(a, first, shifted, k).bytes, more + w, both, 0)
      <3>1. Continues(a, first, shifted, k, w, both, more)
        BY <2>1, <2>2, <2>3, <2>4, <1>5, <1>9, <1>14 DEF Continues
      <3> QED
        BY <3>1, TransfHolds
    <2> QED
      BY <2>5 DEF second, more
  <1>16. [len |-> rest, tot_len |-> done + b + w, block |-> last, h |-> second] \in Contexts(a)
    BY <1>1, <1>2, <1>9, <1>13, <1>15 DEF Contexts, b
  <1>17. Absorbed(a, [len |-> rest, tot_len |-> done + b + w, block |-> last, h |-> second], both)
    <2>1. Len(both) = done + b + w + rest
      BY <1>1, <1>2, <1>5, <1>7, <1>9
    <2>2. (done + b + w) % b = 0
      BY <1>1, <1>2, <1>9, <1>10
    <2> QED
      BY <2>1, <2>2, <1>9, <1>13, <1>15 DEF Absorbed, Holds, b
  <1> QED
    BY <1>12, <1>16, <1>17 DEF both

(***************************************************************************)
(* sha224_update and its copies, for every message and every way to cut    *)
(* it: what the context has absorbed, and the piece after it.  This needs  *)
(* the message to be shorter than unsigned int counts.                     *)
(***************************************************************************)
THEOREM UpdateAbsorbs ==
    ASSUME NEW a \in Algorithms, NEW ctx \in Contexts(a),
           NEW data \in Seq(Byte), NEW piece \in Seq(Byte),
           Absorbed(a, ctx, data), Len(data) + Len(piece) < UintLimit
    PROVE  /\ update(a, ctx, piece) \in Contexts(a)
           /\ Absorbed(a, update(a, ctx, piece), data \o piece)
  <1>1. ctx.len + Len(piece) < a.block \/ a.block <= ctx.len + Len(piece)
    BY Sizes, ContextFields, LenProperties
  <1>2. CASE ctx.len + Len(piece) < a.block
    BY <1>2, FittingPiece
  <1>3. CASE a.block <= ctx.len + Len(piece)
    BY <1>3, FillingPiece
  <1> QED
    BY <1>1, <1>2, <1>3

-----------------------------------------------------------------------------
LEMMA WordBytes ==
    ASSUME NEW x \in Nat
    PROVE  UNPACK32(x) \in Seq(Byte) /\ Len(UNPACK32(x)) = 4
  <1>1. \A n \in Nat : n % 256 \in Byte
    BY SMT DEF Byte
  <1>2. x \div 16777216 \in Nat /\ x \div 65536 \in Nat /\ x \div 256 \in Nat
    BY SMT
  <1> QED
    BY <1>1, <1>2 DEF UNPACK32

\* The zeros of the padding end it in the block final ends it in.
LEMMA ZerosFillBlocks ==
    ASSUME NEW a \in Algorithms, NEW ctx, ctx.len \in 0..(a.block - 1),
           NEW done \in Nat, done % a.block = 0
    PROVE  /\ LastBlocks(a, ctx) \in {1, 2}
           /\ PaddingZeros(a, done + ctx.len) \in Nat
           /\ ctx.len + 1 + PaddingZeros(a, done + ctx.len) + a.length
                = LastBlocks(a, ctx) * a.block
  <1> DEFINE b == a.block
             at == ctx.len
             l == a.length
             k == PaddingZeros(a, done + at)
             last == LastBlocks(a, ctx)
             Fills(z) == (done + at + 1 + z + l) % b = 0
  <1>1. b \in {64, 128} /\ b \in Nat /\ l \in Nat /\ 2 * l < b /\ at \in Nat /\ at < b
    BY Sizes
  <1>2. last = IF b - (l + 1) < at % b THEN 2 ELSE 1
    BY DEF LastBlocks
  <1>3. k = CHOOSE z \in 0..(b - 1) : Fills(z)
    BY DEF PaddingZeros
  <1> HIDE DEF b, at, l, k, last
  <1>4. at % b = at
    BY <1>1, SmallMod
  <1>5. \A z \in 0..(b - 1) : Fills(z) <=> at + 1 + z + l = last * b
    <2>1. CASE b = 64
      BY <2>1, <1>1, <1>2, <1>4 DEF b
    <2>2. CASE b = 128
      BY <2>2, <1>1, <1>2, <1>4 DEF b
    <2> QED
      BY <2>1, <2>2, <1>1
  <1>6. \E z \in 0..(b - 1) : Fills(z)
    <2> DEFINE z == last * b - (at + 1 + l)
    <2>1. z \in 0..(b - 1) /\ last * b \in Nat /\ at + 1 + z + l = last * b
      BY <1>1, <1>2, <1>4
    <2> HIDE DEF z, Fills
    <2>2. Fills(z)
      BY <2>1, <1>5
    <2> QED
      BY <2>1, <2>2
  <1> HIDE DEF Fills
  <1>7. k \in 0..(b - 1) /\ Fills(k)
    BY <1>3, <1>6
  <1> QED
    BY <1>1, <1>2, <1>5, <1>7 DEF b, at, l, k, last

\* The four parts of a padded message of n bytes.
PaddedParts(p, n, z, data, word) ==
    /\ p \in Seq(Byte) /\ Len(p) = n + z + 5
    /\ \A i \in 1..n : p[i] = data[i]
    /\ p[n + 1] = 128
    /\ \A i \in 1..z : p[n + 1 + i] = 0
    /\ \A i \in 1..4 : p[n + 1 + z + i] = word[i]

LEMMA PaddedBytes ==
    ASSUME NEW data \in Seq(Byte), NEW z \in Nat, NEW word \in Seq(Byte), Len(word) = 4
    PROVE  PaddedParts(data \o <<128>> \o Zeros(z) \o word, Len(data), z, data, word)
  <1> DEFINE n == Len(data)
             zs == Zeros(z)
             p1 == data \o <<128>>
             p2 == p1 \o zs
             p == p2 \o word
  <1>1. n \in Nat
    BY LenProperties
  <1>2. /\ p1 \in Seq(Byte) /\ Len(p1) = n + 1
        /\ \A i \in 1..n : p1[i] = data[i]
        /\ p1[n + 1] = 128
    <2>1. <<128>> \in Seq(Byte) /\ Len(<<128>>) = 1 /\ <<128>>[1] = 128
      BY DEF Byte
    <2> QED
      BY <2>1, <1>1, JoinedBytes
  <1>3. zs \in Seq(Byte) /\ Len(zs) = z /\ \A i \in 1..z : zs[i] = 0
    <2>1. \A i \in 1..z : 0 \in Byte
      BY DEF Byte
    <2> QED
      BY <2>1, IsASeq DEF Zeros
  <1> HIDE DEF zs, p1, n
  <1>4. /\ p2 \in Seq(Byte) /\ Len(p2) = n + 1 + z
        /\ \A i \in 1..(n + 1) : p2[i] = p1[i]
        /\ \A i \in 1..z : p2[n + 1 + i] = 0
    <2>1. /\ p2 \in Seq(Byte) /\ Len(p2) = Len(p1) + Len(zs)
          /\ \A i \in 1..Len(p1) : p2[i] = p1[i]
          /\ \A i \in 1..Len(zs) : p2[Len(p1) + i] = zs[i]
      <3>1. p1 \in Seq(Byte) /\ zs \in Seq(Byte)
        BY <1>2, <1>3
      <3> QED
        BY <3>1, JoinedBytes
    <2> HIDE DEF p2
    <2>2. Len(p1) = n + 1 /\ Len(zs) = z /\ \A i \in 1..z : zs[i] = 0
      BY <1>2, <1>3
    <2> QED
      BY <2>1, <2>2, <1>1
  <1> HIDE DEF p2
  <1>5. /\ p \in Seq(Byte) /\ Len(p) = n + 1 + z + 4
        /\ \A i \in 1..(n + 1 + z) : p[i] = p2[i]
        /\ \A i \in 1..4 : p[n + 1 + z + i] = word[i]
    <2>1. /\ p \in Seq(Byte) /\ Len(p) = Len(p2) + Len(word)
          /\ \A i \in 1..Len(p2) : p[i] = p2[i]
          /\ \A i \in 1..Len(word) : p[Len(p2) + i] = word[i]
      BY <1>4, JoinedBytes
    <2> HIDE DEF p
    <2> QED
      BY <2>1, <1>1, <1>4
  <1> HIDE DEF p
  <1>6. \A i \in 1..n : p[i] = data[i]
    <2>1. \A i \in 1..n : i \in 1..(n + 1) /\ i \in 1..(n + 1 + z)
      BY <1>1
    <2> QED
      BY <2>1, <1>2, <1>4, <1>5
  <1>7. p[n + 1] = 128
    <2>1. n + 1 \in 1..(n + 1) /\ n + 1 \in 1..(n + 1 + z)
      BY <1>1
    <2> QED
      BY <2>1, <1>2, <1>4, <1>5
  <1>8. \A i \in 1..z : p[n + 1 + i] = 0
    <2>1. \A i \in 1..z : n + 1 + i \in 1..(n + 1 + z)
      BY <1>1
    <2> QED
      BY <2>1, <1>4, <1>5
  <1>9. n + 1 + z + 4 = n + z + 5
    BY <1>1
  <1> QED
    BY <1>5, <1>6, <1>7, <1>8, <1>9 DEF PaddedParts, p, p2, p1, zs, n

\* What final writes into the buffer is the end of the padded message.
Ends(size, block, data, done, at, z, pm, word) ==
    /\ size \in Nat /\ done \in Nat /\ at \in Nat /\ z \in Nat /\ pm \in Nat
    /\ block \in [1..size -> Cell] /\ data \in Seq(Byte)
    /\ Len(data) = done + at /\ pm = at + z + 5 /\ pm <= size
    /\ Holds(block, at, data, done)
    /\ word \in Seq(Byte) /\ Len(word) = 4

LEMMA FinalBuffer ==
    ASSUME NEW size, NEW block, NEW data, NEW done, NEW at, NEW z, NEW pm, NEW word,
           Ends(size, block, data, done, at, z, pm, word)
    PROVE  LET zeroed == memset(block, at, 0, pm - at)
               marked == memset(zeroed, at, 128, 1)
               padded == memcpy(marked, pm - 4, word, 4)
           IN  /\ padded \in [1..size -> Cell]
               /\ Holds(padded, pm, data \o <<128>> \o Zeros(z) \o word, done)
  <1>0. /\ size \in Nat /\ done \in Nat /\ at \in Nat /\ z \in Nat /\ pm \in Nat
        /\ block \in [1..size -> Cell] /\ data \in Seq(Byte)
        /\ Len(data) = done + at /\ pm = at + z + 5 /\ pm <= size
        /\ Holds(block, at, data, done)
        /\ word \in Seq(Byte) /\ Len(word) = 4
    BY DEF Ends
  <1> USE <1>0
  <1> DEFINE zeroed == memset(block, at, 0, pm - at)
             marked == memset(zeroed, at, 128, 1)
             padded == memcpy(marked, pm - 4, word, 4)
             n == Len(data)
             p == data \o <<128>> \o Zeros(z) \o word
  <1>1. n \in Nat /\ n = done + at
    OBVIOUS
  <1>2. PaddedParts(p, n, z, data, word)
    BY PaddedBytes
  <1> HIDE DEF p, n
  <1>3. zeroed \in [1..size -> Cell] /\ \A i \in 1..size :
           zeroed[i] = IF at < i /\ i <= pm THEN 0 ELSE block[i]
    <2>1. at + (pm - at) = pm /\ 0 \in Cell
      BY DEF Cell, Byte
    <2> QED
      BY <2>1 DEF memset
  <1> HIDE DEF zeroed
  <1>4. marked \in [1..size -> Cell] /\ \A i \in 1..size :
           marked[i] = IF i = at + 1 THEN 128 ELSE zeroed[i]
    <2>1. 128 \in Cell /\ \A i \in 1..size : at < i /\ i <= at + 1 <=> i = at + 1
      BY DEF Cell, Byte
    <2> QED
      BY <2>1, <1>3 DEF memset
  <1> HIDE DEF marked
  <1>5. padded \in [1..size -> Cell] /\ \A i \in 1..size :
           padded[i] = IF pm - 4 < i /\ i <= pm THEN word[i - (pm - 4)] ELSE marked[i]
    <2>1. pm - 4 + 4 = pm
      OBVIOUS
    <2>2. \A i \in 1..size : pm - 4 < i /\ i <= pm => word[i - (pm - 4)] \in Cell
      <3>1. \A i \in 1..4 : word[i] \in Cell
        BY ElementOfSeq DEF Cell
      <3>2. \A i \in 1..size : pm - 4 < i /\ i <= pm => i - (pm - 4) \in 1..4
        OBVIOUS
      <3> QED
        BY <3>1, <3>2
    <2> QED
      BY <2>1, <2>2, <1>4 DEF memcpy
  <1> HIDE DEF padded
  <1>6. \A i \in 1..pm : padded[i] = p[done + i]
    <2> SUFFICES ASSUME NEW i \in 1..pm PROVE padded[i] = p[done + i]
      OBVIOUS
    <2>1. i \in 1..size /\ done + i \in Nat
      OBVIOUS
    <2>0. i \in Int /\ 1 <= i /\ i <= pm
      OBVIOUS
    <2>2. CASE i <= at
      <3>1. padded[i] = block[i] /\ i \in 1..at /\ done + i \in 1..n
        BY <2>1, <2>2, <1>1, <1>3, <1>4, <1>5
      <3> QED
        BY <3>1, <1>2 DEF Holds, PaddedParts
    <2>3. CASE i = at + 1
      <3>1. padded[i] = 128 /\ done + i = n + 1
        BY <2>1, <2>3, <1>1, <1>4, <1>5
      <3> QED
        BY <3>1, <1>2 DEF PaddedParts
    <2>4. CASE at + 1 < i /\ i <= pm - 4
      <3> DEFINE j == i - (at + 1)
      <3>1. padded[i] = 0 /\ j \in 1..z /\ done + i = n + 1 + j
        BY <2>1, <2>4, <1>1, <1>3, <1>4, <1>5
      <3> HIDE DEF j
      <3> QED
        BY <3>1, <1>2 DEF PaddedParts
    <2>5. CASE pm - 4 < i
      <3> DEFINE j == i - (pm - 4)
      <3>1. padded[i] = word[j]
        BY ONLY <2>0, <2>1, <2>5, <1>5
      <3>2. j \in 1..4 /\ done + i = n + 1 + z + j
        <4>1. i \in Int /\ 1 <= i /\ i <= pm
          BY ONLY <2>0
        <4>2. /\ at \in Nat /\ z \in Nat /\ done \in Nat /\ pm \in Nat
              /\ pm = at + z + 5 /\ n = done + at
          BY ONLY <1>0, <1>1
        <4>3. pm - i \in 0..3
          BY ONLY <4>1, <4>2, <2>5
        <4>4. j = 4 - (pm - i)
          BY ONLY <4>1, <4>2
        <4>5. j \in 1..4
          BY ONLY <4>3, <4>4
        <4>6. done + i = n + 1 + z + j
          BY ONLY <4>1, <4>2
        <4> QED
          BY ONLY <4>5, <4>6
      <3> HIDE DEF j
      <3>3. p[n + 1 + z + j] = word[j]
        BY ONLY <3>2, <1>2 DEF PaddedParts
      <3> QED
        BY ONLY <3>1, <3>2, <3>3
    <2> QED
      BY <2>2, <2>3, <2>4, <2>5
  <1> QED
    BY <1>5, <1>6 DEF padded, marked, zeroed, p, Holds

(***************************************************************************)
(* sha224_final and its copies: the digest of a context is that of the     *)
(* message it has absorbed, padded as FIPS 180-2 says.  This needs the     *)
(* length of the message in bits to be a number unsigned int counts.       *)
(***************************************************************************)
THEOREM FinalIsFIPS ==
    ASSUME NEW a \in Algorithms, NEW ctx \in Contexts(a), NEW data \in Seq(Byte),
           Absorbed(a, ctx, data), 8 * Len(data) < UintLimit
    PROVE  final(a, ctx).digest = FIPS(a, data) /\ final(a, ctx).ctx \in Contexts(a)
  <1> DEFINE b == a.block
             at == ctx.len
             done == ctx.tot_len
             block == ctx.block
             h == ctx.h
             l == a.length
             k == PaddingZeros(a, Len(data))
             z == k + l - 4
             last == LastBlocks(a, ctx)
             pm == last * b
             word == UNPACK32(8 * Len(data))
             p == data \o <<128>> \o Zeros(z) \o word
             zeroed == memset(block, at, 0, pm - at)
             marked == memset(zeroed, at, 128, 1)
             padded == memcpy(marked, pm - 4, word, 4)
             t == transf(a, h, padded, last)
  <1>1. b \in Nat /\ l \in Nat /\ 8 <= l /\ UintLimit \in Nat /\ Len(data) \in Nat
    BY Sizes, LimitAssumption, LenProperties
  <1>2. at \in 0..(b - 1) /\ at \in Nat /\ done \in Nat /\ Len(data) = done + at
    BY ContextFields DEF Absorbed
  <1>3. /\ h.start = a.name /\ done = Len(h.bytes) /\ done % b = 0
        /\ Holds(h.bytes, done, data, 0) /\ Holds(block, at, data, done)
    BY DEF Absorbed, Holds
  <1>4. block \in [1..(2 * b) -> Cell] /\ h \in [start : {a.name}, bytes : Seq(Cell)]
    BY ContextFields
  <1>5. last \in {1, 2} /\ k \in Nat /\ at + 1 + k + l = last * b
    BY <1>2, <1>3, ZerosFillBlocks
  <1>6. ((done + at) * 8) % UintLimit = 8 * Len(data)
    <2>1. (done + at) * 8 = 8 * Len(data) /\ 8 * Len(data) \in Nat
      BY <1>1, <1>2
    <2> QED
      BY <2>1, <1>1, SmallMod
  <1>7. word \in Seq(Byte) /\ Len(word) = 4
    BY <1>1, WordBytes
  <1>8. Padded(a, data) = p
    BY DEF Padded
  <1>9. /\ final(a, ctx).digest = SubSeq(Digest(t), 1, a.digest)
        /\ final(a, ctx).ctx = [len |-> at, tot_len |-> done, block |-> padded, h |-> t]
    BY <1>6 DEF final
  <1> HIDE DEF b, at, done, block, h, l, k, last, word
  <1>10. /\ z \in Nat /\ pm \in Nat /\ last \in Nat /\ pm <= 2 * b /\ 2 * b \in Nat
         /\ pm = at + z + 5
    BY <1>1, <1>2, <1>5
  <1> HIDE DEF z, pm, padded, p
  <1>11. padded \in [1..(2 * b) -> Cell] /\ Holds(padded, pm, p, done)
    <2> DEFINE size == 2 * b
    <2>1. size \in Nat /\ pm <= size /\ block \in [1..size -> Cell]
      BY <1>4, <1>10
    <2> HIDE DEF size
    <2>2. padded \in [1..size -> Cell] /\ Holds(padded, pm, p, done)
      <3>1. Ends(size, block, data, done, at, z, pm, word)
        BY <2>1, <1>2, <1>3, <1>7, <1>10 DEF Ends
      <3> QED
        BY <3>1, FinalBuffer DEF padded, p
    <2> QED
      BY <2>2 DEF size
  <1>12. PaddedParts(p, Len(data), z, data, word)
    BY <1>7, <1>10, PaddedBytes DEF p
  <1> HIDE DEF t
  <1>13. p \in Seq(Byte) /\ Len(p) = done + pm /\ Holds(h.bytes, done, p, 0)
    <2>1. p \in Seq(Byte) /\ Len(p) = Len(data) + z + 5
      BY <1>12 DEF PaddedParts
    <2>2. \A i \in 1..Len(data) : p[i] = data[i]
      BY <1>12 DEF PaddedParts
    <2>3. \A i \in 1..done : i \in 1..Len(data) /\ 0 + i = i
      BY <1>2
    <2>4. Len(data) + z + 5 = done + pm
      BY <1>2, <1>10
    <2> QED
      BY <2>1, <2>2, <2>3, <2>4, <1>3 DEF Holds
  <1>14. Continues(a, h, padded, last, pm, p, done)
    <2>1. padded \in Seq(Cell) /\ Len(padded) = 2 * b
      BY <1>10, <1>11
    <2>2. pm = last * a.block
      BY DEF pm, b
    <2> QED
      BY <2>1, <2>2, <1>2, <1>3, <1>4, <1>10, <1>11, <1>13 DEF Continues
  <1>15. /\ t \in [start : {a.name}, bytes : Seq(Cell)]
         /\ Len(t.bytes) = done + pm /\ Holds(t.bytes, done + pm, p, 0)
    BY <1>14, TransfHolds DEF t
  <1>16. t.bytes = p
    <2> DEFINE u == t.bytes
    <2>1. u \in Seq(Cell) /\ p \in Seq(Cell) /\ Len(u) = Len(p)
      BY <1>13, <1>15, SeqMonotonic DEF Cell
    <2>2. \A i \in 1..Len(u) : u[i] = p[i]
      <3>1. \A i \in 1..(done + pm) : 0 + i = i
        BY <1>2, <1>10
      <3> QED
        BY <3>1, <1>15 DEF Holds
    <2> HIDE DEF u
    <2> QED
      BY <2>1, <2>2, SeqEqual DEF u
  <1>17. t = [start |-> a.name, bytes |-> p]
    BY <1>15, <1>16
  <1>18. [len |-> at, tot_len |-> done, block |-> padded, h |-> t] \in Contexts(a)
    BY <1>2, <1>11, <1>15 DEF Contexts, b
  <1> QED
    BY <1>8, <1>9, <1>17, <1>18 DEF FIPS
===============================================================================
