------------------------------- MODULE Digests ------------------------------
(***************************************************************************)
(* generic/hash.  A digest's chaining state is the sequence of blocks that *)
(* were compressed into it, so that two states are the same exactly when   *)
(* the same blocks were.  A block has Block cells, twice as many for       *)
(* SHA-512, and ends in a length of LengthSize cells.                      *)
(***************************************************************************)
EXTENDS Machine, Sequences, SequencesExt

CONSTANTS Block,       \* 64 in the code
          LengthSize,  \* 8 in the code
          LoLimit      \* 2 ^ 29 in the code: the bytes MD5 counts in lo

ASSUME DigestsAssumption ==
  /\ Block \in Nat /\ LengthSize \in Nat /\ LengthSize < Block
  /\ LoLimit \in Nat \ {0} /\ LoLimit % Block = 0

Algorithms == {"MD5", "SHA256", "SHA512"}

Stale == 255  \* what nobody wrote

BlockSize(alg) == IF alg = "SHA512" THEN 2 * Block ELSE Block

\* The start of the length with its most significant half, in a block.
Tail512(alg) == IF alg = "SHA512" THEN 2 * LengthSize ELSE LengthSize

-----------------------------------------------------------------------------
\* A buffer whose cells from index at on, counted from 0, are replaced.
Put(buffer, at, cells) ==
  [i \in DOMAIN buffer |-> IF i - at \in DOMAIN cells THEN cells[i - at] ELSE buffer[i]]

\* At most the first n cells.
Prefix(data, n) == SubSeq(data, 1, IF n < Len(data) THEN n ELSE Len(data))

Zeros(n) == [i \in 1 .. n |-> 0]

\* The blocks of a text.
Blocks(text, size) ==
  [k \in 1 .. Len(text) \div size |-> SubSeq(text, (k - 1) * size + 1, k * size)]

\* md5_transform, sha256_transform and sha512_transform, for whole blocks.
Compress(state, data, size) == state \o Blocks(data, size)

Md5Init(ctx) == [ctx EXCEPT !.state = << >>, !.lo = 0, !.hi = 0]

\* The bits of a length, in cells of eight, the most significant first.
LengthCells(bits) == [i \in 1 .. LengthSize |-> (bits \div 256 ^ (LengthSize - i)) % 256]

Md5Digest(ctx) ==
  LET used == (ctx.lo % Block) + 1
      marked == Put(ctx.buffer, used - 1, <<128>>)
      free == Block - used
      full == free < LengthSize
      state == IF full THEN Compress(ctx.state, Put(marked, used, Zeros(free)), Block) ELSE ctx.state
      padded == IF full THEN Put(marked, 0, Zeros(Block - LengthSize))
                ELSE Put(marked, used, Zeros(free - LengthSize))
      last == Put(padded, Block - LengthSize,
                  Reverse(LengthCells((ctx.hi * LoLimit + ctx.lo) * 8)))
  IN  [ctx EXCEPT !.buffer = last, !.lo = @ * 8, !.state = Compress(state, last, Block)]

\* Mutant: a buffer that is filled exactly is compressed with the next data.
Md5UpdateLate(ctx, data) ==
  LET lo == (ctx.lo + Len(data)) % LoLimit
      hi == ctx.hi + (IF lo < ctx.lo THEN 1 ELSE 0) + Len(data) \div LoLimit
      counted == [ctx EXCEPT !.lo = lo, !.hi = hi]
      used == ctx.lo % Block
      free == Block - used
      filled == Put(ctx.buffer, used, Prefix(data, free))
      rest == IF used = 0 THEN data ELSE SubSeq(data, free + 1, Len(data))
      whole == (Len(rest) \div Block) * Block
  IN  IF used > 0 /\ Len(data) <= free THEN [counted EXCEPT !.buffer = filled]
      ELSE [counted EXCEPT
              !.state = Compress(IF used = 0 THEN @ ELSE Compress(@, filled, Block),
                                 SubSeq(rest, 1, whole), Block),
              !.buffer = Put(IF used = 0 THEN @ ELSE filled, 0, SubSeq(rest, whole + 1, Len(rest)))]

\* The buffer is filled and compressed first, whole blocks are compressed
\* where they are, and the rest is kept.
Md5Update(ctx, data) ==
  LET lo == (ctx.lo + Len(data)) % LoLimit
      hi == ctx.hi + (IF lo < ctx.lo THEN 1 ELSE 0) + Len(data) \div LoLimit
      counted == [ctx EXCEPT !.lo = lo, !.hi = hi]
      used == ctx.lo % Block
      free == Block - used
      filled == Put(ctx.buffer, used, Prefix(data, free))
      rest == IF used = 0 THEN data ELSE SubSeq(data, free + 1, Len(data))
      whole == (Len(rest) \div Block) * Block
  IN  IF used > 0 /\ Len(data) < free THEN [counted EXCEPT !.buffer = filled]
      ELSE [counted EXCEPT
              !.state = Compress(IF used = 0 THEN @ ELSE Compress(@, filled, Block),
                                 SubSeq(rest, 1, whole), Block),
              !.buffer = Put(IF used = 0 THEN @ ELSE filled, 0, SubSeq(rest, whole + 1, Len(rest)))]
-----------------------------------------------------------------------------
ShaInit(ctx) == [ctx EXCEPT !.state = << >>, !.curlen = 0, !.length = 0]

\* sha256_digest and sha512_digest.  Curlen is left behind the padding.
ShaDigest(ctx, size, tail) ==
  LET marked == Put(ctx.buffer, ctx.curlen, <<128>>)
      full == ctx.curlen + 1 > size - tail
      zeroed == Put(marked, ctx.curlen + 1, Zeros(size - ctx.curlen - 1))
      padded == IF full THEN Put(zeroed, 0, Zeros(size - LengthSize)) ELSE zeroed
      bits == ctx.length + ctx.curlen * 8
      last == Put(padded, size - LengthSize, LengthCells(bits))
  IN  IF ctx.curlen >= size THEN ctx
      ELSE [ctx EXCEPT !.length = bits, !.curlen = size - LengthSize, !.buffer = last,
                       !.state = Compress(IF full THEN Compress(@, zeroed, size) ELSE @, last, size)]

\* A round of sha256_update and sha512_update: a whole block is compressed
\* where it is when nothing is kept; otherwise the buffer takes what it can.
ShaRound(ctx, data, size) ==
  LET part == Prefix(data, size - ctx.curlen)
      n == Len(part)
      kept == Put(ctx.buffer, ctx.curlen, part)
      rest == SubSeq(data, n + 1, Len(data))
  IN  IF data = << >> THEN [ctx |-> ctx, data |-> data]
      ELSE IF ctx.curlen = 0 /\ Len(data) >= size
      THEN [ctx |-> [ctx EXCEPT !.state = Compress(@, SubSeq(data, 1, size), size),
                                !.length = @ + 8 * size],
            data |-> SubSeq(data, size + 1, Len(data))]
      ELSE IF ctx.curlen + n = size
      THEN [ctx |-> [ctx EXCEPT !.buffer = kept, !.state = Compress(@, kept, size),
                                !.length = @ + 8 * size, !.curlen = 0],
            data |-> rest]
      ELSE [ctx |-> [ctx EXCEPT !.buffer = kept, !.curlen = @ + n], data |-> rest]

ShaUpdate(ctx, data, size) ==
  LET Turn(n, s) == ShaRound(s.ctx, s.data, size)
  IN  IF ctx.curlen > size THEN ctx
      ELSE Rounds(Turn, [ctx |-> ctx, data |-> data], Len(data)).ctx
-----------------------------------------------------------------------------
HashReset(ctx) == IF ctx.algorithm = "MD5" THEN Md5Init(ctx) ELSE ShaInit(ctx)

HashInit(alg) ==
  HashReset([algorithm |-> alg, buffer |-> [i \in 1 .. BlockSize(alg) |-> Stale], state |-> << >>,
             lo |-> Stale, hi |-> Stale, curlen |-> Stale, length |-> Stale])

HashUpdate(ctx, data) ==
  IF ctx.algorithm = "MD5" THEN Md5Update(ctx, data)
  ELSE ShaUpdate(ctx, data, BlockSize(ctx.algorithm))

\* The state is copied out as the hash.
HashDigest(ctx) ==
  IF ctx.algorithm = "MD5" THEN Md5Digest(ctx)
  ELSE ShaDigest(ctx, BlockSize(ctx.algorithm), Tail512(ctx.algorithm))
-----------------------------------------------------------------------------
\* The polynomial EDB88320; a byte is the set of its bits.
Polynomial == {5, 8, 9, 15, 19, 20, 21, 23, 24, 26, 27, 29, 30, 31}

Shifted(c) == LET s == ShiftRight(c, 1) IN IF 0 \in c THEN SymDiff(s, Polynomial) ELSE s

Eight(c) ==
  LET Turn(n, x) == Shifted(x)
  IN  Rounds(Turn, c, 8)

\* crc32tbl: what eight shifts make of a byte.
Table == [b \in SUBSET (0 .. 7) |-> Eight(b)]

CRCByte(c, b) == SymDiff(ShiftRight(c, 8), Table[SymDiff(c \cap 0 .. 7, b)])

CRC(c, data) ==
  LET Turn(n, x) == CRCByte(x, data[n])
  IN  Rounds(Turn, c, Len(data))

HashCRC32(chksum, data) == Invert(CRC(Invert(chksum), data))
-----------------------------------------------------------------------------
\* What the standards define: the message, a 1 bit, zeros up to a whole
\* number of blocks, and the length of the message.
Standard(alg, message) ==
  LET size == BlockSize(alg)
      bits == LengthCells(8 * Len(message))
      used == (Len(message) + 1 + Tail512(alg)) % size
      zeros == IF used = 0 THEN 0 ELSE size - used
      text == Append(message, 128) \o Zeros(zeros + Tail512(alg) - LengthSize)
                \o IF alg = "MD5" THEN Reverse(bits) ELSE bits
  IN  Blocks(text, size)

\* However a message is cut into updates, its digest is the standard's, and
\* that of a context that was used before and reset as well.
DigestOK(alg, message, cut1, cut2) ==
  LET fed(ctx) == HashUpdate(HashUpdate(HashUpdate(ctx, SubSeq(message, 1, cut1)),
                                        SubSeq(message, cut1 + 1, cut2)),
                             SubSeq(message, cut2 + 1, Len(message)))
      first == HashDigest(fed(HashInit(alg)))
  IN  /\ first.state = Standard(alg, message)
      /\ HashDigest(fed(HashReset(first))).state = first.state

\* A checksum can be continued, and a byte that changes is always noticed.
ChecksumOK(message, cut, byte) ==
  LET sum == HashCRC32({}, message)
      changed == [message EXCEPT ![cut] = byte]
  IN  /\ HashCRC32(HashCRC32({}, SubSeq(message, 1, cut)), SubSeq(message, cut + 1, Len(message))) = sum
      /\ changed # message => HashCRC32({}, changed) # sum
=============================================================================
