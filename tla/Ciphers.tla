------------------------------- MODULE Ciphers ------------------------------
(***************************************************************************)
(* The block ciphers of generic/crypto.  Serpent is modelled at its full   *)
(* size, with words as sets of bits.  Blowfish is modelled with bytes of   *)
(* ByteBits bits, which are sets of them, and with initial tables given as *)
(* constants; a word is its four bytes, the first one the most significant.*)
(***************************************************************************)
EXTENDS Machine, FiniteSets, Sequences

CONSTANTS ByteBits,      \* bits of a byte, 8 in the code
          BlowfishN,     \* XT_BLOWFISH_N, the number of rounds
          InitialP,      \* the digits of pi in initstate
          InitialS

Byte == SUBSET (0 .. ByteBits - 1)

Word == [1 .. 4 -> Byte]

\* The entries of an S-box.
ByteSize == Cardinality(Byte)

\* struct xtBlowfish: the subkeys and the four S-boxes.
Contexts ==
  [P : [0 .. BlowfishN + 1 -> Word], S : [0 .. 3 -> [0 .. ByteSize - 1 -> Word]]]

ASSUME CiphersAssumption ==
  /\ ByteBits \in Nat \ {0} /\ BlowfishN \in Nat \ {0} /\ BlowfishN % 2 = 0
  /\ [P |-> InitialP, S |-> InitialS] \in Contexts

ByteNumber(x) == MapThenSumSet(LAMBDA i : 2 ^ i, x)

WordNumber(x) ==
  MapThenSumSet(LAMBDA p : IF p[2] \in x[p[1]] THEN 2 ^ (ByteBits * (4 - p[1]) + p[2]) ELSE 0,
                (1 .. 4) \X (0 .. ByteBits - 1))

\* The sum of two words, without its carry out.
Plus(x, y) ==
  LET sum == WordNumber(x) + WordNumber(y)
      byte(i) == {b \in 0 .. ByteBits - 1 : (sum \div 2 ^ (ByteBits * (4 - i) + b)) % 2 = 1}
  IN  <<byte(1), byte(2), byte(3), byte(4)>>

Xor(x, y) ==
  <<SymDiff(x[1], y[1]), SymDiff(x[2], y[2]), SymDiff(x[3], y[3]), SymDiff(x[4], y[4])>>

F(s, x) ==
  Plus(Xor(Plus(s[0][ByteNumber(x[1])], s[1][ByteNumber(x[2])]), s[2][ByteNumber(x[3])]),
       s[3][ByteNumber(x[4])])

\* The macro BLFRND with the subkey p; the halves change places.
Turned(c, p, b) == <<Xor(b[2], Xor(F(c.S, b[1]), p)), b[1]>>

Swapped(b) == <<b[2], b[1]>>

Whitened(p, b) == <<Xor(b[1], p), b[2]>>

\* The network both directions share: whitening, a round per subkey in the
\* given order, and whitening again.
Network(c, order, start) ==
  LET Turn(k, b) == Turned(c, c.P[order[k]], b)
  IN  Rounds(Turn, start, BlowfishN)

Feistel(c, first, order, last, block) ==
  Whitened(c.P[last], Swapped(Network(c, order, Whitened(c.P[first], block))))

Encipher(c, block) ==
  Feistel(c, 0, [n \in 1 .. BlowfishN |-> n], BlowfishN + 1, block)

Decipher(c, block) ==
  Feistel(c, BlowfishN + 1, [n \in 1 .. BlowfishN |-> BlowfishN + 1 - n], 0, block)

\* The k-th word of data that is read over and over.
Grab(data, k) ==
  LET byte(i) == data[((4 * k + i) % Len(data)) + 1]
  IN  <<byte(0), byte(1), byte(2), byte(3)>>

\* The context s.ctx encrypts the last block, after the next words of data
\* are added to it.
NextBlock(s, data, k) ==
  Encipher(s.ctx, <<Xor(s.block[1], Grab(data, k)), Xor(s.block[2], Grab(data, k + 1))>>)

\* Two words of P, and two of the S-boxes, are replaced by a block.
StoreP(s, k, b) ==
  [ctx |-> [s.ctx EXCEPT !.P[k] = b[1], !.P[k + 1] = b[2]], block |-> b]

StoreS(s, k, b) ==
  [ctx |-> [s.ctx EXCEPT !.S[k \div ByteSize][k % ByteSize] = b[1],
                         !.S[k \div ByteSize][(k % ByteSize) + 1] = b[2]],
   block |-> b]

\* _xtBlowfishExpandState: the key goes into P; then P and the S-boxes are
\* replaced, two words at a time, by encryptions of a block with the data.
\* Data is read from its start again for the S-boxes.
Keyed(ctx, key) == [ctx EXCEPT !.P = [i \in DOMAIN @ |-> Xor(@[i], Grab(key, i))]]

ExpandP(s, data) ==
  LET Turn(n, t) == StoreP(t, 2 * n - 2, NextBlock(t, data, 2 * n - 2))
  IN  Rounds(Turn, s, (BlowfishN + 2) \div 2)

ExpandS(s, data) ==
  LET Turn(n, t) == StoreS(t, 2 * n - 2, NextBlock(t, data, 2 * n - 2))
  IN  Rounds(Turn, s, 2 * ByteSize)

NoBits == <<{}, {}, {}, {}>>

ExpandState(ctx, data, key) ==
  ExpandS(ExpandP([ctx |-> Keyed(ctx, key), block |-> <<NoBits, NoBits>>], data), data).ctx

\* The same with blocks of zeros for the data.
Expand0State(ctx, key) == ExpandState(ctx, <<{}>>, key)

BlowfishInit(key) ==
  IF Len(key) > (BlowfishN - 2) * 4 THEN [ret |-> "XT_EOVERFLOW"]
  ELSE [ret |-> "ok", ctx |-> Expand0State([P |-> InitialP, S |-> InitialS], key)]

\* xtBlowfishEncrypt and Decrypt: data is a sequence of blocks.
BlowfishEncrypt(c, blocks) == [k \in DOMAIN blocks |-> Encipher(c, blocks[k])]

BlowfishDecrypt(c, blocks) == [k \in DOMAIN blocks |-> Decipher(c, blocks[k])]

\* The modes work on bytes: block k, counted from 0, read and written.
Load(d, k) ==
  LET byte(i) == d[8 * k + i]
  IN  << <<byte(1), byte(2), byte(3), byte(4)>>, <<byte(5), byte(6), byte(7), byte(8)>> >>

Store(d, k, b) ==
  [i \in DOMAIN d |-> IF i \in 8 * k + 1 .. 8 * k + 4 THEN b[1][i - 8 * k]
                      ELSE IF i \in 8 * k + 5 .. 8 * k + 8 THEN b[2][i - 8 * k - 4]
                      ELSE d[i]]

\* Block k of d xored with block k - 1 of p, or with iv if it is the first.
Mixed(d, k, p, iv) ==
  [i \in DOMAIN d |-> IF i \in 8 * k + 1 .. 8 * k + 8
                      THEN SymDiff(d[i], IF k = 0 THEN iv[i] ELSE p[i - 8]) ELSE d[i]]

EncryptECB(c, data) ==
  LET Turn(n, d) == Store(d, n - 1, Encipher(c, Load(d, n - 1)))
  IN  Rounds(Turn, data, Len(data) \div 8)

DecryptECB(c, data) ==
  LET Turn(n, d) == Store(d, n - 1, Decipher(c, Load(d, n - 1)))
  IN  Rounds(Turn, data, Len(data) \div 8)

\* iv points to the block before, which is encrypted already.
EncryptBlock(c, iv, k, d) ==
  LET m == Mixed(d, k, d, iv)
  IN  Store(m, k, Encipher(c, Load(m, k)))

EncryptCBC(c, iv, data) ==
  LET Turn(n, d) == EncryptBlock(c, iv, n - 1, d)
  IN  Rounds(Turn, data, Len(data) \div 8)

DecryptBlock(c, iv, k, d) == Mixed(Store(d, k, Decipher(c, Load(d, k))), k, d, iv)

\* Mutant: the blocks are decrypted from the first one on, so that the block
\* before is no longer the encrypted one.
DecryptCBCForward(c, iv, data) ==
  LET Turn(n, d) == DecryptBlock(c, iv, n - 1, d)
  IN  Rounds(Turn, data, Len(data) \div 8)

\* From the last block on: the one before is still encrypted.
DecryptCBC(c, iv, data) ==
  LET Turn(n, d) == DecryptBlock(c, iv, Len(data) \div 8 - n, d)
  IN  Rounds(Turn, data, Len(data) \div 8)
-----------------------------------------------------------------------------
(***************************************************************************)
(* Serpent.  The macros sb0 to sb7 and ib0 to ib7 are given by the values  *)
(* they compute for the sixteen combinations of bits of a, b, c and d.     *)
(***************************************************************************)
SBoxes ==
  << << 3, 8, 15, 1, 10, 6, 5, 11, 14, 13, 4, 2, 7, 0, 9, 12>>,
     <<15, 12, 2, 7, 9, 0, 5, 10, 1, 11, 14, 8, 6, 13, 3, 4>>,
     << 8, 6, 7, 9, 3, 12, 10, 15, 13, 1, 14, 4, 0, 11, 5, 2>>,
     << 0, 15, 11, 8, 12, 9, 6, 3, 13, 1, 2, 4, 10, 7, 5, 14>>,
     << 1, 15, 8, 3, 12, 0, 11, 6, 2, 5, 4, 10, 9, 14, 7, 13>>,
     <<15, 5, 2, 11, 4, 10, 9, 12, 0, 3, 14, 8, 13, 6, 7, 1>>,
     << 7, 2, 12, 5, 8, 4, 6, 11, 14, 9, 1, 15, 13, 3, 10, 0>>,
     << 1, 13, 15, 0, 14, 8, 2, 11, 7, 4, 12, 10, 9, 3, 5, 6>> >>

InverseBoxes ==
  << <<13, 3, 11, 0, 10, 6, 5, 12, 1, 14, 4, 7, 15, 9, 8, 2>>,
     << 5, 8, 2, 14, 15, 6, 12, 3, 11, 4, 7, 9, 1, 13, 10, 0>>,
     <<12, 9, 15, 4, 11, 14, 1, 2, 0, 3, 6, 13, 5, 8, 10, 7>>,
     << 0, 9, 10, 7, 11, 14, 6, 13, 3, 5, 12, 2, 4, 8, 15, 1>>,
     << 5, 0, 8, 3, 10, 9, 7, 14, 2, 12, 11, 6, 4, 15, 13, 1>>,
     << 8, 15, 2, 9, 4, 1, 13, 14, 11, 6, 5, 3, 7, 12, 10, 0>>,
     <<15, 10, 1, 13, 5, 3, 6, 0, 4, 9, 14, 7, 2, 12, 8, 11>>,
     << 3, 0, 6, 13, 9, 14, 15, 8, 5, 12, 11, 7, 10, 1, 4, 2>> >>

\* A box applied to the four words, bit position by bit position.
Substitute(box, q) ==
  LET nibble(i) == (IF i \in q[1] THEN 1 ELSE 0) + (IF i \in q[2] THEN 2 ELSE 0)
                     + (IF i \in q[3] THEN 4 ELSE 0) + (IF i \in q[4] THEN 8 ELSE 0)
      word(w) == {i \in Positions : (box[nibble(i) + 1] \div w) % 2 = 1}
  IN  <<word(1), word(2), word(4), word(8)>>

\* The macros rot and irot.
Rot(q) ==
  LET a == RotateLeft(q[1], 13)
      c == RotateLeft(q[3], 3)
      d == RotateLeft(Xor3(q[4], c, ShiftLeft(a, 3)), 7)
      b == RotateLeft(Xor3(q[2], a, c), 1)
  IN  <<RotateLeft(Xor3(a, b, d), 5), b, RotateLeft(Xor3(c, d, ShiftLeft(b, 7)), 22), d>>

Irot(q) ==
  LET b == q[2]
      d == q[4]
      c == Xor3(RotateRight(q[3], 22), d, ShiftLeft(b, 7))
      a == Xor3(RotateRight(q[1], 5), b, d)
  IN  <<RotateRight(a, 13), Xor3(RotateRight(b, 1), a, c), RotateRight(c, 3),
        Xor3(RotateRight(d, 7), c, ShiftLeft(a, 3))>>

\* The macro ai: four words of the key schedule, which follow the first eight.
RoundKey(key, r, q) ==
  LET k == 4 * r + 8
  IN  <<SymDiff(q[1], key[k + 1]), SymDiff(q[2], key[k + 2]),
        SymDiff(q[3], key[k + 3]), SymDiff(q[4], key[k + 4])>>

AA == Halves(40503, 31161)

\* The key's bits, then a 1, then zeros.
Padded(words, keyLen) ==
  LET last == keyLen \div 32
  IN  [i \in 1 .. 8 |->
         IF keyLen = 256 \/ i <= last THEN words[i]
         ELSE IF i > last + 1 THEN {}
         ELSE {keyLen % 32} \cup {b \in IF keyLen % 32 = 0 THEN {} ELSE words[i] : b < keyLen % 32}]

\* The next four words of a key, which is extended to 140 words.
Lengthen(k) ==
  LET i == Len(k) - 8
      word(m, x, y, z, last) ==
        RotateRight(Xor3(Xor3(Bits(i + m), AA, x), SymDiff(y, z), last), 21)
      a == word(0, k[i + 1], k[i + 4], k[i + 6], k[i + 8])
      b == word(1, k[i + 2], k[i + 5], k[i + 7], a)
      c == word(2, k[i + 3], k[i + 6], k[i + 8], b)
      d == word(3, k[i + 4], k[i + 7], a, c)
  IN  k \o <<a, b, c, d>>

Extended(padded) ==
  LET Turn(n, k) == Lengthen(k)
  IN  Rounds(Turn, padded, 33)

\* Groups of four words go through the boxes.  The macros do not parenthesise
\* x + 1, so that group r starts r % 8 words, and not four times as many,
\* behind the group r - r % 8.
Boxed(k, r) ==
  LET g == 4 * (r - (r % 8)) + (r % 8) + 8
      q == Substitute(SBoxes[((35 - r) % 8) + 1], <<k[g + 1], k[g + 2], k[g + 3], k[g + 4]>>)
  IN  [k EXCEPT ![g + 1] = q[1], ![g + 2] = q[2], ![g + 3] = q[3], ![g + 4] = q[4]]

KeySchedule(padded) ==
  LET Turn(n, k) == Boxed(k, n - 1)
  IN  Rounds(Turn, Extended(padded), 32)

\* xtSerpentInit with a key of words, of which keyLen bits count.
SerpentInit(words, keyLen) ==
  IF keyLen > 256 THEN [ret |-> "XT_EOVERFLOW"]
  ELSE [ret |-> "ok", key |-> KeySchedule(Padded(words, keyLen))]

Words4 == [1 .. 4 -> SUBSET Positions]

\* Rounds of both directions, each as a function of the four words.
Forward(key, r) ==
  [q \in Words4 |-> Rot(Substitute(SBoxes[(r % 8) + 1], RoundKey(key, r, q)))]

Backward(key, r) ==
  [q \in Words4 |-> RoundKey(key, r, Substitute(InverseBoxes[(r % 8) + 1], Irot(q)))]

SerpentEncryptBlock(key, block) ==
  LET Turn(n, q) == Forward(key, n - 1)[q]
  IN  RoundKey(key, 32, Substitute(SBoxes[8], RoundKey(key, 31, Rounds(Turn, block, 31))))

SerpentDecryptBlock(key, block) ==
  LET Turn(n, q) == Backward(key, 31 - n)[q]
  IN  Rounds(Turn, RoundKey(key, 31, Substitute(InverseBoxes[8], RoundKey(key, 32, block))), 31)

SerpentEncrypt(key, blocks) == [k \in DOMAIN blocks |-> SerpentEncryptBlock(key, blocks[k])]

SerpentDecrypt(key, blocks) == [k \in DOMAIN blocks |-> SerpentDecryptBlock(key, blocks[k])]
-----------------------------------------------------------------------------
\* Whatever was encrypted is found again, block by block and in both modes,
\* and with chaining the start of a text can be read without its end.
BlowfishOK(key, iv, data) ==
  LET init == BlowfishInit(key)
      c == init.ctx
      cbc == EncryptCBC(c, iv, data)
  IN  IF Len(key) > (BlowfishN - 2) * 4 THEN init.ret # "ok"
      ELSE /\ BlowfishDecrypt(c, BlowfishEncrypt(c, <<Load(data, 0)>>)) = <<Load(data, 0)>>
           /\ DecryptECB(c, EncryptECB(c, data)) = data
           /\ \A k \in 1 .. Len(data) \div 8 :
                DecryptCBC(c, iv, SubSeq(cbc, 1, 8 * k)) = SubSeq(data, 1, 8 * k)

\* As before, and bits of the key's words beyond its length do not count.
SerpentOK(words, keyLen, block) ==
  LET init == SerpentInit(words, keyLen)
      cut == [i \in 1 .. 8 |-> {b \in words[i] : 32 * (i - 1) + b < keyLen}]
  IN  IF keyLen > 256 THEN init.ret # "ok"
      ELSE /\ SerpentDecrypt(init.key, SerpentEncrypt(init.key, <<block>>)) = <<block>>
           /\ SerpentInit(cut, keyLen) = init
=============================================================================
