---------------------------- MODULE PureFunctions ---------------------------
(***************************************************************************)
(* What is promised of the functions of the library that only compute: a   *)
(* state is an input to one of them, and never changes.                    *)
(***************************************************************************)
EXTENDS Sorting, Ciphers, Codecs, Digests

VARIABLE input  \* the function and its arguments

Is(kind) == input.kind = kind

\* An array of any length, with any numbers.
SortInput(i) ==
  /\ i.type \in SortTypes /\ i.ascend \in BOOLEAN /\ i.memory \in Nat
  /\ Cardinality(DOMAIN i.keys) \in Nat
  /\ i.keys \in [0 .. Cardinality(DOMAIN i.keys) - 1 -> Int]

\* A key of one byte or more, and whole blocks of data.
BlowfishInput(i) ==
  /\ i.key \in Seq(Byte) /\ Len(i.key) > 0
  /\ i.iv \in [1 .. 8 -> Byte]
  /\ i.data \in Seq(Byte) /\ Len(i.data) > 0 /\ Len(i.data) % 8 = 0

\* Eight words, of which some bits are a key, and four to encrypt.
SerpentInput(i) ==
  i.words \in [1 .. 8 -> SUBSET Positions] /\ i.keyLen \in Nat /\ i.block \in Words4

\* Any bytes.
Base64Input(i) == i.data \in Seq(Octets) /\ i.buflen \in Nat

\* The characters of a string of C.
Letters == Octets \ {0}

\* Two keys, which are C strings and, with their terminators, not longer than
\* the 72 bytes that the subkeys are made from.
BcryptInput(i) ==
  /\ i.key \in Seq(Letters) /\ Len(i.key) < 72
  /\ i.other \in Seq(Letters) /\ Len(i.other) < 72
  /\ i.logRounds \in Nat /\ i.seed \in Seq(Octets) /\ i.saltlen \in Nat

\* A message of any length, cut in two places.
DigestInput(i) ==
  /\ i.alg \in Algorithms /\ i.message \in Seq(Octets)
  /\ i.cut1 \in 0 .. i.cut2 /\ i.cut2 \in 0 .. Len(i.message)

\* A message, a place in it, and what may be there instead.
ChecksumInput(i) ==
  /\ i.message \in Seq(SUBSET (0 .. 7)) /\ i.byte \in SUBSET (0 .. 7)
  /\ i.cut \in 1 .. Len(i.message)

PureInit ==
  /\ Is("sort") => SortInput(input)
  /\ Is("base64") => Base64Input(input)
  /\ Is("blowfish") => BlowfishInput(input)
  /\ Is("serpent") => SerpentInput(input)
  /\ Is("bcrypt") => BcryptInput(input)
  /\ Is("digest") => DigestInput(input)
  /\ Is("checksum") => ChecksumInput(input)

PureNext == UNCHANGED input

PureSpec == PureInit /\ [][PureNext]_input
-----------------------------------------------------------------------------
\* Sorting yields an ordered permutation of the array, for every algorithm
\* of sort.c, both orders, numbers and pointers, and loses nothing when it
\* runs out of memory.
SortsCorrectly ==
  Is("sort") =>
    LET list == [i \in DOMAIN input.keys |-> [key |-> input.keys[i], id |-> i]]
    IN  Sortable(list, input.type) =>
          /\ SortedBy(list, SortNumbers(list, input.type, input.ascend, input.memory), input.ascend)
          /\ SortedBy(list, SortPointers(list, input.type, input.ascend, input.memory), input.ascend)

\* What base64, Blowfish and Serpent encode is decoded to what it was, and
\* a password hash accepts its own password and no other.
CodecsInvert ==
  /\ Is("base64") => Base64OK(input.data, input.buflen)
  /\ Is("blowfish") => BlowfishOK(input.key, input.iv, input.data)
  /\ Is("serpent") => SerpentOK(input.words, input.keyLen, input.block)
  /\ Is("bcrypt") => BcryptOK(input.key, input.other, input.logRounds, input.seed, input.saltlen)

\* Digests and checksums do not depend on how a message is cut into updates,
\* nor on what the context was used for before.
DigestsStandard ==
  /\ Is("digest") => DigestOK(input.alg, input.message, input.cut1, input.cut2)
  /\ Is("checksum") => ChecksumOK(input.message, input.cut, input.byte)
=============================================================================
