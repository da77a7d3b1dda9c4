------------------------------- MODULE Machine ------------------------------
(***************************************************************************)
(* What the functions of the library are written with: the loops of C, and *)
(* its 32-bit words as sets of the bits that are 1, the lowest bit being   *)
(* 0, with the operators on uint32_t of serpent.c and crc32.c.             *)
(***************************************************************************)
EXTENDS Integers, FiniteSetsExt

\* What is left of start after k rounds of a loop; a round is told its number,
\* the first being 1.  A round that finds its loop at an end changes nothing.
Rounds(Round(_, _), start, k) ==
  LET after[n \in 0 .. k] == IF n = 0 THEN start ELSE Round(n, after[n - 1])
  IN  after[k]
-----------------------------------------------------------------------------
Positions == 0 .. 31

Bits(n) == {i \in 0 .. 30 : (n \div 2 ^ i) % 2 = 1}

\* A word given as its two halves.
Halves(high, low) == {i + 16 : i \in Bits(high)} \cup Bits(low)

Invert(x) == Positions \ x

\* x ^ y is SymDiff(x, y).
Xor3(x, y, z) == SymDiff(x, SymDiff(y, z))

ShiftLeft(x, n) == {i + n : i \in x} \cap Positions

ShiftRight(x, n) == {i - n : i \in x} \cap Positions

RotateLeft(x, n) == {(i + n) % 32 : i \in x}

RotateRight(x, n) == {(i + 32 - n) % 32 : i \in x}
=============================================================================
