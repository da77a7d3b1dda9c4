---------------------------- MODULE CodecProofs -----------------------------
(***************************************************************************)
(* What base64, Blowfish, Serpent and bcrypt do is undone by their         *)
(* inverses, for every input, and bcrypt tells passwords apart             *)
(* (CodecsAreInverse); digests and checksums are what the standards say,   *)
(* however a message is cut into updates (DigestsAreStandard).             *)
(*                                                                         *)
(* Serpent: its boxes, keys and linear transformation each have an         *)
(* inverse, so that the rounds of decryption pass the states of the rounds *)
(* of encryption (SerpentInverts).  Blowfish: a Feistel network undoes     *)
(* itself with its subkeys in the other order, whatever F and the subkeys  *)
(* are; a mode is followed block by block (BlowfishInverts).  Base64: a    *)
(* group of four characters holds three bytes, and the loop over the       *)
(* groups ends where the text or the room does (Base64Inverts).  Bcrypt: a *)
(* hash holds the salt it was made with, and two keys that are C strings   *)
(* of up to 71 characters have different subkeys (BcryptAccepts).          *)
(* Checksums and digests have sections of their own.                       *)
(***************************************************************************)
EXTENDS FunctionProofs
-----------------------------------------------------------------------------
\* The rules of FunctionProofs for the loops of Ciphers: whatever set S[n] holds
\* the state after n rounds, a loop ends in the last of them.
LEMMA NetworkRule ==
  ASSUME NEW c, NEW order, NEW start, BlowfishN \in Nat, NEW S,
         start \in S[0],
         \A n \in 0 .. BlowfishN - 1 : \A s \in S[n] :
           Turned(c, c.P[order[n + 1]], s) \in S[n + 1]
  PROVE  Network(c, order, start) \in S[BlowfishN]
  <1> DEFINE k == BlowfishN
             first == start
             Body(n, s) == Turned(c, c.P[order[n]], s)
             Turn(f) == [n \in 0 .. k |-> IF n = 0 THEN first ELSE Body(n, f[n - 1])]
             after == CHOOSE f : f = Turn(f)
             next == [n \in Nat |-> [s \in S[n - 1] |-> Body(n, s)]]
  <1>1. Network(c, order, start) = after[k]
    BY DEF Network, Rounds
  <1>2. k \in Nat /\ first \in S[0] /\ \A n \in 0 .. k - 1 : \A s \in S[n] : Body(n + 1, s) \in S[n + 1]
    OBVIOUS
  <1> HIDE DEF Body, after, k, first
  <1>3. \A n \in 0 .. k - 1 : \A s \in S[n] : next[n + 1][s] = Body(n + 1, s)
    BY <1>2, RoundBefore
  <1> HIDE DEF next, Turn
  <1>4. \A n \in 0 .. k - 1 : \A s \in S[n] : next[n + 1][s] \in S[n + 1]
    BY <1>2, <1>3
  <1>5. PICK h : Goes(h, first, next, S, k)
    BY <1>2, <1>4, LoopExists
  <1>6. \A n \in 0 .. k - 1 : h[n + 1] = Body(n + 1, h[n])
    BY <1>3, <1>5 DEF Goes
  <1>7. \A n \in 0 .. k : h[n] = IF n = 0 THEN first ELSE Body(n, h[n - 1])
    BY <1>2, <1>5, <1>6, RoundBefore DEF Goes
  <1>8. h = Turn(h)
    BY <1>5, <1>7 DEF Goes, Turn
  <1>9. after = Turn(after)
    BY <1>8 DEF after
  <1>10. \A n \in 0 .. k : after[n] = IF n = 0 THEN first ELSE Body(n, after[n - 1])
    BY <1>9 DEF Turn
  <1>11. after[0] = first /\ \A n \in 0 .. k - 1 : after[n + 1] = Body(n + 1, after[n])
    BY <1>2, <1>10, RoundAfter
  <1>12. \A n \in 0 .. k : after[n] \in S[n]
    BY <1>2, <1>11, LoopInvariant
  <1>13. after[k] \in S[k] /\ k = BlowfishN
    BY <1>2, <1>12, RoundAfter DEF k
  <1> QED
    BY <1>1, <1>13

\* The loop over P.
LEMMA ExpandPRule ==
  ASSUME NEW s0, NEW data, (BlowfishN + 2) \div 2 \in Nat, NEW S,
         s0 \in S[0],
         \A n \in 0 .. (BlowfishN + 2) \div 2 - 1 : \A s \in S[n] :
           StoreP(s, 2 * (n + 1) - 2, NextBlock(s, data, 2 * (n + 1) - 2)) \in S[n + 1]
  PROVE  ExpandP(s0, data) \in S[(BlowfishN + 2) \div 2]
  <1> DEFINE k == (BlowfishN + 2) \div 2
             first == s0
             Body(n, s) == StoreP(s, 2 * (n) - 2, NextBlock(s, data, 2 * (n) - 2))
             Turn(f) == [n \in 0 .. k |-> IF n = 0 THEN first ELSE Body(n, f[n - 1])]
             after == CHOOSE f : f = Turn(f)
             next == [n \in Nat |-> [s \in S[n - 1] |-> Body(n, s)]]
  <1>1. ExpandP(s0, data) = after[k]
    BY DEF ExpandP, Rounds
  <1>2. k \in Nat /\ first \in S[0] /\ \A n \in 0 .. k - 1 : \A s \in S[n] : Body(n + 1, s) \in S[n + 1]
    OBVIOUS
  <1> HIDE DEF Body, after, k, first
  <1>3. \A n \in 0 .. k - 1 : \A s \in S[n] : next[n + 1][s] = Body(n + 1, s)
    BY <1>2, RoundBefore
  <1> HIDE DEF next, Turn
  <1>4. \A n \in 0 .. k - 1 : \A s \in S[n] : next[n + 1][s] \in S[n + 1]
    BY <1>2, <1>3
  <1>5. PICK h : Goes(h, first, next, S, k)
    BY <1>2, <1>4, LoopExists
  <1>6. \A n \in 0 .. k - 1 : h[n + 1] = Body(n + 1, h[n])
    BY <1>3, <1>5 DEF Goes
  <1>7. \A n \in 0 .. k : h[n] = IF n = 0 THEN first ELSE Body(n, h[n - 1])
    BY <1>2, <1>5, <1>6, RoundBefore DEF Goes
  <1>8. h = Turn(h)
    BY <1>5, <1>7 DEF Goes, Turn
  <1>9. after = Turn(after)
    BY <1>8 DEF after
  <1>10. \A n \in 0 .. k : after[n] = IF n = 0 THEN first ELSE Body(n, after[n - 1])
    BY <1>9 DEF Turn
  <1>11. after[0] = first /\ \A n \in 0 .. k - 1 : after[n + 1] = Body(n + 1, after[n])
    BY <1>2, <1>10, RoundAfter
  <1>12. \A n \in 0 .. k : after[n] \in S[n]
    BY <1>2, <1>11, LoopInvariant
  <1>13. after[k] \in S[k] /\ k = (BlowfishN + 2) \div 2
    BY <1>2, <1>12, RoundAfter DEF k
  <1> QED
    BY <1>1, <1>13

\* The loop over the S-boxes.
LEMMA ExpandSRule ==
  ASSUME NEW s0, NEW data, 2 * ByteSize \in Nat, NEW S,
         s0 \in S[0],
         \A n \in 0 .. 2 * ByteSize - 1 : \A s \in S[n] :
           StoreS(s, 2 * (n + 1) - 2, NextBlock(s, data, 2 * (n + 1) - 2)) \in S[n + 1]
  PROVE  ExpandS(s0, data) \in S[2 * ByteSize]
  <1> DEFINE k == 2 * ByteSize
             first == s0
             Body(n, s) == StoreS(s, 2 * (n) - 2, NextBlock(s, data, 2 * (n) - 2))
             Turn(f) == [n \in 0 .. k |-> IF n = 0 THEN first ELSE Body(n, f[n - 1])]
             after == CHOOSE f : f = Turn(f)
             next == [n \in Nat |-> [s \in S[n - 1] |-> Body(n, s)]]
  <1>1. ExpandS(s0, data) = after[k]
    BY DEF ExpandS, Rounds
  <1>2. k \in Nat /\ first \in S[0] /\ \A n \in 0 .. k - 1 : \A s \in S[n] : Body(n + 1, s) \in S[n + 1]
    OBVIOUS
  <1> HIDE DEF Body, after, k, first
  <1>3. \A n \in 0 .. k - 1 : \A s \in S[n] : next[n + 1][s] = Body(n + 1, s)
    BY <1>2, RoundBefore
  <1> HIDE DEF next, Turn
  <1>4. \A n \in 0 .. k - 1 : \A s \in S[n] : next[n + 1][s] \in S[n + 1]
    BY <1>2, <1>3
  <1>5. PICK h : Goes(h, first, next, S, k)
    BY <1>2, <1>4, LoopExists
  <1>6. \A n \in 0 .. k - 1 : h[n + 1] = Body(n + 1, h[n])
    BY <1>3, <1>5 DEF Goes
  <1>7. \A n \in 0 .. k : h[n] = IF n = 0 THEN first ELSE Body(n, h[n - 1])
    BY <1>2, <1>5, <1>6, RoundBefore DEF Goes
  <1>8. h = Turn(h)
    BY <1>5, <1>7 DEF Goes, Turn
  <1>9. after = Turn(after)
    BY <1>8 DEF after
  <1>10. \A n \in 0 .. k : after[n] = IF n = 0 THEN first ELSE Body(n, after[n - 1])
    BY <1>9 DEF Turn
  <1>11. after[0] = first /\ \A n \in 0 .. k - 1 : after[n + 1] = Body(n + 1, after[n])
    BY <1>2, <1>10, RoundAfter
  <1>12. \A n \in 0 .. k : after[n] \in S[n]
    BY <1>2, <1>11, LoopInvariant
  <1>13. after[k] \in S[k] /\ k = 2 * ByteSize
    BY <1>2, <1>12, RoundAfter DEF k
  <1> QED
    BY <1>1, <1>13

\* The modes.
LEMMA EncryptECBRule ==
  ASSUME NEW c, NEW data, Len(data) \div 8 \in Nat, NEW S,
         data \in S[0],
         \A n \in 0 .. Len(data) \div 8 - 1 : \A s \in S[n] :
           Store(s, n + 1 - 1, Encipher(c, Load(s, n + 1 - 1))) \in S[n + 1]
  PROVE  EncryptECB(c, data) \in S[Len(data) \div 8]
  <1> DEFINE k == Len(data) \div 8
             first == data
             Body(n, s) == Store(s, n - 1, Encipher(c, Load(s, n - 1)))
             Turn(f) == [n \in 0 .. k |-> IF n = 0 THEN first ELSE Body(n, f[n - 1])]
             after == CHOOSE f : f = Turn(f)
             next == [n \in Nat |-> [s \in S[n - 1] |-> Body(n, s)]]
  <1>1. EncryptECB(c, data) = after[k]
    BY DEF EncryptECB, Rounds
  <1>2. k \in Nat /\ first \in S[0] /\ \A n \in 0 .. k - 1 : \A s \in S[n] : Body(n + 1, s) \in S[n + 1]
    OBVIOUS
  <1> HIDE DEF Body, after, k, first
  <1>3. \A n \in 0 .. k - 1 : \A s \in S[n] : next[n + 1][s] = Body(n + 1, s)
    BY <1>2, RoundBefore
  <1> HIDE DEF next, Turn
  <1>4. \A n \in 0 .. k - 1 : \A s \in S[n] : next[n + 1][s] \in S[n + 1]
    BY <1>2, <1>3
  <1>5. PICK h : Goes(h, first, next, S, k)
    BY <1>2, <1>4, LoopExists
  <1>6. \A n \in 0 .. k - 1 : h[n + 1] = Body(n + 1, h[n])
    BY <1>3, <1>5 DEF Goes
  <1>7. \A n \in 0 .. k : h[n] = IF n = 0 THEN first ELSE Body(n, h[n - 1])
    BY <1>2, <1>5, <1>6, RoundBefore DEF Goes
  <1>8. h = Turn(h)
    BY <1>5, <1>7 DEF Goes, Turn
  <1>9. after = Turn(after)
    BY <1>8 DEF after
  <1>10. \A n \in 0 .. k : after[n] = IF n = 0 THEN first ELSE Body(n, after[n - 1])
    BY <1>9 DEF Turn
  <1>11. after[0] = first /\ \A n \in 0 .. k - 1 : after[n + 1] = Body(n + 1, after[n])
    BY <1>2, <1>10, RoundAfter
  <1>12. \A n \in 0 .. k : after[n] \in S[n]
    BY <1>2, <1>11, LoopInvariant
  <1>13. after[k] \in S[k] /\ k = Len(data) \div 8
    BY <1>2, <1>12, RoundAfter DEF k
  <1> QED
    BY <1>1, <1>13

\* The loop over the blocks, the other way.
LEMMA DecryptECBRule ==
  ASSUME NEW c, NEW data, Len(data) \div 8 \in Nat, NEW S,
         data \in S[0],
         \A n \in 0 .. Len(data) \div 8 - 1 : \A s \in S[n] :
           Store(s, n + 1 - 1, Decipher(c, Load(s, n + 1 - 1))) \in S[n + 1]
  PROVE  DecryptECB(c, data) \in S[Len(data) \div 8]
  <1> DEFINE k == Len(data) \div 8
             first == data
             Body(n, s) == Store(s, n - 1, Decipher(c, Load(s, n - 1)))
             Turn(f) == [n \in 0 .. k |-> IF n = 0 THEN first ELSE Body(n, f[n - 1])]
             after == CHOOSE f : f = Turn(f)
             next == [n \in Nat |-> [s \in S[n - 1] |-> Body(n, s)]]
  <1>1. DecryptECB(c, data) = after[k]
    BY DEF DecryptECB, Rounds
  <1>2. k \in Nat /\ first \in S[0] /\ \A n \in 0 .. k - 1 : \A s \in S[n] : Body(n + 1, s) \in S[n + 1]
    OBVIOUS
  <1> HIDE DEF Body, after, k, first
  <1>3. \A n \in 0 .. k - 1 : \A s \in S[n] : next[n + 1][s] = Body(n + 1, s)
    BY <1>2, RoundBefore
  <1> HIDE DEF next, Turn
  <1>4. \A n \in 0 .. k - 1 : \A s \in S[n] : next[n + 1][s] \in S[n + 1]
    BY <1>2, <1>3
  <1>5. PICK h : Goes(h, first, next, S, k)
    BY <1>2, <1>4, LoopExists
  <1>6. \A n \in 0 .. k - 1 : h[n + 1] = Body(n + 1, h[n])
    BY <1>3, <1>5 DEF Goes
  <1>7. \A n \in 0 .. k : h[n] = IF n = 0 THEN first ELSE Body(n, h[n - 1])
    BY <1>2, <1>5, <1>6, RoundBefore DEF Goes
  <1>8. h = Turn(h)
    BY <1>5, <1>7 DEF Goes, Turn
  <1>9. after = Turn(after)
    BY <1>8 DEF after
  <1>10. \A n \in 0 .. k : after[n] = IF n = 0 THEN first ELSE Body(n, after[n - 1])
    BY <1>9 DEF Turn
  <1>11. after[0] = first /\ \A n \in 0 .. k - 1 : after[n + 1] = Body(n + 1, after[n])
    BY <1>2, <1>10, RoundAfter
  <1>12. \A n \in 0 .. k : after[n] \in S[n]
    BY <1>2, <1>11, LoopInvariant
  <1>13. after[k] \in S[k] /\ k = Len(data) \div 8
    BY <1>2, <1>12, RoundAfter DEF k
  <1> QED
    BY <1>1, <1>13

\* The chain of blocks, from the first to the last.
LEMMA EncryptCBCRule ==
  ASSUME NEW c, NEW iv, NEW data, Len(data) \div 8 \in Nat, NEW S,
         data \in S[0],
         \A n \in 0 .. Len(data) \div 8 - 1 : \A s \in S[n] :
           EncryptBlock(c, iv, n + 1 - 1, s) \in S[n + 1]
  PROVE  EncryptCBC(c, iv, data) \in S[Len(data) \div 8]
  <1> DEFINE k == Len(data) \div 8
             first == data
             Body(n, s) == EncryptBlock(c, iv, n - 1, s)
             Turn(f) == [n \in 0 .. k |-> IF n = 0 THEN first ELSE Body(n, f[n - 1])]
             after == CHOOSE f : f = Turn(f)
             next == [n \in Nat |-> [s \in S[n - 1] |-> Body(n, s)]]
  <1>1. EncryptCBC(c, iv, data) = after[k]
    BY DEF EncryptCBC, Rounds
  <1>2. k \in Nat /\ first \in S[0] /\ \A n \in 0 .. k - 1 : \A s \in S[n] : Body(n + 1, s) \in S[n + 1]
    OBVIOUS
  <1> HIDE DEF Body, after, k, first
  <1>3. \A n \in 0 .. k - 1 : \A s \in S[n] : next[n + 1][s] = Body(n + 1, s)
    BY <1>2, RoundBefore
  <1> HIDE DEF next, Turn
  <1>4. \A n \in 0 .. k - 1 : \A s \in S[n] : next[n + 1][s] \in S[n + 1]
    BY <1>2, <1>3
  <1>5. PICK h : Goes(h, first, next, S, k)
    BY <1>2, <1>4, LoopExists
  <1>6. \A n \in 0 .. k - 1 : h[n + 1] = Body(n + 1, h[n])
    BY <1>3, <1>5 DEF Goes
  <1>7. \A n \in 0 .. k : h[n] = IF n = 0 THEN first ELSE Body(n, h[n - 1])
    BY <1>2, <1>5, <1>6, RoundBefore DEF Goes
  <1>8. h = Turn(h)
    BY <1>5, <1>7 DEF Goes, Turn
  <1>9. after = Turn(after)
    BY <1>8 DEF after
  <1>10. \A n \in 0 .. k : after[n] = IF n = 0 THEN first ELSE Body(n, after[n - 1])
    BY <1>9 DEF Turn
  <1>11. after[0] = first /\ \A n \in 0 .. k - 1 : after[n + 1] = Body(n + 1, after[n])
    BY <1>2, <1>10, RoundAfter
  <1>12. \A n \in 0 .. k : after[n] \in S[n]
    BY <1>2, <1>11, LoopInvariant
  <1>13. after[k] \in S[k] /\ k = Len(data) \div 8
    BY <1>2, <1>12, RoundAfter DEF k
  <1> QED
    BY <1>1, <1>13

\* The chain of blocks, from the last to the first.
LEMMA DecryptCBCRule ==
  ASSUME NEW c, NEW iv, NEW data, Len(data) \div 8 \in Nat, NEW S,
         data \in S[0],
         \A n \in 0 .. Len(data) \div 8 - 1 : \A s \in S[n] :
           DecryptBlock(c, iv, Len(data) \div 8 - (n + 1), s) \in S[n + 1]
  PROVE  DecryptCBC(c, iv, data) \in S[Len(data) \div 8]
  <1> DEFINE k == Len(data) \div 8
             first == data
             Body(n, s) == DecryptBlock(c, iv, Len(data) \div 8 - (n), s)
             Turn(f) == [n \in 0 .. k |-> IF n = 0 THEN first ELSE Body(n, f[n - 1])]
             after == CHOOSE f : f = Turn(f)
             next == [n \in Nat |-> [s \in S[n - 1] |-> Body(n, s)]]
  <1>1. DecryptCBC(c, iv, data) = after[k]
    BY DEF DecryptCBC, Rounds
  <1>2. k \in Nat /\ first \in S[0] /\ \A n \in 0 .. k - 1 : \A s \in S[n] : Body(n + 1, s) \in S[n + 1]
    OBVIOUS
  <1> HIDE DEF Body, after, k, first
  <1>3. \A n \in 0 .. k - 1 : \A s \in S[n] : next[n + 1][s] = Body(n + 1, s)
    BY <1>2, RoundBefore
  <1> HIDE DEF next, Turn
  <1>4. \A n \in 0 .. k - 1 : \A s \in S[n] : next[n + 1][s] \in S[n + 1]
    BY <1>2, <1>3
  <1>5. PICK h : Goes(h, first, next, S, k)
    BY <1>2, <1>4, LoopExists
  <1>6. \A n \in 0 .. k - 1 : h[n + 1] = Body(n + 1, h[n])
    BY <1>3, <1>5 DEF Goes
  <1>7. \A n \in 0 .. k : h[n] = IF n = 0 THEN first ELSE Body(n, h[n - 1])
    BY <1>2, <1>5, <1>6, RoundBefore DEF Goes
  <1>8. h = Turn(h)
    BY <1>5, <1>7 DEF Goes, Turn
  <1>9. after = Turn(after)
    BY <1>8 DEF after
  <1>10. \A n \in 0 .. k : after[n] = IF n = 0 THEN first ELSE Body(n, after[n - 1])
    BY <1>9 DEF Turn
  <1>11. after[0] = first /\ \A n \in 0 .. k - 1 : after[n + 1] = Body(n + 1, after[n])
    BY <1>2, <1>10, RoundAfter
  <1>12. \A n \in 0 .. k : after[n] \in S[n]
    BY <1>2, <1>11, LoopInvariant
  <1>13. after[k] \in S[k] /\ k = Len(data) \div 8
    BY <1>2, <1>12, RoundAfter DEF k
  <1> QED
    BY <1>1, <1>13

\* The loops of Serpent.
LEMMA ExtendedRule ==
  ASSUME NEW padded, 33 \in Nat, NEW S,
         padded \in S[0],
         \A n \in 0 .. 33 - 1 : \A s \in S[n] :
           Lengthen(s) \in S[n + 1]
  PROVE  Extended(padded) \in S[33]
  <1> DEFINE k == 33
             first == padded
             Body(n, s) == Lengthen(s)
             Turn(f) == [n \in 0 .. k |-> IF n = 0 THEN first ELSE Body(n, f[n - 1])]
             after == CHOOSE f : f = Turn(f)
             next == [n \in Nat |-> [s \in S[n - 1] |-> Body(n, s)]]
  <1>1. Extended(padded) = after[k]
    BY DEF Extended, Rounds
  <1>2. k \in Nat /\ first \in S[0] /\ \A n \in 0 .. k - 1 : \A s \in S[n] : Body(n + 1, s) \in S[n + 1]
    OBVIOUS
  <1> HIDE DEF Body, after, k, first
  <1>3. \A n \in 0 .. k - 1 : \A s \in S[n] : next[n + 1][s] = Body(n + 1, s)
    BY <1>2, RoundBefore
  <1> HIDE DEF next, Turn
  <1>4. \A n \in 0 .. k - 1 : \A s \in S[n] : next[n + 1][s] \in S[n + 1]
    BY <1>2, <1>3
  <1>5. PICK h : Goes(h, first, next, S, k)
    BY <1>2, <1>4, LoopExists
  <1>6. \A n \in 0 .. k - 1 : h[n + 1] = Body(n + 1, h[n])
    BY <1>3, <1>5 DEF Goes
  <1>7. \A n \in 0 .. k : h[n] = IF n = 0 THEN first ELSE Body(n, h[n - 1])
    BY <1>2, <1>5, <1>6, RoundBefore DEF Goes
  <1>8. h = Turn(h)
    BY <1>5, <1>7 DEF Goes, Turn
  <1>9. after = Turn(after)
    BY <1>8 DEF after
  <1>10. \A n \in 0 .. k : after[n] = IF n = 0 THEN first ELSE Body(n, after[n - 1])
    BY <1>9 DEF Turn
  <1>11. after[0] = first /\ \A n \in 0 .. k - 1 : after[n + 1] = Body(n + 1, after[n])
    BY <1>2, <1>10, RoundAfter
  <1>12. \A n \in 0 .. k : after[n] \in S[n]
    BY <1>2, <1>11, LoopInvariant
  <1>13. after[k] \in S[k] /\ k = 33
    BY <1>2, <1>12, RoundAfter DEF k
  <1> QED
    BY <1>1, <1>13

\* The rounds that make the key schedule.
LEMMA KeyScheduleRule ==
  ASSUME NEW padded, 32 \in Nat, NEW S,
         Extended(padded) \in S[0],
         \A n \in 0 .. 32 - 1 : \A s \in S[n] :
           Boxed(s, n + 1 - 1) \in S[n + 1]
  PROVE  KeySchedule(padded) \in S[32]
  <1> DEFINE k == 32
             first == Extended(padded)
             Body(n, s) == Boxed(s, n - 1)
             Turn(f) == [n \in 0 .. k |-> IF n = 0 THEN first ELSE Body(n, f[n - 1])]
             after == CHOOSE f : f = Turn(f)
             next == [n \in Nat |-> [s \in S[n - 1] |-> Body(n, s)]]
  <1>1. KeySchedule(padded) = after[k]
    BY DEF KeySchedule, Rounds
  <1>2. k \in Nat /\ first \in S[0] /\ \A n \in 0 .. k - 1 : \A s \in S[n] : Body(n + 1, s) \in S[n + 1]
    OBVIOUS
  <1> HIDE DEF Body, after, k, first
  <1>3. \A n \in 0 .. k - 1 : \A s \in S[n] : next[n + 1][s] = Body(n + 1, s)
    BY <1>2, RoundBefore
  <1> HIDE DEF next, Turn
  <1>4. \A n \in 0 .. k - 1 : \A s \in S[n] : next[n + 1][s] \in S[n + 1]
    BY <1>2, <1>3
  <1>5. PICK h : Goes(h, first, next, S, k)
    BY <1>2, <1>4, LoopExists
  <1>6. \A n \in 0 .. k - 1 : h[n + 1] = Body(n + 1, h[n])
    BY <1>3, <1>5 DEF Goes
  <1>7. \A n \in 0 .. k : h[n] = IF n = 0 THEN first ELSE Body(n, h[n - 1])
    BY <1>2, <1>5, <1>6, RoundBefore DEF Goes
  <1>8. h = Turn(h)
    BY <1>5, <1>7 DEF Goes, Turn
  <1>9. after = Turn(after)
    BY <1>8 DEF after
  <1>10. \A n \in 0 .. k : after[n] = IF n = 0 THEN first ELSE Body(n, after[n - 1])
    BY <1>9 DEF Turn
  <1>11. after[0] = first /\ \A n \in 0 .. k - 1 : after[n + 1] = Body(n + 1, after[n])
    BY <1>2, <1>10, RoundAfter
  <1>12. \A n \in 0 .. k : after[n] \in S[n]
    BY <1>2, <1>11, LoopInvariant
  <1>13. after[k] \in S[k] /\ k = 32
    BY <1>2, <1>12, RoundAfter DEF k
  <1> QED
    BY <1>1, <1>13

\* The rounds of encryption.
LEMMA SerpentEncryptRule ==
  ASSUME NEW key, NEW block, 31 \in Nat, NEW S,
         block \in S[0],
         \A n \in 0 .. 31 - 1 : \A s \in S[n] :
           Forward(key, n + 1 - 1)[s] \in S[n + 1]
  PROVE  \E r \in S[31] : SerpentEncryptBlock(key, block) = RoundKey(key, 32, Substitute(SBoxes[8], RoundKey(key, 31, r)))
  <1> DEFINE k == 31
             first == block
             Body(n, s) == Forward(key, n - 1)[s]
             Turn(f) == [n \in 0 .. k |-> IF n = 0 THEN first ELSE Body(n, f[n - 1])]
             after == CHOOSE f : f = Turn(f)
             next == [n \in Nat |-> [s \in S[n - 1] |-> Body(n, s)]]
  <1>1. SerpentEncryptBlock(key, block) = RoundKey(key, 32, Substitute(SBoxes[8], RoundKey(key, 31, after[k])))
    BY DEF SerpentEncryptBlock, Rounds
  <1>2. k \in Nat /\ first \in S[0] /\ \A n \in 0 .. k - 1 : \A s \in S[n] : Body(n + 1, s) \in S[n + 1]
    OBVIOUS
  <1> HIDE DEF Body, after, k, first
  <1>3. \A n \in 0 .. k - 1 : \A s \in S[n] : next[n + 1][s] = Body(n + 1, s)
    BY <1>2, RoundBefore
  <1> HIDE DEF next, Turn
  <1>4. \A n \in 0 .. k - 1 : \A s \in S[n] : next[n + 1][s] \in S[n + 1]
    BY <1>2, <1>3
  <1>5. PICK h : Goes(h, first, next, S, k)
    BY <1>2, <1>4, LoopExists
  <1>6. \A n \in 0 .. k - 1 : h[n + 1] = Body(n + 1, h[n])
    BY <1>3, <1>5 DEF Goes
  <1>7. \A n \in 0 .. k : h[n] = IF n = 0 THEN first ELSE Body(n, h[n - 1])
    BY <1>2, <1>5, <1>6, RoundBefore DEF Goes
  <1>8. h = Turn(h)
    BY <1>5, <1>7 DEF Goes, Turn
  <1>9. after = Turn(after)
    BY <1>8 DEF after
  <1>10. \A n \in 0 .. k : after[n] = IF n = 0 THEN first ELSE Body(n, after[n - 1])
    BY <1>9 DEF Turn
  <1>11. after[0] = first /\ \A n \in 0 .. k - 1 : after[n + 1] = Body(n + 1, after[n])
    BY <1>2, <1>10, RoundAfter
  <1>12. \A n \in 0 .. k : after[n] \in S[n]
    BY <1>2, <1>11, LoopInvariant
  <1>13. after[k] \in S[k] /\ k = 31
    BY <1>2, <1>12, RoundAfter DEF k
  <1> QED
    BY <1>1, <1>13

\* The rounds of decryption.
LEMMA SerpentDecryptRule ==
  ASSUME NEW key, NEW block, 31 \in Nat, NEW S,
         RoundKey(key, 31, Substitute(InverseBoxes[8], RoundKey(key, 32, block))) \in S[0],
         \A n \in 0 .. 31 - 1 : \A s \in S[n] :
           Backward(key, 31 - (n + 1))[s] \in S[n + 1]
  PROVE  SerpentDecryptBlock(key, block) \in S[31]
  <1> DEFINE k == 31
             first == RoundKey(key, 31, Substitute(InverseBoxes[8], RoundKey(key, 32, block)))
             Body(n, s) == Backward(key, 31 - (n))[s]
             Turn(f) == [n \in 0 .. k |-> IF n = 0 THEN first ELSE Body(n, f[n - 1])]
             after == CHOOSE f : f = Turn(f)
             next == [n \in Nat |-> [s \in S[n - 1] |-> Body(n, s)]]
  <1>1. SerpentDecryptBlock(key, block) = after[k]
    BY DEF SerpentDecryptBlock, Rounds
  <1>2. k \in Nat /\ first \in S[0] /\ \A n \in 0 .. k - 1 : \A s \in S[n] : Body(n + 1, s) \in S[n + 1]
    OBVIOUS
  <1> HIDE DEF Body, after, k, first
  <1>3. \A n \in 0 .. k - 1 : \A s \in S[n] : next[n + 1][s] = Body(n + 1, s)
    BY <1>2, RoundBefore
  <1> HIDE DEF next, Turn
  <1>4. \A n \in 0 .. k - 1 : \A s \in S[n] : next[n + 1][s] \in S[n + 1]
    BY <1>2, <1>3
  <1>5. PICK h : Goes(h, first, next, S, k)
    BY <1>2, <1>4, LoopExists
  <1>6. \A n \in 0 .. k - 1 : h[n + 1] = Body(n + 1, h[n])
    BY <1>3, <1>5 DEF Goes
  <1>7. \A n \in 0 .. k : h[n] = IF n = 0 THEN first ELSE Body(n, h[n - 1])
    BY <1>2, <1>5, <1>6, RoundBefore DEF Goes
  <1>8. h = Turn(h)
    BY <1>5, <1>7 DEF Goes, Turn
  <1>9. after = Turn(after)
    BY <1>8 DEF after
  <1>10. \A n \in 0 .. k : after[n] = IF n = 0 THEN first ELSE Body(n, after[n - 1])
    BY <1>9 DEF Turn
  <1>11. after[0] = first /\ \A n \in 0 .. k - 1 : after[n + 1] = Body(n + 1, after[n])
    BY <1>2, <1>10, RoundAfter
  <1>12. \A n \in 0 .. k : after[n] \in S[n]
    BY <1>2, <1>11, LoopInvariant
  <1>13. after[k] \in S[k] /\ k = 31
    BY <1>2, <1>12, RoundAfter DEF k
  <1> QED
    BY <1>1, <1>13
-----------------------------------------------------------------------------
\* A sequence is a function of its places.
LEMMA FunctionAsSequence ==
  ASSUME NEW T, NEW n \in Nat, NEW f \in [1 .. n -> T]
  PROVE  f \in Seq(T) /\ Len(f) = n
  OBVIOUS

\* A sequence is a function, too.
LEMMA SequenceAsFunction ==
  ASSUME NEW T, NEW f \in Seq(T)
  PROVE  f \in [1 .. Len(f) -> T] /\ Len(f) \in Nat
  OBVIOUS

\* What is added twice to a word is gone.
LEMMA SymDiffTwice ==
  ASSUME NEW A, NEW B
  PROVE  SymDiff(SymDiff(A, B), B) = A
  BY DEF SymDiff

\* A word is the sum of its bits.
LEMMA Digits ==
  ASSUME NEW v \in 0 .. 15
  PROVE  v = (IF (v \div 1) % 2 = 1 THEN 1 ELSE 0) + (IF (v \div 2) % 2 = 1 THEN 2 ELSE 0)
               + (IF (v \div 4) % 2 = 1 THEN 4 ELSE 0) + (IF (v \div 8) % 2 = 1 THEN 8 ELSE 0)
  OBVIOUS

\* Every box of the second table undoes the box of the first.
LEMMA BoxInverse ==
  ASSUME NEW k \in 1 .. 8, NEW v \in 0 .. 15
  PROVE  SBoxes[k][v + 1] \in 0 .. 15 /\ InverseBoxes[k][SBoxes[k][v + 1] + 1] = v
  <1>1. CASE k = 1
    BY <1>1 DEF SBoxes, InverseBoxes
  <1>2. CASE k = 2
    BY <1>2 DEF SBoxes, InverseBoxes
  <1>3. CASE k = 3
    BY <1>3 DEF SBoxes, InverseBoxes
  <1>4. CASE k = 4
    BY <1>4 DEF SBoxes, InverseBoxes
  <1>5. CASE k = 5
    BY <1>5 DEF SBoxes, InverseBoxes
  <1>6. CASE k = 6
    BY <1>6 DEF SBoxes, InverseBoxes
  <1>7. CASE k = 7
    BY <1>7 DEF SBoxes, InverseBoxes
  <1>8. CASE k = 8
    BY <1>8 DEF SBoxes, InverseBoxes
  <1> QED
    BY <1>1, <1>2, <1>3, <1>4, <1>5, <1>6, <1>7, <1>8

\* The number that the words of q have at position i.
NibbleAt(q, i) ==
  (IF i \in q[1] THEN 1 ELSE 0) + (IF i \in q[2] THEN 2 ELSE 0)
    + (IF i \in q[3] THEN 4 ELSE 0) + (IF i \in q[4] THEN 8 ELSE 0)

\* What the four bits of a number between 0 and 15 tell of it.
LEMMA NibbleBits ==
  ASSUME NEW q, NEW i
  PROVE  LET v == NibbleAt(q, i)
         IN  /\ v \in 0 .. 15
             /\ (v \div 1) % 2 = 1 <=> i \in q[1]
             /\ (v \div 2) % 2 = 1 <=> i \in q[2]
             /\ (v \div 4) % 2 = 1 <=> i \in q[3]
             /\ (v \div 8) % 2 = 1 <=> i \in q[4]
  BY DEF NibbleAt

\* Where the words of a substitution have their bits.
LEMMA Substitution ==
  ASSUME NEW box, NEW q
  PROVE  LET s == Substitute(box, q)
         IN  /\ s \in Words4
             /\ \A i \in Positions :
                  /\ i \in s[1] <=> (box[NibbleAt(q, i) + 1] \div 1) % 2 = 1
                  /\ i \in s[2] <=> (box[NibbleAt(q, i) + 1] \div 2) % 2 = 1
                  /\ i \in s[3] <=> (box[NibbleAt(q, i) + 1] \div 4) % 2 = 1
                  /\ i \in s[4] <=> (box[NibbleAt(q, i) + 1] \div 8) % 2 = 1
  <1> DEFINE word(w) == {i \in Positions : (box[NibbleAt(q, i) + 1] \div w) % 2 = 1}
             s == <<word(1), word(2), word(4), word(8)>>
  <1>1. Substitute(box, q) = s
    BY DEF Substitute, NibbleAt
  <1>2. \A w : word(w) \in SUBSET Positions
    OBVIOUS
  <1>3. s[1] = word(1) /\ s[2] = word(2) /\ s[3] = word(4) /\ s[4] = word(8)
    OBVIOUS
  <1>4. s \in Words4
    <2> HIDE DEF word
    <2> QED
      BY <1>2 DEF Words4
  <1> HIDE DEF s
  <1> QED
    BY <1>1, <1>3, <1>4

\* The boxes of decryption undo those of encryption.
LEMMA SubstituteBack ==
  ASSUME NEW k \in 1 .. 8, NEW q \in Words4
  PROVE  Substitute(InverseBoxes[k], Substitute(SBoxes[k], q)) = q
  <1> DEFINE s == Substitute(SBoxes[k], q)
             t == Substitute(InverseBoxes[k], s)
  <1>1. s \in Words4 /\ t \in Words4
    BY Substitution
  <1>2. ASSUME NEW i \in Positions
        PROVE  /\ i \in t[1] <=> i \in q[1]
               /\ i \in t[2] <=> i \in q[2]
               /\ i \in t[3] <=> i \in q[3]
               /\ i \in t[4] <=> i \in q[4]
    <2> DEFINE n == NibbleAt(q, i)
               v == SBoxes[k][n + 1]
               m == NibbleAt(s, i)
    <2>1. n \in 0 .. 15
      BY NibbleBits
    <2>2. v \in 0 .. 15 /\ InverseBoxes[k][v + 1] = n
      BY <2>1, BoxInverse
    <2>3. /\ i \in s[1] <=> (v \div 1) % 2 = 1
          /\ i \in s[2] <=> (v \div 2) % 2 = 1
          /\ i \in s[3] <=> (v \div 4) % 2 = 1
          /\ i \in s[4] <=> (v \div 8) % 2 = 1
      BY Substitution
    <2>4. m = (IF (v \div 1) % 2 = 1 THEN 1 ELSE 0) + (IF (v \div 2) % 2 = 1 THEN 2 ELSE 0)
               + (IF (v \div 4) % 2 = 1 THEN 4 ELSE 0) + (IF (v \div 8) % 2 = 1 THEN 8 ELSE 0)
      <3> HIDE DEF v, s
      <3> QED
        BY <2>3 DEF NibbleAt
    <2>5. m = v
      <3> HIDE DEF v, m
      <3> QED
        BY <2>2, <2>4, Digits
    <2>6. InverseBoxes[k][m + 1] = n
      BY <2>2, <2>5
    <2>7. /\ i \in t[1] <=> (InverseBoxes[k][m + 1] \div 1) % 2 = 1
          /\ i \in t[2] <=> (InverseBoxes[k][m + 1] \div 2) % 2 = 1
          /\ i \in t[3] <=> (InverseBoxes[k][m + 1] \div 4) % 2 = 1
          /\ i \in t[4] <=> (InverseBoxes[k][m + 1] \div 8) % 2 = 1
      BY Substitution
    <2>8. /\ (n \div 1) % 2 = 1 <=> i \in q[1]
          /\ (n \div 2) % 2 = 1 <=> i \in q[2]
          /\ (n \div 4) % 2 = 1 <=> i \in q[3]
          /\ (n \div 8) % 2 = 1 <=> i \in q[4]
      BY NibbleBits
    <2> HIDE DEF n, m, v, t, s
    <2> QED
      BY <2>6, <2>7, <2>8
  <1> HIDE DEF s, t
  <1>3. t[1] = q[1] /\ t[2] = q[2] /\ t[3] = q[3] /\ t[4] = q[4]
    BY <1>1, <1>2 DEF Words4
  <1>4. t = q
    BY <1>1, <1>3 DEF Words4
  <1> QED
    BY <1>4 DEF s, t

\* So do the turns of their words, and adding the key again.
LEMMA RotateBack ==
  ASSUME NEW x \in SUBSET Positions, NEW n \in 0 .. 31
  PROVE  /\ RotateLeft(x, n) \in SUBSET Positions
         /\ RotateRight(RotateLeft(x, n), n) = x
  <1>1. \A i \in Positions : /\ (i + n) % 32 \in Positions
                             /\ (((i + n) % 32) + 32 - n) % 32 = i
    BY DEF Positions
  <1>2. RotateLeft(x, n) \in SUBSET Positions
    BY <1>1 DEF RotateLeft
  <1>3. RotateRight(RotateLeft(x, n), n) = x
    BY <1>1 DEF RotateLeft, RotateRight
  <1> QED
    BY <1>2, <1>3

\* Adding a key twice changes nothing.
LEMMA XorBack ==
  ASSUME NEW x, NEW y, NEW z
  PROVE  Xor3(Xor3(x, y, z), y, z) = x
  BY DEF Xor3, SymDiff

\* Sums of words are words.
LEMMA XorType ==
  ASSUME NEW x \in SUBSET Positions, NEW y \in SUBSET Positions, NEW z \in SUBSET Positions
  PROVE  Xor3(x, y, z) \in SUBSET Positions
  BY DEF Xor3, SymDiff

\* The linear transformation of a round is undone by its inverse.
LEMMA RotBack ==
  ASSUME NEW q \in Words4
  PROVE  Rot(q) \in Words4 /\ Irot(Rot(q)) = q
  <1> DEFINE a == RotateLeft(q[1], 13)
             c == RotateLeft(q[3], 3)
             dx == Xor3(q[4], c, ShiftLeft(a, 3))
             d == RotateLeft(dx, 7)
             bx == Xor3(q[2], a, c)
             b == RotateLeft(bx, 1)
             ax == Xor3(a, b, d)
             cx == Xor3(c, d, ShiftLeft(b, 7))
             r == <<RotateLeft(ax, 5), b, RotateLeft(cx, 22), d>>
  <1>1. Rot(q) = r
    BY DEF Rot
  <1>2. q[1] \in SUBSET Positions /\ q[2] \in SUBSET Positions
        /\ q[3] \in SUBSET Positions /\ q[4] \in SUBSET Positions
    BY DEF Words4
  <1>3. \A x : ShiftLeft(x, 3) \in SUBSET Positions /\ ShiftLeft(x, 7) \in SUBSET Positions
    BY DEF ShiftLeft
  <1>4. a \in SUBSET Positions /\ c \in SUBSET Positions
    BY <1>2, RotateBack
  <1>5. dx \in SUBSET Positions /\ bx \in SUBSET Positions
    BY <1>2, <1>3, <1>4, XorType
  <1>6. d \in SUBSET Positions /\ b \in SUBSET Positions
    BY <1>5, RotateBack
  <1>7. ax \in SUBSET Positions /\ cx \in SUBSET Positions
    BY <1>3, <1>4, <1>6, XorType
  <1>8. RotateLeft(ax, 5) \in SUBSET Positions /\ RotateLeft(cx, 22) \in SUBSET Positions
    BY <1>7, RotateBack
  <1>9. RotateRight(RotateLeft(ax, 5), 5) = ax /\ RotateRight(RotateLeft(cx, 22), 22) = cx
    BY <1>7, RotateBack
  <1>10. RotateRight(d, 7) = dx /\ RotateRight(b, 1) = bx
    BY <1>5, RotateBack
  <1>11. RotateRight(a, 13) = q[1] /\ RotateRight(c, 3) = q[3]
    BY <1>2, RotateBack
  <1>12. /\ Xor3(cx, d, ShiftLeft(b, 7)) = c
         /\ Xor3(ax, b, d) = a
         /\ Xor3(bx, a, c) = q[2]
         /\ Xor3(dx, c, ShiftLeft(a, 3)) = q[4]
    BY XorBack
  <1> HIDE DEF a, b, c, d, ax, bx, cx, dx
  <1>13. r[1] = RotateLeft(ax, 5) /\ r[2] = b /\ r[3] = RotateLeft(cx, 22) /\ r[4] = d
    OBVIOUS
  <1>14. r \in Words4
    BY <1>6, <1>8 DEF Words4
  <1> HIDE DEF r
  <1>15. Irot(r) = <<q[1], q[2], q[3], q[4]>>
    BY <1>9, <1>10, <1>11, <1>12, <1>13 DEF Irot
  <1>16. <<q[1], q[2], q[3], q[4]>> = q
    BY DEF Words4
  <1> QED
    BY <1>1, <1>14, <1>15, <1>16

\* The words of the prekey.
Keys140 == [1 .. 140 -> SUBSET Positions]

\* The key of a round is taken away again.
LEMMA RoundKeyBack ==
  ASSUME NEW key \in Keys140, NEW r \in 0 .. 32, NEW q \in Words4
  PROVE  RoundKey(key, r, q) \in Words4 /\ RoundKey(key, r, RoundKey(key, r, q)) = q
  <1> DEFINE k == 4 * r + 8
             x == <<SymDiff(q[1], key[k + 1]), SymDiff(q[2], key[k + 2]),
                    SymDiff(q[3], key[k + 3]), SymDiff(q[4], key[k + 4])>>
  <1>1. RoundKey(key, r, q) = x
    BY DEF RoundKey
  <1>2. /\ key[k + 1] \in SUBSET Positions /\ key[k + 2] \in SUBSET Positions
        /\ key[k + 3] \in SUBSET Positions /\ key[k + 4] \in SUBSET Positions
        /\ q[1] \in SUBSET Positions /\ q[2] \in SUBSET Positions
        /\ q[3] \in SUBSET Positions /\ q[4] \in SUBSET Positions
    BY DEF Keys140, Words4
  <1>3. \A y, z \in SUBSET Positions : SymDiff(y, z) \in SUBSET Positions
    BY DEF SymDiff
  <1>4. x \in Words4
    BY <1>2, <1>3 DEF Words4
  <1>5. RoundKey(key, r, x) = <<q[1], q[2], q[3], q[4]>>
    BY SymDiffTwice DEF RoundKey
  <1>6. <<q[1], q[2], q[3], q[4]>> = q
    BY DEF Words4
  <1> QED
    BY <1>1, <1>4, <1>5, <1>6

\* A round of decryption undoes the one of encryption with the same number.
LEMMA RoundBack ==
  ASSUME NEW key \in Keys140, NEW r \in 0 .. 30, NEW q \in Words4
  PROVE  Forward(key, r)[q] \in Words4 /\ Backward(key, r)[Forward(key, r)[q]] = q
  <1> DEFINE k == (r % 8) + 1
             x == RoundKey(key, r, q)
             y == Substitute(SBoxes[k], x)
             z == Rot(y)
  <1>1. k \in 1 .. 8
    OBVIOUS
  <1>2. Forward(key, r)[q] = z
    BY DEF Forward
  <1>3. x \in Words4 /\ RoundKey(key, r, x) = q
    BY RoundKeyBack
  <1>4. y \in Words4 /\ Substitute(InverseBoxes[k], y) = x
    BY <1>1, <1>3, Substitution, SubstituteBack
  <1>5. z \in Words4 /\ Irot(z) = y
    BY <1>4, RotBack
  <1>6. Backward(key, r)[z] = RoundKey(key, r, Substitute(InverseBoxes[k], Irot(z)))
    BY <1>5 DEF Backward
  <1> QED
    BY <1>2, <1>3, <1>4, <1>5, <1>6

\* A key of eight words is extended to 140, and the boxes leave it so.
LEMMA RightType ==
  ASSUME NEW x, x \subseteq Int, NEW n \in 0 .. 31
  PROVE  RotateRight(x, n) \in SUBSET Positions
  <1>1. \A i \in Int : (i + 32 - n) % 32 \in Positions
    BY DEF Positions
  <1> QED
    BY <1>1 DEF RotateRight

\* Four words more make a sequence longer by four.
LEMMA FourMore ==
  ASSUME NEW T, NEW f \in Seq(T), NEW a \in T, NEW b \in T, NEW c \in T, NEW d \in T
  PROVE  f \o <<a, b, c, d>> \in Seq(T) /\ Len(f \o <<a, b, c, d>>) = Len(f) + 4
  <1>1. <<a, b, c, d>> \in Seq(T) /\ Len(<<a, b, c, d>>) = 4
    OBVIOUS
  <1> QED
    BY <1>1

\* The prekey has a word at every place, of which the first eight are given.
LEMMA Extension ==
  ASSUME NEW padded \in [1 .. 8 -> SUBSET Positions]
  PROVE  Extended(padded) \in Keys140
  <1> DEFINE S == [n \in 0 .. 33 |-> {k \in Seq(SUBSET Positions) : Len(k) = 8 + 4 * n}]
  <1>1. padded \in S[0]
    <2>1. padded \in Seq(SUBSET Positions) /\ Len(padded) = 8
      BY FunctionAsSequence
    <2> QED
      BY <2>1
  <1>2. ASSUME NEW n \in 0 .. 33 - 1, NEW s \in S[n]
        PROVE  Lengthen(s) \in S[n + 1]
    <2> DEFINE i == Len(s) - 8
               word(m, x, y, z, last) ==
                 RotateRight(Xor3(Xor3(Bits(i + m), AA, x), SymDiff(y, z), last), 21)
               a == word(0, s[i + 1], s[i + 4], s[i + 6], s[i + 8])
               b == word(1, s[i + 2], s[i + 5], s[i + 7], a)
               c == word(2, s[i + 3], s[i + 6], s[i + 8], b)
               d == word(3, s[i + 4], s[i + 7], a, c)
    <2>1. Lengthen(s) = s \o <<a, b, c, d>>
      BY DEF Lengthen
    <2>2. /\ s \in Seq(SUBSET Positions) /\ Len(s) = 8 + 4 * n /\ i = 4 * n
      BY <1>2
    <2> HIDE DEF S, i
    <2>3. \A j \in 1 .. 8 : s[i + j] \in SUBSET Int
      <3>1. \A j \in 1 .. 8 : i + j \in 1 .. Len(s)
        BY <2>2
      <3>2. \A j \in 1 .. Len(s) : s[j] \in SUBSET Positions
        BY <2>2
      <3>3. \A x \in SUBSET Positions : x \in SUBSET Int
        BY DEF Positions
      <3> QED
        BY <3>1, <3>2, <3>3
    <2>4. ASSUME NEW m, NEW x \in SUBSET Int, NEW y \in SUBSET Int, NEW z \in SUBSET Int,
                 NEW last \in SUBSET Int
          PROVE  word(m, x, y, z, last) \in SUBSET Positions
      <3>1. \A k : Bits(k) \in SUBSET Int
        BY DEF Bits
      <3>2. AA \in SUBSET Int
        BY <3>1 DEF AA, Halves
      <3>3. \A u, v \in SUBSET Int : SymDiff(u, v) \in SUBSET Int
        BY DEF SymDiff
      <3>4. \A u, v, w \in SUBSET Int : Xor3(u, v, w) \in SUBSET Int
        BY <3>3 DEF Xor3
      <3>5. Xor3(Xor3(Bits(i + m), AA, x), SymDiff(y, z), last) \in SUBSET Int
        BY <3>1, <3>2, <3>3, <3>4
      <3> QED
        BY <3>5, RightType
    <2>5. \A x \in SUBSET Positions : x \in SUBSET Int
      BY DEF Positions
    <2> HIDE DEF word
    <2>6. a \in SUBSET Positions
      BY <2>3, <2>4
    <2> HIDE DEF a
    <2>7. b \in SUBSET Positions
      BY <2>3, <2>4, <2>5, <2>6
    <2> HIDE DEF b
    <2>8. c \in SUBSET Positions
      BY <2>3, <2>4, <2>5, <2>7
    <2> HIDE DEF c
    <2>9. d \in SUBSET Positions
      BY <2>3, <2>4, <2>5, <2>6, <2>8
    <2> HIDE DEF d
    <2>10. s \o <<a, b, c, d>> \in Seq(SUBSET Positions) /\ Len(s \o <<a, b, c, d>>) = Len(s) + 4
      BY <2>2, <2>6, <2>7, <2>8, <2>9, FourMore
    <2>11. Len(s \o <<a, b, c, d>>) = 8 + 4 * (n + 1)
      BY <2>2, <2>10
    <2>12. n + 1 \in 0 .. 33
      OBVIOUS
    <2> QED
      BY <2>1, <2>10, <2>11, <2>12 DEF S
  <1> HIDE DEF S
  <1>3. \A n \in 0 .. 33 - 1 : \A s \in S[n] : Lengthen(s) \in S[n + 1]
    BY <1>2
  <1>4. Extended(padded) \in S[33]
    BY <1>1, <1>3, ExtendedRule
  <1>5. Extended(padded) \in Seq(SUBSET Positions) /\ Len(Extended(padded)) = 140
    BY <1>4 DEF S
  <1> QED
    BY <1>5, SequenceAsFunction DEF Keys140

\* The key schedule has a word at every place, for any key.
LEMMA Schedule ==
  ASSUME NEW padded \in [1 .. 8 -> SUBSET Positions]
  PROVE  KeySchedule(padded) \in Keys140
  <1> DEFINE S == [n \in 0 .. 32 |-> Keys140]
  <1>1. Extended(padded) \in S[0]
    BY Extension
  <1>2. ASSUME NEW n \in 0 .. 32 - 1, NEW s \in S[n]
        PROVE  Boxed(s, n + 1 - 1) \in S[n + 1]
    <2> DEFINE r == n + 1 - 1
               g == 4 * (r - (r % 8)) + (r % 8) + 8
               q == Substitute(SBoxes[((35 - r) % 8) + 1], <<s[g + 1], s[g + 2], s[g + 3], s[g + 4]>>)
    <2>1. Boxed(s, r) = [s EXCEPT ![g + 1] = q[1], ![g + 2] = q[2], ![g + 3] = q[3], ![g + 4] = q[4]]
      BY DEF Boxed
    <2>2. q \in Words4
      BY Substitution
    <2>3. q[1] \in SUBSET Positions /\ q[2] \in SUBSET Positions
          /\ q[3] \in SUBSET Positions /\ q[4] \in SUBSET Positions
      BY <2>2 DEF Words4
    <2> HIDE DEF q, g, r
    <2>4. s \in Keys140
      BY <1>2
    <2>5. [s EXCEPT ![g + 1] = q[1], ![g + 2] = q[2], ![g + 3] = q[3], ![g + 4] = q[4]] \in Keys140
      BY <2>3, <2>4 DEF Keys140
    <2>6. Boxed(s, r) \in Keys140
      BY <2>1, <2>5
    <2> QED
      BY <2>6 DEF r
  <1>3. \A n \in 0 .. 32 - 1 : \A s \in S[n] : Boxed(s, n + 1 - 1) \in S[n + 1]
    BY <1>2
  <1> HIDE DEF S
  <1>4. KeySchedule(padded) \in S[32]
    BY <1>1, <1>3, KeyScheduleRule
  <1> QED
    BY <1>4 DEF S

\* A block is decrypted to what it was, with any 140 words for a key.
LEMMA SerpentBlock ==
  ASSUME NEW key \in Keys140, NEW block \in Words4
  PROVE  SerpentDecryptBlock(key, SerpentEncryptBlock(key, block)) = block
  <1> DEFINE next == [n \in Nat |-> Forward(key, n - 1)]
             e == LoopOf(block, next)
             x == RoundKey(key, 31, e[31])
             y == Substitute(SBoxes[8], x)
             z == RoundKey(key, 32, y)
             first == RoundKey(key, 31, Substitute(InverseBoxes[8], RoundKey(key, 32, z)))
             A == [n \in 0 .. 31 |-> {e[n]}]
             B == [n \in 0 .. 31 |-> {e[31 - n]}]
  <1>1. e[0] = block /\ \A n \in Nat : e[n + 1] = next[n + 1][e[n]]
    <2>1. IsLoop(e, block, next)
      BY LoopSteps
    <2> QED
      BY <2>1 DEF IsLoop
  <1>2. \A n \in 0 .. 30 : next[n + 1] = Forward(key, n)
    OBVIOUS
  <1> HIDE DEF next, e
  <1>3. \A n \in 0 .. 31 - 1 : e[n + 1] = Forward(key, n)[e[n]]
    BY <1>1, <1>2
  <1>4. \A n \in 0 .. 31 : e[n] \in Words4
    <2> DEFINE W == [n \in 0 .. 31 |-> Words4]
    <2>1. e[0] \in W[0]
      BY <1>1
    <2>2. \A n \in 0 .. 31 - 1 : e[n] \in W[n] => e[n + 1] \in W[n + 1]
      BY <1>3, RoundBack
    <2> HIDE DEF W
    <2>3. \A n \in 0 .. 31 : e[n] \in W[n]
      BY <2>1, <2>2, LoopInvariant
    <2> QED
      BY <2>3 DEF W
  <1>5. SerpentEncryptBlock(key, block) = z
    <2>1. block \in A[0]
      BY <1>1
    <2>2. ASSUME NEW n \in 0 .. 31 - 1, NEW s \in A[n]
          PROVE  Forward(key, n + 1 - 1)[s] \in A[n + 1]
      BY <1>3, <2>2
    <2> HIDE DEF A, z, y, x
    <2>3. \E r \in A[31] : SerpentEncryptBlock(key, block)
                             = RoundKey(key, 32, Substitute(SBoxes[8], RoundKey(key, 31, r)))
      BY <2>1, <2>2, SerpentEncryptRule
    <2>4. \A r \in A[31] : r = e[31]
      BY DEF A
    <2> QED
      BY <2>3, <2>4 DEF z, y, x
  <1>6. first = e[31]
    <2>1. x \in Words4 /\ RoundKey(key, 31, x) = e[31]
      BY <1>4, RoundKeyBack
    <2>2. y \in Words4 /\ Substitute(InverseBoxes[8], y) = x
      BY <2>1, Substitution, SubstituteBack
    <2>3. RoundKey(key, 32, z) = y
      BY <2>2, RoundKeyBack
    <2> QED
      BY <2>1, <2>2, <2>3
  <1> HIDE DEF z
  <1>7. SerpentDecryptBlock(key, z) = block
    <2>1. first \in B[0]
      BY <1>6
    <2>2. ASSUME NEW n \in 0 .. 31 - 1, NEW s \in B[n]
          PROVE  Backward(key, 31 - (n + 1))[s] \in B[n + 1]
      <3> DEFINE r == 31 - (n + 1)
      <3>1. r \in 0 .. 30 /\ 31 - n = r + 1
        OBVIOUS
      <3>2. s = e[r + 1]
        BY <2>2, <3>1
      <3>3. B[n + 1] = {e[r]}
        OBVIOUS
      <3> HIDE DEF r, B
      <3>4. e[r + 1] = Forward(key, r)[e[r]] /\ e[r] \in Words4
        BY <1>3, <1>4, <3>1
      <3>5. Backward(key, r)[s] = e[r]
        BY <3>1, <3>2, <3>4, RoundBack
      <3>6. Backward(key, r)[s] \in B[n + 1]
        BY <3>3, <3>5
      <3> QED
        BY <3>6 DEF r
    <2> HIDE DEF B
    <2>3. RoundKey(key, 31, Substitute(InverseBoxes[8], RoundKey(key, 32, z))) \in B[0]
      BY <2>1
    <2>4. SerpentDecryptBlock(key, z) \in B[31]
      BY <2>2, <2>3, SerpentDecryptRule
    <2>5. SerpentDecryptBlock(key, z) = e[0]
      BY <2>4 DEF B
    <2> QED
      BY <1>1, <2>5
  <1> QED
    BY <1>5, <1>7

\* What is decrypted with a key of any length is what was encrypted, and bits
\* beyond the key's length do not count.
THEOREM SerpentInverts ==
  ASSUME NEW words \in [1 .. 8 -> SUBSET Positions], NEW keyLen \in Nat, NEW block \in Words4
  PROVE  SerpentOK(words, keyLen, block)
  <1> DEFINE cut == [i \in 1 .. 8 |-> {b \in words[i] : 32 * (i - 1) + b < keyLen}]
             key == KeySchedule(Padded(words, keyLen))
  <1>1. CASE keyLen > 256
    BY <1>1 DEF SerpentOK, SerpentInit
  <1>2. CASE ~ (keyLen > 256)
    <2> DEFINE last == keyLen \div 32
               rest == keyLen % 32
    <2>1. keyLen = 32 * last + rest /\ last \in Nat /\ rest \in 0 .. 31 /\ keyLen <= 256
      BY <1>2
    <2>2. Padded(words, keyLen) \in [1 .. 8 -> SUBSET Positions]
      <3>1. rest \in Positions
        BY DEF Positions
      <3> QED
        BY <3>1 DEF Padded
    <2>3. key \in Keys140
      BY <2>2, Schedule
    <2>4. Padded(cut, keyLen) = Padded(words, keyLen)
      <3>1. ASSUME NEW i \in 1 .. 8, keyLen = 256 \/ i <= last
            PROVE  cut[i] = words[i]
        <4>1. \A b \in Positions : 32 * (i - 1) + b < keyLen
          BY <2>1, <3>1 DEF Positions
        <4>2. words[i] \in SUBSET Positions
          OBVIOUS
        <4> QED
          BY <4>1, <4>2
      <3>2. ASSUME NEW i \in 1 .. 8, i = last + 1
            PROVE  {b \in cut[i] : b < rest} = {b \in words[i] : b < rest}
        <4>1. \A b \in Positions : b < rest => 32 * (i - 1) + b < keyLen
          BY <2>1, <3>2 DEF Positions
        <4>2. words[i] \in SUBSET Positions
          OBVIOUS
        <4> HIDE DEF rest
        <4> QED
          BY <4>1, <4>2
      <3> HIDE DEF cut
      <3>3. \A i \in 1 .. 8 :
              (IF keyLen = 256 \/ i <= last THEN cut[i]
               ELSE IF i > last + 1 THEN {}
               ELSE {rest} \cup {b \in IF rest = 0 THEN {} ELSE cut[i] : b < rest})
              = (IF keyLen = 256 \/ i <= last THEN words[i]
                 ELSE IF i > last + 1 THEN {}
                 ELSE {rest} \cup {b \in IF rest = 0 THEN {} ELSE words[i] : b < rest})
        <4> SUFFICES ASSUME NEW i \in 1 .. 8
                     PROVE (IF keyLen = 256 \/ i <= last THEN cut[i]
                            ELSE IF i > last + 1 THEN {}
                            ELSE {rest} \cup {b \in IF rest = 0 THEN {} ELSE cut[i] : b < rest})
                           = (IF keyLen = 256 \/ i <= last THEN words[i]
                              ELSE IF i > last + 1 THEN {}
                              ELSE {rest} \cup {b \in IF rest = 0 THEN {} ELSE words[i] : b < rest})
          OBVIOUS
        <4>1. CASE keyLen = 256 \/ i <= last
          BY <3>1, <4>1
        <4>2. CASE ~ (keyLen = 256 \/ i <= last) /\ i > last + 1
          BY <4>2
        <4>3. CASE ~ (keyLen = 256 \/ i <= last) /\ ~ (i > last + 1)
          <5>1. i = last + 1
            BY <2>1, <4>3
          <5>2. {b \in cut[i] : b < rest} = {b \in words[i] : b < rest}
            BY <3>2, <5>1
          <5> QED
            BY <4>3, <5>2
        <4> QED
          BY <4>1, <4>2, <4>3
      <3> QED
        BY <3>3 DEF Padded
    <2>5. /\ SerpentInit(words, keyLen) = [ret |-> "ok", key |-> key]
          /\ SerpentInit(cut, keyLen) = [ret |-> "ok", key |-> key]
      <3> HIDE DEF cut
      <3> QED
        BY <1>2, <2>4 DEF SerpentInit
    <2>6. SerpentDecrypt(key, SerpentEncrypt(key, <<block>>)) = <<block>>
      <3> HIDE DEF key
      <3>1. SerpentDecryptBlock(key, SerpentEncryptBlock(key, block)) = block
        BY <2>3, SerpentBlock
      <3>2. SerpentEncrypt(key, <<block>>) = <<SerpentEncryptBlock(key, block)>>
        BY DEF SerpentEncrypt
      <3>3. SerpentDecrypt(key, <<SerpentEncryptBlock(key, block)>>)
              = <<SerpentDecryptBlock(key, SerpentEncryptBlock(key, block))>>
        BY DEF SerpentDecrypt
      <3> QED
        BY <3>1, <3>2, <3>3
    <2>7. SerpentOK(words, keyLen, block)
            <=> /\ SerpentDecrypt(SerpentInit(words, keyLen).key,
                                  SerpentEncrypt(SerpentInit(words, keyLen).key, <<block>>)) = <<block>>
                /\ SerpentInit(cut, keyLen) = SerpentInit(words, keyLen)
      BY <1>2 DEF SerpentOK
    <2> HIDE DEF cut, key
    <2>8. SerpentInit(words, keyLen).key = key
      BY <2>5
    <2> QED
      BY <2>5, <2>6, <2>7, <2>8
  <1> QED
    BY <1>1, <1>2
-----------------------------------------------------------------------------
\* Blowfish: a block is two words, and the subkeys are words.
Pairs == Word \X Word

\* A context whose P is complete.
Subkeyed(c) == c.P \in [0 .. BlowfishN + 1 -> Word]

\* The four bytes of a word.
LEMMA WordParts ==
  /\ \A x \in Word : /\ x[1] \in Byte /\ x[2] \in Byte /\ x[3] \in Byte /\ x[4] \in Byte
                     /\ x = <<x[1], x[2], x[3], x[4]>>
  /\ \A a, b, c, d \in Byte : <<a, b, c, d>> \in Word
  BY DEF Word

\* Sums of words are words.
LEMMA XorWord ==
  /\ \A x, y \in Word : Xor(x, y) \in Word
  /\ \A x \in Word : \A y : Xor(Xor(x, y), y) = x
  <1>1. ASSUME NEW x \in Word, NEW y \in Word PROVE Xor(x, y) \in Word
    <2>1. \A a, b \in Byte : SymDiff(a, b) \in Byte
      BY DEF Byte, SymDiff
    <2> QED
      BY <2>1, WordParts DEF Xor
  <1>2. ASSUME NEW x \in Word, NEW y PROVE Xor(Xor(x, y), y) = x
    <2>1. Xor(Xor(x, y), y) = <<x[1], x[2], x[3], x[4]>>
      BY SymDiffTwice DEF Xor
    <2> QED
      BY <2>1, WordParts
  <1> QED
    BY <1>1, <1>2

\* The function F of a round gives a word.
LEMMA FWord ==
  ASSUME NEW s, NEW x
  PROVE  F(s, x) \in Word
  <1>1. \A u, v : Plus(u, v) \in Word
    <2> SUFFICES ASSUME NEW u, NEW v PROVE Plus(u, v) \in Word
      OBVIOUS
    <2> DEFINE sum == WordNumber(u) + WordNumber(v)
               byte(i) == {b \in 0 .. ByteBits - 1 : (sum \div 2 ^ (ByteBits * (4 - i) + b)) % 2 = 1}
    <2>1. \A i : byte(i) \in Byte
      BY DEF Byte
    <2>2. Plus(u, v) = <<byte(1), byte(2), byte(3), byte(4)>>
      BY DEF Plus
    <2> HIDE DEF byte
    <2> QED
      BY <2>1, <2>2, WordParts
  <1> QED
    BY <1>1 DEF F

\* One round of the network, and a way back.
LEMMA SwappedPairs ==
  ASSUME NEW b \in Pairs
  PROVE  Swapped(b) \in Pairs /\ Swapped(Swapped(b)) = b
  BY DEF Swapped, Pairs

\* Whitening with the two last subkeys is undone by whitening again.
LEMMA WhitenedBack ==
  ASSUME NEW p \in Word, NEW b \in Pairs
  PROVE  Whitened(p, b) \in Pairs /\ Whitened(p, Whitened(p, b)) = b
  <1>1. b[1] \in Word /\ b[2] \in Word /\ b = <<b[1], b[2]>>
    BY DEF Pairs
  <1>2. Xor(b[1], p) \in Word /\ Xor(Xor(b[1], p), p) = b[1]
    BY <1>1, XorWord
  <1> QED
    BY <1>1, <1>2 DEF Whitened, Pairs

\* A round gives a pair of words.
LEMMA TurnedPairs ==
  ASSUME NEW c, NEW p \in Word, NEW b \in Pairs
  PROVE  Turned(c, p, b) \in Pairs
  <1>1. b[1] \in Word /\ b[2] \in Word
    BY DEF Pairs
  <1>2. F(c.S, b[1]) \in Word
    BY FWord
  <1>3. Xor(F(c.S, b[1]), p) \in Word
    BY <1>2, XorWord
  <1>4. Xor(b[2], Xor(F(c.S, b[1]), p)) \in Word
    BY <1>1, <1>3, XorWord
  <1> QED
    BY <1>1, <1>4 DEF Turned, Pairs

\* A round with its halves swapped before and after undoes itself.
LEMMA TurnedBack ==
  ASSUME NEW c, NEW p \in Word, NEW b \in Pairs
  PROVE  Turned(c, p, Swapped(Turned(c, p, b))) = Swapped(b)
  <1>1. b[1] \in Word /\ b[2] \in Word
    BY DEF Pairs
  <1>2. Xor(Xor(b[2], Xor(F(c.S, b[1]), p)), Xor(F(c.S, b[1]), p)) = b[2]
    BY <1>1, XorWord
  <1> QED
    BY <1>2 DEF Turned, Swapped

\* e[n] is the state of the network after n rounds.
IsTrace(e, c, first0, order, block) ==
  /\ e[0] = Whitened(c.P[first0], block)
  /\ \A n \in 0 .. BlowfishN : e[n] \in Pairs
  /\ \A n \in 0 .. BlowfishN - 1 : e[n + 1] = Turned(c, c.P[order[n + 1]], e[n])

\* The rounds backwards pass the states of the rounds forwards, halves swapped.
LEMMA FeistelTrace ==
  ASSUME NEW c, Subkeyed(c), NEW first0 \in 0 .. BlowfishN + 1, NEW last0 \in 0 .. BlowfishN + 1,
         NEW order \in [1 .. BlowfishN -> 0 .. BlowfishN + 1], NEW block \in Pairs
  PROVE  \E e : /\ IsTrace(e, c, first0, order, block)
                /\ Feistel(c, first0, order, last0, block) = Whitened(c.P[last0], Swapped(e[BlowfishN]))
                /\ Feistel(c, first0, order, last0, block) \in Pairs
  <1> DEFINE start == Whitened(c.P[first0], block)
             next == [n \in Nat |-> [b \in Pairs |-> Turned(c, c.P[order[n]], b)]]
             e == LoopOf(start, next)
             W == [n \in 0 .. BlowfishN |-> Pairs]
             S == [n \in 0 .. BlowfishN |-> {e[n]}]
  <1>0. BlowfishN \in Nat
    BY CiphersAssumption
  <1>1. e[0] = start /\ \A n \in Nat : e[n + 1] = next[n + 1][e[n]]
    <2>1. IsLoop(e, start, next)
      BY LoopSteps
    <2> QED
      BY <2>1 DEF IsLoop
  <1>2. start \in Pairs
    <2>1. c.P[first0] \in Word
      BY DEF Subkeyed
    <2> QED
      BY <2>1, WhitenedBack
  <1>3. \A n \in 0 .. BlowfishN - 1 : c.P[order[n + 1]] \in Word
    BY <1>0 DEF Subkeyed
  <1>4. \A n \in 0 .. BlowfishN - 1 : \A b \in Pairs : next[n + 1][b] = Turned(c, c.P[order[n + 1]], b)
    BY <1>0
  <1>5. \A n \in 0 .. BlowfishN - 1 : n \in Nat /\ n \in 0 .. BlowfishN /\ n + 1 \in 0 .. BlowfishN
    BY <1>0
  <1> HIDE DEF next, start, e
  <1>6. \A n \in 0 .. BlowfishN : e[n] \in Pairs
    <2>1. e[0] \in W[0]
      BY <1>0, <1>1, <1>2
    <2>2. ASSUME NEW n \in 0 .. BlowfishN - 1, e[n] \in W[n]
          PROVE  e[n + 1] \in W[n + 1]
      <3>1. e[n] \in Pairs /\ n \in Nat /\ W[n + 1] = Pairs
        BY <1>5, <2>2
      <3> HIDE DEF W
      <3>2. e[n + 1] = Turned(c, c.P[order[n + 1]], e[n])
        BY <1>1, <1>4, <3>1
      <3>3. Turned(c, c.P[order[n + 1]], e[n]) \in Pairs
        BY <1>3, <3>1, TurnedPairs
      <3> QED
        BY <3>1, <3>2, <3>3
    <2> HIDE DEF W
    <2>3. \A n \in 0 .. BlowfishN : e[n] \in W[n]
      BY <1>0, <2>1, <2>2, LoopInvariant
    <2> QED
      BY <2>3 DEF W
  <1>7. ASSUME NEW n \in 0 .. BlowfishN - 1
        PROVE  e[n + 1] = Turned(c, c.P[order[n + 1]], e[n])
    <2>1. e[n] \in Pairs /\ n \in Nat
      BY <1>5, <1>6
    <2>2. e[n + 1] = next[n + 1][e[n]]
      BY <1>1, <2>1
    <2>3. next[n + 1][e[n]] = Turned(c, c.P[order[n + 1]], e[n])
      BY <1>4, <2>1
    <2> QED
      BY <2>2, <2>3
  <1>8. Feistel(c, first0, order, last0, block) = Whitened(c.P[last0], Swapped(e[BlowfishN]))
    <2>1. Whitened(c.P[first0], block) \in S[0]
      BY <1>0, <1>1 DEF start
    <2>2. ASSUME NEW n \in 0 .. BlowfishN - 1, NEW s \in S[n]
          PROVE  Turned(c, c.P[order[n + 1]], s) \in S[n + 1]
      <3>1. s = e[n] /\ S[n + 1] = {e[n + 1]}
        BY <1>5, <2>2
      <3> QED
        BY <1>7, <3>1
    <2>3. \A n \in 0 .. BlowfishN - 1 : \A s \in S[n] : Turned(c, c.P[order[n + 1]], s) \in S[n + 1]
      BY <2>2
    <2> HIDE DEF S
    <2>4. Network(c, order, start) \in S[BlowfishN]
      BY <1>0, <2>1, <2>3, NetworkRule DEF start
    <2>5. Network(c, order, start) = e[BlowfishN]
      BY <1>0, <2>4 DEF S
    <2> QED
      BY <2>5 DEF Feistel, start
  <1>9. Feistel(c, first0, order, last0, block) \in Pairs
    <2>1. e[BlowfishN] \in Pairs /\ c.P[last0] \in Word
      BY <1>0, <1>6 DEF Subkeyed
    <2>2. Swapped(e[BlowfishN]) \in Pairs
      BY <2>1, SwappedPairs
    <2> QED
      BY <1>8, <2>1, <2>2, WhitenedBack
  <1>10. IsTrace(e, c, first0, order, block)
    BY <1>1, <1>6, <1>7 DEF start, IsTrace
  <1> QED
    BY <1>8, <1>9, <1>10

\* A block is encrypted to a block.
LEMMA EncipherPairs ==
  ASSUME NEW c, Subkeyed(c), NEW block \in Pairs
  PROVE  Encipher(c, block) \in Pairs
  <1> DEFINE order == [n \in 1 .. BlowfishN |-> n]
  <1>1. order \in [1 .. BlowfishN -> 0 .. BlowfishN + 1] /\ 0 \in 0 .. BlowfishN + 1
        /\ BlowfishN + 1 \in 0 .. BlowfishN + 1
    BY CiphersAssumption
  <1>2. Encipher(c, block) = Feistel(c, 0, order, BlowfishN + 1, block)
    BY DEF Encipher
  <1> HIDE DEF order
  <1> QED
    BY <1>1, <1>2, FeistelTrace

\* Deciphering takes the rounds back, the last one first.
LEMMA DecipherBack ==
  ASSUME NEW c, Subkeyed(c), NEW block \in Pairs
  PROVE  Decipher(c, Encipher(c, block)) = block
  <1> DEFINE N == BlowfishN
             up == [n \in 1 .. N |-> n]
             down == [n \in 1 .. N |-> N + 1 - n]
             z == Encipher(c, block)
  <1>0. N \in Nat /\ 0 \in 0 .. N + 1 /\ N + 1 \in 0 .. N + 1 /\ 0 \in 0 .. N /\ N \in 0 .. N /\ N - N = 0 /\ N - 0 = N
    BY CiphersAssumption
  <1>1. /\ up \in [1 .. BlowfishN -> 0 .. BlowfishN + 1]
        /\ down \in [1 .. BlowfishN -> 0 .. BlowfishN + 1]
    BY <1>0
  <1>2. \A n \in 0 .. N - 1 : /\ up[N - n] = N - n /\ down[n + 1] = N - n
                              /\ N - n - 1 \in 0 .. N - 1 /\ (N - n - 1) + 1 = N - n
                              /\ N - (n + 1) = N - n - 1 /\ n \in 0 .. N /\ n + 1 \in 0 .. N
    BY <1>0
  <1>3. z = Feistel(c, 0, up, BlowfishN + 1, block)
    BY DEF Encipher
  <1>4. Decipher(c, z) = Feistel(c, BlowfishN + 1, down, 0, z)
    BY DEF Decipher
  <1> HIDE DEF up, down, z
  <1>5. PICK e : /\ IsTrace(e, c, 0, up, block)
                 /\ z = Whitened(c.P[BlowfishN + 1], Swapped(e[BlowfishN]))
                 /\ z \in Pairs
    BY <1>0, <1>1, <1>3, FeistelTrace
  <1>6. PICK d : /\ IsTrace(d, c, BlowfishN + 1, down, z)
                 /\ Decipher(c, z) = Whitened(c.P[0], Swapped(d[BlowfishN]))
    BY <1>0, <1>1, <1>4, <1>5, FeistelTrace
  <1> DEFINE S == [n \in 0 .. N |-> {Swapped(e[N - n])}]
  <1>7. \A n \in 0 .. N : c.P[n] \in Word /\ e[n] \in Pairs
    BY <1>0, <1>5 DEF Subkeyed, IsTrace
  <1>8. d[0] \in S[0]
    <2>1. e[N] \in Pairs /\ c.P[N + 1] \in Word
      BY <1>0, <1>7 DEF Subkeyed
    <2>2. d[0] = Swapped(e[N])
      BY <1>5, <1>6, <2>1, SwappedPairs, WhitenedBack DEF IsTrace
    <2> QED
      BY <1>0, <2>2
  <1>9. ASSUME NEW n \in 0 .. N - 1, d[n] \in S[n] PROVE d[n + 1] \in S[n + 1]
    <2> DEFINE m == N - n - 1
               p == c.P[N - n]
    <2>1. m \in 0 .. N - 1 /\ m \in 0 .. N /\ m + 1 = N - n /\ N - n \in 0 .. N
      BY <1>0, <1>2
    <2>2. d[n] = Swapped(e[m + 1])
      BY <1>2, <1>9, <2>1
    <2>3. S[n + 1] = {Swapped(e[m])}
      BY <1>2
    <2>4. d[n + 1] = Turned(c, p, d[n])
      BY <1>2, <1>6 DEF IsTrace
    <2>5. e[m + 1] = Turned(c, p, e[m])
      BY <1>2, <1>5, <2>1 DEF IsTrace
    <2>6. e[m] \in Pairs /\ p \in Word
      BY <1>7, <2>1
    <2> HIDE DEF S, m, p
    <2>7. Turned(c, p, Swapped(e[m + 1])) = Swapped(e[m])
      BY <2>5, <2>6, TurnedBack
    <2> QED
      BY <2>2, <2>3, <2>4, <2>7
  <1> HIDE DEF S
  <1>10. \A n \in 0 .. N : d[n] \in S[n]
    BY <1>0, <1>8, <1>9, LoopInvariant
  <1>11. d[N] = Swapped(e[0])
    BY <1>0, <1>10 DEF S
  <1>12. Decipher(c, z) = Whitened(c.P[0], e[0])
    BY <1>0, <1>6, <1>7, <1>11, SwappedPairs
  <1>13. e[0] = Whitened(c.P[0], block) /\ c.P[0] \in Word
    BY <1>0, <1>5, <1>7 DEF IsTrace
  <1> QED
    BY <1>12, <1>13, WhitenedBack DEF z

\* The key schedule leaves a context that its words fit into.
States == [ctx : Contexts, block : Pairs]

\* There are finitely many bytes.
LEMMA BytesFinite == ByteSize \in Nat
  <1>1. IsFiniteSet(0 .. ByteBits - 1)
    BY CiphersAssumption, FS_Interval
  <1>2. IsFiniteSet(Byte)
    BY <1>1, FS_SUBSET DEF Byte
  <1> QED
    BY <1>2, FS_CardinalityType DEF ByteSize

\* Four bytes, taken from data round and round, are a word.
LEMMA GrabWord ==
  ASSUME NEW data \in Seq(Byte), Len(data) > 0, NEW k \in Nat
  PROVE  Grab(data, k) \in Word
  <1> DEFINE byte(i) == data[((4 * k + i) % Len(data)) + 1]
  <1>1. ASSUME NEW i \in 0 .. 3 PROVE byte(i) \in Byte
    <2>1. 4 * k + i \in Nat /\ Len(data) \in Nat \ {0}
      OBVIOUS
    <2>2. (4 * k + i) % Len(data) \in 0 .. Len(data) - 1
      BY <2>1
    <2>3. ((4 * k + i) % Len(data)) + 1 \in 1 .. Len(data)
      BY <2>1, <2>2
    <2> QED
      BY <2>3
  <1>2. Grab(data, k) = <<byte(0), byte(1), byte(2), byte(3)>>
    BY DEF Grab
  <1> HIDE DEF byte
  <1>3. byte(0) \in Byte /\ byte(1) \in Byte /\ byte(2) \in Byte /\ byte(3) \in Byte
    BY <1>1
  <1> QED
    BY <1>2, <1>3, WordParts

\* What is stored next in the context is a block.
LEMMA NextBlockPairs ==
  ASSUME NEW t \in States, NEW data \in Seq(Byte), Len(data) > 0, NEW k \in Nat
  PROVE  NextBlock(t, data, k) \in Pairs
  <1>1. t.block[1] \in Word /\ t.block[2] \in Word /\ Subkeyed(t.ctx)
    BY DEF States, Pairs, Contexts, Subkeyed
  <1>2. Grab(data, k) \in Word /\ Grab(data, k + 1) \in Word
    BY GrabWord
  <1>3. Xor(t.block[1], Grab(data, k)) \in Word /\ Xor(t.block[2], Grab(data, k + 1)) \in Word
    BY <1>1, <1>2, XorWord
  <1>4. <<Xor(t.block[1], Grab(data, k)), Xor(t.block[2], Grab(data, k + 1))>> \in Pairs
    BY <1>3 DEF Pairs
  <1> QED
    BY <1>1, <1>4, EncipherPairs DEF NextBlock

\* Storing two words of P keeps the context one.
LEMMA StorePStates ==
  ASSUME NEW t \in States, NEW k, NEW b \in Pairs
  PROVE  StoreP(t, k, b) \in States
  <1>1. t.ctx \in Contexts /\ b[1] \in Word /\ b[2] \in Word
    BY DEF States, Pairs
  <1>2. [t.ctx.P EXCEPT ![k] = b[1], ![k + 1] = b[2]] \in [0 .. BlowfishN + 1 -> Word]
    BY <1>1 DEF Contexts
  <1>3. [t.ctx EXCEPT !.P[k] = b[1], !.P[k + 1] = b[2]] \in Contexts
    BY <1>1, <1>2 DEF Contexts
  <1> QED
    BY <1>3 DEF StoreP, States

\* Storing two words of an S-box keeps the context one.
LEMMA StoreSStates ==
  ASSUME NEW t \in States, NEW k, NEW b \in Pairs
  PROVE  StoreS(t, k, b) \in States
  <1> DEFINE m == k \div ByteSize
             i == k % ByteSize
             c == [t.ctx EXCEPT !.S[m][i] = b[1]]
             d == [c EXCEPT !.S[m][i + 1] = b[2]]
  <1>1. t.ctx \in Contexts /\ b[1] \in Word /\ b[2] \in Word
    BY DEF States, Pairs
  <1>2. StoreS(t, k, b) = [ctx |-> d, block |-> b]
    BY DEF StoreS
  <1> HIDE DEF m, i
  <1>3. c \in Contexts
    BY <1>1 DEF Contexts
  <1>4. d \in Contexts
    <2> HIDE DEF c
    <2> QED
      BY <1>1, <1>3 DEF Contexts
  <1> HIDE DEF d
  <1> QED
    BY <1>2, <1>4 DEF States

\* The loop over P keeps the context one.
LEMMA ExpandPStates ==
  ASSUME NEW t \in States, NEW data \in Seq(Byte), Len(data) > 0
  PROVE  ExpandP(t, data) \in States
  <1> DEFINE N == (BlowfishN + 2) \div 2
             S == [n \in 0 .. N |-> States]
  <1>1. N \in Nat /\ \A n \in 0 .. N - 1 : n \in 0 .. N /\ n + 1 \in 0 .. N /\ 2 * (n + 1) - 2 \in Nat
    BY CiphersAssumption
  <1>2. t \in S[0]
    BY <1>1
  <1>3. ASSUME NEW n \in 0 .. N - 1, NEW s \in S[n]
        PROVE  StoreP(s, 2 * (n + 1) - 2, NextBlock(s, data, 2 * (n + 1) - 2)) \in S[n + 1]
    <2>1. s \in States /\ S[n + 1] = States
      BY <1>1, <1>3
    <2> HIDE DEF S, N
    <2>2. NextBlock(s, data, 2 * (n + 1) - 2) \in Pairs
      BY <1>1, <2>1, NextBlockPairs
    <2> QED
      BY <2>1, <2>2, StorePStates
  <1>4. \A n \in 0 .. N - 1 : \A s \in S[n] :
          StoreP(s, 2 * (n + 1) - 2, NextBlock(s, data, 2 * (n + 1) - 2)) \in S[n + 1]
    BY <1>3
  <1> HIDE DEF S
  <1>5. ExpandP(t, data) \in S[N]
    BY <1>1, <1>2, <1>4, ExpandPRule
  <1> QED
    BY <1>1, <1>5 DEF S

\* The loop over the S-boxes keeps the context one.
LEMMA ExpandSStates ==
  ASSUME NEW t \in States, NEW data \in Seq(Byte), Len(data) > 0
  PROVE  ExpandS(t, data) \in States
  <1> DEFINE N == 2 * ByteSize
             S == [n \in 0 .. N |-> States]
  <1>1. N \in Nat /\ \A n \in 0 .. N - 1 : n \in 0 .. N /\ n + 1 \in 0 .. N /\ 2 * (n + 1) - 2 \in Nat
    BY BytesFinite
  <1>2. t \in S[0]
    BY <1>1
  <1>3. ASSUME NEW n \in 0 .. N - 1, NEW s \in S[n]
        PROVE  StoreS(s, 2 * (n + 1) - 2, NextBlock(s, data, 2 * (n + 1) - 2)) \in S[n + 1]
    <2>1. s \in States /\ S[n + 1] = States
      BY <1>1, <1>3
    <2> HIDE DEF S, N
    <2>2. NextBlock(s, data, 2 * (n + 1) - 2) \in Pairs
      BY <1>1, <2>1, NextBlockPairs
    <2> QED
      BY <2>1, <2>2, StoreSStates
  <1>4. \A n \in 0 .. N - 1 : \A s \in S[n] :
          StoreS(s, 2 * (n + 1) - 2, NextBlock(s, data, 2 * (n + 1) - 2)) \in S[n + 1]
    BY <1>3
  <1> HIDE DEF S
  <1>5. ExpandS(t, data) \in S[N]
    BY <1>1, <1>2, <1>4, ExpandSRule
  <1> QED
    BY <1>1, <1>5 DEF S

\* Expanding a key keeps the context one.
LEMMA ExpandStateContexts ==
  ASSUME NEW c \in Contexts, NEW data \in Seq(Byte), Len(data) > 0, NEW key \in Seq(Byte), Len(key) > 0
  PROVE  ExpandState(c, data, key) \in Contexts
  <1>1. Keyed(c, key) \in Contexts
    <2>1. \A i \in 0 .. BlowfishN + 1 : Xor(c.P[i], Grab(key, i)) \in Word
      BY CiphersAssumption, GrabWord, XorWord DEF Contexts
    <2> DEFINE p == [i \in DOMAIN c.P |-> Xor(c.P[i], Grab(key, i))]
    <2>2. p \in [0 .. BlowfishN + 1 -> Word]
      BY <2>1 DEF Contexts
    <2>3. Keyed(c, key) = [c EXCEPT !.P = p]
      BY DEF Keyed
    <2> HIDE DEF p
    <2> QED
      BY <2>2, <2>3 DEF Contexts
  <1>2. <<NoBits, NoBits>> \in Pairs
    <2>1. NoBits \in Word
      BY WordParts DEF NoBits, Byte
    <2> QED
      BY <2>1 DEF Pairs
  <1> DEFINE s == [ctx |-> Keyed(c, key), block |-> <<NoBits, NoBits>>]
  <1>3. s \in States
    BY <1>1, <1>2 DEF States
  <1>4. ExpandState(c, data, key) = ExpandS(ExpandP(s, data), data).ctx
    BY DEF ExpandState
  <1> HIDE DEF s
  <1>5. ExpandS(ExpandP(s, data), data) \in States
    BY <1>3, ExpandPStates, ExpandSStates
  <1> QED
    BY <1>4, <1>5 DEF States

\* A key that is not too long makes a context.
LEMMA BlowfishContext ==
  ASSUME NEW key \in Seq(Byte), Len(key) > 0, ~ (Len(key) > (BlowfishN - 2) * 4)
  PROVE  BlowfishInit(key).ctx \in Contexts
  <1> DEFINE c == [P |-> InitialP, S |-> InitialS]
  <1>1. c \in Contexts
    BY CiphersAssumption
  <1>2. BlowfishInit(key) = [ret |-> "ok", ctx |-> ExpandState(c, <<{}>>, key)]
    BY DEF BlowfishInit, Expand0State
  <1>3. <<{}>> \in Seq(Byte) /\ Len(<<{}>>) > 0
    <2>1. {} \in Byte
      BY DEF Byte
    <2> QED
      BY <2>1
  <1> HIDE DEF c
  <1>4. ExpandState(c, <<{}>>, key) \in Contexts
    BY <1>1, <1>3, ExpandStateContexts
  <1> QED
    BY <1>2, <1>4

\* The modes, on data of m blocks.
Texts(m) == [1 .. 8 * m -> Byte]

\* The places of a block lie in the text.
LEMMA Places ==
  ASSUME NEW m \in Nat, NEW k \in 0 .. m - 1, NEW i \in 1 .. 8
  PROVE  8 * k + i \in 1 .. 8 * m
  OBVIOUS

\* A block of a text is two words.
LEMMA LoadPairs ==
  ASSUME NEW m \in Nat, NEW d \in Texts(m), NEW k \in 0 .. m - 1
  PROVE  Load(d, k) \in Pairs
  <1>1. \A i \in 1 .. 8 : d[8 * k + i] \in Byte
    BY Places DEF Texts
  <1> DEFINE byte(i) == d[8 * k + i]
  <1>2. /\ byte(1) \in Byte /\ byte(2) \in Byte /\ byte(3) \in Byte /\ byte(4) \in Byte
        /\ byte(5) \in Byte /\ byte(6) \in Byte /\ byte(7) \in Byte /\ byte(8) \in Byte
    BY <1>1
  <1>3. Load(d, k) = << <<byte(1), byte(2), byte(3), byte(4)>>, <<byte(5), byte(6), byte(7), byte(8)>> >>
    BY DEF Load
  <1> HIDE DEF byte
  <1>4. <<byte(1), byte(2), byte(3), byte(4)>> \in Word /\ <<byte(5), byte(6), byte(7), byte(8)>> \in Word
    BY <1>2, WordParts
  <1> QED
    BY <1>3, <1>4 DEF Pairs

\* Blocks are equal if their bytes are.
LEMMA LoadEqual ==
  ASSUME NEW d, NEW j, NEW e, NEW k, \A i \in 1 .. 8 : d[8 * j + i] = e[8 * k + i]
  PROVE  Load(d, j) = Load(e, k)
  BY DEF Load

\* Texts are equal if their blocks are.
LEMMA TextsEqual ==
  ASSUME NEW m \in Nat, NEW d \in Texts(m), NEW e \in Texts(m),
         \A k \in 0 .. m - 1 : Load(d, k) = Load(e, k)
  PROVE  d = e
  <1>1. ASSUME NEW k \in 0 .. m - 1, NEW i \in 1 .. 8 PROVE d[8 * k + i] = e[8 * k + i]
    <2>1. Load(d, k) = Load(e, k)
      OBVIOUS
    <2>2. /\ d[8 * k + 1] = e[8 * k + 1] /\ d[8 * k + 2] = e[8 * k + 2]
          /\ d[8 * k + 3] = e[8 * k + 3] /\ d[8 * k + 4] = e[8 * k + 4]
          /\ d[8 * k + 5] = e[8 * k + 5] /\ d[8 * k + 6] = e[8 * k + 6]
          /\ d[8 * k + 7] = e[8 * k + 7] /\ d[8 * k + 8] = e[8 * k + 8]
      BY <2>1 DEF Load
    <2>3. i = 1 \/ i = 2 \/ i = 3 \/ i = 4 \/ i = 5 \/ i = 6 \/ i = 7 \/ i = 8
      OBVIOUS
    <2> QED
      BY <2>2, <2>3
  <1>2. ASSUME NEW j \in 1 .. 8 * m PROVE d[j] = e[j]
    <2> DEFINE k == (j - 1) \div 8
               i == j - 8 * k
    <2>1. k \in 0 .. m - 1 /\ i \in 1 .. 8 /\ 8 * k + i = j
      OBVIOUS
    <2> HIDE DEF k, i
    <2> QED
      BY <1>1, <2>1
  <1> QED
    BY <1>2 DEF Texts

\* The bytes of a pair of words.
LEMMA PairParts ==
  ASSUME NEW b \in Pairs
  PROVE  /\ b = << <<b[1][1], b[1][2], b[1][3], b[1][4]>>, <<b[2][1], b[2][2], b[2][3], b[2][4]>> >>
         /\ \A i \in 1 .. 4 : b[1][i] \in Byte /\ b[2][i] \in Byte
  <1>1. b = <<b[1], b[2]>> /\ b[1] \in Word /\ b[2] \in Word
    BY DEF Pairs
  <1>2. b[1] = <<b[1][1], b[1][2], b[1][3], b[1][4]>> /\ b[2] = <<b[2][1], b[2][2], b[2][3], b[2][4]>>
    BY <1>1, WordParts
  <1>3. \A i \in 1 .. 4 : b[1][i] \in Byte /\ b[2][i] \in Byte
    BY <1>1 DEF Word
  <1> QED
    BY <1>1, <1>2, <1>3

\* A block that is stored is read again, and the others stay what they were.
LEMMA StoreLoad ==
  ASSUME NEW m \in Nat, NEW d \in Texts(m), NEW k \in 0 .. m - 1, NEW b \in Pairs
  PROVE  /\ Store(d, k, b) \in Texts(m)
         /\ Load(Store(d, k, b), k) = b
         /\ \A j \in 0 .. m - 1 : j # k => Load(Store(d, k, b), j) = Load(d, j)
  <1> DEFINE s == Store(d, k, b)
  <1>1. DOMAIN d = 1 .. 8 * m /\ \A i \in 1 .. 8 * m : d[i] \in Byte
    BY DEF Texts
  <1>2. s \in Texts(m)
    <2>1. ASSUME NEW i \in 1 .. 8 * m
          PROVE  (IF i \in 8 * k + 1 .. 8 * k + 4 THEN b[1][i - 8 * k]
                  ELSE IF i \in 8 * k + 5 .. 8 * k + 8 THEN b[2][i - 8 * k - 4]
                  ELSE d[i]) \in Byte
      <3>1. CASE i \in 8 * k + 1 .. 8 * k + 4
        <4>1. i - 8 * k \in 1 .. 4
          BY <3>1
        <4> QED
          BY <3>1, <4>1, PairParts
      <3>2. CASE i \notin 8 * k + 1 .. 8 * k + 4 /\ i \in 8 * k + 5 .. 8 * k + 8
        <4>1. i - 8 * k - 4 \in 1 .. 4
          BY <3>2
        <4> QED
          BY <3>2, <4>1, PairParts
      <3>3. CASE i \notin 8 * k + 1 .. 8 * k + 4 /\ i \notin 8 * k + 5 .. 8 * k + 8
        BY <1>1, <3>3
      <3> QED
        BY <3>1, <3>2, <3>3
    <2> QED
      BY <1>1, <2>1 DEF Store, Texts
  <1>3. \A i \in 1 .. 8 * m :
          s[i] = IF i \in 8 * k + 1 .. 8 * k + 4 THEN b[1][i - 8 * k]
                 ELSE IF i \in 8 * k + 5 .. 8 * k + 8 THEN b[2][i - 8 * k - 4]
                 ELSE d[i]
    BY <1>1 DEF Store
  <1> HIDE DEF s
  <1>4. Load(s, k) = b
    <2>1. \A i \in 1 .. 4 : /\ 8 * k + i \in 8 * k + 1 .. 8 * k + 4 /\ 8 * k + i \in 1 .. 8 * m
                            /\ 8 * k + i - 8 * k = i
      OBVIOUS
    <2>2. \A i \in 1 .. 4 : /\ 8 * k + (i + 4) \notin 8 * k + 1 .. 8 * k + 4
                            /\ 8 * k + (i + 4) \in 8 * k + 5 .. 8 * k + 8
                            /\ 8 * k + (i + 4) \in 1 .. 8 * m
                            /\ 8 * k + (i + 4) - 8 * k - 4 = i
      OBVIOUS
    <2>3. \A i \in 1 .. 4 : s[8 * k + i] = b[1][i] /\ s[8 * k + (i + 4)] = b[2][i]
      BY <1>3, <2>1, <2>2
    <2>4. /\ s[8 * k + 1] = b[1][1] /\ s[8 * k + 2] = b[1][2]
          /\ s[8 * k + 3] = b[1][3] /\ s[8 * k + 4] = b[1][4]
          /\ s[8 * k + 5] = b[2][1] /\ s[8 * k + 6] = b[2][2]
          /\ s[8 * k + 7] = b[2][3] /\ s[8 * k + 8] = b[2][4]
      <3>1. 1 + 4 = 5 /\ 2 + 4 = 6 /\ 3 + 4 = 7 /\ 4 + 4 = 8
        OBVIOUS
      <3> QED
        BY <2>3, <3>1
    <2>5. Load(s, k) = << <<b[1][1], b[1][2], b[1][3], b[1][4]>>, <<b[2][1], b[2][2], b[2][3], b[2][4]>> >>
      BY <2>4 DEF Load
    <2> QED
      BY <2>5, PairParts
  <1>5. ASSUME NEW j \in 0 .. m - 1, j # k PROVE Load(s, j) = Load(d, j)
    <2>1. \A i \in 1 .. 8 : /\ 8 * j + i \in 1 .. 8 * m
                            /\ 8 * j + i \notin 8 * k + 1 .. 8 * k + 4
                            /\ 8 * j + i \notin 8 * k + 5 .. 8 * k + 8
      BY <1>5
    <2>2. \A i \in 1 .. 8 : s[8 * j + i] = d[8 * j + i]
      BY <1>3, <2>1
    <2> QED
      BY <2>2, LoadEqual
  <1> QED
    BY <1>2, <1>4, <1>5 DEF s

\* What a block is mixed with.
Added(b, p) == <<Xor(b[1], p[1]), Xor(b[2], p[2])>>

\* The encrypted block before block k, or the vector.
Previous(d, iv, k) == IF k = 0 THEN Load(iv, 0) ELSE Load(d, k - 1)

\* What is added twice to a block is gone.
LEMMA AddedTwice ==
  ASSUME NEW b \in Pairs, NEW p \in Pairs
  PROVE  Added(b, p) \in Pairs /\ Added(Added(b, p), p) = b
  BY XorWord DEF Added, Pairs

\* The block before is a block.
LEMMA PreviousPairs ==
  ASSUME NEW m \in Nat, NEW d \in Texts(m), NEW k \in 0 .. m - 1, NEW iv \in [1 .. 8 -> Byte]
  PROVE  Previous(d, iv, k) \in Pairs
  <1>1. CASE k = 0
    <2>1. iv \in Texts(1) /\ 0 \in 0 .. 1 - 1 /\ 1 \in Nat
      BY DEF Texts
    <2>2. Load(iv, 0) \in Pairs
      BY <2>1, LoadPairs
    <2> QED
      BY <1>1, <2>2 DEF Previous
  <1>2. CASE k # 0
    <2>1. k - 1 \in 0 .. m - 1
      BY <1>2
    <2>2. Load(d, k - 1) \in Pairs
      BY <2>1, LoadPairs
    <2> QED
      BY <1>2, <2>2 DEF Previous
  <1> QED
    BY <1>1, <1>2

\* Mixing the block before into a block changes that block alone.
LEMMA MixedLoad ==
  ASSUME NEW m \in Nat, NEW d \in Texts(m), NEW p \in Texts(m), NEW k \in 0 .. m - 1,
         NEW iv \in [1 .. 8 -> Byte]
  PROVE  /\ Mixed(d, k, p, iv) \in Texts(m)
         /\ Load(Mixed(d, k, p, iv), k) = Added(Load(d, k), Previous(p, iv, k))
         /\ \A j \in 0 .. m - 1 : j # k => Load(Mixed(d, k, p, iv), j) = Load(d, j)
  <1> DEFINE x == Mixed(d, k, p, iv)
  <1>1. DOMAIN d = 1 .. 8 * m /\ (\A i \in 1 .. 8 * m : d[i] \in Byte /\ p[i] \in Byte)
        /\ \A i \in 1 .. 8 : iv[i] \in Byte
    BY DEF Texts
  <1>2. \A i \in 1 .. 8 * m :
          x[i] = IF i \in 8 * k + 1 .. 8 * k + 8
                 THEN SymDiff(d[i], IF k = 0 THEN iv[i] ELSE p[i - 8]) ELSE d[i]
    BY <1>1 DEF Mixed
  <1>3. x \in Texts(m)
    <2>1. \A a, b \in Byte : SymDiff(a, b) \in Byte
      BY DEF Byte, SymDiff
    <2>2. ASSUME NEW i \in 1 .. 8 * m
          PROVE  (IF i \in 8 * k + 1 .. 8 * k + 8
                  THEN SymDiff(d[i], IF k = 0 THEN iv[i] ELSE p[i - 8]) ELSE d[i]) \in Byte
      <3>1. CASE i \in 8 * k + 1 .. 8 * k + 8 /\ k = 0
        <4>1. i \in 1 .. 8
          BY <3>1
        <4> QED
          BY <1>1, <2>1, <3>1, <4>1
      <3>2. CASE i \in 8 * k + 1 .. 8 * k + 8 /\ k # 0
        <4>1. i - 8 \in 1 .. 8 * m
          BY <3>2
        <4> QED
          BY <1>1, <2>1, <3>2, <4>1
      <3>3. CASE i \notin 8 * k + 1 .. 8 * k + 8
        BY <1>1, <3>3
      <3> QED
        BY <3>1, <3>2, <3>3
    <2> QED
      BY <1>1, <2>2 DEF Mixed, Texts
  <1> HIDE DEF x
  <1>4. Load(x, k) = Added(Load(d, k), Previous(p, iv, k))
    <2>1. \A i \in 1 .. 8 : 8 * k + i \in 1 .. 8 * m /\ 8 * k + i \in 8 * k + 1 .. 8 * k + 8
      OBVIOUS
    <2>2. CASE k = 0
      <3>1. \A i \in 1 .. 8 : x[8 * k + i] = SymDiff(d[8 * k + i], iv[8 * 0 + i])
        BY <1>2, <2>1, <2>2
      <3>2. Load(x, k) = Added(Load(d, k), Load(iv, 0))
        BY <3>1 DEF Load, Added, Xor
      <3> QED
        BY <2>2, <3>2 DEF Previous
    <2>3. CASE k # 0
      <3>1. \A i \in 1 .. 8 : 8 * k + i - 8 = 8 * (k - 1) + i
        OBVIOUS
      <3>2. \A i \in 1 .. 8 : x[8 * k + i] = SymDiff(d[8 * k + i], p[8 * (k - 1) + i])
        BY <1>2, <2>1, <2>3, <3>1
      <3>3. Load(x, k) = Added(Load(d, k), Load(p, k - 1))
        BY <3>2 DEF Load, Added, Xor
      <3> QED
        BY <2>3, <3>3 DEF Previous
    <2> QED
      BY <2>2, <2>3
  <1>5. ASSUME NEW j \in 0 .. m - 1, j # k PROVE Load(x, j) = Load(d, j)
    <2>1. \A i \in 1 .. 8 : 8 * j + i \in 1 .. 8 * m /\ 8 * j + i \notin 8 * k + 1 .. 8 * k + 8
      BY <1>5
    <2>2. \A i \in 1 .. 8 : x[8 * j + i] = d[8 * j + i]
      BY <1>2, <2>1
    <2> QED
      BY <2>2, LoadEqual
  <1> QED
    BY <1>3, <1>4, <1>5 DEF x

\* Blocks one by one: what EncryptECB makes of data, and how it comes back.
IsECB(c, data, e, m) ==
  \A k \in 0 .. m - 1 : Load(e, k) = Encipher(c, Load(data, k))

\* The length of a text of m blocks, and the numbers of its rounds.
LEMMA Lengths ==
  ASSUME NEW m \in Nat, NEW d \in Texts(m)
  PROVE  /\ d \in Seq(Byte) /\ Len(d) = 8 * m /\ Len(d) \div 8 = m
         /\ \A n \in 0 .. m - 1 : n \in 0 .. m /\ n + 1 \in 0 .. m /\ n + 1 - 1 = n
         /\ 0 \in 0 .. m /\ m \in 0 .. m /\ \A k \in 0 .. m - 1 : k < m /\ ~ (k < 0)
  <1>1. d \in Seq(Byte) /\ Len(d) = 8 * m
    BY FunctionAsSequence DEF Texts
  <1> QED
    BY <1>1

\* The encrypted text holds the encrypted blocks.
LEMMA EncryptedECB ==
  ASSUME NEW c, Subkeyed(c), NEW m \in Nat, NEW data \in Texts(m)
  PROVE  EncryptECB(c, data) \in Texts(m) /\ IsECB(c, data, EncryptECB(c, data), m)
  <1> DEFINE Good(d, n) == \A k \in 0 .. m - 1 :
                 Load(d, k) = IF k < n THEN Encipher(c, Load(data, k)) ELSE Load(data, k)
             S == [n \in 0 .. m |-> {d \in Texts(m) : Good(d, n)}]
  <1>1. /\ Len(data) \div 8 = m
        /\ \A n \in 0 .. m - 1 : n \in 0 .. m /\ n + 1 \in 0 .. m /\ n + 1 - 1 = n
        /\ 0 \in 0 .. m /\ m \in 0 .. m /\ \A k \in 0 .. m - 1 : k < m /\ ~ (k < 0)
    BY Lengths
  <1>2. data \in S[0]
    BY <1>1
  <1>3. ASSUME NEW n \in 0 .. m - 1, NEW s \in S[n]
        PROVE  Store(s, n + 1 - 1, Encipher(c, Load(s, n + 1 - 1))) \in S[n + 1]
    <2> DEFINE b == Encipher(c, Load(s, n))
               t == Store(s, n, b)
    <2>1. s \in Texts(m) /\ Good(s, n) /\ n + 1 - 1 = n /\ n + 1 \in 0 .. m
      BY <1>1, <1>3
    <2>2. b \in Pairs
      BY <2>1, LoadPairs, EncipherPairs
    <2>3. b = Encipher(c, Load(data, n))
      BY <2>1
    <2> HIDE DEF b
    <2>4. /\ t \in Texts(m) /\ Load(t, n) = b
          /\ \A j \in 0 .. m - 1 : j # n => Load(t, j) = Load(s, j)
      BY <2>1, <2>2, StoreLoad
    <2> HIDE DEF t
    <2>5. ASSUME NEW k \in 0 .. m - 1
          PROVE  Load(t, k) = IF k < n + 1 THEN Encipher(c, Load(data, k)) ELSE Load(data, k)
      <3>1. CASE k = n
        BY <2>3, <2>4, <3>1
      <3>2. CASE k # n
        <4>1. k < n + 1 <=> k < n
          BY <3>2
        <4> QED
          BY <2>1, <2>4, <3>2, <4>1
      <3> QED
        BY <3>1, <3>2
    <2>6. t \in S[n + 1]
      BY <2>1, <2>4, <2>5
    <2> HIDE DEF S
    <2> QED
      BY <2>1, <2>6 DEF t, b
  <1> HIDE DEF S
  <1>4. \A n \in 0 .. Len(data) \div 8 - 1 : \A s \in S[n] :
          Store(s, n + 1 - 1, Encipher(c, Load(s, n + 1 - 1))) \in S[n + 1]
    BY <1>1, <1>3
  <1>5. EncryptECB(c, data) \in S[Len(data) \div 8]
    BY <1>1, <1>2, <1>4, EncryptECBRule
  <1> QED
    BY <1>1, <1>5 DEF S, IsECB

\* A text of encrypted blocks is decrypted to the blocks.
LEMMA DecryptedECB ==
  ASSUME NEW c, Subkeyed(c), NEW m \in Nat, NEW data \in Texts(m), NEW e \in Texts(m), IsECB(c, data, e, m)
  PROVE  DecryptECB(c, e) = data
  <1> DEFINE Good(d, n) == \A k \in 0 .. m - 1 :
                 Load(d, k) = IF k < n THEN Load(data, k) ELSE Load(e, k)
             S == [n \in 0 .. m |-> {d \in Texts(m) : Good(d, n)}]
  <1>1. /\ Len(e) \div 8 = m
        /\ \A n \in 0 .. m - 1 : n \in 0 .. m /\ n + 1 \in 0 .. m /\ n + 1 - 1 = n
        /\ 0 \in 0 .. m /\ m \in 0 .. m /\ \A k \in 0 .. m - 1 : k < m /\ ~ (k < 0)
    BY Lengths
  <1>2. e \in S[0]
    BY <1>1
  <1>3. ASSUME NEW n \in 0 .. m - 1, NEW s \in S[n]
        PROVE  Store(s, n + 1 - 1, Decipher(c, Load(s, n + 1 - 1))) \in S[n + 1]
    <2> DEFINE b == Decipher(c, Load(s, n))
               t == Store(s, n, b)
    <2>1. s \in Texts(m) /\ Good(s, n) /\ n + 1 - 1 = n /\ n + 1 \in 0 .. m
      BY <1>1, <1>3
    <2>2. Load(data, n) \in Pairs
      BY LoadPairs
    <2>3. b = Load(data, n)
      <3>1. Load(s, n) = Encipher(c, Load(data, n))
        BY <2>1 DEF IsECB
      <3> QED
        BY <2>2, <3>1, DecipherBack
    <2> HIDE DEF b
    <2>4. /\ t \in Texts(m) /\ Load(t, n) = b
          /\ \A j \in 0 .. m - 1 : j # n => Load(t, j) = Load(s, j)
      BY <2>1, <2>2, <2>3, StoreLoad
    <2> HIDE DEF t
    <2>5. ASSUME NEW k \in 0 .. m - 1
          PROVE  Load(t, k) = IF k < n + 1 THEN Load(data, k) ELSE Load(e, k)
      <3>1. CASE k = n
        BY <2>3, <2>4, <3>1
      <3>2. CASE k # n
        <4>1. k < n + 1 <=> k < n
          BY <3>2
        <4> QED
          BY <2>1, <2>4, <3>2, <4>1
      <3> QED
        BY <3>1, <3>2
    <2>6. t \in S[n + 1]
      BY <2>1, <2>4, <2>5
    <2> HIDE DEF S
    <2> QED
      BY <2>1, <2>6 DEF t, b
  <1> HIDE DEF S
  <1>4. \A n \in 0 .. Len(e) \div 8 - 1 : \A s \in S[n] :
          Store(s, n + 1 - 1, Decipher(c, Load(s, n + 1 - 1))) \in S[n + 1]
    BY <1>1, <1>3
  <1>5. DecryptECB(c, e) \in S[Len(e) \div 8]
    BY <1>1, <1>2, <1>4, DecryptECBRule
  <1>6. DecryptECB(c, e) \in Texts(m) /\ \A k \in 0 .. m - 1 : Load(DecryptECB(c, e), k) = Load(data, k)
    BY <1>1, <1>5 DEF S
  <1> QED
    BY <1>6, TextsEqual

\* Blocks in a chain: every one is encrypted after the encrypted block before
\* it is added.
IsCBC(c, iv, data, e, m) ==
  \A k \in 0 .. m - 1 : Load(e, k) = Encipher(c, Added(Load(data, k), Previous(e, iv, k)))

\* The block before depends on nothing else of the text.
LEMMA PreviousSame ==
  ASSUME NEW d, NEW e, NEW iv, NEW k \in Nat, k # 0 => Load(d, k - 1) = Load(e, k - 1)
  PROVE  Previous(d, iv, k) = Previous(e, iv, k)
  BY DEF Previous

\* The encrypted chain holds what IsCBC says.
LEMMA EncryptedCBC ==
  ASSUME NEW c, Subkeyed(c), NEW m \in Nat, NEW data \in Texts(m), NEW iv \in [1 .. 8 -> Byte]
  PROVE  EncryptCBC(c, iv, data) \in Texts(m) /\ IsCBC(c, iv, data, EncryptCBC(c, iv, data), m)
  <1> DEFINE Good(d, n) == \A k \in 0 .. m - 1 :
                 Load(d, k) = IF k < n THEN Encipher(c, Added(Load(data, k), Previous(d, iv, k)))
                              ELSE Load(data, k)
             S == [n \in 0 .. m |-> {d \in Texts(m) : Good(d, n)}]
  <1>1. /\ Len(data) \div 8 = m
        /\ \A n \in 0 .. m - 1 : n \in 0 .. m /\ n + 1 \in 0 .. m /\ n + 1 - 1 = n
        /\ 0 \in 0 .. m /\ m \in 0 .. m /\ \A k \in 0 .. m - 1 : k < m /\ ~ (k < 0)
    BY Lengths
  <1>2. data \in S[0]
    BY <1>1
  <1>3. ASSUME NEW n \in 0 .. m - 1, NEW s \in S[n]
        PROVE  EncryptBlock(c, iv, n, s) \in S[n + 1]
    <2> DEFINE x == Mixed(s, n, s, iv)
               b == Encipher(c, Load(x, n))
               t == Store(x, n, b)
    <2>1. s \in Texts(m) /\ Good(s, n) /\ n + 1 \in 0 .. m
      BY <1>1, <1>3
    <2>2. /\ x \in Texts(m) /\ Load(x, n) = Added(Load(s, n), Previous(s, iv, n))
          /\ \A j \in 0 .. m - 1 : j # n => Load(x, j) = Load(s, j)
      BY <2>1, MixedLoad
    <2> HIDE DEF x
    <2>3. b \in Pairs
      BY <2>2, LoadPairs, EncipherPairs
    <2>4. b = Encipher(c, Added(Load(data, n), Previous(s, iv, n)))
      <3>1. Load(s, n) = Load(data, n)
        BY <2>1
      <3> QED
        BY <2>2, <3>1
    <2> HIDE DEF b
    <2>5. /\ t \in Texts(m) /\ Load(t, n) = b
          /\ \A j \in 0 .. m - 1 : j # n => Load(t, j) = Load(s, j)
      BY <2>2, <2>3, StoreLoad
    <2>6. EncryptBlock(c, iv, n, s) = t
      BY DEF EncryptBlock, t, b, x
    <2> HIDE DEF t
    <2>7. ASSUME NEW k \in 0 .. m - 1, k < n + 1
          PROVE  Previous(t, iv, k) = Previous(s, iv, k)
      <3>1. k # 0 => k - 1 \in 0 .. m - 1 /\ k - 1 # n
        BY <2>7
      <3>2. k # 0 => Load(t, k - 1) = Load(s, k - 1)
        BY <2>5, <3>1
      <3> QED
        BY <3>2, PreviousSame
    <2>8. ASSUME NEW k \in 0 .. m - 1
          PROVE  Load(t, k) = IF k < n + 1 THEN Encipher(c, Added(Load(data, k), Previous(t, iv, k)))
                              ELSE Load(data, k)
      <3>1. CASE k = n
        BY <2>4, <2>5, <2>7, <3>1
      <3>2. CASE k # n
        <4>1. k < n + 1 <=> k < n
          BY <3>2
        <4> QED
          BY <2>1, <2>5, <2>7, <3>2, <4>1
      <3> QED
        BY <3>1, <3>2
    <2>9. t \in S[n + 1]
      BY <2>1, <2>5, <2>8
    <2> HIDE DEF S
    <2> QED
      BY <2>6, <2>9
  <1> HIDE DEF S
  <1>4. \A n \in 0 .. Len(data) \div 8 - 1 : \A s \in S[n] : EncryptBlock(c, iv, n + 1 - 1, s) \in S[n + 1]
    BY <1>1, <1>3
  <1>5. EncryptCBC(c, iv, data) \in S[Len(data) \div 8]
    BY <1>1, <1>2, <1>4, EncryptCBCRule
  <1> QED
    BY <1>1, <1>5 DEF S, IsCBC

\* From the last block on, the block before is still encrypted when it is
\* added.
LEMMA DecryptedCBC ==
  ASSUME NEW c, Subkeyed(c), NEW m \in Nat, NEW data \in Texts(m), NEW e \in Texts(m),
         NEW iv \in [1 .. 8 -> Byte], IsCBC(c, iv, data, e, m)
  PROVE  DecryptCBC(c, iv, e) = data
  <1> DEFINE Good(d, n) == \A k \in 0 .. m - 1 :
                 Load(d, k) = IF k < m - n THEN Load(e, k) ELSE Load(data, k)
             S == [n \in 0 .. m |-> {d \in Texts(m) : Good(d, n)}]
  <1>1. /\ Len(e) \div 8 = m
        /\ \A n \in 0 .. m - 1 : n \in 0 .. m /\ n + 1 \in 0 .. m /\ n + 1 - 1 = n
        /\ 0 \in 0 .. m /\ m \in 0 .. m /\ \A k \in 0 .. m - 1 : k < m /\ ~ (k < 0)
    BY Lengths
  <1>2. e \in S[0]
    <2>1. m - 0 = m
      OBVIOUS
    <2> QED
      BY <1>1, <2>1
  <1>3. ASSUME NEW n \in 0 .. m - 1, NEW s \in S[n]
        PROVE  DecryptBlock(c, iv, m - (n + 1), s) \in S[n + 1]
    <2> DEFINE k == m - (n + 1)
               b == Decipher(c, Load(s, k))
               x == Store(s, k, b)
               t == Mixed(x, k, s, iv)
               p == Previous(e, iv, k)
    <2>1. s \in Texts(m) /\ Good(s, n) /\ n + 1 \in 0 .. m
      BY <1>1, <1>3
    <2>2. k \in 0 .. m - 1 /\ k < m - n /\ m - n = k + 1
      OBVIOUS
    <2>3. DecryptBlock(c, iv, m - (n + 1), s) = Mixed(x, k, s, iv)
      BY DEF DecryptBlock
    <2>4. \A j \in 0 .. m - 1 : j <= k => Load(s, j) = Load(e, j)
      BY <2>1, <2>2
    <2>5. \A j \in 0 .. m - 1 : k < j => Load(s, j) = Load(data, j)
      BY <2>1, <2>2
    <2>6. S[n + 1] = {d \in Texts(m) : \A j \in 0 .. m - 1 :
                         Load(d, j) = IF j < m - (n + 1) THEN Load(e, j) ELSE Load(data, j)}
      BY <2>1
    <2> HIDE DEF S, k
    <2>7. p \in Pairs /\ Load(data, k) \in Pairs
      BY <2>2, LoadPairs, PreviousPairs
    <2>8. Previous(s, iv, k) = p
      <3>1. k # 0 => k - 1 \in 0 .. m - 1 /\ k - 1 <= k /\ k \in Nat
        BY <2>2
      <3>2. k # 0 => Load(s, k - 1) = Load(e, k - 1)
        BY <2>4, <3>1
      <3> QED
        BY <2>2, <3>2, PreviousSame
    <2> HIDE DEF p
    <2>9. b = Added(Load(data, k), p)
      <3>1. Load(s, k) = Load(e, k)
        BY <2>2, <2>4
      <3>2. Load(e, k) = Encipher(c, Added(Load(data, k), p))
        BY <2>2 DEF IsCBC, p
      <3>3. Added(Load(data, k), p) \in Pairs
        BY <2>7, AddedTwice
      <3> QED
        BY <3>1, <3>2, <3>3, DecipherBack
    <2>10. b \in Pairs /\ Added(b, p) = Load(data, k)
      BY <2>7, <2>9, AddedTwice
    <2> HIDE DEF b
    <2>11. /\ x \in Texts(m) /\ Load(x, k) = b
           /\ \A j \in 0 .. m - 1 : j # k => Load(x, j) = Load(s, j)
      BY <2>1, <2>2, <2>10, StoreLoad
    <2> HIDE DEF x
    <2>12. /\ t \in Texts(m) /\ Load(t, k) = Added(Load(x, k), Previous(s, iv, k))
           /\ \A j \in 0 .. m - 1 : j # k => Load(t, j) = Load(x, j)
      BY <2>1, <2>2, <2>11, MixedLoad
    <2> HIDE DEF t
    <2>13. Load(t, k) = Load(data, k)
      BY <2>8, <2>10, <2>11, <2>12
    <2>14. ASSUME NEW j \in 0 .. m - 1
           PROVE  Load(t, j) = IF j < k THEN Load(e, j) ELSE Load(data, j)
      <3>1. CASE j = k
        BY <2>13, <3>1
      <3>2. CASE j < k
        <4>1. j # k /\ j <= k
          BY <2>2, <3>2
        <4> QED
          BY <2>4, <2>11, <2>12, <3>2, <4>1
      <3>3. CASE k < j
        <4>1. j # k /\ ~ (j < k)
          BY <2>2, <3>3
        <4> QED
          BY <2>5, <2>11, <2>12, <3>3, <4>1
      <3> QED
        BY <2>2, <3>1, <3>2, <3>3
    <2>15. t \in S[n + 1]
      BY <2>6, <2>12, <2>14 DEF k
    <2> QED
      BY <2>3, <2>15 DEF t
  <1> HIDE DEF S
  <1>4. \A n \in 0 .. Len(e) \div 8 - 1 : \A s \in S[n] :
          DecryptBlock(c, iv, Len(e) \div 8 - (n + 1), s) \in S[n + 1]
    BY <1>1, <1>3
  <1>5. DecryptCBC(c, iv, e) \in S[Len(e) \div 8]
    BY <1>1, <1>2, <1>4, DecryptCBCRule
  <1>6. DecryptCBC(c, iv, e) \in Texts(m) /\ \A k \in 0 .. m - 1 : Load(DecryptCBC(c, iv, e), k) = Load(data, k)
    <2>1. \A k \in 0 .. m - 1 : ~ (k < m - m)
      OBVIOUS
    <2> QED
      BY <1>1, <1>5, <2>1 DEF S
  <1> QED
    BY <1>6, TextsEqual

\* The first k blocks.
LEMMA StartOf ==
  ASSUME NEW m \in Nat, NEW d \in Texts(m), NEW k \in 0 .. m
  PROVE  /\ SubSeq(d, 1, 8 * k) \in Texts(k)
         /\ \A j \in 0 .. k - 1 : Load(SubSeq(d, 1, 8 * k), j) = Load(d, j)
  <1> DEFINE s == SubSeq(d, 1, 8 * k)
  <1>1. d \in Seq(Byte) /\ Len(d) = 8 * m /\ 8 * k \in 0 .. Len(d)
    BY Lengths
  <1>2. s \in Seq(Byte) /\ Len(s) = 8 * k /\ \A i \in 1 .. 8 * k : s[i] = d[i]
    BY <1>1
  <1>3. s \in Texts(k)
    BY <1>2, SequenceAsFunction DEF Texts
  <1> HIDE DEF s
  <1>4. ASSUME NEW j \in 0 .. k - 1 PROVE Load(s, j) = Load(d, j)
    <2>1. \A i \in 1 .. 8 : 8 * j + i \in 1 .. 8 * k
      OBVIOUS
    <2>2. \A i \in 1 .. 8 : s[8 * j + i] = d[8 * j + i]
      BY <1>2, <2>1
    <2> QED
      BY <2>2, LoadEqual
  <1> QED
    BY <1>3, <1>4 DEF s

\* Whatever Blowfish encrypts, with any key and data of whole blocks, it
\* decrypts to what it was: a block, in both modes, and the start of a chain.
THEOREM BlowfishInverts ==
  ASSUME NEW key \in Seq(Byte), Len(key) > 0, NEW iv \in [1 .. 8 -> Byte],
         NEW data \in Seq(Byte), Len(data) > 0, Len(data) % 8 = 0
  PROVE  BlowfishOK(key, iv, data)
  <1>1. CASE Len(key) > (BlowfishN - 2) * 4
    BY <1>1 DEF BlowfishOK, BlowfishInit
  <1>2. CASE ~ (Len(key) > (BlowfishN - 2) * 4)
    <2> DEFINE c == BlowfishInit(key).ctx
               m == Len(data) \div 8
               cbc == EncryptCBC(c, iv, data)
    <2>1. Subkeyed(c)
      BY <1>2, BlowfishContext DEF Contexts, Subkeyed
    <2>2. m \in Nat /\ m > 0 /\ Len(data) = 8 * m /\ 0 \in 0 .. m - 1
      OBVIOUS
    <2>3. data \in Texts(m)
      BY <2>2, SequenceAsFunction DEF Texts
    <2>4. BlowfishOK(key, iv, data)
            <=> /\ BlowfishDecrypt(c, BlowfishEncrypt(c, <<Load(data, 0)>>)) = <<Load(data, 0)>>
                /\ DecryptECB(c, EncryptECB(c, data)) = data
                /\ \A k \in 1 .. m : DecryptCBC(c, iv, SubSeq(cbc, 1, 8 * k)) = SubSeq(data, 1, 8 * k)
      BY <1>2 DEF BlowfishOK
    <2> HIDE DEF c, m
    <2>5. BlowfishDecrypt(c, BlowfishEncrypt(c, <<Load(data, 0)>>)) = <<Load(data, 0)>>
      <3> DEFINE b == Load(data, 0)
      <3>1. b \in Pairs
        BY <2>2, <2>3, LoadPairs
      <3> HIDE DEF b
      <3>2. Decipher(c, Encipher(c, b)) = b
        BY <2>1, <3>1, DecipherBack
      <3>3. BlowfishEncrypt(c, <<b>>) = <<Encipher(c, b)>>
        BY DEF BlowfishEncrypt
      <3>4. BlowfishDecrypt(c, <<Encipher(c, b)>>) = <<Decipher(c, Encipher(c, b))>>
        BY DEF BlowfishDecrypt
      <3>5. BlowfishDecrypt(c, BlowfishEncrypt(c, <<b>>)) = <<b>>
        BY <3>2, <3>3, <3>4
      <3> QED
        BY <3>5 DEF b
    <2>6. DecryptECB(c, EncryptECB(c, data)) = data
      BY <2>1, <2>2, <2>3, EncryptedECB, DecryptedECB
    <2>7. ASSUME NEW k \in 1 .. m
          PROVE  DecryptCBC(c, iv, SubSeq(cbc, 1, 8 * k)) = SubSeq(data, 1, 8 * k)
      <3> DEFINE e == SubSeq(cbc, 1, 8 * k)
                 d == SubSeq(data, 1, 8 * k)
      <3>1. cbc \in Texts(m) /\ IsCBC(c, iv, data, cbc, m)
        BY <2>1, <2>2, <2>3, EncryptedCBC
      <3>2. k \in 0 .. m /\ k \in Nat
        BY <2>2
      <3> HIDE DEF cbc
      <3>3. e \in Texts(k) /\ \A j \in 0 .. k - 1 : Load(e, j) = Load(cbc, j)
        BY <2>2, <3>1, <3>2, StartOf
      <3>4. d \in Texts(k) /\ \A j \in 0 .. k - 1 : Load(d, j) = Load(data, j)
        BY <2>2, <2>3, <3>2, StartOf
      <3> HIDE DEF e, d
      <3>5. ASSUME NEW j \in 0 .. k - 1
            PROVE  Load(e, j) = Encipher(c, Added(Load(d, j), Previous(e, iv, j)))
        <4>1. j \in 0 .. m - 1 /\ j \in Nat /\ (j # 0 => j - 1 \in 0 .. k - 1)
          BY <2>2, <3>2
        <4>2. Previous(e, iv, j) = Previous(cbc, iv, j)
          BY <3>3, <4>1, PreviousSame
        <4> QED
          BY <3>1, <3>3, <3>4, <4>1, <4>2 DEF IsCBC
      <3>6. IsCBC(c, iv, d, e, k)
        BY <3>5 DEF IsCBC
      <3>7. DecryptCBC(c, iv, e) = d
        BY <2>1, <3>2, <3>3, <3>4, <3>6, DecryptedCBC
      <3> QED
        BY <3>7 DEF e, d
    <2> QED
      BY <2>4, <2>5, <2>6, <2>7
  <1> QED
    BY <1>1, <1>2

\* The loop over the groups of four characters.
LEMMA DecodeRule ==
  ASSUME NEW buflen, NEW text, NEW datalen, buflen \in Nat, NEW S,
         << >> \in S[0],
         \A n \in 0 .. buflen - 1 : \A s \in S[n] :
           (IF Len(s) < 3 * (n + 1 - 1) THEN s ELSE s \o Group(text, datalen, buflen - Len(s), n + 1 - 1)) \in S[n + 1]
  PROVE  Base64Decode(buflen, text, datalen) \in S[buflen]
  <1> DEFINE k == buflen
             first == << >>
             Body(n, s) == (IF Len(s) < 3 * (n - 1) THEN s ELSE s \o Group(text, datalen, buflen - Len(s), n - 1))
             Turn(f) == [n \in 0 .. k |-> IF n = 0 THEN first ELSE Body(n, f[n - 1])]
             after == CHOOSE f : f = Turn(f)
             next == [n \in Nat |-> [s \in S[n - 1] |-> Body(n, s)]]
  <1>1. Base64Decode(buflen, text, datalen) = after[k]
    BY DEF Base64Decode, Rounds
  <1>2. k \in Nat /\ first \in S[0] /\ \A n \in 0 .. k - 1 : \A s \in S[n] : Body(n + 1, s) \in S[n + 1]
    OBVIOUS
  <1> HIDE DEF Body, after, k, first
  <1>3. \A n \in 0 .. k - 1 : \A s \in S[n] : next[n + 1][s] = Body(n + 1, s)
    BY <1>2, RoundBefore
  <1> HIDE DEF next, Turn
  <1>4. \A n \in 0 .. k - 1 : \A s \in S[n] : next[n + 1][s] \in S[n + 1]
    BY <1>2, <1>3
  <1>5. PICK h : Goes(h, first, next, S, k)
    BY <1>2, <1>4, LoopExists
  <1>6. \A n \in 0 .. k - 1 : h[n + 1] = Body(n + 1, h[n])
    BY <1>3, <1>5 DEF Goes
  <1>7. \A n \in 0 .. k : h[n] = IF n = 0 THEN first ELSE Body(n, h[n - 1])
    BY <1>2, <1>5, <1>6, RoundBefore DEF Goes
  <1>8. h = Turn(h)
    BY <1>5, <1>7 DEF Goes, Turn
  <1>9. after = Turn(after)
    BY <1>8 DEF after
  <1>10. \A n \in 0 .. k : after[n] = IF n = 0 THEN first ELSE Body(n, after[n - 1])
    BY <1>9 DEF Turn
  <1>11. after[0] = first /\ \A n \in 0 .. k - 1 : after[n + 1] = Body(n + 1, after[n])
    BY <1>2, <1>10, RoundAfter
  <1>12. \A n \in 0 .. k : after[n] \in S[n]
    BY <1>2, <1>11, LoopInvariant
  <1>13. after[k] \in S[k] /\ k = buflen
    BY <1>2, <1>12, RoundAfter DEF k
  <1> QED
    BY <1>1, <1>13

\* What encoding makes of three bytes, and decoding of four characters.
Char1(x) == x \div 4
Char2(x, y) == (x % 4) * 16 + y \div 16
Char3(y, z) == (y % 16) * 4 + z \div 64
Char4(z) == z % 64
Byte1(c, d) == c * 4 + d \div 16
Byte2(c, d) == (c % 16) * 16 + d \div 4
Byte3(c, d) == (c % 4) * 64 + d

\* Quotients and remainders of sums.
LEMMA Parts16 ==
  ASSUME NEW a \in Int, NEW b \in 0 .. 15
  PROVE  (a * 16 + b) \div 16 = a /\ (a * 16 + b) % 16 = b
  OBVIOUS

\* The same for four.
LEMMA Parts4 ==
  ASSUME NEW a \in Int, NEW b \in 0 .. 3
  PROVE  (a * 4 + b) \div 4 = a /\ (a * 4 + b) % 4 = b
  OBVIOUS

\* Four characters hold three bytes.
LEMMA CharactersHold ==
  ASSUME NEW x \in Octets, NEW y \in Octets, NEW z \in Octets
  PROVE  /\ Byte1(Char1(x), Char2(x, y)) = x
         /\ Byte2(Char2(x, y), Char3(y, z)) = y
         /\ Byte3(Char3(y, z), Char4(z)) = z
         /\ Char1(x) # Invalid /\ Char2(x, y) # Invalid
         /\ Char3(y, z) # Invalid /\ Char4(z) # Invalid
  <1> DEFINE x1 == x \div 4
             x2 == x % 4
             y1 == y \div 16
             y2 == y % 16
             z1 == z \div 64
             z2 == z % 64
  <1>1. /\ x = 4 * x1 + x2 /\ x1 \in 0 .. 63 /\ x2 \in 0 .. 3
        /\ y = 16 * y1 + y2 /\ y1 \in 0 .. 15 /\ y2 \in 0 .. 15
        /\ z = 64 * z1 + z2 /\ z1 \in 0 .. 3 /\ z2 \in 0 .. 63
    BY DEF Octets
  <1>2. /\ Char1(x) = x1 /\ Char2(x, y) = x2 * 16 + y1
        /\ Char3(y, z) = y2 * 4 + z1 /\ Char4(z) = z2
    BY DEF Char1, Char2, Char3, Char4
  <1> HIDE DEF x1, x2, y1, y2, z1, z2
  <1>3. (x2 * 16 + y1) \div 16 = x2 /\ (x2 * 16 + y1) % 16 = y1
    BY <1>1, Parts16
  <1>4. (y2 * 4 + z1) \div 4 = y2 /\ (y2 * 4 + z1) % 4 = z1
    BY <1>1, Parts4
  <1>5. Byte1(x1, x2 * 16 + y1) = x
    BY <1>1, <1>3 DEF Byte1
  <1>6. Byte2(x2 * 16 + y1, y2 * 4 + z1) = y
    BY <1>1, <1>3, <1>4 DEF Byte2
  <1>7. Byte3(y2 * 4 + z1, z2) = z
    BY <1>1, <1>4 DEF Byte3
  <1>8. x1 # Invalid /\ x2 * 16 + y1 # Invalid /\ y2 * 4 + z1 # Invalid /\ z2 # Invalid
    BY <1>1 DEF Invalid
  <1> QED
    BY <1>2, <1>5, <1>6, <1>7, <1>8

\* The byte of data with a number, counted from 1, or what stands for it.
ByteAt(data, j) == IF j <= Len(data) THEN data[j] ELSE 0

\* It is a byte.
LEMMA ByteAtType ==
  ASSUME NEW data \in Seq(Octets), NEW j \in Nat \ {0}
  PROVE  ByteAt(data, j) \in Octets
  <1>1. Len(data) \in Nat /\ \A i \in 1 .. Len(data) : data[i] \in Octets
    OBVIOUS
  <1>2. CASE j <= Len(data)
    <2>1. j \in 1 .. Len(data)
      BY <1>1, <1>2
    <2> QED
      BY <1>1, <1>2, <2>1 DEF ByteAt
  <1>3. CASE ~ (j <= Len(data))
    BY <1>3 DEF ByteAt, Octets
  <1> QED
    BY <1>2, <1>3

\* The four characters of a group.
LEMMA GroupOfSextets ==
  ASSUME NEW data \in Seq(Octets), NEW k \in Nat, NEW x, NEW y, NEW z,
         x = ByteAt(data, 3 * k + 1), y = ByteAt(data, 3 * k + 2), z = ByteAt(data, 3 * k + 3)
  PROVE  /\ Sextet(data, 4 * k) = Char1(x)
         /\ Sextet(data, 4 * k + 1) = Char2(x, y)
         /\ Sextet(data, 4 * k + 2) = Char3(y, z)
         /\ Sextet(data, 4 * k + 3) = Char4(z)
  <1>1. /\ (4 * k) \div 4 = k /\ (4 * k) % 4 = 0
        /\ (4 * k + 1) \div 4 = k /\ (4 * k + 1) % 4 = 1
        /\ (4 * k + 2) \div 4 = k /\ (4 * k + 2) % 4 = 2
        /\ (4 * k + 3) \div 4 = k /\ (4 * k + 3) % 4 = 3
    OBVIOUS
  <1>2. \A j : Sextet(data, j) = CASE j % 4 = 0 -> ByteAt(data, 3 * (j \div 4) + 1) \div 4
                                   [] j % 4 = 1 -> (ByteAt(data, 3 * (j \div 4) + 1) % 4) * 16
                                                     + ByteAt(data, 3 * (j \div 4) + 2) \div 16
                                   [] j % 4 = 2 -> (ByteAt(data, 3 * (j \div 4) + 2) % 16) * 4
                                                     + ByteAt(data, 3 * (j \div 4) + 3) \div 64
                                   [] OTHER -> ByteAt(data, 3 * (j \div 4) + 3) % 64
    BY DEF Sextet, ByteAt
  <1>3. ASSUME NEW j, j \div 4 = k
        PROVE  /\ j % 4 = 0 => Sextet(data, j) = Char1(x)
               /\ j % 4 = 1 => Sextet(data, j) = Char2(x, y)
               /\ j % 4 = 2 => Sextet(data, j) = Char3(y, z)
               /\ j % 4 = 3 => Sextet(data, j) = Char4(z)
    BY <1>2, <1>3 DEF Char1, Char2, Char3, Char4
  <1> QED
    BY <1>1, <1>3

\* The text of data, up to a place.
Writes(text, data, n) == \A j \in 0 .. n - 1 : At(text, j + 1) = Sextet(data, j)

\* A group gives back the bytes there is room for, if its characters are there
\* and the text ends with the data.
LEMMA GroupDecoded ==
  ASSUME NEW data \in Seq(Octets), NEW m \in 0 .. Len(data), NEW k \in Nat, 3 * k < m,
         NEW text, NEW datalen \in Int, 4 * k < datalen, NEW room \in Nat,
         m - 3 * k <= room, m # 3 * k + room => m = Len(data),
         NEW n \in Nat, Writes(text, data, n), (4 * m + 2) \div 3 <= n,
         m # 3 * k + room => n = (4 * m + 2) \div 3 /\ \A p \in Nat : p > n => At(text, p) = Invalid
  PROVE  Group(text, datalen, room, k)
           = [i \in 1 .. (IF 3 * k + 3 <= m THEN 3 ELSE m - 3 * k) |-> data[3 * k + i]]
  <1> DEFINE x == ByteAt(data, 3 * k + 1)
             y == ByteAt(data, 3 * k + 2)
             z == ByteAt(data, 3 * k + 3)
             c1 == At(text, 4 * k + 1)
             c2 == At(text, 4 * k + 2)
             c3 == At(text, 4 * k + 3)
             c4 == At(text, 4 * k + 4)
             count == CASE room = 0 \/ datalen <= 4 * k \/ c1 = Invalid \/ c2 = Invalid -> 0
                        [] OTHER -> IF room = 1 \/ c3 = Invalid THEN 1
                                    ELSE IF room = 2 \/ c4 = Invalid THEN 2 ELSE 3
             byte(i) == CASE i = 1 -> Byte1(c1, c2)
                          [] i = 2 -> Byte2(c2, c3)
                          [] OTHER -> Byte3(c3, c4)
  <1>1. x \in Octets /\ y \in Octets /\ z \in Octets
    BY ByteAtType
  <1>2. /\ Sextet(data, 4 * k) = Char1(x)
        /\ Sextet(data, 4 * k + 1) = Char2(x, y)
        /\ Sextet(data, 4 * k + 2) = Char3(y, z)
        /\ Sextet(data, 4 * k + 3) = Char4(z)
    BY GroupOfSextets
  <1>3. \A j \in 0 .. n - 1 : At(text, j + 1) = Sextet(data, j)
    BY DEF Writes
  <1>4. Group(text, datalen, room, k) = [i \in 1 .. count |-> byte(i)]
    BY DEF Group, Byte1, Byte2, Byte3
  <1>5. c1 = Char1(x) /\ c2 = Char2(x, y)
    <2>1. 4 * k \in 0 .. n - 1 /\ 4 * k + 1 \in 0 .. n - 1 /\ (4 * k + 1) + 1 = 4 * k + 2
      OBVIOUS
    <2> QED
      BY <1>2, <1>3, <2>1
  <1>6. m >= 3 * k + 2 => c3 = Char3(y, z)
    <2>1. m >= 3 * k + 2 => 4 * k + 2 \in 0 .. n - 1 /\ (4 * k + 2) + 1 = 4 * k + 3
      OBVIOUS
    <2> QED
      BY <1>2, <1>3, <2>1
  <1>7. m >= 3 * k + 3 => c4 = Char4(z)
    <2>1. m >= 3 * k + 3 => 4 * k + 3 \in 0 .. n - 1 /\ (4 * k + 3) + 1 = 4 * k + 4
      OBVIOUS
    <2> QED
      BY <1>2, <1>3, <2>1
  <1>8. m = 3 * k + 1 => room = 1 \/ c3 = Invalid
    <2>1. m = 3 * k + 1 /\ room # 1 => n = 4 * k + 2
      OBVIOUS
    <2> QED
      BY <2>1
  <1>9. m = 3 * k + 2 => room = 2 \/ c4 = Invalid
    <2>1. m = 3 * k + 2 /\ room # 2 => n = 4 * k + 3
      OBVIOUS
    <2> QED
      BY <2>1
  <1>10. \A i \in 1 .. 3 : 3 * k + i <= m => ByteAt(data, 3 * k + i) = data[3 * k + i]
    BY DEF ByteAt
  <1>11. 3 * k + 1 = 3 * k + 1 /\ room # 0 /\ ~ (datalen <= 4 * k)
         /\ (m >= 3 * k + 2 => room # 1) /\ (m >= 3 * k + 3 => room # 2)
    OBVIOUS
  <1> HIDE DEF c1, c2, c3, c4, x, y, z
  <1>12. /\ Byte1(Char1(x), Char2(x, y)) = x
         /\ Byte2(Char2(x, y), Char3(y, z)) = y
         /\ Byte3(Char3(y, z), Char4(z)) = z
         /\ Char1(x) # Invalid /\ Char2(x, y) # Invalid
         /\ Char3(y, z) # Invalid /\ Char4(z) # Invalid
    BY <1>1, CharactersHold
  <1>13. count = IF 3 * k + 3 <= m THEN 3 ELSE m - 3 * k
    <2>1. CASE m = 3 * k + 1
      <3>1. count = 1
        BY <1>5, <1>8, <1>11, <1>12, <2>1
      <3> QED
        BY <2>1, <3>1
    <2>2. CASE m = 3 * k + 2
      <3>1. c3 # Invalid /\ room # 1
        BY <1>6, <1>11, <1>12, <2>2
      <3>2. count = 2
        BY <1>5, <1>9, <1>11, <1>12, <2>2, <3>1
      <3> QED
        BY <2>2, <3>2
    <2>3. CASE m >= 3 * k + 3
      <3>1. m >= 3 * k + 2
        BY <2>3
      <3>2. count = 3
        BY <1>5, <1>6, <1>7, <1>11, <1>12, <2>3, <3>1
      <3> QED
        BY <2>3, <3>2
    <2>4. m = 3 * k + 1 \/ m = 3 * k + 2 \/ m >= 3 * k + 3
      OBVIOUS
    <2> HIDE DEF count
    <2> QED
      BY <2>1, <2>2, <2>3, <2>4
  <1>14. ASSUME NEW i \in 1 .. 3, 3 * k + i <= m PROVE byte(i) = data[3 * k + i]
    <2>1. CASE i = 1
      BY <1>5, <1>10, <1>12, <1>14, <2>1 DEF x
    <2>2. CASE i = 2
      <3>1. m >= 3 * k + 2 /\ y = data[3 * k + 2]
        BY <1>10, <1>14, <2>2 DEF y
      <3> QED
        BY <1>5, <1>6, <1>12, <2>2, <3>1
    <2>3. CASE i = 3
      <3>1. m >= 3 * k + 2 /\ m >= 3 * k + 3 /\ z = data[3 * k + 3]
        BY <1>10, <1>14, <2>3 DEF z
      <3> QED
        BY <1>6, <1>7, <1>12, <2>3, <3>1
    <2> QED
      BY <2>1, <2>2, <2>3
  <1> HIDE DEF byte, count
  <1>15. \A i \in 1 .. count : i \in 1 .. 3 /\ 3 * k + i <= m
    BY <1>13
  <1>16. [i \in 1 .. count |-> byte(i)] = [i \in 1 .. count |-> data[3 * k + i]]
    BY <1>14, <1>15
  <1> QED
    BY <1>4, <1>13, <1>16

\* Dividing by three keeps an order.
LEMMA Thirds ==
  ASSUME NEW a \in Int, NEW b \in Int, a <= b
  PROVE  a \div 3 <= b \div 3
  OBVIOUS

\* What is put behind the start of a sequence.
LEMMA Longer ==
  ASSUME NEW T, NEW d \in Seq(T), NEW a \in Nat, NEW n \in Nat, a + n <= Len(d)
  PROVE  SubSeq(d, 1, a) \o [i \in 1 .. n |-> d[a + i]] = SubSeq(d, 1, a + n)
  <1>1. [i \in 1 .. n |-> d[a + i]] \in [1 .. n -> T]
    OBVIOUS
  <1> DEFINE t == [i \in 1 .. n |-> d[a + i]]
             s == SubSeq(d, 1, a)
  <1>2. t \in Seq(T) /\ Len(t) = n
    BY <1>1, FunctionAsSequence
  <1>3. s \in Seq(T) /\ Len(s) = a /\ \A i \in 1 .. a : s[i] = d[i]
    OBVIOUS
  <1>4. \A i \in 1 .. n : t[i] = d[a + i]
    OBVIOUS
  <1> HIDE DEF s, t
  <1>5. /\ s \o t \in Seq(T) /\ Len(s \o t) = a + n
        /\ \A i \in 1 .. a + n : (s \o t)[i] = IF i <= a THEN s[i] ELSE t[i - a]
    BY <1>2, <1>3
  <1>6. /\ SubSeq(d, 1, a + n) \in Seq(T) /\ Len(SubSeq(d, 1, a + n)) = a + n
        /\ \A i \in 1 .. a + n : SubSeq(d, 1, a + n)[i] = d[i]
    OBVIOUS
  <1>7. ASSUME NEW i \in 1 .. a + n PROVE (IF i <= a THEN s[i] ELSE t[i - a]) = d[i]
    <2>1. CASE i <= a
      BY <1>3, <2>1
    <2>2. CASE ~ (i <= a)
      <3>1. i - a \in 1 .. n /\ a + (i - a) = i
        BY <2>2
      <3> QED
        BY <1>4, <2>2, <3>1
    <2> QED
      BY <2>1, <2>2
  <1>8. s \o t = SubSeq(d, 1, a + n)
    <2> DEFINE u == s \o t
               v == SubSeq(d, 1, a + n)
    <2>1. \A i \in 1 .. a + n : u[i] = v[i]
      BY <1>5, <1>6, <1>7
    <2>2. u \in [1 .. a + n -> T] /\ v \in [1 .. a + n -> T]
      BY <1>5, <1>6, SequenceAsFunction
    <2> HIDE DEF u, v
    <2>3. u = v
      BY <2>1, <2>2
    <2> QED
      BY <2>3 DEF u, v
  <1> QED
    BY <1>8 DEF s, t

\* The bytes of a group, if all are there.
Piece(data, m, k) == [i \in 1 .. (IF 3 * k + 3 <= m THEN 3 ELSE m - 3 * k) |-> data[3 * k + i]]

\* A text of data is decoded to the start of data that fits, if the groups are.
LEMMA Decoded ==
  ASSUME NEW data \in Seq(Octets), NEW m \in 0 .. Len(data), NEW buflen \in Nat, m <= buflen,
         NEW text, NEW datalen,
         \A k \in Nat : 3 * k < m =>
           Group(text, datalen, buflen - 3 * k, k)
             = Piece(data, m, k),
         \A k \in Nat : 3 * k = m => Group(text, datalen, buflen - m, k) = << >>
  PROVE  Base64Decode(buflen, text, datalen) = SubSeq(data, 1, m)
  <1> DEFINE done(n) == IF 3 * n <= m THEN 3 * n ELSE m
             S == [n \in 0 .. buflen |-> {SubSeq(data, 1, done(n))}]
  <1>1. << >> \in S[0]
    OBVIOUS
  <1>2. ASSUME NEW n \in 0 .. buflen - 1, NEW s \in S[n]
        PROVE  (IF Len(s) < 3 * (n + 1 - 1) THEN s
                ELSE s \o Group(text, datalen, buflen - Len(s), n + 1 - 1)) \in S[n + 1]
    <2> DEFINE g == Group(text, datalen, buflen - Len(s), n)
               r == IF Len(s) < 3 * n THEN s ELSE s \o g
    <2>1. n + 1 - 1 = n /\ n + 1 \in 0 .. buflen /\ n \in Nat
      OBVIOUS
    <2>2. S[n + 1] = {SubSeq(data, 1, done(n + 1))} /\ s = SubSeq(data, 1, done(n))
      BY <2>1
    <2>3. done(n) \in 0 .. Len(data) /\ done(n + 1) \in 0 .. Len(data)
      OBVIOUS
    <2>4. Len(s) = done(n) /\ s \in Seq(Octets)
      BY <2>2, <2>3
    <2> HIDE DEF S
    <2>5. CASE 3 * n < m
      <3> DEFINE c == IF 3 * n + 3 <= m THEN 3 ELSE m - 3 * n
      <3>1. done(n) = 3 * n /\ c \in Nat /\ done(n + 1) = 3 * n + c /\ ~ (done(n) < 3 * n)
        BY <2>5
      <3>2. g = [i \in 1 .. c |-> data[3 * n + i]]
        BY <2>1, <2>4, <2>5, <3>1 DEF Piece
      <3>3. 3 * n + c <= Len(data) /\ 3 * n \in Nat
        BY <2>3, <3>1
      <3> HIDE DEF c, g, done
      <3>4. SubSeq(data, 1, 3 * n) \o [i \in 1 .. c |-> data[3 * n + i]] = SubSeq(data, 1, 3 * n + c)
        BY <3>1, <3>3, Longer
      <3>5. r = SubSeq(data, 1, done(n + 1))
        BY <2>2, <2>4, <3>1, <3>2, <3>4
      <3> QED
        BY <2>1, <2>2, <3>5 DEF g
    <2>6. CASE 3 * n = m
      <3>1. done(n) = m /\ done(n + 1) = m /\ ~ (done(n) < 3 * n)
        BY <2>6
      <3>2. g = << >>
        BY <2>1, <2>4, <2>6, <3>1
      <3> HIDE DEF g, done
      <3>3. r = s
        BY <2>4, <3>1, <3>2
      <3> QED
        BY <2>1, <2>2, <3>1, <3>3 DEF g
    <2>7. CASE 3 * n > m
      <3>1. done(n) = m /\ done(n + 1) = m /\ done(n) < 3 * n
        BY <2>7
      <3> HIDE DEF g, done
      <3>2. r = s
        BY <2>4, <3>1
      <3> QED
        BY <2>1, <2>2, <3>1, <3>2 DEF g
    <2>8. 3 * n < m \/ 3 * n = m \/ 3 * n > m
      OBVIOUS
    <2> QED
      BY <2>5, <2>6, <2>7, <2>8
  <1>3. done(buflen) = m /\ buflen \in 0 .. buflen
    OBVIOUS
  <1>4. S[buflen] = {SubSeq(data, 1, m)}
    BY <1>3
  <1> HIDE DEF S
  <1>5. Base64Decode(buflen, text, datalen) \in S[buflen]
    BY <1>1, <1>2, DecodeRule
  <1> QED
    BY <1>4, <1>5

\* There is nothing to decode where there is no room, and behind the text.
LEMMA NothingDecoded ==
  ASSUME NEW text, NEW datalen, NEW room, NEW k, room = 0 \/ At(text, 4 * k + 1) = Invalid
  PROVE  Group(text, datalen, room, k) = << >>
  <1> DEFINE c(i) == At(text, 4 * k + i)
             count == CASE room = 0 \/ datalen <= 4 * k \/ c(1) = Invalid \/ c(2) = Invalid -> 0
                        [] OTHER -> IF room = 1 \/ c(3) = Invalid THEN 1
                                    ELSE IF room = 2 \/ c(4) = Invalid THEN 2 ELSE 3
             byte(i) == CASE i = 1 -> c(1) * 4 + c(2) \div 16
                          [] i = 2 -> (c(2) % 16) * 16 + c(3) \div 4
                          [] OTHER -> (c(3) % 4) * 64 + c(4)
  <1>1. Group(text, datalen, room, k) = [i \in 1 .. count |-> byte(i)]
    BY DEF Group
  <1>2. count = 0
    OBVIOUS
  <1> HIDE DEF count, byte
  <1>3. [i \in 1 .. 0 |-> byte(i)] = << >>
    OBVIOUS
  <1> QED
    BY <1>1, <1>2, <1>3

\* The text of data.
LEMMA SextetsText ==
  ASSUME NEW data \in Seq(Octets)
  PROVE  LET n == (4 * Len(data) + 2) \div 3
         IN  /\ n \in Nat /\ Len(Sextets(data)) = n
             /\ Sextets(data) \in Seq(Int)
             /\ \A j \in 0 .. n - 1 : Sextets(data)[j + 1] = Sextet(data, j)
  <1> DEFINE n == (4 * Len(data) + 2) \div 3
             t == [j \in 1 .. n |-> Sextet(data, j - 1)]
  <1>1. n \in Nat /\ Sextets(data) = t
    BY DEF Sextets
  <1>2. \A j \in Nat : Sextet(data, j) \in Int
    <2>1. ASSUME NEW x \in Octets, NEW y \in Octets, NEW z \in Octets
          PROVE  Char1(x) \in Int /\ Char2(x, y) \in Int /\ Char3(y, z) \in Int /\ Char4(z) \in Int
      BY DEF Char1, Char2, Char3, Char4, Octets
    <2>2. ASSUME NEW k \in Nat
          PROVE  /\ Sextet(data, 4 * k) \in Int /\ Sextet(data, 4 * k + 1) \in Int
                 /\ Sextet(data, 4 * k + 2) \in Int /\ Sextet(data, 4 * k + 3) \in Int
      <3>1. /\ ByteAt(data, 3 * k + 1) \in Octets /\ ByteAt(data, 3 * k + 2) \in Octets
            /\ ByteAt(data, 3 * k + 3) \in Octets
        BY ByteAtType
      <3> QED
        BY <2>1, <3>1, GroupOfSextets
    <2>3. ASSUME NEW j \in Nat PROVE Sextet(data, j) \in Int
      <3>1. PICK k \in Nat : j = 4 * k \/ j = 4 * k + 1 \/ j = 4 * k + 2 \/ j = 4 * k + 3
        <4>1. j \div 4 \in Nat /\ (\/ j = 4 * (j \div 4) \/ j = 4 * (j \div 4) + 1
                                   \/ j = 4 * (j \div 4) + 2 \/ j = 4 * (j \div 4) + 3)
          OBVIOUS
        <4> QED
          BY <4>1
      <3> QED
        BY <2>2, <3>1
    <2> QED
      BY <2>3
  <1>3. t \in [1 .. n -> Int]
    BY <1>2
  <1>4. t \in Seq(Int) /\ Len(t) = n
    BY <1>1, <1>3, FunctionAsSequence
  <1>5. \A j \in 0 .. n - 1 : t[j + 1] = Sextet(data, j)
    BY <1>1
  <1> HIDE DEF t
  <1> QED
    BY <1>1, <1>4, <1>5

\* Decoding the whole text gives back the data, or the part there is room for.
LEMMA Base64Back ==
  ASSUME NEW data \in Seq(Octets), NEW buflen \in Nat
  PROVE  Base64Decode(buflen, Sextets(data), Len(Sextets(data)))
           = SubSeq(data, 1, IF buflen <= Len(data) THEN buflen ELSE Len(data))
  <1> DEFINE text == Sextets(data)
             n == (4 * Len(data) + 2) \div 3
             m == IF buflen <= Len(data) THEN buflen ELSE Len(data)
  <1>1. n \in Nat /\ Len(text) = n /\ \A j \in 0 .. n - 1 : text[j + 1] = Sextet(data, j)
    BY SextetsText
  <1>2. m \in 0 .. Len(data) /\ m <= buflen /\ Len(data) \in Nat
    OBVIOUS
  <1>3. /\ m # buflen => m = Len(data) /\ n = (4 * m + 2) \div 3
        /\ (4 * m + 2) \div 3 <= n
    <2>1. m # buflen => m = Len(data) /\ n = (4 * m + 2) \div 3
      OBVIOUS
    <2>2. 4 * m + 2 <= 4 * Len(data) + 2 /\ 4 * m + 2 \in Int /\ 4 * Len(data) + 2 \in Int
      BY <1>2
    <2>3. (4 * m + 2) \div 3 <= (4 * Len(data) + 2) \div 3
      BY <2>2, Thirds
    <2> QED
      BY <2>1, <2>3
  <1> HIDE DEF n, text, m
  <1>4. Writes(text, data, n)
    BY <1>1 DEF Writes, At
  <1>5. \A p \in Nat : p > n => At(text, p) = Invalid
    BY <1>1 DEF At
  <1>6. ASSUME NEW k \in Nat, 3 * k < m
        PROVE  Group(text, n, buflen - 3 * k, k)
                 = Piece(data, m, k)
    <2> DEFINE room == buflen - 3 * k
    <2>1. /\ room \in Nat /\ m - 3 * k <= room
          /\ m # 3 * k + room => m = Len(data)
          /\ m # 3 * k + room => n = (4 * m + 2) \div 3 /\ \A p \in Nat : p > n => At(text, p) = Invalid
      <3>1. room \in Nat /\ m - 3 * k <= room /\ (m # 3 * k + room <=> m # buflen)
        BY <1>2, <1>6
      <3> HIDE DEF room
      <3> QED
        BY <1>3, <1>5, <3>1
    <2>2. 4 * k < n
      BY <1>1, <1>2, <1>3, <1>6
    <2>3. n \in Int
      BY <1>1
    <2> HIDE DEF room
    <2>4. Group(text, n, room, k)
            = Piece(data, m, k)
      BY <1>1, <1>2, <1>3, <1>4, <1>6, <2>1, <2>2, <2>3, GroupDecoded DEF Piece
    <2> QED
      BY <2>4 DEF room
  <1>7. ASSUME NEW k \in Nat, 3 * k = m PROVE Group(text, n, buflen - m, k) = << >>
    <2>1. CASE m = buflen
      <3>1. buflen - m = 0
        BY <1>2, <2>1
      <3> QED
        BY <3>1, NothingDecoded
    <2>2. CASE m # buflen
      <3>1. n = 4 * k /\ 4 * k + 1 \in Nat
        BY <1>2, <1>3, <1>7, <2>2
      <3>2. At(text, 4 * k + 1) = Invalid
        BY <1>5, <3>1
      <3> QED
        BY <3>2, NothingDecoded
    <2> QED
      BY <2>1, <2>2
  <1>8. /\ \A k \in Nat : 3 * k < m =>
             Group(text, n, buflen - 3 * k, k)
               = Piece(data, m, k)
        /\ \A k \in Nat : 3 * k = m => Group(text, n, buflen - m, k) = << >>
    BY <1>6, <1>7
  <1>9. Base64Decode(buflen, text, n) = SubSeq(data, 1, m)
    BY <1>2, <1>8, Decoded
  <1> QED
    BY <1>1, <1>9 DEF text, m

\* The whole of a sequence, and the start of one.
LEMMA Whole ==
  ASSUME NEW T, NEW d \in Seq(T)
  PROVE  SubSeq(d, 1, Len(d)) = d
  OBVIOUS

\* The start of a sequence is a prefix of it.
LEMMA StartIsPrefix ==
  ASSUME NEW T, NEW d \in Seq(T), NEW k \in 0 .. Len(d)
  PROVE  IsPrefix(SubSeq(d, 1, k), d) /\ Len(SubSeq(d, 1, k)) = k
  <1> DEFINE s == SubSeq(d, 1, k)
  <1>1. s \in Seq(T) /\ Len(s) = k
    OBVIOUS
  <1>2. SubSeq(s, 1, Len(s)) = s
    BY <1>1, Whole
  <1>3. Len(s) <= Len(d) /\ s = SubSeq(d, 1, Len(s))
    BY <1>1
  <1> HIDE DEF s
  <1>4. IsPrefix(s, d)
    BY <1>2, <1>3 DEF IsPrefix
  <1> QED
    BY <1>1, <1>4 DEF s

\* What base64 encodes is decoded to what it was, whole or in part.
THEOREM Base64Inverts ==
  ASSUME NEW data \in Seq(Octets), NEW buflen \in Nat
  PROVE  Base64OK(data, buflen)
  <1> DEFINE L == Len(data)
             n == (4 * L + 2) \div 3
             text == Sextets(data)
             some == Base64Encode(buflen, data)
  <1>1. L \in Nat /\ n \in Nat /\ Len(text) = n /\ text \in Seq(Int)
    BY SextetsText
  <1>2. n <= 2 * L /\ n <= 4 * ((L + 2) \div 3)
    OBVIOUS
  <1>3. L % 3 = 0 => n = 4 * ((L + 2) \div 3) /\ (n \div 4) * 3 = L
    <2>1. L % 3 = 0 => L = 3 * (L \div 3) /\ L \div 3 \in Nat
      OBVIOUS
    <2>2. ASSUME NEW q \in Nat, L = 3 * q PROVE n = 4 * ((L + 2) \div 3) /\ (n \div 4) * 3 = L
      <3>1. (4 * (3 * q) + 2) \div 3 = 4 * q /\ (3 * q + 2) \div 3 = q /\ (4 * q) \div 4 = q
        OBVIOUS
      <3> QED
        BY <2>2, <3>1
    <2> QED
      BY <2>1, <2>2
  <1>4. Base64Encode(2 * L, data).text = text
    BY <1>1, <1>2 DEF Base64Encode
  <1>5. Base64Decode(L + 3, text, n) = data
    <2>1. L + 3 \in Nat /\ ~ (L + 3 <= L)
      BY <1>1
    <2>2. Base64Decode(L + 3, text, n) = SubSeq(data, 1, L)
      BY <1>1, <2>1, Base64Back
    <2> QED
      BY <2>2, Whole
  <1>6. ASSUME NEW k \in 1 .. L PROVE Base64Decode(k, text, n) = SubSeq(data, 1, k)
    <2>1. k \in Nat /\ k <= L
      OBVIOUS
    <2> QED
      BY <1>1, <2>1, Base64Back
  <1> HIDE DEF n, text, L
  <1>7. some = IF n <= buflen THEN [ret |-> "ok", text |-> text, end |-> n]
               ELSE [ret |-> "XT_EMSGSIZE", text |-> SubSeq(text, 1, buflen - 1), end |-> buflen - 1]
    BY <1>1 DEF Base64Encode, text
  <1>8. buflen > 0 => IsPrefix(some.text, text) /\ some.end = Len(some.text)
    <2>1. CASE n <= buflen
      <3>1. some.text = text /\ some.end = n
        BY <1>7, <2>1
      <3>2. IsPrefix(text, text)
        BY <1>1 DEF IsPrefix
      <3> QED
        BY <1>1, <3>1, <3>2
    <2>2. CASE ~ (n <= buflen) /\ buflen > 0
      <3>1. some.text = SubSeq(text, 1, buflen - 1) /\ some.end = buflen - 1
        BY <1>7, <2>2
      <3>2. buflen - 1 \in 0 .. Len(text)
        BY <1>1, <2>2
      <3> HIDE DEF some
      <3> QED
        BY <1>1, <3>1, <3>2, StartIsPrefix
    <2> QED
      BY <2>1, <2>2
  <1>9. buflen > 0 /\ buflen # n => some.end < buflen
    BY <1>1, <1>7
  <1> HIDE DEF some
  <1>10. Base64OK(data, buflen)
           <=> /\ Base64Decode(L + 3, text, Len(text)) = data
               /\ \A k \in 1 .. L : Base64Decode(k, text, Len(text)) = SubSeq(data, 1, k)
               /\ buflen > 0 => IsPrefix(some.text, text) /\ some.end = Len(some.text)
               /\ buflen > 0 /\ buflen # Len(text) => some.end < buflen
               /\ Len(text) <= 4 * ((L + 2) \div 3)
               /\ L % 3 = 0 => /\ Len(text) = 4 * ((L + 2) \div 3)
                               /\ (Len(text) \div 4) * 3 = L
    BY <1>4 DEF Base64OK, GetEncodedSize, GetDecodedSize, L, some
  <1> QED
    BY <1>1, <1>2, <1>3, <1>5, <1>6, <1>8, <1>9, <1>10
-----------------------------------------------------------------------------
\* The salt that is decoded from the text of a seed, or from the start of one,
\* is the start of the seed.
LEMMA SaltDecoded ==
  ASSUME NEW data \in Seq(Octets), MaxSalt <= Len(data),
         NEW l \in Nat, 22 <= l, l <= Len(Sextets(data)), NEW datalen \in Int, 20 < datalen
  PROVE  Base64Decode(MaxSalt, SubSeq(Sextets(data), 1, l), datalen) = SubSeq(data, 1, MaxSalt)
  <1> DEFINE n == (4 * Len(data) + 2) \div 3
             text == SubSeq(Sextets(data), 1, l)
  <1>1. /\ n \in Nat /\ Len(Sextets(data)) = n /\ Sextets(data) \in Seq(Int)
        /\ \A j \in 0 .. n - 1 : Sextets(data)[j + 1] = Sextet(data, j)
    BY SextetsText
  <1>2. Len(text) = l /\ \A i \in 1 .. l : text[i] = Sextets(data)[i]
    BY <1>1
  <1> HIDE DEF n, text
  <1>3. Writes(text, data, 22)
    <2>1. ASSUME NEW j \in 0 .. 22 - 1 PROVE At(text, j + 1) = Sextet(data, j)
      <3>1. j + 1 \in 1 .. l /\ j + 1 <= l /\ j \in 0 .. n - 1
        BY <1>1
      <3> QED
        BY <1>1, <1>2, <3>1 DEF At
    <2> QED
      BY <2>1 DEF Writes
  <1> DEFINE m == MaxSalt
             w == 22
  <1>4. /\ m \in 0 .. Len(data) /\ m \in Nat /\ m <= m /\ w \in Nat
        /\ (4 * m + 2) \div 3 <= w /\ \A k \in Nat : 3 * k < m => 4 * k <= 20
        /\ \A k \in Nat : 3 * k # m
    BY DEF MaxSalt
  <1>5. Writes(text, data, w)
    BY <1>3
  <1> HIDE DEF m, w
  <1>6. ASSUME NEW k \in Nat, 3 * k < m
        PROVE  Group(text, datalen, m - 3 * k, k) = Piece(data, m, k)
    <2> DEFINE room == m - 3 * k
    <2>1. room \in Nat /\ m - 3 * k <= room /\ m = 3 * k + room /\ 4 * k < datalen
      BY <1>4, <1>6
    <2> HIDE DEF room
    <2>2. Group(text, datalen, room, k) = Piece(data, m, k)
      BY <1>4, <1>5, <1>6, <2>1, GroupDecoded DEF Piece
    <2> QED
      BY <2>2 DEF room
  <1>7. /\ \A k \in Nat : 3 * k < m => Group(text, datalen, m - 3 * k, k) = Piece(data, m, k)
        /\ \A k \in Nat : 3 * k = m => Group(text, datalen, m - m, k) = << >>
    BY <1>4, <1>6
  <1>8. Base64Decode(m, text, datalen) = SubSeq(data, 1, m)
    BY <1>4, <1>7, Decoded
  <1> QED
    BY <1>8 DEF text, m

\* How many characters a salt has.
LEMMA Characters ==
  ASSUME NEW a \in Nat, NEW b \in Nat, 22 <= a
  PROVE  /\ a + 31 * b - 1 \in Int /\ 20 < a + 31 * b - 1
         /\ ~ (((a + 31 * b) * 3) \div 4 < 16)
  OBVIOUS

\* The salt of a text is the start of the seed.
LEMMA RawSaltOf ==
  ASSUME NEW data \in Seq(Octets), MaxSalt <= Len(data), NEW salt,
         NEW l \in Nat, 22 <= l, l <= Len(Sextets(data)), salt.text = SubSeq(Sextets(data), 1, l),
         Len(salt.cipher) \in Nat
  PROVE  RawSalt(salt) = SubSeq(data, 1, MaxSalt)
  <1> DEFINE n == Len(salt.text)
             datalen == n + 31 * Len(salt.cipher) - 1
             raw == Base64Decode(MaxSalt, salt.text, datalen)
  <1>1. n = l
    <2>1. Sextets(data) \in Seq(Int)
      BY SextetsText
    <2> QED
      BY <2>1
  <1>2. datalen \in Int /\ 20 < datalen
    BY <1>1, Characters
  <1>3. RawSalt(salt) = [i \in 1 .. MaxSalt |-> IF i <= Len(raw) THEN raw[i] ELSE -1]
    BY DEF RawSalt
  <1> HIDE DEF datalen, n
  <1>4. raw = SubSeq(data, 1, MaxSalt)
    BY <1>2, SaltDecoded
  <1> HIDE DEF raw
  <1>5. MaxSalt \in 0 .. Len(data) /\ MaxSalt \in Nat
    BY DEF MaxSalt
  <1>6. raw \in Seq(Octets) /\ Len(raw) = MaxSalt
    BY <1>4, <1>5
  <1>7. raw = [i \in 1 .. MaxSalt |-> raw[i]]
    BY <1>6, SequenceAsFunction
  <1>8. [i \in 1 .. MaxSalt |-> IF i <= Len(raw) THEN raw[i] ELSE -1] = [i \in 1 .. MaxSalt |-> raw[i]]
    BY <1>5, <1>6
  <1> QED
    BY <1>3, <1>4, <1>7, <1>8

\* Functions are equal when their values are.
LEMMA SameFunction ==
  ASSUME NEW T, NEW n \in Nat, NEW f \in [1 .. n -> T], NEW g \in [1 .. n -> T],
         \A i \in 1 .. n : f[i] = g[i]
  PROVE  f = g
  OBVIOUS

\* The key schedule tells C strings apart that are not longer than it uses.
LEMMA SubkeysApart ==
  ASSUME NEW key \in Seq(Letters), Len(key) < 72, NEW other \in Seq(Letters), Len(other) < 72,
         Subkeys(key, "a") = Subkeys(other, "a")
  PROVE  other = key
  <1> DEFINE a == Append(key, 0)
             b == Append(other, 0)
             m == Len(key)
             n == Len(other)
  <1>1. m \in 0 .. 71 /\ n \in 0 .. 71
    <2>1. m \in Nat /\ n \in Nat /\ m < 72 /\ n < 72
      BY SequenceAsFunction
    <2> HIDE DEF m, n
    <2> QED
      BY <2>1
  <1>2. /\ Len(a) = m + 1 /\ Len(b) = n + 1
        /\ \A i \in 1 .. m : a[i] = key[i] /\ a[i] # 0
        /\ \A i \in 1 .. n : b[i] = other[i] /\ b[i] # 0
        /\ a[m + 1] = 0 /\ b[n + 1] = 0
    <2>1. /\ Len(a) = m + 1 /\ Len(b) = n + 1
          /\ \A i \in 1 .. m : a[i] = key[i] /\ key[i] \in Letters
          /\ \A i \in 1 .. n : b[i] = other[i] /\ other[i] \in Letters
          /\ a[m + 1] = 0 /\ b[n + 1] = 0
      OBVIOUS
    <2>2. \A i \in Letters : i # 0
      BY DEF Letters
    <2> QED
      BY <2>1, <2>2
  <1> HIDE DEF a, b, m, n
  <1>3. Len(a) % 256 = m + 1 /\ Len(b) % 256 = n + 1
    <2>1. \A i \in 0 .. 71 : (i + 1) % 256 = i + 1
      OBVIOUS
    <2> QED
      BY <1>1, <1>2, <2>1
  <1>4. ASSUME NEW i \in 0 .. 71 PROVE a[(i % (m + 1)) + 1] = b[(i % (n + 1)) + 1]
    <2>1. Subkeys(key, "a")[i] = a[(i % (Len(a) % 256)) + 1]
      BY DEF Subkeys, a
    <2>2. Subkeys(other, "a")[i] = b[(i % (Len(b) % 256)) + 1]
      BY DEF Subkeys, b
    <2> QED
      BY <1>3, <2>1, <2>2
  <1>5. ASSUME NEW p \in 0 .. 71, NEW i \in 0 .. p PROVE (i % (p + 1)) + 1 = i + 1
    OBVIOUS
  <1>6. ~ (m < n)
    <2> SUFFICES ASSUME m < n PROVE FALSE
      OBVIOUS
    <2>1. m \in 0 .. n /\ m \in 0 .. m
      BY <1>1
    <2>2. a[m + 1] = b[m + 1]
      BY <1>1, <1>4, <1>5, <2>1
    <2>3. m + 1 \in 1 .. n
      BY <1>1
    <2> QED
      BY <1>2, <2>2, <2>3
  <1>7. ~ (n < m)
    <2> SUFFICES ASSUME n < m PROVE FALSE
      OBVIOUS
    <2>1. n \in 0 .. m /\ n \in 0 .. n
      BY <1>1
    <2>2. a[n + 1] = b[n + 1]
      BY <1>1, <1>4, <1>5, <2>1
    <2>3. n + 1 \in 1 .. m
      BY <1>1
    <2> QED
      BY <1>2, <2>2, <2>3
  <1>8. m = n
    BY <1>1, <1>6, <1>7
  <1>9. ASSUME NEW i \in 1 .. m PROVE other[i] = key[i]
    <2>1. i - 1 \in 0 .. m /\ i - 1 \in 0 .. 71 /\ (i - 1) + 1 = i
      BY <1>1
    <2>2. ((i - 1) % (m + 1)) + 1 = i
      BY <1>1, <1>5, <2>1
    <2>3. a[i] = b[i]
      BY <1>4, <1>8, <2>1, <2>2
    <2> QED
      BY <1>2, <1>8, <2>3
  <1>10. key \in [1 .. m -> Letters] /\ other \in [1 .. n -> Letters]
    BY SequenceAsFunction DEF m, n
  <1>11. key \in [1 .. m -> Letters] /\ other \in [1 .. m -> Letters]
    BY <1>8, <1>10
  <1>12. \A i \in 1 .. m : other[i] = key[i]
    BY <1>9
  <1>13. m \in Nat
    BY <1>1
  <1> QED
    BY <1>11, <1>12, <1>13, SameFunction

\* The version and the number of rounds of a salt.
LEMMA InBounds ==
  ASSUME NEW version, version = 2, NEW logr \in 4 .. 31
  PROVE  ~ (version > 2) /\ logr \in 0 .. 31 /\ ~ (logr < 4)
  OBVIOUS

\* A salt that passes the checks.
LEMMA Hashed ==
  ASSUME NEW key, NEW salt,
         salt.version = 2, salt.minor = "a", salt.synced, salt.logr \in 4 .. 31,
         Len(salt.text) \in Nat, Len(salt.cipher) \in Nat, 22 <= Len(salt.text)
  PROVE  Bcrypt(key, salt, KeyLength)
           = [ret |-> "ok",
              hash |-> [version |-> 2, minor |-> "a", synced |-> TRUE, logr |-> salt.logr,
                        text |-> Sextets(RawSalt(salt)),
                        cipher |-> <<Ciphertext(key, "a", RawSalt(salt), salt.logr)>>]]
  <1>1. ~ (((Len(salt.text) + 31 * Len(salt.cipher)) * 3) \div 4 < MaxSalt)
    <2> DEFINE n == Len(salt.text)
               c == Len(salt.cipher)
    <2> HIDE DEF n, c
    <2>1. n \in Nat /\ c \in Nat /\ 22 <= n
      BY DEF n, c
    <2>2. ~ (((n + 31 * c) * 3) \div 4 < 16)
      BY <2>1, Characters
    <2> QED
      BY <2>2 DEF MaxSalt, n, c
  <1>2. ~ (salt.version > 2) /\ salt.logr \in 0 .. 31 /\ ~ (salt.logr < 4)
    BY InBounds
  <1>3. ~ (KeyLength < KeyLength)
    BY DEF KeyLength
  <1>4. salt.minor \in {"", "a"} /\ salt.synced
    BY Zenon
  <1>5. ~ ( \/ salt.version > 2 \/ salt.minor \notin {"", "a"} \/ ~salt.synced
            \/ salt.logr \notin 0 .. 31 \/ salt.logr < 4
            \/ ((Len(salt.text) + 31 * Len(salt.cipher)) * 3) \div 4 < MaxSalt )
    BY <1>1, <1>2, <1>4, Zenon
  <1> QED
    BY <1>3, <1>5 DEF Bcrypt

\* A hash made with a salt accepts the password it was made of and no other.
THEOREM BcryptAccepts ==
  ASSUME NEW key \in Seq(Letters), Len(key) < 72, NEW other \in Seq(Letters), Len(other) < 72,
         NEW logRounds \in Nat, NEW seed \in Seq(Octets), NEW saltlen \in Nat
  PROVE  BcryptOK(key, other, logRounds, seed, saltlen)
  <1> DEFINE res == GenSalt(logRounds, seed, saltlen)
             salt == res.salt
             raw == SubSeq(seed, 1, MaxSalt)
             n == (4 * Len(seed) + 2) \div 3
             logr == CASE logRounds < 4 -> 4 [] logRounds > 31 -> 31 [] OTHER -> logRounds
  <1>1. CASE saltlen < SaltLength
    BY <1>1 DEF BcryptOK, GenSalt
  <1>2. CASE ~ (saltlen < SaltLength)
    <2>1. /\ res.ret = "ok"
          /\ salt = [version |-> 2, minor |-> "a", synced |-> TRUE, cipher |-> << >>, logr |-> logr,
                     text |-> Base64Encode(saltlen - 7, seed).text]
      BY <1>2 DEF GenSalt
    <2>2. logr \in 4 .. 31
      <3>1. CASE logRounds < 4
        BY <3>1
      <3>2. CASE logRounds > 31
        <4>1. ~ (logRounds < 4)
          BY <3>2
        <4> QED
          BY <3>2, <4>1
      <3>3. CASE ~ (logRounds < 4) /\ ~ (logRounds > 31)
        <4>1. logr = logRounds
          BY <3>3
        <4>2. logRounds \in 4 .. 31
          BY <3>3
        <4> QED
          BY <4>1, <4>2
      <3> QED
        BY <3>1, <3>2, <3>3
    <2>3. n \in Nat /\ Len(Sextets(seed)) = n /\ Sextets(seed) \in Seq(Int) /\ Len(seed) \in Nat
      BY SextetsText
    <2> HIDE DEF logr, res, n
    <2>4. PICK l \in 0 .. n : /\ Base64Encode(saltlen - 7, seed).text = SubSeq(Sextets(seed), 1, l)
                              /\ l = n \/ l >= 24
      <3>1. saltlen >= 32
        BY <1>2 DEF SaltLength
      <3>2. CASE n <= saltlen - 7
        <4>1. Base64Encode(saltlen - 7, seed).text = Sextets(seed)
          BY <2>3, <3>2 DEF Base64Encode
        <4>2. Sextets(seed) = SubSeq(Sextets(seed), 1, n)
          BY <2>3, Whole
        <4>3. n \in 0 .. n
          BY <2>3
        <4> QED
          BY <4>1, <4>2, <4>3
      <3>3. CASE ~ (n <= saltlen - 7)
        <4>1. Base64Encode(saltlen - 7, seed).text = SubSeq(Sextets(seed), 1, (saltlen - 7) - 1)
          BY <2>3, <3>3 DEF Base64Encode
        <4>2. (saltlen - 7) - 1 \in 0 .. n /\ (saltlen - 7) - 1 >= 24
          BY <2>3, <3>1, <3>3
        <4> QED
          BY <4>1, <4>2
      <3> QED
        BY <3>2, <3>3
    <2>5. /\ salt.version = 2 /\ salt.minor = "a" /\ salt.synced /\ salt.logr = logr
          /\ salt.cipher = << >> /\ salt.text = SubSeq(Sextets(seed), 1, l)
          /\ Len(salt.text) = l /\ Len(salt.cipher) = 0
      <3>1. Len(SubSeq(Sextets(seed), 1, l)) = l
        BY <2>3
      <3> QED
        BY <2>1, <2>4, <3>1
    <2> HIDE DEF salt
    <2>6. CASE Len(seed) < MaxSalt
      <3>1. l <= 20
        <4>1. n <= 20
          BY <2>3, <2>6 DEF MaxSalt, n
        <4> QED
          BY <2>3, <4>1
      <3>2. ((Len(salt.text) + 31 * Len(salt.cipher)) * 3) \div 4 < MaxSalt
        <4>1. Len(salt.text) + 31 * Len(salt.cipher) = l
          BY <2>4, <2>5
        <4>2. (l * 3) \div 4 < 16
          BY <2>4, <3>1
        <4> QED
          BY <4>1, <4>2 DEF MaxSalt
      <3>3. ~ (KeyLength < KeyLength) /\ KeyLength >= KeyLength
        BY DEF KeyLength
      <3>4. Bcrypt(key, salt, KeyLength) = [ret |-> "XT_EINVAL"]
        BY <3>2, <3>3 DEF Bcrypt
      <3>5. Bcrypt(key, salt, KeyLength).ret = "XT_EINVAL"
        BY <3>4
      <3> QED
        BY <1>2, <2>6, <3>5 DEF BcryptOK, salt, res
    <2>7. CASE ~ (Len(seed) < MaxSalt)
      <3> DEFINE hash == [version |-> 2, minor |-> "a", synced |-> TRUE, logr |-> logr,
                          text |-> Sextets(raw), cipher |-> <<Ciphertext(key, "a", raw, logr)>>]
      <3>1. MaxSalt <= Len(seed) /\ l \in Nat /\ 22 <= l /\ l <= Len(Sextets(seed))
        <4>1. 22 <= n
          BY <2>3, <2>7 DEF MaxSalt, n
        <4> QED
          BY <2>3, <2>4, <2>7, <4>1 DEF MaxSalt
      <3>2. RawSalt(salt) = raw
        BY <2>5, <3>1, RawSaltOf
      <3>3. Bcrypt(key, salt, KeyLength) = [ret |-> "ok", hash |-> hash]
        BY <2>2, <2>5, <3>1, <3>2, Hashed
      <3>4. raw \in Seq(Octets) /\ Len(raw) = MaxSalt /\ SubSeq(raw, 1, MaxSalt) = raw
        <4>1. MaxSalt \in 0 .. Len(seed)
          BY <2>3, <3>1 DEF MaxSalt
        <4>2. raw \in Seq(Octets) /\ Len(raw) = MaxSalt
          BY <4>1
        <4> HIDE DEF raw
        <4> QED
          BY <4>2, Whole
      <3> HIDE DEF raw
      <3>5. /\ hash.version = 2 /\ hash.minor = "a" /\ hash.synced /\ hash.logr = logr
            /\ hash.text = Sextets(raw) /\ hash.cipher = <<Ciphertext(key, "a", raw, logr)>>
            /\ Len(hash.cipher) = 1
        OBVIOUS
      <3> HIDE DEF hash
      <3>6. Len(Sextets(raw)) = 22 /\ Sextets(raw) \in Seq(Int)
        <4>1. (4 * MaxSalt + 2) \div 3 = 22
          BY DEF MaxSalt
        <4> QED
          BY <3>4, <4>1, SextetsText
      <3>7. RawSalt(hash) = raw
        <4>1. hash.text = SubSeq(Sextets(raw), 1, 22)
          <5>1. SubSeq(Sextets(raw), 1, 22) = Sextets(raw)
            BY <3>6, Whole
          <5> QED
            BY <3>5, <5>1
        <4>2. MaxSalt <= Len(raw) /\ 22 \in Nat /\ 22 <= 22 /\ 22 <= Len(Sextets(raw)) /\ Len(hash.cipher) \in Nat
          BY <3>4, <3>5, <3>6 DEF MaxSalt
        <4>3. RawSalt(hash) = SubSeq(raw, 1, MaxSalt)
          BY <3>4, <4>1, <4>2, RawSaltOf
        <4> QED
          BY <3>4, <4>3
      <3>8. ASSUME NEW k
            PROVE  Bcrypt(k, hash, KeyLength)
                     = [ret |-> "ok",
                        hash |-> [version |-> 2, minor |-> "a", synced |-> TRUE, logr |-> logr,
                                  text |-> Sextets(raw), cipher |-> <<Ciphertext(k, "a", raw, logr)>>]]
        <4>1. Len(hash.text) \in Nat /\ Len(hash.cipher) \in Nat /\ 22 <= Len(hash.text)
          BY <3>5, <3>6
        <4> QED
          BY <2>2, <3>5, <3>7, <4>1, Hashed
      <3>9. Bcrypt(key, hash, KeyLength) = [ret |-> "ok", hash |-> hash]
        BY <3>8 DEF hash
      <3>10. other # key => Bcrypt(other, hash, KeyLength) # [ret |-> "ok", hash |-> hash]
        <4> SUFFICES ASSUME Bcrypt(other, hash, KeyLength) = [ret |-> "ok", hash |-> hash]
                     PROVE  other = key
          OBVIOUS
        <4>1. Bcrypt(other, hash, KeyLength).hash.cipher = <<Ciphertext(other, "a", raw, logr)>>
          BY <3>8
        <4>2. Bcrypt(other, hash, KeyLength).hash = hash
          OBVIOUS
        <4>3. <<Ciphertext(other, "a", raw, logr)>> = <<Ciphertext(key, "a", raw, logr)>>
          BY <3>5, <4>1, <4>2
        <4>4. Ciphertext(other, "a", raw, logr) = Ciphertext(key, "a", raw, logr)
          BY <4>3
        <4>5. Subkeys(key, "a") = Subkeys(other, "a")
          BY <4>4 DEF Ciphertext
        <4> QED
          BY <4>5, SubkeysApart
      <3>11. BcryptOK(key, other, logRounds, seed, saltlen)
               <=> LET h == Bcrypt(key, salt, KeyLength)
                   IN  /\ h.ret = "ok"
                       /\ Bcrypt(key, h.hash, KeyLength) = h
                       /\ other # key => Bcrypt(other, h.hash, KeyLength) # h
                       /\ GetRounds(h.hash) \in 4 .. 31
                       /\ h.hash.text = Sextets(raw)
        BY <1>2, <2>7 DEF BcryptOK, salt, res, raw
      <3>12. [ret |-> "ok", hash |-> hash].ret = "ok" /\ [ret |-> "ok", hash |-> hash].hash = hash
        OBVIOUS
      <3>13. GetRounds(hash) \in 4 .. 31
        BY <2>2, <3>5 DEF GetRounds
      <3> QED
        BY <3>3, <3>5, <3>9, <3>10, <3>11, <3>12, <3>13
    <2> QED
      BY <2>6, <2>7
  <1> QED
    BY <1>1, <1>2
-----------------------------------------------------------------------------
(***************************************************************************)
(* Checksums.  A shift of the table is linear and injective, because the   *)
(* polynomial has the highest bit; a byte of a checksum is eight shifts of *)
(* the sum with the byte added (CRCByteIsEight).  So a change of one byte  *)
(* makes a sum that stays different to the end of the message.             *)
(***************************************************************************)
\* Shifts of the table of checksums: the bit that is lost decides whether the
\* polynomial, which has the highest bit, is added.
LEMMA ShiftMember ==
  ASSUME NEW x \in SUBSET Positions, NEW n \in Nat, NEW j
  PROVE  j \in ShiftRight(x, n) <=> j \in Positions /\ j + n \in x
  BY DEF ShiftRight, Positions

\* The bits of a word after one shift of the table.
LEMMA ShiftedMember ==
  ASSUME NEW x \in SUBSET Positions, NEW j
  PROVE  j \in Shifted(x) <=>
           j \in Positions /\ ~(j + 1 \in x <=> 0 \in x /\ j \in Polynomial)
  <1>1. Polynomial \subseteq Positions
    BY DEF Polynomial, Positions
  <1>2. j \in ShiftRight(x, 1) <=> j \in Positions /\ j + 1 \in x
    BY ShiftMember
  <1> HIDE DEF Polynomial, Positions
  <1> QED
    BY <1>1, <1>2 DEF Shifted, SymDiff

\* A shift yields a word.
LEMMA ShiftedType ==
  ASSUME NEW x \in SUBSET Positions
  PROVE  Shifted(x) \in SUBSET Positions
  BY ShiftedMember

\* A bit is in a sum when it is in one of the two.
LEMMA SumMember ==
  ASSUME NEW x, NEW y, NEW j
  PROVE  j \in SymDiff(x, y) <=> ~(j \in x <=> j \in y)
  BY DEF SymDiff

\* A sum of words is a word.
LEMMA SumType ==
  ASSUME NEW x \in SUBSET Positions, NEW y \in SUBSET Positions
  PROVE  SymDiff(x, y) \in SUBSET Positions
  BY DEF SymDiff

\* A shift of a sum is the sum of the shifts.
LEMMA ShiftedSum ==
  ASSUME NEW x \in SUBSET Positions, NEW y \in SUBSET Positions
  PROVE  Shifted(SymDiff(x, y)) = SymDiff(Shifted(x), Shifted(y))
  <1>1. SymDiff(x, y) \in SUBSET Positions
    BY SumType
  <1>2. ASSUME NEW j
        PROVE  j \in Shifted(SymDiff(x, y)) <=> j \in SymDiff(Shifted(x), Shifted(y))
    <2>1. j \in Shifted(SymDiff(x, y)) <=>
            j \in Positions /\ ~(~(j + 1 \in x <=> j + 1 \in y)
                                 <=> ~(0 \in x <=> 0 \in y) /\ j \in Polynomial)
      BY <1>1, ShiftedMember, SumMember
    <2>2. j \in SymDiff(Shifted(x), Shifted(y)) <=>
            ~( j \in Positions /\ ~(j + 1 \in x <=> 0 \in x /\ j \in Polynomial)
               <=> j \in Positions /\ ~(j + 1 \in y <=> 0 \in y /\ j \in Polynomial) )
      BY ShiftedMember, SumMember
    <2> QED
      BY <2>1, <2>2
  <1> QED
    BY <1>2

\* No two words have the same shift.
LEMMA ShiftedInjective ==
  ASSUME NEW x \in SUBSET Positions, NEW y \in SUBSET Positions, Shifted(x) = Shifted(y)
  PROVE  x = y
  <1>1. 0 \in x <=> 0 \in y
    <2>1. 31 \in Positions /\ 31 \in Polynomial /\ 31 + 1 \notin x /\ 31 + 1 \notin y
      BY DEF Positions, Polynomial
    <2>2. 31 \in Shifted(x) <=> 31 \in Positions /\ ~(31 + 1 \in x <=> 0 \in x /\ 31 \in Polynomial)
      BY ShiftedMember
    <2>3. 31 \in Shifted(y) <=> 31 \in Positions /\ ~(31 + 1 \in y <=> 0 \in y /\ 31 \in Polynomial)
      BY ShiftedMember
    <2> QED
      BY <2>1, <2>2, <2>3
  <1>2. ASSUME NEW j \in Positions, j # 0 PROVE j \in x <=> j \in y
    <2>1. j - 1 \in Positions /\ (j - 1) + 1 = j
      BY <1>2 DEF Positions
    <2> DEFINE i == j - 1
    <2>2. i \in Shifted(x) <=> i \in Positions /\ ~(i + 1 \in x <=> 0 \in x /\ i \in Polynomial)
      BY ShiftedMember
    <2>3. i \in Shifted(y) <=> i \in Positions /\ ~(i + 1 \in y <=> 0 \in y /\ i \in Polynomial)
      BY ShiftedMember
    <2>4. i \in Positions /\ i + 1 = j
      BY <2>1
    <2> HIDE DEF i
    <2> QED
      BY <1>1, <2>2, <2>3, <2>4
  <1> QED
    BY <1>1, <1>2

\* A bit that is not there is lost without a trace.
LEMMA ShiftedTop ==
  ASSUME NEW x \in SUBSET Positions, NEW n \in Nat, n \notin x
  PROVE  Shifted(ShiftRight(x, n)) = ShiftRight(x, n + 1)
  <1> DEFINE s == ShiftRight(x, n)
  <1>1. s \in SUBSET Positions
    BY ShiftMember
  <1>2. 0 \notin s
    BY ShiftMember
  <1>3. ASSUME NEW j PROVE j \in Shifted(s) <=> j \in ShiftRight(x, n + 1)
    <2>1. j \in Shifted(s) <=> j \in Positions /\ j + 1 \in s
      <3> HIDE DEF s
      <3> QED
        BY <1>1, <1>2, ShiftedMember
    <2>2. ASSUME j \in Positions PROVE j + 1 \in s <=> j + (n + 1) \in x
      <3>1. j + 1 \in s <=> j + 1 \in Positions /\ (j + 1) + n \in x
        BY ShiftMember
      <3>2. (j + 1) + n = j + (n + 1) /\ (j + (n + 1) \in x => j + 1 \in Positions)
        BY <2>2 DEF Positions
      <3> QED
        BY <3>1, <3>2
    <2>3. j \in ShiftRight(x, n + 1) <=> j \in Positions /\ j + (n + 1) \in x
      BY ShiftMember
    <2> QED
      BY <2>1, <2>2, <2>3
  <1> QED
    BY <1>3

\* The rule for the eight shifts that make an entry of the table.
LEMMA EightRule ==
  ASSUME NEW c, 8 \in Nat, NEW S,
         c \in S[0],
         \A n \in 0 .. 8 - 1 : \A s \in S[n] :
           Shifted(s) \in S[n + 1]
  PROVE  Eight(c) \in S[8]
  <1> DEFINE k == 8
             first == c
             Body(n, s) == Shifted(s)
             Turn(f) == [n \in 0 .. k |-> IF n = 0 THEN first ELSE Body(n, f[n - 1])]
             after == CHOOSE f : f = Turn(f)
             next == [n \in Nat |-> [s \in S[n - 1] |-> Body(n, s)]]
  <1>1. Eight(c) = after[k]
    BY DEF Eight, Rounds
  <1>2. k \in Nat /\ first \in S[0] /\ \A n \in 0 .. k - 1 : \A s \in S[n] : Body(n + 1, s) \in S[n + 1]
    OBVIOUS
  <1> HIDE DEF Body, after, k, first
  <1>3. \A n \in 0 .. k - 1 : \A s \in S[n] : next[n + 1][s] = Body(n + 1, s)
    BY <1>2, RoundBefore
  <1> HIDE DEF next, Turn
  <1>4. \A n \in 0 .. k - 1 : \A s \in S[n] : next[n + 1][s] \in S[n + 1]
    BY <1>2, <1>3
  <1>5. PICK h : Goes(h, first, next, S, k)
    BY <1>2, <1>4, LoopExists
  <1>6. \A n \in 0 .. k - 1 : h[n + 1] = Body(n + 1, h[n])
    BY <1>3, <1>5 DEF Goes
  <1>7. \A n \in 0 .. k : h[n] = IF n = 0 THEN first ELSE Body(n, h[n - 1])
    BY <1>2, <1>5, <1>6, RoundBefore DEF Goes
  <1>8. h = Turn(h)
    BY <1>5, <1>7 DEF Goes, Turn
  <1>9. after = Turn(after)
    BY <1>8 DEF after
  <1>10. \A n \in 0 .. k : after[n] = IF n = 0 THEN first ELSE Body(n, after[n - 1])
    BY <1>9 DEF Turn
  <1>11. after[0] = first /\ \A n \in 0 .. k - 1 : after[n + 1] = Body(n + 1, after[n])
    BY <1>2, <1>10, RoundAfter
  <1>12. \A n \in 0 .. k : after[n] \in S[n]
    BY <1>2, <1>11, LoopInvariant
  <1>13. after[k] \in S[k] /\ k = 8
    BY <1>2, <1>12, RoundAfter DEF k
  <1> QED
    BY <1>1, <1>13

\* The rule for the bytes of a checksum.
LEMMA CRCRule ==
  ASSUME NEW c, NEW data, Len(data) \in Nat, NEW S,
         c \in S[0],
         \A n \in 0 .. Len(data) - 1 : \A s \in S[n] :
           CRCByte(s, data[n + 1]) \in S[n + 1]
  PROVE  CRC(c, data) \in S[Len(data)]
  <1> DEFINE k == Len(data)
             first == c
             Body(n, s) == CRCByte(s, data[n])
             Turn(f) == [n \in 0 .. k |-> IF n = 0 THEN first ELSE Body(n, f[n - 1])]
             after == CHOOSE f : f = Turn(f)
             next == [n \in Nat |-> [s \in S[n - 1] |-> Body(n, s)]]
  <1>1. CRC(c, data) = after[k]
    BY DEF CRC, Rounds
  <1>2. k \in Nat /\ first \in S[0] /\ \A n \in 0 .. k - 1 : \A s \in S[n] : Body(n + 1, s) \in S[n + 1]
    OBVIOUS
  <1> HIDE DEF Body, after, k, first
  <1>3. \A n \in 0 .. k - 1 : \A s \in S[n] : next[n + 1][s] = Body(n + 1, s)
    BY <1>2, RoundBefore
  <1> HIDE DEF next, Turn
  <1>4. \A n \in 0 .. k - 1 : \A s \in S[n] : next[n + 1][s] \in S[n + 1]
    BY <1>2, <1>3
  <1>5. PICK h : Goes(h, first, next, S, k)
    BY <1>2, <1>4, LoopExists
  <1>6. \A n \in 0 .. k - 1 : h[n + 1] = Body(n + 1, h[n])
    BY <1>3, <1>5 DEF Goes
  <1>7. \A n \in 0 .. k : h[n] = IF n = 0 THEN first ELSE Body(n, h[n - 1])
    BY <1>2, <1>5, <1>6, RoundBefore DEF Goes
  <1>8. h = Turn(h)
    BY <1>5, <1>7 DEF Goes, Turn
  <1>9. after = Turn(after)
    BY <1>8 DEF after
  <1>10. \A n \in 0 .. k : after[n] = IF n = 0 THEN first ELSE Body(n, after[n - 1])
    BY <1>9 DEF Turn
  <1>11. after[0] = first /\ \A n \in 0 .. k - 1 : after[n + 1] = Body(n + 1, after[n])
    BY <1>2, <1>10, RoundAfter
  <1>12. \A n \in 0 .. k : after[n] \in S[n]
    BY <1>2, <1>11, LoopInvariant
  <1>13. after[k] \in S[k] /\ k = Len(data)
    BY <1>2, <1>12, RoundAfter DEF k
  <1> QED
    BY <1>1, <1>13

\* The entries of the table, shift by shift.
Shifted2(x) == Shifted(Shifted(x))
Shifted4(x) == Shifted2(Shifted2(x))
Shifted8(x) == Shifted4(Shifted4(x))

\* Eight rounds are eight shifts.
LEMMA EightShifts ==
  ASSUME NEW x
  PROVE  Eight(x) = Shifted8(x)
  <1> DEFINE y == <<Shifted(x), Shifted(Shifted(x)), Shifted(Shifted(Shifted(x))),
                    Shifted(Shifted(Shifted(Shifted(x)))),
                    Shifted(Shifted(Shifted(Shifted(Shifted(x))))),
                    Shifted(Shifted(Shifted(Shifted(Shifted(Shifted(x)))))),
                    Shifted(Shifted(Shifted(Shifted(Shifted(Shifted(Shifted(x))))))),
                    Shifted(Shifted(Shifted(Shifted(Shifted(Shifted(Shifted(Shifted(x)))))))) >>
             S == [n \in 0 .. 8 |-> {IF n = 0 THEN x ELSE y[n]}]
  <1>1. y[1] = Shifted(x) /\ y[8] = Shifted8(x)
    BY DEF Shifted8, Shifted4, Shifted2
  <1>2. /\ y[2] = Shifted(y[1]) /\ y[3] = Shifted(y[2]) /\ y[4] = Shifted(y[3]) /\ y[5] = Shifted(y[4])
        /\ y[6] = Shifted(y[5]) /\ y[7] = Shifted(y[6]) /\ y[8] = Shifted(y[7])
    OBVIOUS
  <1> HIDE DEF y
  <1>3. ASSUME NEW n \in 0 .. 7 PROVE Shifted(IF n = 0 THEN x ELSE y[n]) = y[n + 1]
    <2>1. n = 0 \/ n = 1 \/ n = 2 \/ n = 3 \/ n = 4 \/ n = 5 \/ n = 6 \/ n = 7
      OBVIOUS
    <2> QED
      BY <1>1, <1>2, <2>1
  <1>4. x \in S[0] /\ S[8] = {y[8]}
    OBVIOUS
  <1>5. \A n \in 0 .. 8 - 1 : \A s \in S[n] : Shifted(s) \in S[n + 1]
    <2> SUFFICES ASSUME NEW n \in 0 .. 7, NEW s \in S[n] PROVE Shifted(s) \in S[n + 1]
      OBVIOUS
    <2>1. n \in 0 .. 8 /\ n + 1 \in 0 .. 8 /\ n + 1 # 0
      OBVIOUS
    <2>2. s = IF n = 0 THEN x ELSE y[n]
      BY <2>1
    <2>3. S[n + 1] = {y[n + 1]}
      BY <2>1
    <2> QED
      BY <1>3, <2>2, <2>3
  <1> HIDE DEF S
  <1>6. Eight(x) \in S[8]
    <2> DEFINE k == 8
    <2>1. k \in Nat
      OBVIOUS
    <2> QED
      BY <1>4, <1>5, EightRule
  <1> QED
    BY <1>1, <1>4, <1>6

\* Eight shifts yield a word.
LEMMA EightType ==
  ASSUME NEW x \in SUBSET Positions
  PROVE  Eight(x) \in SUBSET Positions
  <1>1. \A y \in SUBSET Positions : Shifted2(y) \in SUBSET Positions
    BY ShiftedType DEF Shifted2
  <1>2. \A y \in SUBSET Positions : Shifted4(y) \in SUBSET Positions
    BY <1>1 DEF Shifted4
  <1> QED
    BY <1>2, EightShifts DEF Shifted8

\* Eight shifts of a sum are the sum of eight shifts.
LEMMA EightSum ==
  ASSUME NEW x \in SUBSET Positions, NEW y \in SUBSET Positions
  PROVE  Eight(SymDiff(x, y)) = SymDiff(Eight(x), Eight(y))
  <1>1. \A u, v \in SUBSET Positions : Shifted2(SymDiff(u, v)) = SymDiff(Shifted2(u), Shifted2(v))
    BY ShiftedType, ShiftedSum DEF Shifted2
  <1>2. \A u \in SUBSET Positions : Shifted2(u) \in SUBSET Positions
    BY ShiftedType DEF Shifted2
  <1>3. \A u, v \in SUBSET Positions : Shifted4(SymDiff(u, v)) = SymDiff(Shifted4(u), Shifted4(v))
    BY <1>1, <1>2 DEF Shifted4
  <1>4. \A u \in SUBSET Positions : Shifted4(u) \in SUBSET Positions
    BY <1>2 DEF Shifted4
  <1>5. Shifted8(SymDiff(x, y)) = SymDiff(Shifted8(x), Shifted8(y))
    BY <1>3, <1>4 DEF Shifted8
  <1> QED
    BY <1>5, EightShifts

\* No two words have the same eight shifts.
LEMMA EightInjective ==
  ASSUME NEW x \in SUBSET Positions, NEW y \in SUBSET Positions, Eight(x) = Eight(y)
  PROVE  x = y
  <1>1. \A u, v \in SUBSET Positions : Shifted2(u) = Shifted2(v) => u = v
    BY ShiftedType, ShiftedInjective DEF Shifted2
  <1>2. \A u \in SUBSET Positions : Shifted2(u) \in SUBSET Positions
    BY ShiftedType DEF Shifted2
  <1>3. \A u, v \in SUBSET Positions : Shifted4(u) = Shifted4(v) => u = v
    BY <1>1, <1>2 DEF Shifted4
  <1>4. \A u \in SUBSET Positions : Shifted4(u) \in SUBSET Positions
    BY <1>2 DEF Shifted4
  <1> QED
    BY <1>3, <1>4, EightShifts DEF Shifted8

\* Without a low byte, eight shifts of the table only shift.
LEMMA EightTop ==
  ASSUME NEW x \in SUBSET Positions, x \cap (0 .. 7) = {}
  PROVE  Eight(x) = ShiftRight(x, 8)
  <1>1. 0 \notin x /\ 1 \notin x /\ 2 \notin x /\ 3 \notin x /\ 4 \notin x /\ 5 \notin x /\ 6 \notin x /\ 7 \notin x
    <2>1. 0 \in 0 .. 7 /\ 1 \in 0 .. 7 /\ 2 \in 0 .. 7 /\ 3 \in 0 .. 7 /\ 4 \in 0 .. 7 /\ 5 \in 0 .. 7
            /\ 6 \in 0 .. 7 /\ 7 \in 0 .. 7
      OBVIOUS
    <2> QED
      BY <2>1
  <1>2. \A n \in Nat : n \notin x => Shifted(ShiftRight(x, n)) = ShiftRight(x, n + 1)
    BY ShiftedTop
  <1>3. x = ShiftRight(x, 0)
    <2>1. \A j : j \in ShiftRight(x, 0) <=> j \in Positions /\ j + 0 \in x
      BY ShiftMember
    <2>2. \A j \in Positions : j + 0 = j
      BY DEF Positions
    <2> QED
      BY <2>1, <2>2
  <1>4. /\ Shifted(ShiftRight(x, 0)) = ShiftRight(x, 1)
        /\ Shifted(ShiftRight(x, 1)) = ShiftRight(x, 2)
        /\ Shifted(ShiftRight(x, 2)) = ShiftRight(x, 3)
        /\ Shifted(ShiftRight(x, 3)) = ShiftRight(x, 4)
        /\ Shifted(ShiftRight(x, 4)) = ShiftRight(x, 5)
        /\ Shifted(ShiftRight(x, 5)) = ShiftRight(x, 6)
        /\ Shifted(ShiftRight(x, 6)) = ShiftRight(x, 7)
        /\ Shifted(ShiftRight(x, 7)) = ShiftRight(x, 8)
    <2>1. 0 + 1 = 1 /\ 1 + 1 = 2 /\ 2 + 1 = 3 /\ 3 + 1 = 4 /\ 4 + 1 = 5 /\ 5 + 1 = 6 /\ 6 + 1 = 7 /\ 7 + 1 = 8
      OBVIOUS
    <2>2. 0 \in Nat /\ 1 \in Nat /\ 2 \in Nat /\ 3 \in Nat /\ 4 \in Nat /\ 5 \in Nat /\ 6 \in Nat /\ 7 \in Nat
      OBVIOUS
    <2> QED
      BY <1>1, <1>2, <2>1, <2>2
  <1> QED
    BY <1>3, <1>4, EightShifts DEF Shifted8, Shifted4, Shifted2

\* A byte of a checksum: the byte is added to the sum, and eight shifts follow.
LEMMA CRCByteIsEight ==
  ASSUME NEW c \in SUBSET Positions, NEW b \in SUBSET (0 .. 7)
  PROVE  /\ CRCByte(c, b) = Eight(SymDiff(c, b))
         /\ CRCByte(c, b) \in SUBSET Positions
  <1> DEFINE Low == 0 .. 7
             high == c \ Low
             low == SymDiff(c \cap Low, b)
  <1>1. Low \subseteq Positions
    BY DEF Positions
  <1>2. high \in SUBSET Positions /\ low \in SUBSET Low /\ low \in SUBSET Positions /\ high \cap (0 .. 7) = {}
    <2> HIDE DEF Low
    <2>1. high \in SUBSET Positions /\ low \in SUBSET Low /\ low \in SUBSET Positions /\ high \cap Low = {}
      BY <1>1 DEF SymDiff, Low
    <2> QED
      BY <2>1 DEF Low
  <1>3. ShiftRight(c, 8) = ShiftRight(high, 8)
    <2>1. ASSUME NEW j PROVE j \in ShiftRight(c, 8) <=> j \in ShiftRight(high, 8)
      <3>1. j \in Positions => (j + 8 \in c <=> j + 8 \in high)
        BY DEF Positions
      <3>2. 8 \in Nat
        OBVIOUS
      <3> HIDE DEF high
      <3> QED
        BY <1>2, <3>1, <3>2, ShiftMember
    <2> QED
      BY <2>1
  <1>4. SymDiff(c, b) = SymDiff(high, low)
    BY DEF SymDiff
  <1>5. Table[low] = Eight(low)
    <2> HIDE DEF low
    <2> QED
      BY <1>2 DEF Table
  <1>6. CRCByte(c, b) = SymDiff(ShiftRight(c, 8), Table[low])
    BY DEF CRCByte
  <1> HIDE DEF high, low, Low
  <1>7. CRCByte(c, b) = SymDiff(Eight(high), Eight(low))
    BY <1>2, <1>3, <1>5, <1>6, EightTop
  <1>8. CRCByte(c, b) = Eight(SymDiff(c, b))
    BY <1>2, <1>4, <1>7, EightSum
  <1>9. SymDiff(c, b) \in SUBSET Positions
    BY <1>2, <1>4, SumType
  <1> QED
    BY <1>8, <1>9, EightType

\* It is decided by both, and decides either from the other.
LEMMA CRCByteInjective ==
  ASSUME NEW c \in SUBSET Positions, NEW d \in SUBSET Positions,
         NEW a \in SUBSET (0 .. 7), NEW b \in SUBSET (0 .. 7),
         CRCByte(c, a) = CRCByte(d, b), c = d \/ a = b
  PROVE  c = d /\ a = b
  <1>1. Eight(SymDiff(c, a)) = Eight(SymDiff(d, b))
    BY CRCByteIsEight
  <1>2. SymDiff(c, a) \in SUBSET Positions /\ SymDiff(d, b) \in SUBSET Positions
    <2>1. 0 .. 7 \subseteq Positions
      BY DEF Positions
    <2> QED
      BY <2>1, SumType
  <1>3. SymDiff(c, a) = SymDiff(d, b)
    BY <1>1, <1>2, EightInjective
  <1> QED
    BY <1>3 DEF SymDiff

\* Words, and the bytes of a message.
Words == SUBSET Positions
Bytes == SUBSET (0 .. 7)

\* The sums after every byte of a message.
AreSums(h, c, data) ==
  /\ \A n \in 0 .. Len(data) : h[n] \in Words
  /\ h[0] = c
  /\ \A n \in 0 .. Len(data) - 1 : h[n + 1] = CRCByte(h[n], data[n + 1])

\* Every message has its sums.
LEMMA SumsExist ==
  ASSUME NEW c \in Words, NEW data \in Seq(Bytes)
  PROVE  \E h : AreSums(h, c, data)
  <1> DEFINE k == Len(data)
             S == [n \in Nat |-> Words]
             next == [n \in Nat |-> [s \in Words |-> CRCByte(s, data[n])]]
  <1>1. k \in Nat /\ \A n \in 0 .. k - 1 : data[n + 1] \in Bytes
    OBVIOUS
  <1>2. \A n \in 0 .. k - 1 : \A s \in Words : CRCByte(s, data[n + 1]) \in Words
    BY <1>1, CRCByteIsEight DEF Words, Bytes
  <1>3. \A n \in 0 .. k - 1 : \A s \in Words : next[n + 1][s] = CRCByte(s, data[n + 1])
    BY <1>1
  <1>4. \A n \in 0 .. k : n \in Nat /\ S[n] = Words
    BY <1>1
  <1>5. \A n \in 0 .. k - 1 : n \in 0 .. k /\ n + 1 \in 0 .. k
    BY <1>1
  <1> HIDE DEF k, S, next
  <1>6. c \in S[0] /\ \A n \in 0 .. k - 1 : \A s \in S[n] : next[n + 1][s] \in S[n + 1]
    BY <1>1, <1>2, <1>3, <1>4, <1>5
  <1>7. PICK h : Goes(h, c, next, S, k)
    BY <1>1, <1>6, LoopExists
  <1>8. h[0] = c /\ \A n \in 0 .. k - 1 : h[n] \in Words /\ h[n + 1] = CRCByte(h[n], data[n + 1])
    BY <1>3, <1>4, <1>5, <1>7 DEF Goes
  <1>9. \A n \in 0 .. k : h[n] \in Words
    <2> SUFFICES ASSUME NEW n \in 0 .. k PROVE h[n] \in Words
      OBVIOUS
    <2>1. CASE n = 0
      BY <1>8, <2>1
    <2>2. CASE n # 0
      <3>1. n - 1 \in 0 .. k - 1 /\ (n - 1) + 1 = n
        BY <1>1, <2>2
      <3> QED
        BY <1>2, <1>8, <3>1
    <2> QED
      BY <2>1, <2>2
  <1> QED
    BY <1>8, <1>9 DEF AreSums, k

\* The checksum of a part of the message that starts at one of them ends at
\* another.
LEMMA SumOfPart ==
  ASSUME NEW h, NEW c, NEW data \in Seq(Bytes), AreSums(h, c, data),
         NEW p \in Nat, NEW part \in Seq(Bytes), p + Len(part) <= Len(data),
         \A i \in 1 .. Len(part) : part[i] = data[p + i]
  PROVE  CRC(h[p], part) = h[p + Len(part)]
  <1> DEFINE k == Len(part)
             S == [n \in 0 .. k |-> {h[p + n]}]
  <1>1. k \in Nat /\ 0 \in 0 .. k /\ k \in 0 .. k /\ Len(data) \in Nat /\ p + 0 = p
    OBVIOUS
  <1>2. ASSUME NEW n \in 0 .. k - 1
        PROVE  /\ n \in 0 .. k /\ n + 1 \in 0 .. k
               /\ p + n \in 0 .. Len(data) - 1 /\ (p + n) + 1 = p + (n + 1)
               /\ part[n + 1] = data[p + (n + 1)]
    <2>1. n + 1 \in 1 .. k
      OBVIOUS
    <2>2. part[n + 1] = data[p + (n + 1)]
      BY <2>1
    <2> QED
      BY <1>1, <2>2
  <1>3. \A n \in 0 .. k - 1 : \A s \in S[n] : CRCByte(s, part[n + 1]) \in S[n + 1]
    <2> SUFFICES ASSUME NEW n \in 0 .. k - 1, NEW s \in S[n]
                 PROVE  CRCByte(s, part[n + 1]) \in S[n + 1]
      OBVIOUS
    <2>1. s = h[p + n] /\ S[n + 1] = {h[p + (n + 1)]}
      BY <1>2
    <2>2. h[(p + n) + 1] = CRCByte(h[p + n], data[(p + n) + 1])
      BY <1>2 DEF AreSums
    <2> QED
      BY <1>2, <2>1, <2>2
  <1>4. h[p] \in S[0] /\ S[k] = {h[p + k]}
    BY <1>1
  <1> HIDE DEF S
  <1>5. CRC(h[p], part) \in S[Len(part)]
    BY <1>1, <1>3, <1>4, CRCRule DEF k
  <1> QED
    BY <1>4, <1>5

\* The complement of a complement.
LEMMA InvertTwice ==
  ASSUME NEW x \in Words
  PROVE  Invert(x) \in Words /\ Invert(Invert(x)) = x
  BY DEF Words, Invert

\* Two messages that differ in one byte have different sums from there on.
LEMMA SumsDiffer ==
  ASSUME NEW c, NEW a \in Seq(Bytes), NEW b \in Seq(Bytes), Len(a) = Len(b),
         NEW g, NEW h, AreSums(g, c, a), AreSums(h, c, b),
         NEW cut \in 1 .. Len(a), a[cut] # b[cut],
         \A i \in 1 .. Len(a) : i # cut => a[i] = b[i]
  PROVE  g[Len(a)] # h[Len(a)]
  <1> DEFINE k == Len(a)
             P(n) == IF n < cut THEN g[n] = h[n] ELSE g[n] # h[n]
             S == [n \in 0 .. k |-> {x \in {0} : P(n)}]
             f == [n \in 0 .. k |-> 0]
  <1>1. k \in Nat /\ 0 \in 0 .. k /\ k \in 0 .. k /\ ~(k < cut) /\ 0 < cut
    OBVIOUS
  <1>2. ASSUME NEW n \in 0 .. k - 1, P(n) PROVE P(n + 1)
    <2>1. n + 1 \in 1 .. k /\ n + 1 \in 0 .. k /\ n \in 0 .. k
      BY <1>1
    <2>2. g[n] \in Words /\ h[n] \in Words /\ g[n + 1] = CRCByte(g[n], a[n + 1]) /\ h[n + 1] = CRCByte(h[n], b[n + 1])
      BY <2>1 DEF AreSums
    <2>3. a[n + 1] \in Bytes /\ b[n + 1] \in Bytes
      BY <2>1
    <2>4. g[n + 1] = h[n + 1] /\ (g[n] = h[n] \/ a[n + 1] = b[n + 1]) => g[n] = h[n] /\ a[n + 1] = b[n + 1]
      <3>1. \A u, v \in Words : \A x, y \in Bytes :
              CRCByte(u, x) = CRCByte(v, y) /\ (u = v \/ x = y) => u = v /\ x = y
        BY CRCByteInjective DEF Words, Bytes
      <3>2. CRCByte(g[n], a[n + 1]) = CRCByte(h[n], b[n + 1]) /\ (g[n] = h[n] \/ a[n + 1] = b[n + 1])
              => g[n] = h[n] /\ a[n + 1] = b[n + 1]
        BY <2>2, <2>3, <3>1
      <3> QED
        BY <2>2, <3>2
    <2>5. CASE n + 1 < cut
      <3>1. n < cut /\ n + 1 # cut
        BY <2>5
      <3>2. g[n] = h[n] /\ a[n + 1] = b[n + 1]
        BY <1>2, <2>1, <3>1
      <3> QED
        BY <2>2, <2>5, <3>2
    <2>6. CASE n + 1 = cut
      <3>1. n < cut /\ ~(n + 1 < cut)
        BY <2>6
      <3>2. g[n] = h[n] /\ a[n + 1] # b[n + 1]
        BY <1>2, <2>6, <3>1
      <3> QED
        BY <2>4, <3>1, <3>2
    <2>7. CASE n + 1 > cut
      <3>1. ~(n < cut) /\ ~(n + 1 < cut) /\ n + 1 # cut
        BY <2>7
      <3>2. g[n] # h[n] /\ a[n + 1] = b[n + 1]
        BY <1>2, <2>1, <3>1
      <3> QED
        BY <2>4, <3>1, <3>2
    <2> QED
      BY <2>5, <2>6, <2>7
  <1>3. P(0)
    BY <1>1 DEF AreSums
  <1> HIDE DEF P
  <1>4. f[0] \in S[0]
    BY <1>1, <1>3
  <1>5. \A n \in 0 .. k - 1 : f[n] \in S[n] => f[n + 1] \in S[n + 1]
    <2> SUFFICES ASSUME NEW n \in 0 .. k - 1, f[n] \in S[n] PROVE f[n + 1] \in S[n + 1]
      OBVIOUS
    <2>1. n \in 0 .. k /\ n + 1 \in 0 .. k
      BY <1>1
    <2> QED
      BY <1>2, <2>1
  <1>6. f[k] \in S[k]
    <2> HIDE DEF f, S
    <2> QED
      BY <1>1, <1>4, <1>5, LoopInvariant
  <1>7. P(k)
    BY <1>1, <1>6
  <1> QED
    BY <1>1, <1>7 DEF P

\* A checksum can be continued, and a byte that changes is noticed, for every
\* message (crc32.c).
THEOREM ChecksumsContinue ==
  ASSUME NEW message \in Seq(Bytes), NEW cut \in 1 .. Len(message), NEW byte \in Bytes
  PROVE  ChecksumOK(message, cut, byte)
  <1> DEFINE m == Len(message)
             changed == [message EXCEPT ![cut] = byte]
             a == SubSeq(message, 1, cut)
             b == SubSeq(message, cut + 1, m)
             start == Invert({})
  <1>1. start \in Words
    BY DEF Invert, Words
  <1>2. PICK h : AreSums(h, start, message)
    BY <1>1, SumsExist
  <1>3. m \in Nat /\ h[0] = start /\ h[m] \in Words /\ h[cut] \in Words
    BY <1>2 DEF AreSums
  <1>4. CRC(start, message) = h[m]
    <2>1. 0 + Len(message) <= Len(message) /\ 0 + Len(message) = m /\ \A i \in 1 .. Len(message) : message[i] = message[0 + i]
      OBVIOUS
    <2>2. 0 \in Nat
      OBVIOUS
    <2>3. CRC(h[0], message) = h[0 + Len(message)]
      BY <1>2, <2>1, <2>2, SumOfPart
    <2> QED
      BY <1>3, <2>1, <2>3
  <1>5. HashCRC32({}, message) = Invert(h[m])
    BY <1>4 DEF HashCRC32
  <1>6. a \in Seq(Bytes) /\ Len(a) = cut /\ \A i \in 1 .. Len(a) : a[i] = message[0 + i]
    OBVIOUS
  <1>7. b \in Seq(Bytes) /\ Len(b) = m - cut /\ \A i \in 1 .. Len(b) : b[i] = message[cut + i]
    OBVIOUS
  <1>8. cut \in Nat /\ cut <= m /\ 0 + cut = cut /\ cut + (m - cut) = m
    BY <1>3
  <1> HIDE DEF a, b, start
  <1>9. CRC(start, a) = h[cut]
    <2>1. 0 \in Nat /\ 0 + Len(a) <= Len(message)
      BY <1>6, <1>8
    <2>2. CRC(h[0], a) = h[0 + Len(a)]
      BY <1>2, <1>6, <2>1, SumOfPart
    <2> QED
      BY <1>3, <1>6, <1>8, <2>2
  <1>10. CRC(h[cut], b) = h[m]
    <2>1. cut + Len(b) <= Len(message)
      BY <1>7, <1>8
    <2>2. CRC(h[cut], b) = h[cut + Len(b)]
      BY <1>2, <1>7, <1>8, <2>1, SumOfPart
    <2> QED
      BY <1>7, <1>8, <2>2
  <1>11. HashCRC32(HashCRC32({}, a), b) = Invert(h[m])
    BY <1>3, <1>9, <1>10, InvertTwice DEF HashCRC32, start
  <1>12. ASSUME changed # message PROVE HashCRC32({}, changed) # Invert(h[m])
    <2>1. changed \in Seq(Bytes) /\ Len(changed) = m
      OBVIOUS
    <2>2. message[cut] # byte /\ changed[cut] = byte /\ \A i \in 1 .. m : i # cut => changed[i] = message[i]
      BY <1>12
    <2> HIDE DEF changed
    <2>3. PICK g : AreSums(g, start, changed)
      BY <1>1, <2>1, SumsExist
    <2>4. g[0] = start /\ g[m] \in Words
      BY <1>3, <2>1, <2>3 DEF AreSums
    <2>5. CRC(start, changed) = g[m]
      <3>1. 0 \in Nat /\ 0 + Len(changed) <= Len(changed) /\ 0 + Len(changed) = m
              /\ \A i \in 1 .. Len(changed) : changed[i] = changed[0 + i]
        BY <2>1
      <3>2. CRC(g[0], changed) = g[0 + Len(changed)]
        BY <2>1, <2>3, <3>1, SumOfPart
      <3> QED
        BY <2>4, <3>1, <3>2
    <2>6. g[m] # h[m]
      BY <1>2, <2>1, <2>2, <2>3, SumsDiffer
    <2>7. Invert(g[m]) # Invert(h[m])
      BY <1>3, <2>4, <2>6, InvertTwice
    <2> QED
      BY <2>5, <2>7 DEF HashCRC32, start
  <1> QED
    BY <1>5, <1>11, <1>12 DEF ChecksumOK, a, b
-----------------------------------------------------------------------------
(***************************************************************************)
(* Digests.  Place says where a context stands in a text: which blocks of  *)
(* it were compressed, and what the buffer holds of the next.  An update   *)
(* moves on by what it is given (Md5Absorbs, and ShaAbsorbs round by       *)
(* round), and the last blocks are those of the text that the standards    *)
(* make of the message (Md5Digests, ShaDigests).                           *)
(***************************************************************************)
\* The quotient and the remainder are what they should be.
LEMMA Quotient ==
  ASSUME NEW z \in Nat \ {0}, NEW q \in Int, NEW r \in 0 .. z - 1
  PROVE  (q * z + r) \div z = q /\ (q * z + r) % z = r
  <1> DEFINE x == q * z + r
             p == x \div z
             s == x % z
  <1>1. x \in Int
    OBVIOUS
  <1>2. x = z * p + s /\ p \in Int /\ s \in 0 .. z - 1
    <2> HIDE DEF x
    <2> QED
      BY <1>1, Divides
  <1>3. z * (p - q) = r - s
    <2>1. z * (p - q) = z * p - z * q /\ q * z = z * q
      BY <1>2
    <2>2. x = q * z + r
      OBVIOUS
    <2> DEFINE u == z * p
               v == z * q
               w == z * (p - q)
    <2>3. u \in Int /\ v \in Int /\ w \in Int
      BY <1>2
    <2>4. w = u - v /\ x = v + r /\ x = u + s
      BY <1>2, <2>1, <2>2
    <2> HIDE DEF u, v, w, x, p, s
    <2>5. w = r - s
      BY <1>1, <1>2, <2>3, <2>4
    <2> QED
      BY <2>5 DEF w
  <1> HIDE DEF p, s, x
  <1>4. ~ (p - q >= 1)
    <2> SUFFICES ASSUME p - q >= 1 PROVE FALSE
      OBVIOUS
    <2>1. z * (1 - (p - q)) <= 0
      BY <1>2, NotPositive
    <2>2. z * (1 - (p - q)) = z - z * (p - q)
      BY <1>2
    <2> QED
      BY <1>2, <1>3, <2>1, <2>2
  <1>5. ~ (p - q <= -1)
    <2> SUFFICES ASSUME p - q <= -1 PROVE FALSE
      OBVIOUS
    <2>1. z * ((p - q) + 1) <= 0
      BY <1>2, NotPositive
    <2>2. z * ((p - q) + 1) = z * (p - q) + z
      BY <1>2
    <2> QED
      BY <1>2, <1>3, <2>1, <2>2
  <1>6. p = q
    BY <1>2, <1>4, <1>5
  <1>7. z * (p - q) = 0
    BY <1>6
  <1>8. s = r
    BY <1>2, <1>3, <1>7
  <1> QED
    BY <1>6, <1>8 DEF p, s, x

\* A number as so many times another, and a remainder.
Splits(x, q, z, r) == x = q * z + r

\* Quotient and remainder of a number that is split so.
LEMMA QuotientOf ==
  ASSUME NEW x, NEW z \in Nat \ {0}, NEW q \in Int, NEW r \in 0 .. z - 1, Splits(x, q, z, r)
  PROVE  x \div z = q /\ x % z = r
  BY Quotient DEF Splits

\* A remainder does not change when multiples are added.
LEMMA RemainderOfSum ==
  ASSUME NEW z \in Nat \ {0}, NEW t \in Int, NEW y \in Int
  PROVE  (t * z + y) % z = y % z
  <1> DEFINE q == y \div z
             r == y % z
  <1>1. y = z * q + r /\ q \in Int /\ r \in 0 .. z - 1
    BY Divides
  <1> HIDE DEF q, r
  <1>2. t * z + y = (t + q) * z + r
    BY <1>1
  <1>3. ((t + q) * z + r) % z = r
    BY <1>1, Quotient
  <1> QED
    BY <1>2, <1>3 DEF r

\* The remainder of a number that is split so.
LEMMA RemainderOf ==
  ASSUME NEW x, NEW z \in Nat \ {0}, NEW t \in Int, NEW y \in Int, Splits(x, t, z, y)
  PROVE  x % z = y % z
  BY RemainderOfSum DEF Splits

\* Products that are needed again and again.
LEMMA Products ==
  ASSUME NEW z \in Nat, NEW q \in Nat, NEW w \in Nat
  PROVE  /\ q * z \in Nat /\ (q + w) * z = q * z + w * z /\ (q + 1) * z = q * z + z
         /\ q <= w => q * z <= w * z
  <1>1. q * z \in Nat /\ w * z \in Nat
    OBVIOUS
  <1>2. (q + w) * z = q * z + w * z /\ (q + 1) * z = q * z + z
    OBVIOUS
  <1>3. ASSUME q <= w PROVE q * z <= w * z
    <2>1. (w - q) * z \in Nat
      BY <1>3
    <2>2. (w - q) * z = w * z - q * z
      OBVIOUS
    <2> QED
      BY <1>1, <2>1, <2>2
  <1> QED
    BY <1>1, <1>2, <1>3

\* What a buffer may hold: bytes, and the parts of a length.
LengthPart(bits, e) == (bits \div 256 ^ e) % 256

Cells == Octets \cup UNION {{LengthPart(b, e) : b \in Int} : e \in Int}

\* Some of them.
LEMMA SomeCells == 0 \in Cells /\ 128 \in Cells /\ Stale \in Cells /\ Octets \subseteq Cells
  BY DEF Cells, Octets, Stale

\* Sequences with the same elements are equal.
LEMMA SameSequence ==
  ASSUME NEW T, NEW s \in Seq(T), NEW t \in Seq(T), NEW n \in Nat, Len(s) = n, Len(t) = n,
         \A i \in 1 .. n : s[i] = t[i]
  PROVE  s = t
  <1>1. s \in [1 .. n -> T] /\ t \in [1 .. n -> T]
    BY SequenceAsFunction
  <1> QED
    BY <1>1

\* What is in two sequences, one behind the other.
LEMMA Concatenated ==
  ASSUME NEW T, NEW s \in Seq(T), NEW t \in Seq(T)
  PROVE  /\ s \o t \in Seq(T) /\ Len(s \o t) = Len(s) + Len(t)
         /\ \A i \in 1 .. Len(s) : (s \o t)[i] = s[i]
         /\ \A i \in 1 .. Len(t) : (s \o t)[Len(s) + i] = t[i]
  OBVIOUS

\* Pieces of a text.
LEMMA PieceOf ==
  ASSUME NEW T, NEW s \in Seq(T), NEW a \in Nat, NEW z \in Nat, a + z <= Len(s)
  PROVE  /\ SubSeq(s, a + 1, a + z) \in Seq(T) /\ Len(SubSeq(s, a + 1, a + z)) = z
         /\ \A i \in 1 .. z : SubSeq(s, a + 1, a + z)[i] = s[a + i]
  OBVIOUS

Slice(s, a, z) == SubSeq(s, a + 1, a + z)

\* Two texts agree in z places, and in all places of the first one.
Agree(s, a, t, b, z) == \A i \in 1 .. z : s[a + i] = t[b + i]

Continues(e, M, p) == \A i \in 1 .. Len(e) : e[i] = M[p + i]

\* Pieces that agree are the same.
LEMMA SamePiece ==
  ASSUME NEW T, NEW s \in Seq(T), NEW t \in Seq(T), NEW a \in Nat, NEW b \in Nat, NEW z \in Nat,
         a + z <= Len(s), b + z <= Len(t), Agree(s, a, t, b, z)
  PROVE  Slice(s, a, z) = Slice(t, b, z)
  <1> DEFINE u == Slice(s, a, z)
             v == Slice(t, b, z)
  <1>1. u \in Seq(T) /\ Len(u) = z /\ \A i \in 1 .. z : u[i] = s[a + i]
    BY PieceOf DEF Slice
  <1>2. v \in Seq(T) /\ Len(v) = z /\ \A i \in 1 .. z : v[i] = t[b + i]
    BY PieceOf DEF Slice
  <1> HIDE DEF u, v
  <1>3. \A i \in 1 .. z : u[i] = v[i]
    BY <1>1, <1>2 DEF Agree
  <1>4. u = v
    BY <1>1, <1>2, <1>3, SameSequence
  <1> QED
    BY <1>4 DEF u, v

\* The first q blocks of a text.
First(M, z, q) == [k \in 1 .. q |-> SubSeq(M, (k - 1) * z + 1, k * z)]

\* Where a block lies.
LEMMA BlockPlace ==
  ASSUME NEW z \in Nat, NEW q \in Nat, NEW k \in 1 .. q
  PROVE  /\ k - 1 \in Nat /\ (k - 1) * z \in Nat /\ k * z = (k - 1) * z + z /\ k * z <= q * z
         /\ q * z \in Nat
  <1>1. k - 1 \in Nat /\ k \in Nat /\ k <= q /\ (k - 1) + 1 = k
    OBVIOUS
  <1>2. (k - 1) * z \in Nat /\ ((k - 1) + 1) * z = (k - 1) * z + z
    BY <1>1, Products
  <1>3. k * z <= q * z /\ q * z \in Nat
    BY <1>1, Products
  <1> QED
    BY <1>1, <1>2, <1>3

\* The first blocks of a text are a sequence of blocks.
LEMMA FirstText ==
  ASSUME NEW z \in Nat, NEW M \in Seq(Cells), NEW q \in Nat, q * z <= Len(M)
  PROVE  First(M, z, q) \in Seq(Seq(Cells)) /\ Len(First(M, z, q)) = q
  <1>1. ASSUME NEW k \in 1 .. q PROVE SubSeq(M, (k - 1) * z + 1, k * z) \in Seq(Cells)
    <2> DEFINE a == (k - 1) * z
    <2>1. a \in Nat /\ k * z = a + z /\ k * z <= q * z /\ q * z \in Nat
      BY BlockPlace
    <2>2. Len(M) \in Nat
      OBVIOUS
    <2> HIDE DEF a
    <2>3. a + z <= Len(M)
      BY <2>1, <2>2
    <2>4. SubSeq(M, a + 1, a + z) \in Seq(Cells)
      BY <2>1, <2>3, PieceOf
    <2> QED
      BY <2>1, <2>4 DEF a
  <1>2. First(M, z, q) \in [1 .. q -> Seq(Cells)]
    BY <1>1 DEF First
  <1> QED
    BY <1>2, FunctionAsSequence

\* The w blocks behind the first q.
Behind(M, z, q, w) == [k \in 1 .. w |-> SubSeq(M, (q + k - 1) * z + 1, (q + k) * z)]

\* The blocks of a text that agrees with M from block q on.
LEMMA BlocksAre ==
  ASSUME NEW z \in Nat \ {0}, NEW M \in Seq(Cells), NEW q \in Nat, NEW w \in Nat,
         NEW e \in Seq(Cells), Len(e) = w * z, q * z + w * z <= Len(M),
         Continues(e, M, q * z)
  PROVE  Blocks(e, z) = Behind(M, z, q, w)
  <1>1. Len(e) \div z = w
    <2>1. w * z + 0 = Len(e) /\ 0 \in 0 .. z - 1
      BY Products
    <2> QED
      BY <2>1, Quotient
  <1>2. ASSUME NEW k \in 1 .. w
        PROVE  SubSeq(e, (k - 1) * z + 1, k * z) = SubSeq(M, (q + k - 1) * z + 1, (q + k) * z)
    <2> DEFINE a == (k - 1) * z
               b == q * z
               c == w * z
    <2>1. a \in Nat /\ k * z = a + z /\ k * z <= c /\ c \in Nat
      BY BlockPlace
    <2>2. b \in Nat /\ Len(M) \in Nat /\ b + c <= Len(M) /\ Len(e) = c
      BY Products
    <2>3. (q + k - 1) * z = b + a /\ (q + k) * z = (b + a) + z
      <3>1. q + k - 1 = q + (k - 1) /\ k - 1 \in Nat /\ k \in Nat
        OBVIOUS
      <3>2. (q + (k - 1)) * z = q * z + (k - 1) * z /\ (q + k) * z = q * z + k * z
        BY <3>1, Products
      <3> QED
        BY <2>1, <2>2, <3>1, <3>2
    <2>4. \A i \in 1 .. Len(e) : e[i] = M[b + i]
      BY DEF Continues
    <2> HIDE DEF a, b, c
    <2>5. z \in Nat /\ a + z <= Len(e) /\ (b + a) + z <= Len(M) /\ b + a \in Nat
      BY <2>1, <2>2
    <2>6. \A i \in 1 .. z : e[a + i] = M[(b + a) + i]
      <3> SUFFICES ASSUME NEW i \in 1 .. z PROVE e[a + i] = M[(b + a) + i]
        OBVIOUS
      <3>1. a + i \in 1 .. Len(e) /\ b + (a + i) = (b + a) + i
        BY <2>1, <2>2, <2>5
      <3> QED
        BY <2>4, <3>1
    <2> DEFINE d == b + a
    <2>7. d \in Nat /\ d + z <= Len(M) /\ Agree(e, a, M, d, z)
      BY <2>5, <2>6 DEF Agree
    <2> HIDE DEF d
    <2>8. Slice(e, a, z) = Slice(M, d, z)
      BY <2>1, <2>5, <2>7, SamePiece
    <2>9. SubSeq(e, a + 1, a + z) = SubSeq(M, (b + a) + 1, (b + a) + z)
      BY <2>8 DEF Slice, d
    <2> QED
      BY <2>1, <2>3, <2>9 DEF a
  <1> QED
    BY <1>1, <1>2 DEF Blocks, Behind

\* A text of w blocks.
Exactly(e, w, z) == Len(e) = w * z

\* Compressing them adds them to the blocks before.
LEMMA Compressed ==
  ASSUME NEW z \in Nat \ {0}, NEW M \in Seq(Cells), NEW q \in Nat, NEW w \in Nat,
         NEW e \in Seq(Cells), Exactly(e, w, z), q * z + Len(e) <= Len(M),
         Continues(e, M, q * z)
  PROVE  Compress(First(M, z, q), e, z) = First(M, z, q + w)
  <1> DEFINE more == Behind(M, z, q, w)
             all == First(M, z, q + w)
             old == First(M, z, q)
  <1>0. Len(e) = w * z /\ q * z + w * z <= Len(M)
    BY DEF Exactly
  <1>1. Blocks(e, z) = more
    <2> HIDE DEF all, old
    <2> QED
      BY <1>0, BlocksAre
  <1>2. (q + w) * z <= Len(M) /\ q * z <= Len(M) /\ q + w \in Nat
    <2>1. q * z \in Nat /\ w * z \in Nat /\ (q + w) * z = q * z + w * z /\ Len(M) \in Nat
      BY Products
    <2> DEFINE u == q * z
               v == w * z
    <2>2. u + v <= Len(M) /\ u \in Nat /\ v \in Nat
      BY <1>0, <2>1
    <2> HIDE DEF u, v
    <2>3. u <= Len(M) /\ u + v <= Len(M)
      BY <2>1, <2>2
    <2>4. u = q * z /\ u + v = (q + w) * z
      BY <2>1 DEF u, v
    <2> QED
      BY <2>1, <2>3, <2>4
  <1>3. all \in Seq(Seq(Cells)) /\ Len(all) = q + w
    BY <1>2, FirstText
  <1>4. old \in Seq(Seq(Cells)) /\ Len(old) = q
    BY <1>2, FirstText
  <1>5. \A k \in 1 .. q : old[k] = all[k]
    BY DEF First
  <1>6. \A k \in 1 .. w : more[k] = all[q + k]
    <2> SUFFICES ASSUME NEW k \in 1 .. w PROVE more[k] = all[q + k]
      OBVIOUS
    <2>1. q + k \in 1 .. q + w
      OBVIOUS
    <2> QED
      BY <2>1 DEF First, Behind
  <1>7. more \in Seq(Seq(Cells)) /\ Len(more) = w
    <2>1. \A k \in 1 .. w : q + k \in 1 .. q + w
      OBVIOUS
    <2>2. \A k \in 1 .. q + w : all[k] \in Seq(Cells)
      BY <1>3
    <2> HIDE DEF all
    <2>3. \A k \in 1 .. w : more[k] \in Seq(Cells)
      BY <1>6, <2>1, <2>2
    <2>4. more = [k \in 1 .. w |-> more[k]]
      BY DEF Behind
    <2> HIDE DEF more
    <2>5. more \in [1 .. w -> Seq(Cells)]
      BY <2>3, <2>4
    <2> QED
      BY <2>5, FunctionAsSequence
  <1> HIDE DEF more, all, old
  <1>8. old \o more = all
    <2> DEFINE c == old \o more
    <2>1. /\ c \in Seq(Seq(Cells)) /\ Len(c) = q + w
          /\ \A k \in 1 .. q : c[k] = old[k]
          /\ \A k \in 1 .. w : c[q + k] = more[k]
      <3> DEFINE T == Seq(Cells)
      <3>1. old \in Seq(T) /\ more \in Seq(T)
        BY <1>4, <1>7
      <3> HIDE DEF T
      <3>2. /\ old \o more \in Seq(T) /\ Len(old \o more) = Len(old) + Len(more)
            /\ \A i \in 1 .. Len(old) : (old \o more)[i] = old[i]
            /\ \A i \in 1 .. Len(more) : (old \o more)[Len(old) + i] = more[i]
        BY <3>1, Concatenated
      <3> QED
        BY <1>4, <1>7, <3>2 DEF T
    <2> HIDE DEF c
    <2>2. /\ \A k \in 1 .. q : c[k] = all[k]
          /\ \A k \in 1 .. w : c[q + k] = all[q + k]
      BY <1>5, <1>6, <2>1
    <2>3. ASSUME NEW k \in 1 .. q + w PROVE c[k] = all[k]
      <3>1. CASE k <= q
        <4>1. k \in 1 .. q
          BY <3>1
        <4> QED
          BY <2>2, <4>1
      <3>2. CASE k > q
        <4>1. k - q \in 1 .. w /\ q + (k - q) = k
          BY <3>2
        <4>2. c[q + (k - q)] = all[q + (k - q)]
          BY <2>2, <4>1
        <4> QED
          BY <4>1, <4>2
      <3>3. k \in Int /\ q \in Int
        OBVIOUS
      <3> QED
        BY <3>1, <3>2, <3>3
    <2>4. c \in Seq(Seq(Cells)) /\ Len(c) = q + w /\ q + w \in Nat
      BY <2>1
    <2>5. c = all
      BY <1>3, <2>3, <2>4, SameSequence
    <2> QED
      BY <2>5 DEF c
  <1> QED
    BY <1>1, <1>8 DEF Compress, all, old

\* A context that has taken q blocks of the text M, and r cells of the next.
Buffers(z) == [1 .. z -> Cells]

Held(state, buffer, M, z, q, r) ==
  /\ state = First(M, z, q)
  /\ buffer \in Buffers(z)
  /\ \A j \in 1 .. r : buffer[j] = M[q * z + j]

\* The cells of a piece that are wanted go behind those in the buffer.
LEMMA PutType ==
  ASSUME NEW z \in Nat, NEW buffer \in Buffers(z), NEW at \in Nat, NEW d \in Seq(Cells)
  PROVE  Put(buffer, at, d) \in Buffers(z)
  <1>1. \A i \in 1 .. z : buffer[i] \in Cells /\ (i - at \in DOMAIN d => d[i - at] \in Cells)
    BY DEF Buffers
  <1> QED
    BY <1>1 DEF Put, Buffers

\* What a buffer holds after the cells of a piece are put into it.
LEMMA PutCells ==
  ASSUME NEW z \in Nat, NEW buffer \in Buffers(z), NEW at \in Nat, NEW d \in Seq(Cells)
  PROVE  /\ \A j \in 1 .. z : j <= at => Put(buffer, at, d)[j] = buffer[j]
         /\ \A j \in 1 .. Len(d) : at + j <= z => Put(buffer, at, d)[at + j] = d[j]
         /\ \A j \in 1 .. z : j > at + Len(d) => Put(buffer, at, d)[j] = buffer[j]
  <1>1. DOMAIN buffer = 1 .. z /\ DOMAIN d = 1 .. Len(d) /\ Len(d) \in Nat
    BY DEF Buffers
  <1>2. \A j \in 1 .. z : j <= at => j - at \notin DOMAIN d
    BY <1>1
  <1>3. \A j \in 1 .. z : j > at + Len(d) => j - at \notin DOMAIN d
    BY <1>1
  <1>4. \A j \in 1 .. Len(d) : (at + j) - at = j /\ (at + j <= z => at + j \in 1 .. z)
    BY <1>1
  <1> QED
    BY <1>1, <1>2, <1>3, <1>4 DEF Put

\* A buffer that holds r cells of a block holds n more when they are put behind.
LEMMA Filling ==
  ASSUME NEW z \in Nat \ {0}, NEW M, NEW q \in Nat, NEW r \in Nat, NEW state, NEW buffer,
         Held(state, buffer, M, z, q, r),
         NEW d \in Seq(Cells), NEW n \in Nat, n <= Len(d), r + n <= z,
         \A i \in 1 .. n : d[i] = M[q * z + r + i]
  PROVE  Held(state, Put(buffer, r, d), M, z, q, r + n)
  <1> DEFINE b == Put(buffer, r, d)
             p == q * z
  <1>1. z \in Nat /\ p \in Nat /\ Len(d) \in Nat
    BY Products
  <1>2. buffer \in Buffers(z) /\ \A j \in 1 .. r : buffer[j] = M[p + j]
    BY DEF Held
  <1>3. b \in Buffers(z)
    BY <1>1, <1>2, PutType
  <1>4. /\ \A j \in 1 .. z : j <= r => b[j] = buffer[j]
        /\ \A j \in 1 .. Len(d) : r + j <= z => b[r + j] = d[j]
    BY <1>1, <1>2, PutCells
  <1>5. \A i \in 1 .. n : d[i] = M[p + r + i]
    OBVIOUS
  <1> HIDE DEF b, p
  <1>6. ASSUME NEW j \in 1 .. r + n PROVE b[j] = M[p + j]
    <2>1. CASE j <= r
      BY <1>2, <1>4, <2>1
    <2>2. CASE j > r
      <3> DEFINE i == j - r
      <3>1. i \in 1 .. n /\ i \in 1 .. Len(d) /\ r + i = j /\ p + r + i = p + j
        BY <1>1, <2>2
      <3>2. b[r + i] = d[i] /\ d[i] = M[p + r + i]
        BY <1>4, <1>5, <3>1
      <3> QED
        BY <3>1, <3>2
    <2>3. j \in Int /\ r \in Int
      OBVIOUS
    <2> QED
      BY <2>1, <2>2, <2>3
  <1>7. Held(state, b, M, z, q, r + n)
    <2>1. state = First(M, z, q)
      BY DEF Held
    <2>2. \A j \in 1 .. r + n : b[j] = M[q * z + j]
      BY <1>6 DEF p
    <2> QED
      BY <1>3, <2>1, <2>2 DEF Held
  <1> QED
    BY ONLY <1>7 DEF b

\* A full buffer is compressed.
LEMMA Flushed ==
  ASSUME NEW z \in Nat \ {0}, NEW M \in Seq(Cells), NEW q \in Nat, NEW state, NEW buffer,
         Held(state, buffer, M, z, q, z), q * z + z <= Len(M)
  PROVE  /\ Compress(state, buffer, z) = First(M, z, q + 1)
         /\ Held(Compress(state, buffer, z), buffer, M, z, q + 1, 0)
  <1>1. buffer \in Seq(Cells) /\ Len(buffer) = z
    BY FunctionAsSequence DEF Held, Buffers
  <1>2. 1 * z = z /\ 1 \in Nat
    OBVIOUS
  <1>3. Len(buffer) = 1 * z /\ q * z + 1 * z <= Len(M)
    BY <1>1, <1>2
  <1>4. Continues(buffer, M, q * z)
    BY <1>1 DEF Held, Continues
  <1>5. Exactly(buffer, 1, z) /\ q * z + Len(buffer) <= Len(M)
    BY <1>3 DEF Exactly
  <1>6. Compress(First(M, z, q), buffer, z) = First(M, z, q + 1)
    BY <1>1, <1>2, <1>4, <1>5, Compressed
  <1> QED
    BY <1>6 DEF Held

\* Fewer cells are held, too.
LEMMA HeldLess ==
  ASSUME NEW z, NEW M, NEW q, NEW r \in Nat, NEW n \in Nat, n <= r, NEW state, NEW buffer,
         Held(state, buffer, M, z, q, r)
  PROVE  Held(state, buffer, M, z, q, n)
  BY DEF Held

\* A text is cut in two.
LEMMA Cut ==
  ASSUME NEW T, NEW d \in Seq(T), NEW m \in 0 .. Len(d)
  PROVE  /\ SubSeq(d, 1, m) \in Seq(T) /\ Len(SubSeq(d, 1, m)) = m
         /\ \A i \in 1 .. m : SubSeq(d, 1, m)[i] = d[i]
         /\ SubSeq(d, m + 1, Len(d)) \in Seq(T) /\ Len(SubSeq(d, m + 1, Len(d))) = Len(d) - m
         /\ \A i \in 1 .. Len(d) - m : SubSeq(d, m + 1, Len(d))[i] = d[m + i]
  OBVIOUS

\* The parts of a piece of a text are pieces of it.
LEMMA CutContinues ==
  ASSUME NEW d \in Seq(Cells), NEW m \in 0 .. Len(d), NEW M, NEW p \in Nat, Continues(d, M, p)
  PROVE  /\ Continues(SubSeq(d, 1, m), M, p)
         /\ Continues(SubSeq(d, m + 1, Len(d)), M, p + m)
  <1> DEFINE u == SubSeq(d, 1, m)
             v == SubSeq(d, m + 1, Len(d))
  <1>1. /\ Len(u) = m /\ \A i \in 1 .. m : u[i] = d[i]
        /\ Len(v) = Len(d) - m /\ \A i \in 1 .. Len(d) - m : v[i] = d[m + i]
    BY Cut
  <1>2. \A i \in 1 .. Len(d) : d[i] = M[p + i]
    BY DEF Continues
  <1>3. Len(d) \in Nat /\ m \in Nat /\ m <= Len(d)
    OBVIOUS
  <1> HIDE DEF u, v
  <1>4. Continues(u, M, p)
    BY <1>1, <1>2, <1>3 DEF Continues
  <1>5. ASSUME NEW i \in 1 .. Len(v) PROVE v[i] = M[(p + m) + i]
    <2>1. m + i \in 1 .. Len(d) /\ p + (m + i) = (p + m) + i /\ i \in 1 .. Len(d) - m
      BY <1>1, <1>3
    <2>2. d[m + i] = M[p + (m + i)]
      BY <1>2, <2>1
    <2> QED
      BY <1>1, <2>1, <2>2
  <1>6. Continues(v, M, p + m)
    BY <1>5 DEF Continues
  <1> QED
    BY <1>4, <1>6 DEF u, v

\* A number is its quotient and its remainder.
LEMMA Division ==
  ASSUME NEW z \in Nat \ {0}, NEW n \in Nat
  PROVE  /\ n = z * (n \div z) + (n % z) /\ n = (n \div z) * z + (n % z)
         /\ n \div z \in Nat /\ n % z \in Nat /\ n % z \in 0 .. z - 1 /\ n % z < z
  <1> DEFINE w == n \div z
             x == n % z
  <1>1. n \in Int
    OBVIOUS
  <1>2. n = z * (n \div z) + (n % z) /\ n \div z \in Int /\ n % z \in 0 .. z - 1
    BY <1>1, Divides
  <1>3. n = z * w + x /\ w \in Int /\ x \in 0 .. z - 1
    BY <1>2, Zenon
  <1> HIDE DEF w, x
  <1>4. ~ (w <= -1)
    <2> SUFFICES ASSUME w <= -1 PROVE FALSE
      OBVIOUS
    <2>1. z * (w + 1) <= 0
      BY <1>3, NotPositive
    <2>2. z * (w + 1) = z * w + z
      BY <1>3
    <2> QED
      BY <1>3, <2>1, <2>2
  <1>5. w \in Nat /\ z * w = w * z /\ x \in Nat /\ x < z
    BY <1>3, <1>4
  <1>6. n = z * w + x /\ n = w * z + x
    BY <1>3, <1>5
  <1> QED
    BY ONLY <1>3, <1>5, <1>6, Zenon DEF w, x

\* Whole blocks are compressed and the rest is kept.
LEMMA Swallowed ==
  ASSUME NEW z \in Nat \ {0}, NEW M \in Seq(Cells), NEW q \in Nat, NEW state, NEW buffer,
         Held(state, buffer, M, z, q, 0),
         NEW e \in Seq(Cells), q * z + Len(e) <= Len(M), Continues(e, M, q * z)
  PROVE  LET w == Len(e) \div z
             whole == w * z
         IN  /\ Held(Compress(state, SubSeq(e, 1, whole), z), Put(buffer, 0, SubSeq(e, whole + 1, Len(e))),
                     M, z, q + w, Len(e) % z)
             /\ (q * z + Len(e)) \div z = q + w
             /\ (q * z + Len(e)) % z = Len(e) % z
  <1> DEFINE n == Len(e)
             w == n \div z
             x == n % z
             whole == w * z
             p == q * z
             u == SubSeq(e, 1, whole)
             v == SubSeq(e, whole + 1, n)
  <1>0. n \in Nat
    OBVIOUS
  <1>1. n = z * w + x /\ w \in Nat /\ x \in 0 .. z - 1 /\ n \in Nat /\ x \in Nat
    <2> HIDE DEF n
    <2>1. n = z * (n \div z) + (n % z) /\ n \div z \in Nat /\ n % z \in Nat /\ n % z \in 0 .. z - 1
      BY <1>0, Division
    <2> QED
      BY <1>0, <2>1, Zenon
  <1>2. w \in Nat
    BY <1>1, Zenon
  <1>3. whole \in Nat /\ p \in Nat /\ whole = z * w /\ (q + w) * z = p + whole /\ q + w \in Nat
    <2> HIDE DEF w
    <2> QED
      BY <1>2, Products
  <1> HIDE DEF x, w
  <1>4. n = whole + x /\ whole \in 0 .. n /\ n - whole = x
    <2> HIDE DEF whole, n
    <2> QED
      BY <1>1, <1>3
  <1>5. p + n <= Len(M) /\ Continues(e, M, p) /\ Len(M) \in Nat
    OBVIOUS
  <1>6. /\ u \in Seq(Cells) /\ Len(u) = whole
        /\ v \in Seq(Cells) /\ Len(v) = x
    <2> HIDE DEF whole
    <2> QED
      BY <1>4, Cut
  <1>7. Continues(u, M, p) /\ Continues(v, M, p + whole)
    <2> HIDE DEF whole, p
    <2> QED
      BY <1>3, <1>4, <1>5, CutContinues
  <1> HIDE DEF u, v
  <1>8. Compress(First(M, z, q), u, z) = First(M, z, q + w)
    <2>1. p + whole <= Len(M)
      <3> HIDE DEF p, whole, n
      <3> QED
        BY <1>1, <1>3, <1>4, <1>5
    <2>2. Exactly(u, w, z) /\ q * z + Len(u) <= Len(M) /\ Continues(u, M, q * z)
      BY <1>6, <1>7, <2>1 DEF Exactly
    <2> HIDE DEF p, whole, n
    <2> QED
      BY <1>2, <1>6, <2>2, Compressed
  <1>9. state = First(M, z, q) /\ buffer \in Buffers(z)
    BY DEF Held
  <1>10. Held(Compress(state, u, z), buffer, M, z, q + w, 0)
    BY <1>8, <1>9 DEF Held
  <1>11. Held(Compress(state, u, z), Put(buffer, 0, v), M, z, q + w, x)
    <2>1. \A i \in 1 .. x : v[i] = M[(q + w) * z + 0 + i]
      <3>1. (q + w) * z + 0 = p + whole
        BY <1>3
      <3> HIDE DEF p, whole
      <3> QED
        BY <1>6, <1>7, <3>1 DEF Continues
    <2>2. 0 \in Nat /\ x \in Nat /\ x <= Len(v) /\ 0 + x <= z /\ 0 + x = x
      BY <1>1, <1>6
    <2>3. Held(Compress(state, u, z), Put(buffer, 0, v), M, z, q + w, 0 + x)
      BY <1>3, <1>6, <1>10, <2>1, <2>2, Filling
    <2> QED
      BY <2>2, <2>3
  <1>12. (p + n) \div z = q + w /\ (p + n) % z = x
    <2>1. p + n = (q + w) * z + x
      BY <1>3, <1>4
    <2> DEFINE y == q + w
    <2>2. y \in Int /\ x \in 0 .. z - 1
      BY <1>1, <1>3
    <2> HIDE DEF y
    <2>3. (y * z + x) \div z = y /\ (y * z + x) % z = x
      BY <2>2, Quotient
    <2>4. p + n = y * z + x
      BY <2>1 DEF y
    <2>5. (p + n) \div z = y /\ (p + n) % z = x
      BY <2>3, <2>4
    <2> QED
      BY <2>5 DEF y
  <1> QED
    BY <1>11, <1>12 DEF u, v, x, w

\* Where a context stands that has taken the first n cells of a text.
Place(state, buffer, M, z, n) == Held(state, buffer, M, z, n \div z, n % z)

\* Cells that do not fill the buffer.
LEMMA TakesLittle ==
  ASSUME NEW z \in Nat \ {0}, NEW M, NEW n \in Nat, NEW state, NEW buffer,
         Place(state, buffer, M, z, n),
         NEW d \in Seq(Cells), Continues(d, M, n), (n % z) + Len(d) < z
  PROVE  /\ Place(state, Put(buffer, n % z, d), M, z, n + Len(d))
         /\ (n + Len(d)) \div z = n \div z
         /\ (n + Len(d)) % z = (n % z) + Len(d)
  <1> DEFINE q == n \div z
             r == n % z
             k == Len(d)
  <1>1. n = z * q + r /\ n = q * z + r /\ q \in Nat /\ r \in Nat /\ r < z
    BY Division, Zenon
  <1>2. k \in Nat /\ \A i \in 1 .. k : d[i] = M[n + i]
    BY DEF Continues
  <1>3. Held(state, buffer, M, z, q, r) /\ r + k < z
    BY DEF Place
  <1> HIDE DEF q, r, k
  <1>4. n + k = q * z + (r + k) /\ r + k \in 0 .. z - 1
    BY <1>1, <1>2, <1>3
  <1> DEFINE x == r + k
  <1>5. (n + k) \div z = q /\ (n + k) % z = x
    <2>1. q \in Int /\ x \in 0 .. z - 1
      BY <1>1, <1>4
    <2> HIDE DEF x
    <2>2. (q * z + x) \div z = q /\ (q * z + x) % z = x
      BY <2>1, Quotient
    <2> QED
      BY <1>4, <2>2 DEF x
  <1>6. \A i \in 1 .. k : d[i] = M[q * z + r + i]
    BY <1>1, <1>2
  <1>7. k <= Len(d) /\ r + k <= z
    BY <1>1, <1>2, <1>3 DEF k
  <1>8. Held(state, Put(buffer, r, d), M, z, q, r + k)
    BY <1>1, <1>2, <1>3, <1>6, <1>7, Filling
  <1>9. Place(state, Put(buffer, r, d), M, z, n + k)
    BY <1>5, <1>8 DEF Place
  <1> QED
    BY <1>5, <1>9 DEF q, r, k

\* Cells that fill the buffer, which is compressed.
Fills(d, n, z, M) == (n % z) + Len(d) = z /\ n + Len(d) <= Len(M)

TakenTo(state, buffer, d, n, z, M, q) ==
  LET full == Put(buffer, n % z, d)
  IN  Held(Compress(state, full, z), full, M, z, q, 0) /\ q * z = n + Len(d)

TakenAll(state, buffer, d, n, z, M) ==
  LET full == Put(buffer, n % z, d)
  IN  /\ Place(Compress(state, full, z), full, M, z, n + Len(d))
      /\ (n + Len(d)) \div z = (n \div z) + 1
      /\ (n + Len(d)) % z = 0

\* The context stands at the end of the block then.
LEMMA TakesBlock ==
  ASSUME NEW z \in Nat \ {0}, NEW M \in Seq(Cells), NEW n \in Nat, NEW state, NEW buffer,
         Place(state, buffer, M, z, n),
         NEW d \in Seq(Cells), Continues(d, M, n), Fills(d, n, z, M)
  PROVE  /\ TakenAll(state, buffer, d, n, z, M)
         /\ \E q \in Nat : TakenTo(state, buffer, d, n, z, M, q)
  <1> DEFINE q == n \div z
             r == n % z
             k == Len(d)
             full == Put(buffer, r, d)
             y == q + 1
  <1>1. n = z * q + r /\ n = q * z + r /\ q \in Nat /\ r \in Nat /\ r < z
    BY Division, Zenon
  <1>2. k \in Nat /\ (\A i \in 1 .. k : d[i] = M[n + i]) /\ n + k <= Len(M)
    BY DEF Continues, Fills
  <1>3. Held(state, buffer, M, z, q, r) /\ r + k = z
    BY DEF Place, Fills
  <1>4. k <= Len(d)
    BY <1>2
  <1> HIDE DEF q, r, k
  <1>5. \A i \in 1 .. k : d[i] = M[q * z + r + i]
    BY <1>1, <1>2
  <1>6. r + k <= z
    BY <1>3
  <1>7. Held(state, full, M, z, q, r + k)
    BY <1>1, <1>2, <1>3, <1>4, <1>5, <1>6, Filling
  <1>8. y * z = n + k /\ y \in Nat /\ 0 \in 0 .. z - 1 /\ q * z + z = n + k
    <2>1. y * z = q * z + z /\ y \in Nat /\ q * z \in Nat
      BY <1>1, Products
    <2>2. q * z + z = n + k
      BY <1>1, <1>2, <1>3, <2>1
    <2> QED
      BY <2>1, <2>2
  <1> HIDE DEF full
  <1>9. Held(Compress(state, full, z), full, M, z, y, 0)
    <2>1. Held(state, full, M, z, q, z) /\ q * z + z <= Len(M)
      BY <1>2, <1>3, <1>7, <1>8
    <2> QED
      BY <1>1, <2>1, Flushed
  <1>10. (n + k) \div z = y /\ (n + k) % z = 0
    <2> HIDE DEF y
    <2>1. Splits(n + k, y, z, 0)
      BY <1>8 DEF Splits
    <2> QED
      BY <1>8, <2>1, QuotientOf
  <1>11. Place(Compress(state, full, z), full, M, z, n + k)
    BY <1>9, <1>10 DEF Place
  <1>12. TakenAll(state, buffer, d, n, z, M)
    BY <1>10, <1>11 DEF TakenAll, full, q, r, k, y
  <1>13. TakenTo(state, buffer, d, n, z, M, y)
    <2> HIDE DEF y
    <2> QED
      BY <1>8, <1>9 DEF TakenTo, full, r, k
  <1> QED
    BY <1>8, <1>12, <1>13

\* Whole blocks when the buffer is empty, and what is left behind them.
LEMMA TakesWhole ==
  ASSUME NEW z \in Nat \ {0}, NEW M \in Seq(Cells), NEW q \in Nat, NEW state, NEW buffer,
         Held(state, buffer, M, z, q, 0),
         NEW e \in Seq(Cells), q * z + Len(e) <= Len(M), Continues(e, M, q * z)
  PROVE  LET whole == (Len(e) \div z) * z
         IN  Place(Compress(state, SubSeq(e, 1, whole), z),
                   Put(buffer, 0, SubSeq(e, whole + 1, Len(e))), M, z, q * z + Len(e))
  <1> DEFINE w == Len(e) \div z
             whole == w * z
             x == q * z + Len(e)
  <1>1. /\ Held(Compress(state, SubSeq(e, 1, whole), z), Put(buffer, 0, SubSeq(e, whole + 1, Len(e))),
                M, z, q + w, Len(e) % z)
        /\ x \div z = q + w
        /\ x % z = Len(e) % z
    BY Swallowed
  <1> QED
    BY <1>1 DEF Place

\* A whole block when the buffer is empty.
LEMMA TakesDirect ==
  ASSUME NEW z \in Nat \ {0}, NEW M \in Seq(Cells), NEW n \in Nat, NEW state, NEW buffer,
         Place(state, buffer, M, z, n), n % z = 0,
         NEW d \in Seq(Cells), Continues(d, M, n), Len(d) = z, n + z <= Len(M)
  PROVE  /\ Place(Compress(state, d, z), buffer, M, z, n + z)
         /\ (n + z) \div z = (n \div z) + 1
         /\ (n + z) % z = 0
  <1> DEFINE q == n \div z
             y == q + 1
  <1>1. n = z * q + 0 /\ n = q * z + 0 /\ q \in Nat
    BY Division, Zenon
  <1>2. Held(state, buffer, M, z, q, 0)
    BY DEF Place
  <1> HIDE DEF q
  <1>3. y * z = n + z /\ y \in Nat /\ 0 \in 0 .. z - 1 /\ q * z = n
    BY <1>1
  <1>4. Compress(First(M, z, q), d, z) = First(M, z, q + 1)
    <2>1. Len(d) = 1 * z /\ 1 \in Nat
      OBVIOUS
    <2>2. Exactly(d, 1, z) /\ q * z + Len(d) <= Len(M) /\ Continues(d, M, q * z)
      BY <1>3, <2>1 DEF Exactly
    <2> QED
      BY <1>1, <2>1, <2>2, Compressed
  <1>5. Held(Compress(state, d, z), buffer, M, z, y, 0)
    BY <1>2, <1>4 DEF Held
  <1>6. (n + z) \div z = y /\ (n + z) % z = 0
    <2> HIDE DEF y
    <2>1. Splits(n + z, y, z, 0)
      BY <1>3 DEF Splits
    <2> QED
      BY <1>3, <2>1, QuotientOf
  <1> QED
    BY <1>5, <1>6 DEF Place, q, y

\* The contexts of an algorithm whose blocks have z cells.
Hashes(alg, z) ==
  [algorithm : {alg}, buffer : Buffers(z), state : Seq(Seq(Cells)),
   lo : Nat, hi : Nat, curlen : Nat, length : Nat]

\* The sizes of DigestsAssumption.
LEMMA SomeBlock == Block \in Nat \ {0} /\ LengthSize \in Nat /\ LengthSize < Block /\ LoLimit \in Nat \ {0}
  BY DigestsAssumption

\* The state of a context that stands in a text is a sequence of blocks.
LEMMA PlaceType ==
  ASSUME NEW z \in Nat \ {0}, NEW M \in Seq(Cells), NEW n \in 0 .. Len(M), NEW state, NEW buffer,
         Place(state, buffer, M, z, n)
  PROVE  state \in Seq(Seq(Cells)) /\ buffer \in Buffers(z) /\ n % z \in Nat /\ n % z < z
  <1> DEFINE q == n \div z
             r == n % z
  <1>0. n \in Nat
    OBVIOUS
  <1>1. n = z * q + r /\ n = q * z + r /\ q \in Nat /\ r \in Nat /\ r < z
    BY <1>0, Division, Zenon
  <1>2. state = First(M, z, q) /\ buffer \in Buffers(z)
    BY DEF Place, Held
  <1> HIDE DEF q, r
  <1>3. q * z \in Nat /\ z \in Nat
    BY <1>1, Products
  <1>4. q * z <= Len(M)
    BY <1>1, <1>3
  <1>5. First(M, z, q) \in Seq(Seq(Cells))
    BY <1>1, <1>3, <1>4, FirstText
  <1> QED
    BY <1>1, <1>2, <1>5 DEF r

\* An MD5 context that has taken the first n cells of a text.
Md5Holds(ctx, M, n) ==
  /\ ctx \in Hashes("MD5", Block)
  /\ Place(ctx.state, ctx.buffer, M, Block, n)
  /\ ctx.lo < LoLimit /\ ctx.hi * LoLimit + ctx.lo = n

Low(lo, k, g) == (lo + k) % g

High(lo, hi, k, g) == hi + (IF Low(lo, k, g) < lo THEN 1 ELSE 0) + k \div g

\* Its counter in two parts counts on.
LEMMA Md5Counts ==
  ASSUME NEW lo \in Nat, NEW hi \in Nat, NEW g \in Nat \ {0}, lo < g, NEW k \in Nat
  PROVE  /\ Low(lo, k, g) \in Nat /\ High(lo, hi, k, g) \in Nat /\ Low(lo, k, g) < g
         /\ High(lo, hi, k, g) * g + Low(lo, k, g) = (hi * g + lo) + k
  <1> DEFINE q == k \div g
             r == k % g
             low == (lo + k) % g
  <1>1. k = g * q + r /\ k = q * g + r /\ q \in Nat /\ r \in Nat /\ r < g
    BY Division, Zenon
  <1> HIDE DEF q, r
  <1>2. CASE lo + r < g
    <2>1. Splits(lo + k, q, g, lo + r) /\ lo + r \in 0 .. g - 1 /\ q \in Int
      BY <1>1, <1>2 DEF Splits
    <2>2. low = lo + r
      BY <2>1, QuotientOf
    <2>3. (hi + q) * g = hi * g + q * g /\ hi * g \in Nat /\ q * g \in Nat
      BY <1>1, Products
    <2> HIDE DEF low
    <2> DEFINE high == hi + (IF low < lo THEN 1 ELSE 0) + q
    <2>4. high = hi + q /\ high \in Nat
      BY <1>1, <2>2
    <2> HIDE DEF high
    <2>5. high * g + low = (hi * g + lo) + k
      BY <1>1, <2>2, <2>3, <2>4
    <2>6. low \in Nat /\ high \in Nat /\ low < g
      BY <1>1, <1>2, <2>2, <2>4
    <2> QED
      BY <2>5, <2>6 DEF high, low, q, Low, High
  <1>3. CASE lo + r >= g
    <2> DEFINE q1 == q + 1
    <2>9. g \in Nat /\ q \in Nat /\ q * g \in Nat
      BY <1>1, Products
    <2>0. q1 * g = q * g + g /\ q1 \in Nat
      BY <2>9
    <2>1. Splits(lo + k, q1, g, (lo + r) - g) /\ (lo + r) - g \in 0 .. g - 1 /\ q1 \in Int
      BY <1>1, <1>3, <2>0 DEF Splits
    <2> HIDE DEF q1
    <2>2. low = (lo + r) - g
      BY <2>1, QuotientOf
    <2>3. (hi + q1) * g = hi * g + q1 * g /\ hi * g \in Nat /\ q1 * g \in Nat
      BY <1>1, <2>0, Products
    <2> HIDE DEF low
    <2> DEFINE high == hi + (IF low < lo THEN 1 ELSE 0) + q
    <2>4. high = hi + q1 /\ high \in Nat
      BY <1>1, <2>2 DEF q1
    <2> HIDE DEF high
    <2>5. high * g + low = (hi * g + lo) + k
      BY <1>1, <2>0, <2>2, <2>3, <2>4
    <2>6. low \in Nat /\ high \in Nat /\ low < g
      BY <1>1, <1>3, <2>2, <2>4
    <2> QED
      BY <2>5, <2>6 DEF high, low, q, Low, High
  <1> QED
    BY <1>1, <1>2, <1>3

\* Its lower part is enough to know what is in the buffer.
LEMMA Md5Used ==
  ASSUME NEW lo \in Nat, NEW hi \in Nat
  PROVE  lo % Block = (hi * LoLimit + lo) % Block
  <1> DEFINE c == LoLimit \div Block
             t == hi * c
  <1>1. Block \in Nat \ {0} /\ LoLimit \in Nat /\ LoLimit % Block = 0
    BY DigestsAssumption
  <1>2. LoLimit = c * Block + (LoLimit % Block) /\ c \in Nat
    BY <1>1, Division, Zenon
  <1> HIDE DEF c
  <1>3. LoLimit = c * Block /\ c \in Nat
    <2> DEFINE x == LoLimit % Block
    <2>1. x = 0 /\ LoLimit = c * Block + x
      BY <1>1, <1>2
    <2> HIDE DEF x
    <2>2. c * Block \in Nat
      BY <1>1, <1>2, Products
    <2> QED
      BY <1>2, <2>1, <2>2
  <1>4. hi * LoLimit = t * Block /\ t \in Int
    BY <1>1, <1>3
  <1> HIDE DEF t
  <1>5. Splits(hi * LoLimit + lo, t, Block, lo)
    BY <1>4 DEF Splits
  <1> DEFINE x == hi * LoLimit + lo
  <1>6. Splits(x, t, Block, lo) /\ lo \in Int
    BY <1>5
  <1> HIDE DEF x
  <1>7. x % Block = lo % Block
    BY <1>1, <1>4, <1>6, RemainderOf
  <1> QED
    BY <1>7 DEF x

\* What Prefix takes.
LEMMA PrefixOf ==
  ASSUME NEW T, NEW d \in Seq(T), NEW n \in Nat
  PROVE  /\ n <= Len(d) => Prefix(d, n) = SubSeq(d, 1, n)
         /\ n >= Len(d) => Prefix(d, n) = d
  <1>1. SubSeq(d, 1, Len(d)) = d /\ Len(d) \in Nat
    OBVIOUS
  <1>2. n < Len(d) => Prefix(d, n) = SubSeq(d, 1, n)
    BY DEF Prefix
  <1>3. ~ (n < Len(d)) => Prefix(d, n) = SubSeq(d, 1, Len(d))
    BY DEF Prefix
  <1>4. n = Len(d) => SubSeq(d, 1, n) = SubSeq(d, 1, Len(d))
    OBVIOUS
  <1>5. /\ n <= Len(d) => n < Len(d) \/ n = Len(d)
        /\ n >= Len(d) => ~ (n < Len(d))
    <2> DEFINE k == Len(d)
    <2>1. k \in Int /\ n \in Int
      BY <1>1
    <2> HIDE DEF k
    <2>2. (n <= k => n < k \/ n = k) /\ (n >= k => ~ (n < k))
      BY <2>1
    <2> QED
      BY <2>2 DEF k
  <1>6. n = Len(d) => ~ (n < Len(d))
    BY <1>1
  <1> QED
    BY ONLY <1>1, <1>2, <1>3, <1>4, <1>5, <1>6, Zenon

\* A new buffer, state and counter are a context again.
LEMMA HashFields ==
  ASSUME NEW alg, NEW z, NEW ctx \in Hashes(alg, z)
  PROVE  /\ ctx.algorithm = alg /\ ctx.buffer \in Buffers(z) /\ ctx.state \in Seq(Seq(Cells))
         /\ ctx.lo \in Nat /\ ctx.hi \in Nat /\ ctx.curlen \in Nat /\ ctx.length \in Nat
  BY DEF Hashes

\* A new place and a new count.
LEMMA Md5Moves ==
  ASSUME NEW M, NEW n, NEW ctx \in Hashes("MD5", Block), NEW lo \in Nat, NEW hi \in Nat,
         NEW state \in Seq(Seq(Cells)), NEW buffer \in Buffers(Block),
         Place(state, buffer, M, Block, n), lo < LoLimit, hi * LoLimit + lo = n
  PROVE  /\ Md5Holds([[ctx EXCEPT !.lo = lo, !.hi = hi] EXCEPT !.state = state, !.buffer = buffer], M, n)
         /\ state = ctx.state =>
              Md5Holds([[ctx EXCEPT !.lo = lo, !.hi = hi] EXCEPT !.buffer = buffer], M, n)
  <1> DEFINE new == [[ctx EXCEPT !.lo = lo, !.hi = hi] EXCEPT !.state = state, !.buffer = buffer]
             old == [[ctx EXCEPT !.lo = lo, !.hi = hi] EXCEPT !.buffer = buffer]
  <1>1. /\ new \in Hashes("MD5", Block)
        /\ new.lo = lo /\ new.hi = hi /\ new.state = state /\ new.buffer = buffer
    BY DEF Hashes
  <1>2. /\ old \in Hashes("MD5", Block)
        /\ old.lo = lo /\ old.hi = hi /\ old.state = ctx.state /\ old.buffer = buffer
    BY DEF Hashes
  <1> HIDE DEF new, old
  <1>3. Md5Holds(new, M, n)
    BY <1>1 DEF Md5Holds
  <1>4. state = ctx.state => Md5Holds(old, M, n)
    BY <1>2 DEF Md5Holds
  <1> QED
    BY <1>3, <1>4 DEF new, old

\* MD5 takes whatever comes next of a text.
LEMMA Md5Absorbs ==
  ASSUME NEW M \in Seq(Cells), NEW n \in Nat, NEW ctx, Md5Holds(ctx, M, n),
         NEW data \in Seq(Cells), Continues(data, M, n), n + Len(data) <= Len(M)
  PROVE  Md5Holds(Md5Update(ctx, data), M, n + Len(data))
  <1> DEFINE len == Len(data)
             lo == Low(ctx.lo, len, LoLimit)
             hi == High(ctx.lo, ctx.hi, len, LoLimit)
             counted == [ctx EXCEPT !.lo = lo, !.hi = hi]
             used == ctx.lo % Block
             free == Block - used
             part == Prefix(data, free)
             filled == Put(ctx.buffer, used, part)
             rest == IF used = 0 THEN data ELSE SubSeq(data, free + 1, len)
             whole == (Len(rest) \div Block) * Block
             first == IF used = 0 THEN ctx.state ELSE Compress(ctx.state, filled, Block)
             middle == IF used = 0 THEN ctx.buffer ELSE filled
             state == Compress(first, SubSeq(rest, 1, whole), Block)
             buffer == Put(middle, 0, SubSeq(rest, whole + 1, Len(rest)))
             new == Md5Update(ctx, data)
             to == n + len
  <1>1. ctx \in Hashes("MD5", Block) /\ Place(ctx.state, ctx.buffer, M, Block, n)
    BY DEF Md5Holds
  <1>2. ctx.lo \in Nat /\ ctx.hi \in Nat /\ ctx.lo < LoLimit /\ ctx.hi * LoLimit + ctx.lo = n
    BY <1>1, HashFields DEF Md5Holds
  <1>3. /\ Block \in Nat /\ Block \in Nat \ {0} /\ LoLimit \in Nat \ {0} /\ len \in Nat
        /\ Len(M) \in Nat /\ to <= Len(M) /\ to \in Nat
    BY SomeBlock
  <1>4. used = n % Block
    BY <1>2, Md5Used
  <1>5. used \in Nat /\ used < Block
    <2>1. n \in 0 .. Len(M)
      BY <1>3
    <2>2. n % Block \in Nat /\ n % Block < Block
      BY <1>1, <1>3, <2>1, PlaceType
    <2> QED
      BY <1>4, <2>2
  <1>6. lo \in Nat /\ hi \in Nat /\ lo < LoLimit /\ hi * LoLimit + lo = to
    <2> DEFINE a == ctx.lo
               b == ctx.hi
               g == LoLimit
    <2>1. a \in Nat /\ b \in Nat /\ g \in Nat \ {0} /\ a < g /\ len \in Nat /\ b * g + a = n
      BY <1>2, <1>3
    <2> HIDE DEF len, a, b, g
    <2>2. /\ Low(a, len, g) \in Nat /\ High(a, b, len, g) \in Nat /\ Low(a, len, g) < g
          /\ High(a, b, len, g) * g + Low(a, len, g) = (b * g + a) + len
      BY <2>1, Md5Counts
    <2>3. High(a, b, len, g) * g + Low(a, len, g) = n + len
      BY <2>1, <2>2
    <2> QED
      BY <2>2, <2>3, Zenon DEF a, b, g
  <1>7. used > 0 /\ len < free => new = [counted EXCEPT !.buffer = filled]
    BY Zenon DEF Md5Update, Low, High
  <1>8. ~ (used > 0 /\ len < free) => new = [counted EXCEPT !.state = state, !.buffer = buffer]
    <2>1. counted.state = ctx.state /\ counted.buffer = ctx.buffer
      BY <1>1 DEF Hashes
    <2> HIDE DEF lo, hi
    <2>2. ~ (used > 0 /\ len < free) =>
             new = [counted EXCEPT
                      !.state = Compress(IF used = 0 THEN counted.state ELSE Compress(counted.state, filled, Block),
                                         SubSeq(rest, 1, whole), Block),
                      !.buffer = Put(IF used = 0 THEN counted.buffer ELSE filled, 0,
                                     SubSeq(rest, whole + 1, Len(rest)))]
      BY Zenon DEF Md5Update, lo, hi, Low, High
    <2> HIDE DEF counted, used, free, filled, rest, whole, new
    <2> QED
      BY <2>1, <2>2
  <1> HIDE DEF new, lo, hi, used
  <1>9. CASE used > 0 /\ len < free
    <2>1. part = data
      <3>1. free \in Nat /\ free >= Len(data)
        BY <1>3, <1>5, <1>9
      <3> HIDE DEF free
      <3> QED
        BY <3>1, PrefixOf
    <2>2. (n % Block) + Len(data) < Block
      BY <1>3, <1>4, <1>5, <1>9
    <2>3. Place(ctx.state, filled, M, Block, to)
      <3>1. Place(ctx.state, Put(ctx.buffer, n % Block, data), M, Block, n + Len(data))
        BY <1>1, <1>3, <2>2, TakesLittle
      <3> QED
        BY <1>4, <2>1, <3>1
    <2> HIDE DEF filled, to
    <2>4. ctx.state \in Seq(Seq(Cells)) /\ filled \in Buffers(Block)
      <3>1. to \in 0 .. Len(M)
        BY <1>3
      <3> QED
        BY <1>3, <2>3, <3>1, PlaceType
    <2>5. Md5Holds([[ctx EXCEPT !.lo = lo, !.hi = hi] EXCEPT !.buffer = filled], M, to)
      BY <1>1, <1>6, <2>3, <2>4, Md5Moves
    <2> QED
      BY <1>7, <1>9, <2>5 DEF to, new
  <1>10. CASE ~ (used > 0 /\ len < free)
    <2>1. PICK q \in Nat : /\ Held(first, middle, M, Block, q, 0)
                           /\ rest \in Seq(Cells) /\ q * Block + Len(rest) = to
                           /\ Continues(rest, M, q * Block)
      <3>1. CASE used = 0
        <4> DEFINE q == n \div Block
                   r == n % Block
        <4>1. n = Block * q + r /\ n = q * Block + r /\ q \in Nat
          BY <1>3, Division, Zenon
        <4>2. r = 0
          BY <1>4, <3>1
        <4>3. Held(ctx.state, ctx.buffer, M, Block, q, r)
          BY <1>1 DEF Place
        <4> HIDE DEF q, r
        <4>4. q * Block = n
          BY <1>3, <4>1, <4>2, Products
        <4>5. first = ctx.state /\ middle = ctx.buffer /\ rest = data
          BY <3>1
        <4> QED
          BY <4>1, <4>2, <4>3, <4>4, <4>5
      <3>2. CASE used # 0
        <4>1. free \in Nat /\ free <= Len(data) /\ free \in 0 .. Len(data)
          BY <1>3, <1>5, <1>10, <3>2
        <4> DEFINE u == SubSeq(data, 1, free)
                   v == SubSeq(data, free + 1, Len(data))
        <4>2. part = u
          <5> HIDE DEF free
          <5> QED
            BY <4>1, PrefixOf
        <4>3. /\ u \in Seq(Cells) /\ Len(u) = free
              /\ v \in Seq(Cells) /\ Len(v) = Len(data) - free
          <5> HIDE DEF free
          <5> QED
            BY <4>1, Cut
        <4>4. Continues(u, M, n) /\ Continues(v, M, n + free)
          <5> HIDE DEF free
          <5> QED
            BY <4>1, CutContinues
        <4>5. (n % Block) + Len(u) = Block /\ n + Len(u) <= Len(M)
          BY <1>3, <1>4, <1>5, <4>1, <4>3
        <4> HIDE DEF u, v
        <4> DEFINE full == Put(ctx.buffer, n % Block, u)
        <4>9. \E q \in Nat : /\ Held(Compress(ctx.state, full, Block), full, M, Block, q, 0)
                             /\ q * Block = n + Len(u)
          <5>1. Fills(u, n, Block, M)
            BY <4>5 DEF Fills
          <5> HIDE DEF full
          <5>2. \E q \in Nat : TakenTo(ctx.state, ctx.buffer, u, n, Block, M, q)
            BY <1>1, <1>3, <4>3, <4>4, <5>1, TakesBlock
          <5> QED
            BY <5>2 DEF TakenTo, full
        <4>6. PICK q \in Nat :
                /\ Held(Compress(ctx.state, Put(ctx.buffer, n % Block, u), Block),
                        Put(ctx.buffer, n % Block, u), M, Block, q, 0)
                /\ q * Block = n + Len(u)
          BY <4>9, Zenon
        <4>8. q \in Nat /\ q * Block = n + free
          BY <4>3, <4>6
        <4>12. first = Compress(ctx.state, Put(ctx.buffer, n % Block, u), Block)
                /\ middle = Put(ctx.buffer, n % Block, u) /\ rest = v
          BY <1>4, <3>2, <4>2 DEF v
        <4>10. Held(first, middle, M, Block, q, 0)
          BY <4>6, <4>12
        <4> HIDE DEF first, middle
        <4>11. q * Block + Len(rest) = to
          <5> DEFINE p == q * Block
          <5>1. p \in Nat
            BY <1>3, <4>8
          <5>2. Len(rest) = len - free /\ to = n + len
            BY <4>3, <4>12
          <5> HIDE DEF p, free, to, rest, len
          <5>3. p = n + free
            BY <4>8 DEF p
          <5>4. free \in Int /\ len \in Int
            BY <1>3, <4>1
          <5>5. p + (len - free) = n + len
            BY <5>1, <5>3, <5>4
          <5> QED
            BY <5>2, <5>5 DEF p
        <4> HIDE DEF rest
        <4> QED
          BY <4>3, <4>4, <4>8, <4>10, <4>11, <4>12
      <3> QED
        BY <3>1, <3>2
    <2> HIDE DEF first, middle, rest, to
    <2>2. q * Block + Len(rest) <= Len(M)
      BY <1>3, <2>1
    <2>3. Place(Compress(first, SubSeq(rest, 1, whole), Block),
                Put(middle, 0, SubSeq(rest, whole + 1, Len(rest))), M, Block, q * Block + Len(rest))
      BY <1>3, <2>1, <2>2, TakesWhole
    <2>4. Place(state, buffer, M, Block, to)
      BY <2>1, <2>3
    <2> HIDE DEF state, buffer
    <2>5. state \in Seq(Seq(Cells)) /\ buffer \in Buffers(Block)
      <3>1. to \in 0 .. Len(M)
        BY <1>3
      <3> QED
        BY <1>3, <2>4, <3>1, PlaceType
    <2>6. Md5Holds([[ctx EXCEPT !.lo = lo, !.hi = hi] EXCEPT !.state = state, !.buffer = buffer], M, to)
      BY <1>1, <1>6, <2>4, <2>5, Md5Moves
    <2> QED
      BY <1>8, <1>10, <2>6 DEF to, new
  <1> QED
    BY <1>9, <1>10

\* A context of SHA-256 or SHA-512 that has taken the first n cells of a text.
ShaHolds(ctx, alg, z, M, n) ==
  /\ ctx \in Hashes(alg, z)
  /\ Place(ctx.state, ctx.buffer, M, z, n)
  /\ ctx.curlen = n % z /\ ctx.length = ((n \div z) * z) * 8

\* The lengths before and after a block.
LEMMA NextLength ==
  ASSUME NEW z \in Nat, NEW q \in Nat
  PROVE  (q * z) * 8 \in Nat /\ ((q + 1) * z) * 8 = (q * z) * 8 + 8 * z
  <1> DEFINE p == q * z
  <1>1. p \in Nat /\ (q + 1) * z = p + z
    BY Products
  <1> HIDE DEF p
  <1>2. (p + z) * 8 = p * 8 + 8 * z /\ p * 8 \in Nat
    BY <1>1
  <1> QED
    BY <1>1, <1>2 DEF p

\* What Prefix takes is a piece.
LEMMA PrefixCut ==
  ASSUME NEW d \in Seq(Cells), NEW n \in Nat
  PROVE  \E k \in 0 .. Len(d) : /\ Prefix(d, n) = SubSeq(d, 1, k)
                                /\ k <= n /\ (k = n \/ k = Len(d))
  <1> DEFINE k == IF n < Len(d) THEN n ELSE Len(d)
  <1>1. k \in 0 .. Len(d) /\ k <= n /\ (k = n \/ k = Len(d))
    OBVIOUS
  <1>2. Prefix(d, n) = SubSeq(d, 1, k)
    BY DEF Prefix
  <1> QED
    BY <1>1, <1>2

\* A block that is compressed where it is.
LEMMA ShaDirect ==
  ASSUME NEW alg, NEW z \in Nat \ {0}, NEW M \in Seq(Cells), NEW n \in Nat, NEW ctx,
         ShaHolds(ctx, alg, z, M, n), ctx.curlen = 0,
         NEW d \in Seq(Cells), Continues(d, M, n), Len(d) = z, n + z <= Len(M)
  PROVE  ShaHolds([ctx EXCEPT !.state = Compress(@, d, z), !.length = @ + 8 * z], alg, z, M, n + z)
  <1> DEFINE new == [ctx EXCEPT !.state = Compress(@, d, z), !.length = @ + 8 * z]
             to == n + z
  <1>1. ctx \in Hashes(alg, z) /\ Place(ctx.state, ctx.buffer, M, z, n) /\ n % z = 0
          /\ ctx.length = ((n \div z) * z) * 8
    BY DEF ShaHolds
  <1>2. /\ Place(Compress(ctx.state, d, z), ctx.buffer, M, z, to)
        /\ to \div z = (n \div z) + 1
        /\ to % z = 0
    BY <1>1, TakesDirect
  <1>3. n \div z \in Nat /\ z \in Nat
    BY Division, Zenon
  <1>4. ctx.length \in Nat /\ ((to \div z) * z) * 8 = ctx.length + 8 * z
    <2> DEFINE q == n \div z
    <2> HIDE DEF q, to
    <2>1. q \in Nat /\ to \div z = q + 1 /\ ctx.length = (q * z) * 8
      BY <1>1, <1>2, <1>3 DEF q
    <2>2. (q * z) * 8 \in Nat /\ ((q + 1) * z) * 8 = (q * z) * 8 + 8 * z
      BY <1>3, <2>1, NextLength
    <2> QED
      BY <2>1, <2>2
  <1>5. Compress(ctx.state, d, z) \in Seq(Seq(Cells))
    <2>1. to \in 0 .. Len(M)
      BY <1>3
    <2> HIDE DEF to
    <2> QED
      BY <1>2, <2>1, PlaceType
  <1>6. /\ new \in Hashes(alg, z)
        /\ new.state = Compress(ctx.state, d, z) /\ new.buffer = ctx.buffer
        /\ new.curlen = 0 /\ new.length = ctx.length + 8 * z
    <2> DEFINE state == Compress(ctx.state, d, z)
    <2>1. state \in Seq(Seq(Cells)) /\ ctx.length + 8 * z \in Nat
      BY <1>3, <1>4, <1>5
    <2> HIDE DEF state
    <2>2. new = [ctx EXCEPT !.state = state, !.length = ctx.length + 8 * z]
      BY <1>1 DEF state, Hashes
    <2> DEFINE length == ctx.length + 8 * z
    <2>3. length \in Nat
      BY <2>1
    <2> HIDE DEF length, new
    <2>4. new = [ctx EXCEPT !.state = state, !.length = length]
      BY <2>2 DEF length
    <2>5. /\ new \in Hashes(alg, z) /\ new.state = state /\ new.buffer = ctx.buffer
          /\ new.curlen = ctx.curlen /\ new.length = length
      BY <1>1, <2>1, <2>3, <2>4 DEF Hashes
    <2> QED
      BY <2>5 DEF state, length
  <1> HIDE DEF new, to
  <1>7. ShaHolds(new, alg, z, M, to)
    BY <1>2, <1>4, <1>6 DEF ShaHolds
  <1> QED
    BY <1>7 DEF new, to

\* Cells that fill the buffer, which is compressed.
LEMMA ShaFull ==
  ASSUME NEW alg, NEW z \in Nat \ {0}, NEW M \in Seq(Cells), NEW n \in Nat, NEW ctx,
         ShaHolds(ctx, alg, z, M, n),
         NEW d \in Seq(Cells), Continues(d, M, n), ctx.curlen + Len(d) = z, n + Len(d) <= Len(M)
  PROVE  LET kept == Put(ctx.buffer, ctx.curlen, d)
         IN  ShaHolds([ctx EXCEPT !.buffer = kept, !.state = Compress(@, kept, z),
                                  !.length = @ + 8 * z, !.curlen = 0], alg, z, M, n + Len(d))
  <1> DEFINE kept == Put(ctx.buffer, ctx.curlen, d)
             new == [ctx EXCEPT !.buffer = kept, !.state = Compress(@, kept, z),
                                !.length = @ + 8 * z, !.curlen = 0]
             to == n + Len(d)
  <1>1. ctx \in Hashes(alg, z) /\ Place(ctx.state, ctx.buffer, M, z, n) /\ n % z = ctx.curlen
          /\ ctx.length = ((n \div z) * z) * 8
    BY DEF ShaHolds
  <1>2. /\ Place(Compress(ctx.state, kept, z), kept, M, z, to)
        /\ to \div z = (n \div z) + 1
        /\ to % z = 0
    <2>1. (n % z) + Len(d) = z
      BY <1>1
    <2>2. Fills(d, n, z, M)
      BY <2>1 DEF Fills
    <2>3. TakenAll(ctx.state, ctx.buffer, d, n, z, M)
      BY <1>1, <2>2, TakesBlock
    <2>4. kept = Put(ctx.buffer, n % z, d)
      BY <1>1
    <2> HIDE DEF kept
    <2> QED
      BY <2>3, <2>4 DEF TakenAll
  <1>3. n \div z \in Nat /\ z \in Nat
    BY Division, Zenon
  <1>4. ctx.length \in Nat /\ ((to \div z) * z) * 8 = ctx.length + 8 * z
    <2> DEFINE q == n \div z
    <2> HIDE DEF q, to
    <2>1. q \in Nat /\ to \div z = q + 1 /\ ctx.length = (q * z) * 8
      BY <1>1, <1>2, <1>3 DEF q
    <2>2. (q * z) * 8 \in Nat /\ ((q + 1) * z) * 8 = (q * z) * 8 + 8 * z
      BY <1>3, <2>1, NextLength
    <2> QED
      BY <2>1, <2>2
  <1> HIDE DEF kept
  <1>5. Compress(ctx.state, kept, z) \in Seq(Seq(Cells)) /\ kept \in Buffers(z)
    <2>1. to \in 0 .. Len(M)
      BY <1>3
    <2> HIDE DEF to
    <2> QED
      BY <1>2, <2>1, PlaceType
  <1>6. /\ new \in Hashes(alg, z)
        /\ new.state = Compress(ctx.state, kept, z) /\ new.buffer = kept
        /\ new.curlen = 0 /\ new.length = ctx.length + 8 * z
    <2> DEFINE state == Compress(ctx.state, kept, z)
               length == ctx.length + 8 * z
    <2>1. state \in Seq(Seq(Cells)) /\ length \in Nat
      BY <1>3, <1>4, <1>5
    <2>2. new = [ctx EXCEPT !.buffer = kept, !.state = state, !.length = length, !.curlen = 0]
      BY <1>1 DEF Hashes
    <2> HIDE DEF length, new, state
    <2>5. /\ new \in Hashes(alg, z) /\ new.state = state /\ new.buffer = kept
          /\ new.curlen = 0 /\ new.length = length
      BY <1>1, <1>5, <2>1, <2>2 DEF Hashes
    <2> QED
      BY <2>5 DEF state, length
  <1> HIDE DEF new, to
  <1>7. ShaHolds(new, alg, z, M, to)
    BY <1>2, <1>4, <1>6 DEF ShaHolds
  <1> QED
    BY <1>7 DEF new, to, kept

\* Cells that do not.
LEMMA ShaKeeps ==
  ASSUME NEW alg, NEW z \in Nat \ {0}, NEW M \in Seq(Cells), NEW n \in Nat, NEW ctx,
         ShaHolds(ctx, alg, z, M, n),
         NEW d \in Seq(Cells), Continues(d, M, n), ctx.curlen + Len(d) < z, n + Len(d) <= Len(M)
  PROVE  ShaHolds([ctx EXCEPT !.buffer = Put(ctx.buffer, ctx.curlen, d), !.curlen = @ + Len(d)],
                  alg, z, M, n + Len(d))
  <1> DEFINE kept == Put(ctx.buffer, ctx.curlen, d)
             curlen == ctx.curlen + Len(d)
             new == [ctx EXCEPT !.buffer = kept, !.curlen = @ + Len(d)]
             to == n + Len(d)
  <1>1. ctx \in Hashes(alg, z) /\ Place(ctx.state, ctx.buffer, M, z, n) /\ n % z = ctx.curlen
          /\ ctx.length = ((n \div z) * z) * 8
    BY DEF ShaHolds
  <1>2. /\ Place(ctx.state, kept, M, z, to)
        /\ to \div z = n \div z
        /\ to % z = curlen
    <2>1. (n % z) + Len(d) < z
      BY <1>1
    <2>2. /\ Place(ctx.state, Put(ctx.buffer, n % z, d), M, z, n + Len(d))
          /\ (n + Len(d)) \div z = n \div z
          /\ (n + Len(d)) % z = (n % z) + Len(d)
      BY <1>1, <2>1, TakesLittle
    <2> QED
      BY <1>1, <2>2
  <1> HIDE DEF kept
  <1>3. ctx.curlen \in Nat /\ curlen \in Nat
    BY <1>1, HashFields
  <1>5. kept \in Buffers(z)
    <2>1. to \in 0 .. Len(M)
      OBVIOUS
    <2> HIDE DEF to
    <2> QED
      BY <1>2, <2>1, PlaceType
  <1>6. /\ new \in Hashes(alg, z)
        /\ new.state = ctx.state /\ new.buffer = kept
        /\ new.curlen = curlen /\ new.length = ctx.length
    <2>1. new = [ctx EXCEPT !.buffer = kept, !.curlen = curlen]
      BY <1>1 DEF Hashes
    <2> HIDE DEF curlen, new
    <2> QED
      BY <1>1, <1>3, <1>5, <2>1 DEF Hashes
  <1> HIDE DEF new, to, curlen
  <1>7. ShaHolds(new, alg, z, M, to)
    BY <1>1, <1>2, <1>6 DEF ShaHolds
  <1> QED
    BY <1>7 DEF new, to, kept

\* A round takes one cell or more of what is left.
LEMMA ShaStep ==
  ASSUME NEW alg, NEW z \in Nat \ {0}, NEW M \in Seq(Cells), NEW n \in Nat, NEW ctx,
         ShaHolds(ctx, alg, z, M, n),
         NEW d \in Seq(Cells), d # << >>, Continues(d, M, n), n + Len(d) <= Len(M)
  PROVE  \E k \in 1 .. Len(d) : /\ ShaHolds(ShaRound(ctx, d, z).ctx, alg, z, M, n + k)
                                /\ ShaRound(ctx, d, z).data = SubSeq(d, k + 1, Len(d))
  <1> DEFINE part == Prefix(d, z - ctx.curlen)
             m == Len(part)
             kept == Put(ctx.buffer, ctx.curlen, part)
             rest == SubSeq(d, m + 1, Len(d))
             direct == SubSeq(d, 1, z)
             t == ShaRound(ctx, d, z)
             c1 == [ctx EXCEPT !.state = Compress(@, direct, z), !.length = @ + 8 * z]
             c2 == [ctx EXCEPT !.buffer = kept, !.state = Compress(@, kept, z),
                               !.length = @ + 8 * z, !.curlen = 0]
             c3 == [ctx EXCEPT !.buffer = kept, !.curlen = @ + m]
  <1>1. ctx \in Hashes(alg, z) /\ ctx.curlen = n % z /\ ctx.curlen \in Nat /\ ctx.curlen < z /\ z \in Nat
    <2>1. n % z \in Nat /\ n % z < z
      BY Division, Zenon
    <2>2. z \in Nat
      OBVIOUS
    <2> QED
      BY <2>1, <2>2 DEF ShaHolds
  <1>2. Len(d) \in Nat /\ Len(d) > 0 /\ Len(M) \in Nat
    OBVIOUS
  <1>3. CASE ctx.curlen = 0 /\ Len(d) >= z
    <2>1. t.ctx = c1 /\ t.data = SubSeq(d, z + 1, Len(d))
      <3> HIDE DEF part, kept
      <3>1. t = [ctx |-> c1, data |-> SubSeq(d, z + 1, Len(d))]
        BY <1>3, Zenon DEF ShaRound
      <3> HIDE DEF t, c1
      <3> QED
        BY <3>1
    <2>2. z \in 1 .. Len(d) /\ z \in 0 .. Len(d) /\ n + z <= Len(M)
      BY <1>2, <1>3
    <2>3. direct \in Seq(Cells) /\ Len(direct) = z /\ Continues(direct, M, n)
      BY <2>2, Cut, CutContinues
    <2> HIDE DEF direct
    <2>4. ShaHolds(c1, alg, z, M, n + z)
      BY <1>3, <2>2, <2>3, ShaDirect
    <2> HIDE DEF c1, t
    <2>5. ShaHolds(t.ctx, alg, z, M, n + z)
      BY <2>1, <2>4
    <2> QED
      BY <2>1, <2>2, <2>5 DEF t
  <1>4. CASE ~ (ctx.curlen = 0 /\ Len(d) >= z)
    <2>1. PICK k \in 0 .. Len(d) : /\ part = SubSeq(d, 1, k) /\ k <= z - ctx.curlen
                                   /\ (k = z - ctx.curlen \/ k = Len(d))
      <3> DEFINE free == z - ctx.curlen
      <3>1. free \in Nat
        BY <1>1
      <3> HIDE DEF free
      <3>2. \E k \in 0 .. Len(d) : /\ Prefix(d, free) = SubSeq(d, 1, k)
                                   /\ k <= free /\ (k = free \/ k = Len(d))
        BY <3>1, PrefixCut
      <3> QED
        BY <3>2 DEF free
    <2>2. part \in Seq(Cells) /\ m = k /\ Continues(part, M, n)
      <3> DEFINE u == SubSeq(d, 1, k)
      <3>1. u \in Seq(Cells) /\ Len(u) = k
        BY Cut
      <3>2. Continues(u, M, n)
        BY CutContinues
      <3>3. part = u
        BY <2>1
      <3> HIDE DEF part, u
      <3> QED
        BY <3>1, <3>2, <3>3
    <2> HIDE DEF part
    <2>3. k \in 1 .. Len(d) /\ n + k <= Len(M) /\ k \in Nat /\ ctx.curlen + k <= z
      BY <1>1, <1>2, <2>1
    <2>4. CASE ctx.curlen + m = z
      <3>1. t = [ctx |-> c2, data |-> rest]
        BY <1>4, <2>4, Zenon DEF ShaRound, part
      <3>2. ctx.curlen + Len(part) = z /\ n + Len(part) <= Len(M)
        BY <2>2, <2>3, <2>4
      <3>3. ShaHolds(c2, alg, z, M, n + Len(part))
        BY <2>2, <3>2, ShaFull
      <3> HIDE DEF c2, t
      <3>4. t.ctx = c2 /\ t.data = rest
        BY <3>1
      <3>5. ShaHolds(t.ctx, alg, z, M, n + k) /\ t.data = SubSeq(d, k + 1, Len(d))
        BY <2>2, <3>3, <3>4
      <3> QED
        BY <2>3, <3>5 DEF t
    <2>5. CASE ctx.curlen + m # z
      <3>1. t = [ctx |-> c3, data |-> rest]
        BY <1>4, <2>5, Zenon DEF ShaRound, part
      <3>2. ctx.curlen + Len(part) < z /\ n + Len(part) <= Len(M)
        BY <1>1, <2>2, <2>3, <2>5
      <3>3. ShaHolds(c3, alg, z, M, n + Len(part))
        BY <2>2, <3>2, ShaKeeps
      <3> HIDE DEF c3, t
      <3>4. t.ctx = c3 /\ t.data = rest
        BY <3>1
      <3>5. ShaHolds(t.ctx, alg, z, M, n + k) /\ t.data = SubSeq(d, k + 1, Len(d))
        BY <2>2, <3>3, <3>4
      <3> QED
        BY <2>3, <3>5 DEF t
    <2> QED
      BY <2>4, <2>5
  <1> QED
    BY <1>3, <1>4

\* The rule for the rounds of SHA-256 and SHA-512.
LEMMA ShaRule ==
  ASSUME NEW ctx, NEW data, NEW z, Len(data) \in Nat, NEW S,
         [ctx |-> ctx, data |-> data] \in S[0], ctx.curlen <= z, ctx.curlen \in Nat, z \in Nat,
         \A n \in 0 .. Len(data) - 1 : \A s \in S[n] :
           ShaRound(s.ctx, s.data, z) \in S[n + 1]
  PROVE  \E t \in S[Len(data)] : ShaUpdate(ctx, data, z) = t.ctx
  <1> DEFINE k == Len(data)
             first == [ctx |-> ctx, data |-> data]
             Body(n, s) == ShaRound(s.ctx, s.data, z)
             Turn(f) == [n \in 0 .. k |-> IF n = 0 THEN first ELSE Body(n, f[n - 1])]
             after == CHOOSE f : f = Turn(f)
             next == [n \in Nat |-> [s \in S[n - 1] |-> Body(n, s)]]
  <1>0. ~ (ctx.curlen > z)
    OBVIOUS
  <1>1. ShaUpdate(ctx, data, z) = after[k].ctx
    BY <1>0, Zenon DEF ShaUpdate, Rounds
  <1>2. k \in Nat /\ first \in S[0] /\ \A n \in 0 .. k - 1 : \A s \in S[n] : Body(n + 1, s) \in S[n + 1]
    OBVIOUS
  <1> HIDE DEF Body, after, k, first
  <1>3. \A n \in 0 .. k - 1 : \A s \in S[n] : next[n + 1][s] = Body(n + 1, s)
    BY <1>2, RoundBefore
  <1> HIDE DEF next, Turn
  <1>4. \A n \in 0 .. k - 1 : \A s \in S[n] : next[n + 1][s] \in S[n + 1]
    BY <1>2, <1>3
  <1>5. PICK h : Goes(h, first, next, S, k)
    BY <1>2, <1>4, LoopExists
  <1>6. \A n \in 0 .. k - 1 : h[n + 1] = Body(n + 1, h[n])
    BY <1>3, <1>5 DEF Goes
  <1>7. \A n \in 0 .. k : h[n] = IF n = 0 THEN first ELSE Body(n, h[n - 1])
    BY <1>2, <1>5, <1>6, RoundBefore DEF Goes
  <1>8. h = Turn(h)
    BY <1>5, <1>7 DEF Goes, Turn
  <1>9. after = Turn(after)
    BY <1>8 DEF after
  <1>10. \A n \in 0 .. k : after[n] = IF n = 0 THEN first ELSE Body(n, after[n - 1])
    BY <1>9 DEF Turn
  <1>11. after[0] = first /\ \A n \in 0 .. k - 1 : after[n + 1] = Body(n + 1, after[n])
    BY <1>2, <1>10, RoundAfter
  <1>12. \A n \in 0 .. k : after[n] \in S[n]
    BY <1>2, <1>11, LoopInvariant
  <1>13. after[k] \in S[k] /\ k = Len(data)
    BY <1>2, <1>12, RoundAfter DEF k
  <1> QED
    BY <1>1, <1>13

\* What a loop over data has left when it has so many rounds to go.
ShaLeft(alg, z, M, to, rounds) ==
  {s \in [ctx : Hashes(alg, z), data : Seq(Cells)] :
     /\ Len(s.data) <= rounds /\ Len(s.data) <= to
     /\ ShaHolds(s.ctx, alg, z, M, to - Len(s.data))
     /\ Continues(s.data, M, to - Len(s.data))}

\* A round leaves less, and stands where its data goes on.
LEMMA ShaGoesOn ==
  ASSUME NEW alg, NEW z \in Nat \ {0}, NEW M \in Seq(Cells), NEW to \in 0 .. Len(M), NEW rounds \in Nat,
         NEW s \in ShaLeft(alg, z, M, to, rounds + 1)
  PROVE  ShaRound(s.ctx, s.data, z) \in ShaLeft(alg, z, M, to, rounds)
  <1> DEFINE d == s.data
             c == s.ctx
             n == to - Len(d)
             t == ShaRound(c, d, z)
  <1>1. s \in [ctx : Hashes(alg, z), data : Seq(Cells)]
    BY DEF ShaLeft
  <1>2. /\ c \in Hashes(alg, z) /\ d \in Seq(Cells) /\ Len(d) \in Nat
        /\ Len(d) <= rounds + 1 /\ Len(d) <= to
        /\ ShaHolds(c, alg, z, M, n) /\ Continues(d, M, n)
    BY <1>1 DEF ShaLeft
  <1>3. n \in Nat /\ n + Len(d) = to /\ to <= Len(M) /\ Len(M) \in Nat /\ to \in Nat
    BY <1>2
  <1>4. CASE d = << >>
    <2>1. t = [ctx |-> c, data |-> d]
      BY <1>4, Zenon DEF ShaRound
    <2>2. Len(d) = 0
      BY <1>4
    <2> HIDE DEF c, d, t
    <2>3. t.ctx = c /\ t.data = d /\ t \in [ctx : Hashes(alg, z), data : Seq(Cells)]
      BY <1>2, <2>1
    <2>5. Len(t.data) <= rounds /\ Len(t.data) <= to
      BY <1>2, <2>2, <2>3
    <2>6. ShaHolds(t.ctx, alg, z, M, to - Len(t.data)) /\ Continues(t.data, M, to - Len(t.data))
      BY <1>2, <2>3
    <2>4. t \in ShaLeft(alg, z, M, to, rounds)
      BY <2>3, <2>5, <2>6 DEF ShaLeft
    <2> QED
      BY <2>4 DEF t, c, d
  <1>5. CASE d # << >>
    <2> HIDE DEF c, d, n
    <2>1. n + Len(d) <= Len(M)
      BY <1>3
    <2>2. PICK k \in 1 .. Len(d) : ShaHolds(t.ctx, alg, z, M, n + k) /\ t.data = SubSeq(d, k + 1, Len(d))
      BY <1>2, <1>3, <1>5, <2>1, ShaStep
    <2> DEFINE v == SubSeq(d, k + 1, Len(d))
    <2>3. k \in 0 .. Len(d) /\ k \in Nat /\ k >= 1 /\ k <= Len(d)
      BY <1>2
    <2>4. v \in Seq(Cells) /\ Len(v) = Len(d) - k
      BY <1>2, <2>3, Cut
    <2>5. Continues(v, M, n + k)
      BY <1>2, <1>3, <2>3, CutContinues
    <2> HIDE DEF v, t
    <2>6. to - Len(v) = n + k
      <3> DEFINE a == Len(v)
                 b == Len(d)
      <3>1. a = b - k /\ n + b = to /\ b \in Nat
        BY <1>2, <1>3, <2>4
      <3> HIDE DEF a, b
      <3>2. to - a = n + k
        BY <1>3, <2>3, <3>1
      <3> QED
        BY <3>2 DEF a
    <2>7. Len(v) <= rounds /\ Len(v) <= to
      BY <1>2, <1>3, <2>3, <2>4
    <2>8. t.ctx \in Hashes(alg, z)
      BY <2>2 DEF ShaHolds
    <2>9. t \in [ctx : Hashes(alg, z), data : Seq(Cells)]
      <3>1. t = [ctx |-> t.ctx, data |-> t.data]
        BY Zenon, <1>5 DEF t, ShaRound
      <3>2. t.data \in Seq(Cells)
        BY <2>2, <2>4 DEF v
      <3> QED
        BY <2>8, <3>1, <3>2
    <2>10. t.data = v /\ Len(v) = Len(t.data)
      BY <2>2 DEF v
    <2>11. /\ ShaHolds(t.ctx, alg, z, M, to - Len(t.data)) /\ Continues(t.data, M, to - Len(t.data))
           /\ Len(t.data) <= rounds /\ Len(t.data) <= to
      BY <2>2, <2>5, <2>6, <2>7, <2>10
    <2>12. t \in ShaLeft(alg, z, M, to, rounds)
      BY <2>9, <2>11 DEF ShaLeft
    <2> QED
      BY <2>12 DEF t, c, d
  <1> QED
    BY <1>4, <1>5

\* SHA-256 and SHA-512 take whatever comes next of a text.
LEMMA ShaAbsorbs ==
  ASSUME NEW alg, NEW z \in Nat \ {0}, NEW M \in Seq(Cells), NEW n \in Nat, NEW ctx,
         ShaHolds(ctx, alg, z, M, n),
         NEW data \in Seq(Cells), Continues(data, M, n), n + Len(data) <= Len(M)
  PROVE  ShaHolds(ShaUpdate(ctx, data, z), alg, z, M, n + Len(data))
  <1> DEFINE len == Len(data)
             to == n + len
             S == [r \in 0 .. len |-> ShaLeft(alg, z, M, to, len - r)]
             start == [ctx |-> ctx, data |-> data]
  <1>1. len \in Nat /\ Len(M) \in Nat /\ to \in 0 .. Len(M) /\ to - len = n /\ z \in Nat
    OBVIOUS
  <1>2. ctx \in Hashes(alg, z) /\ ctx.curlen \in Nat /\ ctx.curlen <= z
    <2>1. n % z \in Nat /\ n % z < z
      BY Division, Zenon
    <2> QED
      BY <1>1, <2>1 DEF ShaHolds
  <1>3. start \in S[0]
    <2>1. start \in [ctx : Hashes(alg, z), data : Seq(Cells)] /\ start.ctx = ctx /\ start.data = data
      BY <1>2
    <2>2. Len(data) <= len /\ Len(data) <= to
      BY <1>1
    <2> HIDE DEF start
    <2>3. start \in ShaLeft(alg, z, M, to, len)
      BY <1>1, <2>1, <2>2 DEF ShaLeft
    <2>4. S[0] = ShaLeft(alg, z, M, to, len)
      BY <1>1
    <2> QED
      BY <2>3, <2>4
  <1> HIDE DEF to
  <1>4. \A r \in 0 .. len - 1 : \A s \in S[r] : ShaRound(s.ctx, s.data, z) \in S[r + 1]
    <2> SUFFICES ASSUME NEW r \in 0 .. len - 1, NEW s \in S[r]
                 PROVE  ShaRound(s.ctx, s.data, z) \in S[r + 1]
      OBVIOUS
    <2> DEFINE left == len - (r + 1)
    <2> HIDE DEF len
    <2>1. left \in Nat /\ left + 1 = len - r /\ r \in 0 .. len /\ r + 1 \in 0 .. len
      BY <1>1
    <2>2. S[r] = ShaLeft(alg, z, M, to, left + 1) /\ S[r + 1] = ShaLeft(alg, z, M, to, left)
      BY <2>1
    <2> HIDE DEF left, S
    <2>3. s \in ShaLeft(alg, z, M, to, left + 1)
      BY <2>2
    <2> QED
      BY <1>1, <2>1, <2>2, <2>3, ShaGoesOn
  <1> HIDE DEF S
  <1>5. PICK t \in S[Len(data)] : ShaUpdate(ctx, data, z) = t.ctx
    BY <1>1, <1>2, <1>3, <1>4, ShaRule
  <1>6. S[len] = ShaLeft(alg, z, M, to, 0)
    BY <1>1 DEF S
  <1>7. ShaHolds(t.ctx, alg, z, M, to - Len(t.data)) /\ Len(t.data) <= 0 /\ t.data \in Seq(Cells)
    BY <1>5, <1>6 DEF ShaLeft
  <1>8. to - Len(t.data) = to
    <2>1. Len(t.data) = 0
      BY <1>7
    <2> QED
      BY <1>1, <2>1
  <1> QED
    BY <1>5, <1>7, <1>8 DEF to

\* The text that the standards make of a message.
Padding(alg, length) ==
  LET used == (length + 1 + Tail512(alg)) % BlockSize(alg)
  IN  IF used = 0 THEN 0 ELSE BlockSize(alg) - used

Ending(alg, length) ==
  IF alg = "MD5" THEN Reverse(LengthCells(8 * length)) ELSE LengthCells(8 * length)

PaddedText(alg, message) ==
  Append(message, 128) \o Zeros(Padding(alg, Len(message)) + Tail512(alg) - LengthSize)
    \o Ending(alg, Len(message))

\* Its blocks are the standard.
LEMMA StandardIs ==
  ASSUME NEW alg, NEW message
  PROVE  Standard(alg, message) = Blocks(PaddedText(alg, message), BlockSize(alg))
  BY DEF Standard, PaddedText, Padding, Ending

\* The zeros of the padding.
LEMMA ZerosType ==
  ASSUME NEW n \in Nat
  PROVE  Zeros(n) \in Seq(Cells) /\ Len(Zeros(n)) = n /\ \A i \in 1 .. n : Zeros(n)[i] = 0
  <1>1. 0 \in Cells
    BY SomeCells
  <1>2. Zeros(n) \in [1 .. n -> Cells] /\ \A i \in 1 .. n : Zeros(n)[i] = 0
    BY <1>1 DEF Zeros
  <1> HIDE DEF Zeros
  <1> QED
    BY <1>2, FunctionAsSequence

\* The cells of a length.
LEMMA LengthCellsType ==
  ASSUME NEW bits \in Int
  PROVE  LengthCells(bits) \in Seq(Cells) /\ Len(LengthCells(bits)) = LengthSize
  <1>1. LengthSize \in Nat
    BY SomeBlock
  <1>2. ASSUME NEW i \in 1 .. LengthSize PROVE (bits \div 256 ^ (LengthSize - i)) % 256 \in Cells
    <2>1. LengthSize - i \in Int
      BY <1>1
    <2> DEFINE e == LengthSize - i
    <2>4. e \in Int
      BY <2>1
    <2> HIDE DEF e
    <2>2. LengthPart(bits, e) \in {LengthPart(b, e) : b \in Int}
      OBVIOUS
    <2>3. (bits \div 256 ^ e) % 256 \in Cells
      BY <2>2, <2>4 DEF Cells, LengthPart
    <2> QED
      BY <2>3 DEF e
  <1>3. LengthCells(bits) \in [1 .. LengthSize -> Cells]
    BY <1>2 DEF LengthCells
  <1> QED
    BY <1>1, <1>3, FunctionAsSequence

\* The length at the end, least significant cell first for MD5.
LEMMA EndingType ==
  ASSUME NEW alg, NEW length \in Nat
  PROVE  Ending(alg, length) \in Seq(Cells) /\ Len(Ending(alg, length)) = LengthSize
  <1> DEFINE bits == 8 * length
             s == LengthCells(bits)
  <1>1. s \in Seq(Cells) /\ Len(s) = LengthSize /\ LengthSize \in Nat
    <2>1. bits \in Int
      OBVIOUS
    <2> HIDE DEF bits
    <2> QED
      BY <2>1, LengthCellsType, SomeBlock
  <1> HIDE DEF s
  <1>2. Reverse(s) \in [1 .. LengthSize -> Cells]
    <2>1. \A i \in 1 .. LengthSize : (LengthSize - i) + 1 \in 1 .. LengthSize
      BY <1>1
    <2>2. \A i \in 1 .. LengthSize : s[(LengthSize - i) + 1] \in Cells
      BY <1>1, <2>1
    <2> QED
      BY <1>1, <2>2 DEF Reverse
  <1>3. Reverse(s) \in Seq(Cells) /\ Len(Reverse(s)) = LengthSize
    <2> DEFINE t == Reverse(s)
    <2>1. t \in [1 .. LengthSize -> Cells]
      BY <1>2
    <2> HIDE DEF t
    <2>2. t \in Seq(Cells) /\ Len(t) = LengthSize
      BY <1>1, <2>1, FunctionAsSequence
    <2> QED
      BY <2>2 DEF t
  <1>4. Ending(alg, length) = Reverse(s) \/ Ending(alg, length) = s
    BY DEF Ending, s
  <1> QED
    BY <1>1, <1>3, <1>4

PadFacts(m, k, e, t) ==
  /\ t \in Seq(Cells) /\ Len(t) = Len(m) + 1 + k + Len(e)
  /\ \A i \in 1 .. Len(m) : t[i] = m[i]
  /\ t[Len(m) + 1] = 128
  /\ \A i \in 1 .. k : t[Len(m) + 1 + i] = 0
  /\ \A i \in 1 .. Len(e) : t[Len(m) + 1 + k + i] = e[i]

\* The cells of a message, a mark, zeros and a length, one behind the other.
LEMMA PadCells ==
  ASSUME NEW m \in Seq(Cells), NEW k \in Nat, NEW e \in Seq(Cells)
  PROVE  PadFacts(m, k, e, Append(m, 128) \o Zeros(k) \o e)
  <1> DEFINE a == Append(m, 128)
             b == Zeros(k)
             ab == a \o b
             t == ab \o e
  <1>1. /\ a \in Seq(Cells) /\ Len(a) = Len(m) + 1 /\ Len(m) \in Nat
        /\ \A i \in 1 .. Len(m) : a[i] = m[i]
        /\ a[Len(m) + 1] = 128
    BY SomeCells
  <1>2. b \in Seq(Cells) /\ Len(b) = k /\ \A i \in 1 .. k : b[i] = 0
    BY ZerosType
  <1> HIDE DEF a, b
  <1>3. /\ ab \in Seq(Cells) /\ Len(ab) = Len(a) + Len(b)
        /\ \A i \in 1 .. Len(a) : ab[i] = a[i]
        /\ \A i \in 1 .. Len(b) : ab[Len(a) + i] = b[i]
    BY <1>1, <1>2, Concatenated
  <1> HIDE DEF ab
  <1>4. /\ t \in Seq(Cells) /\ Len(t) = Len(ab) + Len(e)
        /\ \A i \in 1 .. Len(ab) : t[i] = ab[i]
        /\ \A i \in 1 .. Len(e) : t[Len(ab) + i] = e[i]
    <2>1. ab \in Seq(Cells)
      BY <1>3
    <2> QED
      BY <2>1, Concatenated
  <1> HIDE DEF t
  <1> DEFINE l == Len(m)
             h == Len(e)
  <1>5. l \in Nat /\ h \in Nat /\ Len(a) = l + 1 /\ Len(ab) = l + 1 + k
    BY <1>1, <1>2, <1>3
  <1>6. t \in Seq(Cells) /\ Len(t) = l + 1 + k + h
    BY <1>4, <1>5
  <1>7. \A i \in 1 .. l : t[i] = m[i]
    <2> SUFFICES ASSUME NEW i \in 1 .. l PROVE t[i] = m[i]
      OBVIOUS
    <2>1. i \in 1 .. Len(a) /\ i \in 1 .. Len(ab)
      BY <1>5
    <2> QED
      BY <1>1, <1>3, <1>4, <2>1
  <1>8. t[l + 1] = 128
    <2>1. l + 1 \in 1 .. Len(a) /\ l + 1 \in 1 .. Len(ab)
      BY <1>5
    <2>2. t[l + 1] = ab[l + 1] /\ ab[l + 1] = a[l + 1]
      BY <1>3, <1>4, <2>1
    <2> QED
      BY <1>1, <2>2
  <1>9. \A i \in 1 .. k : t[l + 1 + i] = 0
    <2> SUFFICES ASSUME NEW i \in 1 .. k PROVE t[l + 1 + i] = 0
      OBVIOUS
    <2>1. i \in 1 .. Len(b) /\ l + 1 + i \in 1 .. Len(ab) /\ Len(a) + i = l + 1 + i
      BY <1>2, <1>5
    <2>2. ab[Len(a) + i] = b[i] /\ t[l + 1 + i] = ab[l + 1 + i]
      BY <1>3, <1>4, <2>1
    <2> QED
      BY <1>2, <2>1, <2>2
  <1>10. \A i \in 1 .. h : t[l + 1 + k + i] = e[i]
    BY <1>4, <1>5
  <1> QED
    BY <1>6, <1>7, <1>8, <1>9, <1>10 DEF t, ab, a, b, PadFacts

\* How many cells it has.
LEMMA PadLength ==
  ASSUME NEW z \in Nat \ {0}, NEW tail \in 0 .. z - 1, NEW n \in Nat
  PROVE  LET used == (n + 1 + tail) % z
             zeros == IF used = 0 THEN 0 ELSE z - used
             q == n \div z
             r == n % z
         IN  /\ zeros \in Nat
             /\ r + 1 + tail <= z => n + 1 + zeros + tail = (q + 1) * z
             /\ r + 1 + tail > z => n + 1 + zeros + tail = (q + 1) * z + z
  <1> DEFINE used == (n + 1 + tail) % z
             zeros == IF used = 0 THEN 0 ELSE z - used
             q == n \div z
             r == n % z
             y == r + 1 + tail
             x == n + 1 + tail
  <1>1. n = q * z + r /\ q \in Nat /\ r \in Nat /\ r < z
    BY Division, Zenon
  <1> HIDE DEF q, r
  <1>2. q * z \in Nat /\ z \in Nat /\ (q + 1) * z = q * z + z /\ tail \in Nat /\ tail < z /\ ((q + 1) + 1) * z = (q * z + z) + z
    <2>1. z \in Nat /\ q * z \in Nat /\ (q + 1) * z = q * z + z
      BY <1>1, Products
    <2>2. q + 1 \in Nat
      BY <1>1
    <2> DEFINE p == q + 1
    <2>3. p \in Nat /\ p * z = q * z + z
      BY <2>1, <2>2
    <2> HIDE DEF p
    <2>4. (p + 1) * z = p * z + z
      BY <2>1, <2>3, Products
    <2> QED
      BY <2>1, <2>3, <2>4 DEF p
  <1>3. CASE y < z
    <2>1. Splits(x, q, z, y) /\ y \in 0 .. z - 1 /\ q \in Int
      BY <1>1, <1>2, <1>3 DEF Splits
    <2> DEFINE v == y
    <2>2. v \in 0 .. z - 1 /\ Splits(x, q, z, v)
      BY <2>1
    <2> HIDE DEF v, x
    <2>3. x % z = v
      BY <2>1, <2>2, QuotientOf
    <2>4. used = y
      BY <2>3 DEF v, x
    <2>5. used # 0
      BY <1>1, <1>2, <2>4
    <2> HIDE DEF used
    <2> QED
      BY <1>1, <1>2, <1>3, <2>4, <2>5 DEF used, q, r
  <1>4. CASE y = z
    <2> DEFINE p == q + 1
    <2>1. Splits(x, p, z, 0) /\ 0 \in 0 .. z - 1 /\ p \in Int
      BY <1>1, <1>2, <1>4 DEF Splits
    <2> HIDE DEF x, p
    <2>3. x % z = 0
      BY <2>1, QuotientOf
    <2>4. used = 0
      BY <2>3 DEF x
    <2> HIDE DEF used
    <2> QED
      BY <1>1, <1>2, <1>4, <2>4 DEF used, q, r
  <1>5. CASE y > z
    <2> DEFINE p == q + 1
               v == y - z
    <2>1. Splits(x, p, z, v) /\ v \in 0 .. z - 1 /\ p \in Int
      BY <1>1, <1>2, <1>5 DEF Splits
    <2>2. v # 0
      BY <1>1, <1>2, <1>5
    <2> HIDE DEF x, p, v
    <2>3. x % z = v
      BY <2>1, QuotientOf
    <2>4. used = y - z /\ used # 0
      BY <2>2, <2>3 DEF x, v
    <2> HIDE DEF used
    <2> QED
      BY <1>1, <1>2, <1>5, <2>4 DEF used, q, r
  <1>6. y \in Int
    BY <1>1
  <1> QED
    BY <1>2, <1>3, <1>4, <1>5, <1>6

\* A text that is a message of so many cells and its padding.
PadOf(P, z, length, e) ==
  /\ e \in Seq(Cells) /\ Len(e) = LengthSize
  /\ length < Len(P) /\ P[length + 1] = 128
  /\ \A i \in 1 .. Len(P) : i > length + 1 /\ i <= Len(P) - LengthSize => P[i] = 0
  /\ \A i \in 1 .. LengthSize : P[Len(P) - LengthSize + i] = e[i]

\* The mark goes behind the message.
LEMMA Marks ==
  ASSUME NEW z \in Nat \ {0}, NEW P \in Seq(Cells), NEW length \in Nat, NEW e, PadOf(P, z, length, e),
         NEW state, NEW buffer, Place(state, buffer, P, z, length)
  PROVE  Held(state, Put(buffer, length % z, <<128>>), P, z, length \div z, (length % z) + 1)
  <1> DEFINE q == length \div z
             r == length % z
             d == <<128>>
  <1>1. length = q * z + r /\ q \in Nat /\ r \in Nat /\ r < z
    BY Division, Zenon
  <1>2. d \in Seq(Cells) /\ Len(d) = 1 /\ d[1] = 128
    BY SomeCells
  <1>3. Held(state, buffer, P, z, q, r) /\ P[length + 1] = 128
    BY DEF Place, PadOf
  <1> HIDE DEF q, r, d
  <1> DEFINE n == 1
  <1>4. n \in Nat /\ n <= Len(d) /\ r + n <= z /\ n = 1
    BY <1>1, <1>2
  <1>5. \A i \in 1 .. n : d[i] = P[q * z + r + i]
    BY <1>1, <1>2, <1>3
  <1> HIDE DEF n
  <1>7. q \in Nat /\ r \in Nat /\ d \in Seq(Cells) /\ Held(state, buffer, P, z, q, r)
    BY <1>1, <1>2, <1>3
  <1>8. n \in Nat /\ n <= Len(d) /\ r + n <= z
    BY <1>4
  <1>6. Held(state, Put(buffer, r, d), P, z, q, r + n)
    BY <1>5, <1>7, <1>8, Filling
  <1> QED
    BY <1>4, <1>6 DEF q, r, d

\* Zeros go behind the mark, as many as there are before the length.
LEMMA MarksZeros ==
  ASSUME NEW z \in Nat \ {0}, NEW P \in Seq(Cells), NEW length \in Nat, NEW e, PadOf(P, z, length, e),
         NEW state, NEW buffer, NEW q \in Nat, NEW a \in Nat, Held(state, buffer, P, z, q, a),
         NEW k \in Nat, NEW n \in 0 .. k, a + n <= z, q * z + a >= length + 1,
         q * z + a + n <= Len(P) - LengthSize
  PROVE  Held(state, Put(buffer, a, Zeros(k)), P, z, q, a + n)
  <1> DEFINE d == Zeros(k)
             p == q * z
  <1>1. d \in Seq(Cells) /\ Len(d) = k /\ \A i \in 1 .. k : d[i] = 0
    BY ZerosType
  <1>2. p \in Nat /\ LengthSize \in Nat /\ Len(P) \in Nat
    BY SomeBlock, Products
  <1>3. p + a >= length + 1 /\ p + a + n <= Len(P) - LengthSize
    OBVIOUS
  <1>4. \A i \in 1 .. Len(P) : i > length + 1 /\ i <= Len(P) - LengthSize => P[i] = 0
    BY DEF PadOf
  <1> HIDE DEF d, p
  <1>5. ASSUME NEW i \in 1 .. n PROVE d[i] = P[p + a + i]
    <2> DEFINE j == p + a + i
    <2>1. j \in 1 .. Len(P) /\ j > length + 1 /\ j <= Len(P) - LengthSize /\ i \in 1 .. k
      BY <1>2, <1>3
    <2> HIDE DEF j
    <2>2. P[j] = 0 /\ d[i] = 0
      BY <1>1, <1>4, <2>1
    <2> QED
      BY <2>2 DEF j
  <1>6. n \in Nat /\ n <= Len(d)
    BY <1>1
  <1>7. \A i \in 1 .. n : d[i] = P[q * z + a + i]
    BY <1>5 DEF p
  <1>8. Held(state, Put(buffer, a, d), P, z, q, a + n)
    BY <1>1, <1>6, <1>7, Filling
  <1> QED
    BY <1>8 DEF d

\* The length fills the last block.
LEMMA Ends ==
  ASSUME NEW z \in Nat \ {0}, LengthSize < z, NEW P \in Seq(Cells), NEW length \in Nat, NEW e,
         PadOf(P, z, length, e), NEW state, NEW buffer, NEW q \in Nat, Exactly(P, q + 1, z),
         Held(state, buffer, P, z, q, z - LengthSize)
  PROVE  LET last == Put(buffer, z - LengthSize, e)
         IN  Compress(state, last, z) = Blocks(P, z) /\ last \in Buffers(z)
  <1> DEFINE a == z - LengthSize
             last == Put(buffer, a, e)
             p == q * z
  <1>1. /\ LengthSize \in Nat /\ a \in Nat /\ p \in Nat /\ Len(P) \in Nat
        /\ Len(P) = p + z /\ a + LengthSize = z /\ Len(P) = (q + 1) * z
    <2>1. Len(P) = (q + 1) * z
      BY DEF Exactly
    <2>2. (q + 1) * z = p + z /\ p \in Nat
      BY Products
    <2> QED
      BY <2>1, <2>2, SomeBlock
  <1>2. e \in Seq(Cells) /\ Len(e) = LengthSize
        /\ \A i \in 1 .. LengthSize : P[Len(P) - LengthSize + i] = e[i]
    BY DEF PadOf
  <1>3. Held(state, buffer, P, z, q, a)
    OBVIOUS
  <1> HIDE DEF a, p
  <1>4. ASSUME NEW i \in 1 .. LengthSize PROVE e[i] = P[p + a + i]
    <2>1. Len(P) - LengthSize + i = p + a + i
      BY <1>1
    <2> QED
      BY <1>2, <2>1
  <1>5. LengthSize <= Len(e) /\ a + LengthSize <= z
    BY <1>1, <1>2
  <1>6. \A i \in 1 .. LengthSize : e[i] = P[q * z + a + i]
    BY <1>4 DEF p
  <1>7. Held(state, last, P, z, q, a + LengthSize)
    BY <1>1, <1>2, <1>3, <1>5, <1>6, Filling
  <1> HIDE DEF last
  <1>8. Held(state, last, P, z, q, z) /\ q * z + z <= Len(P)
    BY <1>1, <1>7 DEF p
  <1>9. Compress(state, last, z) = First(P, z, q + 1)
    BY <1>8, Flushed
  <1>10. First(P, z, q + 1) = Blocks(P, z)
    <2> DEFINE y == q + 1
    <2>1. y \in Int /\ 0 \in 0 .. z - 1 /\ Splits(Len(P), y, z, 0)
      BY <1>1 DEF Splits
    <2> HIDE DEF y
    <2>2. Len(P) \div z = y
      BY <2>1, QuotientOf
    <2> QED
      BY <2>2 DEF y, First, Blocks
  <1>11. last \in Buffers(z)
    BY <1>8 DEF Held
  <1> QED
    BY <1>9, <1>10, <1>11 DEF last, a

\* The padding fits behind the message.
FitsHere(P, z, length, k) ==
  /\ (length % z) + 1 <= z - LengthSize /\ Exactly(P, (length \div z) + 1, z)
  /\ k >= (z - LengthSize) - ((length % z) + 1)

EndedHere(P, z, state, buffer, r, k, e) ==
  LET marked == Put(buffer, r, <<128>>)
      padded == Put(marked, r + 1, Zeros(k))
      last == Put(padded, z - LengthSize, e)
  IN  Compress(state, last, z) = Blocks(P, z) /\ last \in Buffers(z)

\* With the mark, as many zeros as there is room for, and the length, it ends.
LEMMA EndsHere ==
  ASSUME NEW z \in Nat \ {0}, LengthSize < z, NEW P \in Seq(Cells), NEW length \in Nat, NEW e,
         PadOf(P, z, length, e), NEW state, NEW buffer, Place(state, buffer, P, z, length),
         NEW k \in Nat, FitsHere(P, z, length, k)
  PROVE  EndedHere(P, z, state, buffer, length % z, k, e)
  <1> DEFINE q == length \div z
             r == length % z
             marked == Put(buffer, r, <<128>>)
             a == r + 1
             padded == Put(marked, a, Zeros(k))
             n == (z - LengthSize) - a
             last == Put(padded, z - LengthSize, e)
  <1>1. length = q * z + r /\ q \in Nat /\ r \in Nat /\ r < z
    BY Division, Zenon
  <1>2. Held(state, marked, P, z, q, a)
    BY Marks
  <1>3. r + 1 <= z - LengthSize /\ Exactly(P, q + 1, z) /\ k >= (z - LengthSize) - (r + 1)
    BY DEF FitsHere
  <1> HIDE DEF q, r, marked
  <1>4. LengthSize \in Nat /\ z \in Nat /\ q * z \in Nat /\ Len(P) = q * z + z
    <2>1. Len(P) = (q + 1) * z
      BY <1>3 DEF Exactly
    <2>2. (q + 1) * z = q * z + z /\ q * z \in Nat
      BY <1>1, Products
    <2> QED
      BY <2>1, <2>2, SomeBlock
  <1>5. a \in Nat /\ n \in 0 .. k /\ a + n = z - LengthSize /\ a + n <= z
    BY <1>1, <1>3, <1>4
  <1> DEFINE p == q * z
  <1>6. q * z + a >= length + 1 /\ q * z + a + n <= Len(P) - LengthSize
    <2>1. p \in Nat /\ length = p + r /\ Len(P) = p + z /\ a = r + 1
      BY <1>1, <1>4
    <2> HIDE DEF p, n, a
    <2>2. p + a >= length + 1 /\ p + a + n <= Len(P) - LengthSize
      BY <1>1, <1>4, <1>5, <2>1
    <2> QED
      BY <2>2 DEF p
  <1> HIDE DEF n, a
  <1>7. Held(state, padded, P, z, q, a + n)
    BY <1>1, <1>2, <1>5, <1>6, MarksZeros
  <1> HIDE DEF padded
  <1>8. Held(state, padded, P, z, q, z - LengthSize)
    BY <1>5, <1>7
  <1>9. Compress(state, last, z) = Blocks(P, z) /\ last \in Buffers(z)
    BY <1>1, <1>3, <1>8, Ends
  <1> QED
    BY <1>9 DEF last, padded, marked, a, r, EndedHere

\* The padding goes on in a block of its own.
EndedNext(P, z, state, buffer, r, base, e) ==
  LET marked == Put(buffer, r, <<128>>)
      full == Put(marked, r + 1, Zeros(z - (r + 1)))
      last == Put(Put(base, 0, Zeros(z - LengthSize)), z - LengthSize, e)
  IN  Compress(Compress(state, full, z), last, z) = Blocks(P, z) /\ last \in Buffers(z)

\* The block with the mark is compressed first.
LEMMA EndsNext ==
  ASSUME NEW z \in Nat \ {0}, LengthSize < z, NEW P \in Seq(Cells), NEW length \in Nat, NEW e,
         PadOf(P, z, length, e), NEW state, NEW buffer, Place(state, buffer, P, z, length),
         Exactly(P, ((length \div z) + 1) + 1, z), NEW base \in Buffers(z)
  PROVE  EndedNext(P, z, state, buffer, length % z, base, e)
  <1> DEFINE q == length \div z
             r == length % z
             marked == Put(buffer, r, <<128>>)
             a == r + 1
             k == z - a
             full == Put(marked, a, Zeros(k))
             state1 == Compress(state, full, z)
             l == z - LengthSize
             padded == Put(base, 0, Zeros(l))
             last == Put(padded, z - LengthSize, e)
             q1 == q + 1
  <1>1. length = q * z + r /\ q \in Nat /\ r \in Nat /\ r < z
    BY Division, Zenon
  <1>2. Held(state, marked, P, z, q, a)
    BY Marks
  <1>3. Exactly(P, q1 + 1, z)
    OBVIOUS
  <1> HIDE DEF q, r, marked
  <1>4. /\ LengthSize \in Nat /\ z \in Nat /\ q * z \in Nat /\ q1 \in Nat /\ q1 * z = q * z + z
        /\ Len(P) = (q * z + z) + z
    <2>1. Len(P) = (q1 + 1) * z
      BY <1>3 DEF Exactly
    <2>2. q1 * z = q * z + z /\ q * z \in Nat /\ q1 \in Nat
      BY <1>1, Products
    <2> HIDE DEF q1
    <2>3. (q1 + 1) * z = q1 * z + z
      BY <2>2, Products
    <2> QED
      BY <2>1, <2>2, <2>3, SomeBlock
  <1> DEFINE p == q * z
  <1>5. /\ p \in Nat /\ length = p + r /\ q1 * z = p + z /\ Len(P) = (p + z) + z
        /\ a \in Nat /\ k \in Nat /\ k \in 0 .. k /\ a + k = z /\ a + k <= z /\ a = r + 1
        /\ l \in Nat /\ l \in 0 .. l /\ 0 + l = l /\ 0 + l <= z /\ l = z - LengthSize
    BY <1>1, <1>4
  <1> HIDE DEF p, k, a, q1, l
  <1>6. q * z + a >= length + 1 /\ q * z + a + k <= Len(P) - LengthSize
    <2>1. p + a >= length + 1 /\ p + a + k <= Len(P) - LengthSize
      BY <1>1, <1>4, <1>5
    <2> QED
      BY <2>1 DEF p
  <1>7. q1 * z + 0 >= length + 1 /\ q1 * z + 0 + l <= Len(P) - LengthSize
    BY <1>1, <1>4, <1>5
  <1>8. Held(state, full, P, z, q, z)
    <2>1. Held(state, full, P, z, q, a + k)
      BY <1>1, <1>2, <1>5, <1>6, MarksZeros
    <2> QED
      BY <1>5, <2>1
  <1> HIDE DEF full
  <1>9. Held(state1, full, P, z, q1, 0)
    <2>1. q * z + z <= Len(P)
      BY <1>4
    <2>2. Held(Compress(state, full, z), full, P, z, q + 1, 0)
      BY <1>1, <1>8, <2>1, Flushed
    <2> QED
      BY <2>2 DEF q1
  <1> HIDE DEF state1
  <1>10. Held(state1, base, P, z, q1, 0)
    BY <1>9 DEF Held
  <1>11. Held(state1, padded, P, z, q1, 0 + l)
    <2>1. 0 \in Nat
      OBVIOUS
    <2> QED
      BY <1>4, <1>5, <1>7, <1>10, <2>1, MarksZeros
  <1> HIDE DEF padded
  <1>12. Held(state1, padded, P, z, q1, z - LengthSize)
    BY <1>5, <1>11
  <1>13. Compress(state1, last, z) = Blocks(P, z) /\ last \in Buffers(z)
    BY <1>3, <1>4, <1>12, Ends
  <1> QED
    BY <1>13 DEF last, padded, l, state1, full, k, a, marked, r, EndedNext

\* What a block has room for.
LEMMA Sizes ==
  ASSUME NEW alg \in Algorithms
  PROVE  /\ BlockSize(alg) \in Nat \ {0} /\ LengthSize < BlockSize(alg) /\ LengthSize \in Nat
         /\ Tail512(alg) \in 0 .. BlockSize(alg) - 1 /\ LengthSize <= Tail512(alg)
         /\ alg = "MD5" => BlockSize(alg) = Block /\ Tail512(alg) = LengthSize
  BY SomeBlock DEF Algorithms, BlockSize, Tail512

\* The text of a message is the message and its padding, whole blocks long.
LEMMA PadIsPad ==
  ASSUME NEW alg \in Algorithms, NEW m \in Seq(Cells)
  PROVE  LET z == BlockSize(alg)
             tail == Tail512(alg)
             P == PaddedText(alg, m)
             length == Len(m)
             q == length \div z
             r == length % z
         IN  /\ P \in Seq(Cells) /\ PadOf(P, z, length, Ending(alg, length))
             /\ Continues(m, P, 0)
             /\ r + 1 + tail <= z => Exactly(P, q + 1, z)
             /\ r + 1 + tail > z => Exactly(P, (q + 1) + 1, z)
  <1> DEFINE z == BlockSize(alg)
             tail == Tail512(alg)
             P == PaddedText(alg, m)
             l == Len(m)
             q == l \div z
             r == l % z
             e == Ending(alg, l)
             h == Padding(alg, l)
             k == h + tail - LengthSize
  <1>1. z \in Nat \ {0} /\ LengthSize < z /\ LengthSize \in Nat /\ tail \in 0 .. z - 1 /\ LengthSize <= tail
    BY Sizes
  <1>2. l \in Nat
    OBVIOUS
  <1>3. e \in Seq(Cells) /\ Len(e) = LengthSize
    <2> HIDE DEF l
    <2> QED
      BY <1>2, EndingType
  <1>4. /\ h \in Nat
        /\ r + 1 + tail <= z => l + 1 + h + tail = (q + 1) * z
        /\ r + 1 + tail > z => l + 1 + h + tail = (q + 1) * z + z
    <2>1. h = LET used == (l + 1 + tail) % z IN IF used = 0 THEN 0 ELSE z - used
      BY DEF Padding
    <2> HIDE DEF z, tail, l, h
    <2>2. LET used == (l + 1 + tail) % z
              zeros == IF used = 0 THEN 0 ELSE z - used
              q2 == l \div z
              r2 == l % z
          IN  /\ zeros \in Nat
              /\ r2 + 1 + tail <= z => l + 1 + zeros + tail = (q2 + 1) * z
              /\ r2 + 1 + tail > z => l + 1 + zeros + tail = (q2 + 1) * z + z
      BY <1>1, <1>2, PadLength
    <2> QED
      BY <2>1, <2>2, Zenon
  <1>5. P = Append(m, 128) \o Zeros(k) \o e
    BY DEF PaddedText
  <1>6. k \in Nat /\ k + LengthSize = h + tail
    <2> HIDE DEF h, tail
    <2> QED
      BY <1>1, <1>4
  <1> HIDE DEF P, k, e, h
  <1>7. /\ P \in Seq(Cells) /\ Len(P) = l + 1 + k + LengthSize
        /\ \A i \in 1 .. l : P[i] = m[i]
        /\ P[l + 1] = 128
        /\ \A i \in 1 .. k : P[l + 1 + i] = 0
        /\ \A i \in 1 .. LengthSize : P[l + 1 + k + i] = e[i]
    <2> DEFINE t == Append(m, 128) \o Zeros(k) \o e
    <2>1. PadFacts(m, k, e, t)
      BY <1>3, <1>6, PadCells
    <2>3. P = t
      BY <1>5
    <2> HIDE DEF t
    <2> QED
      BY <1>3, <2>1, <2>3 DEF PadFacts
  <1> HIDE DEF l, z, tail
  <1>8. Continues(m, P, 0)
    <2>1. \A i \in 1 .. Len(m) : m[i] = P[0 + i]
      BY <1>7 DEF l
    <2> QED
      BY <2>1 DEF Continues
  <1>9. PadOf(P, z, l, e)
    <2>1. l < Len(P)
      BY <1>1, <1>2, <1>6, <1>7
    <2>2. ASSUME NEW i \in 1 .. Len(P), i > l + 1, i <= Len(P) - LengthSize PROVE P[i] = 0
      <3> DEFINE j == i - (l + 1)
      <3>1. j \in 1 .. k /\ l + 1 + j = i
        BY <1>1, <1>2, <1>6, <1>7, <2>2
      <3> HIDE DEF j
      <3>2. P[l + 1 + j] = 0
        BY <1>7, <3>1
      <3> QED
        BY <3>1, <3>2
    <2>3. ASSUME NEW i \in 1 .. LengthSize PROVE P[Len(P) - LengthSize + i] = e[i]
      <3>1. Len(P) - LengthSize + i = l + 1 + k + i
        BY <1>1, <1>2, <1>6, <1>7
      <3> QED
        BY <1>7, <3>1
    <2> QED
      BY <1>3, <1>7, <2>1, <2>2, <2>3 DEF PadOf
  <1> HIDE DEF q, r
  <1>10. Len(P) = l + 1 + h + tail
    <2>1. tail \in Int /\ h \in Int
      BY <1>1, <1>4
    <2> QED
      BY <1>1, <1>2, <1>6, <1>7, <2>1
  <1>11. r + 1 + tail <= z => Exactly(P, q + 1, z)
    BY <1>4, <1>10 DEF Exactly
  <1>12. r + 1 + tail > z => Exactly(P, (q + 1) + 1, z)
    <2>1. l \div z \in Nat /\ z \in Nat
      BY <1>1, <1>2, Division, Zenon
    <2>2. q + 1 \in Nat /\ z \in Nat
      BY <2>1 DEF q
    <2> DEFINE y == q + 1
    <2> HIDE DEF y
    <2>3. y \in Nat
      BY <2>2 DEF y
    <2>4. (y + 1) * z = y * z + z
      BY <2>2, <2>3, Products
    <2>5. ((q + 1) + 1) * z = (q + 1) * z + z
      BY <2>4 DEF y
    <2> QED
      BY <1>4, <1>10, <2>5 DEF Exactly
  <1> QED
    BY <1>7, <1>8, <1>9, <1>11, <1>12 DEF q, r, P, z, tail, l, e

\* The blocks of a text are a sequence of blocks.
LEMMA BlocksType ==
  ASSUME NEW z \in Nat \ {0}, NEW P \in Seq(Cells)
  PROVE  Blocks(P, z) \in Seq(Seq(Cells))
  <1> DEFINE q == Len(P) \div z
             l == Len(P)
             r == l % z
  <1>1. l \in Nat
    OBVIOUS
  <1>2. l = q * z + r /\ q \in Nat /\ r \in Nat
    <2> HIDE DEF l
    <2>1. l = (l \div z) * z + (l % z) /\ l \div z \in Nat /\ l % z \in Nat
      BY <1>1, Division, Zenon
    <2> QED
      BY <2>1 DEF l
  <1>3. q * z <= Len(P)
    <2>1. q * z \in Nat
      BY <1>2, Products
    <2> HIDE DEF q, r
    <2> QED
      BY <1>1, <1>2, <2>1
  <1>4. Blocks(P, z) = First(P, z, q)
    BY DEF Blocks, First
  <1> HIDE DEF q
  <1>5. First(P, z, q) \in Seq(Seq(Cells))
    BY <1>2, <1>3, FirstText
  <1> QED
    BY <1>4, <1>5

\* The digest of MD5.
LEMMA Md5Digests ==
  ASSUME NEW m \in Seq(Cells), NEW ctx, Md5Holds(ctx, PaddedText("MD5", m), Len(m))
  PROVE  Md5Digest(ctx).state = Standard("MD5", m) /\ Md5Digest(ctx) \in Hashes("MD5", Block)
  <1> DEFINE alg == "MD5"
             P == PaddedText(alg, m)
             z == Block
             n == Len(m)
             q == n \div z
             r == n % z
             e == Ending(alg, n)
             bits == (ctx.hi * LoLimit + ctx.lo) * 8
             used == (ctx.lo % z) + 1
             marked == Put(ctx.buffer, used - 1, <<128>>)
             free == z - used
             full == free < LengthSize
             filled == Put(marked, used, Zeros(free))
             state == IF full THEN Compress(ctx.state, filled, z) ELSE ctx.state
             padded == IF full THEN Put(marked, 0, Zeros(z - LengthSize))
                       ELSE Put(marked, used, Zeros(free - LengthSize))
             last == Put(padded, z - LengthSize, Reverse(LengthCells(bits)))
             new == Md5Digest(ctx)
  <1>1. alg \in Algorithms
    BY DEF Algorithms
  <1>2. z \in Nat \ {0} /\ z \in Nat /\ LengthSize < z /\ LengthSize \in Nat
          /\ BlockSize(alg) = z /\ Tail512(alg) = LengthSize
    BY SomeBlock DEF BlockSize, Tail512
  <1>3. /\ P \in Seq(Cells) /\ PadOf(P, z, n, e)
        /\ r + 1 + LengthSize <= z => Exactly(P, q + 1, z)
        /\ r + 1 + LengthSize > z => Exactly(P, (q + 1) + 1, z)
    <2> HIDE DEF alg
    <2>1. LET zz == BlockSize(alg)
              tail == Tail512(alg)
              PP == PaddedText(alg, m)
              length == Len(m)
              qq == length \div zz
              rr == length % zz
          IN  /\ PP \in Seq(Cells) /\ PadOf(PP, zz, length, Ending(alg, length))
              /\ Continues(m, PP, 0)
              /\ rr + 1 + tail <= zz => Exactly(PP, qq + 1, zz)
              /\ rr + 1 + tail > zz => Exactly(PP, (qq + 1) + 1, zz)
      BY <1>1, PadIsPad
    <2> QED
      BY <1>2, <2>1
  <1>4. ctx \in Hashes("MD5", z) /\ Place(ctx.state, ctx.buffer, P, z, n)
    BY DEF Md5Holds
  <1>5. ctx.lo \in Nat /\ ctx.hi \in Nat /\ ctx.buffer \in Buffers(z) /\ ctx.hi * LoLimit + ctx.lo = n
    BY <1>4, HashFields DEF Md5Holds
  <1>6. n \in Nat
    OBVIOUS
  <1>7. r \in Nat /\ r < z /\ q \in Nat
    <2> HIDE DEF n
    <2> QED
      BY <1>2, <1>6, Division, Zenon
  <1>8. used = r + 1 /\ used - 1 = r /\ free = z - (r + 1)
    <2>1. ctx.lo % z = (ctx.hi * LoLimit + ctx.lo) % z
      BY <1>5, Md5Used
    <2>2. ctx.lo % z = r
      BY <1>5, <2>1
    <2> HIDE DEF r
    <2> QED
      BY <1>2, <1>7, <2>2
  <1>9. e = Reverse(LengthCells(bits))
    <2>1. bits = 8 * n
      <3> HIDE DEF n
      <3> QED
        BY <1>5, <1>6
    <2> HIDE DEF bits, n
    <2> QED
      BY <2>1 DEF Ending
  <1>10. new = [ctx EXCEPT !.buffer = last, !.lo = @ * 8, !.state = Compress(state, last, z)]
    BY Zenon DEF Md5Digest
  <1> HIDE DEF P, new, bits, e
  <1>11. Compress(state, last, z) = Blocks(P, z) /\ last \in Buffers(z)
    <2>1. CASE ~ full
      <3> DEFINE k == free - LengthSize
      <3> HIDE DEF r, q, used
      <3>1. r + 1 + LengthSize <= z /\ r + 1 <= z - LengthSize
        BY <1>2, <1>7, <1>8, <2>1
      <3>2. k \in Nat /\ k >= (z - LengthSize) - (r + 1)
        BY <1>2, <1>7, <1>8, <2>1
      <3> HIDE DEF k
      <3>3. Exactly(P, q + 1, z)
        BY <1>3, <3>1
      <3>6. FitsHere(P, z, n, k)
        BY <3>1, <3>2, <3>3 DEF FitsHere, r, q
      <3>4. EndedHere(P, z, ctx.state, ctx.buffer, r, k, e)
        <4>1. EndedHere(P, z, ctx.state, ctx.buffer, n % z, k, e)
          BY <1>2, <1>3, <1>4, <1>6, <3>2, <3>6, EndsHere
        <4> QED
          BY <4>1 DEF r
      <3>5. state = ctx.state /\ padded = Put(marked, used, Zeros(k))
        BY <2>1 DEF k
      <3> QED
        BY <1>8, <1>9, <3>4, <3>5 DEF EndedHere
    <2>2. CASE full
      <3> HIDE DEF r, q, used
      <3>1. r + 1 + LengthSize > z
        BY <1>2, <1>7, <1>8, <2>2
      <3>2. Exactly(P, (q + 1) + 1, z)
        BY <1>3, <3>1
      <3>3. marked \in Buffers(z)
        <4> DEFINE d == <<128>>
        <4>1. d \in Seq(Cells)
          BY SomeCells
        <4> HIDE DEF d
        <4>2. Put(ctx.buffer, r, d) \in Buffers(z)
          BY <1>2, <1>5, <1>7, <4>1, PutType
        <4> QED
          BY <1>8, <4>2 DEF d
      <3> HIDE DEF marked
      <3>7. Exactly(P, ((n \div z) + 1) + 1, z)
        BY <3>2 DEF q
      <3>4. EndedNext(P, z, ctx.state, ctx.buffer, r, marked, e)
        <4>1. EndedNext(P, z, ctx.state, ctx.buffer, n % z, marked, e)
          BY <1>2, <1>3, <1>4, <1>6, <3>3, <3>7, EndsNext
        <4> QED
          BY <4>1 DEF r
      <3>5. filled = Put(Put(ctx.buffer, r, <<128>>), r + 1, Zeros(z - (r + 1)))
        BY <1>8 DEF marked
      <3>6. state = Compress(ctx.state, filled, z) /\ padded = Put(marked, 0, Zeros(z - LengthSize))
        BY <2>2
      <3> HIDE DEF filled, full
      <3> QED
        BY <1>9, <3>4, <3>5, <3>6 DEF EndedNext
    <2> QED
      BY <2>1, <2>2
  <1>12. Blocks(P, z) = Standard("MD5", m) /\ Blocks(P, z) \in Seq(Seq(Cells))
    <2>1. Blocks(P, z) \in Seq(Seq(Cells))
      BY <1>2, <1>3, BlocksType
    <2> QED
      BY <1>2, <2>1, StandardIs DEF P
  <1> DEFINE end == Compress(state, last, z)
  <1>13. end = Standard("MD5", m) /\ end \in Seq(Seq(Cells))
    BY <1>11, <1>12
  <1> HIDE DEF last, end, state
  <1>14. new.state = end
    BY <1>4, <1>10 DEF Hashes, end
  <1>15. new \in Hashes("MD5", z)
    <2> DEFINE lo == ctx.lo * 8
    <2>1. lo \in Nat
      BY <1>5
    <2>2. new = [ctx EXCEPT !.buffer = last, !.lo = lo, !.state = end]
      BY <1>4, <1>10 DEF Hashes, end
    <2> HIDE DEF lo, new
    <2> QED
      BY <1>4, <1>11, <1>13, <2>1, <2>2 DEF Hashes
  <1> QED
    BY <1>13, <1>14, <1>15 DEF new

\* The digests of SHA-256 and SHA-512.
LEMMA ShaDigests ==
  ASSUME NEW alg \in Algorithms, alg # "MD5", NEW m \in Seq(Cells), NEW ctx,
         ShaHolds(ctx, alg, BlockSize(alg), PaddedText(alg, m), Len(m))
  PROVE  LET new == ShaDigest(ctx, BlockSize(alg), Tail512(alg))
         IN  new.state = Standard(alg, m) /\ new \in Hashes(alg, BlockSize(alg))
  <1> DEFINE P == PaddedText(alg, m)
             z == BlockSize(alg)
             tail == Tail512(alg)
             n == Len(m)
             q == n \div z
             r == n % z
             e == Ending(alg, n)
             bits == ctx.length + ctx.curlen * 8
             marked == Put(ctx.buffer, ctx.curlen, <<128>>)
             full == ctx.curlen + 1 > z - tail
             k == z - ctx.curlen - 1
             zeroed == Put(marked, ctx.curlen + 1, Zeros(k))
             padded == IF full THEN Put(zeroed, 0, Zeros(z - LengthSize)) ELSE zeroed
             last == Put(padded, z - LengthSize, LengthCells(bits))
             state == IF full THEN Compress(ctx.state, zeroed, z) ELSE ctx.state
             new == ShaDigest(ctx, z, tail)
  <1>1. z \in Nat \ {0} /\ z \in Nat /\ LengthSize < z /\ LengthSize \in Nat
          /\ tail \in 0 .. z - 1 /\ LengthSize <= tail
    BY Sizes
  <1>2. /\ P \in Seq(Cells) /\ PadOf(P, z, n, e)
        /\ r + 1 + tail <= z => Exactly(P, q + 1, z)
        /\ r + 1 + tail > z => Exactly(P, (q + 1) + 1, z)
    BY PadIsPad
  <1>3. ctx \in Hashes(alg, z) /\ Place(ctx.state, ctx.buffer, P, z, n)
          /\ ctx.curlen = r /\ ctx.length = (q * z) * 8
    BY DEF ShaHolds
  <1>4. ctx.buffer \in Buffers(z)
    <2> HIDE DEF z
    <2> QED
      BY <1>3, HashFields
  <1>5. n \in Nat
    OBVIOUS
  <1>6. r \in Nat /\ r < z /\ q \in Nat /\ n = q * z + r
    <2> HIDE DEF n, z
    <2> QED
      BY <1>1, <1>5, Division, Zenon
  <1>7. ~ (ctx.curlen >= z)
    <2> HIDE DEF r, z
    <2> QED
      BY <1>1, <1>3, <1>6
  <1>8. e = LengthCells(bits) /\ bits \in Nat
    <2> DEFINE p == q * z
    <2>1. p \in Nat
      <3> HIDE DEF q, z
      <3> QED
        BY <1>1, <1>6, Products
    <2>2. bits = p * 8 + r * 8 /\ n = p + r
      BY <1>3, <1>6
    <2> HIDE DEF p, n, r, bits, z
    <2>3. bits = 8 * n /\ bits \in Nat
      BY <1>6, <2>1, <2>2
    <2> QED
      BY <2>3 DEF Ending
  <1>9. new = [ctx EXCEPT !.length = bits, !.curlen = z - LengthSize, !.buffer = last,
                          !.state = Compress(IF full THEN Compress(@, zeroed, z) ELSE @, last, z)]
    BY <1>7, Zenon DEF ShaDigest
  <1> HIDE DEF P, new, bits, e, tail
  <1>10. k \in Nat /\ k = z - (r + 1) /\ ctx.curlen + 1 = r + 1
    <2> HIDE DEF r, z
    <2> QED
      BY <1>1, <1>3, <1>6
  <1>11. zeroed \in Buffers(z)
    <2> DEFINE d == <<128>>
    <2>1. d \in Seq(Cells)
      BY SomeCells
    <2> HIDE DEF d, z, r, k
    <2>2. Put(ctx.buffer, r, d) \in Buffers(z)
      BY <1>1, <1>4, <1>6, <2>1, PutType
    <2>3. marked \in Buffers(z)
      BY <1>3, <2>2 DEF d
    <2> HIDE DEF marked
    <2>4. Zeros(k) \in Seq(Cells)
      BY <1>10, ZerosType
    <2> DEFINE a == ctx.curlen + 1
    <2>5. a \in Nat
      BY <1>3, <1>6
    <2> HIDE DEF a
    <2>6. Put(marked, a, Zeros(k)) \in Buffers(z)
      BY <1>1, <2>3, <2>4, <2>5, PutType
    <2> QED
      BY <2>6 DEF a
  <1>12. Compress(state, last, z) = Blocks(P, z) /\ last \in Buffers(z)
    <2> HIDE DEF k
    <2>1. CASE ~ full
      <3> HIDE DEF r, q, z, marked
      <3>1. r + 1 + tail <= z /\ r + 1 <= z - LengthSize
        BY <1>1, <1>3, <1>6, <2>1
      <3>2. k >= (z - LengthSize) - (r + 1)
        BY <1>1, <1>6, <1>10
      <3>3. Exactly(P, q + 1, z)
        BY <1>2, <3>1
      <3>4. FitsHere(P, z, n, k)
        BY <3>1, <3>2, <3>3 DEF FitsHere, r, q
      <3>5. EndedHere(P, z, ctx.state, ctx.buffer, r, k, e)
        <4>1. EndedHere(P, z, ctx.state, ctx.buffer, n % z, k, e)
          BY <1>1, <1>2, <1>3, <1>5, <1>10, <3>4, EndsHere
        <4> QED
          BY <4>1 DEF r
      <3>6. state = ctx.state /\ padded = zeroed
        BY <2>1
      <3>7. zeroed = Put(Put(ctx.buffer, r, <<128>>), r + 1, Zeros(k))
        BY <1>3, <1>10 DEF marked
      <3> HIDE DEF zeroed, full
      <3> QED
        BY <1>8, <3>5, <3>6, <3>7 DEF EndedHere
    <2>2. CASE full
      <3> HIDE DEF r, q, z, marked
      <3>1. r + 1 + tail > z
        BY <1>1, <1>3, <1>6, <2>2
      <3>2. Exactly(P, (q + 1) + 1, z)
        BY <1>2, <3>1
      <3>3. Exactly(P, ((n \div z) + 1) + 1, z)
        BY <3>2 DEF q
      <3>7. zeroed = Put(Put(ctx.buffer, r, <<128>>), r + 1, Zeros(z - (r + 1)))
        BY <1>3, <1>10 DEF marked
      <3> HIDE DEF zeroed
      <3>5. EndedNext(P, z, ctx.state, ctx.buffer, r, zeroed, e)
        <4>1. EndedNext(P, z, ctx.state, ctx.buffer, n % z, zeroed, e)
          BY <1>1, <1>2, <1>3, <1>5, <1>11, <3>3, EndsNext
        <4> QED
          BY <4>1 DEF r
      <3>6. state = Compress(ctx.state, zeroed, z) /\ padded = Put(zeroed, 0, Zeros(z - LengthSize))
        BY <2>2
      <3> HIDE DEF full
      <3> QED
        BY <1>8, <3>5, <3>6, <3>7 DEF EndedNext
    <2> QED
      BY <2>1, <2>2
  <1>13. Blocks(P, z) = Standard(alg, m) /\ Blocks(P, z) \in Seq(Seq(Cells))
    <2>1. Blocks(P, z) \in Seq(Seq(Cells))
      BY <1>1, <1>2, BlocksType
    <2> QED
      BY <2>1, StandardIs DEF P
  <1> DEFINE end == Compress(state, last, z)
             curlen == z - LengthSize
  <1>14. end = Standard(alg, m) /\ end \in Seq(Seq(Cells))
    BY <1>12, <1>13
  <1>15. curlen \in Nat
    BY <1>1
  <1>16. new = [ctx EXCEPT !.length = bits, !.curlen = curlen, !.buffer = last, !.state = end]
    BY <1>3, <1>9 DEF Hashes
  <1> HIDE DEF last, end, state, curlen
  <1>17. new.state = end /\ new \in Hashes(alg, z)
    BY <1>3, <1>8, <1>12, <1>14, <1>15, <1>16 DEF Hashes
  <1> QED
    BY <1>14, <1>17 DEF new, tail

\* A context that has taken the first n cells of a text, for every algorithm.
Takes(ctx, alg, M, n) ==
  IF alg = "MD5" THEN Md5Holds(ctx, M, n) ELSE ShaHolds(ctx, alg, BlockSize(alg), M, n)

\* A context that was reset has taken nothing, whatever it was used for.
LEMMA ResetTakes ==
  ASSUME NEW alg \in Algorithms, NEW ctx \in Hashes(alg, BlockSize(alg)), NEW M
  PROVE  Takes(HashReset(ctx), alg, M, 0)
  <1> DEFINE z == BlockSize(alg)
  <1>1. z \in Nat \ {0} /\ (alg = "MD5" => z = Block) /\ LoLimit \in Nat \ {0}
    BY Sizes, SomeBlock
  <1>2. ctx \in Hashes(alg, z)
    OBVIOUS
  <1> HIDE DEF z
  <1>3. 0 \div z = 0 /\ 0 % z = 0
    <2> DEFINE zero == 0
    <2>1. Splits(zero, zero, z, zero) /\ zero \in Int /\ zero \in 0 .. z - 1
      BY <1>1 DEF Splits
    <2> HIDE DEF zero
    <2>2. zero \div z = zero /\ zero % z = zero
      BY <1>1, <2>1, QuotientOf
    <2> QED
      BY <2>2 DEF zero
  <1>4. << >> \in Seq(Seq(Cells)) /\ << >> = First(M, z, 0)
    BY DEF First
  <1>5. ctx.algorithm = alg /\ ctx.buffer \in Buffers(z)
    BY <1>2, HashFields
  <1>6. ASSUME NEW c \in Hashes(alg, z), c.state = << >>, c.buffer = ctx.buffer
        PROVE  Place(c.state, c.buffer, M, z, 0)
    BY <1>3, <1>4, <1>5, <1>6 DEF Place, Held
  <1>7. CASE alg = "MD5"
    <2> DEFINE c == [ctx EXCEPT !.state = << >>, !.lo = 0, !.hi = 0]
    <2>1. HashReset(ctx) = c
      BY <1>5, <1>7 DEF HashReset, Md5Init
    <2>2. c \in Hashes(alg, z) /\ c.state = << >> /\ c.buffer = ctx.buffer /\ c.lo = 0 /\ c.hi = 0
      BY <1>2, <1>4 DEF Hashes
    <2> HIDE DEF c
    <2>3. Place(c.state, c.buffer, M, z, 0)
      BY <1>6, <2>2
    <2>4. c.lo < LoLimit /\ c.hi * LoLimit + c.lo = 0
      BY <1>1, <2>2
    <2>5. Md5Holds(c, M, 0)
      BY <1>1, <1>7, <2>2, <2>3, <2>4 DEF Md5Holds
    <2> QED
      BY <1>7, <2>1, <2>5 DEF Takes
  <1>8. CASE alg # "MD5"
    <2> DEFINE c == [ctx EXCEPT !.state = << >>, !.curlen = 0, !.length = 0]
    <2>1. HashReset(ctx) = c
      BY <1>5, <1>8 DEF HashReset, ShaInit
    <2>2. c \in Hashes(alg, z) /\ c.state = << >> /\ c.buffer = ctx.buffer /\ c.curlen = 0 /\ c.length = 0
      BY <1>2, <1>4 DEF Hashes
    <2> HIDE DEF c
    <2>3. Place(c.state, c.buffer, M, z, 0)
      BY <1>6, <2>2
    <2>4. (0 * z) * 8 = 0
      BY <1>1
    <2>5. ShaHolds(c, alg, z, M, 0)
      BY <1>3, <2>2, <2>3, <2>4 DEF ShaHolds
    <2> QED
      BY <1>8, <2>1, <2>5 DEF Takes, z
  <1> QED
    BY <1>7, <1>8

\* A new context has taken nothing either.
LEMMA InitTakes ==
  ASSUME NEW alg \in Algorithms, NEW M
  PROVE  Takes(HashInit(alg), alg, M, 0)
  <1> DEFINE z == BlockSize(alg)
             c == [algorithm |-> alg, buffer |-> [i \in 1 .. BlockSize(alg) |-> Stale], state |-> << >>,
                   lo |-> Stale, hi |-> Stale, curlen |-> Stale, length |-> Stale]
  <1>1. c \in Hashes(alg, z)
    <2>1. Stale \in Nat
      BY DEF Stale
    <2>2. [i \in 1 .. z |-> Stale] \in Buffers(z)
      BY SomeCells DEF Buffers
    <2> DEFINE b == [i \in 1 .. z |-> Stale]
    <2> HIDE DEF b
    <2>3. b \in Buffers(z) /\ << >> \in Seq(Seq(Cells))
      BY <2>2 DEF b
    <2>4. [algorithm |-> alg, buffer |-> b, state |-> << >>,
           lo |-> Stale, hi |-> Stale, curlen |-> Stale, length |-> Stale] \in Hashes(alg, z)
      BY <2>1, <2>3 DEF Hashes
    <2> QED
      BY <2>4 DEF b
  <1>2. HashInit(alg) = HashReset(c)
    BY DEF HashInit
  <1> HIDE DEF c
  <1>3. Takes(HashReset(c), alg, M, 0)
    BY <1>1, ResetTakes
  <1> QED
    BY <1>2, <1>3

\* An update takes what it is given.
LEMMA UpdateTakes ==
  ASSUME NEW alg \in Algorithms, NEW M \in Seq(Cells), NEW n \in Nat, NEW ctx, Takes(ctx, alg, M, n),
         NEW data \in Seq(Cells), Continues(data, M, n), n + Len(data) <= Len(M)
  PROVE  Takes(HashUpdate(ctx, data), alg, M, n + Len(data))
  <1> DEFINE z == BlockSize(alg)
  <1>1. z \in Nat \ {0} /\ (alg = "MD5" => z = Block)
    BY Sizes
  <1>2. CASE alg = "MD5"
    <2>1. Md5Holds(ctx, M, n)
      BY <1>2 DEF Takes
    <2>2. ctx.algorithm = "MD5"
      BY <2>1, HashFields DEF Md5Holds
    <2>3. Md5Holds(Md5Update(ctx, data), M, n + Len(data))
      BY <2>1, Md5Absorbs
    <2> QED
      BY <1>2, <2>2, <2>3 DEF Takes, HashUpdate
  <1>3. CASE alg # "MD5"
    <2>1. ShaHolds(ctx, alg, z, M, n)
      BY <1>3 DEF Takes
    <2> HIDE DEF z
    <2>2. ctx.algorithm = alg
      BY <2>1, HashFields DEF ShaHolds
    <2>3. ShaHolds(ShaUpdate(ctx, data, z), alg, z, M, n + Len(data))
      BY <1>1, <2>1, ShaAbsorbs
    <2> QED
      BY <1>3, <2>2, <2>3 DEF Takes, HashUpdate, z
  <1> QED
    BY <1>2, <1>3

\* The digest of all of a message is the standard's.
LEMMA DigestTakes ==
  ASSUME NEW alg \in Algorithms, NEW m \in Seq(Cells), NEW ctx,
         Takes(ctx, alg, PaddedText(alg, m), Len(m))
  PROVE  /\ HashDigest(ctx).state = Standard(alg, m)
         /\ HashDigest(ctx) \in Hashes(alg, BlockSize(alg))
  <1> DEFINE z == BlockSize(alg)
             P == PaddedText(alg, m)
             n == Len(m)
  <1>1. z \in Nat \ {0} /\ (alg = "MD5" => z = Block)
    BY Sizes
  <1>2. CASE alg = "MD5"
    <2>1. Md5Holds(ctx, PaddedText("MD5", m), Len(m))
      BY <1>2 DEF Takes
    <2>2. ctx.algorithm = "MD5"
      <3> HIDE DEF P, n
      <3>1. ctx \in Hashes("MD5", Block)
        BY <2>1 DEF Md5Holds
      <3> QED
        BY <3>1, HashFields
    <2>3. Md5Digest(ctx).state = Standard("MD5", m) /\ Md5Digest(ctx) \in Hashes("MD5", Block)
      BY <2>1, Md5Digests
    <2> QED
      BY <1>1, <1>2, <2>2, <2>3 DEF HashDigest
  <1>3. CASE alg # "MD5"
    <2>1. ShaHolds(ctx, alg, BlockSize(alg), PaddedText(alg, m), Len(m))
      BY <1>3 DEF Takes
    <2>2. ctx.algorithm = alg
      <3>1. ctx \in Hashes(alg, z)
        BY <2>1 DEF ShaHolds
      <3> HIDE DEF z
      <3> QED
        BY <3>1, HashFields
    <2>3. LET new == ShaDigest(ctx, BlockSize(alg), Tail512(alg))
          IN  new.state = Standard(alg, m) /\ new \in Hashes(alg, BlockSize(alg))
      BY <1>3, <2>1, ShaDigests
    <2> QED
      BY <1>3, <2>2, <2>3 DEF HashDigest
  <1> QED
    BY <1>2, <1>3

\* Three updates with the pieces of a message are one with all of it.
Fed(ctx, m, cut1, cut2) ==
  HashUpdate(HashUpdate(HashUpdate(ctx, SubSeq(m, 1, cut1)), SubSeq(m, cut1 + 1, cut2)),
             SubSeq(m, cut2 + 1, Len(m)))

\* They take all of the message.
LEMMA FedTakes ==
  ASSUME NEW alg \in Algorithms, NEW M \in Seq(Cells), NEW ctx, Takes(ctx, alg, M, 0),
         NEW m \in Seq(Cells), Continues(m, M, 0), Len(m) <= Len(M),
         NEW cut2 \in 0 .. Len(m), NEW cut1 \in 0 .. cut2
  PROVE  Takes(Fed(ctx, m, cut1, cut2), alg, M, Len(m))
  <1> DEFINE a == SubSeq(m, 1, cut1)
             b == SubSeq(m, cut1 + 1, cut2)
             c == SubSeq(m, cut2 + 1, Len(m))
             n == Len(m)
  <1>1. /\ n \in Nat /\ Len(M) \in Nat /\ n <= Len(M) /\ cut1 \in Nat /\ cut2 \in Nat
        /\ cut1 <= cut2 /\ cut2 <= n /\ cut1 \in 0 .. Len(m)
    OBVIOUS
  <1>2. a \in Seq(Cells) /\ Len(a) = cut1 /\ \A i \in 1 .. cut1 : a[i] = m[i]
    BY <1>1, Cut
  <1>3. b \in Seq(Cells) /\ Len(b) = cut2 - cut1 /\ \A i \in 1 .. cut2 - cut1 : b[i] = m[cut1 + i]
    OBVIOUS
  <1>4. c \in Seq(Cells) /\ Len(c) = n - cut2 /\ \A i \in 1 .. n - cut2 : c[i] = m[cut2 + i]
    BY Cut
  <1>5. \A i \in 1 .. n : m[i] = M[i]
    BY DEF Continues
  <1> HIDE DEF a, b, c, n
  <1>6. Continues(a, M, 0) /\ 0 + Len(a) = cut1 /\ cut1 <= Len(M) /\ 0 \in Nat
    BY <1>1, <1>2, <1>5 DEF Continues
  <1>7. Continues(b, M, cut1) /\ cut1 + Len(b) = cut2 /\ cut2 <= Len(M)
    BY <1>1, <1>3, <1>5 DEF Continues
  <1>8. Continues(c, M, cut2) /\ cut2 + Len(c) = n
    BY <1>1, <1>4, <1>5 DEF Continues
  <1> DEFINE x == HashUpdate(ctx, a)
             y == HashUpdate(x, b)
             w == HashUpdate(y, c)
  <1>9. Takes(x, alg, M, cut1)
    <2>1. 0 + Len(a) <= Len(M)
      BY <1>6
    <2>2. Takes(x, alg, M, 0 + Len(a))
      BY <1>2, <1>6, <2>1, UpdateTakes
    <2> QED
      BY <1>6, <2>2
  <1> HIDE DEF x
  <1>10. Takes(y, alg, M, cut2)
    <2>1. cut1 + Len(b) <= Len(M)
      BY <1>7
    <2>2. Takes(y, alg, M, cut1 + Len(b))
      BY <1>1, <1>3, <1>7, <1>9, <2>1, UpdateTakes
    <2> QED
      BY <1>7, <2>2
  <1> HIDE DEF y
  <1>11. Takes(w, alg, M, n)
    <2>1. cut2 + Len(c) <= Len(M)
      BY <1>1, <1>8
    <2>2. Takes(w, alg, M, cut2 + Len(c))
      BY <1>1, <1>4, <1>8, <1>10, <2>1, UpdateTakes
    <2> QED
      BY <1>8, <2>2
  <1> QED
    BY <1>11 DEF w, y, x, a, b, c, n, Fed

\* A digest is the standard's, however a message is cut, in a new context and
\* in one that was used before (hash.c).
THEOREM DigestsFollow ==
  ASSUME NEW alg \in Algorithms, NEW m \in Seq(Octets),
         NEW cut2 \in 0 .. Len(m), NEW cut1 \in 0 .. cut2
  PROVE  DigestOK(alg, m, cut1, cut2)
  <1> DEFINE P == PaddedText(alg, m)
             first == HashDigest(Fed(HashInit(alg), m, cut1, cut2))
             second == HashDigest(Fed(HashReset(first), m, cut1, cut2))
  <1>1. m \in Seq(Cells)
    BY SomeCells
  <1>2. P \in Seq(Cells) /\ Continues(m, P, 0) /\ Len(m) <= Len(P)
    <2> DEFINE z == BlockSize(alg)
               n == Len(m)
               e == Ending(alg, n)
    <2>1. P \in Seq(Cells) /\ Continues(m, P, 0) /\ PadOf(P, z, n, e)
      BY <1>1, PadIsPad
    <2> HIDE DEF P
    <2>2. Len(m) < Len(P)
      BY <2>1 DEF PadOf
    <2>3. Len(m) \in Nat /\ Len(P) \in Nat
      BY <2>1
    <2> QED
      BY <2>1, <2>2, <2>3
  <1>3. ASSUME NEW ctx, Takes(ctx, alg, P, 0)
        PROVE  /\ HashDigest(Fed(ctx, m, cut1, cut2)).state = Standard(alg, m)
               /\ HashDigest(Fed(ctx, m, cut1, cut2)) \in Hashes(alg, BlockSize(alg))
    <2> DEFINE c == Fed(ctx, m, cut1, cut2)
    <2>1. Takes(c, alg, P, Len(m))
      <3> HIDE DEF P
      <3> QED
        BY <1>1, <1>2, <1>3, FedTakes
    <2> HIDE DEF c
    <2>2. HashDigest(c).state = Standard(alg, m) /\ HashDigest(c) \in Hashes(alg, BlockSize(alg))
      BY <1>1, <2>1, DigestTakes
    <2> QED
      BY <2>2 DEF c
  <1>4. first.state = Standard(alg, m) /\ first \in Hashes(alg, BlockSize(alg))
    BY <1>3, InitTakes
  <1> HIDE DEF first
  <1>5. second.state = Standard(alg, m)
    BY <1>3, <1>4, ResetTakes
  <1> QED
    BY <1>4, <1>5 DEF DigestOK, Fed, first, second
-----------------------------------------------------------------------------
\* Base64, Blowfish, Serpent and bcrypt undo what they do, and a password hash
\* tells passwords apart, for every input.
THEOREM CodecsAreInverse == PureSpec => []CodecsInvert
  <1>1. PureInit => CodecsInvert
    <2>1. PureInit /\ Is("base64") => Base64OK(input.data, input.buflen)
      BY Base64Inverts DEF PureInit, Base64Input
    <2>2. PureInit /\ Is("blowfish") => BlowfishOK(input.key, input.iv, input.data)
      BY BlowfishInverts DEF PureInit, BlowfishInput
    <2>3. PureInit /\ Is("serpent") => SerpentOK(input.words, input.keyLen, input.block)
      BY SerpentInverts DEF PureInit, SerpentInput
    <2>4. PureInit /\ Is("bcrypt") =>
            BcryptOK(input.key, input.other, input.logRounds, input.seed, input.saltlen)
      BY BcryptAccepts DEF PureInit, BcryptInput
    <2> QED
      BY <2>1, <2>2, <2>3, <2>4 DEF CodecsInvert
  <1>2. CodecsInvert /\ [PureNext]_input => CodecsInvert'
    BY DEF CodecsInvert, PureNext, Is
  <1> QED
    BY <1>1, <1>2, PTL DEF PureSpec

\* Digests are those of the standards, checksums can be continued, and a byte
\* that changes is noticed, for every message and every way to cut it.
THEOREM DigestsAreStandard == PureSpec => []DigestsStandard
  <1>1. PureInit => DigestsStandard
    <2>1. PureInit /\ Is("digest") => DigestOK(input.alg, input.message, input.cut1, input.cut2)
      BY DigestsFollow DEF PureInit, DigestInput
    <2>2. PureInit /\ Is("checksum") => ChecksumOK(input.message, input.cut, input.byte)
      BY ChecksumsContinue DEF PureInit, ChecksumInput, Bytes
    <2> QED
      BY <2>1, <2>2 DEF DigestsStandard
  <1>2. DigestsStandard /\ [PureNext]_input => DigestsStandard'
    BY DEF DigestsStandard, PureNext, Is
  <1> QED
    BY <1>1, <1>2, PTL DEF PureSpec
=============================================================================
