---------------------------- MODULE HashmapProofs ---------------------------
(***************************************************************************)
(* Proofs about Hashmap, for all keys, values, hash functions, capacities, *)
(* growth factors and limits.  The first sections speak of any map m: what *)
(* linking, unlinking, moving the iterator and rebuilding do to the        *)
(* entries in its buckets, Pairs(m).  Then come the iterator and the       *)
(* client's loop, the contents the client sees, and last the steps of Spec *)
(* with the theorems.                                                      *)
(***************************************************************************)
EXTENDS Hashmap, FiniteSetTheorems, SequenceTheorems, WellFoundedInduction, TLAPS
-----------------------------------------------------------------------------
\* An array of buckets, of any length; none when the pointer is NULL.
Arrays == UNION {[0 .. n - 1 -> Seq(Entry)] : n \in Nat}

\* The values the struct may have, each field in its type.
Maps == [buckets : Arrays, capacity : Nat, count : Nat, limit : Nat \ {0},
         grow : Nat, flags : SUBSET {"key", "value"},
         it : [entry : Keys \cup {None, Freed}, nr : Nat]]

\* Every entry lies in the bucket its hash names.
Spread(m) ==
  /\ m \in Maps /\ m.capacity # 0
  /\ m.buckets \in [0 .. m.capacity - 1 -> Seq(Entry)]
  /\ \A i \in 0 .. m.capacity - 1 : \A j \in 1 .. Len(m.buckets[i]) :
       Home(m, m.buckets[i][j].key) = i

\* No chain holds two entries of one key.
NoKeyTwice(m) ==
  \A i \in 0 .. m.capacity - 1 : \A j, l \in 1 .. Len(m.buckets[i]) :
    m.buckets[i][j].key = m.buckets[i][l].key => j = l

\* The count is the number of keys.
Counted(m) == IsFiniteSet(KeysIn(m)) /\ m.count = Cardinality(KeysIn(m))

\* A map as the library leaves it.
MapOK(m) == Spread(m) /\ NoKeyTwice(m) /\ Counted(m)

\* The entries in the buckets of m.
Pairs(m) == UNION {{m.buckets[i][j] : j \in 1 .. Len(m.buckets[i])} : i \in 0 .. m.capacity - 1}

\* The two maps differ in nothing a client sets.
SameSettings(m, n) == m.limit = n.limit /\ m.grow = n.grow /\ m.flags = n.flags
-----------------------------------------------------------------------------
\* A hash modulo the capacity is the number of a bucket.
LEMMA HomeOf ==
  ASSUME NEW m, m.capacity \in Nat \ {0}, NEW k \in Keys
  PROVE  Home(m, k) \in 0 .. m.capacity - 1
  BY HashmapAssumption DEF Home

\* The chains of an array of buckets are sequences of entries.
LEMMA ChainOf ==
  ASSUME NEW m, m.buckets \in [0 .. m.capacity - 1 -> Seq(Entry)]
  PROVE  /\ DOMAIN m.buckets = 0 .. m.capacity - 1
         /\ \A i \in 0 .. m.capacity - 1 : m.buckets[i] \in Seq(Entry)
         /\ \A i \in 0 .. m.capacity - 1 : Len(m.buckets[i]) \in Nat
         /\ \A i \in 0 .. m.capacity - 1 : DOMAIN m.buckets[i] = 1 .. Len(m.buckets[i])
         /\ \A i \in 0 .. m.capacity - 1 : \A j \in 1 .. Len(m.buckets[i]) :
              m.buckets[i][j] \in Entry
  <1>1. \A i \in 0 .. m.capacity - 1 : m.buckets[i] \in Seq(Entry)
    OBVIOUS
  <1>2. ASSUME NEW s \in Seq(Entry)
        PROVE  /\ Len(s) \in Nat /\ DOMAIN s = 1 .. Len(s)
               /\ \A j \in 1 .. Len(s) : s[j] \in Entry
    OBVIOUS
  <1> QED
    BY <1>1, <1>2

\* The keys of a map are those of its entries.
LEMMA KeysOfMap ==
  ASSUME NEW m, m.buckets \in [0 .. m.capacity - 1 -> Seq(Entry)]
  PROVE  /\ KeysIn(m) \subseteq Keys
         /\ \A k : k \in KeysIn(m) <=>
              \E i \in 0 .. m.capacity - 1 : \E j \in 1 .. Len(m.buckets[i]) :
                m.buckets[i][j].key = k
  <1>1. \A i \in 0 .. m.capacity - 1 :
          /\ DOMAIN m.buckets[i] = 1 .. Len(m.buckets[i])
          /\ \A j \in 1 .. Len(m.buckets[i]) : m.buckets[i][j] \in Entry
    BY ChainOf
  <1>2. \A e \in Entry : e.key \in Keys
    BY DEF Entry
  <1>3. DOMAIN m.buckets = 0 .. m.capacity - 1
    BY ChainOf
  <1>4. \A k : k \in KeysIn(m) <=>
              \E i \in 0 .. m.capacity - 1 : \E j \in 1 .. Len(m.buckets[i]) :
                m.buckets[i][j].key = k
    BY <1>1, <1>3 DEF KeysIn, KeysOf
  <1>5. \A k \in KeysIn(m) : k \in Keys
    BY <1>1, <1>2, <1>4
  <1> QED
    BY <1>4, <1>5

\* The entries of a map are those at some place of some bucket.
LEMMA PairsOfMap ==
  ASSUME NEW m, m.buckets \in [0 .. m.capacity - 1 -> Seq(Entry)]
  PROVE  /\ Pairs(m) \subseteq Entry
         /\ \A e : e \in Pairs(m) <=>
              \E i \in 0 .. m.capacity - 1 : \E j \in 1 .. Len(m.buckets[i]) :
                m.buckets[i][j] = e
         /\ \A k : k \in KeysIn(m) <=> \E e \in Pairs(m) : e.key = k
  <1>1. \A i \in 0 .. m.capacity - 1 : \A j \in 1 .. Len(m.buckets[i]) :
          m.buckets[i][j] \in Entry
    BY ChainOf
  <1>2. \A e : e \in Pairs(m) <=>
              \E i \in 0 .. m.capacity - 1 : \E j \in 1 .. Len(m.buckets[i]) :
                m.buckets[i][j] = e
    BY DEF Pairs
  <1>3. Pairs(m) \subseteq Entry
    BY <1>1, <1>2
  <1>4. ASSUME NEW k
        PROVE  k \in KeysIn(m) <=> \E e \in Pairs(m) : e.key = k
    <2>1. k \in KeysIn(m) <=> \E i \in 0 .. m.capacity - 1 : \E j \in 1 .. Len(m.buckets[i]) :
                                 m.buckets[i][j].key = k
      BY KeysOfMap
    <2>2. ASSUME NEW e \in Pairs(m), e.key = k PROVE k \in KeysIn(m)
      BY <1>2, <2>1, <2>2
    <2>3. ASSUME k \in KeysIn(m) PROVE \E e \in Pairs(m) : e.key = k
      BY <1>2, <2>1, <2>3
    <2> QED
      BY <2>2, <2>3
  <1> QED
    BY <1>2, <1>3, <1>4

\* A stored key is in one place, the one Position finds.
LEMMA PositionOf ==
  ASSUME NEW m, Spread(m), NoKeyTwice(m), NEW k \in KeysIn(m)
  PROVE  /\ k \in Keys /\ Home(m, k) \in 0 .. m.capacity - 1
         /\ m.buckets[Home(m, k)] \in Seq(Entry)
         /\ Position(m, k) \in 1 .. Len(m.buckets[Home(m, k)])
         /\ m.buckets[Home(m, k)][Position(m, k)].key = k
         /\ \A j \in 1 .. Len(m.buckets[Home(m, k)]) :
              m.buckets[Home(m, k)][j].key = k => j = Position(m, k)
  <1>1. m.buckets \in [0 .. m.capacity - 1 -> Seq(Entry)] /\ m.capacity \in Nat \ {0}
    BY DEF Spread, Maps
  <1>2. k \in Keys
    BY <1>1, KeysOfMap
  <1>3. PICK i \in 0 .. m.capacity - 1 :
          \E j \in 1 .. Len(m.buckets[i]) : m.buckets[i][j].key = k
    BY <1>1, KeysOfMap
  <1>4. Home(m, k) = i
    BY <1>3 DEF Spread
  <1>5. DOMAIN m.buckets[i] = 1 .. Len(m.buckets[i]) /\ m.buckets[i] \in Seq(Entry)
    BY <1>1
  <1>6. Position(m, k) \in DOMAIN m.buckets[i] /\ m.buckets[i][Position(m, k)].key = k
    BY <1>3, <1>4, <1>5 DEF Position
  <1>7. \A j \in 1 .. Len(m.buckets[i]) :
              m.buckets[i][j].key = k => j = Position(m, k)
    BY <1>5, <1>6 DEF NoKeyTwice
  <1> QED
    BY <1>2, <1>4, <1>5, <1>6, <1>7

\* A function from the numbers below c is an array of c buckets.
LEMMA ArraysHave ==
  ASSUME NEW c \in Nat, NEW b \in [0 .. c - 1 -> Seq(Entry)]
  PROVE  b \in Arrays
  BY DEF Arrays

\* A map is the record of its fields.
LEMMA MapFields ==
  ASSUME NEW m \in Maps
  PROVE  m = [buckets |-> m.buckets, capacity |-> m.capacity, count |-> m.count,
              limit |-> m.limit, grow |-> m.grow, flags |-> m.flags, it |-> m.it]
  BY DEF Maps

\* The same, when its buckets are exchanged.
LEMMA WithBuckets ==
  ASSUME NEW m \in Maps, NEW b
  PROVE  [m EXCEPT !.buckets = b] =
           [buckets |-> b, capacity |-> m.capacity, count |-> m.count, limit |-> m.limit,
            grow |-> m.grow, flags |-> m.flags, it |-> m.it]
  BY MapFields

\* A new map is well formed and holds nothing.
LEMMA EmptyMap ==
  ASSUME NEW c \in Nat \ {0}, NEW like \in Maps
  PROVE  /\ MapOK(Empty(c, like)) /\ Empty(c, like).count = 0
         /\ Empty(c, like).capacity = c /\ SameSettings(Empty(c, like), like)
         /\ Empty(c, like).it = [entry |-> None, nr |-> 0]
         /\ KeysIn(Empty(c, like)) = {} /\ Pairs(Empty(c, like)) = {}
  <1> DEFINE b == [i \in 0 .. c - 1 |-> << >>]
             n == Empty(c, like)
  <1>1. n = [buckets |-> b, capacity |-> c, count |-> 0, limit |-> like.limit,
             grow |-> like.grow, flags |-> like.flags, it |-> [entry |-> None, nr |-> 0]]
    <2> DEFINE mid == [like EXCEPT !.buckets = b]
    <2>1. n = [mid EXCEPT !.capacity = c, !.count = 0, !.it = [entry |-> None, nr |-> 0]]
      BY DEF Empty
    <2> HIDE DEF b, n
    <2>2. mid = [buckets |-> b, capacity |-> like.capacity, count |-> like.count, limit |-> like.limit,
                 grow |-> like.grow, flags |-> like.flags, it |-> like.it]
      BY WithBuckets
    <2> HIDE DEF mid
    <2> QED
      BY <2>1, <2>2
  <1>2. b \in [0 .. c - 1 -> Seq(Entry)] /\ b \in Arrays
    <2>1. b \in [0 .. c - 1 -> Seq(Entry)]
      OBVIOUS
    <2> HIDE DEF b
    <2> QED
      BY <2>1, ArraysHave
  <1>3. \A i \in 0 .. c - 1 : Len(b[i]) = 0
    OBVIOUS
  <1> HIDE DEF b, n
  <1>4. n \in Maps
    BY <1>1, <1>2 DEF Maps
  <1>5. Spread(n) /\ NoKeyTwice(n)
    BY <1>1, <1>2, <1>3, <1>4 DEF Spread, NoKeyTwice
  <1>6. Pairs(n) = {}
    BY <1>1, <1>3 DEF Pairs
  <1>7. KeysIn(n) = {}
    BY <1>1, <1>2, <1>6, PairsOfMap
  <1>8. Counted(n)
    BY <1>1, <1>7, FS_EmptySet DEF Counted
  <1>9. MapOK(n)
    BY <1>5, <1>8 DEF MapOK
  <1>10. /\ n.count = 0 /\ n.capacity = c /\ SameSettings(n, like)
         /\ n.it = [entry |-> None, nr |-> 0]
    BY <1>1 DEF SameSettings
  <1> QED
    BY <1>6, <1>7, <1>9, <1>10 DEF n

\* A map into which a new key is linked stays well formed and gains its entry.
LEMMA LinkedMap ==
  ASSUME NEW m, MapOK(m), NEW e \in Entry, e.key \notin KeysIn(m)
  PROVE  /\ MapOK(Linked(m, e)) /\ SameSettings(Linked(m, e), m)
         /\ Linked(m, e).it = m.it /\ Linked(m, e).capacity = m.capacity
         /\ Linked(m, e).count = m.count + 1
         /\ Linked(m, e).buckets = [m.buckets EXCEPT ![Home(m, e.key)] = Append(@, e)]
         /\ Pairs(Linked(m, e)) = Pairs(m) \cup {e}
         /\ KeysIn(Linked(m, e)) = KeysIn(m) \cup {e.key}
  <1> DEFINE h == Home(m, e.key)
             s == Append(m.buckets[h], e)
             b == [m.buckets EXCEPT ![h] = s]
             n == Linked(m, e)
  <1>1. /\ m \in Maps /\ m.capacity \in Nat \ {0} /\ e.key \in Keys
        /\ m.buckets \in [0 .. m.capacity - 1 -> Seq(Entry)]
    BY DEF MapOK, Spread, Maps, Entry
  <1>2. n = [buckets |-> b, capacity |-> m.capacity, count |-> m.count + 1, limit |-> m.limit,
             grow |-> m.grow, flags |-> m.flags, it |-> m.it]
    <2> DEFINE mid == [m EXCEPT !.buckets[h] = s]
    <2> HIDE DEF h, s
    <2>1. mid = [buckets |-> b, capacity |-> m.capacity, count |-> m.count, limit |-> m.limit,
                 grow |-> m.grow, flags |-> m.flags, it |-> m.it]
      <3>1. mid = [m EXCEPT !.buckets = b]
        OBVIOUS
      <3> HIDE DEF mid, b
      <3> QED
        BY <1>1, <3>1, WithBuckets
    <2>2. n = [mid EXCEPT !.count = m.count + 1]
      BY <1>1 DEF Linked, Maps, h, s
    <2> HIDE DEF mid, b, n
    <2> QED
      BY <2>1, <2>2
  <1>3. h \in 0 .. m.capacity - 1 /\ m.buckets[h] \in Seq(Entry)
    BY <1>1, HomeOf
  <1> HIDE DEF h
  <1>4. /\ s \in Seq(Entry) /\ Len(s) = Len(m.buckets[h]) + 1 /\ s[Len(s)] = e
        /\ Len(m.buckets[h]) \in Nat
        /\ \A j \in 1 .. Len(m.buckets[h]) : s[j] = m.buckets[h][j]
    BY <1>3
  <1> HIDE DEF s
  <1>5. /\ b \in [0 .. m.capacity - 1 -> Seq(Entry)] /\ b[h] = s
        /\ \A i \in 0 .. m.capacity - 1 : i # h => b[i] = m.buckets[i]
    BY <1>1, <1>3, <1>4
  <1> HIDE DEF b, n
  <1>6. n \in Maps
    <2>1. b \in Arrays
      BY <1>1, <1>5, ArraysHave
    <2> QED
      BY <1>1, <1>2, <2>1 DEF Maps
  <1>7. \A k \in Keys : Home(n, k) = Home(m, k)
    BY <1>2 DEF Home
  <1>8. \A i \in 0 .. m.capacity - 1 : \A j \in 1 .. Len(b[i]) :
          \/ i = h /\ j = Len(s) /\ b[i][j] = e
          \/ j \in 1 .. Len(m.buckets[i]) /\ b[i][j] = m.buckets[i][j]
    <2> SUFFICES ASSUME NEW i \in 0 .. m.capacity - 1, NEW j \in 1 .. Len(b[i])
                 PROVE  \/ i = h /\ j = Len(s) /\ b[i][j] = e
                        \/ j \in 1 .. Len(m.buckets[i]) /\ b[i][j] = m.buckets[i][j]
      OBVIOUS
    <2>1. CASE i # h
      BY <1>5, <2>1
    <2>2. CASE i = h
      <3>1. b[i] = s /\ j \in 1 .. Len(m.buckets[h]) + 1
        BY <1>4, <1>5, <2>2
      <3>2. j = Len(s) \/ j \in 1 .. Len(m.buckets[h])
        BY <1>4, <3>1
      <3> QED
        BY <1>4, <2>2, <3>1, <3>2
    <2> QED
      BY <2>1, <2>2
  <1>9. \A i \in 0 .. m.capacity - 1 : \A j \in 1 .. Len(m.buckets[i]) :
          j \in 1 .. Len(b[i]) /\ b[i][j] = m.buckets[i][j]
    BY <1>4, <1>5
  <1>10. Spread(n)
    <2>1. \A i \in 0 .. m.capacity - 1 : \A j \in 1 .. Len(b[i]) : Home(n, b[i][j].key) = i
      <3> SUFFICES ASSUME NEW i \in 0 .. m.capacity - 1, NEW j \in 1 .. Len(b[i])
                   PROVE  Home(n, b[i][j].key) = i
        OBVIOUS
      <3>1. CASE i = h /\ b[i][j] = e
        BY <1>1, <1>7, <3>1 DEF h
      <3>2. CASE j \in 1 .. Len(m.buckets[i]) /\ b[i][j] = m.buckets[i][j]
        <4>1. m.buckets[i][j] \in Entry
          BY <1>1, <3>2, ChainOf
        <4>2. m.buckets[i][j].key \in Keys /\ Home(m, m.buckets[i][j].key) = i
          BY <3>2, <4>1 DEF MapOK, Spread, Entry
        <4> QED
          BY <1>7, <3>2, <4>2
      <3> QED
        BY <1>8, <3>1, <3>2
    <2> QED
      BY <1>1, <1>2, <1>5, <1>6, <2>1 DEF Spread
  <1>11. \A j \in 1 .. Len(m.buckets[h]) : m.buckets[h][j].key # e.key
    BY <1>1, <1>3, KeysOfMap
  <1>12. NoKeyTwice(n)
    <2>1. ASSUME NEW i \in 0 .. m.capacity - 1, NEW j \in 1 .. Len(b[i]), NEW l \in 1 .. Len(b[i]),
                 b[i][j].key = b[i][l].key
          PROVE  j = l
      <3>1. \A x, y \in 1 .. Len(m.buckets[i]) :
              m.buckets[i][x].key = m.buckets[i][y].key => x = y
        BY DEF MapOK, NoKeyTwice
      <3>2. \/ i = h /\ j = Len(s) /\ b[i][j] = e
            \/ j \in 1 .. Len(m.buckets[i]) /\ b[i][j] = m.buckets[i][j]
        BY <1>8
      <3>3. \/ i = h /\ l = Len(s) /\ b[i][l] = e
            \/ l \in 1 .. Len(m.buckets[i]) /\ b[i][l] = m.buckets[i][l]
        BY <1>8
      <3> QED
        BY <1>11, <2>1, <3>1, <3>2, <3>3
    <2> QED
      BY <1>2, <2>1 DEF NoKeyTwice
  <1>13. Pairs(n) = Pairs(m) \cup {e}
    <2>1. \A x : x \in Pairs(n) <=>
            \E i \in 0 .. m.capacity - 1 : \E j \in 1 .. Len(b[i]) : b[i][j] = x
      <3>1. n.buckets = b /\ n.capacity = m.capacity
        BY <1>2
      <3>2. n.buckets \in [0 .. n.capacity - 1 -> Seq(Entry)]
        BY <1>5, <3>1
      <3>3. \A x : x \in Pairs(n) <=>
              \E i \in 0 .. n.capacity - 1 : \E j \in 1 .. Len(n.buckets[i]) : n.buckets[i][j] = x
        BY <3>2, PairsOfMap
      <3> QED
        BY <3>1, <3>3
    <2>2. \A x : x \in Pairs(m) <=>
            \E i \in 0 .. m.capacity - 1 : \E j \in 1 .. Len(m.buckets[i]) : m.buckets[i][j] = x
      BY <1>1, PairsOfMap
    <2>3. e \in Pairs(n)
      BY <1>3, <1>4, <1>5, <2>1
    <2>4. \A x \in Pairs(m) : x \in Pairs(n)
      BY <1>9, <2>1, <2>2
    <2>5. \A x \in Pairs(n) : x \in Pairs(m) \cup {e}
      BY <1>8, <2>1, <2>2
    <2> QED
      BY <2>3, <2>4, <2>5
  <1>14. KeysIn(n) = KeysIn(m) \cup {e.key}
    <2>1. \A k : k \in KeysIn(n) <=> \E x \in Pairs(n) : x.key = k
      BY <1>2, <1>5, PairsOfMap
    <2>2. \A k : k \in KeysIn(m) <=> \E x \in Pairs(m) : x.key = k
      BY <1>1, PairsOfMap
    <2> QED
      BY <1>13, <2>1, <2>2
  <1>15. Counted(n)
    <2>1. IsFiniteSet(KeysIn(m)) /\ m.count = Cardinality(KeysIn(m))
      BY DEF MapOK, Counted
    <2>2. IsFiniteSet(KeysIn(n)) /\ Cardinality(KeysIn(n)) = Cardinality(KeysIn(m)) + 1
      <3>1. e.key \notin KeysIn(m)
        OBVIOUS
      <3> DEFINE K == KeysIn(m)
      <3> HIDE DEF K
      <3>2. IsFiniteSet(K \cup {e.key}) /\ Cardinality(K \cup {e.key}) = Cardinality(K) + 1
        BY <2>1, <3>1, FS_AddElement DEF K
      <3> QED
        BY <1>14, <3>2 DEF K
    <2> QED
      BY <1>2, <2>1, <2>2 DEF Counted
  <1>16. MapOK(n)
    BY <1>10, <1>12, <1>15 DEF MapOK
  <1>17. /\ SameSettings(n, m) /\ n.it = m.it /\ n.capacity = m.capacity
         /\ n.count = m.count + 1 /\ n.buckets = b
    BY <1>2 DEF SameSettings
  <1> QED
    BY <1>13, <1>14, <1>16, <1>17 DEF n, b, s, h

\* Cutting the p-th element out of a sequence moves those behind it by one.
LEMMA RemoveAtSeq ==
  ASSUME NEW S, NEW s \in Seq(S), NEW p \in 1 .. Len(s)
  PROVE  /\ SX!RemoveAt(s, p) \in Seq(S) /\ Len(SX!RemoveAt(s, p)) = Len(s) - 1
         /\ \A j \in 1 .. Len(s) - 1 :
              SX!RemoveAt(s, p)[j] = IF j < p THEN s[j] ELSE s[j + 1]
  <1> DEFINE a == SubSeq(s, 1, p - 1)
             z == SubSeq(s, p + 1, Len(s))
  <1>1. a \in Seq(S) /\ Len(a) = p - 1 /\ \A j \in 1 .. p - 1 : a[j] = s[j]
    OBVIOUS
  <1>2. z \in Seq(S) /\ Len(z) = Len(s) - p /\ \A j \in 1 .. Len(s) - p : z[j] = s[p + j]
    OBVIOUS
  <1>3. SX!RemoveAt(s, p) = a \o z
    BY DEF SX!RemoveAt
  <1> HIDE DEF a, z
  <1>4. a \o z \in Seq(S) /\ Len(a \o z) = Len(s) - 1
    <2>1. Len(s) \in Nat
      OBVIOUS
    <2>2. a \o z \in Seq(S) /\ Len(a \o z) = Len(a) + Len(z)
      BY <1>1, <1>2, ConcatProperties
    <2> QED
      BY <1>1, <1>2, <2>1, <2>2
  <1>5. ASSUME NEW j \in 1 .. Len(s) - 1
        PROVE  (a \o z)[j] = IF j < p THEN s[j] ELSE s[j + 1]
    <2>1. CASE j < p
      BY <1>1, <1>2, <2>1
    <2>2. CASE ~ (j < p)
      <3>1. (a \o z)[j] = z[j - (p - 1)] /\ j - (p - 1) \in 1 .. Len(s) - p
        BY <1>1, <1>2, <2>2, SMTT(30)
      <3>2. z[j - (p - 1)] = s[p + (j - (p - 1))] /\ p + (j - (p - 1)) = j + 1
        BY <1>2, <3>1
      <3> QED
        BY <2>2, <3>1, <3>2
    <2> QED
      BY <2>1, <2>2
  <1> QED
    BY <1>3, <1>4, <1>5

\* A map from which a key is unlinked stays well formed and loses its entry.
LEMMA UnlinkedMap ==
  ASSUME NEW m, MapOK(m), NEW k \in KeysIn(m)
  PROVE  /\ MapOK(Unlinked(m, k)) /\ SameSettings(Unlinked(m, k), m)
         /\ Unlinked(m, k).it = [entry |-> IF m.it.entry = k THEN Freed ELSE m.it.entry,
                                 nr |-> m.it.nr]
         /\ Unlinked(m, k).capacity = m.capacity
         /\ Unlinked(m, k).buckets =
              [m.buckets EXCEPT ![Home(m, k)] = SX!RemoveAt(@, Position(m, k))]
         /\ \A e : e \in Pairs(Unlinked(m, k)) <=> e \in Pairs(m) /\ e.key # k
         /\ KeysIn(Unlinked(m, k)) = KeysIn(m) \ {k}
  <1> DEFINE h == Home(m, k)
             p == Position(m, k)
             c == m.buckets[h]
             s == SX!RemoveAt(c, p)
             b == [m.buckets EXCEPT ![h] = s]
             it == [entry |-> IF m.it.entry = k THEN Freed ELSE m.it.entry, nr |-> m.it.nr]
             n == Unlinked(m, k)
  <1>1. /\ m \in Maps /\ m.capacity \in Nat \ {0} /\ Spread(m) /\ NoKeyTwice(m) /\ Counted(m)
        /\ m.buckets \in [0 .. m.capacity - 1 -> Seq(Entry)]
    BY DEF MapOK, Spread, Maps
  <1>2. n = [buckets |-> b, capacity |-> m.capacity, count |-> m.count - 1, limit |-> m.limit,
             grow |-> m.grow, flags |-> m.flags, it |-> it]
    <2> DEFINE mid == [m EXCEPT !.buckets[h] = s]
    <2> HIDE DEF h, s
    <2>1. mid = [buckets |-> b, capacity |-> m.capacity, count |-> m.count, limit |-> m.limit,
                 grow |-> m.grow, flags |-> m.flags, it |-> m.it]
      <3>1. mid = [m EXCEPT !.buckets = b]
        OBVIOUS
      <3> HIDE DEF mid, b
      <3> QED
        BY <1>1, <3>1, WithBuckets
    <2> DEFINE low == [mid EXCEPT !.count = m.count - 1]
               ent == IF m.it.entry = k THEN Freed ELSE m.it.entry
    <2>2. n = [low EXCEPT !.it.entry = ent]
      <3>1. mid.count = m.count /\ low.it = m.it
        <4> HIDE DEF mid
        <4> QED
          BY <2>1
      <3> QED
        BY <3>1 DEF Unlinked, h, s
    <2> HIDE DEF mid, n
    <2>3. low = [buckets |-> b, capacity |-> m.capacity, count |-> m.count - 1, limit |-> m.limit,
                 grow |-> m.grow, flags |-> m.flags, it |-> m.it]
      <3> HIDE DEF b
      <3> QED
        BY <2>1
    <2> HIDE DEF low, ent
    <2>4. [m.it EXCEPT !.entry = ent] = [entry |-> ent, nr |-> m.it.nr]
      BY <1>1 DEF Maps
    <2>5. [low EXCEPT !.it.entry = ent] = [low EXCEPT !.it = [m.it EXCEPT !.entry = ent]]
      <3>1. low.it = m.it
        BY <2>3
      <3> QED
        BY <3>1
    <2> HIDE DEF b
    <2> QED
      BY <2>2, <2>3, <2>4, <2>5 DEF ent
  <1>3. /\ h \in 0 .. m.capacity - 1 /\ c \in Seq(Entry) /\ p \in 1 .. Len(c) /\ c[p].key = k
        /\ \A j \in 1 .. Len(c) : c[j].key = k => j = p
        /\ k \in Keys
    BY <1>1, PositionOf
  <1> HIDE DEF h, p
  <1>4. /\ s \in Seq(Entry) /\ Len(s) = Len(c) - 1 /\ Len(c) \in Nat
        /\ \A j \in 1 .. Len(c) - 1 : s[j] = IF j < p THEN c[j] ELSE c[j + 1]
    <2> HIDE DEF c
    <2>1. c \in Seq(Entry) /\ p \in 1 .. Len(c)
      BY <1>3
    <2>2. /\ s \in Seq(Entry) /\ Len(s) = Len(c) - 1
          /\ \A j \in 1 .. Len(c) - 1 : s[j] = IF j < p THEN c[j] ELSE c[j + 1]
      BY <2>1, RemoveAtSeq, Zenon
    <2> QED
      BY <2>1, <2>2, SMTT(30)
  <1> HIDE DEF s
  <1>5. /\ b \in [0 .. m.capacity - 1 -> Seq(Entry)] /\ b[h] = s
        /\ \A i \in 0 .. m.capacity - 1 : i # h => b[i] = m.buckets[i]
    BY <1>1, <1>3, <1>4
  <1> HIDE DEF b, n, it
  \* Where each entry was, as a function of where it is.
  <1> DEFINE was(i, j) == IF i = h /\ j >= p THEN j + 1 ELSE j
  <1>6. \A i \in 0 .. m.capacity - 1 : \A j \in 1 .. Len(b[i]) :
          was(i, j) \in 1 .. Len(m.buckets[i]) /\ b[i][j] = m.buckets[i][was(i, j)]
    <2> SUFFICES ASSUME NEW i \in 0 .. m.capacity - 1, NEW j \in 1 .. Len(b[i])
                 PROVE  was(i, j) \in 1 .. Len(m.buckets[i]) /\ b[i][j] = m.buckets[i][was(i, j)]
      OBVIOUS
    <2>1. CASE i = h
      <3>1. b[i] = s /\ j \in 1 .. Len(c) - 1 /\ p \in 1 .. Len(c) /\ Len(c) \in Nat
        BY <1>3, <1>4, <1>5, <2>1
      <3>2. b[i][j] = c[was(i, j)] /\ was(i, j) \in 1 .. Len(c)
        BY <1>4, <2>1, <3>1, SMTT(30)
      <3> QED
        BY <1>3, <2>1, <3>2
    <2>2. CASE i # h
      BY <1>5, <2>2
    <2> QED
      BY <2>1, <2>2
  <1>7. \A i \in 0 .. m.capacity - 1 : \A j \in 1 .. Len(m.buckets[i]) :
          m.buckets[i][j].key # k => \E l \in 1 .. Len(b[i]) : b[i][l] = m.buckets[i][j]
    <2> SUFFICES ASSUME NEW i \in 0 .. m.capacity - 1, NEW j \in 1 .. Len(m.buckets[i]),
                        m.buckets[i][j].key # k
                 PROVE  \E l \in 1 .. Len(b[i]) : b[i][l] = m.buckets[i][j]
      OBVIOUS
    <2>1. CASE i = h /\ j < p
      <3>1. j \in 1 .. Len(b[i]) /\ b[i][j] = m.buckets[i][j]
        BY <1>3, <1>4, <1>5, <2>1
      <3> QED
        BY <3>1
    <2>2. CASE i = h /\ j > p
      <3>1. j - 1 \in 1 .. Len(b[i]) /\ b[i][j - 1] = c[(j - 1) + 1]
        BY <1>3, <1>4, <1>5, <2>2
      <3>2. (j - 1) + 1 = j
        BY <2>2
      <3> QED
        BY <2>2, <3>1, <3>2
    <2>3. CASE i = h /\ j = p
      BY <1>3, <2>3
    <2>4. CASE i # h
      BY <1>5, <2>4
    <2> QED
      BY <1>3, <2>1, <2>2, <2>3, <2>4
  <1>8. \A i \in 0 .. m.capacity - 1 : \A j \in 1 .. Len(b[i]) : b[i][j].key # k
    <2> SUFFICES ASSUME NEW i \in 0 .. m.capacity - 1, NEW j \in 1 .. Len(b[i]), b[i][j].key = k
                 PROVE  FALSE
      OBVIOUS
    <2>1. was(i, j) \in 1 .. Len(m.buckets[i]) /\ m.buckets[i][was(i, j)].key = k
      BY <1>6
    <2>2. Home(m, k) = i
      BY <1>1, <2>1 DEF Spread
    <2>3. was(i, j) = p
      BY <1>3, <2>1, <2>2 DEF h
    <2> QED
      BY <2>2, <2>3, <1>3 DEF h
  <1> HIDE DEF c
  <1>9. n \in Maps
    <2>1. b \in Arrays
      BY <1>1, <1>5, ArraysHave
    <2>2. m.count - 1 \in Nat
      <3> DEFINE K == KeysIn(m)
      <3>1. IsFiniteSet(K) /\ m.count = Cardinality(K) /\ k \in K
        BY <1>1 DEF Counted
      <3> HIDE DEF K
      <3>2. Cardinality(K) \in Nat /\ Cardinality(K) # 0
        BY <3>1, FS_CardinalityType, FS_EmptySet
      <3> QED
        BY <3>1, <3>2
    <2>3. it \in [entry : Keys \cup {None, Freed}, nr : Nat]
      BY <1>1 DEF Maps, it
    <2> QED
      BY <1>1, <1>2, <2>1, <2>2, <2>3 DEF Maps
  <1>10. Spread(n)
    <2>1. \A x \in Keys : Home(n, x) = Home(m, x)
      BY <1>2 DEF Home
    <2>2. ASSUME NEW i \in 0 .. m.capacity - 1, NEW j \in 1 .. Len(b[i])
          PROVE  Home(n, b[i][j].key) = i
      <3>1. was(i, j) \in 1 .. Len(m.buckets[i]) /\ b[i][j] = m.buckets[i][was(i, j)]
        BY <1>6
      <3>2. Home(m, b[i][j].key) = i
        BY <1>1, <3>1 DEF Spread
      <3>3. b[i][j] \in Entry
        BY <1>1, <3>1, ChainOf
      <3> QED
        BY <2>1, <3>2, <3>3 DEF Entry
    <2> QED
      BY <1>1, <1>2, <1>5, <1>9, <2>2 DEF Spread
  <1>11. NoKeyTwice(n)
    <2>1. ASSUME NEW i \in 0 .. m.capacity - 1, NEW j \in 1 .. Len(b[i]), NEW l \in 1 .. Len(b[i]),
                 b[i][j].key = b[i][l].key
          PROVE  j = l
      <3>1. was(i, j) = was(i, l)
        <4>1. was(i, j) \in 1 .. Len(m.buckets[i]) /\ b[i][j] = m.buckets[i][was(i, j)]
          BY <1>6
        <4>2. was(i, l) \in 1 .. Len(m.buckets[i]) /\ b[i][l] = m.buckets[i][was(i, l)]
          BY <1>6
        <4> HIDE DEF was
        <4> QED
          BY <1>1, <2>1, <4>1, <4>2 DEF NoKeyTwice
      <3>2. Len(b[i]) \in Nat
        BY <1>5
      <3> QED
        BY <1>3, <3>1, <3>2
    <2> QED
      BY <1>2, <2>1 DEF NoKeyTwice
  <1> HIDE DEF was
  <1>12. \A e : e \in Pairs(n) <=> e \in Pairs(m) /\ e.key # k
    <2>1. \A x : x \in Pairs(n) <=>
            \E i \in 0 .. m.capacity - 1 : \E j \in 1 .. Len(b[i]) : b[i][j] = x
      <3>1. n.buckets = b /\ n.capacity = m.capacity
        BY <1>2
      <3>2. n.buckets \in [0 .. n.capacity - 1 -> Seq(Entry)]
        BY <1>5, <3>1
      <3>3. \A x : x \in Pairs(n) <=>
              \E i \in 0 .. n.capacity - 1 : \E j \in 1 .. Len(n.buckets[i]) : n.buckets[i][j] = x
        BY <3>2, PairsOfMap
      <3> QED
        BY <3>1, <3>3
    <2>2. \A x : x \in Pairs(m) <=>
            \E i \in 0 .. m.capacity - 1 : \E j \in 1 .. Len(m.buckets[i]) : m.buckets[i][j] = x
      BY <1>1, PairsOfMap
    <2>3. \A x \in Pairs(n) : x \in Pairs(m) /\ x.key # k
      BY <1>6, <1>8, <2>1, <2>2, SMTT(30)
    <2>4. \A x \in Pairs(m) : x.key # k => x \in Pairs(n)
      BY <1>7, <2>1, <2>2
    <2> QED
      BY <2>3, <2>4
  <1>13. KeysIn(n) = KeysIn(m) \ {k}
    <2>1. \A x : x \in KeysIn(n) <=> \E e \in Pairs(n) : e.key = x
      BY <1>2, <1>5, PairsOfMap
    <2>2. \A x : x \in KeysIn(m) <=> \E e \in Pairs(m) : e.key = x
      BY <1>1, PairsOfMap
    <2> QED
      BY <1>12, <2>1, <2>2
  <1>14. Counted(n)
    <2> DEFINE K == KeysIn(m)
    <2>1. IsFiniteSet(K) /\ m.count = Cardinality(K) /\ k \in K
      BY <1>1 DEF Counted
    <2>2. KeysIn(n) = K \ {k}
      BY <1>13
    <2> HIDE DEF K
    <2>3. IsFiniteSet(K \ {k}) /\ Cardinality(K \ {k}) = Cardinality(K) - 1
      BY <2>1, FS_RemoveElement
    <2> QED
      BY <1>2, <2>1, <2>2, <2>3 DEF Counted
  <1>15. MapOK(n)
    BY <1>10, <1>11, <1>14 DEF MapOK
  <1>16. /\ SameSettings(n, m) /\ n.it = it /\ n.capacity = m.capacity /\ n.buckets = b
    BY <1>2 DEF SameSettings
  <1> QED
    BY <1>12, <1>13, <1>15, <1>16 DEF n, b, s, c, h, p, it

-----------------------------------------------------------------------------
\* Induction over the natural numbers, for a set rather than a predicate.
LEMMA LeastOf ==
  ASSUME NEW T, T \subseteq Nat, T # {}
  PROVE  \E x \in T : \A y \in T : x <= y
  <1> DEFINE R == OpToRel(<, Nat)
  <1>1. IsWellFoundedOn(R, Nat)
    BY NatLessThanWellFounded
  <1>2. \A x \in Nat : \A y \in Nat : y < x => <<y, x>> \in R
    BY DEF OpToRel
  <1> HIDE DEF R
  <1>3. PICK x \in T : \A y \in T : ~ (<<y, x>> \in R)
    BY <1>1, WFMin
  <1>4. \A y \in T : x \in Nat /\ y \in Nat /\ ~ (y < x)
    BY <1>2, <1>3
  <1>5. \A y \in T : x <= y
    BY <1>4
  <1> QED
    BY <1>5

LEMMA Induction ==
  ASSUME NEW T, T \subseteq Nat, 0 \in T, \A n \in T : n + 1 \in T
  PROVE  T = Nat
  <1> DEFINE M == Nat \ T
  <1> SUFFICES ASSUME M # {}
               PROVE  FALSE
    OBVIOUS
  <1>1. PICK x \in M : \A y \in M : x <= y
    <2>1. M \subseteq Nat
      OBVIOUS
    <2> HIDE DEF M
    <2> QED
      BY <2>1, LeastOf
  <1>2. x \in Nat /\ x # 0 /\ x \notin T
    BY <1>1
  <1>3. x - 1 \in Nat /\ x - 1 \notin M
    BY <1>1, <1>2
  <1>4. (x - 1) + 1 \in T
    BY <1>3
  <1>5. (x - 1) + 1 = x
    BY <1>2
  <1> QED
    BY <1>2, <1>4, <1>5

\* FlattenSeq concatenates from the left.
Flattens(f, seqs) ==
  /\ SX!FlattenSeq(seqs) = f[Len(seqs)] /\ f[1] = seqs[1]
  /\ \A i \in 2 .. Len(seqs) : f[i] = f[i - 1] \o seqs[i]

LEMMA FlattenSteps ==
  ASSUME NEW S, NEW seqs \in Seq(Seq(S)), Len(seqs) > 0
  PROVE  \E f \in [1 .. Len(seqs) -> Seq(S)] : Flattens(f, seqs)
  <1> USE DEF Flattens
  <1> DEFINE N == Len(seqs)
             Turn(f) == [i \in 1 .. N |-> IF i = 1 THEN seqs[i] ELSE f[i - 1] \o seqs[i]]
             flatten == CHOOSE f : f = Turn(f)
             Good(n, g) == g[1] = seqs[1] /\ \A i \in 2 .. N : i <= n => g[i] = g[i - 1] \o seqs[i]
             T == {n \in Nat : \E g \in [1 .. N -> Seq(S)] : Good(n, g)}
  <1>1. N \in Nat /\ N > 0 /\ \A i \in 1 .. N : seqs[i] \in Seq(S)
    OBVIOUS
  <1>2. SX!FlattenSeq(seqs) = flatten[N]
    BY <1>1 DEF SX!FlattenSeq
  <1> HIDE DEF N
  <1>3. 0 \in T
    <2> DEFINE g == [i \in 1 .. N |-> seqs[1]]
    <2>1. g \in [1 .. N -> Seq(S)]
      BY <1>1
    <2>2. g[1] = seqs[1]
      BY <1>1
    <2> HIDE DEF g
    <2>3. \A i \in 2 .. N : ~ (i <= 0)
      BY <1>1
    <2>4. Good(0, g)
      BY <2>2, <2>3
    <2> HIDE DEF Good
    <2> QED
      BY <2>1, <2>4
  <1>4. ASSUME NEW n \in T PROVE n + 1 \in T
    <2>1. n \in Nat /\ \E g \in [1 .. N -> Seq(S)] : Good(n, g)
      BY <1>4
    <2>2. PICK g \in [1 .. N -> Seq(S)] : Good(n, g)
      BY <2>1
    <2>3. CASE n + 1 \notin 2 .. N
      <3>1. \A i \in 2 .. N : i <= n + 1 => i <= n
        <4> SUFFICES ASSUME NEW i \in 2 .. N, i <= n + 1 PROVE i <= n
          OBVIOUS
        <4>1. i # n + 1 /\ i \in Nat /\ n \in Nat
          BY <1>1, <2>1, <2>3
        <4> QED
          BY <4>1
      <3>2. Good(n + 1, g)
        BY <2>2, <3>1
      <3> HIDE DEF Good
      <3> QED
        BY <2>1, <3>2
    <2>4. CASE n + 1 \in 2 .. N
      <3> DEFINE s == g[n] \o seqs[n + 1]
                 h == [g EXCEPT ![n + 1] = s]
      <3>1. s \in Seq(S)
        <4>1. g[n] \in Seq(S) /\ seqs[n + 1] \in Seq(S)
          BY <1>1, <2>1, <2>4
        <4> QED
          BY <4>1, ConcatProperties
      <3>2. h \in [1 .. N -> Seq(S)]
        BY <3>1
      <3>3. /\ h[n + 1] = g[n] \o seqs[n + 1]
            /\ \A i \in 1 .. N : i # n + 1 => h[i] = g[i]
        <4>1. n + 1 \in 1 .. N
          BY <1>1, <2>4
        <4>2. s = g[n] \o seqs[n + 1]
          OBVIOUS
        <4> HIDE DEF s
        <4> QED
          BY <4>1, <4>2
      <3> HIDE DEF h, s
      <3>4. Good(n + 1, h)
        <4>1. h[1] = seqs[1]
          BY <1>1, <2>1, <2>2, <2>4, <3>3
        <4>2. ASSUME NEW i \in 2 .. N, i <= n + 1 PROVE h[i] = h[i - 1] \o seqs[i]
          <5>1. i \in 1 .. N /\ i - 1 \in 1 .. N /\ i - 1 # n + 1
            BY <1>1, <2>1, <4>2
          <5>2. h[i - 1] = g[i - 1]
            BY <3>3, <5>1
          <5>3. CASE i = n + 1
            <6>1. i - 1 = n
              BY <2>1, <5>3
            <6> QED
              BY <3>3, <5>2, <5>3, <6>1
          <5>4. CASE i # n + 1
            <6>1. i <= n
              BY <2>1, <4>2, <5>4
            <6>2. g[i] = g[i - 1] \o seqs[i]
              BY <2>2, <6>1
            <6> QED
              BY <3>3, <5>1, <5>2, <5>4, <6>2
          <5> QED
            BY <5>3, <5>4
        <4> QED
          BY <4>1, <4>2
      <3> HIDE DEF Good
      <3> QED
        BY <2>1, <3>2, <3>4
    <2> QED
      BY <2>3, <2>4
  <1>5. N \in T
    <2>1. T \subseteq Nat
      OBVIOUS
    <2> HIDE DEF T
    <2> QED
      BY <1>1, <1>3, <1>4, <2>1, Induction
  <1>6. PICK f \in [1 .. N -> Seq(S)] : Good(N, f)
    BY <1>5
  <1>7. f = Turn(f)
    <2>1. ASSUME NEW i \in 1 .. N
          PROVE  f[i] = IF i = 1 THEN seqs[i] ELSE f[i - 1] \o seqs[i]
      <3>1. CASE i = 1
        BY <1>6, <3>1
      <3>2. CASE i # 1
        <4>1. i \in 2 .. N /\ i <= N
          BY <1>1, <3>2
        <4>2. f[i] = f[i - 1] \o seqs[i]
          BY <1>6, <4>1
        <4> QED
          BY <3>2, <4>2
      <3> QED
        BY <3>1, <3>2
    <2> QED
      BY <2>1
  <1>8. flatten = Turn(flatten)
    <2> HIDE DEF Turn
    <2> QED
      BY <1>7
  <1> HIDE DEF flatten
  <1>9. flatten \in [1 .. N -> Seq(S)]
    <2> DEFINE U == {n \in Nat : \A i \in 1 .. N : i <= n => flatten[i] \in Seq(S)}
    <2>1. 0 \in U
      OBVIOUS
    <2>2. ASSUME NEW n \in U PROVE n + 1 \in U
      <3>1. n \in Nat /\ \A i \in 1 .. N : i <= n => flatten[i] \in Seq(S)
        BY <2>2
      <3>2. ASSUME NEW i \in 1 .. N, i <= n + 1 PROVE flatten[i] \in Seq(S)
        <4>1. CASE i = 1
          <5>1. flatten[i] = seqs[1]
            BY <1>8, <4>1
          <5> QED
            BY <1>1, <4>1, <5>1
        <4>2. CASE i # 1
          <5>1. flatten[i] = flatten[i - 1] \o seqs[i]
            BY <1>8, <4>2
          <5>2. i - 1 \in 1 .. N /\ i - 1 <= n
            BY <1>1, <3>1, <3>2, <4>2
          <5>3. flatten[i - 1] \in Seq(S) /\ seqs[i] \in Seq(S)
            BY <1>1, <3>1, <5>2
          <5> QED
            BY <5>1, <5>3, ConcatProperties
        <4> QED
          BY <4>1, <4>2
      <3> QED
        BY <3>1, <3>2
    <2>3. N \in U
      <3>1. U \subseteq Nat
        OBVIOUS
      <3> HIDE DEF U
      <3> QED
        BY <1>1, <2>1, <2>2, <3>1, Induction
    <2>4. DOMAIN flatten = 1 .. N /\ flatten = [i \in 1 .. N |-> flatten[i]]
      BY <1>8
    <2>5. \A i \in 1 .. N : flatten[i] \in Seq(S)
      BY <1>1, <2>3
    <2> QED
      BY <2>4, <2>5
  <1>10. flatten[1] = seqs[1]
    BY <1>1, <1>8
  <1>11. ASSUME NEW i \in 2 .. N PROVE flatten[i] = flatten[i - 1] \o seqs[i]
    <2>1. i \in 1 .. N /\ i # 1
      BY <1>1
    <2>2. flatten[i] = IF i = 1 THEN seqs[i] ELSE flatten[i - 1] \o seqs[i]
      BY <1>8, <2>1
    <2> QED
      BY <2>1, <2>2
  <1> QED
    BY <1>2, <1>9, <1>10, <1>11 DEF N

\* No two entries of the sequence s have one key.
KeysApart(s) == \A j, l \in 1 .. Len(s) : s[j].key = s[l].key => j = l

\* The sequence s has each of the entries P once, and no key twice.
Lists(s, P) ==
  s \in Seq(Entry) /\ KeysApart(s) /\ \A e : e \in P <=> \E j \in 1 .. Len(s) : s[j] = e

\* Two lists of entries that share no key make one.
LEMMA ConcatLists ==
  ASSUME NEW a, NEW b, NEW P, NEW Q, Lists(a, P), Lists(b, Q),
         \A x \in P, y \in Q : x.key # y.key
  PROVE  Lists(a \o b, P \cup Q)
  <1> DEFINE c == a \o b
  <1>1. a \in Seq(Entry) /\ b \in Seq(Entry) /\ Len(a) \in Nat /\ Len(b) \in Nat
    BY DEF Lists
  <1>2. /\ c \in Seq(Entry) /\ Len(c) = Len(a) + Len(b)
        /\ \A i \in 1 .. Len(a) + Len(b) : c[i] = IF i <= Len(a) THEN a[i] ELSE b[i - Len(a)]
    BY <1>1, ConcatProperties
  <1> HIDE DEF c
  <1>3. ASSUME NEW i \in 1 .. Len(c)
        PROVE  \/ i <= Len(a) /\ i \in 1 .. Len(a) /\ c[i] = a[i] /\ c[i] \in P
               \/ ~ (i <= Len(a)) /\ i - Len(a) \in 1 .. Len(b) /\ c[i] = b[i - Len(a)] /\ c[i] \in Q
    <2>1. CASE i <= Len(a)
      <3>1. i \in 1 .. Len(a) /\ c[i] = a[i]
        BY <1>1, <1>2, <2>1
      <3> QED
        BY <2>1, <3>1 DEF Lists
    <2>2. CASE ~ (i <= Len(a))
      <3>1. i - Len(a) \in 1 .. Len(b) /\ c[i] = b[i - Len(a)]
        BY <1>1, <1>2, <2>2
      <3> QED
        BY <2>2, <3>1 DEF Lists
    <2> QED
      BY <2>1, <2>2
  <1>4. KeysApart(c)
    <2> SUFFICES ASSUME NEW j \in 1 .. Len(c), NEW l \in 1 .. Len(c), c[j].key = c[l].key
                 PROVE  j = l
      BY DEF KeysApart
    <2>1. CASE j <= Len(a) /\ l <= Len(a)
      BY <1>3, <2>1 DEF Lists, KeysApart
    <2>2. CASE ~ (j <= Len(a)) /\ ~ (l <= Len(a))
      <3>a. j - Len(a) \in 1 .. Len(b) /\ c[j] = b[j - Len(a)]
        BY <1>3, <2>2
      <3>b. l - Len(a) \in 1 .. Len(b) /\ c[l] = b[l - Len(a)]
        BY <1>3, <2>2
      <3>c. \A x, y \in 1 .. Len(b) : b[x].key = b[y].key => x = y
        BY DEF Lists, KeysApart
      <3>1. j - Len(a) = l - Len(a)
        BY <3>a, <3>b, <3>c
      <3> QED
        BY <1>1, <1>2, <3>1
    <2>3. (j <= Len(a)) <=> (l <= Len(a))
      BY <1>3
    <2> QED
      BY <2>1, <2>2, <2>3
  <1>5. ASSUME NEW e
        PROVE  e \in P \cup Q <=> \E j \in 1 .. Len(c) : c[j] = e
    <2>1. ASSUME e \in P PROVE \E j \in 1 .. Len(c) : c[j] = e
      <3>1. PICK i \in 1 .. Len(a) : a[i] = e
        BY <2>1 DEF Lists
      <3>2. i \in 1 .. Len(c) /\ c[i] = a[i]
        BY <1>1, <1>2
      <3> QED
        BY <3>1, <3>2
    <2>2. ASSUME e \in Q PROVE \E j \in 1 .. Len(c) : c[j] = e
      <3>1. PICK i \in 1 .. Len(b) : b[i] = e
        BY <2>2 DEF Lists
      <3>2. i + Len(a) \in 1 .. Len(c) /\ ~ (i + Len(a) <= Len(a)) /\ (i + Len(a)) - Len(a) = i
        BY <1>1, <1>2
      <3>3. c[i + Len(a)] = b[i]
        BY <1>2, <3>2
      <3> QED
        BY <3>1, <3>2, <3>3
    <2>3. ASSUME NEW j \in 1 .. Len(c), c[j] = e PROVE e \in P \cup Q
      BY <1>3, <2>3
    <2> QED
      BY <2>1, <2>2, <2>3
  <1> QED
    BY <1>2, <1>4, <1>5 DEF Lists, c

\* The iterator meets every entry of a map once.
LEMMA EntriesList ==
  ASSUME NEW m, Spread(m), NoKeyTwice(m)
  PROVE  Lists(Entries(m), Pairs(m))
  <1> DEFINE N == m.capacity
             seqs == [i \in 1 .. m.capacity |-> m.buckets[i - 1]]
             Chain(i) == {m.buckets[i][j] : j \in 1 .. Len(m.buckets[i])}
             Upto(n) == UNION {Chain(i) : i \in 0 .. n - 1}
  <1>1. /\ N \in Nat /\ N > 0 /\ m.buckets \in [0 .. N - 1 -> Seq(Entry)]
        /\ \A i \in 0 .. N - 1 : m.buckets[i] \in Seq(Entry)
    <2>1. N \in Nat /\ N > 0 /\ m.buckets \in [0 .. N - 1 -> Seq(Entry)]
      BY DEF Spread, Maps
    <2> QED
      BY <2>1, ChainOf
  <1>2. /\ seqs \in Seq(Seq(Entry)) /\ Len(seqs) = N
        /\ \A i \in 1 .. N : seqs[i] = m.buckets[i - 1]
    <2>1. \A i \in 1 .. N : m.buckets[i - 1] \in Seq(Entry)
      BY <1>1
    <2>2. seqs \in [1 .. N -> Seq(Entry)] /\ \A i \in 1 .. N : seqs[i] = m.buckets[i - 1]
      BY <2>1
    <2> HIDE DEF seqs
    <2>3. ASSUME NEW S, NEW n \in Nat, NEW g \in [1 .. n -> S]
          PROVE  g \in Seq(S) /\ Len(g) = n
      OBVIOUS
    <2> QED
      BY <1>1, <2>2, <2>3
  <1>3. Entries(m) = SX!FlattenSeq(seqs)
    BY DEF Entries
  <1> HIDE DEF seqs
  <1>4. PICK f \in [1 .. N -> Seq(Entry)] :
          /\ SX!FlattenSeq(seqs) = f[N] /\ f[1] = seqs[1]
          /\ \A i \in 2 .. N : f[i] = f[i - 1] \o seqs[i]
    <2>1. \E f \in [1 .. Len(seqs) -> Seq(Entry)] : Flattens(f, seqs)
      BY <1>1, <1>2, FlattenSteps
    <2>2. Len(seqs) = N
      BY <1>2
    <2> QED
      BY <2>1, <2>2 DEF Flattens
  <1>5. \A i \in 0 .. N - 1 : Lists(m.buckets[i], Chain(i))
    BY <1>1 DEF Lists, KeysApart, NoKeyTwice
  <1>6. \A i \in 0 .. N - 1 : \A x \in Chain(i) : Home(m, x.key) = i
    BY DEF Spread
  <1> HIDE DEF Chain
  <1> DEFINE T == {n \in Nat : n + 1 \in 1 .. N => Lists(f[n + 1], Upto(n + 1))}
  <1>7. 0 \in T
    <2>1. f[1] = m.buckets[0]
      BY <1>1, <1>2, <1>4
    <2>2. Upto(1) = Chain(0)
      OBVIOUS
    <2> HIDE DEF Upto
    <2> QED
      BY <1>1, <1>5, <2>1, <2>2
  <1>8. ASSUME NEW n \in T PROVE n + 1 \in T
    <2>1. n \in Nat /\ (n + 1 \in 1 .. N => Lists(f[n + 1], Upto(n + 1)))
      BY <1>8
    <2>2. ASSUME n + 2 \in 1 .. N PROVE Lists(f[n + 2], Upto(n + 2))
      <3>1. n + 1 \in 1 .. N /\ n + 2 \in 2 .. N /\ (n + 2) - 1 = n + 1 /\ n + 1 \in 0 .. N - 1
        BY <1>1, <2>1, <2>2
      <3>2. f[n + 2] = f[n + 1] \o m.buckets[n + 1]
        BY <1>2, <1>4, <2>2, <3>1
      <3>3. \A x \in Upto(n + 1), y \in Chain(n + 1) : x.key # y.key
        <4>1. \A x \in Upto(n + 1) : \E i \in 0 .. n : x \in Chain(i)
          BY <2>1
        <4>2. \A i \in 0 .. n : i \in 0 .. N - 1 /\ i # n + 1
          BY <1>1, <2>1, <2>2
        <4> HIDE DEF Upto
        <4> QED
          BY <1>6, <3>1, <4>1, <4>2
      <3>4. Upto(n + 2) = Upto(n + 1) \cup Chain(n + 1)
        <4>1. 0 .. (n + 2) - 1 = (0 .. (n + 1) - 1) \cup {n + 1}
          BY <2>1
        <4> QED
          BY <4>1
      <3> HIDE DEF Upto
      <3> QED
        BY <1>5, <2>1, <3>1, <3>2, <3>3, <3>4, ConcatLists
    <2>3. (n + 1) + 1 = n + 2 /\ n + 1 \in Nat
      BY <2>1
    <2> HIDE DEF Upto
    <2> QED
      BY <2>2, <2>3
  <1>9. N - 1 \in T
    <2>1. T \subseteq Nat /\ N - 1 \in Nat
      BY <1>1
    <2> HIDE DEF T
    <2>2. T = Nat
      BY <1>7, <1>8, <2>1, Induction
    <2> QED
      BY <2>1, <2>2
  <1>10. Lists(f[N], Upto(N))
    <2>1. (N - 1) + 1 = N /\ N \in 1 .. N
      BY <1>1
    <2> HIDE DEF Upto
    <2> QED
      BY <1>9, <2>1
  <1>11. Upto(N) = Pairs(m)
    BY DEF Pairs, Chain
  <1> QED
    BY <1>3, <1>4, <1>10, <1>11

\* A map has as many keys as a list of its entries is long.
LEMMA CountOfList ==
  ASSUME NEW m, Spread(m), NoKeyTwice(m), NEW s, Lists(s, Pairs(m))
  PROVE  /\ Cardinality(KeysIn(m)) = Len(s) /\ IsFiniteSet(KeysIn(m))
         /\ KeysOf(s) = KeysIn(m)
  <1> DEFINE f == [j \in 1 .. Len(s) |-> s[j].key]
             K == KeysIn(m)
  <1>1. s \in Seq(Entry) /\ Len(s) \in Nat /\ DOMAIN s = 1 .. Len(s)
    BY DEF Lists
  <1>2. m.buckets \in [0 .. m.capacity - 1 -> Seq(Entry)]
    BY DEF Spread
  <1>3. \A k : k \in K <=> \E e \in Pairs(m) : e.key = k
    BY <1>2, PairsOfMap
  <1> HIDE DEF K
  <1>4. \A k : k \in K <=> \E j \in 1 .. Len(s) : s[j].key = k
    BY <1>3 DEF Lists
  <1>5. f \in Bijection(1 .. Len(s), K)
    <2>1. f \in [1 .. Len(s) -> K]
      BY <1>4
    <2>2. \A a, b \in 1 .. Len(s) : f[a] = f[b] => a = b
      BY DEF Lists, KeysApart
    <2>3. \A t \in K : \E j \in 1 .. Len(s) : f[j] = t
      BY <1>4
    <2> HIDE DEF f
    <2> QED
      BY <2>1, <2>2, <2>3 DEF Bijection, Injection, Surjection, IsInjective
  <1>6. ExistsBijection(1 .. Len(s), K)
    BY <1>5 DEF ExistsBijection
  <1>7. Cardinality(K) = Len(s) /\ IsFiniteSet(K)
    BY <1>1, <1>6, FS_CountingElements, FS_NatBijection
  <1>8. KeysOf(s) = K
    BY <1>1, <1>4 DEF KeysOf
  <1> QED
    BY <1>7, <1>8 DEF K

-----------------------------------------------------------------------------
\* What MapOK says is about the buckets and the count alone.
LEMMA SameBuckets ==
  ASSUME NEW m, MapOK(m), NEW n \in Maps,
         n.buckets = m.buckets, n.capacity = m.capacity, n.count = m.count
  PROVE  /\ MapOK(n) /\ Pairs(n) = Pairs(m) /\ KeysIn(n) = KeysIn(m)
         /\ \A k : Home(n, k) = Home(m, k) /\ Position(n, k) = Position(m, k)
                   /\ ValueIn(n, k) = ValueIn(m, k)
         /\ Entries(n) = Entries(m)
  <1>1. \A k : Home(n, k) = Home(m, k)
    BY DEF Home
  <1>2. \A k : Position(n, k) = Position(m, k)
    BY <1>1 DEF Position
  <1>3. \A k : ValueIn(n, k) = ValueIn(m, k)
    BY <1>1, <1>2 DEF ValueIn
  <1>4. Pairs(n) = Pairs(m) /\ KeysIn(n) = KeysIn(m) /\ Entries(n) = Entries(m)
    BY DEF Pairs, KeysIn, Entries
  <1>5. Spread(n)
    BY <1>1 DEF MapOK, Spread
  <1>6. NoKeyTwice(n)
    BY DEF MapOK, NoKeyTwice
  <1>7. Counted(n)
    BY <1>4 DEF MapOK, Counted
  <1> QED
    BY <1>1, <1>2, <1>3, <1>4, <1>5, <1>6, <1>7 DEF MapOK

\* The values of an iterator.
Cursors == [entry : Keys \cup {None, Freed}, nr : Nat]

\* A map whose iterator is moved is the same map.
LEMMA WithCursor ==
  ASSUME NEW m, MapOK(m), NEW it \in Cursors
  PROVE  LET n == [m EXCEPT !.it = it]
         IN  /\ MapOK(n) /\ Pairs(n) = Pairs(m) /\ KeysIn(n) = KeysIn(m)
             /\ SameSettings(n, m) /\ n.buckets = m.buckets
             /\ n.capacity = m.capacity /\ n.count = m.count /\ n.it = it
             /\ Entries(n) = Entries(m)
             /\ \A k : Home(n, k) = Home(m, k) /\ Position(n, k) = Position(m, k)
                       /\ ValueIn(n, k) = ValueIn(m, k)
  <1> DEFINE n == [m EXCEPT !.it = it]
  <1>1. m \in Maps
    BY DEF MapOK, Spread
  <1>2. n = [buckets |-> m.buckets, capacity |-> m.capacity, count |-> m.count,
             limit |-> m.limit, grow |-> m.grow, flags |-> m.flags, it |-> it]
    BY <1>1, MapFields
  <1> HIDE DEF n
  <1>3. n \in Maps
    BY <1>1, <1>2 DEF Maps, Cursors
  <1>4. n.buckets = m.buckets /\ n.capacity = m.capacity /\ n.count = m.count /\ n.it = it
    BY <1>2
  <1>5. SameSettings(n, m)
    BY <1>2 DEF SameSettings
  <1>6. /\ MapOK(n) /\ Pairs(n) = Pairs(m) /\ KeysIn(n) = KeysIn(m)
        /\ \A k : Home(n, k) = Home(m, k) /\ Position(n, k) = Position(m, k)
                  /\ ValueIn(n, k) = ValueIn(m, k)
        /\ Entries(n) = Entries(m)
    BY <1>3, <1>4, SameBuckets
  <1> QED
    BY <1>4, <1>5, <1>6 DEF n

\* Past is an iterator in the bucket of the key, at a stored key or at none.
LEMMA PastIs ==
  ASSUME NEW m, MapOK(m), NEW k \in KeysIn(m)
  PROVE  /\ Past(m, k) \in Cursors /\ Past(m, k).nr = Home(m, k)
         /\ Past(m, k).entry \in KeysIn(m) \cup {None}
  <1> DEFINE c == m.buckets[Home(m, k)]
             p == Position(m, k)
  <1>1. /\ Home(m, k) \in 0 .. m.capacity - 1 /\ m.capacity \in Nat
        /\ c \in Seq(Entry) /\ Len(c) \in Nat /\ p \in 1 .. Len(c)
    BY PositionOf DEF MapOK, Spread, Maps
  <1>2. m.buckets \in [0 .. m.capacity - 1 -> Seq(Entry)]
    BY DEF MapOK, Spread
  <1>3. Past(m, k) = [entry |-> After(c, p), nr |-> Home(m, k)]
    BY DEF Past
  <1>4. After(c, p) \in KeysIn(m) \cup {None}
    <2>1. CASE p < Len(c)
      <3>1. p + 1 \in 1 .. Len(c) /\ After(c, p) = c[p + 1].key
        BY <1>1, <2>1 DEF After
      <3>2. c[p + 1].key \in KeysIn(m)
        BY <1>1, <1>2, <3>1, KeysOfMap
      <3> QED
        BY <3>1, <3>2
    <2>2. CASE ~ (p < Len(c))
      BY <2>2 DEF After
    <2> QED
      BY <2>1, <2>2
  <1>5. After(c, p) \in Keys \cup {None, Freed}
    BY <1>2, <1>4, KeysOfMap
  <1> HIDE DEF c, p
  <1> QED
    BY <1>1, <1>3, <1>4, <1>5 DEF Cursors

\* A map of the size asked for takes over the iterator.
LEMMA RestoredMap ==
  ASSUME NEW m, NEW n, MapOK(m), MapOK(n), Pairs(n) = Pairs(m)
  PROVE  /\ Restored(m, n, n.capacity).status = "ok"
         /\ MapOK(Restored(m, n, n.capacity).map)
         /\ SameSettings(Restored(m, n, n.capacity).map, n)
         /\ Restored(m, n, n.capacity).map.capacity = n.capacity
         /\ Pairs(Restored(m, n, n.capacity).map) = Pairs(m)
         /\ m.it.nr >= m.capacity =>
              Restored(m, n, n.capacity).map.it = [entry |-> None, nr |-> n.capacity]
  <1> DEFINE r == Restored(m, n, n.capacity)
             head == m.buckets[m.it.nr][1].key
             end == [entry |-> None, nr |-> n.capacity]
  <1>1. /\ m \in Maps /\ n \in Maps /\ n.capacity \in Nat /\ m.capacity \in Nat /\ m.it.nr \in Nat
        /\ m.buckets \in [0 .. m.capacity - 1 -> Seq(Entry)]
        /\ n.buckets \in [0 .. n.capacity - 1 -> Seq(Entry)]
    BY DEF MapOK, Spread, Maps
  <1>2. CASE ~ Paused(m)
    <2>1. end \in Cursors
      BY <1>1 DEF Cursors
    <2>2. r.status = "ok" /\ r.map = [n EXCEPT !.it = end]
      BY <1>2 DEF Restored
    <2> HIDE DEF end
    <2>3. /\ MapOK(r.map) /\ SameSettings(r.map, n) /\ r.map.capacity = n.capacity
          /\ Pairs(r.map) = Pairs(m) /\ r.map.it = end
      BY <2>1, <2>2, WithCursor
    <2> HIDE DEF r
    <2> QED
      BY <2>2, <2>3 DEF end, r
  <1>3. CASE Paused(m)
    <2>1. m.it.nr \in 0 .. m.capacity - 1 /\ m.buckets[m.it.nr] # << >> /\ ~ (m.it.nr >= m.capacity)
      BY <1>1, <1>3 DEF Paused
    <2>2. 1 \in 1 .. Len(m.buckets[m.it.nr])
      <3>1. ASSUME NEW s \in Seq(Entry), s # << >> PROVE 1 \in 1 .. Len(s)
        BY <3>1
      <3> QED
        BY <1>1, <2>1, <3>1, ChainOf
    <2>3. head \in KeysIn(m)
      BY <1>1, <2>1, <2>2, KeysOfMap
    <2>4. head \in KeysIn(n)
      <3>1. \A k : k \in KeysIn(m) <=> \E e \in Pairs(m) : e.key = k
        BY <1>1, PairsOfMap
      <3>2. \A k : k \in KeysIn(n) <=> \E e \in Pairs(n) : e.key = k
        BY <1>1, PairsOfMap
      <3> HIDE DEF head
      <3> QED
        BY <2>3, <3>1, <3>2
    <2>5. Home(n, head) \in 0 .. n.capacity - 1
      BY <2>4, PositionOf DEF MapOK
    <2>6. Resumable(m, n, n.capacity)
      BY <1>1, <2>5 DEF Resumable
    <2>7. r.status = "ok" /\ r.map = [n EXCEPT !.it = Past(n, head)]
      BY <1>3, <2>6 DEF Restored
    <2>8. Past(n, head) \in Cursors
      BY <2>4, PastIs
    <2>9. /\ MapOK(r.map) /\ SameSettings(r.map, n) /\ r.map.capacity = n.capacity
          /\ Pairs(r.map) = Pairs(m)
      <3> HIDE DEF head
      <3> QED
        BY <2>7, <2>8, WithCursor
    <2> HIDE DEF r
    <2> QED
      BY <2>1, <2>7, <2>9 DEF r
  <1> QED
    BY <1>2, <1>3

-----------------------------------------------------------------------------
\* The outcomes of Filling for every number of entries exist.
LEMMA FillingFromNothing ==
  ASSUME NEW like, NEW a, NEW b
  PROVE  Filling(like, 0, a) = Filling(like, 0, b)
  BY DEF Filling

LEMMA FillingExists ==
  ASSUME NEW like
  PROVE  \E f : f = [k \in Nat |-> Filling(like, k, f[k - 1])]
  <1> DEFINE Good(n, g) == \A k \in Nat : k <= n => g[k] = Filling(like, k, g[k - 1])
             T == {n \in Nat : \E g : Good(n, g)}
  <1>1. 0 \in T
    <2> DEFINE g == [k \in Nat |-> Filling(like, 0, << >>)]
    <2>1. g[0] = Filling(like, 0, << >>)
      OBVIOUS
    <2> HIDE DEF g
    <2>2. g[0] = Filling(like, 0, g[0 - 1])
      BY <2>1, FillingFromNothing
    <2>3. Good(0, g)
      <3>1. \A k \in Nat : k <= 0 => k = 0
        OBVIOUS
      <3> QED
        BY <2>2, <3>1
    <2> HIDE DEF Good
    <2> QED
      BY <2>3
  <1>2. ASSUME NEW n \in T PROVE n + 1 \in T
    <2>1. n \in Nat /\ \E g : Good(n, g)
      BY <1>2
    <2>2. PICK g : Good(n, g)
      BY <2>1
    <2> DEFINE h == [k \in Nat |-> IF k = n + 1 THEN Filling(like, n + 1, g[n]) ELSE g[k]]
    <2>3. h[n + 1] = Filling(like, n + 1, g[n]) /\ \A k \in Nat : k # n + 1 => h[k] = g[k]
      BY <2>1
    <2> HIDE DEF h
    <2>4. ASSUME NEW k \in Nat, k <= n + 1 PROVE h[k] = Filling(like, k, h[k - 1])
      <3>1. CASE k = n + 1
        <4>1. k - 1 = n /\ n # n + 1
          BY <2>1, <3>1
        <4>2. h[k - 1] = g[n]
          BY <2>1, <2>3, <4>1
        <4> QED
          BY <2>3, <3>1, <4>2
      <3>2. CASE k # n + 1 /\ k # 0
        <4>1. k <= n /\ k - 1 \in Nat /\ k - 1 # n + 1
          BY <2>1, <2>4, <3>2
        <4>2. g[k] = Filling(like, k, g[k - 1]) /\ h[k] = g[k] /\ h[k - 1] = g[k - 1]
          BY <2>2, <2>3, <3>2, <4>1
        <4> QED
          BY <4>2
      <3>3. CASE k = 0
        <4>1. 0 # n + 1 /\ 0 <= n
          BY <2>1
        <4>2. g[0] = Filling(like, 0, g[0 - 1]) /\ h[0] = g[0]
          BY <2>2, <2>3, <4>1
        <4> QED
          BY <3>3, <4>2, FillingFromNothing
      <3> QED
        BY <3>1, <3>2, <3>3
    <2>5. Good(n + 1, h)
      BY <2>4
    <2>6. n + 1 \in Nat
      BY <2>1
    <2> HIDE DEF Good
    <2> QED
      BY <2>5, <2>6
  <1>3. T = Nat
    <2>1. T \subseteq Nat
      OBVIOUS
    <2> HIDE DEF T
    <2> QED
      BY <1>1, <1>2, <2>1, Induction
  <1> DEFINE G(n) == CHOOSE g : Good(n, g)
             f == [k \in Nat |-> G(k)[k]]
  <1>4. \A n \in Nat : Good(n, G(n))
    <2> HIDE DEF Good
    <2> QED
      BY <1>3
  <1> HIDE DEF G
  \* Two functions that are good up to n agree up to n.
  <1>5. ASSUME NEW g, NEW h, NEW p \in Nat, NEW q \in Nat, Good(p, g), Good(q, h)
        PROVE  \A n \in Nat : n <= p /\ n <= q => g[n] = h[n]
    <2> DEFINE U == {n \in Nat : n <= p /\ n <= q => g[n] = h[n]}
    <2>1. 0 \in U
      <3>1. g[0] = Filling(like, 0, g[0 - 1]) /\ h[0] = Filling(like, 0, h[0 - 1])
        BY <1>5
      <3> QED
        BY <3>1, FillingFromNothing
    <2>2. ASSUME NEW n \in U PROVE n + 1 \in U
      <3>1. n \in Nat /\ (n <= p /\ n <= q => g[n] = h[n])
        BY <2>2
      <3>2. ASSUME n + 1 <= p, n + 1 <= q PROVE g[n + 1] = h[n + 1]
        <4>1. n + 1 \in Nat /\ (n + 1) - 1 = n /\ n <= p /\ n <= q
          BY <3>1, <3>2
        <4>2. /\ g[n + 1] = Filling(like, n + 1, g[(n + 1) - 1])
              /\ h[n + 1] = Filling(like, n + 1, h[(n + 1) - 1])
          BY <1>5, <3>2, <4>1
        <4> QED
          BY <3>1, <4>1, <4>2
      <3> QED
        BY <3>1, <3>2
    <2>3. U = Nat
      <3>1. U \subseteq Nat
        OBVIOUS
      <3> HIDE DEF U
      <3> QED
        BY <2>1, <2>2, <3>1, Induction
    <2> QED
      BY <2>3
  <1>6. ASSUME NEW k \in Nat PROVE f[k] = Filling(like, k, f[k - 1])
    <2>1. Good(k, G(k)) /\ f[k] = G(k)[k]
      BY <1>4
    <2>2. f[k] = Filling(like, k, G(k)[k - 1])
      BY <2>1
    <2>3. CASE k = 0
      BY <2>2, <2>3, FillingFromNothing
    <2>4. CASE k # 0
      <3>1. k - 1 \in Nat /\ k - 1 <= k
        BY <2>4
      <3>2. Good(k - 1, G(k - 1)) /\ f[k - 1] = G(k - 1)[k - 1]
        BY <1>4, <3>1
      <3> HIDE DEF Good, f
      <3>3. G(k)[k - 1] = G(k - 1)[k - 1]
        BY <1>5, <2>1, <3>1, <3>2
      <3> QED
        BY <2>2, <3>2, <3>3
    <2> QED
      BY <2>3, <2>4
  <1>7. f = [k \in Nat |-> Filling(like, k, f[k - 1])]
    <2>1. f = [k \in Nat |-> f[k]]
      OBVIOUS
    <2> HIDE DEF f
    <2> QED
      BY <1>6, <2>1
  <1> HIDE DEF f
  <1> QED
    BY <1>7

\* Refill is what the outcomes for one entry more, step by step, come to.
LEMMA RefillSteps ==
  ASSUME NEW like
  PROVE  \E f : /\ \A c, es : Refill(like, c, es) = f[Len(es)][c][es]
                /\ \A k \in Nat : f[k] = Filling(like, k, f[k - 1])
  <1> DEFINE Turn(f) == [k \in Nat |-> Filling(like, k, f[k - 1])]
             filled == CHOOSE f : f = Turn(f)
  <1>1. \A c, es : Refill(like, c, es) = filled[Len(es)][c][es]
    BY DEF Refill
  <1>2. filled = Turn(filled)
    <2>1. \E f : f = Turn(f)
      BY FillingExists
    <2> HIDE DEF Turn
    <2> QED
      BY <2>1
  <1> HIDE DEF filled
  <1>3. \A k \in Nat : filled[k] = Filling(like, k, filled[k - 1])
    BY <1>2
  <1> QED
    BY <1>1, <1>3

-----------------------------------------------------------------------------
\* A map of size c has room for n entries, or is one of one bucket that no
\* growth by a half makes larger.
Suffices(like, c, n) == (c = 1 /\ like.grow = 3) \/ 4 * (n - 1) < c * like.limit

\* The outcome r is a map of size c, with the settings of `like', that holds es.
FillsWell(like, c, es, r) ==
  /\ r.status = "ok" /\ MapOK(r.map) /\ SameSettings(r.map, like)
  /\ r.map.capacity = c /\ Lists(es, Pairs(r.map))

\* A sequence of k + 1 entries is one of k entries and a last entry.
LEMMA FrontAndLast ==
  ASSUME NEW k \in Nat, NEW es \in Seq(Entry), Len(es) = k + 1, KeysApart(es)
  PROVE  /\ SX!Front(es) \in Seq(Entry) /\ Len(SX!Front(es)) = k /\ KeysApart(SX!Front(es))
         /\ \A j \in 1 .. k : SX!Front(es)[j] = es[j]
         /\ SX!Last(es) = es[k + 1] /\ SX!Last(es) \in Entry
         /\ \A j \in 1 .. k : es[j].key # SX!Last(es).key
  <1>1. /\ SX!Front(es) \in Seq(Entry) /\ Len(SX!Front(es)) = k
        /\ \A j \in 1 .. k : SX!Front(es)[j] = es[j]
    <2>1. Len(es) - 1 = k
      OBVIOUS
    <2>2. SX!Front(es) = SubSeq(es, 1, k)
      BY <2>1 DEF SX!Front
    <2> QED
      BY <2>2
  <1>2. SX!Last(es) = es[k + 1] /\ SX!Last(es) \in Entry
    BY DEF SX!Last
  <1>3. \A j \in 1 .. k : j \in 1 .. Len(es) /\ k + 1 \in 1 .. Len(es) /\ j # k + 1
    OBVIOUS
  <1>4. KeysApart(SX!Front(es))
    BY <1>1, <1>3 DEF KeysApart
  <1>5. \A j \in 1 .. k : es[j].key # SX!Last(es).key
    BY <1>2, <1>3 DEF KeysApart
  <1> QED
    BY <1>1, <1>2, <1>4, <1>5

\* A list and one more entry, of another key, list one more.
LEMMA ListExtended ==
  ASSUME NEW k \in Nat, NEW es \in Seq(Entry), Len(es) = k + 1, KeysApart(es),
         NEW P, Lists(SX!Front(es), P)
  PROVE  Lists(es, P \cup {SX!Last(es)})
  <1>1. /\ Len(SX!Front(es)) = k /\ SX!Last(es) = es[k + 1]
        /\ \A j \in 1 .. k : SX!Front(es)[j] = es[j]
    BY FrontAndLast
  <1>2. \A e : e \in P <=> \E j \in 1 .. k : es[j] = e
    BY <1>1 DEF Lists
  <1>3. 1 .. Len(es) = (1 .. k) \cup {k + 1}
    OBVIOUS
  <1>4. \A e : e \in P \cup {es[k + 1]} <=> \E j \in 1 .. Len(es) : es[j] = e
    BY <1>2, <1>3
  <1> QED
    BY <1>1, <1>4 DEF Lists

\* The count of a map is the length of any list of its entries.
LEMMA CountOfMap ==
  ASSUME NEW m, MapOK(m), NEW s, Lists(s, Pairs(m))
  PROVE  m.count = Len(s) /\ KeysOf(s) = KeysIn(m)
  BY CountOfList DEF MapOK, Counted

\* One entry more: the map has room for it or is rebuilt with one bucket.
LEMMA TakenWell ==
  ASSUME NEW like \in Maps, NEW c \in Nat \ {0}, NEW k \in Nat,
         NEW es \in Seq(Entry), Len(es) = k + 1, KeysApart(es), Suffices(like, c, k + 1),
         NEW r, FillsWell(like, c, SX!Front(es), r), NEW again,
         c = 1 /\ like.grow = 3 => FillsWell(like, 1, Entries(r.map), again)
  PROVE  LET size == Size(r.map, Larger(r.map))
         IN  /\ c = 1 /\ like.grow = 3 => size = 1
             /\ size = 1 \/ ~ Crowded(r.map)
             /\ FillsWell(like, c, es, Taken(r.map, SX!Last(es), Rebuilt(r.map, size, again)))
  <1> DEFINE n == r.map
             e == SX!Last(es)
             size == Size(n, Larger(n))
             grown == Rebuilt(n, size, again)
  <1>1. /\ r.status = "ok" /\ MapOK(n) /\ SameSettings(n, like) /\ n.capacity = c
        /\ Lists(SX!Front(es), Pairs(n))
    BY DEF FillsWell
  <1>2. n.count = k /\ KeysOf(SX!Front(es)) = KeysIn(n)
    BY <1>1, CountOfMap, FrontAndLast
  <1>3. e \in Entry /\ e.key \notin KeysIn(n)
    <2>1. /\ SX!Front(es) \in Seq(Entry) /\ Len(SX!Front(es)) = k
          /\ \A j \in 1 .. k : SX!Front(es)[j] = es[j]
          /\ e \in Entry /\ \A j \in 1 .. k : es[j].key # e.key
      BY FrontAndLast
    <2>2. DOMAIN SX!Front(es) = 1 .. k
      BY <2>1
    <2>3. \A x \in KeysOf(SX!Front(es)) : \E j \in 1 .. k : es[j].key = x
      BY <2>1, <2>2 DEF KeysOf
    <2> HIDE DEF e
    <2> QED
      BY <1>2, <2>1, <2>3
  <1>4. n.limit \in Nat \ {0} /\ n.limit = like.limit /\ n.grow = like.grow
    BY <1>1 DEF SameSettings, MapOK, Spread, Maps
  <1>5. ASSUME NEW g, MapOK(g), SameSettings(g, like), g.capacity = c, Pairs(g) = Pairs(n)
        PROVE  FillsWell(like, c, es, [status |-> "ok", map |-> Linked(g, e)])
    <2>1. KeysIn(g) = KeysIn(n)
      <3>1. Lists(SX!Front(es), Pairs(g))
        BY <1>1, <1>5
      <3> QED
        BY <1>2, <1>5, <3>1, CountOfMap
    <2>2. /\ MapOK(Linked(g, e)) /\ SameSettings(Linked(g, e), g)
          /\ Linked(g, e).capacity = g.capacity /\ Pairs(Linked(g, e)) = Pairs(g) \cup {e}
      BY <1>3, <1>5, <2>1, LinkedMap
    <2>3. Lists(es, Pairs(Linked(g, e)))
      BY <1>1, <1>5, <2>2, ListExtended
    <2> QED
      BY <1>5, <2>2, <2>3 DEF FillsWell, SameSettings
  <1>6. ASSUME c = 1, like.grow = 3 PROVE size = 1
    BY <1>1, <1>4, <1>6 DEF Size, Larger
  <1>7. CASE ~ Crowded(n)
    <2>1. Taken(n, e, grown) = [status |-> "ok", map |-> Linked(n, e)]
      BY <1>7 DEF Taken
    <2>2. FillsWell(like, c, es, Taken(n, e, grown))
      BY <1>1, <1>5, <2>1
    <2> QED
      BY <1>6, <1>7, <2>2
  <1>8. CASE Crowded(n)
    <2>1. c = 1 /\ like.grow = 3
      <3>1. 4 * k >= c * like.limit
        BY <1>1, <1>2, <1>4, <1>8 DEF Crowded
      <3>2. (k + 1) - 1 = k /\ c * like.limit \in Int /\ 4 * k \in Int
        BY <1>4
      <3> QED
        BY <3>1, <3>2 DEF Suffices
    <2>2. k # 0
      BY <1>1, <1>2, <1>4, <1>8, <2>1 DEF Crowded
    <2>3. /\ again.status = "ok" /\ MapOK(again.map) /\ SameSettings(again.map, like)
          /\ again.map.capacity = 1 /\ Lists(Entries(n), Pairs(again.map))
      BY <2>1 DEF FillsWell
    <2>4. Pairs(again.map) = Pairs(n) /\ Entries(n) # << >>
      <3>1. Lists(Entries(n), Pairs(n))
        BY <1>1, EntriesList DEF MapOK
      <3>2. \A x : x \in Pairs(again.map) <=> x \in Pairs(n)
        BY <2>3, <3>1 DEF Lists
      <3>3. Len(Entries(n)) = k
        BY <1>1, <1>2, <3>1, CountOfMap
      <3>4. Pairs(again.map) = Pairs(n)
        BY <3>2
      <3>5. Entries(n) # << >>
        BY <2>2, <3>3
      <3> QED
        BY <3>4, <3>5
    <2>5. size = 1
      BY <1>6, <2>1
    <2>6. grown = Restored(n, again.map, again.map.capacity)
      BY <2>3, <2>4, <2>5 DEF Rebuilt
    <2>7. /\ grown.status = "ok" /\ MapOK(grown.map) /\ SameSettings(grown.map, again.map)
          /\ grown.map.capacity = 1 /\ Pairs(grown.map) = Pairs(n)
      <3> DEFINE q == Restored(n, again.map, again.map.capacity)
      <3>1. /\ q.status = "ok" /\ MapOK(q.map) /\ SameSettings(q.map, again.map)
            /\ q.map.capacity = again.map.capacity /\ Pairs(q.map) = Pairs(n)
        BY <1>1, <2>3, <2>4, RestoredMap, ZenonT(60)
      <3> HIDE DEF grown, q
      <3> QED
        BY <2>3, <2>6, <3>1 DEF q
    <2>8. MayGrow(n)
      BY <1>4, <2>1 DEF MayGrow
    <2>9. Taken(n, e, grown) = [status |-> "ok", map |-> Linked(grown.map, e)]
      BY <1>8, <2>7, <2>8 DEF Taken
    <2>10. SameSettings(grown.map, like)
      BY <2>3, <2>7 DEF SameSettings
    <2>11. FillsWell(like, c, es, Taken(n, e, grown))
      <3> HIDE DEF grown
      <3> QED
        BY <1>5, <2>1, <2>7, <2>9, <2>10
    <2> QED
      BY <1>6, <2>5, <2>11
  <1> QED
    BY <1>7, <1>8

\* Filling, applied.
LEMMA FillingAt ==
  ASSUME NEW like, NEW k, NEW before, NEW c \in Nat, NEW es \in Seq(Entry)
  PROVE  Filling(like, k, before)[c][es] =
           IF k = 0 THEN [status |-> "ok", map |-> Empty(c, like)]
           ELSE LET r    == before[c][SX!Front(es)]
                    size == Size(r.map, Larger(r.map))
                IN  IF r.status # "ok" THEN r
                    ELSE Taken(r.map, SX!Last(es),
                               Rebuilt(r.map, size, before[size][Entries(r.map)]))
  BY DEF Filling

\* Filling with one entry more, when those before it were taken.
LEMMA FillingNext ==
  ASSUME NEW like, NEW k, k # 0, NEW before, NEW c \in Nat, NEW es \in Seq(Entry),
         NEW r, r = before[c][SX!Front(es)], r.status = "ok",
         NEW size, size = Size(r.map, Larger(r.map))
  PROVE  Filling(like, k, before)[c][es] =
           Taken(r.map, SX!Last(es), Rebuilt(r.map, size, before[size][Entries(r.map)]))
  BY DEF Filling

\* A map that suffices for the entries takes them all, at the size asked for.
LEMMA RefillWell ==
  ASSUME NEW like \in Maps, NEW c \in Nat \ {0}, NEW es \in Seq(Entry),
         KeysApart(es), Suffices(like, c, Len(es))
  PROVE  FillsWell(like, c, es, Refill(like, c, es))
  <1>1. PICK f : /\ \A d, s : Refill(like, d, s) = f[Len(s)][d][s]
                 /\ \A k \in Nat : f[k] = Filling(like, k, f[k - 1])
    BY RefillSteps
  <1> DEFINE Fillable(k, d, s) == Len(s) = k /\ KeysApart(s) /\ Suffices(like, d, k)
             T == {k \in Nat : \A d \in Nat \ {0}, s \in Seq(Entry) :
                     Fillable(k, d, s) => FillsWell(like, d, s, f[k][d][s])}
  <1>2. 0 \in T
    <2> SUFFICES ASSUME NEW d \in Nat \ {0}, NEW s \in Seq(Entry), Fillable(0, d, s)
                 PROVE  FillsWell(like, d, s, f[0][d][s])
      OBVIOUS
    <2>1. f[0] = Filling(like, 0, f[0 - 1])
      BY <1>1
    <2>2. f[0][d][s] = [status |-> "ok", map |-> Empty(d, like)]
      <3> DEFINE before == f[0 - 1]
      <3> HIDE DEF before
      <3>1. Filling(like, 0, before)[d][s] = [status |-> "ok", map |-> Empty(d, like)]
        BY DEF Filling
      <3> QED
        BY <2>1, <3>1 DEF before
    <2>3. /\ MapOK(Empty(d, like)) /\ Empty(d, like).capacity = d
          /\ SameSettings(Empty(d, like), like) /\ Pairs(Empty(d, like)) = {}
      BY EmptyMap
    <2>4. Lists(s, {})
      <3>1. \A j : j \notin 1 .. Len(s)
        OBVIOUS
      <3> QED
        BY <3>1 DEF Lists
    <2>5. FillsWell(like, d, s, [status |-> "ok", map |-> Empty(d, like)])
      <3> DEFINE n == Empty(d, like)
      <3> HIDE DEF n
      <3> QED
        BY <2>3, <2>4 DEF FillsWell, n
    <2> QED
      BY <2>2, <2>5
  <1>3. ASSUME NEW k \in T PROVE k + 1 \in T
    <2>1. k \in Nat /\ \A d \in Nat \ {0}, s \in Seq(Entry) :
                         Fillable(k, d, s) => FillsWell(like, d, s, f[k][d][s])
      BY <1>3
    <2>2. ASSUME NEW d \in Nat \ {0}, NEW s \in Seq(Entry), Fillable(k + 1, d, s)
          PROVE  FillsWell(like, d, s, f[k + 1][d][s])
      <3> DEFINE before == f[k]
                 r == before[d][SX!Front(s)]
                 size == Size(r.map, Larger(r.map))
                 again == before[size][Entries(r.map)]
                 again1 == before[1][Entries(r.map)]
      <3>1. f[k + 1] = Filling(like, k + 1, before)
        <4>1. k + 1 \in Nat /\ (k + 1) - 1 = k
          BY <2>1
        <4> QED
          BY <1>1, <4>1
      <3> HIDE DEF before
      <3>3. /\ Len(s) = k + 1 /\ KeysApart(s) /\ Suffices(like, d, k + 1)
            /\ SX!Front(s) \in Seq(Entry) /\ Len(SX!Front(s)) = k /\ KeysApart(SX!Front(s))
        BY <2>1, <2>2, FrontAndLast
      <3>4. Suffices(like, d, k)
        <4>1. like.limit \in Nat
          BY DEF Maps
        <4>2. d * like.limit \in Nat
          BY <4>1
        <4> QED
          BY <2>1, <3>3, <4>2 DEF Suffices
      <3>5. FillsWell(like, d, SX!Front(s), r)
        BY <2>1, <3>3, <3>4 DEF before
      <3>6. ASSUME d = 1, like.grow = 3 PROVE FillsWell(like, 1, Entries(r.map), again1)
        <4>1. MapOK(r.map) /\ Lists(SX!Front(s), Pairs(r.map))
          BY <3>5 DEF FillsWell
        <4> DEFINE q == Entries(r.map)
        <4>2. Lists(q, Pairs(r.map))
          BY <4>1, EntriesList DEF MapOK
        <4> HIDE DEF r
        <4>3. r.map.count = Len(q)
          BY <4>1, <4>2, CountOfMap
        <4>4. r.map.count = Len(SX!Front(s))
          BY <4>1, CountOfMap
        <4>5. Fillable(k, 1, q)
          <5>1. Len(q) = k
            BY <3>3, <4>3, <4>4
          <5> QED
            BY <3>6, <4>2, <5>1 DEF Lists, Suffices
        <4>6. q \in Seq(Entry) /\ 1 \in Nat \ {0}
          BY <4>2 DEF Lists
        <4> HIDE DEF q, Fillable
        <4>7. FillsWell(like, 1, q, f[k][1][q])
          BY <2>1, <4>5, <4>6
        <4> QED
          BY <4>7 DEF q, before
      <3> HIDE DEF r
      <3>7. d = 1 /\ like.grow = 3 => size = 1
        BY <2>1, <3>3, <3>5, <3>6, TakenWell
      <3>8. /\ size = 1 \/ ~ Crowded(r.map)
            /\ FillsWell(like, d, s, Taken(r.map, SX!Last(s), Rebuilt(r.map, size, again1)))
        BY <2>1, <3>3, <3>5, <3>6, TakenWell
      <3>9. Taken(r.map, SX!Last(s), Rebuilt(r.map, size, again)) =
              Taken(r.map, SX!Last(s), Rebuilt(r.map, size, again1))
        <4>1. CASE size = 1
          <5>1. again = again1
            BY <4>1
          <5> HIDE DEF again, again1
          <5> QED
            BY <5>1
        <4>2. CASE ~ Crowded(r.map)
          <5> HIDE DEF again, again1, size
          <5> QED
            BY <4>2 DEF Taken
        <4> QED
          BY <3>8, <4>1, <4>2
      <3>10. r.status = "ok"
        BY <3>5 DEF FillsWell
      <3>2. f[k + 1][d][s] = Taken(r.map, SX!Last(s), Rebuilt(r.map, size, again))
        <4>1. k + 1 # 0
          BY <2>1
        <4>2. r = before[d][SX!Front(s)]
          BY DEF r
        <4> HIDE DEF size
        <4>3. size = Size(r.map, Larger(r.map))
          BY DEF size
        <4>4. Filling(like, k + 1, before)[d][s] =
                Taken(r.map, SX!Last(s), Rebuilt(r.map, size, before[size][Entries(r.map)]))
          BY <3>10, <4>1, <4>2, <4>3, FillingNext
        <4> HIDE DEF before
        <4> QED
          BY <3>1, <4>4
      <3> HIDE DEF size, again, again1
      <3> QED
        BY <3>2, <3>8, <3>9
    <2>3. k + 1 \in Nat
      BY <2>1
    <2> HIDE DEF Fillable
    <2> QED
      BY <2>2, <2>3
  <1>4. Len(es) \in T
    <2>1. T \subseteq Nat /\ Len(es) \in Nat
      OBVIOUS
    <2> HIDE DEF T
    <2>2. T = Nat
      BY <1>2, <1>3, <2>1, Induction
    <2> QED
      BY <2>1, <2>2
  <1>5. Fillable(Len(es), c, es)
    OBVIOUS
  <1> HIDE DEF Fillable
  <1>6. FillsWell(like, c, es, f[Len(es)][c][es])
    BY <1>4, <1>5
  <1> QED
    BY <1>1, <1>6

\* Growth with care: the map is rebuilt at its new size with all its entries,
\* and an iterator at the end stays at the end.
LEMMA RehashWell ==
  ASSUME NEW m, MapOK(m), NEW c \in Nat \ {0}, KeysIn(m) # {},
         Suffices(m, Size(m, c), m.count)
  PROVE  /\ Rehash(m, c).status = "ok" /\ MapOK(Rehash(m, c).map)
         /\ SameSettings(Rehash(m, c).map, m) /\ Rehash(m, c).map.capacity = Size(m, c)
         /\ Pairs(Rehash(m, c).map) = Pairs(m)
         /\ m.it.nr >= m.capacity =>
              Rehash(m, c).map.it = [entry |-> None, nr |-> Size(m, c)]
  <1> DEFINE es == Entries(m)
             size == Size(m, c)
             r == Refill(m, size, es)
  <1>1. m \in Maps /\ m.capacity \in Nat
    BY DEF MapOK, Spread, Maps
  <1>2. size \in Nat \ {0}
    BY <1>1 DEF Size
  <1>3. Lists(es, Pairs(m)) /\ m.count = Len(es) /\ KeysOf(es) = KeysIn(m)
    BY EntriesList, CountOfMap DEF MapOK
  <1>4. es # << >>
    BY <1>3 DEF KeysOf
  <1> HIDE DEF es, size
  <1>5. FillsWell(m, size, es, r)
    <2>1. es \in Seq(Entry) /\ KeysApart(es) /\ Suffices(m, size, Len(es))
      BY <1>3 DEF Lists, size
    <2> QED
      BY <1>1, <1>2, <2>1, RefillWell
  <1>6. Rehash(m, c) = Rebuilt(m, size, r)
    BY DEF Rehash, size, es
  <1> HIDE DEF r
  <1>7. /\ r.status = "ok" /\ MapOK(r.map) /\ SameSettings(r.map, m)
        /\ r.map.capacity = size /\ Lists(es, Pairs(r.map))
    BY <1>5 DEF FillsWell
  <1>8. Pairs(r.map) = Pairs(m)
    <2>1. \A x : x \in Pairs(r.map) <=> x \in Pairs(m)
      BY <1>3, <1>7 DEF Lists
    <2> QED
      BY <2>1
  <1>9. Rehash(m, c) = Restored(m, r.map, r.map.capacity)
    BY <1>4, <1>6, <1>7 DEF Rebuilt, es
  <1> DEFINE q == Restored(m, r.map, r.map.capacity)
  <1>10. /\ q.status = "ok" /\ MapOK(q.map) /\ SameSettings(q.map, r.map)
         /\ q.map.capacity = r.map.capacity /\ Pairs(q.map) = Pairs(m)
         /\ m.it.nr >= m.capacity => q.map.it = [entry |-> None, nr |-> r.map.capacity]
    BY <1>7, <1>8, RestoredMap, ZenonT(60)
  <1>11. /\ Rehash(m, c).status = "ok" /\ MapOK(Rehash(m, c).map)
         /\ SameSettings(Rehash(m, c).map, r.map) /\ Rehash(m, c).map.capacity = size
         /\ Pairs(Rehash(m, c).map) = Pairs(m)
         /\ m.it.nr >= m.capacity => Rehash(m, c).map.it = [entry |-> None, nr |-> size]
    BY <1>7, <1>9, <1>10
  <1> QED
    BY <1>7, <1>11 DEF size, SameSettings

-----------------------------------------------------------------------------
\* A key that lies at j of bucket i is stored, and Position finds it there.
LEMMA PlaceOf ==
  ASSUME NEW m, Spread(m), NoKeyTwice(m), NEW i \in 0 .. m.capacity - 1,
         NEW j \in 1 .. Len(m.buckets[i])
  PROVE  /\ m.buckets[i][j].key \in KeysIn(m) /\ m.buckets[i][j].key \in Keys
         /\ Home(m, m.buckets[i][j].key) = i /\ Position(m, m.buckets[i][j].key) = j
  <1> DEFINE k == m.buckets[i][j].key
  <1>1. m.buckets \in [0 .. m.capacity - 1 -> Seq(Entry)]
    BY DEF Spread
  <1>2. k \in KeysIn(m) /\ k \in Keys
    BY <1>1, KeysOfMap
  <1>3. Home(m, k) = i
    BY DEF Spread
  <1>4. Position(m, k) = j
    BY <1>2, <1>3, PositionOf
  <1> QED
    BY <1>2, <1>3, <1>4

\* Two keys in one place are one key.
LEMMA KeyOfPlace ==
  ASSUME NEW m, MapOK(m), NEW x \in KeysIn(m), NEW y \in KeysIn(m),
         Home(m, x) = Home(m, y), Position(m, x) = Position(m, y)
  PROVE  x = y
  <1>1. /\ m.buckets[Home(m, x)][Position(m, x)].key = x
        /\ m.buckets[Home(m, y)][Position(m, y)].key = y
    BY PositionOf DEF MapOK
  <1> QED
    BY <1>1

\* The iterator is in a bucket, at one of its entries or behind the last.
CursorOK(m) ==
  /\ m.it.nr < m.capacity
  /\ m.it.entry # None => m.it.entry \in KeysIn(m) /\ Home(m, m.it.entry) = m.it.nr

\* The keys the iterator has before it, and those it has behind k.
Ahead(m) ==
  {x \in KeysIn(m) :
     \/ Home(m, x) > m.it.nr
     \/ Home(m, x) = m.it.nr /\ m.it.entry \in KeysIn(m)
          /\ Position(m, x) >= Position(m, m.it.entry)}

Later(m, k) ==
  {x \in KeysIn(m) :
     \/ Home(m, x) > Home(m, k)
     \/ Home(m, x) = Home(m, k) /\ Position(m, x) > Position(m, k)}

\* What a call to Foreach has to choose from.
Rest(m) == IF AtEnd(m) THEN KeysIn(m) ELSE Ahead(m)

\* Bucket numbers and positions are natural numbers, and keys are not NULL.
LEMMA NumbersOf ==
  ASSUME NEW m, MapOK(m)
  PROVE  /\ m.capacity \in Nat /\ m.it.nr \in Nat
         /\ \A x \in KeysIn(m) : Home(m, x) \in Nat /\ Home(m, x) < m.capacity
                                 /\ Position(m, x) \in Nat /\ Position(m, x) >= 1
         /\ \A x \in KeysIn(m) : x # None /\ x # Freed
  <1>1. m.capacity \in Nat /\ m.it.nr \in Nat
    BY DEF MapOK, Spread, Maps
  <1>2. ASSUME NEW x \in KeysIn(m)
        PROVE  /\ Home(m, x) \in Nat /\ Home(m, x) < m.capacity
               /\ Position(m, x) \in Nat /\ Position(m, x) >= 1
               /\ x # None /\ x # Freed
    <2>1. /\ Home(m, x) \in 0 .. m.capacity - 1
          /\ Position(m, x) \in 1 .. Len(m.buckets[Home(m, x)]) /\ x \in Keys
      BY PositionOf DEF MapOK
    <2> QED
      BY <1>1, <2>1, HashmapAssumption
  <1> QED
    BY <1>1, <1>2

\* An iterator that has handed out k has before it what lies behind k.
LEMMA PastAhead ==
  ASSUME NEW m, MapOK(m), NEW k \in KeysIn(m), NEW n, n = [m EXCEPT !.it = Past(m, k)]
  PROVE  MapOK(n) /\ CursorOK(n) /\ Ahead(n) = Later(m, k)
  <1> DEFINE h == Home(m, k)
             c == m.buckets[h]
             p == Position(m, k)
  <1>1. /\ h \in 0 .. m.capacity - 1 /\ m.capacity \in Nat
        /\ c \in Seq(Entry) /\ Len(c) \in Nat /\ p \in 1 .. Len(c)
    BY PositionOf, SMTT(30) DEF MapOK, Spread, Maps
  <1>2. Past(m, k) \in Cursors /\ Past(m, k) = [entry |-> After(c, p), nr |-> h]
    BY PastIs DEF Past
  <1>3. /\ MapOK(n) /\ KeysIn(n) = KeysIn(m) /\ n.capacity = m.capacity /\ n.it = Past(m, k)
        /\ \A x : Home(n, x) = Home(m, x) /\ Position(n, x) = Position(m, x)
    BY <1>2, WithCursor
  <1>4. n.it.entry = After(c, p) /\ n.it.nr = h
    BY <1>2, <1>3
  <1>5. \A x \in KeysIn(m) : Home(m, x) = h => Position(m, x) \in 1 .. Len(c)
    BY PositionOf DEF MapOK
  <1>6. CASE p < Len(c)
    <2> DEFINE y == c[p + 1].key
    <2>1. p + 1 \in 1 .. Len(c) /\ After(c, p) = y
      BY <1>1, <1>6 DEF After
    <2>2. y \in KeysIn(m) /\ Home(m, y) = h /\ Position(m, y) = p + 1
      BY <1>1, <2>1, PlaceOf, SMTT(30) DEF MapOK
    <2> HIDE DEF y
    <2>3. CursorOK(n)
      BY <1>1, <1>3, <1>4, <2>1, <2>2 DEF CursorOK
    <2>4. ASSUME NEW x \in KeysIn(m)
          PROVE  x \in Ahead(n) <=> x \in Later(m, k)
      <3>1. x \in Ahead(n) <=> Home(m, x) > h \/ (Home(m, x) = h /\ Position(m, x) >= p + 1)
        BY <1>3, <1>4, <2>1, <2>2 DEF Ahead
      <3>2. Position(m, x) \in Nat /\ p \in Nat
        BY <1>1, NumbersOf
      <3>3. Position(m, x) >= p + 1 <=> Position(m, x) > p
        BY <3>2
      <3> QED
        BY <3>1, <3>3 DEF Later
    <2>5. Ahead(n) = Later(m, k)
      <3>1. \A x \in Ahead(n) : x \in KeysIn(m)
        BY <1>3 DEF Ahead
      <3>2. \A x \in Later(m, k) : x \in KeysIn(m)
        BY DEF Later
      <3> QED
        BY <2>4, <3>1, <3>2
    <2> QED
      BY <1>3, <2>3, <2>5
  <1>7. CASE ~ (p < Len(c))
    <2>1. n.it.entry = None /\ p = Len(c)
      BY <1>1, <1>4, <1>7 DEF After
    <2>2. CursorOK(n)
      BY <1>1, <1>3, <1>4, <2>1 DEF CursorOK
    <2>3. None \notin KeysIn(m)
      BY NumbersOf
    <2>4. \A x \in KeysIn(m) : Home(m, x) = h => ~ (Position(m, x) > p)
      BY <1>1, <1>5, <2>1
    <2>5. Ahead(n) = {x \in KeysIn(m) : Home(m, x) > h}
      BY <1>3, <1>4, <2>1, <2>3 DEF Ahead
    <2>6. Later(m, k) = {x \in KeysIn(m) : Home(m, x) > h}
      BY <2>4 DEF Later
    <2> QED
      BY <1>3, <2>2, <2>5, <2>6
  <1> QED
    BY <1>6, <1>7

\* Foreach hands out the first of the keys it has before it.
LEMMA NextIsFirst ==
  ASSUME NEW m, MapOK(m), CursorOK(m) \/ AtEnd(m)
  PROVE  /\ m.it.entry # Freed
         /\ NextKey(m) = None => Rest(m) = {}
         /\ NextKey(m) # None =>
              NextKey(m) \in KeysIn(m) /\ Rest(m) = {NextKey(m)} \cup Later(m, NextKey(m))
  <1> DEFINE k == NextKey(m)
  <1>1. /\ m.capacity \in Nat /\ m.it.nr \in Nat
        /\ \A x \in KeysIn(m) : Home(m, x) \in Nat /\ Home(m, x) < m.capacity
                                /\ Position(m, x) \in Nat /\ Position(m, x) >= 1
        /\ \A x \in KeysIn(m) : x # None /\ x # Freed
    BY NumbersOf
  <1>2. m.it.entry # None => m.it.entry \in KeysIn(m) /\ Home(m, m.it.entry) = m.it.nr
    BY DEF CursorOK, AtEnd
  <1>3. m.it.entry # Freed
    BY <1>1, <1>2, HashmapAssumption
  <1>4. CASE m.it.entry # None
    <2>1. k = m.it.entry /\ k \in KeysIn(m) /\ Home(m, k) = m.it.nr /\ ~ AtEnd(m)
      BY <1>2, <1>4 DEF NextKey, AtEnd
    <2> HIDE DEF k
    <2>2. ASSUME NEW x \in KeysIn(m)
          PROVE  x \in Ahead(m) <=> x = k \/ x \in Later(m, k)
      <3>1. x \in Ahead(m) <=> \/ Home(m, x) > m.it.nr
                             \/ /\ Home(m, x) = m.it.nr
                                /\ Position(m, x) >= Position(m, k)
        BY <2>1 DEF Ahead
      <3>2. Home(m, x) = Home(m, k) /\ Position(m, x) = Position(m, k) => x = k
        BY <2>1, KeyOfPlace
      <3>3. Position(m, x) \in Nat /\ Position(m, k) \in Nat
        BY <1>1, <2>1
      <3>4. Position(m, x) >= Position(m, k) <=>
              Position(m, x) > Position(m, k) \/ Position(m, x) = Position(m, k)
        BY <3>3
      <3> QED
        BY <2>1, <3>1, <3>2, <3>4 DEF Later
    <2>3. Ahead(m) = {k} \cup Later(m, k)
      <3>1. \A x \in Ahead(m) : x \in KeysIn(m)
        BY DEF Ahead
      <3>2. \A x \in Later(m, k) : x \in KeysIn(m)
        BY DEF Later
      <3> QED
        BY <2>1, <2>2, <3>1, <3>2
    <2> QED
      BY <1>1, <1>3, <2>1, <2>3 DEF Rest, k
  <1>5. CASE m.it.entry = None
    <2> DEFINE start == IF AtEnd(m) THEN 0 ELSE m.it.nr + 1
               from == Occupied(m, start)
    <2>1. start \in Nat
      BY <1>1
    <2>2. \A x : x \in Rest(m) <=> x \in KeysIn(m) /\ Home(m, x) >= start
      <3>1. CASE AtEnd(m)
        BY <1>1, <3>1 DEF Rest
      <3>2. CASE ~ AtEnd(m)
        <4>1. \A x : x \in Ahead(m) <=> x \in KeysIn(m) /\ Home(m, x) > m.it.nr
          BY <1>1, <1>5 DEF Ahead
        <4>2. \A x \in KeysIn(m) : Home(m, x) > m.it.nr <=> Home(m, x) >= m.it.nr + 1
          BY <1>1
        <4> QED
          BY <3>2, <4>1, <4>2 DEF Rest
      <3> QED
        BY <3>1, <3>2
    <2>3. k = IF from = {} THEN None ELSE m.buckets[First(from)][1].key
      BY <1>5 DEF NextKey
    <2> HIDE DEF start
    <2>4. \A i : i \in from <=> i \in 0 .. m.capacity - 1 /\ i >= start /\ m.buckets[i] # << >>
      BY <1>1, <2>1 DEF Occupied
    <2> HIDE DEF from, k
    <2>5. \A x \in Rest(m) : Home(m, x) \in from
      <3> SUFFICES ASSUME NEW x \in Rest(m) PROVE Home(m, x) \in from
        OBVIOUS
      <3>1. /\ x \in KeysIn(m) /\ Home(m, x) >= start
        BY <2>2
      <3>2. /\ Home(m, x) \in 0 .. m.capacity - 1
            /\ Position(m, x) \in 1 .. Len(m.buckets[Home(m, x)])
        BY <3>1, PositionOf DEF MapOK
      <3>3. m.buckets[Home(m, x)] # << >>
        BY <3>2
      <3> QED
        BY <2>4, <3>1, <3>2, <3>3
    <2>6. CASE from = {}
      <3>1. Rest(m) = {} /\ k = None
        BY <2>3, <2>5, <2>6
      <3> QED
        BY <1>3, <3>1 DEF k
    <2>7. CASE from # {}
      <3> DEFINE i == First(from)
      <3>1. i \in from /\ \A j \in from : i <= j
        <4>1. from \subseteq Nat
          BY <1>1, <2>4
        <4>2. \E x \in from : \A y \in from : x <= y
          BY <2>7, <4>1, LeastOf
        <4> QED
          BY <4>2 DEF First
      <3> HIDE DEF i
      <3>2. i \in 0 .. m.capacity - 1 /\ i >= start /\ m.buckets[i] # << >>
        BY <2>4, <3>1
      <3>3. 1 \in 1 .. Len(m.buckets[i])
        <4>1. m.buckets[i] \in Seq(Entry)
          BY <3>2, ChainOf DEF MapOK, Spread
        <4>2. ASSUME NEW s \in Seq(Entry), s # << >> PROVE 1 \in 1 .. Len(s)
          BY <4>2
        <4> QED
          BY <3>2, <4>1, <4>2
      <3>4. k = m.buckets[i][1].key
        BY <2>3, <2>7 DEF i
      <3>5. k \in KeysIn(m) /\ Home(m, k) = i /\ Position(m, k) = 1
        BY <3>2, <3>3, <3>4, PlaceOf DEF MapOK
      <3>6. ASSUME NEW x \in KeysIn(m)
            PROVE  x \in Rest(m) <=> x = k \/ x \in Later(m, k)
        <4>1. Home(m, x) \in Nat /\ Position(m, x) \in Nat /\ Position(m, x) >= 1
          BY <1>1
        <4>2. ASSUME x \in Rest(m) PROVE x = k \/ x \in Later(m, k)
          <5>1. i <= Home(m, x)
            BY <2>5, <3>1, <4>2
          <5>2. CASE Home(m, x) > i
            BY <3>5, <5>2 DEF Later
          <5>3. CASE Home(m, x) = i /\ Position(m, x) > 1
            BY <3>5, <5>3 DEF Later
          <5>4. CASE Home(m, x) = i /\ Position(m, x) = 1
            BY <3>5, <5>4, KeyOfPlace
          <5> QED
            BY <3>2, <4>1, <5>1, <5>2, <5>3, <5>4
        <4>3. ASSUME x = k \/ x \in Later(m, k) PROVE x \in Rest(m)
          <5>1. Home(m, x) >= i
            BY <3>2, <3>5, <4>1, <4>3 DEF Later
          <5>2. Home(m, x) >= start
            BY <2>1, <3>2, <4>1, <5>1
          <5> QED
            BY <2>2, <5>2
        <4> QED
          BY <4>2, <4>3
      <3>7. Rest(m) = {k} \cup Later(m, k)
        <4>1. \A x \in Rest(m) : x \in KeysIn(m)
          BY <2>2
        <4>2. \A x \in Later(m, k) : x \in KeysIn(m)
          BY DEF Later
        <4> QED
          BY <3>5, <3>6, <4>1, <4>2
      <3> QED
        BY <1>1, <1>3, <3>5, <3>7 DEF k
    <2> QED
      BY <2>6, <2>7
  <1> QED
    BY <1>4, <1>5

-----------------------------------------------------------------------------
\* A new entry disturbs the place of no other.
LEMMA LinkedPlaces ==
  ASSUME NEW m, MapOK(m), NEW e \in Entry, e.key \notin KeysIn(m),
         NEW n, n = Linked(m, e)
  PROVE  \A x \in KeysIn(m) : Home(n, x) = Home(m, x) /\ Position(n, x) = Position(m, x)
  <1>1. /\ MapOK(n) /\ n.capacity = m.capacity
        /\ n.buckets = [m.buckets EXCEPT ![Home(m, e.key)] = Append(@, e)]
    BY LinkedMap
  <1>2. SUFFICES ASSUME NEW x \in KeysIn(m)
                 PROVE  Home(n, x) = Home(m, x) /\ Position(n, x) = Position(m, x)
    OBVIOUS
  <1> DEFINE i == Home(m, x)
             j == Position(m, x)
  <1>3. /\ i \in 0 .. m.capacity - 1 /\ m.buckets[i] \in Seq(Entry)
        /\ j \in 1 .. Len(m.buckets[i]) /\ m.buckets[i][j].key = x
    BY PositionOf DEF MapOK
  <1>4. m.buckets \in [0 .. m.capacity - 1 -> Seq(Entry)]
    BY DEF MapOK, Spread
  <1> HIDE DEF i, j
  <1>5. n.buckets[i] = m.buckets[i] \/ n.buckets[i] = Append(m.buckets[i], e)
    BY <1>1, <1>3, <1>4
  <1>6. j \in 1 .. Len(n.buckets[i]) /\ n.buckets[i][j] = m.buckets[i][j]
    BY <1>3, <1>5
  <1>7. Home(n, x) = i /\ Position(n, x) = j
    <2>1. Spread(n) /\ NoKeyTwice(n) /\ x \in KeysIn(n) /\ Home(n, x) = i
      <3>1. KeysIn(n) = KeysIn(m) \cup {e.key}
        BY LinkedMap
      <3>2. Spread(n) /\ NoKeyTwice(n)
        BY <1>1 DEF MapOK
      <3> QED
        BY <1>1, <3>1, <3>2 DEF Home, i
    <2>2. n.buckets[i][j].key = x
      BY <1>3, <1>6
    <2>3. \A l \in 1 .. Len(n.buckets[Home(n, x)]) :
            n.buckets[Home(n, x)][l].key = x => l = Position(n, x)
      BY <2>1, PositionOf
    <2> QED
      BY <1>6, <2>1, <2>2, <2>3
  <1> QED
    BY <1>7 DEF i, j

\* A freed entry moves those behind it in its chain, and no other.
LEMMA UnlinkedPlaces ==
  ASSUME NEW m, MapOK(m), NEW k \in KeysIn(m), NEW n, n = Unlinked(m, k)
  PROVE  \A x \in KeysIn(m) \ {k} :
           /\ Home(n, x) = Home(m, x)
           /\ Position(n, x) = IF Home(m, x) = Home(m, k) /\ Position(m, x) > Position(m, k)
                               THEN Position(m, x) - 1 ELSE Position(m, x)
  <1>1. /\ MapOK(n) /\ n.capacity = m.capacity
        /\ n.buckets = [m.buckets EXCEPT ![Home(m, k)] = SX!RemoveAt(@, Position(m, k))]
    BY UnlinkedMap
  <1>2. m.buckets \in [0 .. m.capacity - 1 -> Seq(Entry)]
    BY DEF MapOK, Spread
  <1> DEFINE h == Home(m, k)
             p == Position(m, k)
             b == SX!RemoveAt(m.buckets[h], p)
  <1>3. /\ h \in 0 .. m.capacity - 1 /\ m.buckets[h] \in Seq(Entry)
        /\ p \in 1 .. Len(m.buckets[h])
    BY PositionOf DEF MapOK
  <1>4. /\ b \in Seq(Entry) /\ Len(b) = Len(m.buckets[h]) - 1
        /\ \A j \in 1 .. Len(m.buckets[h]) - 1 :
             b[j] = IF j < p THEN m.buckets[h][j] ELSE m.buckets[h][j + 1]
    BY <1>3, RemoveAtSeq
  <1> HIDE DEF h, p, b
  <1>5. n.buckets[h] = b /\ \A i \in 0 .. m.capacity - 1 : i # h => n.buckets[i] = m.buckets[i]
    BY <1>1, <1>2, <1>3 DEF h, p, b
  <1>6. SUFFICES ASSUME NEW x \in KeysIn(m) \ {k}
                 PROVE  /\ Home(n, x) = Home(m, x)
                        /\ Position(n, x) =
                             IF Home(m, x) = h /\ Position(m, x) > p
                             THEN Position(m, x) - 1 ELSE Position(m, x)
    BY DEF h, p
  <1> DEFINE i == Home(m, x)
             q == Position(m, x)
             j == IF i = h /\ q > p THEN q - 1 ELSE q
  <1>7. /\ i \in 0 .. m.capacity - 1 /\ m.buckets[i] \in Seq(Entry)
        /\ q \in 1 .. Len(m.buckets[i]) /\ m.buckets[i][q].key = x
    BY PositionOf DEF MapOK
  <1>8. i = h => q # p
    BY KeyOfPlace DEF h, p
  <1> HIDE DEF i, q
  <1>9. j \in 1 .. Len(n.buckets[i]) /\ n.buckets[i][j] = m.buckets[i][q]
    <2>1. CASE i # h
      BY <1>5, <1>7, <2>1
    <2>2. CASE i = h
      <3>1. q \in Nat /\ p \in Nat /\ Len(b) \in Nat /\ Len(b) = Len(m.buckets[h]) - 1
        BY <1>3, <1>4, <1>7
      <3>2. CASE q > p
        <4>1. j = q - 1 /\ j \in 1 .. Len(m.buckets[h]) - 1 /\ ~ (j < p)
          BY <1>3, <1>7, <2>2, <3>1, <3>2
        <4>2. b[j] = m.buckets[h][j + 1] /\ j + 1 = q
          BY <1>4, <3>1, <4>1
        <4> QED
          BY <1>5, <2>2, <3>1, <4>1, <4>2
      <3>3. CASE q < p
        <4>1. j = q /\ j \in 1 .. Len(m.buckets[h]) - 1 /\ j < p
          BY <1>3, <1>7, <2>2, <3>1, <3>3
        <4>2. b[j] = m.buckets[h][j]
          BY <1>4, <4>1
        <4> QED
          BY <1>5, <2>2, <3>1, <4>1, <4>2
      <3> QED
        BY <1>8, <2>2, <3>1, <3>2, <3>3
    <2> QED
      BY <2>1, <2>2
  <1> HIDE DEF j
  <1>10. Home(n, x) = i /\ Position(n, x) = j
    <2>1. Spread(n) /\ NoKeyTwice(n) /\ x \in KeysIn(n) /\ Home(n, x) = i
      BY <1>1, UnlinkedMap DEF MapOK, Home, i
    <2>2. n.buckets[i][j].key = x /\ j \in 1 .. Len(n.buckets[i])
      BY <1>7, <1>9
    <2>3. \A l \in 1 .. Len(n.buckets[Home(n, x)]) :
            n.buckets[Home(n, x)][l].key = x => l = Position(n, x)
      BY <2>1, PositionOf
    <2> QED
      BY <2>1, <2>2, <2>3
  <1> QED
    BY <1>10 DEF i, j, q

\* A key that is added during a loop lies before the iterator or behind it.
LEMMA LinkedAhead ==
  ASSUME NEW m, MapOK(m), CursorOK(m), NEW e \in Entry, e.key \notin KeysIn(m),
         NEW n, n = Linked(m, e)
  PROVE  /\ CursorOK(n)
         /\ Ahead(m) \subseteq Ahead(n) /\ Ahead(n) \subseteq Ahead(m) \cup {e.key}
  <1>1. /\ n.it = m.it /\ n.capacity = m.capacity
        /\ KeysIn(n) = KeysIn(m) \cup {e.key}
    BY LinkedMap
  <1>2. \A x \in KeysIn(m) : Home(n, x) = Home(m, x) /\ Position(n, x) = Position(m, x)
    BY LinkedPlaces
  <1>3. CursorOK(n)
    BY <1>1, <1>2 DEF CursorOK
  <1>4. e.key \in Keys
    BY DEF Entry
  <1>5. m.it.entry \in KeysIn(m) \/ (m.it.entry = None /\ None \notin KeysIn(n))
    <2>1. None \notin KeysIn(m) /\ None # e.key
      BY <1>4, NumbersOf, HashmapAssumption
    <2> QED
      BY <1>1, <2>1 DEF CursorOK
  <1>6. ASSUME NEW x \in KeysIn(m) PROVE x \in Ahead(n) <=> x \in Ahead(m)
    <2>1. CASE m.it.entry \in KeysIn(m)
      BY <1>1, <1>2, <2>1 DEF Ahead
    <2>2. CASE m.it.entry = None /\ None \notin KeysIn(n)
      BY <1>1, <1>2, <2>2 DEF Ahead
    <2> QED
      BY <1>5, <2>1, <2>2
  <1>7. (\A x \in Ahead(m) : x \in KeysIn(m)) /\ (\A x \in Ahead(n) : x \in KeysIn(n))
    BY DEF Ahead
  <1> QED
    BY <1>1, <1>3, <1>6, <1>7

\* The removal of a key the iterator has passed changes nothing before it.
LEMMA UnlinkedAhead ==
  ASSUME NEW m, MapOK(m), CursorOK(m), NEW k \in KeysIn(m), k \notin Ahead(m),
         NEW n, n = Unlinked(m, k)
  PROVE  CursorOK(n) /\ Ahead(n) = Ahead(m)
  <1> DEFINE y == m.it.entry
             nr == m.it.nr
  <1>1. /\ n.it = [entry |-> IF y = k THEN Freed ELSE y, nr |-> nr]
        /\ n.capacity = m.capacity /\ KeysIn(n) = KeysIn(m) \ {k}
    BY UnlinkedMap
  <1>2. \A x \in KeysIn(m) \ {k} :
           /\ Home(n, x) = Home(m, x)
           /\ Position(n, x) = IF Home(m, x) = Home(m, k) /\ Position(m, x) > Position(m, k)
                               THEN Position(m, x) - 1 ELSE Position(m, x)
    BY UnlinkedPlaces
  <1>3. /\ nr \in Nat /\ None \notin KeysIn(m)
        /\ \A x \in KeysIn(m) : Home(m, x) \in Nat /\ Position(m, x) \in Nat
    BY NumbersOf
  <1>4. y # None => y \in KeysIn(m) /\ Home(m, y) = nr
    BY DEF CursorOK
  <1>5. y # k
    <2>1. y \in KeysIn(m) => y \in Ahead(m)
      BY <1>3, <1>4 DEF Ahead
    <2> QED
      BY <2>1
  <1>6. n.it.entry = y /\ n.it.nr = nr
    BY <1>1, <1>5
  <1>7. CursorOK(n)
    BY <1>1, <1>2, <1>4, <1>5, <1>6 DEF CursorOK
  <1>8. ~ (Home(m, k) > nr)
    BY DEF Ahead
  <1>9. \A x : x \in Ahead(m) <=>
            /\ x \in KeysIn(m)
            /\ \/ Home(m, x) > nr
               \/ Home(m, x) = nr /\ y \in KeysIn(m) /\ Position(m, x) >= Position(m, y)
    BY DEF Ahead
  <1>10. \A x : x \in Ahead(n) <=>
            /\ x \in KeysIn(m) \ {k}
            /\ \/ Home(m, x) > nr
               \/ Home(m, x) = nr /\ y \in KeysIn(m) /\ Position(n, x) >= Position(n, y)
    BY <1>1, <1>2, <1>5, <1>6 DEF Ahead
  <1> HIDE DEF y, nr
  <1>11. ASSUME NEW x \in KeysIn(m) \ {k}, Home(m, x) = nr, y \in KeysIn(m)
         PROVE  Position(n, x) >= Position(n, y) <=> Position(m, x) >= Position(m, y)
    <2>1. y \in KeysIn(m) \ {k} /\ Home(m, y) = nr
      BY <1>3, <1>4, <1>5, <1>11
    <2>2. CASE Home(m, k) # nr
      BY <1>2, <1>11, <2>1, <2>2
    <2>3. CASE Home(m, k) = nr
      <3>1. Position(m, k) < Position(m, y)
        BY <1>3, <1>9, <1>11, <2>3
      <3>2. Position(n, y) = Position(m, y) - 1
        BY <1>2, <2>1, <2>3, <3>1, <1>3
      <3>3. Position(m, x) # Position(m, k)
        BY <1>11, <2>3, KeyOfPlace
      <3>4. Position(n, x) = IF Position(m, x) > Position(m, k)
                             THEN Position(m, x) - 1 ELSE Position(m, x)
        BY <1>2, <1>11, <2>3
      <3> QED
        BY <1>3, <1>11, <3>1, <3>2, <3>3, <3>4
    <2> QED
      BY <2>2, <2>3
  <1>12. \A x : x \in Ahead(n) <=> x \in Ahead(m)
    BY <1>9, <1>10, <1>11
  <1> QED
    BY <1>7, <1>12

-----------------------------------------------------------------------------
(***************************************************************************)
(* What ties the iterator of a map m to a client's Foreach loop lp: before *)
(* the loop it is at the end, during the loop it still has before it the   *)
(* keys that are due and none that was seen.                               *)
(***************************************************************************)
Loops == [phase : {"new", "ready", "on"}, due : SUBSET Keys, seen : SUBSET Keys]

Follows(m, lp) ==
  /\ lp.phase = "ready" => AtEnd(m)
  /\ lp.phase = "on" =>
       CursorOK(m) /\ lp.due \subseteq Ahead(m) /\ lp.seen \cap Ahead(m) = {}

Tracks(m, lp) == MapOK(m) /\ Follows(m, lp)

\* A key may be added during a loop that does not count as seen any more.
LEMMA TracksLinked ==
  ASSUME NEW m, NEW lp \in Loops, Tracks(m, lp), NEW e \in Entry, e.key \notin KeysIn(m)
  PROVE  Tracks(Linked(m, e), [lp EXCEPT !.seen = @ \ {e.key}])
  <1> DEFINE n == Linked(m, e)
             l == [lp EXCEPT !.seen = @ \ {e.key}]
  <1>1. /\ MapOK(n) /\ n.it = m.it /\ n.capacity = m.capacity
    BY LinkedMap DEF Tracks
  <1>2. l.phase = lp.phase /\ l.due = lp.due /\ l.seen = lp.seen \ {e.key}
    BY DEF Loops
  <1>3. AtEnd(m) => AtEnd(n)
    BY <1>1 DEF AtEnd
  <1>4. CursorOK(m) => /\ CursorOK(n) /\ Ahead(m) \subseteq Ahead(n)
                       /\ Ahead(n) \subseteq Ahead(m) \cup {e.key}
    BY LinkedAhead DEF Tracks
  <1> HIDE DEF n, l
  <1>5. CASE lp.phase = "on"
    <2>1. CursorOK(m) /\ lp.due \subseteq Ahead(m) /\ lp.seen \cap Ahead(m) = {}
      BY <1>5 DEF Tracks, Follows
    <2>2. l.due \subseteq Ahead(n) /\ l.seen \cap Ahead(n) = {}
      BY <1>2, <1>4, <2>1
    <2>3. Tracks(n, l)
      BY <1>1, <1>2, <1>4, <1>5, <2>1, <2>2 DEF Tracks, Follows
    <2> QED
      BY <2>3 DEF n, l
  <1>6. CASE lp.phase # "on"
    <2>1. Tracks(n, l)
      BY <1>1, <1>2, <1>3, <1>6 DEF Tracks, Follows
    <2> QED
      BY <2>1 DEF n, l
  <1> QED
    BY <1>5, <1>6

\* A key may be removed during a loop when the loop has seen it.
LEMMA TracksUnlinked ==
  ASSUME NEW m, NEW lp \in Loops, Tracks(m, lp), NEW k \in KeysIn(m),
         lp.phase = "on" => k \in lp.seen
  PROVE  Tracks(Unlinked(m, k), [lp EXCEPT !.due = @ \ {k}, !.seen = @ \ {k}])
  <1> DEFINE n == Unlinked(m, k)
             l == [lp EXCEPT !.due = @ \ {k}, !.seen = @ \ {k}]
  <1>1. /\ MapOK(n) /\ n.capacity = m.capacity
        /\ n.it = [entry |-> IF m.it.entry = k THEN Freed ELSE m.it.entry, nr |-> m.it.nr]
    BY UnlinkedMap DEF Tracks
  <1>2. l.phase = lp.phase /\ l.due = lp.due \ {k} /\ l.seen = lp.seen \ {k}
    BY DEF Loops
  <1>3. AtEnd(m) => AtEnd(n)
    <2>1. k # None
      BY NumbersOf DEF Tracks
    <2> QED
      BY <1>1, <2>1 DEF AtEnd
  <1>4. CursorOK(m) /\ k \notin Ahead(m) => CursorOK(n) /\ Ahead(n) = Ahead(m)
    BY UnlinkedAhead DEF Tracks
  <1> HIDE DEF n, l
  <1>5. CASE lp.phase = "on"
    <2>1. CursorOK(m) /\ lp.due \subseteq Ahead(m) /\ lp.seen \cap Ahead(m) = {}
      BY <1>5 DEF Tracks, Follows
    <2>2. k \notin Ahead(m)
      BY <1>5, <2>1
    <2>3. l.due \subseteq Ahead(n) /\ l.seen \cap Ahead(n) = {}
      BY <1>2, <1>4, <2>1, <2>2
    <2>4. Tracks(n, l)
      BY <1>1, <1>2, <1>4, <1>5, <2>1, <2>2, <2>3 DEF Tracks, Follows
    <2> QED
      BY <2>4 DEF n, l
  <1>6. CASE lp.phase # "on"
    <2>1. Tracks(n, l)
      BY <1>1, <1>2, <1>3, <1>6 DEF Tracks, Follows
    <2> QED
      BY <2>1 DEF n, l
  <1> QED
    BY <1>5, <1>6

\* The settings of a map do not matter to its iterator.
LEMMA TracksSettings ==
  ASSUME NEW m, NEW lp \in Loops, Tracks(m, lp), NEW n \in Maps,
         n.buckets = m.buckets, n.capacity = m.capacity, n.count = m.count, n.it = m.it
  PROVE  Tracks(n, lp) /\ Pairs(n) = Pairs(m)
  <1>1. /\ MapOK(n) /\ Pairs(n) = Pairs(m) /\ KeysIn(n) = KeysIn(m)
        /\ \A k : Home(n, k) = Home(m, k) /\ Position(n, k) = Position(m, k)
    BY SameBuckets DEF Tracks
  <1>2. AtEnd(m) => AtEnd(n)
    BY DEF AtEnd
  <1>3. CursorOK(m) => CursorOK(n)
    BY <1>1 DEF CursorOK
  <1>4. Ahead(n) = Ahead(m)
    BY <1>1 DEF Ahead
  <1> QED
    BY <1>1, <1>2, <1>3, <1>4 DEF Tracks, Follows

\* Outside a loop a map may be rehashed: an iterator at the end stays there.
LEMMA TracksRehash ==
  ASSUME NEW m, NEW lp \in Loops, Tracks(m, lp), lp.phase # "on",
         NEW c \in Nat \ {0}, KeysIn(m) # {}, Suffices(m, Size(m, c), m.count)
  PROVE  /\ Rehash(m, c).status = "ok" /\ Tracks(Rehash(m, c).map, lp)
         /\ Pairs(Rehash(m, c).map) = Pairs(m)
         /\ SameSettings(Rehash(m, c).map, m)
         /\ Rehash(m, c).map.capacity = Size(m, c)
  <1>1. /\ Rehash(m, c).status = "ok" /\ MapOK(Rehash(m, c).map)
        /\ SameSettings(Rehash(m, c).map, m) /\ Rehash(m, c).map.capacity = Size(m, c)
        /\ Pairs(Rehash(m, c).map) = Pairs(m)
        /\ m.it.nr >= m.capacity =>
             Rehash(m, c).map.it = [entry |-> None, nr |-> Size(m, c)]
    BY RehashWell DEF Tracks
  <1>2. m.capacity \in Nat
    BY NumbersOf DEF Tracks
  <1> DEFINE n == Rehash(m, c).map
  <1>3. AtEnd(m) => AtEnd(n)
    <2>1. Size(m, c) >= Size(m, c)
      BY <1>2 DEF Size
    <2> QED
      BY <1>1, <2>1 DEF AtEnd
  <1> HIDE DEF n
  <1>4. Follows(n, lp)
    BY <1>3 DEF Tracks, Follows
  <1> QED
    BY <1>1, <1>4 DEF Tracks, n

\* ForeachEnd, and the end of a loop, leave the iterator at the end.
LEMMA TracksEnd ==
  ASSUME NEW m, NEW lp \in Loops, Tracks(m, lp), NEW n, n = [m EXCEPT !.it = End(m)]
  PROVE  /\ Tracks(n, [phase |-> "ready", due |-> {}, seen |-> {}])
         /\ Pairs(n) = Pairs(m)
  <1>1. m.capacity \in Nat
    BY NumbersOf DEF Tracks
  <1>2. End(m) \in Cursors
    BY <1>1 DEF End, Cursors
  <1>3. MapOK(n) /\ Pairs(n) = Pairs(m) /\ n.capacity = m.capacity /\ n.it = End(m)
    BY <1>2, WithCursor DEF Tracks
  <1>4. AtEnd(n)
    BY <1>1, <1>3 DEF AtEnd, End
  <1> QED
    BY <1>3, <1>4 DEF Tracks, Follows

(***************************************************************************)
(* A call to Foreach during a loop, or to begin one, reads no freed entry, *)
(* ends the loop only when nothing is due and hands out no key again.      *)
(***************************************************************************)
LEMMA TracksForeach ==
  ASSUME NEW m, NEW lp \in Loops, Tracks(m, lp), lp.phase # "new",
         NEW due, due = IF lp.phase = "on" THEN lp.due ELSE KeysIn(m),
         NEW seen, seen = IF lp.phase = "on" THEN lp.seen ELSE {},
         NEW k, k = NextKey(m)
  PROVE  /\ m.it.entry # Freed
         /\ k = None => due = {}
         /\ k # None =>
              /\ k \in KeysIn(m) /\ k \notin seen
              /\ Tracks([m EXCEPT !.it = Past(m, k)],
                        [phase |-> "on", due |-> due \ {k}, seen |-> seen \cup {k}])
              /\ Pairs([m EXCEPT !.it = Past(m, k)]) = Pairs(m)
  <1>1. MapOK(m) /\ m.capacity \in Nat /\ m.it.nr \in Nat
    BY NumbersOf DEF Tracks
  <1>2. /\ CursorOK(m) \/ AtEnd(m)
        /\ due \subseteq Rest(m) /\ seen \cap Rest(m) = {}
    <2>1. CASE lp.phase = "on"
      <3>1. CursorOK(m) /\ lp.due \subseteq Ahead(m) /\ lp.seen \cap Ahead(m) = {}
        BY <2>1 DEF Tracks, Follows
      <3>2. ~ AtEnd(m)
        BY <1>1, <3>1 DEF CursorOK, AtEnd
      <3> QED
        BY <2>1, <3>1, <3>2 DEF Rest
    <2>2. CASE lp.phase # "on"
      <3>1. AtEnd(m)
        BY <2>2 DEF Tracks, Follows, Loops
      <3> QED
        BY <2>2, <3>1 DEF Rest
    <2> QED
      BY <2>1, <2>2
  <1>3. /\ m.it.entry # Freed
        /\ k = None => Rest(m) = {}
        /\ k # None => k \in KeysIn(m) /\ Rest(m) = {k} \cup Later(m, k)
    BY <1>1, <1>2, NextIsFirst
  <1>4. ASSUME k # None
        PROVE  /\ k \in KeysIn(m) /\ k \notin seen
               /\ Tracks([m EXCEPT !.it = Past(m, k)],
                         [phase |-> "on", due |-> due \ {k}, seen |-> seen \cup {k}])
               /\ Pairs([m EXCEPT !.it = Past(m, k)]) = Pairs(m)
    <2> DEFINE n == [m EXCEPT !.it = Past(m, k)]
               l == [phase |-> "on", due |-> due \ {k}, seen |-> seen \cup {k}]
    <2>1. k \in KeysIn(m) /\ Rest(m) = {k} \cup Later(m, k)
      BY <1>3, <1>4
    <2>2. MapOK(n) /\ CursorOK(n) /\ Ahead(n) = Later(m, k)
      BY <1>1, <2>1, PastAhead
    <2>3. Past(m, k) \in Cursors
      BY <1>1, <2>1, PastIs
    <2>4. Pairs(n) = Pairs(m)
      BY <1>1, <2>3, WithCursor
    <2>5. k \notin Later(m, k)
      <3>1. Home(m, k) \in Nat /\ Position(m, k) \in Nat
        BY <1>1, <2>1, NumbersOf
      <3> QED
        BY <3>1 DEF Later
    <2>6. k \notin seen
      BY <1>2, <2>1
    <2>7. l.phase = "on" /\ l.due = due \ {k} /\ l.seen = seen \cup {k}
      OBVIOUS
    <2> HIDE DEF n, l
    <2>8. l.due \subseteq Ahead(n) /\ l.seen \cap Ahead(n) = {}
      BY <1>2, <2>1, <2>2, <2>5, <2>7
    <2>9. Tracks(n, l)
      BY <2>2, <2>7, <2>8 DEF Tracks, Follows
    <2> QED
      BY <2>1, <2>4, <2>6, <2>9 DEF n, l
  <1>5. k = None => due = {}
    BY <1>2, <1>3
  <1> QED
    BY <1>3, <1>4, <1>5

-----------------------------------------------------------------------------
\* The contents of a map are determined by the entries in its buckets.
ContentsOf(m) == [k \in KeysIn(m) |-> ValueIn(m, k)]

\* A stored key has one value, that of its entry.
LEMMA ValueOf ==
  ASSUME NEW m, MapOK(m), NEW k \in KeysIn(m)
  PROVE  /\ ValueIn(m, k) \in Values
         /\ \A e \in Pairs(m) : e.key = k => e.value = ValueIn(m, k)
  <1> DEFINE h == Home(m, k)
             p == Position(m, k)
  <1>1. /\ h \in 0 .. m.capacity - 1 /\ m.buckets[h] \in Seq(Entry)
        /\ p \in 1 .. Len(m.buckets[h])
        /\ \A j \in 1 .. Len(m.buckets[h]) : m.buckets[h][j].key = k => j = p
    BY PositionOf DEF MapOK
  <1>2. ValueIn(m, k) = m.buckets[h][p].value
    BY DEF ValueIn
  <1>3. m.buckets[h][p] \in Entry
    BY <1>1
  <1>4. ASSUME NEW e \in Pairs(m), e.key = k PROVE e.value = ValueIn(m, k)
    <2>1. PICK i \in 0 .. m.capacity - 1 : \E j \in 1 .. Len(m.buckets[i]) :
            m.buckets[i][j] = e
      BY PairsOfMap DEF MapOK, Spread
    <2>2. PICK j \in 1 .. Len(m.buckets[i]) : m.buckets[i][j] = e
      BY <2>1
    <2>3. i = h
      BY <1>4, <2>2 DEF MapOK, Spread
    <2>4. j = p
      BY <1>1, <1>4, <2>2, <2>3
    <2> QED
      BY <1>2, <2>2, <2>3, <2>4
  <1> QED
    BY <1>2, <1>3, <1>4 DEF Entry

\* The keys of a map are those of its entries, read off Pairs.
LEMMA KeysOfPairs ==
  ASSUME NEW m, MapOK(m)
  PROVE  \A k : k \in KeysIn(m) <=> \E e \in Pairs(m) : e.key = k
  BY PairsOfMap DEF MapOK, Spread

\* Maps with the same entries have the same contents.
LEMMA SameContents ==
  ASSUME NEW m, MapOK(m), NEW n, MapOK(n), Pairs(n) = Pairs(m)
  PROVE  KeysIn(n) = KeysIn(m) /\ ContentsOf(n) = ContentsOf(m)
  <1>1. KeysIn(n) = KeysIn(m)
    BY KeysOfPairs
  <1>2. ASSUME NEW k \in KeysIn(m) PROVE ValueIn(n, k) = ValueIn(m, k)
    <2>1. PICK e \in Pairs(m) : e.key = k
      BY KeysOfPairs
    <2>2. e.value = ValueIn(m, k)
      BY <2>1, ValueOf
    <2>3. e.value = ValueIn(n, k)
      BY <1>1, <2>1, ValueOf
    <2> QED
      BY <2>2, <2>3
  <1> QED
    BY <1>1, <1>2 DEF ContentsOf

\* Linking an entry adds its key with its value to the contents.
LEMMA LinkedContents ==
  ASSUME NEW m, MapOK(m), NEW e \in Entry, e.key \notin KeysIn(m)
  PROVE  ContentsOf(Linked(m, e)) =
           [x \in KeysIn(m) \cup {e.key} |-> IF x = e.key THEN e.value ELSE ContentsOf(m)[x]]
  <1> DEFINE n == Linked(m, e)
  <1>1. /\ MapOK(n) /\ Pairs(n) = Pairs(m) \cup {e}
        /\ KeysIn(n) = KeysIn(m) \cup {e.key}
    BY LinkedMap
  <1> HIDE DEF n
  <1>2. ValueIn(n, e.key) = e.value
    BY <1>1, ValueOf
  <1>3. ASSUME NEW x \in KeysIn(m) PROVE ValueIn(n, x) = ValueIn(m, x)
    <2>1. PICK p \in Pairs(m) : p.key = x
      BY KeysOfPairs
    <2>2. p.value = ValueIn(m, x)
      BY <2>1, ValueOf
    <2>3. p.value = ValueIn(n, x)
      BY <1>1, <2>1, ValueOf
    <2> QED
      BY <2>2, <2>3
  <1>4. ContentsOf(n) =
          [x \in KeysIn(m) \cup {e.key} |-> IF x = e.key THEN e.value ELSE ContentsOf(m)[x]]
    BY <1>1, <1>2, <1>3 DEF ContentsOf
  <1> QED
    BY <1>4 DEF n

\* Unlinking a key removes it from the contents, and nothing else.
LEMMA UnlinkedContents ==
  ASSUME NEW m, MapOK(m), NEW k \in KeysIn(m)
  PROVE  ContentsOf(Unlinked(m, k)) = [x \in KeysIn(m) \ {k} |-> ContentsOf(m)[x]]
  <1> DEFINE n == Unlinked(m, k)
  <1>1. /\ MapOK(n) /\ KeysIn(n) = KeysIn(m) \ {k}
        /\ \A e \in Pairs(m) : e.key # k => e \in Pairs(n)
    <2>1. MapOK(n) /\ KeysIn(n) = KeysIn(m) \ {k}
      BY UnlinkedMap
    <2>2. \A e : e \in Pairs(n) <=> e \in Pairs(m) /\ e.key # k
      BY UnlinkedMap, ZenonT(30)
    <2> QED
      BY <2>1, <2>2
  <1> HIDE DEF n
  <1>2. ASSUME NEW x \in KeysIn(m) \ {k} PROVE ValueIn(n, x) = ValueIn(m, x)
    <2>1. PICK p \in Pairs(m) : p.key = x
      BY KeysOfPairs
    <2>2. p.value = ValueIn(m, x)
      BY <2>1, ValueOf
    <2>3. p \in Pairs(n) /\ x \in KeysIn(n)
      BY <1>1, <2>1
    <2>4. p.value = ValueIn(n, x)
      BY <1>1, <2>1, <2>3, ValueOf
    <2> QED
      BY <2>2, <2>4
  <1>3. ContentsOf(n) = [x \in KeysIn(m) \ {k} |-> ContentsOf(m)[x]]
    BY <1>1, <1>2 DEF ContentsOf
  <1> QED
    BY <1>3 DEF n

-----------------------------------------------------------------------------
(***************************************************************************)
(* The inductive invariant of Spec.  TypeOK, ShapeOK and the rest say what *)
(* a client relies on; that they last needs to know how the iterator and   *)
(* the client's loop lie to one another, and that under the rules of Spec  *)
(* no object is ever freed early and no rehash ever aborts.                *)
(***************************************************************************)
Returns == (Answers \ Aborts) \cup Keys \cup Values

HashmapInv ==
  /\ map \in Maps /\ loop \in Loops
  /\ Live => Tracks(map, loop)
  /\ ret \in Returns /\ freed = {} /\ fault = FALSE

\* What every step does besides: it keeps the loop and acts as a dictionary.
LoopStep ==
  /\ ret' = "false" => Due = {}
  /\ ret' \in Keys => ret' \notin Seen

DictionaryStep == [D!Next]_<<Contents, ret>>

\* Contents is ContentsOf the map, in a state and in the next.
LEMMA Images ==
  /\ Contents = ContentsOf(map) /\ Contents' = ContentsOf(map')
  /\ DOMAIN Contents = KeysIn(map) /\ Stored = KeysIn(map)
  BY DEF Contents, ContentsOf, Stored, KeysIn, KeysOf, ValueIn, Home, Position

\* What a step has to leave on a live map for the invariant to hold again.
LEMMA InvAfter ==
  ASSUME Tracks(map', loop'), loop' \in Loops, ret' \in Returns,
         freed' = {}, fault' = FALSE
  PROVE  HashmapInv'
  BY DEF HashmapInv, Tracks, MapOK, Spread

\* A call that leaves the contents alone and answers an error or nothing.
LEMMA Refused ==
  ASSUME ContentsOf(map') = ContentsOf(map),
         ret' \in {"XT_ENOMEM", "XT_ENOBUFS", "XT_EINVAL", "void", "ok"}
  PROVE  DictionaryStep
  BY Images DEF DictionaryStep, D!Next, D!Refuse

\* Create, on a struct without buckets.
LEMMA NewStep ==
  ASSUME HashmapInv, NEW n \in Capacities \ {0}, Create(n)
  PROVE  HashmapInv' /\ LoopStep /\ DictionaryStep
  <1> USE DEF HashmapInv
  <1> DEFINE like == [map EXCEPT !.limit = 3, !.grow = 3, !.flags = {}]
  <1>1. like \in Maps
    <2> DEFINE one == [map EXCEPT !.limit = 3]
               two == [one EXCEPT !.grow = 3]
    <2>1. one \in Maps
      BY DEF Maps
    <2> HIDE DEF one
    <2>2. two \in Maps
      BY <2>1 DEF Maps
    <2> HIDE DEF two
    <2>3. [two EXCEPT !.flags = {}] \in Maps
      BY <2>2 DEF Maps
    <2> QED
      BY <2>3 DEF one, two
  <1> HIDE DEF like
  <1>2. n \in Nat \ {0} /\ DefaultCapacity \in Nat \ {0}
    BY HashmapAssumption
  <1>3. /\ ~ Live /\ freed' = {} /\ fault' = FALSE
        /\ loop' = [phase |-> "new", due |-> {}, seen |-> {}]
        /\ \/ map' = Empty(n, like) /\ ret' = "ok"
           \/ map' = map /\ ret' = "XT_ENOMEM"
    BY <1>2 DEF Create, NewLoop, like
  <1>4. KeysIn(map) = {}
    BY <1>3 DEF Live, KeysIn
  <1>5. loop' \in Loops /\ ret' \in Returns /\ LoopStep
    BY <1>3, HashmapAssumption DEF Loops, Returns, Answers, Aborts, LoopStep
  <1>6. CASE map' = Empty(n, like) /\ ret' = "ok"
    <2>1. MapOK(map') /\ KeysIn(map') = {}
      BY <1>1, <1>2, <1>6, EmptyMap
    <2>2. Tracks(map', loop')
      BY <1>3, <2>1 DEF Tracks, Follows
    <2>3. ContentsOf(map') = ContentsOf(map)
      BY <1>4, <2>1 DEF ContentsOf
    <2> QED
      BY <1>3, <1>5, <1>6, <2>2, <2>3, InvAfter, Refused
  <1>7. CASE map' = map /\ ret' = "XT_ENOMEM"
    <2>1. HashmapInv'
      BY <1>3, <1>5, <1>7 DEF Live
    <2>2. DictionaryStep
      BY <1>7, Refused
    <2> QED
      BY <1>5, <2>1, <2>2
  <1> QED
    BY <1>3, <1>6, <1>7

\* Destroy, which empties the dictionary.
LEMMA DestroyStep ==
  ASSUME HashmapInv, Destroy
  PROVE  HashmapInv' /\ LoopStep /\ DictionaryStep
  <1> DEFINE none == [i \in {} |-> << >>]
  <1>1. /\ map' = [map EXCEPT !.buckets = none] /\ map \in Maps /\ fault' = FALSE
        /\ ret' = "void" /\ freed' = {}
        /\ loop' = [phase |-> "new", due |-> {}, seen |-> {}]
    BY DEF Destroy, NewLoop, HashmapInv
  <1>2. none \in Arrays
    <2>1. none \in [0 .. 0 - 1 -> Seq(Entry)]
      OBVIOUS
    <2> QED
      BY <2>1, ArraysHave
  <1>3. DOMAIN none = {}
    OBVIOUS
  <1> HIDE DEF none
  <1>4. map' = [buckets |-> none, capacity |-> map.capacity, count |-> map.count,
                limit |-> map.limit, grow |-> map.grow, flags |-> map.flags, it |-> map.it]
    BY <1>1, WithBuckets
  <1>5. map' \in Maps /\ map'.buckets = none
    BY <1>1, <1>2, <1>4 DEF Maps
  <1>6. ~ Live'
    BY <1>3, <1>5 DEF Live
  <1>7. loop' \in Loops /\ ret' \in Returns /\ LoopStep
    BY <1>1, HashmapAssumption DEF Loops, Returns, Answers, Aborts, LoopStep
  <1>8. HashmapInv'
    BY <1>1, <1>5, <1>6, <1>7 DEF HashmapInv
  <1>9. KeysIn(map') = {}
    BY <1>3, <1>5 DEF KeysIn
  <1>10. ContentsOf(map') = [k \in {} |-> 0]
    BY <1>9 DEF ContentsOf
  <1>11. DictionaryStep
    BY <1>1, <1>10, Images DEF DictionaryStep, D!Next, D!Clear
  <1> QED
    BY <1>7, <1>8, <1>11

\* GetValue, which finds the value of a key exactly when it is stored.
LEMMA GetStep ==
  ASSUME HashmapInv, NEW k \in Keys, Get(k)
  PROVE  HashmapInv' /\ LoopStep /\ DictionaryStep
  <1>1. /\ Live /\ Tracks(map, loop) /\ MapOK(map) /\ Stored = KeysIn(map)
        /\ map' = map /\ freed' = freed /\ fault' = fault /\ loop' = loop
    BY Images DEF HashmapInv, Get, Tracks
  <1>2. CASE k \in KeysIn(map)
    <2>1. ret' = ValueIn(map, k) /\ ret' \in Values
      BY <1>1, <1>2, ValueOf DEF Get
    <2>2. ret' \in Returns /\ LoopStep
      BY <2>1, HashmapAssumption DEF Returns, LoopStep, Answers
    <2>3. ret' = Contents[k] /\ k \in DOMAIN Contents /\ Contents' = Contents
      BY <1>1, <1>2, <2>1, Images DEF ContentsOf
    <2>4. DictionaryStep
      BY <2>1, <2>3 DEF DictionaryStep, D!Next, D!Lookup, D!Present
    <2> QED
      BY <1>1, <2>2, <2>4 DEF HashmapInv, Live
  <1>3. CASE k \notin KeysIn(map)
    <2>1. ret' = "XT_ENOENT"
      BY <1>1, <1>3 DEF Get
    <2>2. ret' \in Returns /\ LoopStep
      BY <2>1, HashmapAssumption DEF Returns, LoopStep, Answers, Aborts
    <2>3. k \notin DOMAIN Contents /\ Contents' = Contents
      BY <1>1, <1>3, Images
    <2>4. DictionaryStep
      BY <2>1, <2>3 DEF DictionaryStep, D!Next, D!Miss, D!Present
    <2> QED
      BY <1>1, <2>2, <2>4 DEF HashmapInv, Live
  <1> QED
    BY <1>2, <1>3

\* ForeachEnd.
LEMMA EndStep ==
  ASSUME HashmapInv, ForeachEnd
  PROVE  HashmapInv' /\ LoopStep /\ DictionaryStep
  <1>1. /\ Tracks(map, loop) /\ MapOK(map) /\ loop \in Loops
        /\ map' = [map EXCEPT !.it = End(map)]
        /\ freed' = {} /\ fault' = FALSE /\ ret' = "void"
        /\ loop' = [phase |-> "ready", due |-> {}, seen |-> {}]
    BY DEF HashmapInv, ForeachEnd, Tracks
  <1>2. Tracks(map', loop') /\ Pairs(map') = Pairs(map)
    BY <1>1, TracksEnd
  <1>3. loop' \in Loops /\ ret' \in Returns /\ LoopStep
    BY <1>1, HashmapAssumption DEF Loops, Returns, Answers, Aborts, LoopStep
  <1>4. ContentsOf(map') = ContentsOf(map)
    BY <1>1, <1>2, SameContents DEF Tracks
  <1> QED
    BY <1>1, <1>2, <1>3, <1>4, InvAfter, Refused

\* A step that changes a setting of the map to another of its type.
LEMMA SettingStep ==
  ASSUME HashmapInv, Live, NEW b \in SUBSET {"key", "value"}, NEW g \in Nat,
         NEW l \in Nat \ {0},
         map' = [buckets |-> map.buckets, capacity |-> map.capacity, count |-> map.count,
                 limit |-> l, grow |-> g, flags |-> b, it |-> map.it],
         ret' = "void", UNCHANGED <<freed, fault, loop>>
  PROVE  HashmapInv' /\ LoopStep /\ DictionaryStep
  <1>1. /\ Tracks(map, loop) /\ MapOK(map) /\ loop \in Loops /\ map \in Maps
        /\ freed' = {} /\ fault' = FALSE
    BY DEF HashmapInv, Tracks
  <1>2. /\ map' \in Maps /\ map'.buckets = map.buckets /\ map'.capacity = map.capacity
        /\ map'.count = map.count /\ map'.it = map.it
    BY <1>1 DEF Maps
  <1>3. Tracks(map', loop') /\ Pairs(map') = Pairs(map)
    BY <1>1, <1>2, TracksSettings
  <1>4. loop' \in Loops /\ ret' \in Returns /\ LoopStep
    BY <1>1, HashmapAssumption DEF Returns, Answers, Aborts, LoopStep
  <1>5. ContentsOf(map') = ContentsOf(map)
    BY <1>1, <1>3, SameContents DEF Tracks
  <1> QED
    BY <1>1, <1>3, <1>4, <1>5, InvAfter, Refused

\* The setters.
LEMMA SettingsStep ==
  ASSUME HashmapInv,
         \/ \E f \in Flags : SetFlags(f)
         \/ \E g \in Grows : SetGrowthFactor(g)
         \/ \E l \in Limits : SetGrowthLimit(l)
  PROVE  HashmapInv' /\ LoopStep /\ DictionaryStep
  <1>1. map \in Maps
    BY DEF HashmapInv
  <1>2. /\ map.limit \in Nat \ {0} /\ map.grow \in Nat
        /\ map.flags \in SUBSET {"key", "value"}
    BY <1>1 DEF Maps
  <1>3. ASSUME NEW f \in Flags, SetFlags(f)
        PROVE  HashmapInv' /\ LoopStep /\ DictionaryStep
    <2>1. map' = [buckets |-> map.buckets, capacity |-> map.capacity, count |-> map.count,
                  limit |-> map.limit, grow |-> map.grow, flags |-> f, it |-> map.it]
      BY <1>1, <1>3, MapFields DEF SetFlags, Maps
    <2>2. f \in SUBSET {"key", "value"} /\ Live /\ ret' = "void"
          /\ UNCHANGED <<freed, fault, loop>>
      BY <1>3, HashmapAssumption DEF SetFlags
    <2> QED
      BY <1>2, <2>1, <2>2, SettingStep
  <1>4. ASSUME NEW g \in Grows, SetGrowthFactor(g)
        PROVE  HashmapInv' /\ LoopStep /\ DictionaryStep
    <2>1. map' = [buckets |-> map.buckets, capacity |-> map.capacity, count |-> map.count,
                  limit |-> map.limit, grow |-> g, flags |-> map.flags, it |-> map.it]
      BY <1>1, <1>4, MapFields DEF SetGrowthFactor, Maps
    <2>2. g \in Nat /\ Live /\ ret' = "void" /\ UNCHANGED <<freed, fault, loop>>
      BY <1>4, HashmapAssumption DEF SetGrowthFactor
    <2> QED
      BY <1>2, <2>1, <2>2, SettingStep
  <1>5. ASSUME NEW l \in Limits, SetGrowthLimit(l)
        PROVE  HashmapInv' /\ LoopStep /\ DictionaryStep
    <2>1. map' = [buckets |-> map.buckets, capacity |-> map.capacity, count |-> map.count,
                  limit |-> l, grow |-> map.grow, flags |-> map.flags, it |-> map.it]
      BY <1>1, <1>5, MapFields DEF SetGrowthLimit, Maps
    <2>2. l \in Nat \ {0} /\ Live /\ ret' = "void" /\ UNCHANGED <<freed, fault, loop>>
      BY <1>5, HashmapAssumption DEF SetGrowthLimit
    <2> QED
      BY <1>2, <2>1, <2>2, SettingStep
  <1> QED
    BY <1>3, <1>4, <1>5

\* Remove, during a loop only of what the loop has seen.
LEMMA RemoveStep ==
  ASSUME HashmapInv, NEW k \in Keys, Looping => k \in loop.seen, Remove(k)
  PROVE  HashmapInv' /\ LoopStep /\ DictionaryStep
  <1>1. /\ Live /\ Tracks(map, loop) /\ MapOK(map) /\ Stored = KeysIn(map)
        /\ loop \in Loops /\ freed = {} /\ fault' = FALSE
    BY Images DEF HashmapInv, Remove, Tracks
  <1>2. CASE k \in KeysIn(map)
    <2>1. /\ map' = Unlinked(map, k) /\ freed' = {} /\ ret' = "removed"
          /\ loop' = [loop EXCEPT !.due = @ \ {k}, !.seen = @ \ {k}]
      BY <1>1, <1>2 DEF Remove
    <2>2. Tracks(map', loop')
      BY <1>1, <1>2, <2>1, TracksUnlinked DEF Looping
    <2>3. loop' \in Loops /\ ret' \in Returns /\ LoopStep
      BY <1>1, <2>1, HashmapAssumption DEF Loops, Returns, Answers, Aborts, LoopStep
    <2>4. ContentsOf(map') = [x \in KeysIn(map) \ {k} |-> ContentsOf(map)[x]]
      BY <1>1, <1>2, <2>1, UnlinkedContents
    <2>5. Contents' = [x \in DOMAIN Contents \ {k} |-> Contents[x]] /\ k \in DOMAIN Contents
      BY <1>2, <2>4, Images
    <2>6. DictionaryStep
      BY <2>1, <2>5 DEF DictionaryStep, D!Next, D!Delete, D!Present
    <2> QED
      BY <1>1, <2>1, <2>2, <2>3, <2>6, InvAfter
  <1>3. CASE k \notin KeysIn(map)
    <2>1. ret' = "XT_ENOENT" /\ map' = map /\ freed' = {} /\ loop' = loop
      BY <1>1, <1>3 DEF Remove
    <2>2. ret' \in Returns /\ LoopStep
      BY <2>1, HashmapAssumption DEF Returns, LoopStep, Answers, Aborts
    <2>3. k \notin DOMAIN Contents /\ Contents' = Contents
      BY <1>3, <2>1, Images
    <2>4. DictionaryStep
      BY <2>1, <2>3 DEF DictionaryStep, D!Next, D!Miss, D!Present
    <2> QED
      BY <1>1, <2>1, <2>2, <2>4, InvAfter
  <1> QED
    BY <1>2, <1>3

\* Foreach, with the iterator at the end or in a loop.
LEMMA ForeachStep ==
  ASSUME HashmapInv, loop.phase # "new", Foreach
  PROVE  HashmapInv' /\ LoopStep /\ DictionaryStep
  <1> DEFINE k == NextKey(map)
             due == Due
             seen == Seen
  <1>1. /\ Live /\ Tracks(map, loop) /\ MapOK(map) /\ Stored = KeysIn(map)
        /\ loop \in Loops /\ freed' = {} /\ fault = FALSE
    BY Images DEF HashmapInv, Foreach, Tracks
  <1>2. /\ due = IF loop.phase = "on" THEN loop.due ELSE KeysIn(map)
        /\ seen = IF loop.phase = "on" THEN loop.seen ELSE {}
    BY <1>1 DEF Due, Seen
  <1>3. KeysIn(map) \subseteq Keys /\ None \notin KeysIn(map)
    BY <1>1, KeysOfMap, NumbersOf DEF MapOK, Spread
  <1>4. due \subseteq Keys /\ seen \subseteq Keys
    BY <1>1, <1>2, <1>3 DEF Loops
  <1> HIDE DEF k, due, seen
  <1>5. /\ map.it.entry # Freed
        /\ k = None => due = {}
        /\ k # None =>
             /\ k \in KeysIn(map) /\ k \notin seen
             /\ Tracks([map EXCEPT !.it = Past(map, k)],
                       [phase |-> "on", due |-> due \ {k}, seen |-> seen \cup {k}])
             /\ Pairs([map EXCEPT !.it = Past(map, k)]) = Pairs(map)
    BY <1>1, <1>2, TracksForeach DEF k
  <1>6. CASE k # None
    <2>1. /\ ret' = k /\ map' = [map EXCEPT !.it = Past(map, k)] /\ fault' = FALSE
          /\ loop' = [phase |-> "on", due |-> due \ {k}, seen |-> seen \cup {k}]
      BY <1>1, <1>5, <1>6 DEF Foreach, k, due, seen
    <2>2. k \in KeysIn(map) /\ k \in Keys /\ k \notin seen
      BY <1>3, <1>5, <1>6
    <2>3. Tracks(map', loop') /\ Pairs(map') = Pairs(map)
      BY <1>5, <1>6, <2>1
    <2>4. loop' \in Loops
      BY <1>4, <2>1, <2>2 DEF Loops
    <2>5. ret' \in Returns /\ LoopStep
      BY <2>1, <2>2, HashmapAssumption DEF Returns, Answers, LoopStep, seen
    <2>6. ContentsOf(map') = ContentsOf(map)
      BY <1>1, <2>3, SameContents DEF Tracks
    <2>7. DictionaryStep
      BY <2>1, <2>2, <2>6, Images DEF DictionaryStep, D!Next, D!Enumerate, D!Present
    <2> QED
      BY <1>1, <2>1, <2>3, <2>4, <2>5, <2>7, InvAfter
  <1>7. CASE k = None
    <2>1. /\ ret' = "false" /\ map' = [map EXCEPT !.it = End(map)] /\ fault' = FALSE
          /\ loop' = [phase |-> "ready", due |-> {}, seen |-> {}]
      BY <1>1, <1>5, <1>7 DEF Foreach, k
    <2>2. Tracks(map', loop') /\ Pairs(map') = Pairs(map)
      BY <1>1, <2>1, TracksEnd
    <2>3. loop' \in Loops
      BY <2>1 DEF Loops
    <2>4. ret' \in Returns /\ LoopStep
      BY <1>5, <1>7, <2>1, HashmapAssumption DEF Returns, Answers, Aborts, LoopStep, due
    <2>5. ContentsOf(map') = ContentsOf(map)
      BY <1>1, <2>2, SameContents DEF Tracks
    <2>6. DictionaryStep
      BY <2>1, <2>5, Images DEF DictionaryStep, D!Next, D!Enumerate, D!Present
    <2> QED
      BY <1>1, <2>1, <2>2, <2>3, <2>4, <2>6, InvAfter
  <1> QED
    BY <1>6, <1>7

\* Under the rules of Spec no rehash is short of room.
LEMMA RoomyIsEnough ==
  ASSUME NEW m, MapOK(m), NEW c \in Nat \ {0}, 4 * (m.count - 1) < c * m.limit
  PROVE  Suffices(m, Size(m, c), m.count)
  <1>1. m.capacity \in Nat /\ m.limit \in Nat /\ m.count \in Nat
    BY DEF MapOK, Spread, Maps
  <1>2. Size(m, c) \in Nat /\ c <= Size(m, c)
    BY <1>1 DEF Size
  <1>3. ASSUME NEW a \in Nat, NEW b \in Nat, a <= b, NEW l \in Nat PROVE a * l <= b * l
    BY <1>3
  <1>4. c * m.limit <= Size(m, c) * m.limit
    BY <1>1, <1>2, <1>3
  <1>5. c * m.limit \in Int /\ Size(m, c) * m.limit \in Int /\ 4 * (m.count - 1) \in Int
    BY <1>1, <1>2
  <1>6. 4 * (m.count - 1) < Size(m, c) * m.limit
    BY <1>4, <1>5
  <1> QED
    BY <1>6 DEF Suffices

\* Nor is a map that grows, which is not empty either.
LEMMA GrowthIsEnough ==
  ASSUME NEW m, MapOK(m), Crowded(m), MayGrow(m),
         4 * (m.count - 1) < Larger(m) * m.limit \/ Larger(m) = 1
  PROVE  /\ KeysIn(m) # {} /\ Larger(m) \in Nat \ {0}
         /\ Suffices(m, Size(m, Larger(m)), m.count)
  <1>1. /\ m.capacity \in Nat \ {0} /\ m.limit \in Nat \ {0} /\ m.count \in Nat
        /\ m.grow \in Nat /\ m.grow >= 3
    BY DEF MapOK, Spread, Maps, MayGrow
  <1>2. m.count # 0
    <2>1. m.capacity * m.limit >= 1
      BY <1>1
    <2>2. m.capacity * m.limit \in Int /\ 4 * m.count >= m.capacity * m.limit
      BY <1>1 DEF Crowded
    <2> QED
      BY <1>1, <2>1, <2>2
  <1>3. KeysIn(m) # {}
    BY <1>2, FS_EmptySet DEF MapOK, Counted
  <1>4. m.capacity * m.grow >= 3 * m.capacity /\ m.capacity * m.grow \in Nat
    BY <1>1
  <1>5. Larger(m) \in Nat \ {0}
    BY <1>1, <1>4 DEF Larger
  <1>6. CASE Larger(m) = 1
    <2>1. m.capacity * m.grow < 4
      BY <1>4, <1>6 DEF Larger
    <2>2. m.capacity = 1
      BY <1>1, <1>4, <2>1
    <2>3. m.grow = 3
      BY <1>1, <2>1, <2>2
    <2>4. Size(m, Larger(m)) = 1
      BY <1>6, <2>2 DEF Size
    <2> QED
      BY <1>3, <1>5, <2>3, <2>4 DEF Suffices
  <1>7. CASE 4 * (m.count - 1) < Larger(m) * m.limit
    BY <1>3, <1>5, <1>7, RoomyIsEnough
  <1> QED
    BY <1>6, <1>7

\* A rehash that would succeed can only run out of memory, and then frees
\* nothing of a map that owns nothing.
LEMMA FailedStep ==
  ASSUME HashmapInv, Live, NEW r, r.status = "ok", RehashFails(r),
         ret' = "XT_ENOMEM" => OwnsNothing, UNCHANGED <<fault, loop>>
  PROVE  HashmapInv' /\ LoopStep /\ DictionaryStep
  <1>1. /\ Tracks(map, loop) /\ loop' \in Loops /\ freed = {} /\ fault' = FALSE
    BY DEF HashmapInv
  <1>2. OutOfMemory
    BY DEF RehashFails, NoRoom, Abort, Aborts
  <1>3. ret' = "XT_ENOMEM" /\ map' = map /\ map.flags = {}
    BY <1>2 DEF OutOfMemory, OwnsNothing
  <1>4. freed' = {}
    <2>1. PICK n \in 0 .. map.count :
            freed' = freed \cup Released(map.flags, KeysOf(SubSeq(Entries(map), 1, n)))
      BY <1>2 DEF OutOfMemory
    <2> QED
      BY <1>1, <1>3, <2>1 DEF Released
  <1>5. ret' \in Returns /\ LoopStep
    BY <1>3, HashmapAssumption DEF Returns, Answers, Aborts, LoopStep
  <1>6. Tracks(map', loop')
    BY <1>1, <1>3
  <1>7. ContentsOf(map') = ContentsOf(map)
    BY <1>3
  <1> QED
    BY <1>1, <1>3, <1>4, <1>5, <1>6, <1>7, InvAfter, Refused

\* The map that is replaced is destroyed with its flags cleared.
LEMMA OldMapFreesNothing ==
  ASSUME HashmapInv, OldMapDestroyed
  PROVE  freed' = {}
  <1>1. map.flags \subseteq {"key", "value"} /\ freed = {}
    BY DEF HashmapInv, Maps
  <1>2. ClearedFlags(map) = {}
    BY <1>1 DEF ClearedFlags
  <1> QED
    BY <1>1, <1>2 DEF OldMapDestroyed, Released

\* SetCapacity, by the rules of Spec.
LEMMA SetCapacityStep ==
  ASSUME HashmapInv, NEW c \in Capacities, CarefulSetCapacity(c)
  PROVE  HashmapInv' /\ LoopStep /\ DictionaryStep
  <1>1. /\ Live /\ Tracks(map, loop) /\ MapOK(map) /\ Stored = KeysIn(map)
        /\ loop \in Loops /\ loop.phase # "on" /\ KeysIn(map) # {}
        /\ SetCapacity(c) /\ UNCHANGED <<fault, loop>>
        /\ fault' = FALSE /\ loop' \in Loops
    BY Images DEF HashmapInv, CarefulSetCapacity, SetCapacity, Tracks, Looping
  <1>2. c \in Nat
    BY HashmapAssumption
  <1>3. CASE c < 1
    <2>1. ret' = "XT_EINVAL" /\ map' = map /\ freed' = {}
      BY <1>1, <1>2, <1>3 DEF SetCapacity, HashmapInv
    <2>2. ret' \in Returns /\ LoopStep
      BY <2>1, HashmapAssumption DEF Returns, Answers, Aborts, LoopStep
    <2>3. Tracks(map', loop') /\ ContentsOf(map') = ContentsOf(map)
      BY <1>1, <2>1
    <2> QED
      BY <1>1, <2>1, <2>2, <2>3, InvAfter, Refused
  <1>4. CASE c >= 1
    <2> DEFINE r == Rehash(map, c)
    <2>1. c \in Nat \ {0}
      BY <1>2, <1>4
    <2>2. Suffices(map, Size(map, c), map.count)
      BY <1>1, <2>1, RoomyIsEnough DEF CarefulSetCapacity, Roomy
    <2>3. /\ r.status = "ok" /\ Tracks(r.map, loop) /\ Pairs(r.map) = Pairs(map)
      BY <1>1, <2>1, <2>2, TracksRehash
    <2>4. \/ RehashFails(r)
          \/ map' = r.map /\ OldMapDestroyed /\ ret' = "ok"
      BY <1>1, <1>2, <1>4 DEF SetCapacity
    <2> HIDE DEF r
    <2>5. CASE RehashFails(r)
      <3>1. ret' = "XT_ENOMEM" => OwnsNothing
        BY DEF CarefulSetCapacity
      <3> QED
        BY <1>1, <2>3, <2>5, <3>1, FailedStep
    <2>6. CASE map' = r.map /\ OldMapDestroyed /\ ret' = "ok"
      <3>1. freed' = {}
        BY <2>6, OldMapFreesNothing
      <3>2. ret' \in Returns /\ LoopStep
        BY <2>6, HashmapAssumption DEF Returns, Answers, Aborts, LoopStep
      <3>3. Tracks(map', loop')
        BY <1>1, <2>3, <2>6
      <3>4. ContentsOf(map') = ContentsOf(map)
        BY <1>1, <2>3, <2>6, SameContents DEF Tracks
      <3> QED
        BY <1>1, <2>6, <3>1, <3>2, <3>3, <3>4, InvAfter, Refused
    <2> QED
      BY <2>4, <2>5, <2>6
  <1> QED
    BY <1>2, <1>3, <1>4

\* An entry is put, or not, into a map that holds what the map held before.
LEMMA PlaceStep ==
  ASSUME HashmapInv, Live, NEW m, Tracks(m, loop), Pairs(m) = Pairs(map),
         NEW k \in Keys, NEW v \in Values, Place(m, k, v), freed' = {}, fault' = FALSE
  PROVE  HashmapInv' /\ LoopStep /\ DictionaryStep
  <1>1. MapOK(m) /\ MapOK(map) /\ loop \in Loops
    BY DEF HashmapInv, Tracks
  <1>2. KeysIn(m) = KeysIn(map) /\ ContentsOf(m) = ContentsOf(map)
    BY <1>1, SameContents
  <1>3. CASE /\ map' = m /\ loop' = loop
             /\ ret' \in {"XT_ENOMEM", "XT_EEXIST"}
             /\ ret' = "XT_EEXIST" => k \in KeysIn(m)
    <2>1. ret' \in Returns /\ LoopStep
      BY <1>3, HashmapAssumption DEF Returns, Answers, Aborts, LoopStep
    <2>2. ContentsOf(map') = ContentsOf(map)
      BY <1>2, <1>3
    <2>3. HashmapInv'
      BY <1>1, <1>3, <2>1, InvAfter
    <2>4. CASE ret' = "XT_ENOMEM"
      BY <2>1, <2>2, <2>3, <2>4, Refused
    <2>5. CASE ret' = "XT_EEXIST"
      <3>1. k \in DOMAIN Contents /\ Contents' = Contents
        BY <1>2, <1>3, <2>2, <2>5, Images
      <3>2. DictionaryStep
        BY <2>5, <3>1 DEF DictionaryStep, D!Next, D!InsertAgain, D!Present
      <3> QED
        BY <2>1, <2>3, <3>2
    <2> QED
      BY <1>3, <2>4, <2>5
  <1>4. CASE /\ k \notin KeysIn(m)
             /\ map' = Linked(m, [key |-> k, value |-> v])
             /\ loop' = [loop EXCEPT !.seen = @ \ {k}]
             /\ ret' = "added"
    <2> DEFINE e == [key |-> k, value |-> v]
    <2>1. e \in Entry /\ e.key = k /\ e.value = v
      BY DEF Entry
    <2>2. map' = Linked(m, e)
      BY <1>4
    <2> HIDE DEF e
    <2>3. loop' = [loop EXCEPT !.seen = @ \ {e.key}]
      BY <1>4, <2>1
    <2>4. Tracks(map', loop')
      BY <1>1, <1>4, <2>1, <2>2, <2>3, TracksLinked
    <2>5. loop' \in Loops
      BY <1>1, <1>4 DEF Loops
    <2>6. ret' \in Returns /\ LoopStep
      BY <1>4, HashmapAssumption DEF Returns, Answers, Aborts, LoopStep
    <2>7. ContentsOf(map') =
            [x \in KeysIn(m) \cup {e.key} |-> IF x = e.key THEN e.value ELSE ContentsOf(m)[x]]
      BY <1>1, <1>4, <2>1, <2>2, LinkedContents, SMTT(30)
    <2>8. /\ k \notin DOMAIN Contents
          /\ Contents' = [x \in DOMAIN Contents \cup {k} |-> IF x = k THEN v ELSE Contents[x]]
      BY <1>2, <1>4, <2>1, <2>7, Images
    <2>9. DictionaryStep
      BY <1>4, <2>8 DEF DictionaryStep, D!Next, D!Insert, D!Present
    <2> QED
      BY <2>4, <2>5, <2>6, <2>9, InvAfter
  <1> QED
    BY <1>3, <1>4 DEF Place

\* Add, by the rules of Spec: at once, refused, or after growth.
LEMMA AddStep ==
  ASSUME HashmapInv, NEW k \in Keys, NEW v \in Values, CarefulAdd(k, v)
  PROVE  HashmapInv' /\ LoopStep /\ DictionaryStep
  <1>1. /\ Live /\ Tracks(map, loop) /\ MapOK(map) /\ Stored = KeysIn(map)
        /\ loop \in Loops /\ freed = {} /\ fault' = FALSE /\ fault' = fault /\ Add(k, v)
    BY Images DEF HashmapInv, CarefulAdd, Add, Tracks
  <1>2. CASE ~ Crowded(map)
    <2>1. Place(map, k, v) /\ freed' = {}
      BY <1>1, <1>2 DEF Add
    <2> QED
      BY <1>1, <2>1, PlaceStep
  <1>3. CASE Crowded(map) /\ ~ MayGrow(map)
    <2>1. ret' = "XT_ENOBUFS" /\ map' = map /\ freed' = {} /\ loop' = loop
      BY <1>1, <1>3 DEF Add
    <2>2. ret' \in Returns /\ LoopStep
      BY <2>1, HashmapAssumption DEF Returns, Answers, Aborts, LoopStep
    <2>3. ContentsOf(map') = ContentsOf(map)
      BY <2>1
    <2> QED
      BY <1>1, <2>1, <2>2, <2>3, InvAfter, Refused
  <1>4. CASE Crowded(map) /\ MayGrow(map)
    <2> DEFINE c == Larger(map)
               r == Rehash(map, c)
    <2>1. /\ loop.phase # "on"
          /\ 4 * (map.count - 1) < c * map.limit \/ c = 1
          /\ ret' = "XT_ENOMEM" => OwnsNothing
      BY <1>4 DEF CarefulAdd, Looping, Roomy
    <2>2. KeysIn(map) # {} /\ c \in Nat \ {0} /\ Suffices(map, Size(map, c), map.count)
      BY <1>1, <1>4, <2>1, GrowthIsEnough
    <2>3. /\ r.status = "ok" /\ Tracks(r.map, loop) /\ Pairs(r.map) = Pairs(map)
      BY <1>1, <2>1, <2>2, TracksRehash
    <2>4. \/ RehashFails(r) /\ loop' = loop
          \/ Place(r.map, k, v) /\ OldMapDestroyed
      BY <1>1, <1>4 DEF Add
    <2> HIDE DEF r, c
    <2>5. CASE RehashFails(r) /\ loop' = loop
      BY <1>1, <2>1, <2>3, <2>5, FailedStep
    <2>6. CASE Place(r.map, k, v) /\ OldMapDestroyed
      BY <1>1, <2>3, <2>6, OldMapFreesNothing, PlaceStep
    <2> QED
      BY <2>4, <2>5, <2>6
  <1> QED
    BY <1>2, <1>3, <1>4

\* Every step of Spec.
LEMMA NextStep ==
  ASSUME HashmapInv, [Next]_vars
  PROVE  HashmapInv' /\ (LoopStep \/ UNCHANGED vars) /\ DictionaryStep
  <1>1. CASE UNCHANGED vars
    <2>1. HashmapInv'
      BY <1>1 DEF HashmapInv, vars, Live
    <2>2. Contents' = Contents /\ ret' = ret
      BY <1>1, Images DEF vars
    <2> QED
      BY <1>1, <2>1, <2>2 DEF DictionaryStep
  <1>2. CASE Common
    BY <1>2, DestroyStep, GetStep, EndStep, SettingsStep DEF Common
  <1>3. ASSUME NEW n \in Capacities \ {0}, Create(n)
        PROVE  HashmapInv' /\ LoopStep /\ DictionaryStep
    BY <1>3, NewStep
  <1>4. ASSUME NEW k \in Keys, NEW v \in Values, CarefulAdd(k, v)
        PROVE  HashmapInv' /\ LoopStep /\ DictionaryStep
    BY <1>4, AddStep
  <1>5. ASSUME NEW k \in Keys, Looping => k \in loop.seen, Remove(k)
        PROVE  HashmapInv' /\ LoopStep /\ DictionaryStep
    BY <1>5, RemoveStep
  <1>6. ASSUME loop.phase # "new", Foreach
        PROVE  HashmapInv' /\ LoopStep /\ DictionaryStep
    BY <1>6, ForeachStep
  <1>7. ASSUME NEW c \in Capacities, CarefulSetCapacity(c)
        PROVE  HashmapInv' /\ LoopStep /\ DictionaryStep
    BY <1>7, SetCapacityStep
  <1> QED
    BY <1>1, <1>2, <1>3, <1>4, <1>5, <1>6, <1>7 DEF Next

\* The struct before its first Create is an empty dictionary.
LEMMA InitInv ==
  ASSUME Init
  PROVE  HashmapInv /\ Contents = [k \in {} |-> 0] /\ ret = "ok"
  <1> DEFINE none == [i \in {} |-> << >>]
  <1>1. none \in Arrays
    <2>1. none \in [0 .. 0 - 1 -> Seq(Entry)]
      OBVIOUS
    <2> QED
      BY <2>1, ArraysHave
  <1>2. DOMAIN none = {} /\ map.buckets = none
    BY DEF Init
  <1> HIDE DEF none
  <1>3. map \in Maps
    BY <1>1 DEF Init, Maps, none
  <1>4. ~ Live
    BY <1>2 DEF Live
  <1>5. loop \in Loops /\ ret \in Returns /\ freed = {} /\ fault = FALSE /\ ret = "ok"
    BY HashmapAssumption DEF Init, Loops, Returns, Answers, Aborts
  <1>6. KeysIn(map) = {}
    BY <1>2 DEF KeysIn
  <1>7. Contents = [k \in {} |-> 0]
    BY <1>6, Images DEF ContentsOf
  <1> QED
    BY <1>3, <1>4, <1>5, <1>7 DEF HashmapInv

\* The invariant holds in every state of Spec.
THEOREM HashmapInvariant == Spec => []HashmapInv
  <1>1. Init => HashmapInv
    BY InitInv
  <1>2. HashmapInv /\ [Next]_vars => HashmapInv'
    BY NextStep
  <1> QED
    BY <1>1, <1>2, PTL DEF Spec

(***************************************************************************)
(* TypeOK: the struct has its C types after any sequence of calls by the   *)
(* rules of Spec, through every growth, unlinking and iteration.           *)
(***************************************************************************)
THEOREM HashmapTypes == Spec => []TypeOK
  <1>1. ASSUME HashmapInv PROVE TypeOK
    <2>1. /\ map.buckets \in Arrays /\ map.capacity \in Nat /\ map.count \in Nat
          /\ map.it \in [entry : Keys \cup {None, Freed}, nr : Nat]
          /\ map.flags \in SUBSET {"key", "value"}
      BY <1>1 DEF HashmapInv, Maps
    <2>2. PICK n \in Nat : map.buckets \in [0 .. n - 1 -> Seq(Entry)]
      BY <2>1 DEF Arrays
    <2>3. map.buckets \in [DOMAIN map.buckets -> Seq(Entry)]
      BY <2>2
    <2> QED
      BY <1>1, <2>1, <2>3 DEF TypeOK, HashmapInv, Returns
  <1> QED
    BY <1>1, HashmapInvariant, PTL

(***************************************************************************)
(* ShapeOK: however the map was rehashed, every entry lies in the bucket   *)
(* its hash names under the present capacity, and the count the growth     *)
(* decisions read is that of the entries and of the keys.                  *)
(***************************************************************************)
THEOREM HashmapShape == Spec => []ShapeOK
  <1>1. ASSUME HashmapInv PROVE ShapeOK
    <2> SUFFICES ASSUME Live
                 PROVE  /\ DOMAIN map.buckets = 0 .. map.capacity - 1
                        /\ \A i \in DOMAIN map.buckets :
                             \A e \in DOMAIN map.buckets[i] :
                               Home(map, map.buckets[i][e].key) = i
                        /\ map.count = Len(Entries(map))
                        /\ map.count = Cardinality(Stored)
      BY DEF ShapeOK
    <2>1. MapOK(map) /\ Stored = KeysIn(map)
      BY <1>1, Images DEF HashmapInv, Tracks
    <2>2. map.buckets \in [0 .. map.capacity - 1 -> Seq(Entry)]
      BY <2>1 DEF MapOK, Spread
    <2>3. /\ DOMAIN map.buckets = 0 .. map.capacity - 1
          /\ \A i \in 0 .. map.capacity - 1 :
               DOMAIN map.buckets[i] = 1 .. Len(map.buckets[i])
      BY <2>2, ChainOf
    <2>4. \A i \in 0 .. map.capacity - 1 : \A e \in 1 .. Len(map.buckets[i]) :
            Home(map, map.buckets[i][e].key) = i
      BY <2>1 DEF MapOK, Spread
    <2>5. map.count = Len(Entries(map))
      BY <2>1, EntriesList, CountOfMap DEF MapOK
    <2>6. map.count = Cardinality(Stored)
      BY <2>1 DEF MapOK, Counted
    <2> QED
      BY <2>3, <2>4, <2>5, <2>6
  <1> QED
    BY <1>1, HashmapInvariant, PTL

(***************************************************************************)
(* MemorySafe: a client that keeps to the rules never has its iterator on  *)
(* a freed entry, nor a stored key or value freed under it.                *)
(***************************************************************************)
THEOREM HashmapMemorySafe == Spec => []MemorySafe
  <1>1. HashmapInv => MemorySafe
    BY DEF HashmapInv, MemorySafe
  <1> QED
    BY <1>1, HashmapInvariant, PTL

(***************************************************************************)
(* NeverCorrupted: the abort at the end of xtHashmapSetCapacity, for a key *)
(* the new map has lost, is unreachable.                                   *)
(***************************************************************************)
THEOREM HashmapNeverCorrupted == Spec => []NeverCorrupted
  <1>1. HashmapInv => NeverCorrupted
    BY HashmapAssumption DEF HashmapInv, NeverCorrupted, Returns, Answers, Aborts
  <1> QED
    BY <1>1, HashmapInvariant, PTL

(***************************************************************************)
(* LoopVisitsAll: a Foreach loop, with additions that do not grow the map  *)
(* and removals of what it has handed out, misses no key and repeats none. *)
(***************************************************************************)
THEOREM HashmapLoopVisitsAll == Spec => LoopVisitsAll
  <1>1. HashmapInv /\ [Next]_vars =>
          [/\ ret' = "false" => Due = {}
           /\ ret' \in Keys => ret' \notin Seen]_vars
    BY NextStep DEF LoopStep
  <1> QED
    BY <1>1, HashmapInvariant, PTL DEF Spec, LoopVisitsAll

(***************************************************************************)
(* ImplementsDictionary: the map refines the dictionary step by step, with *)
(* its contents read off the buckets, for any hash function, set of keys   *)
(* and growth settings: every call either answers by the contents or       *)
(* leaves them alone.                                                      *)
(***************************************************************************)
THEOREM HashmapIsDictionary == Spec => ImplementsDictionary
  <1>1. Init => D!Init
    BY InitInv DEF D!Init
  <1>2. HashmapInv /\ [Next]_vars => [D!Next]_<<Contents, ret>>
    BY NextStep DEF DictionaryStep
  <1> QED
    BY <1>1, <1>2, HashmapInvariant, PTL DEF Spec, ImplementsDictionary, D!Spec

=============================================================================
