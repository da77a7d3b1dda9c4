----------------------------- MODULE QueueProofs ----------------------------
(***************************************************************************)
(* Proofs about Queue, for every set of values, every capacity and every   *)
(* growth factor.  The lemmas are about one queue struct s: what Create,   *)
(* the copy loop of SetCapacity, the store of Push and the advance of Pop  *)
(* do to its ring and to its content.  The theorems put them together, one *)
(* step per call of queue.h.                                               *)
(***************************************************************************)
EXTENDS Queue, SequenceTheorems, TLAPS

\* The index arithmetic of Push, Pop and SetCapacity: one wrap at most.
LEMMA RingIndex ==
  ASSUME NEW c \in Nat \ {0}, NEW r \in 0 .. c - 1, NEW i \in 0 .. c
  PROVE  (r + i) % c = IF r + i < c THEN r + i ELSE r + i - c
  OBVIOUS

LEMMA SmallIndex ==
  ASSUME NEW c \in Nat \ {0}, NEW i \in 0 .. c - 1
  PROVE  i % c = i
  OBVIOUS

LEMMA QuotientNat ==
  ASSUME NEW c \in Nat, NEW d \in Nat \ {0}
  PROVE  c \div d \in Nat
  OBVIOUS

\* A Push on a full queue that may grow asks for at least one more element.
LEMMA IncrementPositive ==
  ASSUME NEW s, Typed(s), s.grow # 0
  PROVE  Increment(s) \in Nat \ {0}
  <1>1. s.capacity \in Nat /\ s.grow \in Int
    BY DEF Typed
  <1>2. CASE s.grow > 0
    BY <1>1, <1>2 DEF Increment
  <1>3. CASE s.grow < 0
    <2>1. -s.grow \in Nat \ {0}
      BY <1>1, <1>3
    <2>2. s.capacity \div (-s.grow) \in Nat
      BY <1>1, <2>1, QuotientNat
    <2> QED
      BY <1>1, <1>3, <2>2 DEF Increment
  <1> QED
    BY <1>1, <1>2, <1>3

\* Create yields an empty ring whose buffer covers its capacity.
LEMMA FreshQueue ==
  ASSUME NEW n \in Nat
  PROVE  /\ Slots(n) \in Nat \ {0} /\ n <= Slots(n)
         /\ Typed(NewQueue(n))
         /\ Ring(NewQueue(n))
         /\ DOMAIN NewQueue(n).data # {}
         /\ NewQueue(n).count = 0
  <1>1. Slots(n) \in Nat \ {0} /\ n <= Slots(n)
    BY QueueAssumption DEF Slots
  <1>2. Typed(NewQueue(n))
    BY <1>1 DEF NewQueue, Typed, Cell, DefaultGrow
  <1>3. 0 \in DOMAIN NewQueue(n).data /\ NewQueue(n).count = 0
    BY <1>1 DEF NewQueue
  <1>4. n # 0 => 0 % n = 0
    BY SmallIndex
  <1>5. Ring(NewQueue(n))
    BY <1>1, <1>4 DEF NewQueue, Ring, Slot
  <1> QED
    BY <1>1, <1>2, <1>3, <1>5

\* Where the i-th element of a ring is stored.
LEMMA SlotInRange ==
  ASSUME NEW s, Typed(s), Ring(s), s.capacity # 0, NEW i \in 0 .. s.count
  PROVE  /\ Slot(s, i) \in 0 .. s.capacity - 1
         /\ Slot(s, i) \in DOMAIN s.data
         /\ Slot(s, i) = IF s.rear + i < s.capacity THEN s.rear + i
                                                    ELSE s.rear + i - s.capacity
  <1>1. /\ s.capacity \in Nat \ {0} /\ s.rear \in Nat /\ s.count \in Nat
        /\ s.rear < s.capacity /\ s.count <= s.capacity
        /\ DOMAIN s.data = 0 .. s.capacity - 1
    BY DEF Typed, Ring, Slots
  <1>2. s.rear \in 0 .. s.capacity - 1 /\ i \in 0 .. s.capacity
    BY <1>1
  <1>3. (s.rear + i) % s.capacity =
          IF s.rear + i < s.capacity THEN s.rear + i ELSE s.rear + i - s.capacity
    BY <1>1, <1>2, RingIndex
  <1>4. Slot(s, i) =
          IF s.rear + i < s.capacity THEN s.rear + i ELSE s.rear + i - s.capacity
    BY <1>3 DEF Slot
  <1>5. Slot(s, i) \in 0 .. s.capacity - 1
    BY <1>1, <1>2, <1>4
  <1> QED
    BY <1>1, <1>4, <1>5

\* The content of a ring is a sequence of pushed values.
LEMMA ContentSeq ==
  ASSUME NEW s, Typed(s), Ring(s)
  PROVE  /\ Content(s) \in Seq(Values)
         /\ Len(Content(s)) = s.count
         /\ \A i \in 1 .. s.count : Content(s)[i] = s.data[Slot(s, i - 1)]
  <1>1. s.count \in Nat /\ s.capacity \in Nat /\ s.count <= s.capacity
    BY DEF Typed, Ring
  <1>2. ASSUME NEW i \in 1 .. s.count
        PROVE  /\ Load(s, Slot(s, i - 1)) = s.data[Slot(s, i - 1)]
               /\ s.data[Slot(s, i - 1)] \in Values
    <2>1. i - 1 \in 0 .. s.count /\ i - 1 \in 0 .. s.count - 1 /\ s.capacity # 0
      BY <1>1
    <2>2. Slot(s, i - 1) \in DOMAIN s.data
      BY <2>1, SlotInRange
    <2>3. s.data[Slot(s, i - 1)] \in Values
      BY <2>1 DEF Ring
    <2> QED
      BY <2>2, <2>3 DEF Load
  <1> QED
    BY <1>1, <1>2 DEF Content

\* A resize within SafeResize copies the whole ring, oldest element first,
\* reads only the old buffer, and straightens the ring out.
LEMMA SafeCopy ==
  ASSUME NEW s, Typed(s), Ring(s), NEW n \in Nat, SafeResize(s, n), n # s.capacity
  PROVE  /\ Copied(s, n) = s.count
         /\ s.count <= n
         /\ \A j \in 0 .. s.count - 1 :
              /\ Source(s, j) = Slot(s, j)
              /\ Source(s, j) \in DOMAIN s.data
              /\ Load(s, Source(s, j)) = s.data[Slot(s, j)]
              /\ s.data[Slot(s, j)] \in Values
         /\ ~ResizeFaults(s, n)
  <1>1. /\ s.count \in Nat /\ s.capacity \in Nat
        /\ s.count = 0 \/ (s.count = s.capacity /\ n > s.capacity)
    BY DEF Typed, SafeResize, Full
  <1>2. Copied(s, n) = s.count /\ s.count <= n
    BY <1>1 DEF Copied
  <1>3. ASSUME NEW j \in 0 .. s.count - 1
        PROVE  /\ Source(s, j) = Slot(s, j)
               /\ Source(s, j) \in DOMAIN s.data
               /\ Load(s, Source(s, j)) = s.data[Slot(s, j)]
               /\ s.data[Slot(s, j)] \in Values
    <2>1. s.count # 0 /\ s.capacity # 0 /\ s.count = s.capacity
      BY <1>1
    <2>2. s.count \in 0 .. s.count /\ j \in 0 .. s.count /\ 0 \in 0 .. s.count
      BY <1>1, <2>1
    <2>3. s.rear \in Nat /\ s.rear < s.capacity /\ s.front = Slot(s, s.count)
      BY <2>1 DEF Typed, Ring
    <2>4. s.front = s.rear
      BY <1>1, <2>1, <2>2, <2>3, SlotInRange
    <2>5. Slot(s, 0) = s.rear
      BY <1>1, <2>1, <2>2, <2>3, SlotInRange
    <2>6. Source(s, j) = Slot(s, j)
      BY <2>4, <2>5 DEF Source, Slot
    <2>7. Slot(s, j) \in DOMAIN s.data
      BY <2>1, <2>2, SlotInRange
    <2>8. s.data[Slot(s, j)] \in Values
      BY DEF Ring
    <2> QED
      BY <2>6, <2>7, <2>8 DEF Load
  <1>4. ~ResizeFaults(s, n)
    BY <1>2, <1>3 DEF ResizeFaults
  <1> QED
    BY <1>2, <1>3, <1>4

\* SetCapacity within SafeResize keeps the ring and its content.
LEMMA ResizeKeepsRing ==
  ASSUME NEW s, Typed(s), Ring(s), NEW n \in Nat, SafeResize(s, n)
  PROVE  /\ Typed(Resized(s, n))
         /\ Ring(Resized(s, n))
         /\ ~ResizeFaults(s, n)
         /\ Resized(s, n).capacity = n
         /\ Resized(s, n).count = s.count
         /\ Content(Resized(s, n)) = Content(s)
  <1>1. CASE n = s.capacity
    BY <1>1 DEF Resized, ResizeFaults
  <1>2. CASE n # s.capacity
    <2> DEFINE r == Resized(s, n)
               cells == 0 .. Slots(n) - 1
    <2>1. /\ Slots(n) \in Nat \ {0} /\ n <= Slots(n)
          /\ s.count \in Nat /\ s.count <= n
      BY <1>2, FreshQueue, SafeCopy DEF Typed
    <2>2. r = [data |-> [i \in cells |-> IF i < s.count
                          THEN Load(s, Source(s, i)) ELSE Junk],
               count |-> s.count, capacity |-> n,
               front |-> s.count, rear |-> 0, grow |-> DefaultGrow]
      BY <1>2, SafeCopy DEF Resized, NewQueue
    <2>3. /\ r.data = [i \in cells |-> IF i < s.count
                          THEN Load(s, Source(s, i)) ELSE Junk]
          /\ r.count = s.count /\ r.capacity = n
          /\ r.front = s.count /\ r.rear = 0
          /\ DOMAIN r.data = cells
      BY <2>2
    <2>4. \A i \in cells : Load(s, Source(s, i)) \in Cell
      BY DEF Load, Cell, Typed
    <2>5. Typed(r)
      <3>1. r.data \in [DOMAIN r.data -> Cell]
        BY <2>3, <2>4 DEF Cell
      <3> HIDE DEF r
      <3> QED
        BY <2>1, <2>2, <2>3, <3>1 DEF Typed, DefaultGrow
    <2>6. ASSUME NEW i \in 0 .. s.count - 1
          PROVE  /\ Slot(r, i) = i
                 /\ i \in cells
                 /\ r.data[i] = s.data[Slot(s, i)]
                 /\ r.data[i] \in Values
      <3>1. n \in Nat \ {0} /\ i \in 0 .. n - 1
        BY <2>1
      <3>2. i % n = i
        BY <3>1, SmallIndex
      <3>3. Slot(r, i) = i
        BY <2>3, <3>1, <3>2 DEF Slot
      <3>4. i \in cells /\ i < s.count
        BY <2>1
      <3>5. r.data[i] = Load(s, Source(s, i))
        BY <2>3, <3>4
      <3> QED
        BY <1>2, <3>3, <3>4, <3>5, SafeCopy
    <2>7. n # 0 => r.rear < n /\ r.front = Slot(r, r.count)
      <3>1. ASSUME n # 0 PROVE s.count % n = s.count
        <4>1. s.count \in 0 .. n - 1
          BY <1>2, <2>1, <3>1 DEF SafeResize, Full
        <4> QED
          BY <3>1, <4>1, SmallIndex
      <3> QED
        BY <2>1, <2>3, <3>1 DEF Slot
    <2>8. Ring(r)
      BY <2>1, <2>3, <2>6, <2>7 DEF Ring
    <2>9. Content(r) = Content(s)
      <3>1. ASSUME NEW i \in 1 .. s.count
            PROVE  Load(r, Slot(r, i - 1)) = Load(s, Slot(s, i - 1))
        <4>1. i - 1 \in 0 .. s.count - 1
          BY <2>1
        <4> QED
          BY <1>2, <2>3, <2>6, <4>1, SafeCopy DEF Load
      <3> QED
        BY <2>3, <3>1 DEF Content
    <2> QED
      BY <1>2, <2>3, <2>5, <2>8, <2>9, SafeCopy
  <1> QED
    BY <1>1, <1>2

\* The slots of a ring are distinct, and the write index is none of them.
LEMMA SlotsDistinct ==
  ASSUME NEW s, Typed(s), Ring(s), s.count < s.capacity, NEW i \in 0 .. s.count - 1
  PROVE  Slot(s, i) # s.front
  <1>1. /\ s.capacity \in Nat \ {0} /\ s.rear \in Nat /\ s.count \in Nat
        /\ s.rear < s.capacity /\ s.front = Slot(s, s.count)
    BY DEF Typed, Ring
  <1>2. i \in 0 .. s.count /\ s.count \in 0 .. s.count /\ i < s.count
    BY <1>1
  <1>3. Slot(s, i) = IF s.rear + i < s.capacity THEN s.rear + i
                                                ELSE s.rear + i - s.capacity
    BY <1>1, <1>2, SlotInRange
  <1>4. Slot(s, s.count) = IF s.rear + s.count < s.capacity THEN s.rear + s.count
                                       ELSE s.rear + s.count - s.capacity
    BY <1>1, <1>2, SlotInRange
  <1> QED
    BY <1>1, <1>2, <1>3, <1>4

\* The store of Push appends to the content and keeps the ring.
LEMMA StoreKeepsRing ==
  ASSUME NEW s, Typed(s), Ring(s), s.count < s.capacity, NEW v \in Values
  PROVE  /\ s.front \in DOMAIN s.data
         /\ Typed(Stored(s, v))
         /\ Ring(Stored(s, v))
         /\ DOMAIN Stored(s, v).data = DOMAIN s.data
         /\ Content(Stored(s, v)) = Append(Content(s), v)
  <1> DEFINE t == Stored(s, v)
  <1>1. /\ s.capacity \in Nat \ {0} /\ s.rear \in 0 .. s.capacity - 1
        /\ s.count \in 0 .. s.capacity - 1
        /\ s.count \in 0 .. s.count
        /\ s.front = Slot(s, s.count)
    BY DEF Typed, Ring
  <1>2. /\ s.front \in 0 .. s.capacity - 1
        /\ s.front \in DOMAIN s.data
        /\ s.front = IF s.rear + s.count < s.capacity THEN s.rear + s.count
                                      ELSE s.rear + s.count - s.capacity
    BY <1>1, SlotInRange
  <1>3. (s.front + 1) % s.capacity =
          IF s.front + 1 < s.capacity THEN s.front + 1 ELSE s.front + 1 - s.capacity
    <2>1. 1 \in 0 .. s.capacity
      BY <1>1
    <2> QED
      BY <1>1, <1>2, <2>1, RingIndex
  <1>4. (s.rear + (s.count + 1)) % s.capacity =
          IF s.rear + (s.count + 1) < s.capacity THEN s.rear + (s.count + 1)
                                 ELSE s.rear + (s.count + 1) - s.capacity
    <2>1. s.count + 1 \in 0 .. s.capacity
      BY <1>1
    <2> QED
      BY <1>1, <2>1, RingIndex
  <1>5. /\ (s.front + 1) % s.capacity = (s.rear + (s.count + 1)) % s.capacity
        /\ (s.front + 1) % s.capacity \in Nat
    BY <1>1, <1>2, <1>3, <1>4
  <1>6. t = [data |-> [s.data EXCEPT ![s.front] = v], count |-> s.count + 1,
             capacity |-> s.capacity, front |-> (s.front + 1) % s.capacity,
             rear |-> s.rear, grow |-> s.grow]
    <2>1. s = [data |-> s.data, count |-> s.count, capacity |-> s.capacity,
               front |-> s.front, rear |-> s.rear, grow |-> s.grow]
      BY DEF Typed
    <2>2. t = [s EXCEPT !.data = [s.data EXCEPT ![s.front] = v],
                        !.front = (s.front + 1) % s.capacity,
                        !.count = s.count + 1]
      BY <1>2 DEF Stored
    <2> QED
      BY <2>1, <2>2
  <1>7. /\ t.data = [s.data EXCEPT ![s.front] = v] /\ t.count = s.count + 1
        /\ t.capacity = s.capacity /\ t.front = (s.front + 1) % s.capacity
        /\ t.rear = s.rear
        /\ DOMAIN t.data = DOMAIN s.data
    BY <1>6
  <1>8. Typed(t)
    <2>1. t.data \in [DOMAIN t.data -> Cell]
      BY <1>2, <1>7 DEF Typed, Cell
    <2> HIDE DEF t
    <2> QED
      BY <1>1, <1>5, <1>6, <1>7, <2>1 DEF Typed
  <1>9. \A i : Slot(t, i) = Slot(s, i)
    BY <1>7 DEF Slot
  <1>10. t.data[Slot(t, s.count)] = v
    BY <1>1, <1>2, <1>7, <1>9
  <1>11. ASSUME NEW i \in 0 .. s.count - 1
         PROVE  /\ t.data[Slot(t, i)] = s.data[Slot(s, i)]
                /\ s.data[Slot(s, i)] \in Values
    <2>1. i \in 0 .. s.count
      BY <1>1
    <2>2. Slot(s, i) \in DOMAIN s.data /\ Slot(s, i) # s.front
      BY <1>1, <2>1, SlotInRange, SlotsDistinct
    <2> QED
      BY <1>7, <1>9, <2>2 DEF Ring
  <1>12. Ring(t)
    <2>1. DOMAIN t.data = 0 .. Slots(t.capacity) - 1
      BY <1>7 DEF Ring
    <2>2. /\ t.count <= t.capacity
          /\ t.capacity # 0
          /\ t.rear < t.capacity /\ t.front = Slot(t, t.count)
      BY <1>1, <1>5, <1>7 DEF Slot
    <2>3. ASSUME NEW i \in 0 .. t.count - 1
          PROVE  t.data[Slot(t, i)] \in Values
      <3>1. i = s.count \/ i \in 0 .. s.count - 1
        BY <1>1, <1>7
      <3> QED
        BY <3>1, <1>10, <1>11
    <2> QED
      BY <2>1, <2>2, <2>3 DEF Ring
  <1>13. Content(t) = Append(Content(s), v)
    <2>1. /\ Content(s) \in Seq(Values) /\ Len(Content(s)) = s.count
          /\ Content(t) \in Seq(Values) /\ Len(Content(t)) = s.count + 1
      BY <1>7, <1>8, <1>12, ContentSeq
    <2>2. ASSUME NEW i \in 1 .. s.count + 1
          PROVE  Content(t)[i] = Append(Content(s), v)[i]
      <3>1. Content(t)[i] = t.data[Slot(t, i - 1)]
        BY <1>7, <1>8, <1>12, ContentSeq
      <3>2. CASE i = s.count + 1
        BY <1>1, <1>10, <2>1, <3>1, <3>2
      <3>3. CASE i \in 1 .. s.count
        <4>1. i - 1 \in 0 .. s.count - 1
          BY <1>1, <3>3
        <4>2. Content(s)[i] = s.data[Slot(s, i - 1)]
          BY <3>3, ContentSeq
        <4>3. t.data[Slot(t, i - 1)] = s.data[Slot(s, i - 1)]
          BY <1>11, <4>1
        <4>4. Append(Content(s), v)[i] = Content(s)[i]
          BY <2>1, <3>3, AppendProperties
        <4> QED
          BY <3>1, <4>2, <4>3, <4>4
      <3>4. i = s.count + 1 \/ i \in 1 .. s.count
        BY <1>1
      <3> QED
        BY <3>2, <3>3, <3>4
    <2> QED
      BY <2>1, <2>2, AppendProperties, SeqEqual
  <1> QED
    BY <1>2, <1>7, <1>8, <1>12, <1>13

\* Pop and Drop take the head of the content and keep the ring.
LEMMA AdvanceKeepsRing ==
  ASSUME NEW s, Typed(s), Ring(s), s.count # 0
  PROVE  /\ s.rear \in DOMAIN s.data
         /\ Load(s, s.rear) \in Values
         /\ Content(s) # << >>
         /\ Load(s, s.rear) = Head(Content(s))
         /\ Typed(Advanced(s))
         /\ Ring(Advanced(s))
         /\ DOMAIN Advanced(s).data = DOMAIN s.data
         /\ Content(Advanced(s)) = Tail(Content(s))
  <1> DEFINE t == Advanced(s)
  <1>1. /\ s.count \in Nat \ {0} /\ s.capacity \in Nat \ {0}
        /\ s.count <= s.capacity
        /\ s.rear \in 0 .. s.capacity - 1
        /\ 0 \in 0 .. s.count /\ s.count \in 0 .. s.count
        /\ s.front = Slot(s, s.count)
    BY DEF Typed, Ring
  <1>2. s.rear \in DOMAIN s.data /\ Slot(s, 0) = s.rear
    BY <1>1, SlotInRange
  <1>3. /\ Content(s) \in Seq(Values) /\ Len(Content(s)) = s.count
        /\ \A i \in 1 .. s.count : Content(s)[i] = s.data[Slot(s, i - 1)]
    BY ContentSeq
  <1>4. /\ Content(s) # << >>
        /\ Load(s, s.rear) = Head(Content(s))
        /\ Load(s, s.rear) \in Values
    <2>1. 1 \in 1 .. s.count /\ 0 \in 0 .. s.count - 1
      BY <1>1
    <2>2. Content(s)[1] = s.data[s.rear]
      BY <1>2, <1>3, <2>1
    <2>3. Content(s) # << >>
      BY <1>1, <1>3
    <2>4. s.data[s.rear] \in Values
      BY <1>2, <2>1 DEF Ring
    <2> QED
      BY <1>2, <1>3, <2>2, <2>3, <2>4 DEF Load
  <1>5. (s.rear + 1) % s.capacity =
          IF s.rear + 1 < s.capacity THEN s.rear + 1 ELSE s.rear + 1 - s.capacity
    <2>1. 1 \in 0 .. s.capacity
      BY <1>1
    <2> QED
      BY <1>1, <2>1, RingIndex
  <1>6. (s.rear + 1) % s.capacity \in 0 .. s.capacity - 1
    BY <1>1, <1>5
  <1>7. t = [data |-> s.data, count |-> s.count - 1, capacity |-> s.capacity,
             front |-> s.front, rear |-> (s.rear + 1) % s.capacity,
             grow |-> s.grow]
    <2>1. s = [data |-> s.data, count |-> s.count, capacity |-> s.capacity,
               front |-> s.front, rear |-> s.rear, grow |-> s.grow]
      BY DEF Typed
    <2>2. t = [s EXCEPT !.rear = (s.rear + 1) % s.capacity, !.count = s.count - 1]
      BY DEF Advanced
    <2> QED
      BY <2>1, <2>2
  <1>8. /\ t.data = s.data /\ t.count = s.count - 1 /\ t.capacity = s.capacity
        /\ t.front = s.front /\ t.rear = (s.rear + 1) % s.capacity
    BY <1>7
  <1>9. Typed(t)
    <2> HIDE DEF t
    <2> QED
      BY <1>1, <1>6, <1>7, <1>8 DEF Typed
  <1>10. ASSUME NEW i \in 0 .. s.count - 1
         PROVE  Slot(t, i) = Slot(s, i + 1)
    <2> DEFINE r == (s.rear + 1) % s.capacity
    <2>1. i + 1 \in 0 .. s.count /\ i \in 0 .. s.capacity
      BY <1>1
    <2>2. Slot(s, i + 1) = IF s.rear + (i + 1) < s.capacity THEN s.rear + (i + 1)
                                       ELSE s.rear + (i + 1) - s.capacity
      BY <1>1, <2>1, SlotInRange
    <2>3. (r + i) % s.capacity =
            IF r + i < s.capacity THEN r + i ELSE r + i - s.capacity
      <3> HIDE DEF r
      <3> QED
        BY <1>1, <1>6, <2>1, RingIndex DEF r
    <2>4. Slot(t, i) = (r + i) % s.capacity
      BY <1>8 DEF Slot
    <2> QED
      BY <1>1, <1>5, <2>1, <2>2, <2>3, <2>4
  <1>11. Ring(t)
    <2>1. DOMAIN t.data = 0 .. Slots(t.capacity) - 1
      BY <1>8 DEF Ring
    <2>2. t.count <= t.capacity /\ t.capacity # 0 /\ t.rear < t.capacity
      BY <1>1, <1>6, <1>8
    <2>3. t.front = Slot(t, t.count)
      <3>1. s.count - 1 \in 0 .. s.count - 1 /\ (s.count - 1) + 1 = s.count
        BY <1>1
      <3>2. Slot(t, s.count - 1) = Slot(s, (s.count - 1) + 1)
        BY <1>10, <3>1
      <3> QED
        BY <1>1, <1>8, <3>1, <3>2
    <2>4. ASSUME NEW i \in 0 .. t.count - 1
          PROVE  t.data[Slot(t, i)] \in Values
      <3>1. i \in 0 .. s.count - 1 /\ i + 1 \in 0 .. s.count - 1
        BY <1>1, <1>8
      <3>2. s.data[Slot(s, i + 1)] \in Values
        BY <3>1 DEF Ring
      <3> QED
        BY <1>8, <1>10, <3>1, <3>2
    <2> QED
      BY <2>1, <2>2, <2>3, <2>4 DEF Ring
  <1>12. Content(t) = Tail(Content(s))
    <2>1. /\ Content(t) \in Seq(Values) /\ Len(Content(t)) = s.count - 1
          /\ \A i \in 1 .. s.count - 1 : Content(t)[i] = t.data[Slot(t, i - 1)]
      BY <1>8, <1>9, <1>11, ContentSeq
    <2>2. /\ Tail(Content(s)) \in Seq(Values)
          /\ Len(Tail(Content(s))) = s.count - 1
          /\ \A i \in 1 .. s.count - 1 : Tail(Content(s))[i] = Content(s)[i + 1]
      BY <1>3, <1>4, HeadTailProperties
    <2>3. ASSUME NEW i \in 1 .. s.count - 1
          PROVE  Content(t)[i] = Tail(Content(s))[i]
      <3>1. /\ i - 1 \in 0 .. s.count - 1 /\ i + 1 \in 1 .. s.count
            /\ (i - 1) + 1 = i /\ (i + 1) - 1 = i
        BY <1>1
      <3>2. Content(t)[i] = s.data[Slot(s, i)]
        BY <1>8, <1>10, <2>1, <3>1
      <3>3. Content(s)[i + 1] = s.data[Slot(s, i)]
        BY <1>3, <3>1
      <3> QED
        BY <2>2, <3>2, <3>3
    <2> QED
      BY <2>1, <2>2, <2>3, SeqEqual
  <1> QED
    BY <1>2, <1>4, <1>8, <1>9, <1>11, <1>12
-----------------------------------------------------------------------------
(***************************************************************************)
(* The inductive invariant.  MemorySafe alone says nothing of the indices  *)
(* the next call will use; Ring places them, and adds that every cell      *)
(* between them was pushed, which is what a Pop hands out.                 *)
(***************************************************************************)
Inv == TypeOK /\ RingOK /\ MemorySafe

Step == [F!Next]_<<Items, top>>

LEMMA InitInv == Init => Inv /\ F!Init
  <1> SUFFICES ASSUME Init PROVE Inv /\ F!Init
    OBVIOUS
  <1>1. Typed(NewQueue(0)) /\ 0 \in Nat
    BY FreshQueue
  <1>2. q.data = Null /\ DOMAIN q.data = {}
    BY DEF Init, NewQueue, Null
  <1>3. Typed(q)
    BY <1>1, <1>2 DEF Init, NewQueue, Typed, Null, DefaultGrow
  <1>4. ~Live
    BY <1>2 DEF Live
  <1>5. TypeOK
    <2>1. fault \in BOOLEAN /\ top \in Cell \cup {Nothing}
      BY DEF Init
    <2>2. ret \in Errors \cup {"ok", "true", "false"}
      BY DEF Init, DefaultGrow
    <2> QED
      BY <1>3, <2>1, <2>2 DEF TypeOK
  <1>6. MemorySafe
    BY QueueAssumption DEF Init, MemorySafe
  <1> QED
    BY <1>4, <1>5, <1>6 DEF Inv, RingOK, F!Init, Items, Init

\* Create either leaves the struct alone or makes it an empty ring.
LEMMA CreateStep ==
  ASSUME Inv, NEW n \in Capacities, Create(n)
  PROVE  Inv' /\ Step
  <1>1. n \in Nat
    BY QueueAssumption
  <1>2. CASE UNCHANGED q /\ ret' = "XT_ENOMEM"
    BY <1>2 DEF Create, Inv, TypeOK, RingOK, MemorySafe, Live, Errors, Step, Items
  <1>3. CASE q' = NewQueue(n) /\ ret' = "ok"
    <2>1. /\ Typed(q') /\ Ring(q') /\ DOMAIN q'.data # {} /\ q'.count = 0
      BY <1>1, <1>3, FreshQueue
    <2>2. TypeOK'
      BY <1>3, <2>1 DEF Create, Inv, TypeOK, DefaultGrow
    <2>3. Content(q') = << >>
      BY <2>1 DEF Content
    <2>4. Items' = << >> /\ Items = << >>
      BY <2>1, <2>3 DEF Items, Live, Create
    <2> QED
      BY <2>1, <2>2, <2>4 DEF Create, Inv, RingOK, MemorySafe, Step
  <1> QED
    BY <1>2, <1>3 DEF Create

\* Destroy empties the queue, whether or not it held a buffer.
LEMMA DestroyStep ==
  ASSUME Inv, Destroy
  PROVE  Inv' /\ Step
  <1>1. q' = [q EXCEPT !.data = Null] /\ DOMAIN Null = {}
    BY DEF Destroy, Null
  <1>2. q'.data = Null /\ Typed(q')
    BY <1>1 DEF Inv, TypeOK, Typed, Null
  <1>3. ~Live'
    BY <1>1, <1>2 DEF Live
  <1>4. TypeOK'
    BY <1>2 DEF Destroy, Inv, TypeOK
  <1>5. F!Close
    BY <1>3 DEF F!Close, Items, Destroy
  <1> QED
    BY <1>3, <1>4, <1>5 DEF Destroy, Inv, RingOK, MemorySafe, Step, F!Next

\* SetGrowthFactor touches neither the indices nor the buffer.
LEMMA SetGrowthFactorStep ==
  ASSUME Inv, NEW g \in Growths, SetGrowthFactor(g)
  PROVE  Inv' /\ Step
  <1>1. g \in Int /\ q' = [q EXCEPT !.grow = g]
    BY QueueAssumption DEF SetGrowthFactor
  <1>2. /\ q'.data = q.data /\ q'.count = q.count /\ q'.capacity = q.capacity
        /\ q'.front = q.front /\ q'.rear = q.rear /\ Typed(q')
    BY <1>1 DEF Inv, TypeOK, Typed
  <1>3. Live' = Live /\ Ring(q) = Ring(q') /\ Content(q) = Content(q')
    BY <1>2 DEF Live, Ring, Content, Load, Slot
  <1>4. TypeOK'
    BY <1>1, <1>2 DEF SetGrowthFactor, Inv, TypeOK
  <1> QED
    BY <1>3, <1>4 DEF SetGrowthFactor, Inv, RingOK, MemorySafe, Step, Items

\* Every outcome of Push: stored with room, refused, or stored after growing.
LEMMA PushStep ==
  ASSUME Inv, NEW v \in Values, Push(v)
  PROVE  Inv' /\ Step
  <1>1. Live /\ Typed(q) /\ Ring(q) /\ ~fault /\ UNCHANGED top
    BY DEF Inv, Push, RingOK, TypeOK, MemorySafe
  <1>2. CASE PushNoGrowth \/ PushNoMemory
    BY <1>2, <1>1 DEF PushNoGrowth, PushNoMemory, Inv, TypeOK, RingOK, MemorySafe,
                      Live, Errors, Step, Items
  <1>3. ASSUME NEW s, Typed(s), Ring(s), s.count < s.capacity,
               Content(s) = Content(q),
               DOMAIN s.data # {},
               q' = Stored(s, v), fault' = (s.front \notin DOMAIN s.data),
               ret' = "ok"
        PROVE  Inv' /\ Step
    <2>1. /\ s.front \in DOMAIN s.data
          /\ Typed(q') /\ Ring(q') /\ DOMAIN q'.data = DOMAIN s.data
          /\ Content(q') = Append(Content(q), v)
      BY <1>3, StoreKeepsRing
    <2>2. Live' /\ fault' = FALSE
      BY <1>3, <2>1 DEF Live
    <2>3. TypeOK'
      BY <1>1, <1>3, <2>1, <2>2 DEF Inv, TypeOK
    <2>4. F!Put(v)
      BY <1>1, <2>1, <2>2 DEF F!Put, Items
    <2> QED
      BY <1>1, <2>1, <2>2, <2>3, <2>4 DEF Inv, RingOK, MemorySafe, Step, F!Next
  <1>4. CASE PushWithRoom(v)
    <2>1. q.count < q.capacity
      BY <1>1, <1>4 DEF PushWithRoom, Full, Typed, Ring
    <2>2. fault' = (q.front \notin DOMAIN q.data)
      BY <1>1, <1>4 DEF PushWithRoom
    <2> QED
      BY <1>1, <1>3, <1>4, <2>1, <2>2 DEF PushWithRoom, Live
  <1>5. CASE PushGrow(v)
    <2> DEFINE n == q.capacity + Increment(q)
               r == Resized(q, n)
    <2>1. /\ q.count = q.capacity /\ q.grow # 0 /\ q.capacity \in Nat
          /\ q' = Stored(r, v) /\ ret' = "ok"
          /\ fault' = (fault \/ ResizeFaults(q, n) \/ r.front \notin DOMAIN r.data)
      BY <1>1, <1>5 DEF PushGrow, Full, Typed
    <2>2. n \in Nat /\ n > q.capacity
      BY <1>1, <2>1, IncrementPositive
    <2>3. SafeResize(q, n)
      BY <2>1, <2>2 DEF SafeResize, Full
    <2> HIDE DEF n
    <2>4. /\ Typed(r) /\ Ring(r) /\ ~ResizeFaults(q, n)
          /\ r.capacity = n /\ r.count = q.count /\ Content(r) = Content(q)
      BY <1>1, <2>2, <2>3, ResizeKeepsRing
    <2> HIDE DEF r
    <2>5. fault' = (r.front \notin DOMAIN r.data)
      BY <1>1, <2>1, <2>4
    <2>6. r.count < r.capacity
      BY <2>1, <2>2, <2>4
    <2>7. DOMAIN r.data # {}
      <3>1. 0 \in 0 .. Slots(n) - 1
        BY <2>2, FreshQueue
      <3> QED
        BY <2>4, <3>1 DEF Ring
    <2> QED
      BY <1>3, <2>1, <2>4, <2>5, <2>6, <2>7
  <1> QED
    BY <1>2, <1>4, <1>5 DEF Push

\* Peek and Pop hand out the head; Drop discards it; an empty queue refuses.
LEMMA PeekStep ==
  ASSUME Inv, Peek
  PROVE  Inv' /\ Step
  <1>1. Live /\ Typed(q) /\ Ring(q) /\ ~fault /\ UNCHANGED q
    BY DEF Inv, Peek, RingOK, TypeOK, MemorySafe
  <1>2. CASE q.count = 0
    BY <1>1, <1>2 DEF Peek, Inv, TypeOK, RingOK, MemorySafe, Live, Step, Items
  <1>3. CASE q.count # 0
    <2>1. /\ q.rear \in DOMAIN q.data /\ Load(q, q.rear) \in Values
          /\ Content(q) # << >> /\ Load(q, q.rear) = Head(Content(q))
      BY <1>1, <1>3, AdvanceKeepsRing
    <2>2. top' = Head(Content(q)) /\ top' \in Values /\ fault' = FALSE /\ ret' = "true"
      BY <1>1, <1>3, <2>1 DEF Peek
    <2>3. TypeOK' /\ RingOK' /\ MemorySafe'
      BY <1>1, <2>2, QueueAssumption
         DEF Inv, TypeOK, Cell, RingOK, MemorySafe, Live
    <2>4. F!Look
      BY <1>1, <2>1, <2>2 DEF F!Look, Items, Live
    <2> QED
      BY <2>3, <2>4 DEF Inv, Step, F!Next
  <1> QED
    BY <1>2, <1>3

LEMMA PopStep ==
  ASSUME Inv, Pop
  PROVE  Inv' /\ Step
  <1>1. Live /\ Typed(q) /\ Ring(q) /\ ~fault
    BY DEF Inv, Pop, RingOK, TypeOK, MemorySafe
  <1>2. CASE q.count = 0
    BY <1>1, <1>2 DEF Pop, Inv, TypeOK, RingOK, MemorySafe, Live, Step, Items
  <1>3. CASE q.count # 0
    <2>1. /\ q.rear \in DOMAIN q.data /\ Load(q, q.rear) \in Values
          /\ Content(q) # << >> /\ Load(q, q.rear) = Head(Content(q))
          /\ Typed(Advanced(q)) /\ Ring(Advanced(q))
          /\ DOMAIN Advanced(q).data = DOMAIN q.data
          /\ Content(Advanced(q)) = Tail(Content(q))
      BY <1>1, <1>3, AdvanceKeepsRing
    <2>2. /\ top' = Head(Content(q)) /\ top' \in Values
          /\ fault' = FALSE /\ ret' = "true" /\ q' = Advanced(q)
      BY <1>1, <1>3, <2>1 DEF Pop
    <2>3. Live'
      BY <1>1, <2>1, <2>2 DEF Live
    <2>4. TypeOK' /\ RingOK' /\ MemorySafe'
      BY <1>1, <2>1, <2>2, QueueAssumption
         DEF Inv, TypeOK, Cell, RingOK, MemorySafe
    <2>5. F!Take
      BY <1>1, <2>1, <2>2, <2>3 DEF F!Take, Items
    <2> QED
      BY <2>4, <2>5 DEF Inv, Step, F!Next
  <1> QED
    BY <1>2, <1>3

LEMMA DropStep ==
  ASSUME Inv, Drop
  PROVE  Inv' /\ Step
  <1>1. Live /\ Typed(q) /\ Ring(q) /\ UNCHANGED <<top, fault>> /\ ret' = "ok"
    BY DEF Inv, Drop, RingOK, TypeOK
  <1>2. CASE q.count = 0
    BY <1>1, <1>2 DEF Drop, Inv, TypeOK, RingOK, MemorySafe, Live, Step, Items
  <1>3. CASE q.count # 0
    <2>1. /\ Content(q) # << >> /\ q' = Advanced(q)
          /\ Typed(q') /\ Ring(q') /\ DOMAIN q'.data = DOMAIN q.data
          /\ Content(q') = Tail(Content(q))
      BY <1>1, <1>3, AdvanceKeepsRing DEF Drop
    <2>2. Live'
      BY <1>1, <2>1 DEF Live
    <2>3. TypeOK' /\ RingOK' /\ MemorySafe'
      BY <1>1, <2>1 DEF Inv, TypeOK, RingOK, MemorySafe
    <2>4. F!Discard
      BY <1>1, <2>1, <2>2 DEF F!Discard, Items
    <2> QED
      BY <2>3, <2>4 DEF Inv, Step, F!Next
  <1> QED
    BY <1>2, <1>3

\* A resize the contract allows is invisible to the client.
LEMMA SetCapacityStep ==
  ASSUME Inv, NEW n \in Capacities, SafeResize(q, n), SetCapacity(n)
  PROVE  Inv' /\ Step
  <1>1. /\ Live /\ Typed(q) /\ Ring(q) /\ ~fault /\ UNCHANGED top
        /\ n \in Nat
    BY QueueAssumption DEF Inv, SetCapacity, RingOK, TypeOK, MemorySafe
  <1>2. CASE ret' = "XT_ENOMEM" /\ UNCHANGED <<q, fault>>
    BY <1>1, <1>2 DEF Inv, TypeOK, RingOK, MemorySafe, Live, Errors, Step, Items
  <1>3. CASE /\ q' = Resized(q, n) /\ ret' = "ok"
             /\ fault' = (fault \/ ResizeFaults(q, n))
    <2>1. /\ Typed(q') /\ Ring(q') /\ ~ResizeFaults(q, n)
          /\ q'.capacity = n /\ Content(q') = Content(q)
      BY <1>1, <1>3, ResizeKeepsRing
    <2>2. fault' = FALSE
      BY <1>1, <1>3, <2>1
    <2>3. Live'
      <3>1. 0 \in 0 .. Slots(n) - 1
        BY <1>1, FreshQueue
      <3> QED
        BY <2>1, <3>1 DEF Ring, Live
    <2>4. TypeOK' /\ RingOK' /\ MemorySafe'
      BY <1>1, <1>3, <2>1, <2>2 DEF Inv, TypeOK, RingOK, MemorySafe
    <2>5. Items' = Items
      BY <1>1, <2>1, <2>3 DEF Items
    <2> QED
      BY <1>1, <2>4, <2>5 DEF Inv, Step
  <1> QED
    BY <1>2, <1>3 DEF SetCapacity

LEMMA NextStep == Inv /\ [Next]_vars => Inv' /\ Step
  <1> SUFFICES ASSUME Inv, [Next]_vars PROVE Inv' /\ Step
    OBVIOUS
  <1>1. CASE UNCHANGED vars
    BY <1>1 DEF vars, Inv, TypeOK, RingOK, MemorySafe, Live, Step, Items
  <1>2. CASE Common
    BY <1>2, CreateStep, DestroyStep, SetGrowthFactorStep, PushStep, PeekStep,
       PopStep, DropStep DEF Common
  <1>3. ASSUME NEW n \in Capacities, SafeResize(q, n), SetCapacity(n)
        PROVE  Inv' /\ Step
    BY <1>3, SetCapacityStep
  <1> QED
    BY <1>1, <1>2, <1>3 DEF Next

\* Every field and every value handed to the client has its type.
THEOREM TypeCorrect == Spec => []TypeOK
  <1>1. Init => Inv
    BY InitInv
  <1>2. Inv /\ [Next]_vars => Inv'
    BY NextStep
  <1>3. Inv => TypeOK
    BY DEF Inv
  <1> QED
    BY <1>1, <1>2, <1>3, PTL DEF Spec

\* The ring keeps its shape, whatever sequence of calls the client makes.
THEOREM RingShape == Spec => []RingOK
  <1>1. Init => Inv
    BY InitInv
  <1>2. Inv /\ [Next]_vars => Inv'
    BY NextStep
  <1>3. Inv => RingOK
    BY DEF Inv
  <1> QED
    BY <1>1, <1>2, <1>3, PTL DEF Spec

\* No call touches memory outside the buffer or hands out an unwritten cell.
THEOREM NoBadAccess == Spec => []MemorySafe
  <1>1. Init => Inv
    BY InitInv
  <1>2. Inv /\ [Next]_vars => Inv'
    BY NextStep
  <1>3. Inv => MemorySafe
    BY DEF Inv
  <1> QED
    BY <1>1, <1>2, <1>3, PTL DEF Spec

\* A call that returns XT_ENOBUFS or XT_ENOMEM changed nothing.
THEOREM ErrorsChangeNothing == Spec => ErrorKeepsQueue
  <1>1. [Next]_vars => [ret' \in Errors => UNCHANGED <<q, top>>]_vars
    BY DEF Next, Common, Create, Destroy, SetGrowthFactor, Push, PushWithRoom,
           PushNoGrowth, PushNoMemory, PushGrow, Peek, Pop, Drop, SetCapacity,
           Errors, vars
  <1> QED
    BY <1>1, PTL DEF Spec, ErrorKeepsQueue

\* The ring buffer implements the FIFO: every call of the library is a step
\* of the abstract queue or leaves it alone.
THEOREM QueueIsFifo == Spec => ImplementsFifo
  <1>1. Init => Inv /\ F!Init
    BY InitInv
  <1>2. Inv /\ [Next]_vars => Inv' /\ [F!Next]_(F!vars)
    BY NextStep DEF Step, F!vars
  <1> QED
    BY <1>1, <1>2, PTL DEF Spec, ImplementsFifo, F!Spec
=============================================================================
