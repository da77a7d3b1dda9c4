----------------------------- MODULE ArrayProofs -----------------------------
(***************************************************************************)
(* Proofs about what the library keeps in arrays: List, Stack and the two  *)
(* implementations of xtSocketPoll.                                        *)
(*                                                                         *)
(* List and Stack, for all values, capacities and growth factors, keep     *)
(* their elements in the first cells of a buffer, so the lemmas of the     *)
(* first section speak of any record s with a count and a buffer: what a   *)
(* store, a cut, a reallocation and a removal do to the sequence           *)
(* ListItems(s).  The tables of EpollSet and WsaPollSet, for any number of *)
(* sockets, capacities, data and events, agree with what is watched, and   *)
(* both implement PollSet.                                                 *)
(***************************************************************************)
EXTENDS List, Stack, EpollSet, WsaPollSet, FiniteSetTheorems, SequenceTheorems,
        WellFoundedInduction, TLAPS

\* Every element lies in the buffer and was stored by the client.
Filled(s) ==
  /\ s.count \in Nat
  /\ \A i \in 0 .. s.count - 1 : i \in DOMAIN s.data /\ s.data[i] \in Values

\* A set of natural numbers that is not empty has a least element.
LEMMA LeastNatural ==
  ASSUME NEW T \in SUBSET Nat, T # {}
  PROVE  \E x \in T : \A y \in T : x <= y
  <1>1. PICK x \in T : \A y \in T : ~ (<<y, x>> \in OpToRel(<, Nat))
    BY NatLessThanWellFounded, WFMin
  <1>2. ASSUME NEW y \in T PROVE x <= y
    <2>1. ~ (<<y, x>> \in OpToRel(<, Nat)) /\ x \in Nat /\ y \in Nat
      BY <1>1
    <2>2. <<y, x>> \in Nat \X Nat
      BY <2>1
    <2>3. ~ (y < x)
      BY <2>1, <2>2 DEF OpToRel
    <2>4. x \in Int /\ y \in Int
      OBVIOUS
    <2> HIDE <2>1
    <2> QED
      BY <2>3, <2>4
  <1> QED
    BY <1>2

\* The sequence of a filled buffer.
LEMMA ItemsAreSeq ==
  ASSUME NEW s, Filled(s)
  PROVE  /\ ListItems(s) \in Seq(Values)
         /\ Len(ListItems(s)) = s.count
         /\ DOMAIN ListItems(s) = 1 .. s.count
         /\ \A i \in 1 .. s.count : ListItems(s)[i] = s.data[i - 1]
  <1>1. ASSUME NEW i \in 1 .. s.count
        PROVE  /\ Fetch(s.data, i - 1) = s.data[i - 1]
               /\ s.data[i - 1] \in Values
    <2>1. i - 1 \in 0 .. s.count - 1
      BY DEF Filled
    <2> QED
      BY <2>1 DEF Filled, Fetch
  <1> QED
    BY <1>1 DEF ListItems, Filled

\* A store behind the last element appends it.
LEMMA ItemsAppended ==
  ASSUME NEW s, NEW t, Filled(s), NEW v \in Values,
         t.count = s.count + 1,
         \A i \in 0 .. s.count - 1 : i \in DOMAIN t.data /\ t.data[i] = s.data[i],
         s.count \in DOMAIN t.data, t.data[s.count] = v
  PROVE  Filled(t) /\ ListItems(t) = Append(ListItems(s), v)
  <1>1. Filled(t)
    BY DEF Filled
  <1>2. ASSUME NEW i \in 1 .. s.count + 1
        PROVE  ListItems(t)[i] = Append(ListItems(s), v)[i]
    <2>1. CASE i = s.count + 1
      BY <1>1, <2>1, ItemsAreSeq, AppendProperties DEF Filled
    <2>2. CASE i # s.count + 1
      <3>1. i \in 1 .. s.count /\ i - 1 \in 0 .. s.count - 1
        BY <2>2 DEF Filled
      <3> QED
        BY <1>1, <3>1, ItemsAreSeq, AppendProperties
    <2> QED
      BY <2>1, <2>2
  <1>3. Append(ListItems(s), v) \in Seq(Values) /\ Len(Append(ListItems(s), v)) = s.count + 1
    BY ItemsAreSeq, AppendProperties
  <1> QED
    BY <1>1, <1>2, <1>3, ItemsAreSeq, SeqEqual

\* A buffer that keeps its first elements and counts no others is cut off.
LEMMA ItemsCut ==
  ASSUME NEW s, NEW t, Filled(s), t.count \in 0 .. s.count,
         \A i \in 0 .. t.count - 1 : i \in DOMAIN t.data /\ t.data[i] = s.data[i]
  PROVE  Filled(t) /\ ListItems(t) = SubSeq(ListItems(s), 1, t.count)
  <1>1. Filled(t)
    BY DEF Filled
  <1>2. t.count \in Nat /\ s.count \in Nat /\ t.count <= s.count
    BY DEF Filled
  <1>3. \A i \in 1 .. t.count : ListItems(s)[i] \in Values
    BY <1>2, ItemsAreSeq
  <1>4. /\ SubSeq(ListItems(s), 1, t.count) \in Seq(Values)
        /\ Len(SubSeq(ListItems(s), 1, t.count)) = t.count
        /\ \A i \in 1 .. t.count : SubSeq(ListItems(s), 1, t.count)[i] = ListItems(s)[i]
    BY <1>2, <1>3, ItemsAreSeq, SubSeqProperties
  <1>5. ASSUME NEW i \in 1 .. t.count
        PROVE  ListItems(t)[i] = ListItems(s)[i]
    <2>1. i - 1 \in 0 .. t.count - 1 /\ i \in 1 .. s.count
      BY <1>2
    <2> QED
      BY <1>1, <2>1, ItemsAreSeq
  <1> QED
    BY <1>1, <1>4, <1>5, ItemsAreSeq, SeqEqual

\* A buffer with the same elements holds the same sequence.
LEMMA ItemsKept ==
  ASSUME NEW s, NEW t, Filled(s), t.count = s.count,
         \A i \in 0 .. s.count - 1 : i \in DOMAIN t.data /\ t.data[i] = s.data[i]
  PROVE  Filled(t) /\ ListItems(t) = ListItems(s)
  <1>1. Filled(t)
    BY DEF Filled
  <1>2. ASSUME NEW i \in 1 .. s.count PROVE ListItems(t)[i] = ListItems(s)[i]
    <2>1. i - 1 \in 0 .. s.count - 1
      BY DEF Filled
    <2> QED
      BY <1>1, <2>1, ItemsAreSeq
  <1> QED
    BY <1>1, <1>2, ItemsAreSeq, SeqEqual

\* A buffer without elements holds the empty sequence.
LEMMA ItemsNone ==
  ASSUME NEW s, s.count = 0
  PROVE  Filled(s) /\ ListItems(s) = << >>
  BY DEF Filled, ListItems
-----------------------------------------------------------------------------
(***************************************************************************)
(* The stack.  StackShape is what StackTypeOK and StackBounds say of a     *)
(* struct with a buffer.                                                   *)
(***************************************************************************)
StackStruct(s) ==
  s \in [data : [DOMAIN s.data -> Cell], count : Nat, capacity : Nat, grow : Int]

StackShape(s) ==
  /\ StackStruct(s)
  /\ DOMAIN s.data = 0 .. Requested(s.capacity) - 1
  /\ s.count <= s.capacity
  /\ Filled(s)

\* A struct is the record of its fields.
LEMMA StackFields ==
  ASSUME NEW s, StackStruct(s)
  PROVE  /\ s = [data |-> s.data, count |-> s.count, capacity |-> s.capacity, grow |-> s.grow]
         /\ s.data \in [DOMAIN s.data -> Cell]
         /\ s.count \in Nat /\ s.capacity \in Nat /\ s.grow \in Int
  BY DEF StackStruct

LEMMA RequestedBounds ==
  ASSUME NEW n \in Nat
  PROVE  Requested(n) \in Nat \ {0} /\ n <= Requested(n)
  BY BufferAssumption DEF Requested

\* A Push on a full stack asks for at least one more element.
LEMMA IncrementPositive ==
  ASSUME NEW s, StackStruct(s), s.grow # 0
  PROVE  Increment(s) \in Nat \ {0}
  <1>1. s.capacity \in Nat /\ s.grow \in Int
    BY DEF StackStruct
  <1>2. CASE s.grow > 0
    BY <1>1, <1>2 DEF Increment
  <1>3. CASE s.grow < 0
    <2>1. -s.grow \in Nat \ {0}
      BY <1>1, <1>3
    <2>2. s.capacity \div (-s.grow) \in Nat
      BY <1>1, <2>1
    <2> QED
      BY <1>1, <1>3, <2>2 DEF Increment
  <1> QED
    BY <1>1, <1>2, <1>3

\* A Push with room stores inside the buffer and appends.
LEMMA PushedShape ==
  ASSUME NEW s, StackShape(s), s.count < s.capacity, NEW v \in Values
  PROVE  /\ s.count \in DOMAIN s.data
         /\ StackShape(Pushed(s, v))
         /\ DOMAIN Pushed(s, v).data = DOMAIN s.data
         /\ ListItems(Pushed(s, v)) = Append(ListItems(s), v)
  <1> DEFINE t == Pushed(s, v)
             d == [s.data EXCEPT ![s.count] = v]
  <1>1. /\ s = [data |-> s.data, count |-> s.count, capacity |-> s.capacity, grow |-> s.grow]
        /\ s.data \in [DOMAIN s.data -> Cell]
        /\ s.count \in Nat /\ s.capacity \in Nat /\ s.grow \in Int
        /\ Requested(s.capacity) \in Nat /\ s.capacity <= Requested(s.capacity)
    BY StackFields, RequestedBounds DEF StackShape
  <1>2. s.count \in DOMAIN s.data
    BY <1>1 DEF StackShape
  <1>3. /\ d \in [DOMAIN d -> Cell] /\ DOMAIN d = DOMAIN s.data /\ d[s.count] = v
        /\ \A i \in 0 .. s.count - 1 : i \in DOMAIN d /\ d[i] = s.data[i]
    BY <1>1, <1>2 DEF Cell, StackShape, Filled
  <1>4. t = [s EXCEPT !.data = d, !.count = s.count + 1]
    BY <1>2 DEF Pushed, Store
  <1> HIDE DEF d
  <1>5. t = [data |-> d, count |-> s.count + 1, capacity |-> s.capacity, grow |-> s.grow]
    BY <1>1, <1>4
  <1> HIDE DEF t
  <1>6. /\ StackStruct(t) /\ t.data = d /\ t.count = s.count + 1
        /\ t.capacity = s.capacity /\ t.grow = s.grow
    <2>2. t.data = d /\ t.count = s.count + 1 /\ t.capacity = s.capacity /\ t.grow = s.grow
      BY <1>5
    <2>3. t.data \in [DOMAIN t.data -> Cell]
      BY <1>3, <2>2
    <2> QED
      BY <1>1, <1>5, <2>2, <2>3 DEF StackStruct
  <1>7. Filled(t) /\ ListItems(t) = Append(ListItems(s), v)
    BY <1>2, <1>3, <1>6, ItemsAppended DEF StackShape
  <1>8. StackShape(t)
    BY <1>1, <1>3, <1>6, <1>7 DEF StackShape
  <1> QED
    BY <1>2, <1>3, <1>6, <1>7, <1>8 DEF t

\* What SetCapacity makes of a stack.
StackShrunk(s, n) == [Reallocated(s, n) EXCEPT !.count = Fitting(@, n)]

\* realloc to a capacity that is not 0 keeps what fits.
LEMMA ReallocatedShape ==
  ASSUME NEW s, StackShape(s), NEW n \in Nat \ {0}, NEW t, t = StackShrunk(s, n)
  PROVE  /\ StackShape(t)
         /\ t.count = Fitting(s.count, n) /\ t.count \in 0 .. s.count
         /\ t.capacity = n /\ t.grow = s.grow
         /\ ListItems(t) = SubSeq(ListItems(s), 1, t.count)
         /\ n >= s.count => /\ t = Reallocated(s, n) /\ t.count = s.count
                            /\ ListItems(t) = ListItems(s)
  <1> DEFINE d == Realloc(s.data, n)
             c == Fitting(s.count, n)
  <1>1. /\ s = [data |-> s.data, count |-> s.count, capacity |-> s.capacity, grow |-> s.grow]
        /\ s.data \in [DOMAIN s.data -> Cell]
        /\ s.count \in Nat /\ s.capacity \in Nat /\ s.grow \in Int
    BY StackFields DEF StackShape
  <1>2. /\ d \in [DOMAIN d -> Cell] /\ DOMAIN d = 0 .. n - 1
        /\ \A i \in 0 .. n - 1 : d[i] = IF i \in DOMAIN s.data THEN s.data[i] ELSE Junk
    BY <1>1 DEF Realloc, Cell
  <1>3. c \in 0 .. s.count /\ c <= n /\ (n >= s.count => c = s.count)
    BY <1>1 DEF Fitting
  <1>4. Reallocated(s, n) = [data |-> d, count |-> s.count, capacity |-> n, grow |-> s.grow]
    <2>1. Reallocated(s, n) = [s EXCEPT !.data = d, !.capacity = n]
      BY DEF Reallocated
    <2> HIDE DEF d
    <2> QED
      BY <1>1, <2>1
  <1> HIDE DEF d
  <1>5. t = [data |-> d, count |-> c, capacity |-> n, grow |-> s.grow]
    BY <1>4 DEF StackShrunk
  <1>5a. c \in Nat /\ n \in Nat
    BY <1>1, <1>3
  <1> HIDE DEF c
  <1>6. StackStruct(t) /\ t.data = d /\ t.count = c /\ t.capacity = n /\ t.grow = s.grow
    <2>1. d \in [DOMAIN d -> Cell] /\ c \in Nat /\ n \in Nat /\ s.grow \in Int
      BY <1>1, <1>2, <1>5a
    <2>2. t.data = d /\ t.count = c /\ t.capacity = n /\ t.grow = s.grow
      BY <1>5
    <2>3. t.data \in [DOMAIN t.data -> Cell]
      BY <2>1, <2>2
    <2> QED
      BY <1>5, <2>1, <2>2, <2>3 DEF StackStruct
  <1>7. \A i \in 0 .. t.count - 1 : i \in DOMAIN t.data /\ t.data[i] = s.data[i]
    BY <1>1, <1>2, <1>3, <1>6 DEF StackShape, Filled
  <1>8. Filled(s) /\ t.count \in 0 .. s.count
    BY <1>3, <1>6 DEF StackShape
  <1>9. Filled(t) /\ ListItems(t) = SubSeq(ListItems(s), 1, t.count)
    BY <1>7, <1>8, ItemsCut
  <1>10. StackShape(t)
    BY <1>2, <1>3, <1>6, <1>9 DEF StackShape, Requested
  <1>11. ASSUME n >= s.count
         PROVE  /\ t = Reallocated(s, n) /\ t.count = s.count
                /\ ListItems(t) = ListItems(s)
    <2>1. t.count = s.count /\ t = Reallocated(s, n)
      BY <1>3, <1>4, <1>5, <1>6, <1>11
    <2>2. ListItems(t) = ListItems(s)
      BY <1>7, <1>8, <2>1, ItemsKept
    <2> QED
      BY <2>1, <2>2
  <1> QED
    BY <1>6, <1>8, <1>9, <1>10, <1>11 DEF c

\* Pop and Drop leave out the newest element, which they hand out or not.
LEMMA PoppedShape ==
  ASSUME NEW s, StackShape(s), s.count # 0, NEW t, t = [s EXCEPT !.count = @ - 1]
  PROVE  /\ StackShape(t) /\ t.data = s.data
         /\ s.count - 1 \in DOMAIN s.data
         /\ Fetch(s.data, s.count - 1) \in Values
         /\ ListItems(s) # << >> /\ Len(ListItems(s)) = s.count
         /\ Fetch(s.data, s.count - 1) = ListItems(s)[Len(ListItems(s))]
         /\ ListItems(t) = SubSeq(ListItems(s), 1, Len(ListItems(s)) - 1)
  <1>1. /\ s = [data |-> s.data, count |-> s.count, capacity |-> s.capacity, grow |-> s.grow]
        /\ s.data \in [DOMAIN s.data -> Cell]
        /\ s.count \in Nat \ {0} /\ s.capacity \in Nat /\ s.grow \in Int
        /\ s.count - 1 \in 0 .. s.count - 1 /\ s.count - 1 \in Nat
    <2>1. StackStruct(s)
      BY DEF StackShape
    <2>2. s.count \in Nat
      BY <2>1, StackFields
    <2> QED
      BY <2>1, <2>2, StackFields
  <1>2. s.count - 1 \in DOMAIN s.data /\ s.data[s.count - 1] \in Values
    BY <1>1 DEF StackShape, Filled
  <1>3. t = [data |-> s.data, count |-> s.count - 1, capacity |-> s.capacity, grow |-> s.grow]
    BY <1>1
  <1>4. /\ StackStruct(t) /\ t.data = s.data /\ t.count = s.count - 1
        /\ t.capacity = s.capacity /\ t.grow = s.grow
    <2>2. t.data = s.data /\ t.count = s.count - 1 /\ t.capacity = s.capacity /\ t.grow = s.grow
      BY <1>3
    <2>3. t.data \in [DOMAIN t.data -> Cell]
      BY <1>1, <2>2
    <2> QED
      BY <1>1, <1>3, <2>2, <2>3 DEF StackStruct
  <1>5. Filled(s) /\ t.count \in 0 .. s.count
    BY <1>1, <1>4 DEF StackShape
  <1>6. \A i \in 0 .. t.count - 1 : i \in DOMAIN t.data /\ t.data[i] = s.data[i]
    BY <1>1, <1>4, <1>5 DEF Filled
  <1>7. Filled(t) /\ ListItems(t) = SubSeq(ListItems(s), 1, t.count)
    BY <1>5, <1>6, ItemsCut
  <1>8. Len(ListItems(s)) = s.count /\ ListItems(s)[s.count] = s.data[s.count - 1]
    BY <1>1, <1>5, ItemsAreSeq
  <1>9. ListItems(s) # << >>
    BY <1>1, <1>8
  <1>10. StackShape(t)
    BY <1>1, <1>4, <1>7 DEF StackShape
  <1> QED
    BY <1>2, <1>4, <1>7, <1>8, <1>9, <1>10 DEF Fetch

(***************************************************************************)
(* The inductive invariant of the stack: the two properties together, put  *)
(* in terms of StackShape.  topmost is never junk because the cells below  *)
(* the count are not.                                                      *)
(***************************************************************************)
StackInv == StackTypeOK /\ StackBounds

StackStep == [S!Next]_<<StackItems, topmost>>

StackShaped ==
  /\ IF StackLive THEN StackShape(stack) ELSE StackStruct(stack)
  /\ topmost \in Values \cup {Nothing}
  /\ stackRet \in Codes
  /\ stackFault = FALSE

LEMMA StackInvShape == StackInv <=> StackShaped
  <1>1. ASSUME StackStruct(stack)
        PROVE  StackLive => ((/\ DOMAIN stack.data = 0 .. Requested(stack.capacity) - 1
                              /\ stack.count <= stack.capacity
                              /\ \A i \in 0 .. Top : stack.data[i] \in Values)
                             <=> StackShape(stack))
    <2>1. /\ stack.count \in Nat /\ stack.capacity \in Nat
          /\ Requested(stack.capacity) \in Nat /\ stack.capacity <= Requested(stack.capacity)
      BY <1>1, StackFields, RequestedBounds
    <2>2. ASSUME stack.count <= stack.capacity, NEW i \in 0 .. stack.count - 1
          PROVE  i \in 0 .. Requested(stack.capacity) - 1
      BY <2>1, <2>2
    <2> QED
      BY <1>1, <2>1, <2>2 DEF StackShape, Filled, Top
  <1>2. StackTypeOK => StackStruct(stack) /\ stackRet \in Codes /\ stackFault \in BOOLEAN
    BY DEF StackTypeOK, StackStruct
  <1>3. Junk \notin Values \cup {Nothing}
    BY BufferAssumption
  <1>4. topmost \in Values \cup {Nothing} <=> topmost \in Cell \cup {Nothing} /\ topmost # Junk
    BY <1>3 DEF Cell
  <1>5. StackShape(stack) => StackStruct(stack)
    BY DEF StackShape
  <1> QED
    BY <1>1, <1>2, <1>4, <1>5 DEF StackInv, StackTypeOK, StackStruct, StackBounds, StackShaped

LEMMA StackInvShapeNext == StackInv' <=> StackShaped'
  BY StackInvShape, PTL

LEMMA StackInitInv == StackInit => StackInv /\ S!Init
  <1> SUFFICES ASSUME StackInit PROVE StackInv /\ S!Init
    OBVIOUS
  <1>1. stack = [data |-> NoBuffer, count |-> 0, capacity |-> 0, grow |-> -2]
    BY DEF StackInit
  <1>2. DOMAIN NoBuffer = {} /\ NoBuffer \in [{} -> Cell]
    BY DEF NoBuffer
  <1>3. stack.data = NoBuffer /\ stack.data \in [DOMAIN stack.data -> Cell]
    BY <1>1, <1>2
  <1>4. StackStruct(stack)
    BY <1>1, <1>3 DEF StackStruct
  <1>5. ~StackLive
    BY <1>2, <1>3 DEF StackLive
  <1>6. StackInv
    BY <1>4, <1>5, StackInvShape DEF StackShaped, StackInit, Codes
  <1> QED
    BY <1>5, <1>6 DEF S!Init, StackItems, StackInit

\* What a call that leaves the struct alone has to return.
LEMMA StackAlone ==
  ASSUME StackInv, stack' = stack, stackFault' = stackFault, stackRet' \in Codes,
         topmost' = topmost
  PROVE  StackInv' /\ StackStep
  <1>1. StackLive' = StackLive /\ StackItems' = StackItems
    BY DEF StackLive, StackItems
  <1>2. (StackShape(stack) <=> StackShape(stack')) /\ (StackStruct(stack) <=> StackStruct(stack'))
    OBVIOUS
  <1> QED
    BY <1>1, <1>2, StackInvShape, StackInvShapeNext DEF StackShaped, StackStep

\* What a call has to leave of a stack that holds a buffer afterwards.
LEMMA StackChanges ==
  ASSUME StackInv, StackShape(stack'), DOMAIN stack'.data # {},
         stackFault' = FALSE, stackRet' \in Codes, topmost' \in Values \cup {Nothing}
  PROVE  StackInv' /\ StackItems' = ListItems(stack')
  <1>1. StackLive'
    BY DEF StackLive
  <1>2. StackInv'
    BY <1>1, StackInvShapeNext DEF StackShaped
  <1> QED
    BY <1>1, <1>2 DEF StackItems, ListItems

LEMMA StackCreateStep ==
  ASSUME StackInv, NEW n \in Capacities, StackCreate(n)
  PROVE  StackInv' /\ StackStep
  <1>1. ~StackLive /\ UNCHANGED <<topmost, stackFault>> /\ n \in Nat
    BY BufferAssumption DEF StackCreate
  <1>2. CASE stackRet' = "XT_ENOMEM" /\ UNCHANGED stack
    BY <1>1, <1>2, StackAlone DEF Codes, Errors
  <1>3. CASE /\ stack' = [data |-> Malloc(Requested(n)), count |-> 0,
                          capacity |-> n, grow |-> -2]
             /\ stackRet' = "ok"
    <2>1. Requested(n) \in Nat \ {0} /\ n <= Requested(n)
      BY <1>1, RequestedBounds
    <2>2. /\ DOMAIN Malloc(Requested(n)) = 0 .. Requested(n) - 1
          /\ Malloc(Requested(n)) \in [DOMAIN Malloc(Requested(n)) -> Cell]
      BY <2>1 DEF Malloc, Cell
    <2>3. /\ stack'.data = Malloc(Requested(n)) /\ stack'.count = 0
          /\ stack'.capacity = n /\ stack'.grow = -2
      BY <1>3
    <2>4. stack'.data \in [DOMAIN stack'.data -> Cell]
      BY <2>2, <2>3
    <2>5. StackStruct(stack')
      BY <1>1, <1>3, <2>3, <2>4 DEF StackStruct
    <2>6. Filled(stack') /\ ListItems(stack') = << >>
      BY <2>3, ItemsNone
    <2>7. StackShape(stack')
      BY <1>1, <2>2, <2>3, <2>5, <2>6 DEF StackShape
    <2>8. 0 \in DOMAIN stack'.data
      BY <2>1, <2>2, <2>3
    <2>9. stackFault' = FALSE /\ topmost' \in Values \cup {Nothing} /\ stackRet' \in Codes
      BY <1>1, <1>3, StackInvShape DEF StackShaped, Codes
    <2>10. StackInv' /\ StackItems' = << >>
      BY <2>6, <2>7, <2>8, <2>9, StackChanges
    <2>11. StackItems = << >>
      BY <1>1 DEF StackItems
    <2> QED
      BY <1>1, <2>10, <2>11 DEF StackStep
  <1> QED
    BY <1>2, <1>3 DEF StackCreate

\* A stack that holds a buffer is emptied; one that holds none stays empty.
LEMMA StackDestroyStep ==
  ASSUME StackInv, StackDestroy
  PROVE  StackInv' /\ StackStep
  <1>1. /\ stack' = [stack EXCEPT !.data = NoBuffer] /\ stackRet' = "ok"
        /\ UNCHANGED <<topmost, stackFault>>
    BY DEF StackDestroy
  <1>2. DOMAIN NoBuffer = {} /\ NoBuffer \in [{} -> Cell]
    BY DEF NoBuffer
  <1>3. StackStruct(stack)
    BY StackInvShape DEF StackShaped, StackShape
  <1>4. stack' = [data |-> NoBuffer, count |-> stack.count, capacity |-> stack.capacity,
                  grow |-> stack.grow]
    BY <1>1, <1>3, StackFields
  <1>5. stack'.data = NoBuffer /\ stack'.data \in [DOMAIN stack'.data -> Cell]
    BY <1>2, <1>4
  <1>6. StackStruct(stack')
    BY <1>3, <1>4, <1>5, StackFields DEF StackStruct
  <1>7. ~StackLive'
    BY <1>2, <1>5 DEF StackLive
  <1>8. StackInv'
    BY <1>1, <1>6, <1>7, StackInvShape, StackInvShapeNext DEF StackShaped, Codes
  <1>9. StackItems' = << >> /\ topmost' = topmost
    BY <1>1, <1>7 DEF StackItems
  <1>10. CASE StackLive
    <2>1. StackItems = ListItems(stack) /\ Filled(stack)
      BY <1>10, StackInvShape DEF StackShaped, StackItems, ListItems, StackShape
    <2>2. SubSeq(StackItems, 1, 0) = << >>
      BY SubSeqEmpty
    <2>3. 0 \in 0 .. Len(StackItems)
      BY <2>1, ItemsAreSeq DEF Filled
    <2> QED
      BY <1>8, <1>9, <2>2, <2>3 DEF StackStep, S!Next, S!Cut
  <1>11. CASE ~StackLive
    BY <1>8, <1>9, <1>11 DEF StackStep, StackItems
  <1> QED
    BY <1>10, <1>11

LEMMA StackSetGrowthFactorStep ==
  ASSUME StackInv, NEW g \in Growths, StackSetGrowthFactor(g)
  PROVE  StackInv' /\ StackStep
  <1>1. /\ StackLive /\ stack' = [stack EXCEPT !.grow = g] /\ stackRet' = "ok" /\ g \in Int
        /\ UNCHANGED <<topmost, stackFault>>
    BY BufferAssumption DEF StackSetGrowthFactor
  <1>2. StackShape(stack) /\ StackStruct(stack)
    BY <1>1, StackInvShape DEF StackShaped, StackShape
  <1>3. stack' = [data |-> stack.data, count |-> stack.count, capacity |-> stack.capacity,
                  grow |-> g]
    BY <1>1, <1>2, StackFields
  <1>4. /\ stack'.data = stack.data /\ stack'.count = stack.count
        /\ stack'.capacity = stack.capacity
    BY <1>3
  <1>5. StackStruct(stack')
    BY <1>1, <1>2, <1>3, <1>4, StackFields DEF StackStruct
  <1>6. Filled(stack') /\ ListItems(stack') = ListItems(stack)
    BY <1>2, <1>4 DEF StackShape, Filled, ListItems
  <1>7. StackShape(stack')
    BY <1>2, <1>4, <1>5, <1>6 DEF StackShape
  <1>8. StackInv' /\ StackItems' = ListItems(stack')
    BY <1>1, <1>4, <1>7, StackInvShape, StackChanges DEF StackShaped, StackLive, Codes
  <1>9. StackItems = ListItems(stack)
    BY <1>1 DEF StackItems, ListItems
  <1> QED
    BY <1>1, <1>6, <1>8, <1>9 DEF StackStep

\* What a live stack is before any call on it.
LEMMA StackBefore ==
  ASSUME StackInv, StackLive
  PROVE  /\ StackShape(stack) /\ StackStruct(stack) /\ stackFault = FALSE
         /\ stack.count \in Nat /\ stack.capacity \in Nat /\ stack.count <= stack.capacity
         /\ topmost \in Values \cup {Nothing} /\ stackRet \in Codes
         /\ StackItems = ListItems(stack)
  <1>1. StackShape(stack) /\ StackItems = ListItems(stack)
    BY StackInvShape DEF StackShaped, StackItems, ListItems
  <1> QED
    BY <1>1, StackInvShape, StackFields DEF StackShaped, StackShape

\* The store of Push in a struct that has room and the same elements.
LEMMA PushOnStep ==
  ASSUME StackInv, StackLive, NEW v \in Values, NEW s, StackShape(s),
         s.count < s.capacity, ListItems(s) = ListItems(stack),
         PushOn(s, v), topmost' = topmost
  PROVE  StackInv' /\ StackStep
  <1>1. /\ s.count \in DOMAIN s.data
        /\ StackShape(stack') /\ DOMAIN stack'.data = DOMAIN s.data
        /\ ListItems(stack') = Append(ListItems(stack), v)
    BY PushedShape DEF PushOn
  <1>2. stackFault' = FALSE /\ stackRet' \in Codes /\ topmost' \in Values \cup {Nothing}
    BY <1>1, StackBefore DEF PushOn, Codes
  <1>3. StackInv' /\ StackItems' = ListItems(stack')
    BY <1>1, <1>2, StackChanges
  <1>4. S!Put(v)
    BY <1>1, <1>3, StackBefore DEF S!Put
  <1> QED
    BY <1>3, <1>4 DEF StackStep, S!Next

LEMMA StackPushStep ==
  ASSUME StackInv, NEW v \in Values, StackPush(v)
  PROVE  StackInv' /\ StackStep
  <1>1. StackLive /\ topmost' = topmost
    BY DEF StackPush
  <1>2. CASE stack.count # stack.capacity /\ PushOn(stack, v)
    <2>1. stack.count < stack.capacity
      BY <1>1, <1>2, StackBefore
    <2> QED
      BY <1>1, <1>2, <2>1, StackBefore, PushOnStep
  <1>3. CASE PushFails
    BY <1>1, <1>3, StackAlone DEF PushFails, Codes, Errors
  <1>4. CASE stack.count = stack.capacity /\ PushGrows(v)
    <2> DEFINE n == stack.capacity + Increment(stack)
               r == Reallocated(stack, n)
    <2>1. n \in Nat \ {0} /\ n > stack.count
      BY <1>1, <1>4, StackBefore, IncrementPositive DEF PushGrows
    <2>2. PushOn(r, v)
      BY <1>4 DEF PushGrows
    <2> HIDE DEF n
    <2> DEFINE t == StackShrunk(stack, n)
    <2>3. /\ StackShape(t) /\ t.capacity = n
          /\ t = r /\ t.count = stack.count /\ ListItems(t) = ListItems(stack)
      BY <1>1, <2>1, StackBefore, ReallocatedShape
    <2> HIDE DEF t, r
    <2>4. StackShape(r) /\ r.count < r.capacity /\ ListItems(r) = ListItems(stack)
      BY <2>1, <2>3
    <2> QED
      BY <1>1, <2>2, <2>4, PushOnStep
  <1> QED
    BY <1>2, <1>3, <1>4 DEF StackPush

\* Peek and Pop hand out the newest element; an empty stack answers "false".
LEMMA StackPeekStep ==
  ASSUME StackInv, StackPeek
  PROVE  StackInv' /\ StackStep
  <1>1. StackLive /\ UNCHANGED stack
    BY DEF StackPeek
  <1>2. CASE stack.count = 0
    BY <1>1, <1>2, StackAlone DEF StackPeek, Codes
  <1>3. CASE stack.count # 0
    <2> DEFINE t == [stack EXCEPT !.count = @ - 1]
    <2>1. /\ Top \in DOMAIN stack.data /\ Fetch(stack.data, Top) \in Values
          /\ ListItems(stack) # << >>
          /\ Fetch(stack.data, Top) = ListItems(stack)[Len(ListItems(stack))]
      BY <1>1, <1>3, StackBefore, PoppedShape DEF Top
    <2>2. topmost' = Fetch(stack.data, Top) /\ stackFault' = FALSE /\ stackRet' = "true"
      BY <1>1, <1>3, <2>1, StackBefore DEF StackPeek, TopFault
    <2>3. StackInv' /\ StackItems' = ListItems(stack')
      BY <1>1, <2>1, <2>2, StackBefore, StackChanges DEF Codes
    <2>4. S!Look
      BY <1>1, <2>1, <2>2, <2>3, StackBefore DEF S!Look, S!Newest
    <2> QED
      BY <2>3, <2>4 DEF StackStep, S!Next
  <1> QED
    BY <1>2, <1>3

LEMMA StackPopStep ==
  ASSUME StackInv, StackPop
  PROVE  StackInv' /\ StackStep
  <1>1. StackLive
    BY DEF StackPop
  <1>2. CASE stack.count = 0
    BY <1>1, <1>2, StackAlone DEF StackPop, Codes
  <1>3. CASE stack.count # 0
    <2>1. /\ stack' = [stack EXCEPT !.count = @ - 1]
          /\ topmost' = Fetch(stack.data, Top) /\ TopFault /\ stackRet' = "true"
      BY <1>3 DEF StackPop
    <2>2. /\ Top \in DOMAIN stack.data /\ Fetch(stack.data, Top) \in Values
          /\ ListItems(stack) # << >>
          /\ Fetch(stack.data, Top) = ListItems(stack)[Len(ListItems(stack))]
          /\ StackShape(stack') /\ stack'.data = stack.data
          /\ ListItems(stack') = SubSeq(ListItems(stack), 1, Len(ListItems(stack)) - 1)
      BY <1>1, <1>3, <2>1, StackBefore, PoppedShape DEF Top
    <2>3. stackFault' = FALSE /\ DOMAIN stack'.data # {}
      BY <1>1, <2>1, <2>2, StackBefore DEF TopFault
    <2>4. StackInv' /\ StackItems' = ListItems(stack')
      BY <2>1, <2>2, <2>3, StackChanges DEF Codes
    <2>5. S!Take
      BY <1>1, <2>1, <2>2, <2>4, StackBefore DEF S!Take, S!Newest, S!Rest
    <2> QED
      BY <2>4, <2>5 DEF StackStep, S!Next
  <1> QED
    BY <1>2, <1>3

LEMMA StackDropStep ==
  ASSUME StackInv, StackDrop
  PROVE  StackInv' /\ StackStep
  <1>1. StackLive /\ UNCHANGED <<topmost, stackFault>> /\ stackRet' = "ok"
    BY DEF StackDrop
  <1>2. CASE stack.count = 0
    BY <1>1, <1>2, StackAlone DEF StackDrop, Codes
  <1>3. CASE stack.count # 0
    <2>1. stack' = [stack EXCEPT !.count = @ - 1]
      BY <1>3 DEF StackDrop
    <2>2. /\ StackShape(stack') /\ stack'.data = stack.data
          /\ Len(ListItems(stack)) = stack.count
          /\ ListItems(stack') = SubSeq(ListItems(stack), 1, Len(ListItems(stack)) - 1)
      BY <1>1, <1>3, <2>1, StackBefore, PoppedShape
    <2>3. DOMAIN stack'.data # {}
      BY <1>1, <2>2 DEF StackLive
    <2>4. StackInv' /\ StackItems' = ListItems(stack')
      BY <1>1, <2>2, <2>3, StackBefore, StackChanges DEF Codes
    <2>5. Len(StackItems) - 1 \in 0 .. Len(StackItems)
      BY <1>1, <1>3, <2>2, StackBefore
    <2>6. S!Cut(Len(StackItems) - 1)
      BY <1>1, <2>2, <2>4, StackBefore DEF S!Cut
    <2> QED
      BY <2>4, <2>5, <2>6 DEF StackStep, S!Next
  <1> QED
    BY <1>2, <1>3

\* A refused request for cells leaves the buffer; a smaller one cuts it off.
LEMMA StackSetCapacityStep ==
  ASSUME StackInv, NEW n \in Capacities, n > 0 \/ stack.capacity = 0,
         StackSetCapacity(n)
  PROVE  StackInv' /\ StackStep
  <1>1. StackLive /\ UNCHANGED <<topmost, stackFault>> /\ n \in Nat
    BY BufferAssumption DEF StackSetCapacity
  <1>2. CASE n = stack.capacity
    BY <1>1, <1>2, StackAlone DEF StackSetCapacity, Codes
  <1>3. CASE n # stack.capacity /\ stack' = StackRefused(stack, n) /\ stackRet' = "XT_ENOMEM"
    <2>1. n # 0
      BY <1>1, <1>3
    <2>2. stack' = [stack EXCEPT !.data = stack.data]
      BY <1>3, <2>1 DEF StackRefused, Refused
    <2>3. stack' = stack
      BY <1>1, <2>2, StackBefore, StackFields
    <2> QED
      BY <1>1, <1>3, <2>3, StackAlone DEF Codes, Errors
  <1>4. CASE /\ n # stack.capacity
             /\ stack' = [Reallocated(stack, n) EXCEPT !.count = Fitting(@, n)]
             /\ stackRet' = "ok"
    <2>1. n \in Nat \ {0}
      BY <1>1, <1>4
    <2>2. /\ StackShape(stack') /\ stack'.count \in 0 .. stack.count
          /\ stack'.capacity = n
          /\ ListItems(stack') = SubSeq(ListItems(stack), 1, stack'.count)
      <3>1. stack' = StackShrunk(stack, n)
        BY <1>4 DEF StackShrunk
      <3> DEFINE t == StackShrunk(stack, n)
      <3>2. StackShape(stack)
        BY <1>1, StackBefore
      <3>3. /\ StackShape(t) /\ t.count \in 0 .. stack.count /\ t.capacity = n
            /\ ListItems(t) = SubSeq(ListItems(stack), 1, t.count)
        <4> HIDE <1>1, <1>4, <3>1
        <4> QED
          BY <2>1, <3>2, ReallocatedShape
      <3>4. stack' = t
        BY <3>1
      <3> HIDE DEF t
      <3> QED
        BY <3>3, <3>4
    <2>3. 0 \in DOMAIN stack'.data
      BY <2>1, <2>2, RequestedBounds DEF StackShape
    <2>4. StackInv' /\ StackItems' = ListItems(stack')
      BY <1>1, <1>4, <2>2, <2>3, StackBefore, StackChanges DEF Codes
    <2>5. stack'.count \in 0 .. Len(StackItems)
      BY <1>1, <2>2, StackBefore, ItemsAreSeq DEF StackShape
    <2>6. S!Cut(stack'.count)
      BY <1>1, <2>2, <2>4, StackBefore DEF S!Cut
    <2> QED
      BY <2>4, <2>5, <2>6 DEF StackStep, S!Next
  <1> QED
    BY <1>2, <1>3, <1>4 DEF StackSetCapacity

LEMMA StackNextInv == StackInv /\ [StackNext]_stackVars => StackInv' /\ StackStep
  <1> SUFFICES ASSUME StackInv, [StackNext]_stackVars PROVE StackInv' /\ StackStep
    OBVIOUS
  <1>1. CASE UNCHANGED stackVars
    BY <1>1, StackAlone, StackInvShape DEF stackVars, StackShaped
  <1>2. CASE \E n \in Capacities : StackCreate(n)
    BY <1>2, StackCreateStep
  <1>3. CASE StackDestroy
    BY <1>3, StackDestroyStep
  <1>4. CASE \E g \in Growths : StackSetGrowthFactor(g)
    BY <1>4, StackSetGrowthFactorStep
  <1>5. CASE \E v \in Values : StackPush(v)
    BY <1>5, StackPushStep
  <1>6. CASE StackPeek
    BY <1>6, StackPeekStep
  <1>7. CASE StackPop
    BY <1>7, StackPopStep
  <1>8. CASE StackDrop
    BY <1>8, StackDropStep
  <1>9. CASE \E n \in Capacities : (n > 0 \/ stack.capacity = 0) /\ StackSetCapacity(n)
    BY <1>9, StackSetCapacityStep
  <1> QED
    BY <1>1, <1>2, <1>3, <1>4, <1>5, <1>6, <1>7, <1>8, <1>9 DEF StackNext

\* The struct and the client's variables keep their types, for any values,
\* capacities and growth factors (StackTypeOK).
THEOREM StackTypeCorrect == StackSpec => []StackTypeOK
  <1>1. StackInit => StackInv
    BY StackInitInv
  <1>2. StackInv /\ [StackNext]_stackVars => StackInv'
    BY StackNextInv
  <1>3. StackInv => StackTypeOK
    BY DEF StackInv
  <1> QED
    BY <1>1, <1>2, <1>3, PTL DEF StackSpec

\* No call leaves the buffer or hands out memory nothing was pushed into,
\* through growth, refused growth and smaller capacities (StackBounds).
THEOREM StackStaysInBounds == StackSpec => []StackBounds
  <1>1. StackInit => StackInv
    BY StackInitInv
  <1>2. StackInv /\ [StackNext]_stackVars => StackInv'
    BY StackNextInv
  <1>3. StackInv => StackBounds
    BY DEF StackInv
  <1> QED
    BY <1>1, <1>2, <1>3, PTL DEF StackSpec

\* Pop and Peek hand out the newest value of an abstract stack, through any
\* reallocation: every call of stack.h is a step of Lifo or stutters.
THEOREM StackIsLifo == StackSpec => ImplementsLifo
  <1>1. StackInit => StackInv /\ S!Init
    BY StackInitInv
  <1>2. StackInv /\ [StackNext]_stackVars => StackInv' /\ [S!Next]_(S!vars)
    BY StackNextInv DEF StackStep, S!vars
  <1> QED
    BY <1>1, <1>2, PTL DEF StackSpec, ImplementsLifo, S!Spec
-----------------------------------------------------------------------------
(***************************************************************************)
(* The list.  A struct without a buffer has no elements, so one shape does *)
(* for live and destroyed lists.                                           *)
(***************************************************************************)
ListStruct(s) ==
  s \in [data : [DOMAIN s.data -> Cell], count : Nat, capacity : Nat, grow : Int,
         flags : BOOLEAN]

ListShape(s) ==
  /\ ListStruct(s)
  /\ DOMAIN s.data # {} => DOMAIN s.data = 0 .. s.capacity - 1
  /\ s.count <= s.capacity
  /\ Filled(s)

\* A list that owns its items holds each of them once.
Distinct(s) ==
  \A i, j \in 0 .. s.count - 1 : s.data[i] = s.data[j] => i = j

LEMMA ListFields ==
  ASSUME NEW s, ListStruct(s)
  PROVE  /\ s = [data |-> s.data, count |-> s.count, capacity |-> s.capacity, grow |-> s.grow,
                 flags |-> s.flags]
         /\ s.data \in [DOMAIN s.data -> Cell]
         /\ s.count \in Nat /\ s.capacity \in Nat /\ s.grow \in Int /\ s.flags \in BOOLEAN
  BY DEF ListStruct

\* A record with typed fields is a struct.
LEMMA ListMade ==
  ASSUME NEW d, d \in [DOMAIN d -> Cell], NEW c \in Nat, NEW k \in Nat, NEW g \in Int,
         NEW f \in BOOLEAN, NEW t,
         t = [data |-> d, count |-> c, capacity |-> k, grow |-> g, flags |-> f]
  PROVE  /\ ListStruct(t) /\ t.data = d /\ t.count = c
         /\ t.capacity = k /\ t.grow = g /\ t.flags = f
  <1>1. t.data = d /\ t.count = c /\ t.capacity = k /\ t.grow = g /\ t.flags = f
    OBVIOUS
  <1>2. t.data \in [DOMAIN t.data -> Cell]
    BY <1>1
  <1> QED
    BY <1>1, <1>2 DEF ListStruct

\* The elements of a filled buffer are the values it holds.
LEMMA HeldIsFilled ==
  ASSUME NEW s, Filled(s)
  PROVE  /\ Held(s) = {s.data[i] : i \in 0 .. s.count - 1}
         /\ Held(s) \subseteq Values
         /\ \A i \in 0 .. s.count - 1 : Fetch(s.data, i) = s.data[i]
  BY DEF Filled, Held, Fetch

\* Add with room stores behind the last element.
LEMMA AppendedShape ==
  ASSUME NEW s, ListShape(s), DOMAIN s.data # {}, s.count < s.capacity, NEW v \in Values,
         NEW t, t = Appended(s, v)
  PROVE  /\ s.count \in DOMAIN s.data
         /\ ListShape(t) /\ t.flags = s.flags /\ t.count = s.count + 1
         /\ DOMAIN t.data = DOMAIN s.data /\ t.data[s.count] = v
         /\ \A i \in 0 .. s.count - 1 : t.data[i] = s.data[i]
         /\ ListItems(t) = Append(ListItems(s), v)
  <1> DEFINE d == [s.data EXCEPT ![s.count] = v]
  <1>1. /\ s = [data |-> s.data, count |-> s.count, capacity |-> s.capacity, grow |-> s.grow,
                flags |-> s.flags]
        /\ s.data \in [DOMAIN s.data -> Cell]
        /\ s.count \in Nat /\ s.capacity \in Nat /\ s.grow \in Int /\ s.flags \in BOOLEAN
    BY ListFields DEF ListShape
  <1>2. s.count \in DOMAIN s.data
    BY <1>1 DEF ListShape
  <1>3. /\ d \in [DOMAIN d -> Cell] /\ DOMAIN d = DOMAIN s.data /\ d[s.count] = v
        /\ \A i \in 0 .. s.count - 1 : i \in DOMAIN d /\ d[i] = s.data[i]
    BY <1>1, <1>2 DEF Cell, ListShape, Filled
  <1>4. t = [s EXCEPT !.data = d, !.count = s.count + 1]
    BY <1>2 DEF Appended, Store
  <1> HIDE DEF d
  <1>5. t = [data |-> d, count |-> s.count + 1, capacity |-> s.capacity, grow |-> s.grow,
             flags |-> s.flags]
    BY <1>1, <1>4
  <1>5a. s.count + 1 \in Nat
    BY <1>1
  <1>6. /\ ListStruct(t) /\ t.data = d /\ t.count = s.count + 1
        /\ t.capacity = s.capacity /\ t.flags = s.flags
    BY <1>1, <1>3, <1>5, <1>5a, ListMade
  <1>7. Filled(t) /\ ListItems(t) = Append(ListItems(s), v)
    BY <1>2, <1>3, <1>6, ItemsAppended DEF ListShape
  <1>8. ListShape(t)
    BY <1>1, <1>3, <1>6, <1>7 DEF ListShape
  <1> QED
    BY <1>2, <1>3, <1>6, <1>7, <1>8

\* realloc to a capacity that is not 0 keeps what fits.
LEMMA ResizedShape ==
  ASSUME NEW s, ListShape(s), DOMAIN s.data # {}, NEW n \in Nat \ {0}, NEW t, t = Resized(s, n)
  PROVE  /\ ListShape(t) /\ t.flags = s.flags /\ t.capacity = n
         /\ 0 \in DOMAIN t.data
         /\ t.count = Fitting(s.count, n) /\ t.count \in 0 .. s.count
         /\ \A i \in 0 .. t.count - 1 : t.data[i] = s.data[i]
         /\ ListItems(t) = SubSeq(ListItems(s), 1, t.count)
         /\ n >= s.count => t.count = s.count /\ ListItems(t) = ListItems(s)
  <1> DEFINE d == Realloc(s.data, n)
             c == Fitting(s.count, n)
  <1>1. /\ s = [data |-> s.data, count |-> s.count, capacity |-> s.capacity, grow |-> s.grow,
                flags |-> s.flags]
        /\ s.data \in [DOMAIN s.data -> Cell]
        /\ s.count \in Nat /\ s.capacity \in Nat /\ s.grow \in Int /\ s.flags \in BOOLEAN
    BY ListFields DEF ListShape
  <1>2. /\ d \in [DOMAIN d -> Cell] /\ DOMAIN d = 0 .. n - 1
        /\ \A i \in 0 .. n - 1 : d[i] = IF i \in DOMAIN s.data THEN s.data[i] ELSE Junk
    BY <1>1 DEF Realloc, Cell
  <1>3. c \in 0 .. s.count /\ c <= n /\ (n >= s.count => c = s.count) /\ c \in Nat
    BY <1>1 DEF Fitting
  <1>4. t = [s EXCEPT !.data = d, !.capacity = n, !.count = c]
    BY DEF Resized
  <1> HIDE DEF d, c
  <1>5. t = [data |-> d, count |-> c, capacity |-> n, grow |-> s.grow, flags |-> s.flags]
    BY <1>1, <1>4
  <1>6. /\ ListStruct(t) /\ t.data = d /\ t.count = c /\ t.capacity = n
        /\ t.flags = s.flags
    <2>1. d \in [DOMAIN d -> Cell] /\ n \in Nat /\ c \in Nat
      BY <1>2, <1>3
    <2>2. s.grow \in Int /\ s.flags \in BOOLEAN
      BY <1>1
    <2> QED
      BY <1>5, <2>1, <2>2, ListMade
  <1>7. \A i \in 0 .. t.count - 1 : i \in DOMAIN t.data /\ t.data[i] = s.data[i]
    BY <1>1, <1>2, <1>3, <1>6 DEF ListShape, Filled
  <1>8. Filled(s) /\ t.count \in 0 .. s.count
    BY <1>3, <1>6 DEF ListShape
  <1>9. Filled(t) /\ ListItems(t) = SubSeq(ListItems(s), 1, t.count)
    BY <1>7, <1>8, ItemsCut
  <1>10. ListShape(t) /\ 0 \in DOMAIN t.data
    BY <1>2, <1>3, <1>6, <1>9 DEF ListShape
  <1>11. ASSUME n >= s.count PROVE t.count = s.count /\ ListItems(t) = ListItems(s)
    BY <1>3, <1>6, <1>7, <1>8, <1>11, ItemsKept
  <1> QED
    BY <1>6, <1>7, <1>8, <1>9, <1>10, <1>11 DEF c

\* What AddAt makes of a list.
Replaced(s, i, v) == [s EXCEPT !.data = Store(@, i, v)]

\* AddAt overwrites the element at i.
LEMMA ReplacedShape ==
  ASSUME NEW s, ListShape(s), NEW i \in 0 .. s.count - 1, NEW v \in Values,
         NEW t, t = Replaced(s, i, v)
  PROVE  /\ i \in DOMAIN s.data
         /\ ListShape(t) /\ t.flags = s.flags /\ t.count = s.count
         /\ DOMAIN t.data = DOMAIN s.data
         /\ \A j \in 0 .. s.count - 1 : t.data[j] = IF j = i THEN v ELSE s.data[j]
         /\ i + 1 \in DOMAIN ListItems(s)
         /\ ListItems(t) = [ListItems(s) EXCEPT ![i + 1] = v]
  <1> DEFINE d == [s.data EXCEPT ![i] = v]
  <1>1. /\ s = [data |-> s.data, count |-> s.count, capacity |-> s.capacity, grow |-> s.grow,
                flags |-> s.flags]
        /\ s.data \in [DOMAIN s.data -> Cell]
        /\ s.count \in Nat /\ s.capacity \in Nat /\ s.grow \in Int /\ s.flags \in BOOLEAN
    BY ListFields DEF ListShape
  <1>2. i \in DOMAIN s.data
    BY DEF ListShape, Filled
  <1>3. /\ d \in [DOMAIN d -> Cell] /\ DOMAIN d = DOMAIN s.data
        /\ \A j \in DOMAIN d : d[j] = IF j = i THEN v ELSE s.data[j]
    BY <1>1, <1>2 DEF Cell
  <1>4. t = [s EXCEPT !.data = d]
    BY <1>2 DEF Replaced, Store
  <1> HIDE DEF d
  <1>5. t = [data |-> d, count |-> s.count, capacity |-> s.capacity, grow |-> s.grow,
             flags |-> s.flags]
    BY <1>1, <1>4
  <1>6. /\ ListStruct(t) /\ t.data = d /\ t.count = s.count /\ t.capacity = s.capacity
        /\ t.flags = s.flags
    BY <1>1, <1>3, <1>5, ListMade
  <1>7. /\ \A j \in 0 .. s.count - 1 : t.data[j] = IF j = i THEN v ELSE s.data[j]
        /\ Filled(t) /\ Filled(s)
    BY <1>3, <1>6 DEF ListShape, Filled
  <1>8. ListShape(t)
    BY <1>3, <1>6, <1>7 DEF ListShape
  <1>9. i + 1 \in DOMAIN ListItems(s)
    BY <1>1, <1>7, ItemsAreSeq
  <1> DEFINE q == [ListItems(s) EXCEPT ![i + 1] = v]
  <1>10. q \in Seq(Values) /\ Len(q) = s.count
    <2>1. q \in Seq(Values)
      BY <1>7, ItemsAreSeq
    <2> QED
      BY <1>1, <1>7, <2>1, ItemsAreSeq
  <1>11. ASSUME NEW k \in 1 .. s.count PROVE ListItems(t)[k] = q[k]
    <2>1. k - 1 \in 0 .. s.count - 1 /\ (k - 1 = i <=> k = i + 1) /\ i \in Int
      BY <1>1
    <2> QED
      BY <1>6, <1>7, <1>9, <2>1, ItemsAreSeq
  <1>12. ListItems(t) = q
    <2> DEFINE p == ListItems(t)
    <2>1. p \in Seq(Values) /\ Len(p) = s.count
      BY <1>6, <1>7, ItemsAreSeq
    <2>2. \A k \in 1 .. s.count : p[k] = q[k]
      BY <1>11
    <2> HIDE DEF p, q
    <2>3. p = q
      BY <1>10, <2>1, <2>2, SeqEqual
    <2> QED
      BY <2>3 DEF p
  <1> QED
    BY <1>2, <1>3, <1>6, <1>7, <1>8, <1>9, <1>12

\* What RemoveAt of the community modules does to a sequence.
LEMMA RemovedFromSeq ==
  ASSUME NEW T, NEW q \in Seq(T), NEW k \in 1 .. Len(q)
  PROVE  /\ V!RemoveAt(q, k) \in Seq(T)
         /\ Len(V!RemoveAt(q, k)) = Len(q) - 1
         /\ \A j \in 1 .. Len(q) - 1 : V!RemoveAt(q, k)[j] = IF j < k THEN q[j] ELSE q[j + 1]
  <1> DEFINE a == SubSeq(q, 1, k - 1)
             b == SubSeq(q, k + 1, Len(q))
  <1>1. Len(q) \in Nat /\ k \in Int /\ k >= 1 /\ k <= Len(q)
    BY LenProperties
  <1>2. \A j \in 1 .. Len(q) : q[j] \in T
    BY ElementOfSeq
  <1>3. a \in Seq(T) /\ Len(a) = k - 1 /\ \A j \in 1 .. k - 1 : a[j] = q[j]
    BY <1>1, <1>2, SubSeqProperties
  <1>4. b \in Seq(T) /\ Len(b) = Len(q) - k /\ \A j \in 1 .. Len(q) - k : b[j] = q[k + j]
    <2>1. \A j \in k + 1 .. Len(q) : q[j] \in T
      BY <1>1, <1>2
    <2>2. /\ b \in Seq(T) /\ Len(b) = (IF k + 1 <= Len(q) THEN Len(q) - (k + 1) + 1 ELSE 0)
          /\ \A j \in 1 .. Len(q) - (k + 1) + 1 : b[j] = q[k + 1 + j - 1]
      BY <1>1, <2>1, SubSeqProperties
    <2> HIDE DEF b
    <2> QED
      BY <1>1, <2>2
  <1>5. V!RemoveAt(q, k) = a \o b
    BY DEF V!RemoveAt
  <1> HIDE DEF a, b
  <1>6. /\ a \o b \in Seq(T) /\ Len(a \o b) = Len(a) + Len(b)
        /\ \A j \in 1 .. Len(a) + Len(b) : (a \o b)[j] = IF j <= Len(a) THEN a[j] ELSE b[j - Len(a)]
    BY <1>3, <1>4, ConcatProperties
  <1>7. ASSUME NEW j \in 1 .. Len(q) - 1
        PROVE  (a \o b)[j] = IF j < k THEN q[j] ELSE q[j + 1]
    <2>1. CASE j < k
      BY <1>1, <1>3, <1>4, <1>6, <2>1
    <2>2. CASE j >= k
      <3> DEFINE i == j - (k - 1)
      <3>1. i \in 1 .. Len(q) - k /\ k + i = j + 1
        BY <1>1, <2>2
      <3>2. (a \o b)[j] = b[i]
        BY <1>1, <1>3, <1>4, <1>6, <2>2
      <3> HIDE DEF i
      <3>3. b[i] = q[k + i] /\ ~ (j < k)
        BY <1>1, <1>4, <2>2, <3>1
      <3> QED
        BY <3>1, <3>2, <3>3
    <2> QED
      <3>1. j < k \/ (j >= k /\ ~ (j < k))
        BY <1>1
      <3> QED
        BY <2>1, <2>2, <3>1
  <1> QED
    BY <1>1, <1>3, <1>4, <1>5, <1>6, <1>7

\* RemoveAt and Remove move the elements behind i down by one.
LEMMA RemovedShape ==
  ASSUME NEW s, ListShape(s), NEW i \in 0 .. s.count - 1, NEW t, t = Removed(s, i)
  PROVE  /\ ListShape(t) /\ t.flags = s.flags /\ t.count = s.count - 1
         /\ DOMAIN t.data = DOMAIN s.data
         /\ \A j \in 0 .. t.count - 1 : t.data[j] = s.data[IF j < i THEN j ELSE j + 1]
         /\ i + 1 \in DOMAIN ListItems(s)
         /\ ListItems(t) = V!RemoveAt(ListItems(s), i + 1)
  <1> DEFINE d == [j \in DOMAIN s.data |->
                     IF j = s.count - 1 /\ j = i THEN Junk
                     ELSE IF j >= i /\ j < s.count - 1 THEN s.data[j + 1] ELSE s.data[j]]
  <1>1. /\ s = [data |-> s.data, count |-> s.count, capacity |-> s.capacity, grow |-> s.grow,
                flags |-> s.flags]
        /\ s.data \in [DOMAIN s.data -> Cell]
        /\ s.count \in Nat /\ s.capacity \in Nat /\ s.grow \in Int /\ s.flags \in BOOLEAN
    BY ListFields DEF ListShape
  <1>2. DOMAIN s.data = 0 .. s.capacity - 1 /\ s.count <= s.capacity
    BY DEF ListShape, Filled
  <1>3. /\ d \in [DOMAIN d -> Cell] /\ DOMAIN d = DOMAIN s.data
        /\ \A j \in 0 .. s.count - 2 : j \in DOMAIN d /\ d[j] = s.data[IF j < i THEN j ELSE j + 1]
    <2>1. ASSUME NEW j \in DOMAIN s.data PROVE d[j] \in Cell
      BY <1>1, <1>2 DEF Cell
    <2>2. ASSUME NEW j \in 0 .. s.count - 2
          PROVE  j \in DOMAIN d /\ d[j] = s.data[IF j < i THEN j ELSE j + 1]
      BY <1>1, <1>2
    <2> QED
      BY <2>1, <2>2
  <1>4. t = [s EXCEPT !.data = d, !.count = s.count - 1]
    BY DEF Removed
  <1> HIDE DEF d
  <1>5. t = [data |-> d, count |-> s.count - 1, capacity |-> s.capacity, grow |-> s.grow,
             flags |-> s.flags]
    BY <1>1, <1>4
  <1>5a. s.count - 1 \in Nat
    BY <1>1
  <1>6. /\ ListStruct(t) /\ t.data = d /\ t.count = s.count - 1
        /\ t.capacity = s.capacity /\ t.flags = s.flags
    BY <1>1, <1>3, <1>5, <1>5a, ListMade
  <1>7. \A j \in 0 .. t.count - 1 :
          j \in DOMAIN t.data /\ t.data[j] = s.data[IF j < i THEN j ELSE j + 1]
    BY <1>1, <1>3, <1>6
  <1>8. Filled(s) /\ \A j \in 0 .. s.count - 1 : s.data[j] \in Values
    BY DEF ListShape, Filled
  <1>9. Filled(t)
    <2>1. ASSUME NEW j \in 0 .. t.count - 1 PROVE t.data[j] \in Values
      <3>1. (IF j < i THEN j ELSE j + 1) \in 0 .. s.count - 1
        BY <1>1, <1>6
      <3> QED
        BY <1>7, <1>8, <3>1
    <2> QED
      BY <1>5a, <1>6, <1>7, <2>1 DEF Filled
  <1>10. ListShape(t)
    BY <1>1, <1>2, <1>3, <1>6, <1>9 DEF ListShape
  <1> DEFINE p == ListItems(s)
             q == ListItems(t)
             r == V!RemoveAt(p, i + 1)
  <1>11. /\ p \in Seq(Values) /\ Len(p) = s.count /\ DOMAIN p = 1 .. s.count
         /\ \A j \in 1 .. s.count : p[j] = s.data[j - 1]
    BY <1>8, ItemsAreSeq
  <1>12. /\ q \in Seq(Values) /\ Len(q) = s.count - 1
         /\ \A j \in 1 .. s.count - 1 : q[j] = t.data[j - 1]
    BY <1>6, <1>9, ItemsAreSeq
  <1>13. i + 1 \in 1 .. Len(p)
    BY <1>1, <1>11
  <1>14. /\ r \in Seq(Values) /\ Len(r) = s.count - 1
         /\ \A j \in 1 .. s.count - 1 : r[j] = IF j < i + 1 THEN p[j] ELSE p[j + 1]
    <2> HIDE DEF p
    <2> QED
      BY <1>11, <1>13, RemovedFromSeq
  <1> HIDE DEF p, q, r
  <1>15. ASSUME NEW j \in 1 .. s.count - 1 PROVE q[j] = r[j]
    <2>1. j - 1 \in 0 .. t.count - 1 /\ i \in Int /\ j \in Int
      BY <1>1, <1>6
    <2>2. CASE j < i + 1
      BY <1>1, <1>7, <1>11, <1>12, <1>14, <2>1, <2>2
    <2>3. CASE j >= i + 1
      <3>1. q[j] = s.data[j]
        BY <1>7, <1>12, <2>1, <2>3
      <3>2. r[j] = p[j + 1] /\ j + 1 \in 1 .. s.count /\ j + 1 - 1 = j
        BY <1>1, <1>14, <2>1, <2>3
      <3> QED
        BY <1>11, <3>1, <3>2
    <2> QED
      BY <2>1, <2>2, <2>3
  <1>16. q = r
    BY <1>12, <1>14, <1>15, SeqEqual
  <1> QED
    BY <1>1, <1>3, <1>6, <1>7, <1>10, <1>11, <1>13, <1>16 DEF p, q, r

(***************************************************************************)
(* The inductive invariant of the list.  That an owning list holds its     *)
(* items once is what keeps the item it frees out of the items it keeps,   *)
(* and so NoFreedItem from being broken by the next cut or removal.        *)
(***************************************************************************)
ListInv ==
  /\ ListShape(list)
  /\ list.flags => Distinct(list)
  /\ freed \subseteq Values
  /\ Held(list) \cap freed = {}
  /\ item \in Values \cup {Nothing}
  /\ listRet \in Codes
  /\ listFault = FALSE

ListVector == IF ListLive THEN ListItems(list) ELSE << >>

ListStep == [V!Next]_<<ListVector, item>>

VectorIsTheItems == ListVector = ListItems(list)

LEMMA VectorIsItems == ListInv => VectorIsTheItems
  <1>1. CASE ListLive
    BY <1>1 DEF ListVector, VectorIsTheItems
  <1>2. ASSUME ListInv, ~ListLive PROVE list.count = 0
    <2>1. Filled(list)
      BY <1>2 DEF ListInv, ListShape
    <2>2. list.count # 0 => 0 \in 0 .. list.count - 1
      BY <2>1 DEF Filled
    <2> QED
      BY <1>2, <2>1, <2>2 DEF Filled, ListLive
  <1>3. ASSUME ListInv, ~ListLive PROVE ListVector = ListItems(list)
    BY <1>2, <1>3, ItemsNone DEF ListVector
  <1> QED
    BY <1>1, <1>3 DEF VectorIsTheItems

LEMMA VectorIsItemsNext == ListInv' => ListVector' = ListItems(list')
  <1>1. ListInv' => VectorIsTheItems'
    BY VectorIsItems, PTL
  <1> QED
    BY <1>1 DEF VectorIsTheItems

\* The list in terms of its fields.
LEMMA ListBefore ==
  ASSUME ListInv
  PROVE  /\ ListShape(list) /\ ListStruct(list) /\ Filled(list)
         /\ list.count \in Nat /\ list.capacity \in Nat /\ list.count <= list.capacity
         /\ list.grow \in Int /\ list.flags \in BOOLEAN
         /\ ListItems(list) \in Seq(Values) /\ Len(ListItems(list)) = list.count
         /\ DOMAIN ListItems(list) = 1 .. list.count
         /\ Held(list) = {list.data[i] : i \in 0 .. list.count - 1}
         /\ Held(list) \subseteq Values
         /\ \A i \in 0 .. list.count - 1 : /\ i \in DOMAIN list.data
                                           /\ Fetch(list.data, i) = list.data[i]
                                           /\ list.data[i] \in Values
         /\ ListVector = ListItems(list)
  <1>1. ListShape(list) /\ ListStruct(list) /\ Filled(list)
    BY DEF ListInv, ListShape
  <1>2. /\ list.count \in Nat /\ list.capacity \in Nat /\ list.count <= list.capacity
        /\ list.grow \in Int /\ list.flags \in BOOLEAN
    BY <1>1, ListFields DEF ListShape
  <1>3. /\ ListItems(list) \in Seq(Values) /\ Len(ListItems(list)) = list.count
        /\ DOMAIN ListItems(list) = 1 .. list.count
    BY <1>1, ItemsAreSeq
  <1>4. /\ Held(list) = {list.data[i] : i \in 0 .. list.count - 1}
        /\ Held(list) \subseteq Values
        /\ \A i \in 0 .. list.count - 1 : Fetch(list.data, i) = list.data[i]
    BY <1>1, HeldIsFilled
  <1>5. \A i \in 0 .. list.count - 1 : i \in DOMAIN list.data /\ list.data[i] \in Values
    BY <1>1 DEF Filled
  <1>6. ListVector = ListItems(list)
    BY VectorIsItems DEF VectorIsTheItems
  <1> QED
    BY <1>1, <1>2, <1>3, <1>4, <1>5, <1>6

\* A call that leaves the list and the client's item alone.
LEMMA ListAlone ==
  ASSUME ListInv, list' = list, item' = item, listRet' \in Codes, Keeps
  PROVE  ListInv' /\ ListStep
  <1>1. ListInv'
    BY DEF ListInv, Keeps, Held, Distinct
  <1>2. ListVector' = ListVector
    BY DEF ListVector, ListLive
  <1> QED
    BY <1>1, <1>2 DEF ListStep

\* A call after which the list holds the same elements.
LEMMA ListStutters ==
  ASSUME ListInv, ListInv', ListItems(list') = ListItems(list), item' = item
  PROVE  ListStep
  BY VectorIsItems, VectorIsItemsNext DEF ListStep, VectorIsTheItems

\* A call after which the list holds its first m elements.
LEMMA ListCuts ==
  ASSUME ListInv, ListInv', item' = item, NEW m \in 0 .. list.count,
         ListItems(list') = SubSeq(ListItems(list), 1, m)
  PROVE  ListStep
  <1>1. CASE m = list.count
    <2>1. ListItems(list') = ListItems(list)
      BY <1>1, ListBefore, SubSeqFull
    <2> QED
      BY <2>1, ListStutters
  <1>2. CASE m # list.count
    <2>1. m + 1 \in DOMAIN ListVector /\ (m + 1) - 1 = m
      BY <1>2, ListBefore
    <2>2. ListVector' = SubSeq(ListVector, 1, (m + 1) - 1)
      BY <2>1, ListBefore, VectorIsItemsNext
    <2>3. V!Cut((m + 1) - 1)
      BY <2>2 DEF V!Cut, ListVector
    <2>4. V!Next
      BY <2>1, <2>3 DEF V!Next, ListVector
    <2> QED
      BY <2>4 DEF ListStep
  <1> QED
    BY <1>1, <1>2

\* The items a list has to free are items it holds.
LEMMA OwnedIsHeld ==
  ASSUME ListInv, NEW n \in Nat
  PROVE  /\ Owned(list, n) = IF list.flags THEN {list.data[i] : i \in n .. list.count - 1} ELSE {}
         /\ Owned(list, n) \subseteq Held(list)
         /\ Owned(list, n) \cap freed = {}
         /\ n >= list.count => Owned(list, n) = {}
  <1>1. \A i \in n .. list.count - 1 :
          i \in 0 .. list.count - 1 /\ Fetch(list.data, i) = list.data[i]
    BY ListBefore
  <1>2. Owned(list, n) = IF list.flags THEN {list.data[i] : i \in n .. list.count - 1} ELSE {}
    BY <1>1 DEF Owned
  <1>3. Owned(list, n) \subseteq Held(list)
    BY <1>1, <1>2, ListBefore
  <1>4. n >= list.count => n .. list.count - 1 = {}
    BY ListBefore
  <1> QED
    BY <1>2, <1>3, <1>4 DEF ListInv

LEMMA ListCreateStep ==
  ASSUME ListInv, NEW n \in Capacities, ListCreate(n)
  PROVE  ListInv' /\ ListStep
  <1>1. ~ListLive /\ UNCHANGED item /\ Keeps /\ n \in Nat
    BY BufferAssumption DEF ListCreate
  <1>2. CASE listRet' = "XT_ENOMEM" /\ UNCHANGED list
    BY <1>1, <1>2, ListAlone DEF Codes, Errors
  <1>3. CASE /\ list' = [data |-> Malloc(Requested(n)), count |-> 0,
                         capacity |-> Requested(n), grow |-> -1, flags |-> FALSE]
             /\ listRet' = "ok"
    <2> DEFINE k == Requested(n)
               d == Malloc(k)
               g == -1
               f == FALSE
    <2>1. k \in Nat /\ 0 \in Nat /\ g \in Int /\ f \in BOOLEAN
      BY <1>1, RequestedBounds
    <2>2. d \in [DOMAIN d -> Cell] /\ DOMAIN d = 0 .. k - 1
      BY <2>1 DEF Malloc, Cell
    <2> DEFINE t == [data |-> d, count |-> 0, capacity |-> k, grow |-> g, flags |-> f]
    <2>3. list' = t
      BY <1>3
    <2> HIDE DEF k, d, g, f
    <2>3a. ListStruct(t) /\ t.data = d /\ t.count = 0 /\ t.capacity = k /\ t.flags = f
      <3> HIDE <1>3, <2>3
      <3> QED
        BY <2>1, <2>2, ListMade
    <2> HIDE DEF t
    <2>4. /\ ListStruct(list') /\ list'.data = d /\ list'.count = 0
          /\ list'.capacity = k /\ list'.flags = FALSE
      BY <2>3, <2>3a DEF f
    <2>5. Filled(list') /\ ListItems(list') = << >>
      BY <2>4, ItemsNone
    <2>6. ListShape(list')
      BY <2>1, <2>2, <2>4, <2>5 DEF ListShape
    <2>7. Held(list') = {}
      BY <2>4, <2>5, HeldIsFilled
    <2>8. ListInv'
      BY <1>1, <1>3, <2>4, <2>6, <2>7 DEF ListInv, Keeps, Codes
    <2>9. ListItems(list) = << >>
      BY <1>1, ListBefore DEF ListVector
    <2> QED
      BY <1>1, <2>5, <2>8, <2>9, ListStutters
  <1> QED
    BY <1>2, <1>3 DEF ListCreate

\* Clear and Destroy free what the list owns and leave no element.
LEMMA ListEmptied ==
  ASSUME ListInv, NEW d, d \in [DOMAIN d -> Cell],
         DOMAIN d # {} => DOMAIN d = 0 .. list.capacity - 1,
         list' = [list EXCEPT !.count = 0, !.data = d],
         Free(Owned(list, 0)), listRet' = "ok", item' = item
  PROVE  ListInv' /\ ListStep
  <1>1. list' = [data |-> d, count |-> 0, capacity |-> list.capacity, grow |-> list.grow,
                 flags |-> list.flags]
    <2>1. ListStruct(list)
      BY ListBefore
    <2>2. list = [data |-> list.data, count |-> list.count, capacity |-> list.capacity,
                  grow |-> list.grow, flags |-> list.flags]
      BY <2>1, ListFields
    <2> QED
      BY <2>2
  <1>1a. /\ 0 \in Nat /\ list.capacity \in Nat /\ list.grow \in Int
         /\ list.flags \in BOOLEAN /\ 0 <= list.capacity
    BY ListBefore
  <1>2. /\ ListStruct(list') /\ list'.data = d /\ list'.count = 0
        /\ list'.capacity = list.capacity /\ list'.flags = list.flags
    <2> DEFINE t == [data |-> d, count |-> 0, capacity |-> list.capacity, grow |-> list.grow,
                     flags |-> list.flags]
    <2>1. /\ ListStruct(t) /\ t.data = d /\ t.count = 0
          /\ t.capacity = list.capacity /\ t.flags = list.flags
      <3> HIDE <1>1
      <3> QED
        BY <1>1a, ListMade
    <2> HIDE DEF t
    <2> QED
      BY <1>1, <2>1 DEF t
  <1>3. Filled(list') /\ ListItems(list') = << >>
    BY <1>2, ItemsNone
  <1>4. ListShape(list')
    BY <1>1a, <1>2, <1>3 DEF ListShape
  <1>5. Held(list') = {} /\ Distinct(list')
    BY <1>2 DEF Held, Distinct
  <1>6. /\ Owned(list, 0) \subseteq Values
        /\ Owned(list, 0) \cap freed = {}
    BY ListBefore, OwnedIsHeld
  <1>7. freed' \subseteq Values /\ listFault' = FALSE
    BY <1>6 DEF Free, ListInv
  <1>8. ListInv'
    BY <1>4, <1>5, <1>7 DEF ListInv, Codes
  <1>9. ListItems(list') = SubSeq(ListItems(list), 1, 0) /\ 0 \in 0 .. list.count
    BY <1>3, ListBefore, SubSeqEmpty
  <1> QED
    BY <1>8, <1>9, ListCuts

LEMMA ListClearStep ==
  ASSUME ListInv, ListClear
  PROVE  ListInv' /\ ListStep
  <1>1. list.data \in [DOMAIN list.data -> Cell]
    BY ListBefore, ListFields
  <1>2. DOMAIN list.data # {} => DOMAIN list.data = 0 .. list.capacity - 1
    BY ListBefore DEF ListShape
  <1>3. list' = [list EXCEPT !.count = 0, !.data = list.data]
    BY ListBefore, ListFields DEF ListClear
  <1> QED
    BY <1>1, <1>2, <1>3, ListEmptied DEF ListClear

LEMMA ListDestroyStep ==
  ASSUME ListInv, ListDestroy
  PROVE  ListInv' /\ ListStep
  <1> DEFINE d == NoBuffer
  <1>1. d \in [DOMAIN d -> Cell] /\ DOMAIN d = {}
    BY DEF NoBuffer
  <1>2. list' = [list EXCEPT !.count = 0, !.data = d]
    BY DEF ListDestroy
  <1> HIDE DEF d
  <1> QED
    BY <1>1, <1>2, ListEmptied DEF ListDestroy

\* The store of Add in a buffer that has room and the same elements.
LEMMA AddPutStep ==
  ASSUME ListInv, NEW v \in Values, NEW s, ListShape(s), DOMAIN s.data # {},
         s.flags = list.flags, s.count = list.count, s.count < s.capacity,
         \A i \in 0 .. list.count - 1 : s.data[i] = list.data[i],
         ListItems(s) = ListItems(list),
         Put(Appended(s, v), s.count, v, {}), item' = item
  PROVE  ListInv' /\ ListStep
  <1> DEFINE t == Appended(s, v)
  <1>1. /\ s.count \in DOMAIN s.data
        /\ ListShape(t) /\ t.flags = s.flags /\ t.count = s.count + 1
        /\ DOMAIN t.data = DOMAIN s.data /\ t.data[s.count] = v
        /\ \A i \in 0 .. s.count - 1 : t.data[i] = s.data[i]
        /\ ListItems(t) = Append(ListItems(s), v)
    BY AppendedShape
  <1>2. /\ Given(v) /\ list' = t /\ listFault' = FALSE
        /\ freed' = freed \ {v} /\ listRet' = "ok"
    BY <1>1 DEF Put, ListInv
  <1> HIDE DEF t
  <1>3. /\ ListShape(list') /\ list'.flags = list.flags /\ list'.count = list.count + 1
        /\ list'.data[list.count] = v
        /\ \A i \in 0 .. list.count - 1 : list'.data[i] = list.data[i]
        /\ ListItems(list') = Append(ListItems(list), v)
    BY <1>1, <1>2
  <1>4. \A i \in 0 .. list.count : i = list.count \/ i \in 0 .. list.count - 1
    BY ListBefore
  <1>5. Held(list') \subseteq Held(list) \cup {v}
    <2>1. Held(list') = {list'.data[i] : i \in 0 .. list.count}
      BY <1>3, ListBefore, HeldIsFilled DEF ListShape
    <2> QED
      BY <1>3, <1>4, <2>1, ListBefore
  <1>6. Held(list') \cap freed' = {}
    BY <1>2, <1>5 DEF ListInv
  <1>7. ASSUME list'.flags PROVE Distinct(list')
    <2>1. Distinct(list) /\ v \notin Held(list)
      BY <1>2, <1>3, <1>7 DEF ListInv, Given
    <2>2. ASSUME NEW i \in 0 .. list.count, NEW j \in 0 .. list.count,
                 list'.data[i] = list'.data[j]
          PROVE  i = j
      BY <1>3, <1>4, <2>1, <2>2, ListBefore DEF Distinct
    <2> QED
      BY <1>3, <2>2, ListBefore DEF Distinct
  <1>8. ListInv'
    BY <1>2, <1>3, <1>6, <1>7 DEF ListInv, Codes
  <1>9. V!Append1(v)
    BY <1>3, <1>8, ListBefore, VectorIsItemsNext DEF V!Append1, ListVector
  <1> QED
    BY <1>8, <1>9 DEF V!Next, ListStep, ListVector

\* A refused request for at least one cell changes nothing the list owns.
LEMMA ListRefused ==
  ASSUME ListInv, NEW n \in Nat \ {0}, Owned(list, n) = {}, SetCapacityFails(n), item' = item
  PROVE  ListInv' /\ ListStep
  <1>1. Keeps
    BY DEF SetCapacityFails, Free, ListInv, Keeps
  <1>2. list' = list
    <2>1. ListStruct(list)
      BY ListBefore
    <2>2. list' = [list EXCEPT !.data = list.data]
      BY DEF SetCapacityFails, Unresized, Refused
    <2> QED
      BY <2>1, <2>2, ListFields
  <1> QED
    BY <1>1, <1>2, ListAlone DEF SetCapacityFails, Codes, Errors

LEMMA ListAddStep ==
  ASSUME ListInv, NEW v \in Values, Growing, ListAdd(v)
  PROVE  ListInv' /\ ListStep
  <1>1. ListLive /\ item' = item
    BY DEF ListAdd
  <1>2. CASE AddWithRoom(v)
    <2>1. list.count < list.capacity /\ DOMAIN list.data # {}
      BY <1>1, <1>2, ListBefore DEF AddWithRoom, ListLive
    <2> QED
      BY <1>1, <1>2, <2>1, ListBefore, AddPutStep DEF AddWithRoom
  <1>3. CASE AddNoGrowth
    BY <1>1, <1>3, ListAlone DEF AddNoGrowth, Codes, Errors
  <1>4. CASE AddGrows(v)
    <2> DEFINE n == Grown(list)
               r == Resized(list, n)
    <2>1. list.count = list.capacity /\ list.grow # 0 /\ n > list.count
      BY <1>4 DEF AddGrows, Growing
    <2>2. n \in Nat \ {0}
      <3>1. n \in Int
        <4>1. CASE list.grow > 0
          BY <4>1, ListBefore DEF Grown
        <4>2. CASE list.grow < 0
          <5>1. list.capacity \in Nat /\ list.grow \in Int
            BY ListBefore
          <5>2. -list.grow \in Nat \ {0}
            BY <4>2, <5>1
          <5>3. list.capacity \div (-list.grow) \in Nat
            BY <5>1, <5>2
          <5> QED
            BY <4>2, <5>1, <5>3 DEF Grown
        <4> QED
          BY <2>1, <4>1, <4>2, ListBefore
      <3> QED
        BY <2>1, <3>1, ListBefore
    <2>3. \/ Put(Appended(r, v), r.count, v, Owned(list, n))
          \/ SetCapacityFails(n)
      BY <1>4 DEF AddGrows
    <2> HIDE DEF n
    <2>4. Owned(list, n) = {}
      BY <2>1, <2>2, OwnedIsHeld, ListBefore
    <2>5. CASE SetCapacityFails(n)
      BY <1>1, <2>2, <2>4, <2>5, ListRefused
    <2>6. CASE Put(Appended(r, v), r.count, v, Owned(list, n))
      <3>1. n >= list.count /\ DOMAIN list.data # {} /\ ListShape(list)
        BY <1>1, <2>1, <2>2, ListBefore DEF ListLive
      <3>2. /\ ListShape(r) /\ r.flags = list.flags /\ r.capacity = n
            /\ 0 \in DOMAIN r.data /\ r.count = list.count
            /\ \A i \in 0 .. r.count - 1 : r.data[i] = list.data[i]
            /\ ListItems(r) = ListItems(list)
        BY <2>2, <3>1, ResizedShape
      <3> HIDE DEF r
      <3>3. DOMAIN r.data # {} /\ r.count < r.capacity
        BY <2>1, <3>2
      <3>4. Put(Appended(r, v), r.count, v, {})
        BY <2>4, <2>6
      <3> QED
        BY <1>1, <3>2, <3>3, <3>4, AddPutStep
    <2> QED
      BY <2>3, <2>5, <2>6
  <1> QED
    BY <1>2, <1>3, <1>4 DEF ListAdd

LEMMA ListAddAtStep ==
  ASSUME ListInv, NEW v \in Values, NEW i \in 0 .. list.count, ListAddAt(v, i)
  PROVE  ListInv' /\ ListStep
  <1>1. ListLive /\ item' = item
    BY DEF ListAddAt
  <1>2. CASE i >= list.count /\ listRet' = "XT_EINVAL" /\ UNCHANGED list /\ Keeps
    BY <1>1, <1>2, ListAlone DEF Codes, Errors
  <1>3. CASE /\ i < list.count
             /\ Put([list EXCEPT !.data = Store(@, i, v)], i, v,
                    IF list.flags THEN {Fetch(list.data, i)} ELSE {})
    <2> DEFINE t == Replaced(list, i, v)
               gone == IF list.flags THEN {list.data[i]} ELSE {}
    <2>1. i \in 0 .. list.count - 1
      BY <1>3, ListBefore
    <2>2. /\ i \in DOMAIN list.data
          /\ ListShape(t) /\ t.flags = list.flags /\ t.count = list.count
          /\ DOMAIN t.data = DOMAIN list.data
          /\ \A j \in 0 .. list.count - 1 : t.data[j] = IF j = i THEN v ELSE list.data[j]
          /\ i + 1 \in DOMAIN ListItems(list)
          /\ ListItems(t) = [ListItems(list) EXCEPT ![i + 1] = v]
      <3>1. ListShape(list)
        BY ListBefore
      <3> HIDE <1>3
      <3> QED
        BY <2>1, <3>1, ReplacedShape
    <2>3. Put(t, i, v, gone)
      BY <1>3, <2>1, ListBefore DEF Replaced
    <2> HIDE DEF t, gone
    <2>4. gone \subseteq Held(list) /\ gone \subseteq Values
      BY <2>1, ListBefore DEF gone
    <2>5. /\ Given(v) /\ list' = t /\ listFault' = FALSE
          /\ freed' = (freed \cup gone) \ {v} /\ listRet' = "ok"
      BY <2>2, <2>3, <2>4 DEF Put, ListInv
    <2>6. /\ ListShape(list') /\ list'.flags = list.flags /\ list'.count = list.count
          /\ \A j \in 0 .. list.count - 1 : list'.data[j] = IF j = i THEN v ELSE list.data[j]
          /\ ListItems(list') = [ListItems(list) EXCEPT ![i + 1] = v]
      BY <2>2, <2>5
    <2>7. Held(list') = {list'.data[j] : j \in 0 .. list.count - 1}
      BY <2>6, HeldIsFilled DEF ListShape
    <2>8. ASSUME NEW x \in Held(list'), x \in freed' PROVE FALSE
      <3>1. PICK j \in 0 .. list.count - 1 : x = list'.data[j]
        BY <2>7
      <3>2. x # v /\ x \in freed \cup gone
        BY <2>5, <2>8
      <3>3. j # i /\ x = list.data[j]
        BY <2>6, <3>1, <3>2
      <3>4. x \in Held(list)
        BY <3>3, ListBefore
      <3>5. x \in gone /\ list.flags /\ x = list.data[i]
        BY <3>2, <3>4 DEF ListInv, gone
      <3> QED
        BY <2>1, <3>3, <3>5 DEF ListInv, Distinct
    <2>9. ASSUME list'.flags PROVE Distinct(list')
      <3>1. Distinct(list) /\ v \notin Held(list)
        BY <2>5, <2>6, <2>9 DEF ListInv, Given
      <3>2. ASSUME NEW j \in 0 .. list.count - 1, NEW k \in 0 .. list.count - 1,
                   list'.data[j] = list'.data[k]
            PROVE  j = k
        <4>1. list.data[j] # v /\ list.data[k] # v
          BY <3>1, ListBefore
        <4> QED
          BY <2>6, <3>1, <3>2, <4>1 DEF Distinct
      <3> QED
        BY <2>6, <3>2 DEF Distinct
    <2>10. ListInv'
      BY <1>1, <2>4, <2>5, <2>6, <2>8, <2>9 DEF ListInv, Codes
    <2>11. ListVector' = [ListVector EXCEPT ![i + 1] = v] /\ i + 1 \in DOMAIN ListVector
      BY <2>2, <2>6, <2>10, ListBefore, VectorIsItemsNext
    <2>12. V!Replace(i + 1, v)
      BY <1>1, <2>11 DEF V!Replace, ListVector
    <2> QED
      BY <2>10, <2>11, <2>12 DEF V!Next, ListStep, ListVector
  <1> QED
    BY <1>2, <1>3 DEF ListAddAt

LEMMA ListGetStep ==
  ASSUME ListInv, NEW i \in 0 .. list.count, ListGet(i)
  PROVE  ListInv' /\ ListStep
  <1>1. ListLive /\ UNCHANGED <<list, freed>>
    BY DEF ListGet
  <1>2. CASE i >= list.count /\ listRet' = "XT_EINVAL" /\ UNCHANGED <<item, listFault>>
    BY <1>1, <1>2, ListAlone DEF Keeps, Codes, Errors
  <1>3. CASE /\ i < list.count
             /\ item' = Fetch(list.data, i)
             /\ listFault' = (listFault \/ i \notin DOMAIN list.data)
             /\ listRet' = "ok"
    <2>1. i \in 0 .. list.count - 1 /\ i + 1 \in DOMAIN ListItems(list)
      BY <1>3, ListBefore
    <2>2. /\ i \in DOMAIN list.data /\ Fetch(list.data, i) = list.data[i]
          /\ list.data[i] \in Values
      BY <2>1, ListBefore
    <2>3. ListItems(list)[i + 1] = list.data[i]
      <3>1. i + 1 \in 1 .. list.count /\ (i + 1) - 1 = i
        BY <2>1, ListBefore
      <3> QED
        BY <3>1, ListBefore, ItemsAreSeq
    <2>4. listFault' = FALSE
      BY <1>3, <2>2 DEF ListInv
    <2>5. ListInv'
      BY <1>1, <1>3, <2>2, <2>4 DEF ListInv, Codes, Held, Distinct
    <2>6. ListVector' = ListVector
      BY <1>1 DEF ListVector, ListLive
    <2>7. item' = ListVector[i + 1] /\ i + 1 \in DOMAIN ListVector
      BY <1>3, <2>1, <2>2, <2>3, ListBefore
    <2>8. V!Read(i + 1)
      BY <2>6, <2>7 DEF V!Read, ListVector
    <2> QED
      BY <2>5, <2>7, <2>8 DEF V!Next, ListStep, ListVector
  <1> QED
    BY <1>2, <1>3 DEF ListGet

\* Removing the last element frees it if the list owns it.
LEMMA RemoveFromStep ==
  ASSUME ListInv, NEW i \in 0 .. list.count - 1, RemoveFrom(i), item' = item
  PROVE  ListInv' /\ ListStep
  <1> DEFINE gone == IF i = list.count - 1 THEN Owned(list, i) ELSE {}
  <1>1. /\ ListShape(list') /\ list'.flags = list.flags /\ list'.count = list.count - 1
        /\ \A j \in 0 .. list'.count - 1 : list'.data[j] = list.data[IF j < i THEN j ELSE j + 1]
        /\ i + 1 \in DOMAIN ListItems(list)
        /\ ListItems(list') = V!RemoveAt(ListItems(list), i + 1)
    <2> DEFINE t == Removed(list, i)
    <2>1. ListShape(list)
      BY ListBefore
    <2>2. /\ ListShape(t) /\ t.flags = list.flags /\ t.count = list.count - 1
          /\ \A j \in 0 .. t.count - 1 : t.data[j] = list.data[IF j < i THEN j ELSE j + 1]
          /\ i + 1 \in DOMAIN ListItems(list)
          /\ ListItems(t) = V!RemoveAt(ListItems(list), i + 1)
      BY <2>1, RemovedShape
    <2>3. list' = t
      BY DEF RemoveFrom
    <2> HIDE DEF t
    <2> QED
      BY <2>2, <2>3
  <1>2. Held(list') = {list'.data[j] : j \in 0 .. list.count - 2}
    BY <1>1, ListBefore, HeldIsFilled DEF ListShape
  <1>3. \A j \in 0 .. list.count - 2 :
          /\ j \in Int /\ j \in 0 .. list.count - 1 /\ j + 1 \in 0 .. list.count - 1
          /\ list'.data[j] = IF j < i THEN list.data[j] ELSE list.data[j + 1]
    BY <1>1, ListBefore
  <1>4. i \in Nat /\ gone \subseteq Held(list) /\ gone \cap freed = {} /\ gone \subseteq Values
    BY ListBefore, OwnedIsHeld
  <1>5. freed' = freed \cup gone /\ listFault' = FALSE
    BY <1>4 DEF RemoveFrom, Free, ListInv
  <1>6. Held(list') \subseteq Held(list)
    BY <1>2, <1>3, ListBefore
  <1>7. ASSUME NEW x \in Held(list'), x \in gone PROVE FALSE
    <2>1. PICK j \in 0 .. list.count - 2 : x = list'.data[j]
      BY <1>2
    <2>2. list.flags /\ i = list.count - 1 /\ x = list.data[i]
      <3>1. list.flags /\ i = list.count - 1 /\ x \in {list.data[k] : k \in i .. list.count - 1}
        BY <1>4, <1>7, OwnedIsHeld
      <3> QED
        BY <3>1, ListBefore
    <2>3. x = list.data[j] /\ j # i /\ j \in 0 .. list.count - 1
      <3>1. j < i /\ j \in 0 .. list.count - 1
        BY <1>3, <2>2, ListBefore
      <3>2. list'.data[j] = list.data[j]
        BY <1>3, <3>1
      <3> QED
        BY <1>4, <2>1, <3>1, <3>2
    <2> QED
      BY <2>2, <2>3 DEF ListInv, Distinct
  <1>8. Held(list') \cap freed' = {}
    BY <1>5, <1>6, <1>7 DEF ListInv
  <1>9. ASSUME list'.flags PROVE Distinct(list')
    <2>1. Distinct(list)
      BY <1>1, <1>9 DEF ListInv
    <2>2. ASSUME NEW j \in 0 .. list.count - 2, NEW k \in 0 .. list.count - 2,
                 list'.data[j] = list'.data[k]
          PROVE  j = k
      <3> DEFINE a == IF j < i THEN j ELSE j + 1
                 b == IF k < i THEN k ELSE k + 1
      <3>1. a \in 0 .. list.count - 1 /\ b \in 0 .. list.count - 1 /\ (a = b => j = k)
        BY <1>3, <1>4
      <3>2. list'.data[j] = list.data[a] /\ list'.data[k] = list.data[b]
        BY <1>1, ListBefore
      <3> HIDE DEF a, b
      <3> QED
        BY <2>1, <2>2, <3>1, <3>2 DEF Distinct
    <2>3. list'.count - 1 = list.count - 2
      BY <1>1, ListBefore
    <2> QED
      BY <2>2, <2>3 DEF Distinct
  <1>10. ListInv'
    BY <1>1, <1>4, <1>5, <1>8, <1>9 DEF ListInv, RemoveFrom, Codes
  <1>11. ListVector' = V!RemoveAt(ListVector, i + 1) /\ i + 1 \in DOMAIN ListVector
    BY <1>1, <1>10, ListBefore, VectorIsItemsNext
  <1>12. V!Delete(i + 1)
    BY <1>11 DEF V!Delete, ListVector
  <1> QED
    BY <1>10, <1>11, <1>12 DEF V!Next, ListStep, ListVector

LEMMA ListRemoveAtStep ==
  ASSUME ListInv, NEW i \in 0 .. list.count, ListRemoveAt(i)
  PROVE  ListInv' /\ ListStep
  <1>1. item' = item
    BY DEF ListRemoveAt
  <1>2. CASE i >= list.count /\ listRet' = "XT_EINVAL" /\ UNCHANGED list /\ Keeps
    BY <1>1, <1>2, ListAlone DEF Codes, Errors
  <1>3. CASE i < list.count /\ RemoveFrom(i)
    <2>1. i \in 0 .. list.count - 1
      BY <1>3, ListBefore
    <2> QED
      BY <1>1, <1>3, <2>1, RemoveFromStep
  <1> QED
    BY <1>2, <1>3 DEF ListRemoveAt

\* Remove finds the first of the elements that are equal to v.
LEMMA FirstIsThere ==
  ASSUME ListInv, NEW v \in Held(list)
  PROVE  First(list, v) \in 0 .. list.count - 1
  <1> DEFINE T == {i \in 0 .. list.count - 1 : list.data[i] = v}
  <1>1. T \in SUBSET Nat /\ T # {}
    BY ListBefore
  <1> HIDE DEF T
  <1>2. PICK i \in T : \A j \in T : i <= j
    BY <1>1, LeastNatural
  <1>3. i \in 0 .. list.count - 1 /\ list.data[i] = v
    BY <1>2 DEF T
  <1>4. \A j \in 0 .. i - 1 : j \in 0 .. list.count - 1 /\ ~ (i <= j)
    BY <1>3, ListBefore
  <1>5. \A j \in 0 .. i - 1 : list.data[j] # v
    BY <1>2, <1>4 DEF T
  <1> QED
    BY <1>3, <1>5 DEF First

LEMMA ListRemoveStep ==
  ASSUME ListInv, NEW v \in Values, ListRemove(v)
  PROVE  ListInv' /\ ListStep
  <1>1. item' = item
    BY DEF ListRemove
  <1>2. CASE listRet' = "XT_ENOENT" /\ UNCHANGED list /\ Keeps
    BY <1>1, <1>2, ListAlone DEF Codes, Errors
  <1>3. CASE v \in Held(list) /\ RemoveFrom(First(list, v))
    BY <1>1, <1>3, FirstIsThere, RemoveFromStep
  <1> QED
    BY <1>2, <1>3 DEF ListRemove

\* A capacity that is granted cuts the list off; one that is refused while
\* items are cut off is left out by Careful.
LEMMA ListResizeStep ==
  ASSUME ListInv, NEW n \in Nat \ {0}, ListSetCapacity(n),
         Owned(list, n) # {} => listRet' # "XT_ENOMEM"
  PROVE  ListInv' /\ ListStep
  <1>1. ListLive /\ item' = item /\ n \in Nat
    BY DEF ListSetCapacity
  <1>2. CASE SetCapacityFails(n)
    <2>1. Owned(list, n) = {}
      BY <1>2 DEF SetCapacityFails
    <2> QED
      BY <1>1, <1>2, <2>1, ListRefused
  <1>3. CASE Free(Owned(list, n)) /\ list' = Resized(list, n) /\ listRet' = "ok"
    <2> DEFINE t == Resized(list, n)
    <2>1. ListShape(list) /\ DOMAIN list.data # {}
      BY <1>1, ListBefore DEF ListLive
    <2>2. /\ ListShape(t) /\ t.flags = list.flags
          /\ t.count = Fitting(list.count, n) /\ t.count \in 0 .. list.count
          /\ \A i \in 0 .. t.count - 1 : t.data[i] = list.data[i]
          /\ ListItems(t) = SubSeq(ListItems(list), 1, t.count)
      <3> HIDE <1>3
      <3> QED
        BY <2>1, ResizedShape
    <2>3. list' = t
      BY <1>3
    <2> HIDE DEF t
    <2>4. /\ ListShape(list') /\ list'.flags = list.flags
          /\ list'.count = Fitting(list.count, n) /\ list'.count \in 0 .. list.count
          /\ \A i \in 0 .. list'.count - 1 : list'.data[i] = list.data[i]
          /\ ListItems(list') = SubSeq(ListItems(list), 1, list'.count)
      BY <2>2, <2>3
    <2>5. list'.count <= n /\ list'.count \in Nat
      BY <1>1, <2>4, ListBefore DEF Fitting
    <2>6. Held(list') = {list'.data[j] : j \in 0 .. list'.count - 1}
      BY <2>4, HeldIsFilled DEF ListShape
    <2>7. \A j \in 0 .. list'.count - 1 : j \in 0 .. list.count - 1 /\ j < n /\ j \in Int
      BY <2>4, <2>5, ListBefore
    <2>8. Held(list') \subseteq Held(list)
      BY <2>4, <2>6, <2>7, ListBefore
    <2>9. ASSUME NEW x \in Held(list'), x \in Owned(list, n) PROVE FALSE
      <3>1. PICK j \in 0 .. list'.count - 1 : x = list'.data[j]
        BY <2>6
      <3>2. list.flags /\ x \in {list.data[k] : k \in n .. list.count - 1}
        BY <1>1, <2>9, OwnedIsHeld
      <3>3. PICK k \in n .. list.count - 1 : x = list.data[k]
        BY <3>2
      <3>4. k \in 0 .. list.count - 1 /\ j \in 0 .. list.count - 1 /\ j # k
        BY <1>1, <2>7, ListBefore
      <3> QED
        BY <2>4, <3>1, <3>2, <3>3, <3>4 DEF ListInv, Distinct
    <2>10. freed' = freed \cup Owned(list, n) /\ listFault' = FALSE /\ freed' \subseteq Values
      BY <1>1, <1>3, OwnedIsHeld, ListBefore DEF Free, ListInv
    <2>11. Held(list') \cap freed' = {}
      BY <2>8, <2>9, <2>10 DEF ListInv
    <2>12. list'.flags => Distinct(list')
      BY <2>4, <2>7 DEF ListInv, Distinct
    <2>13. ListInv'
      BY <1>1, <1>3, <2>4, <2>10, <2>11, <2>12 DEF ListInv, Codes
    <2> QED
      BY <1>1, <2>4, <2>13, ListCuts
  <1> QED
    BY <1>2, <1>3 DEF ListSetCapacity

LEMMA ListEnsureCapacityStep ==
  ASSUME ListInv, NEW n \in Capacities, ListEnsureCapacity(n)
  PROVE  ListInv' /\ ListStep
  <1>1. CASE listRet' = "ok" /\ UNCHANGED <<list, item>> /\ Keeps
    BY <1>1, ListAlone DEF Codes
  <1>2. CASE list.capacity < n /\ ListSetCapacity(n)
    <2>1. n \in Nat \ {0} /\ n >= list.count
      BY <1>2, ListBefore, BufferAssumption
    <2>2. Owned(list, n) = {}
      BY <2>1, OwnedIsHeld
    <2> QED
      BY <1>2, <2>1, <2>2, ListResizeStep
  <1> QED
    BY <1>1, <1>2 DEF ListEnsureCapacity

\* Freeing is switched on only for a list that holds each item once.
LEMMA ListSetFlagsStep ==
  ASSUME ListInv, NEW on \in BOOLEAN, ListSetFlags(on)
  PROVE  ListInv' /\ ListStep
  <1> DEFINE t == [data |-> list.data, count |-> list.count, capacity |-> list.capacity,
                   grow |-> list.grow, flags |-> on]
  <1>1. /\ list' = [list EXCEPT !.flags = on] /\ listRet' = "ok" /\ item' = item
        /\ freed' = freed /\ listFault' = FALSE
    BY DEF ListSetFlags, Keeps, ListInv
  <1>2. ListStruct(list)
    BY ListBefore
  <1>3. list' = t
    BY <1>1, <1>2, ListFields
  <1>4. list.data \in [DOMAIN list.data -> Cell]
    BY <1>2, ListFields
  <1>5. /\ ListStruct(t) /\ t.data = list.data /\ t.count = list.count
        /\ t.capacity = list.capacity /\ t.flags = on
    <2>1. list.count \in Nat /\ list.capacity \in Nat /\ list.grow \in Int
      BY ListBefore
    <2> HIDE <1>1, <1>3
    <2> QED
      BY <1>4, <2>1, ListMade
  <1> HIDE DEF t
  <1>6. /\ ListStruct(list') /\ list'.data = list.data /\ list'.count = list.count
        /\ list'.capacity = list.capacity /\ list'.flags = on
    BY <1>3, <1>5
  <1>7. Filled(list') /\ ListItems(list') = ListItems(list) /\ Held(list') = Held(list)
    BY <1>6, ListBefore DEF Filled, ListItems, Held
  <1>8. ListShape(list')
    BY <1>6, <1>7, ListBefore DEF ListShape
  <1>9. ASSUME on PROVE Distinct(list')
    <2>1. \A i, j \in 1 .. list.count : ListItems(list)[i] = ListItems(list)[j] => i = j
      BY <1>9 DEF ListSetFlags
    <2>2. ASSUME NEW i \in 0 .. list.count - 1, NEW j \in 0 .. list.count - 1,
                 list.data[i] = list.data[j]
          PROVE  i = j
      <3>1. i + 1 \in 1 .. list.count /\ (i + 1) - 1 = i
        BY ListBefore
      <3>2. j + 1 \in 1 .. list.count /\ (j + 1) - 1 = j
        BY ListBefore
      <3>3. ListItems(list)[i + 1] = list.data[i] /\ ListItems(list)[j + 1] = list.data[j]
        BY <3>1, <3>2, ListBefore, ItemsAreSeq
      <3>4. i + 1 = j + 1
        BY <2>1, <2>2, <3>1, <3>2, <3>3
      <3> QED
        BY <3>4
    <2> QED
      BY <1>6, <2>2 DEF Distinct
  <1>10. ListInv'
    BY <1>1, <1>6, <1>7, <1>8, <1>9 DEF ListInv, Codes
  <1> QED
    BY <1>1, <1>7, <1>10, ListStutters

LEMMA ListSetGrowthFactorStep ==
  ASSUME ListInv, NEW g \in Growths, ListSetGrowthFactor(g)
  PROVE  ListInv' /\ ListStep
  <1> DEFINE t == [data |-> list.data, count |-> list.count, capacity |-> list.capacity,
                   grow |-> g, flags |-> list.flags]
  <1>1. /\ list' = [list EXCEPT !.grow = g] /\ listRet' = "ok" /\ item' = item
        /\ freed' = freed /\ listFault' = FALSE
    BY DEF ListSetGrowthFactor, Keeps, ListInv
  <1>2. ListStruct(list)
    BY ListBefore
  <1>3. list' = t
    BY <1>1, <1>2, ListFields
  <1>4. list.data \in [DOMAIN list.data -> Cell]
    BY <1>2, ListFields
  <1>5. /\ ListStruct(t) /\ t.data = list.data /\ t.count = list.count
        /\ t.capacity = list.capacity /\ t.flags = list.flags
    <2>1. /\ list.count \in Nat /\ list.capacity \in Nat /\ g \in Int
          /\ list.flags \in BOOLEAN
      BY ListBefore, BufferAssumption
    <2> HIDE <1>1, <1>3
    <2> QED
      BY <1>4, <2>1, ListMade
  <1> HIDE DEF t
  <1>6. /\ ListStruct(list') /\ list'.data = list.data /\ list'.count = list.count
        /\ list'.capacity = list.capacity /\ list'.flags = list.flags
    BY <1>3, <1>5
  <1>7. Filled(list') /\ ListItems(list') = ListItems(list) /\ Held(list') = Held(list)
    BY <1>6, ListBefore DEF Filled, ListItems, Held
  <1>8. ListShape(list') /\ (list'.flags => Distinct(list'))
    BY <1>6, <1>7, ListBefore DEF ListShape, ListInv, Distinct
  <1>9. ListInv'
    BY <1>1, <1>6, <1>7, <1>8 DEF ListInv, Codes
  <1> QED
    BY <1>1, <1>7, <1>9, ListStutters

LEMMA ListInitInv == ListInit => ListInv /\ V!Init
  <1> SUFFICES ASSUME ListInit PROVE ListInv /\ V!Init
    OBVIOUS
  <1> DEFINE d == NoBuffer
             g == -1
             f == FALSE
             z == 0
             t == [data |-> d, count |-> z, capacity |-> z, grow |-> g, flags |-> f]
  <1>1. d \in [DOMAIN d -> Cell] /\ DOMAIN d = {}
    BY DEF NoBuffer
  <1>2. z \in Nat /\ g \in Int /\ f \in BOOLEAN
    OBVIOUS
  <1>3. list = t
    BY DEF ListInit
  <1> HIDE DEF d, g, f, z
  <1>4. ListStruct(t) /\ t.data = d /\ t.count = z /\ t.capacity = z /\ t.flags = f
    <2>1. d \in [DOMAIN d -> Cell]
      BY <1>1
    <2> HIDE <1>1, <1>3
    <2> QED
      BY <1>2, <2>1, ListMade
  <1> HIDE DEF t
  <1>5. /\ ListStruct(list) /\ list.data = d /\ list.count = 0 /\ list.capacity = 0
        /\ list.flags = FALSE
    BY <1>3, <1>4 DEF f, z
  <1>6. Filled(list) /\ ~ListLive
    BY <1>1, <1>5, ItemsNone DEF ListLive
  <1>7. ListShape(list)
    BY <1>1, <1>5, <1>6 DEF ListShape
  <1>8. Held(list) = {}
    BY <1>5 DEF Held
  <1>9. ListInv
    BY <1>5, <1>7, <1>8 DEF ListInv, ListInit, Codes
  <1> QED
    BY <1>6, <1>9 DEF V!Init, ListInit

LEMMA ListNextInv == ListInv /\ [ListNext]_listVars => ListInv' /\ ListStep
  <1> SUFFICES ASSUME ListInv, [ListNext]_listVars PROVE ListInv' /\ ListStep
    OBVIOUS
  <1>1. CASE UNCHANGED listVars
    BY <1>1, ListAlone DEF listVars, ListInv, Keeps
  <1>2. CASE \E n \in Capacities : ListCreate(n) \/ ListEnsureCapacity(n)
    BY <1>2, ListCreateStep, ListEnsureCapacityStep
  <1>3. CASE ListClear \/ ListDestroy
    BY <1>3, ListClearStep, ListDestroyStep
  <1>4. CASE \E i \in 0 .. list.count :
               ListGet(i) \/ ListRemoveAt(i) \/ \E v \in Values : ListAddAt(v, i)
    BY <1>4, ListGetStep, ListRemoveAtStep, ListAddAtStep
  <1>5. CASE \E v \in Values : ListRemove(v)
    BY <1>5, ListRemoveStep
  <1>6. CASE \E on \in BOOLEAN : ListSetFlags(on)
    BY <1>6, ListSetFlagsStep
  <1>7. CASE \E g \in Growths : ListSetGrowthFactor(g)
    BY <1>7, ListSetGrowthFactorStep
  <1>8. CASE \E v \in Values : Growing /\ ListAdd(v)
    BY <1>8, ListAddStep
  <1>9. CASE \E n \in Capacities : ListSetCapacity(n) /\ Careful(n)
    <2>1. PICK n \in Capacities : ListSetCapacity(n) /\ Careful(n)
      BY <1>9
    <2>2. n \in Nat \ {0} /\ (Owned(list, n) # {} => listRet' # "XT_ENOMEM")
      BY <2>1, BufferAssumption DEF Careful
    <2> QED
      BY <2>1, <2>2, ListResizeStep
  <1> QED
    BY <1>1, <1>2, <1>3, <1>4, <1>5, <1>6, <1>7, <1>8, <1>9 DEF ListNext, ListCommon

\* What the runs check of the list follows from the invariant.
LEMMA ListInvMeans == ListInv => ListTypeOK /\ ListBounds /\ NoFreedItem
  <1> SUFFICES ASSUME ListInv PROVE ListTypeOK /\ ListBounds /\ NoFreedItem
    OBVIOUS
  <1>1. Junk \notin Values /\ Junk # Nothing
    BY BufferAssumption
  <1>2. ListTypeOK
    BY ListBefore DEF ListTypeOK, ListInv, ListStruct, Cell
  <1>3. ListBounds
    BY <1>1, ListBefore DEF ListBounds, ListInv, ListShape, ListLive
  <1> QED
    BY <1>2, <1>3 DEF NoFreedItem, ListInv

\* The struct and the client's variables keep their types (ListTypeOK).
THEOREM ListTypeCorrect == ListSpec => []ListTypeOK
  <1>1. ListInit => ListInv
    BY ListInitInv
  <1>2. ListInv /\ [ListNext]_listVars => ListInv'
    BY ListNextInv
  <1>3. ListInv => ListTypeOK
    BY ListInvMeans
  <1> QED
    BY <1>1, <1>2, <1>3, PTL DEF ListSpec

\* list.h, "Bounds checking is performed on all operations": under the rules
\* of ListNext no call leaves the buffer, and no element is one that nobody
\* stored (ListBounds).
THEOREM ListStaysInBounds == ListSpec => []ListBounds
  <1>1. ListInit => ListInv
    BY ListInitInv
  <1>2. ListInv /\ [ListNext]_listVars => ListInv'
    BY ListNextInv
  <1>3. ListInv => ListBounds
    BY ListInvMeans
  <1> QED
    BY <1>1, <1>2, <1>3, PTL DEF ListSpec

\* A list with XT_LIST_FREE_ITEM frees no item it still holds, so that Get
\* hands out no freed memory and no item is freed twice (NoFreedItem).
THEOREM OwnedItemsFreedOnce == ListSpec => []NoFreedItem
  <1>1. ListInit => ListInv
    BY ListInitInv
  <1>2. ListInv /\ [ListNext]_listVars => ListInv'
    BY ListNextInv
  <1>3. ListInv => NoFreedItem
    BY ListInvMeans
  <1> QED
    BY <1>1, <1>2, <1>3, PTL DEF ListSpec

\* The list is the sequence its client has built: every call of list.h, with
\* its growth, cuts and moves of memory, is a step of Vector or stutters.
THEOREM ListIsVector == ListSpec => ImplementsVector
  <1>1. ListInit => ListInv /\ V!Init
    BY ListInitInv
  <1>2. ListInv /\ [ListNext]_listVars => ListInv' /\ [V!Next]_(V!vars)
    BY ListNextInv DEF ListStep, ListVector, V!vars
  <1> QED
    BY <1>1, <1>2, PTL DEF ListSpec, ImplementsVector, V!Spec
-----------------------------------------------------------------------------
\* The search of a table finds the lowest of the indices that fit.
LEMMA LowestExists ==
  ASSUME NEW T \in SUBSET Nat, T # {}
  PROVE  Lowest(T) \in T /\ \A y \in T : Lowest(T) <= y
  <1>1. PICK x \in T : \A y \in T : ~ (<<y, x>> \in OpToRel(<, Nat))
    BY NatLessThanWellFounded, WFMin
  <1>2. ASSUME NEW y \in T PROVE x <= y
    <2>1. ~ (<<y, x>> \in OpToRel(<, Nat)) /\ x \in Nat /\ y \in Nat
      BY <1>1
    <2>2. <<y, x>> \in Nat \X Nat
      BY <2>1
    <2>3. ~ (y < x)
      BY <2>1, <2>2 DEF OpToRel
    <2>4. x \in Int /\ y \in Int
      OBVIOUS
    <2> HIDE <2>1
    <2> QED
      BY <2>3, <2>4
  <1> QED
    BY <1>2 DEF Lowest

LEMMA LowestOfOne ==
  ASSUME NEW x \in Nat
  PROVE  Lowest({x}) = x
  BY LowestExists
-----------------------------------------------------------------------------
(***************************************************************************)
(* Linux.                                                                  *)
(***************************************************************************)
EpollFlags == {"EPOLLIN", "EPOLLOUT", "EPOLLERR", "EPOLLHUP", "EPOLLRDHUP"}

\* The conversion of events to native flags and back loses none of them.
LEMMA EpollFlagsRoundTrip ==
  ASSUME NEW e \in SUBSET Events
  PROVE  /\ ToEpoll(e) \in SUBSET EpollFlags
         /\ FromEpoll(ToEpoll(e)) = e
         /\ FromEpoll(Fixed(ToEpoll(e))) = e \cup Implicit
  BY DEF Events, EpollFlags, ToEpoll, FromEpoll, Fixed, Implicit

(***************************************************************************)
(* The inductive invariant.  SlotsMatchKernel says nothing of which slot   *)
(* is whose; here every slot in use holds the registered socket that       *)
(* points back to it, so that the kernel's table is an injection into the  *)
(* slots and a count below the capacity leaves one of them free.           *)
(***************************************************************************)
EpollInv ==
  /\ slots \in [DOMAIN slots -> Entry]
  /\ DOMAIN slots \subseteq Nat /\ IsFiniteSet(DOMAIN slots)
  /\ DOMAIN interest \subseteq Sockets /\ IsFiniteSet(DOMAIN interest)
  /\ interest \in [DOMAIN interest -> [events : {Fixed(ToEpoll(e)) : e \in Requests},
                                       slot : DOMAIN slots]]
  /\ \A s \in DOMAIN interest : slots[interest[s].slot].fd = s
  /\ \A i \in DOMAIN slots :
       slots[i].fd # Invalid =>
         slots[i].fd \in DOMAIN interest /\ interest[slots[i].fd].slot = i
  /\ reported \in [DOMAIN reported -> [slot : DOMAIN slots, events : SUBSET EpollFlags]]
  /\ DOMAIN reported \subseteq Nat
  /\ EpollLive => slotCount = Cardinality(DOMAIN interest)
  /\ slotCount \in Nat
  /\ epollRet \in {"ok", "error", "XT_ENOBUFS", "XT_ENOENT", "XT_EINVAL"}

\* The slots that hold a socket are the one the kernel was given.
LEMMA SlotsOfSocket ==
  ASSUME EpollInv, NEW s \in Sockets
  PROVE  /\ SlotsOf(s) = IF s \in DOMAIN interest THEN {interest[s].slot} ELSE {}
         /\ s \in DOMAIN interest => /\ interest[s].slot \in DOMAIN slots
                                     /\ interest[s].slot \in Nat
                                     /\ slots[interest[s].slot].fd = s
                                     /\ Lowest(SlotsOf(s)) = interest[s].slot
         /\ s # Invalid
  <1>1. s # Invalid
    BY PollingAssumption
  <1>2. CASE s \in DOMAIN interest
    <2>1. interest[s].slot \in DOMAIN slots /\ interest[s].slot \in Nat
      BY <1>2 DEF EpollInv
    <2>2. slots[interest[s].slot].fd = s
      BY <1>2 DEF EpollInv
    <2>3. \A i \in DOMAIN slots : slots[i].fd = s => i = interest[s].slot
      BY <1>1 DEF EpollInv
    <2>4. SlotsOf(s) = {interest[s].slot}
      BY <2>1, <2>2, <2>3 DEF SlotsOf
    <2> QED
      BY <1>1, <1>2, <2>1, <2>2, <2>4, LowestOfOne
  <1>3. CASE s \notin DOMAIN interest
    BY <1>1, <1>3 DEF EpollInv, SlotsOf
  <1> QED
    BY <1>2, <1>3

\* An Add below the capacity finds a free slot.
LEMMA FreeSlotExists ==
  ASSUME EpollInv, EpollLive, slotCount # Size
  PROVE  /\ Lowest(FreeSlots) \in DOMAIN slots
         /\ slots[Lowest(FreeSlots)].fd = Invalid
         /\ FreeSlots # {}
  <1> DEFINE f == [s \in DOMAIN interest |-> interest[s].slot]
  <1>1. f \in [DOMAIN interest -> DOMAIN slots] /\ \A s \in DOMAIN interest : f[s] = interest[s].slot
    BY DEF EpollInv
  <1>2. \A s, t \in DOMAIN interest : f[s] = f[t] => s = t
    BY <1>1 DEF EpollInv
  <1>3. f \in Injection(DOMAIN interest, DOMAIN slots)
    BY <1>1, <1>2 DEF Injection, IsInjective
  <1>4. Cardinality(DOMAIN interest) # Cardinality(DOMAIN slots)
    BY DEF EpollInv, Size
  <1>5. f \notin Surjection(DOMAIN interest, DOMAIN slots)
    BY <1>3, <1>4, FS_Injection DEF EpollInv
  <1>6. PICK i \in DOMAIN slots : \A s \in DOMAIN interest : f[s] # i
    BY <1>1, <1>5 DEF Surjection
  <1>7. slots[i].fd = Invalid
    BY <1>1, <1>6 DEF EpollInv
  <1>8. FreeSlots \in SUBSET Nat /\ FreeSlots # {}
    BY <1>7 DEF FreeSlots, EpollInv
  <1> QED
    BY <1>8, LowestExists DEF FreeSlots

(***************************************************************************)
(* The mapped variables in terms of the kernel's table.                    *)
(***************************************************************************)
EpollWatched(tab, int) ==
  [s \in DOMAIN int |-> [data |-> tab[int[s].slot].data, events |-> FromEpoll(int[s].events)]]

WatchIsKernel == EpollWatch = EpollWatched(slots, interest)

LEMMA WatchFromKernel == EpollInv => WatchIsKernel
  <1> SUFFICES ASSUME EpollInv PROVE WatchIsKernel
    OBVIOUS
  <1>1. ASSUME NEW s \in DOMAIN interest PROVE Lowest(SlotsOf(s)) = interest[s].slot
    BY <1>1, SlotsOfSocket DEF EpollInv
  <1> QED
    BY <1>1 DEF WatchIsKernel, EpollWatch, EpollWatched

LEMMA WatchFromKernelNext == EpollInv' => EpollWatch' = EpollWatched(slots', interest')
  <1>1. EpollInv' => WatchIsKernel'
    BY WatchFromKernel, PTL
  <1> QED
    BY <1>1 DEF WatchIsKernel, EpollWatched

EpollStep == [EP!Next]_<<EpollWatch, EpollReady>>

LEMMA EpollInitInv == EpollInit => EpollInv /\ EP!Init
  <1> SUFFICES ASSUME EpollInit PROVE EpollInv /\ EP!Init
    OBVIOUS
  <1>1. DOMAIN slots = {} /\ DOMAIN interest = {} /\ DOMAIN reported = {}
    BY DEF EpollInit
  <1>2. slots = [i \in {} |-> 0] /\ interest = [i \in {} |-> 0] /\ reported = [i \in {} |-> 0]
    BY DEF EpollInit
  <1>3. EpollInv
    BY <1>1, <1>2, FS_EmptySet DEF EpollInv, EpollInit, EpollLive
  <1>4. EpollWatch = << >> /\ EpollReady = << >>
    BY <1>1 DEF EpollWatch, EpollReady
  <1> QED
    BY <1>3, <1>4 DEF EP!Init

\* A call that changes neither the table nor the kernel nor the ready array.
LEMMA EpollAlone ==
  ASSUME EpollInv, UNCHANGED <<slots, slotCount, reported, interest>>,
         epollRet' \in {"ok", "error", "XT_ENOBUFS", "XT_ENOENT", "XT_EINVAL"}
  PROVE  EpollInv' /\ EpollStep
  <1>1. EpollInv'
    BY DEF EpollInv, EpollLive
  <1>2. EpollWatch' = EpollWatch /\ EpollReady' = EpollReady
    BY DEF EpollWatch, EpollReady, SlotsOf
  <1> QED
    BY <1>1, <1>2 DEF EpollStep

\* A poll set that is not there watches nothing.
LEMMA EpollDead ==
  ASSUME EpollInv, ~EpollLive
  PROVE  interest = << >> /\ reported = << >> /\ EpollWatch = << >> /\ EpollReady = << >>
  <1>1. DOMAIN interest = {} /\ DOMAIN reported = {}
    BY DEF EpollInv, EpollLive
  <1>2. interest = << >> /\ reported = << >>
    BY <1>1 DEF EpollInv
  <1> QED
    BY <1>1, <1>2 DEF EpollWatch, EpollReady

LEMMA EpollCreateStep ==
  ASSUME EpollInv, NEW n \in PollCapacities, EpollCreate(n)
  PROVE  EpollInv' /\ EpollStep
  <1>1. CASE epollRet' = "error" /\ UNCHANGED <<slots, slotCount, reported, interest>>
    BY <1>1, EpollAlone
  <1>2. CASE /\ slots' = [i \in 0 .. Clamped(n) - 1 |-> NoEntry]
             /\ slotCount' = 0 /\ reported' = << >> /\ interest' = << >>
             /\ epollRet' = "ok"
    <2>1. Clamped(n) \in Nat
      BY PollingAssumption DEF Clamped
    <2>2. /\ DOMAIN slots' = 0 .. Clamped(n) - 1 /\ DOMAIN slots' \subseteq Nat
          /\ IsFiniteSet(DOMAIN slots')
          /\ \A i \in DOMAIN slots' : slots'[i] = NoEntry
      BY <1>2, <2>1, FS_Interval
    <2>3. NoEntry \in Entry /\ NoEntry.fd = Invalid
      BY DEF NoEntry, Entry
    <2>4. slots' \in [DOMAIN slots' -> Entry]
      BY <1>2, <2>2, <2>3
    <2>5. /\ DOMAIN interest' = {} /\ DOMAIN reported' = {}
          /\ interest' = [i \in {} |-> 0] /\ reported' = [i \in {} |-> 0]
      BY <1>2
    <2>6. EpollInv'
      BY <1>2, <2>2, <2>3, <2>4, <2>5, FS_EmptySet DEF EpollInv
    <2>7. EpollWatch' = << >> /\ EpollReady' = << >>
      BY <2>5 DEF EpollWatch, EpollReady
    <2>8. EpollWatch = << >> /\ EpollReady = << >>
      BY EpollDead DEF EpollCreate
    <2> QED
      BY <2>6, <2>7, <2>8 DEF EpollStep
  <1> QED
    BY <1>1, <1>2 DEF EpollCreate

LEMMA EpollDestroyStep ==
  ASSUME EpollInv, EpollDestroy
  PROVE  EpollInv' /\ EpollStep
  <1>1. /\ DOMAIN slots' = {} /\ DOMAIN interest' = {} /\ DOMAIN reported' = {}
        /\ slots' = [i \in {} |-> 0] /\ interest' = [i \in {} |-> 0]
        /\ reported' = [i \in {} |-> 0]
        /\ slotCount' = slotCount /\ epollRet' = "ok"
    BY DEF EpollDestroy
  <1>2. EpollInv'
    BY <1>1, FS_EmptySet DEF EpollInv, EpollLive
  <1>3. EpollWatch' = << >> /\ EpollReady' = << >>
    BY <1>1 DEF EpollWatch, EpollReady
  <1> QED
    BY <1>2, <1>3 DEF EpollStep, EP!Next, EP!Close

\* Add fills a free slot and registers it; the ready array does not point to
\* that slot, or it would speak of the new socket.
LEMMA EpollAddStep ==
  ASSUME EpollInv, Forgotten, NEW s \in Sockets, NEW d \in Data, NEW e \in Requests,
         EpollAdd(s, d, e)
  PROVE  EpollInv' /\ EpollStep
  <1>1. CASE EpollFails("XT_ENOBUFS") \/ EpollFails("error")
    BY <1>1, EpollAlone DEF EpollFails
  <1>2. CASE /\ slotCount # Size
             /\ Register(s, Lowest(FreeSlots), e)
             /\ slots' = [slots EXCEPT ![Lowest(FreeSlots)] = [fd |-> s, data |-> d]]
             /\ slotCount' = slotCount + 1
             /\ epollRet' = "ok"
             /\ UNCHANGED reported
    <2> DEFINE i == Lowest(FreeSlots)
               r == [events |-> Fixed(ToEpoll(e)), slot |-> i]
    <2>1. /\ EpollLive /\ i \in DOMAIN slots /\ slots[i].fd = Invalid /\ FreeSlots # {}
      BY <1>2, FreeSlotExists DEF EpollAdd
    <2>2. \A j \in DOMAIN reported : reported[j].slot # i
      BY <2>1 DEF Forgotten
    <2> HIDE DEF i
    <2>3. /\ s \notin DOMAIN interest
          /\ interest' = [t \in DOMAIN interest \cup {s} |-> IF t = s THEN r ELSE interest[t]]
      BY <1>2 DEF Register, i
    <2>4. slots' = [slots EXCEPT ![i] = [fd |-> s, data |-> d]]
      BY <1>2 DEF i
    <2>5. /\ DOMAIN slots' = DOMAIN slots /\ slots'[i] = [fd |-> s, data |-> d]
          /\ slots'[i].fd = s /\ slots'[i].data = d
          /\ \A j \in DOMAIN slots : j # i => slots'[j] = slots[j]
      BY <2>1, <2>4 DEF EpollInv
    <2>6. slots' \in [DOMAIN slots' -> Entry]
      BY <2>4, <2>5 DEF EpollInv, Entry
    <2>7. r \in [events : {Fixed(ToEpoll(x)) : x \in Requests}, slot : DOMAIN slots]
      BY <2>1
    <2>8. /\ DOMAIN interest' = DOMAIN interest \cup {s} /\ interest'[s] = r
          /\ interest'[s].slot = i /\ interest'[s].events = Fixed(ToEpoll(e))
          /\ \A t \in DOMAIN interest : interest'[t] = interest[t]
      BY <2>3
    <2>9. interest' \in [DOMAIN interest' -> [events : {Fixed(ToEpoll(x)) : x \in Requests},
                                              slot : DOMAIN slots']]
      BY <2>3, <2>5, <2>7, <2>8 DEF EpollInv
    <2>10. /\ DOMAIN interest' \subseteq Sockets /\ IsFiniteSet(DOMAIN interest')
           /\ Cardinality(DOMAIN interest') = Cardinality(DOMAIN interest) + 1
      BY <2>3, <2>8, FS_AddElement DEF EpollInv
    <2>11. s # Invalid /\ \A t \in DOMAIN interest : t # s /\ interest[t].slot # i
                                                   /\ interest[t].slot \in DOMAIN slots
      BY <2>1, <2>3, PollingAssumption DEF EpollInv
    <2>12. \A t \in DOMAIN interest' : slots'[interest'[t].slot].fd = t
      BY <2>5, <2>8, <2>11 DEF EpollInv
    <2>13. \A j \in DOMAIN slots' :
             slots'[j].fd # Invalid =>
               slots'[j].fd \in DOMAIN interest' /\ interest'[slots'[j].fd].slot = j
      BY <2>5, <2>8 DEF EpollInv
    <2>14. reported' \in [DOMAIN reported' -> [slot : DOMAIN slots', events : SUBSET EpollFlags]]
      BY <1>2, <2>5 DEF EpollInv
    <2>15. slotCount' = Cardinality(DOMAIN interest') /\ slotCount' \in Nat
      BY <1>2, <2>1, <2>10 DEF EpollInv
    <2>16. EpollInv'
      BY <1>2, <2>5, <2>6, <2>9, <2>10, <2>12, <2>13, <2>14, <2>15 DEF EpollInv
    <2>17. EpollWatch' = [t \in DOMAIN EpollWatch \cup {s} |->
                            IF t = s THEN [data |-> d, events |-> e \cup Implicit]
                            ELSE EpollWatch[t]]
      <3>1. FromEpoll(Fixed(ToEpoll(e))) = e \cup Implicit
        BY EpollFlagsRoundTrip, PollingAssumption
      <3>2. EpollWatch' = EpollWatched(slots', interest') /\ EpollWatch = EpollWatched(slots, interest)
        BY <2>16, WatchFromKernel, WatchFromKernelNext DEF WatchIsKernel
      <3>3. DOMAIN EpollWatch = DOMAIN interest
        BY <3>2 DEF EpollWatched
      <3>4. \A t \in DOMAIN interest :
              EpollWatch[t] = [data |-> slots[interest[t].slot].data,
                               events |-> FromEpoll(interest[t].events)]
        BY <3>2 DEF EpollWatched
      <3>5. ASSUME NEW t \in DOMAIN interest'
            PROVE  [data |-> slots'[interest'[t].slot].data, events |-> FromEpoll(interest'[t].events)]
                   = IF t = s THEN [data |-> d, events |-> e \cup Implicit] ELSE EpollWatch[t]
        <4>1. CASE t = s
          BY <2>5, <2>8, <3>1, <4>1
        <4>2. CASE t # s
          <5>1. t \in DOMAIN interest
            BY <2>8, <4>2
          <5>2. interest'[t] = interest[t] /\ slots'[interest[t].slot] = slots[interest[t].slot]
            BY <2>5, <2>8, <2>11, <5>1
          <5> QED
            BY <3>4, <4>2, <5>1, <5>2
        <4> QED
          BY <4>1, <4>2
      <3> QED
        BY <2>8, <3>2, <3>3, <3>5 DEF EpollWatched
    <2>18. EpollReady' = EpollReady
      <3>1. \A j \in DOMAIN reported : /\ slots'[reported[j].slot] = slots[reported[j].slot]
        BY <2>2, <2>5 DEF EpollInv
      <3> QED
        BY <1>2, <3>1 DEF EpollReady
    <2>19. s \notin DOMAIN EpollWatch
      BY <2>3 DEF EpollWatch
    <2>20. EP!Add(s, d, e)
      BY <2>17, <2>18, <2>19 DEF EP!Add, EP!Implicit, Implicit
    <2> QED
      BY <2>16, <2>20 DEF EpollStep, EP!Next
  <1> QED
    BY <1>1, <1>2 DEF EpollAdd

LEMMA EpollModStep ==
  ASSUME EpollInv, NEW s \in Sockets, NEW e \in Requests, EpollMod(s, e)
  PROVE  EpollInv' /\ EpollStep
  <1>1. CASE EpollFails("XT_EINVAL")
    BY <1>1, EpollAlone DEF EpollFails
  <1>2. CASE /\ SlotsOf(s) # {} /\ s \in DOMAIN interest
             /\ interest' = [interest EXCEPT ![s] =
                               [events |-> Fixed(ToEpoll(e)), slot |-> Lowest(SlotsOf(s))]]
             /\ epollRet' = "ok"
             /\ UNCHANGED <<slots, slotCount, reported>>
    <2> DEFINE r == [events |-> Fixed(ToEpoll(e)), slot |-> interest[s].slot]
    <2>1. interest' = [interest EXCEPT ![s] = r]
      BY <1>2, SlotsOfSocket
    <2>2. r \in [events : {Fixed(ToEpoll(x)) : x \in Requests}, slot : DOMAIN slots]
      BY <1>2, SlotsOfSocket
    <2>3. /\ DOMAIN interest' = DOMAIN interest /\ interest'[s] = r
          /\ interest'[s].slot = interest[s].slot /\ interest'[s].events = Fixed(ToEpoll(e))
          /\ \A t \in DOMAIN interest : t # s => interest'[t] = interest[t]
          /\ \A t \in DOMAIN interest : interest'[t].slot = interest[t].slot
      BY <1>2, <2>1 DEF EpollInv
    <2>4. interest' \in [DOMAIN interest' -> [events : {Fixed(ToEpoll(x)) : x \in Requests},
                                              slot : DOMAIN slots]]
      BY <2>1, <2>2, <2>3 DEF EpollInv
    <2>5. EpollInv'
      BY <1>2, <2>3, <2>4 DEF EpollInv, EpollLive
    <2>6. EpollWatch' = [EpollWatch EXCEPT ![s].events = e \cup Implicit]
      <3>1. FromEpoll(Fixed(ToEpoll(e))) = e \cup Implicit
        BY EpollFlagsRoundTrip, PollingAssumption
      <3>2. EpollWatch' = EpollWatched(slots, interest') /\ EpollWatch = EpollWatched(slots, interest)
        BY <1>2, <2>5, WatchFromKernel, WatchFromKernelNext DEF WatchIsKernel
      <3>3. \A t \in DOMAIN interest :
              EpollWatch[t] = [data |-> slots[interest[t].slot].data,
                               events |-> FromEpoll(interest[t].events)]
        BY <3>2 DEF EpollWatched
      <3>4. \A t \in DOMAIN interest :
              EpollWatch'[t] = IF t = s THEN [EpollWatch[t] EXCEPT !.events = e \cup Implicit]
                               ELSE EpollWatch[t]
        BY <2>3, <3>1, <3>2, <3>3 DEF EpollWatched
      <3>5. DOMAIN EpollWatch = DOMAIN interest /\ DOMAIN EpollWatch' = DOMAIN interest
        BY <2>3, <3>2 DEF EpollWatched
      <3>6. EpollWatch = [t \in DOMAIN EpollWatch |-> EpollWatch[t]]
        BY DEF EpollWatch
      <3>7. EpollWatch' = [t \in DOMAIN EpollWatch' |-> EpollWatch'[t]]
        BY DEF EpollWatch
      <3> QED
        BY <1>2, <3>4, <3>5, <3>6, <3>7
    <2>7. EpollReady' = EpollReady
      BY <1>2 DEF EpollReady
    <2>8. s \in DOMAIN EpollWatch
      BY <1>2 DEF EpollWatch
    <2> QED
      BY <2>5, <2>6, <2>7, <2>8 DEF EpollStep, EP!Next, EP!Mod, EP!Implicit, Implicit
  <1> QED
    BY <1>1, <1>2 DEF EpollMod

\* Remove frees the slot: the entries of the ready array that point to it
\* become invalid, and no other does.
LEMMA EpollRemoveByIndexStep ==
  ASSUME EpollInv, NEW i, EpollRemoveByIndex(i)
  PROVE  EpollInv' /\ EpollStep
  <1>1. CASE EpollFails("XT_EINVAL") \/ EpollFails("error")
    BY <1>1, EpollAlone DEF EpollFails
  <1>2. CASE /\ i \in DOMAIN slots /\ slots[i].fd \in DOMAIN interest
             /\ interest' = [s \in DOMAIN interest \ {slots[i].fd} |-> interest[s]]
             /\ slots' = [slots EXCEPT ![i] = NoEntry]
             /\ slotCount' = slotCount - 1
             /\ epollRet' = "ok"
             /\ UNCHANGED reported
    <2> DEFINE s == slots[i].fd
    <2>1. /\ s \in DOMAIN interest /\ s \in Sockets /\ s # Invalid /\ interest[s].slot = i
          /\ EpollLive
      BY <1>2, PollingAssumption DEF EpollInv, EpollRemoveByIndex
    <2>2. NoEntry \in Entry /\ NoEntry.fd = Invalid /\ NoEntry.data = Null
      BY DEF NoEntry, Entry
    <2>3. /\ DOMAIN slots' = DOMAIN slots /\ slots'[i] = NoEntry
          /\ \A j \in DOMAIN slots : j # i => slots'[j] = slots[j]
      BY <1>2 DEF EpollInv
    <2>4. slots' \in [DOMAIN slots' -> Entry]
      BY <1>2, <2>2, <2>3 DEF EpollInv
    <2>5. /\ DOMAIN interest' = DOMAIN interest \ {s}
          /\ \A t \in DOMAIN interest' : interest'[t] = interest[t]
      BY <1>2
    <2>6. interest' \in [DOMAIN interest' -> [events : {Fixed(ToEpoll(x)) : x \in Requests},
                                              slot : DOMAIN slots']]
      BY <1>2, <2>3, <2>5 DEF EpollInv
    <2>7. /\ DOMAIN interest' \subseteq Sockets /\ IsFiniteSet(DOMAIN interest')
          /\ Cardinality(DOMAIN interest') = Cardinality(DOMAIN interest) - 1
          /\ Cardinality(DOMAIN interest') \in Nat
      BY <2>1, <2>5, FS_RemoveElement, FS_CardinalityType DEF EpollInv
    <2>8. \A t \in DOMAIN interest' : interest[t].slot # i /\ interest[t].slot \in DOMAIN slots
      BY <2>1, <2>5 DEF EpollInv
    <2>9. \A t \in DOMAIN interest' : slots'[interest'[t].slot].fd = t
      BY <2>3, <2>5, <2>8 DEF EpollInv
    <2>10. \A j \in DOMAIN slots : j # i => slots[j].fd # s
      BY <2>1 DEF EpollInv
    <2>11. \A j \in DOMAIN slots' :
             slots'[j].fd # Invalid =>
               slots'[j].fd \in DOMAIN interest' /\ interest'[slots'[j].fd].slot = j
      BY <2>2, <2>3, <2>5, <2>10 DEF EpollInv
    <2>12. reported' \in [DOMAIN reported' -> [slot : DOMAIN slots', events : SUBSET EpollFlags]]
      BY <1>2, <2>3 DEF EpollInv
    <2>13. slotCount' = Cardinality(DOMAIN interest') /\ slotCount' \in Nat
      BY <1>2, <2>1, <2>7 DEF EpollInv
    <2>14. EpollInv'
      BY <1>2, <2>3, <2>4, <2>6, <2>7, <2>9, <2>11, <2>12, <2>13 DEF EpollInv
    <2>15. EpollWatch' = [t \in DOMAIN EpollWatch \ {s} |-> EpollWatch[t]]
      <3>1. EpollWatch' = EpollWatched(slots', interest') /\ EpollWatch = EpollWatched(slots, interest)
        BY <2>14, WatchFromKernel, WatchFromKernelNext DEF WatchIsKernel
      <3>2. DOMAIN EpollWatch = DOMAIN interest
        BY <3>1 DEF EpollWatched
      <3>3. \A t \in DOMAIN interest' :
              /\ slots'[interest'[t].slot] = slots[interest[t].slot]
              /\ interest'[t].events = interest[t].events
        BY <2>3, <2>5, <2>8
      <3> QED
        BY <2>5, <3>1, <3>2, <3>3 DEF EpollWatched
    <2>16. EpollReady' = [j \in DOMAIN EpollReady |->
                            IF EpollReady[j].fd = s
                            THEN [fd |-> Invalid, data |-> Null, events |-> EpollReady[j].events]
                            ELSE EpollReady[j]]
      <3>1. DOMAIN EpollReady = DOMAIN reported /\ reported' = reported
        BY <1>2 DEF EpollReady
      <3>2. \A j \in DOMAIN reported : reported[j].slot \in DOMAIN slots
        BY DEF EpollInv
      <3>3. \A j \in DOMAIN reported : EpollReady[j].fd = s <=> reported[j].slot = i
        BY <2>10, <3>2 DEF EpollReady
      <3>4. \A j \in DOMAIN reported :
              [fd |-> slots'[reported[j].slot].fd, data |-> slots'[reported[j].slot].data,
               events |-> FromEpoll(reported[j].events)]
              = IF EpollReady[j].fd = s
                THEN [fd |-> Invalid, data |-> Null, events |-> EpollReady[j].events]
                ELSE EpollReady[j]
        BY <2>2, <2>3, <3>2, <3>3 DEF EpollReady
      <3> HIDE DEF s
      <3> QED
        BY <3>1, <3>4 DEF EpollReady
    <2>17. s \in DOMAIN EpollWatch
      BY <2>1 DEF EpollWatch
    <2>18. EP!Remove(s)
      BY <2>15, <2>16, <2>17 DEF EP!Remove
    <2> QED
      BY <2>1, <2>14, <2>18 DEF EpollStep, EP!Next
  <1> QED
    BY <1>1, <1>2 DEF EpollRemoveByIndex

LEMMA EpollRemoveStep ==
  ASSUME EpollInv, NEW s \in Sockets, EpollRemove(s)
  PROVE  EpollInv' /\ EpollStep
  BY EpollAlone, EpollRemoveByIndexStep DEF EpollRemove, EpollFails

LEMMA EpollSetEventStep ==
  ASSUME EpollInv, NEW s \in Sockets, NEW e \in Requests, EpollSetEvent(s, e)
  PROVE  EpollInv' /\ EpollStep
  <1>1. CASE EpollFails("XT_EINVAL")
    BY <1>1, EpollAlone DEF EpollFails
  <1>2. CASE /\ ReadyAs(s) # {}
             /\ reported' = [reported EXCEPT ![Lowest(ReadyAs(s))].events = ToEpoll(e)]
             /\ epollRet' = "ok"
             /\ UNCHANGED <<slots, slotCount, interest>>
    <2> DEFINE k == Lowest(ReadyAs(s))
               r == [slot |-> reported[k].slot, events |-> ToEpoll(e)]
    <2>1. k \in DOMAIN reported /\ slots[reported[k].slot].fd = s
      <3>1. ReadyAs(s) \in SUBSET Nat
        BY DEF ReadyAs, EpollInv
      <3>2. k \in ReadyAs(s)
        BY <1>2, <3>1, LowestExists
      <3> QED
        BY <3>2 DEF ReadyAs
    <2>2. reported' = [reported EXCEPT ![k].events = ToEpoll(e)]
      BY <1>2
    <2> HIDE DEF k
    <2>3. reported[k] \in [slot : DOMAIN slots, events : SUBSET EpollFlags]
      BY <2>1 DEF EpollInv
    <2>4. [reported[k] EXCEPT !.events = ToEpoll(e)] = r
      BY <2>3
    <2>5. reported' = [reported EXCEPT ![k] = r]
      BY <2>2, <2>4
    <2>6. ToEpoll(e) \in SUBSET EpollFlags /\ FromEpoll(ToEpoll(e)) = e
      BY EpollFlagsRoundTrip, PollingAssumption
    <2>7. /\ DOMAIN reported' = DOMAIN reported /\ reported'[k] = r
          /\ reported'[k].slot = reported[k].slot /\ reported'[k].events = ToEpoll(e)
          /\ \A j \in DOMAIN reported : j # k => reported'[j] = reported[j]
      BY <2>1, <2>5 DEF EpollInv
    <2>8. r \in [slot : DOMAIN slots, events : SUBSET EpollFlags]
      BY <2>3, <2>6
    <2>9. reported' \in [DOMAIN reported' -> [slot : DOMAIN slots, events : SUBSET EpollFlags]]
      BY <2>5, <2>7, <2>8 DEF EpollInv
    <2>10. EpollInv'
      BY <1>2, <2>7, <2>9 DEF EpollInv, EpollLive
    <2>11. EpollWatch' = EpollWatch
      BY <1>2 DEF EpollWatch, SlotsOf
    <2>12. EpollReady' = [EpollReady EXCEPT ![k].events = e]
      <3>1. \A j \in DOMAIN reported :
              EpollReady'[j] = IF j = k THEN [EpollReady[j] EXCEPT !.events = e] ELSE EpollReady[j]
        BY <1>2, <2>6, <2>7 DEF EpollReady
      <3>2. DOMAIN EpollReady' = DOMAIN reported /\ DOMAIN EpollReady = DOMAIN reported
        BY <2>7 DEF EpollReady
      <3>3. EpollReady = [j \in DOMAIN EpollReady |-> EpollReady[j]]
        BY DEF EpollReady
      <3>4. EpollReady' = [j \in DOMAIN EpollReady' |-> EpollReady'[j]]
        BY DEF EpollReady
      <3> QED
        BY <2>1, <3>1, <3>2, <3>3, <3>4
    <2>13. k \in DOMAIN EpollReady /\ EpollReady[k].fd = s
      BY <2>1 DEF EpollReady
    <2>14. EP!SetEvent(s, e)
      BY <2>11, <2>12, <2>13 DEF EP!SetEvent
    <2> QED
      BY <2>10, <2>14 DEF EpollStep, EP!Next
  <1> QED
    BY <1>1, <1>2 DEF EpollSetEvent

\* An event brings back the slot its socket was registered with, and so the
\* socket itself and its data.
LEMMA EpollWaitStep ==
  ASSUME EpollInv, EpollWait
  PROVE  EpollInv' /\ EpollStep
  <1>1. CASE EpollFails("error")
    BY <1>1, EpollAlone DEF EpollFails
  <1>2. CASE /\ \E n \in 0 .. Size :
                   \E order \in [1 .. n -> DOMAIN interest] :
                     /\ \A i, j \in 1 .. n : order[i] = order[j] => i = j
                     /\ \E what \in [1 .. n -> {{"EPOLLIN"}, {"EPOLLRDHUP", "EPOLLERR"}}] :
                          /\ \A i \in 1 .. n : what[i] \subseteq interest[order[i]].events
                          /\ reported' = [i \in 1 .. n |->
                                            [slot |-> interest[order[i]].slot, events |-> what[i]]]
             /\ epollRet' = "ok"
             /\ UNCHANGED <<slots, slotCount, interest>>
    <2>0. PICK n \in 0 .. Size :
            \E order \in [1 .. n -> DOMAIN interest] :
              /\ \A i, j \in 1 .. n : order[i] = order[j] => i = j
              /\ \E what \in [1 .. n -> {{"EPOLLIN"}, {"EPOLLRDHUP", "EPOLLERR"}}] :
                   /\ \A i \in 1 .. n : what[i] \subseteq interest[order[i]].events
                   /\ reported' = [i \in 1 .. n |->
                                     [slot |-> interest[order[i]].slot, events |-> what[i]]]
      BY <1>2
    <2>1. PICK order \in [1 .. n -> DOMAIN interest],
               what \in [1 .. n -> {{"EPOLLIN"}, {"EPOLLRDHUP", "EPOLLERR"}}] :
                 /\ \A i, j \in 1 .. n : order[i] = order[j] => i = j
                 /\ \A i \in 1 .. n : what[i] \subseteq interest[order[i]].events
                 /\ reported' = [i \in 1 .. n |->
                                   [slot |-> interest[order[i]].slot, events |-> what[i]]]
      BY <2>0
    <2>2. n \in Nat /\ 1 .. n \subseteq Nat
      BY <2>1, FS_CardinalityType DEF EpollInv, Size
    <2>3. ASSUME NEW i \in 1 .. n
          PROVE  /\ order[i] \in DOMAIN interest /\ order[i] \in Sockets
                 /\ interest[order[i]].slot \in DOMAIN slots
                 /\ slots[interest[order[i]].slot].fd = order[i]
                 /\ what[i] \subseteq interest[order[i]].events
                 /\ what[i] \in {{"EPOLLIN"}, {"EPOLLRDHUP", "EPOLLERR"}}
      <3>1. order[i] \in DOMAIN interest
        BY <2>1
      <3> QED
        BY <2>1, <3>1 DEF EpollInv
    <2>4. /\ DOMAIN reported' = 1 .. n
          /\ \A i \in 1 .. n : /\ reported'[i] = [slot |-> interest[order[i]].slot, events |-> what[i]]
                               /\ reported'[i].slot = interest[order[i]].slot
                               /\ reported'[i].events = what[i]
      BY <2>1
    <2>5. reported' \in [DOMAIN reported' -> [slot : DOMAIN slots, events : SUBSET EpollFlags]]
      <3>1. \A i \in 1 .. n : [slot |-> interest[order[i]].slot, events |-> what[i]]
                                \in [slot : DOMAIN slots, events : SUBSET EpollFlags]
        BY <2>3 DEF EpollFlags
      <3> QED
        BY <2>1, <2>4, <3>1
    <2>6. EpollInv'
      BY <1>2, <2>2, <2>4, <2>5 DEF EpollInv, EpollLive
    <2>7. EpollWatch' = EpollWatch
      BY <1>2 DEF EpollWatch, SlotsOf
    <2>8. /\ DOMAIN EpollReady' = 1 .. n
          /\ \A i \in 1 .. n :
               /\ EpollReady'[i].fd = order[i]
               /\ EpollReady'[i].data = slots[interest[order[i]].slot].data
               /\ EpollReady'[i].events = FromEpoll(what[i])
      BY <1>2, <2>3, <2>4 DEF EpollReady
    <2>9. ASSUME NEW i \in DOMAIN EpollReady', NEW x, x = EpollReady'[i] PROVE EP!Reports(x)
      <3>1. i \in 1 .. n
        BY <2>8
      <3>2. /\ order[i] \in DOMAIN EpollWatch
            /\ EpollWatch[order[i]] = [data |-> slots[interest[order[i]].slot].data,
                                       events |-> FromEpoll(interest[order[i]].events)]
        BY <2>3, <3>1, WatchFromKernel DEF WatchIsKernel, EpollWatched
      <3>3. FromEpoll(what[i]) # {}
        <4>1. what[i] = {"EPOLLIN"} => "in" \in FromEpoll(what[i])
          BY DEF FromEpoll, Events
        <4>2. what[i] = {"EPOLLRDHUP", "EPOLLERR"} => "err" \in FromEpoll(what[i])
          BY DEF FromEpoll, Events
        <4> QED
          BY <2>3, <3>1, <4>1, <4>2
      <3>4. FromEpoll(what[i]) \subseteq FromEpoll(interest[order[i]].events)
        <4>1. what[i] \subseteq interest[order[i]].events
          BY <2>3, <3>1
        <4> QED
          BY <4>1 DEF FromEpoll, Events
      <3> QED
        BY <2>8, <2>9, <3>1, <3>2, <3>3, <3>4 DEF EP!Reports
    <2>10. \A i, j \in DOMAIN EpollReady' : EpollReady'[i].fd = EpollReady'[j].fd => i = j
      BY <2>1, <2>8
    <2>11. EP!Wait
      BY <2>7, <2>9, <2>10 DEF EP!Wait
    <2> QED
      BY <2>6, <2>11 DEF EpollStep, EP!Next
  <1> QED
    BY <1>1, <1>2 DEF EpollWait

LEMMA EpollNextInv == EpollInv /\ [EpollNext]_epollVars => EpollInv' /\ EpollStep
  <1> SUFFICES ASSUME EpollInv, [EpollNext]_epollVars PROVE EpollInv' /\ EpollStep
    OBVIOUS
  <1>1. CASE UNCHANGED epollVars
    BY <1>1, EpollAlone DEF epollVars, EpollInv
  <1>2. CASE \E n \in PollCapacities : EpollCreate(n)
    BY <1>2, EpollCreateStep
  <1>3. CASE EpollDestroy
    BY <1>3, EpollDestroyStep
  <1>4. CASE \E s \in Sockets :
               EpollRemove(s) \/ \E e \in Requests : EpollMod(s, e) \/ EpollSetEvent(s, e)
    BY <1>4, EpollRemoveStep, EpollModStep, EpollSetEventStep
  <1>5. CASE \E i \in 0 .. Size : EpollRemoveByIndex(i)
    BY <1>5, EpollRemoveByIndexStep
  <1>6. CASE EpollWait
    BY <1>6, EpollWaitStep
  <1>7. CASE Forgotten /\ EpollAddAny
    BY <1>7, EpollAddStep DEF EpollAddAny
  <1> QED
    BY <1>1, <1>2, <1>3, <1>4, <1>5, <1>6, <1>7 DEF EpollNext, EpollCommon

\* What the runs check of the poll set on Linux follows from the invariant.
LEMMA EpollInvMeans == EpollInv => EpollTypeOK /\ SlotsMatchKernel
  <1> SUFFICES ASSUME EpollInv PROVE EpollTypeOK /\ SlotsMatchKernel
    OBVIOUS
  <1>1. EpollTypeOK
    BY DEF EpollTypeOK, EpollInv
  <1>2. SlotsMatchKernel
    BY SlotsOfSocket DEF SlotsMatchKernel, EpollInv
  <1> QED
    BY <1>1, <1>2

\* The table, the ready array and the kernel's set keep their types (EpollTypeOK).
THEOREM EpollTypeCorrect == EpollSpec => []EpollTypeOK
  <1>1. EpollInit => EpollInv
    BY EpollInitInv
  <1>2. EpollInv /\ [EpollNext]_epollVars => EpollInv'
    BY EpollNextInv
  <1>3. EpollInv => EpollTypeOK
    BY EpollInvMeans
  <1> QED
    BY <1>1, <1>2, <1>3, PTL DEF EpollSpec

\* On Linux the slot table and the kernel agree after every call, whichever
\* part of it failed, and count is the number of slots in use
\* (SlotsMatchKernel).
THEOREM SlotsAgreeWithKernel == EpollSpec => []SlotsMatchKernel
  <1>1. EpollInit => EpollInv
    BY EpollInitInv
  <1>2. EpollInv /\ [EpollNext]_epollVars => EpollInv'
    BY EpollNextInv
  <1>3. EpollInv => SlotsMatchKernel
    BY EpollInvMeans
  <1> QED
    BY <1>1, <1>2, <1>3, PTL DEF EpollSpec

\* Every call on a poll set on Linux is a call of PollSet or a stutter: events
\* come for watched sockets, with their own data and for events asked for.
THEOREM EpollIsPollSet == EpollSpec => EpollImplementsPollSet
  <1>1. EpollInit => EpollInv /\ EP!Init
    BY EpollInitInv
  <1>2. EpollInv /\ [EpollNext]_epollVars => EpollInv' /\ [EP!Next]_(EP!pollSetVars)
    BY EpollNextInv DEF EpollStep, EP!pollSetVars
  <1> QED
    BY <1>1, <1>2, PTL DEF EpollSpec, EpollImplementsPollSet, EP!Spec
-----------------------------------------------------------------------------
(***************************************************************************)
(* Windows.                                                                *)
(***************************************************************************)
WsaFlags == {"POLLRDNORM", "POLLWRNORM", "POLLERR", "POLLHUP"}

FdEntry == [fd : Sockets \cup {Invalid}, data : Data \cup {Null}, events : SUBSET WsaFlags]

\* The flags WSAPoll refuses are the ones that are implied.
LEMMA WsaFlagsRoundTrip ==
  ASSUME NEW e \in SUBSET Events
  PROVE  /\ Allowed(ToWsa(e)) \in SUBSET WsaFlags
         /\ FromWsa(Allowed(ToWsa(e))) \cup Implicit = e \cup Implicit
  BY DEF Events, WsaFlags, ToWsa, FromWsa, Allowed, Implicit

\* The k-th index of a set of indices, as Wait finds it by scanning.
NthOf(R, k) == CHOOSE i \in R : Cardinality({j \in R : j <= i}) = k

LEMMA NthExists ==
  ASSUME NEW n \in Nat, NEW R \in SUBSET (0 .. n), NEW k \in 1 .. Cardinality(R)
  PROVE  NthOf(R, k) \in R /\ Cardinality({j \in R : j <= NthOf(R, k)}) = k
  <1> DEFINE upto(i) == {j \in R : j <= i}
             r == [i \in R |-> Cardinality(upto(i))]
  <1>1. IsFiniteSet(R) /\ Cardinality(R) \in Nat /\ \A x \in R : x \in Int
    <2>1. IsFiniteSet(0 .. n)
      BY FS_Interval
    <2>2. IsFiniteSet(R)
      BY <2>1, FS_Subset
    <2> QED
      BY <2>2, FS_CardinalityType
  <1>2. ASSUME NEW i \in R
        PROVE  /\ IsFiniteSet(upto(i)) /\ Cardinality(upto(i)) \in 1 .. Cardinality(R)
    <2>1. upto(i) \in SUBSET R /\ i \in upto(i)
      OBVIOUS
    <2>2. IsFiniteSet(upto(i)) /\ Cardinality(upto(i)) <= Cardinality(R)
      BY <1>1, <2>1, FS_Subset
    <2>3. Cardinality(upto(i)) \in Nat /\ Cardinality(upto(i)) # 0
      BY <2>1, <2>2, FS_CardinalityType, FS_EmptySet
    <2> HIDE DEF upto
    <2> QED
      BY <1>1, <2>2, <2>3
  <1>3. ASSUME NEW i \in R, NEW j \in R, i < j PROVE Cardinality(upto(i)) # Cardinality(upto(j))
    <2>1. /\ \A x \in R : x <= i => x <= j
          /\ j <= j /\ ~ (j <= i)
      BY <1>1, <1>3
    <2>2. upto(i) \in SUBSET upto(j) /\ j \in upto(j) /\ j \notin upto(i)
      BY <2>1
    <2> QED
      BY <1>2, <2>2, FS_Subset
  <1>4. \A i, j \in R : Cardinality(upto(i)) = Cardinality(upto(j)) => i = j
    <2>1. \A i, j \in R : i = j \/ i < j \/ j < i
      OBVIOUS
    <2> HIDE DEF upto
    <2> QED
      BY <1>3, <2>1
  <1>5. r \in [R -> 1 .. Cardinality(R)] /\ \A i \in R : r[i] = Cardinality(upto(i))
    <2> HIDE DEF upto
    <2> QED
      BY <1>2
  <1>6. r \in Injection(R, 1 .. Cardinality(R))
    <2> HIDE DEF upto, r
    <2> QED
      BY <1>4, <1>5 DEF Injection, IsInjective
  <1>7. IsFiniteSet(1 .. Cardinality(R)) /\ Cardinality(1 .. Cardinality(R)) = Cardinality(R)
    BY <1>1, FS_Interval
  <1>8. r \in Surjection(R, 1 .. Cardinality(R))
    <2> HIDE DEF upto, r
    <2> QED
      BY <1>6, <1>7, FS_Injection
  <1>9. \E i \in R : r[i] = k
    <2> HIDE DEF upto, r
    <2> QED
      BY <1>8 DEF Surjection
  <1> QED
    BY <1>5, <1>9 DEF NthOf

(***************************************************************************)
(* The inductive invariant.  Next to Compact it says that no socket is     *)
(* twice in the ready array, of which Remove invalidates the first entry   *)
(* only, and that the array is empty or all of it is ready: a Wait on an   *)
(* empty set leaves old entries behind with a number of 0.                 *)
(***************************************************************************)
WsaInv ==
  /\ FdCapacity \in Nat /\ DOMAIN fds = 0 .. FdCapacity - 1
  /\ fds \in [DOMAIN fds -> FdEntry]
  /\ fdCount \in Nat
  /\ WsaLive => fdCount <= FdCapacity
  /\ \A i \in DOMAIN fds : fds[i].fd = Invalid <=> i >= fdCount
  /\ \A i, j \in DOMAIN fds : fds[i].fd # Invalid /\ fds[i].fd = fds[j].fd => i = j
  /\ overread = FALSE
  /\ readyData \in Seq(ReadyEntry)
  /\ socketsReady \in {0, Len(readyData)}
  /\ \A i, j \in DOMAIN readyData :
       readyData[i].fd # Invalid /\ readyData[i].fd = readyData[j].fd => i = j
  /\ ~WsaLive => readyData = << >>
  /\ wsaRet \in {"ok", "error", "XT_ENOBUFS", "XT_ENOENT", "XT_EINVAL"}

WsaWatchNow == IF WsaLive THEN WsaWatch ELSE << >>

WsaReadyNow == SubSeq(readyData, 1, socketsReady)

WsaStep == [WP!Next]_<<WsaWatchNow, WsaReadyNow>>

\* A live poll set in terms of its array.
LEMMA WsaBefore ==
  ASSUME WsaInv, WsaLive
  PROVE  /\ FdCapacity \in Nat /\ fdCount \in Nat /\ fdCount <= FdCapacity
         /\ DOMAIN fds = 0 .. FdCapacity - 1
         /\ \A i \in DOMAIN fds : /\ fds[i] \in FdEntry /\ i \in Nat
                                  /\ fds[i].fd = Invalid <=> i >= fdCount
         /\ \A i \in 0 .. fdCount - 1 : i \in DOMAIN fds /\ fds[i].fd \in Sockets
  BY DEF WsaInv, FdEntry

\* A socket is in one of the first `count' entries or in none.
LEMMA FdsOfSocket ==
  ASSUME WsaInv, NEW s \in Sockets, FdsOf(s) # {}
  PROVE  /\ FdsOf(s) = {Lowest(FdsOf(s))}
         /\ Lowest(FdsOf(s)) \in DOMAIN fds /\ fds[Lowest(FdsOf(s))].fd = s
         /\ Lowest(FdsOf(s)) \in 0 .. fdCount - 1 /\ WsaLive
  <1>1. s # Invalid
    BY PollingAssumption
  <1>2. FdsOf(s) \in SUBSET Nat
    BY DEF FdsOf, WsaInv
  <1>3. Lowest(FdsOf(s)) \in FdsOf(s)
    BY <1>2, LowestExists
  <1>4. Lowest(FdsOf(s)) \in DOMAIN fds /\ fds[Lowest(FdsOf(s))].fd = s /\ WsaLive
    BY <1>3 DEF FdsOf, WsaLive
  <1>5. \A i \in FdsOf(s) : i = Lowest(FdsOf(s))
    BY <1>1, <1>4 DEF FdsOf, WsaInv
  <1>6. Lowest(FdsOf(s)) \in 0 .. fdCount - 1
    <2>1. Lowest(FdsOf(s)) \in Nat /\ ~ (Lowest(FdsOf(s)) >= fdCount)
      BY <1>1, <1>4, WsaBefore
    <2> QED
      BY <1>4, <2>1, WsaBefore
  <1> QED
    BY <1>3, <1>4, <1>5, <1>6

LEMMA FdsOfEntry ==
  ASSUME WsaInv, WsaLive, NEW i \in 0 .. fdCount - 1
  PROVE  FdsOf(fds[i].fd) = {i} /\ Lowest(FdsOf(fds[i].fd)) = i
  <1>1. i \in DOMAIN fds /\ fds[i].fd \in Sockets /\ i \in Nat
    BY WsaBefore
  <1>2. FdsOf(fds[i].fd) = {i}
    BY <1>1, PollingAssumption DEF FdsOf, WsaInv
  <1> QED
    BY <1>1, <1>2, LowestOfOne

\* The mapped variables.
WatchTells ==
  WsaLive =>
    /\ WsaWatchNow = [s \in {fds[i].fd : i \in 0 .. fdCount - 1} |-> WsaWatchNow[s]]
    /\ \A i \in 0 .. fdCount - 1 :
         WsaWatchNow[fds[i].fd] = [data |-> fds[i].data,
                                   events |-> FromWsa(fds[i].events) \cup Implicit]

LEMMA WatchFromArray == WsaInv => WatchTells
  <1> SUFFICES ASSUME WsaInv, WsaLive PROVE WatchTells
    BY DEF WatchTells
  <1> DEFINE D == {fds[i].fd : i \in 0 .. fdCount - 1}
             F(s) == [data |-> fds[Lowest(FdsOf(s))].data,
                      events |-> FromWsa(fds[Lowest(FdsOf(s))].events) \cup Implicit]
  <1>1. WsaWatchNow = [s \in D |-> F(s)]
    BY DEF WsaWatchNow, WsaWatch
  <1>2. \A i \in 0 .. fdCount - 1 :
          fds[i].fd \in D /\ F(fds[i].fd) = [data |-> fds[i].data,
                                             events |-> FromWsa(fds[i].events) \cup Implicit]
    BY FdsOfEntry
  <1> HIDE DEF F
  <1> QED
    BY <1>1, <1>2 DEF WatchTells

LEMMA WatchFromArrayNext == WsaInv' => WatchTells'
  BY WatchFromArray, PTL

\* What a call has to say of the array to say what is watched afterwards.
LEMMA WatchBecomes ==
  ASSUME WsaInv', WsaLive', NEW D, NEW G, G = [t \in D |-> G[t]],
         D = {fds'[i].fd : i \in 0 .. fdCount' - 1},
         \A i \in 0 .. fdCount' - 1 :
           G[fds'[i].fd] = [data |-> fds'[i].data,
                            events |-> FromWsa(fds'[i].events) \cup Implicit]
  PROVE  WsaWatchNow' = G
  <1>1. /\ WsaWatchNow' = [s \in D |-> WsaWatchNow'[s]]
        /\ \A i \in 0 .. fdCount' - 1 :
             WsaWatchNow'[fds'[i].fd] = [data |-> fds'[i].data,
                                         events |-> FromWsa(fds'[i].events) \cup Implicit]
    BY WatchFromArrayNext DEF WatchTells
  <1>2. ASSUME NEW s \in D PROVE WsaWatchNow'[s] = G[s]
    <2>1. PICK i \in 0 .. fdCount' - 1 : s = fds'[i].fd
      OBVIOUS
    <2> QED
      BY <1>1, <2>1
  <1> QED
    BY <1>1, <1>2

ReadyTells == WsaReadyNow = IF socketsReady = 0 THEN << >> ELSE readyData

LEMMA ReadyFromArray == WsaInv => ReadyTells
  <1> SUFFICES ASSUME WsaInv PROVE ReadyTells
    OBVIOUS
  <1>1. CASE socketsReady = 0
    BY <1>1, SubSeqEmpty DEF ReadyTells, WsaReadyNow
  <1>2. CASE socketsReady # 0
    BY <1>2, SubSeqFull DEF ReadyTells, WsaReadyNow, WsaInv
  <1> QED
    BY <1>1, <1>2

LEMMA ReadyFromArrayNext ==
  WsaInv' => WsaReadyNow' = IF socketsReady' = 0 THEN << >> ELSE readyData'
  <1>1. WsaInv' => ReadyTells'
    BY ReadyFromArray, PTL
  <1> QED
    BY <1>1 DEF ReadyTells

LEMMA WsaInitInv == WsaInit => WsaInv /\ WP!Init
  <1> SUFFICES ASSUME WsaInit PROVE WsaInv /\ WP!Init
    OBVIOUS
  <1>1. DOMAIN fds = {} /\ readyData = << >> /\ socketsReady = 0 /\ fds = [i \in {} |-> 0]
    BY DEF WsaInit
  <1>2. FdCapacity = 0 /\ ~WsaLive
    BY <1>1, FS_EmptySet DEF FdCapacity, WsaLive
  <1>3. 0 .. FdCapacity - 1 = {}
    BY <1>2
  <1>4. WsaInv
    BY <1>1, <1>2, <1>3, EmptySeq DEF WsaInv, WsaInit
  <1>5. WsaWatchNow = << >> /\ WsaReadyNow = << >>
    BY <1>1, <1>2, <1>4, ReadyFromArray DEF WsaWatchNow, ReadyTells
  <1> QED
    BY <1>4, <1>5 DEF WP!Init, WsaWatchNow, WsaReadyNow

\* A call that changes nothing.
LEMMA WsaAlone ==
  ASSUME WsaInv, UNCHANGED <<fds, fdCount, readyData, socketsReady, overread>>,
         wsaRet' \in {"ok", "error", "XT_ENOBUFS", "XT_ENOENT", "XT_EINVAL"}
  PROVE  WsaInv' /\ WsaStep
  <1>1. WsaInv'
    BY DEF WsaInv, WsaLive, FdCapacity
  <1>2. WsaWatchNow' = WsaWatchNow /\ WsaReadyNow' = WsaReadyNow
    BY DEF WsaWatchNow, WsaReadyNow, WsaLive, WsaWatch, FdsOf
  <1> QED
    BY <1>1, <1>2 DEF WsaStep

LEMMA WsaCreateStep ==
  ASSUME WsaInv, NEW n \in PollCapacities, WsaCreate(n)
  PROVE  WsaInv' /\ WsaStep
  <1>1. CASE wsaRet' = "error" /\ UNCHANGED <<fds, fdCount, readyData, socketsReady>>
    BY <1>1, WsaAlone DEF WsaCreate
  <1>2. CASE /\ fds' = [i \in 0 .. Clamped(n) - 1 |-> NoFd]
             /\ fdCount' = 0 /\ readyData' = << >> /\ socketsReady' = 0
             /\ wsaRet' = "ok"
    <2>1. Clamped(n) \in Nat /\ Clamped(n) - 1 \in Int /\ Clamped(n) # 0
      BY PollingAssumption DEF Clamped
    <2>2. /\ DOMAIN fds' = 0 .. Clamped(n) - 1
          /\ \A i \in DOMAIN fds' : fds'[i] = NoFd
      BY <1>2
    <2>3. FdCapacity' = Clamped(n)
      BY <2>1, <2>2, FS_Interval DEF FdCapacity
    <2>4. NoFd \in FdEntry /\ NoFd.fd = Invalid
      BY DEF NoFd, FdEntry
    <2>5. fds' \in [DOMAIN fds' -> FdEntry]
      BY <1>2, <2>2, <2>4
    <2>6. /\ \A i \in DOMAIN fds' : fds'[i].fd = Invalid /\ i >= fdCount'
          /\ fdCount' <= FdCapacity' /\ fdCount' \in Nat
      BY <1>2, <2>1, <2>2, <2>3, <2>4
    <2>7. WsaLive'
      BY <2>1, <2>2 DEF WsaLive
    <2>8. overread' = FALSE
      BY DEF WsaCreate, WsaInv
    <2>9. readyData' \in Seq(ReadyEntry) /\ Len(readyData') = 0 /\ DOMAIN readyData' = {}
      BY <1>2, EmptySeq
    <2>10. WsaInv'
      BY <1>2, <2>1, <2>2, <2>3, <2>5, <2>6, <2>7, <2>8, <2>9 DEF WsaInv
    <2>11. WsaWatchNow' = << >>
      <3>1. {fds'[i].fd : i \in 0 .. fdCount' - 1} = {}
        BY <1>2
      <3>2. WsaWatchNow' = [s \in {fds'[i].fd : i \in 0 .. fdCount' - 1} |-> WsaWatchNow'[s]]
        BY <2>7, <2>10, WatchFromArrayNext DEF WatchTells
      <3>3. WsaWatchNow' = [s \in {} |-> WsaWatchNow'[s]]
        BY <3>1, <3>2
      <3> QED
        BY <3>3
    <2>12. WsaReadyNow' = << >>
      BY <1>2, <2>10, ReadyFromArrayNext
    <2>13. WsaWatchNow = << >> /\ readyData = << >>
      BY DEF WsaWatchNow, WsaCreate, WsaInv
    <2>14. WsaReadyNow = << >>
      BY <2>13, ReadyFromArray DEF ReadyTells
    <2> QED
      BY <2>10, <2>11, <2>12, <2>13, <2>14 DEF WsaStep
  <1> QED
    BY <1>1, <1>2 DEF WsaCreate

LEMMA WsaDestroyStep ==
  ASSUME WsaInv, WsaDestroy
  PROVE  WsaInv' /\ WsaStep
  <1>1. /\ DOMAIN fds' = {} /\ fds' = [i \in {} |-> 0] /\ readyData' = << >>
        /\ socketsReady' = 0 /\ wsaRet' = "ok" /\ fdCount' = fdCount /\ overread' = overread
    BY DEF WsaDestroy
  <1>2. FdCapacity' = 0 /\ ~WsaLive'
    BY <1>1, FS_EmptySet DEF FdCapacity, WsaLive
  <1>3. 0 .. FdCapacity' - 1 = {}
    BY <1>2
  <1>4. readyData' \in Seq(ReadyEntry) /\ DOMAIN readyData' = {}
    BY <1>1, EmptySeq
  <1>5. WsaInv'
    BY <1>1, <1>2, <1>3, <1>4 DEF WsaInv
  <1>6. WsaWatchNow' = << >> /\ WsaReadyNow' = << >>
    BY <1>1, <1>2, <1>5, ReadyFromArrayNext DEF WsaWatchNow
  <1>7. WP!Close
    BY <1>6 DEF WP!Close, WsaWatchNow, WsaReadyNow
  <1> QED
    BY <1>5, <1>7 DEF WsaStep, WP!Next, WsaWatchNow, WsaReadyNow

\* Add fills the entry behind the watched ones.
LEMMA WsaAddStep ==
  ASSUME WsaInv, NEW s \in Sockets, NEW d \in Data, NEW e \in Requests, WsaAdd(s, d, e)
  PROVE  WsaInv' /\ WsaStep
  <1>1. CASE WsaFails("XT_ENOBUFS")
    BY <1>1, WsaAlone DEF WsaFails
  <1>2. CASE /\ fdCount # FdCapacity
             /\ \A i \in FdsOf(s) : i >= fdCount
             /\ fds' = [fds EXCEPT ![fdCount] =
                          [fd |-> s, data |-> d, events |-> Allowed(ToWsa(e))]]
             /\ fdCount' = fdCount + 1
             /\ wsaRet' = "ok"
             /\ UNCHANGED <<readyData, socketsReady, overread>>
    <2> DEFINE r == [fd |-> s, data |-> d, events |-> Allowed(ToWsa(e))]
               D == {fds[i].fd : i \in 0 .. fdCount - 1}
               G == [t \in D \cup {s} |-> IF t = s THEN [data |-> d, events |-> e \cup Implicit]
                                          ELSE WsaWatchNow[t]]
    <2>1. WsaLive /\ s # Invalid
      BY PollingAssumption DEF WsaAdd
    <2>2. /\ fdCount \in DOMAIN fds /\ fdCount + 1 <= FdCapacity
          /\ \A i \in 0 .. fdCount - 1 : i \in DOMAIN fds /\ i # fdCount
          /\ \A i \in 0 .. fdCount : i = fdCount \/ i \in 0 .. fdCount - 1
          /\ fdCount \in 0 .. fdCount /\ (fdCount + 1) - 1 = fdCount
          /\ 0 .. fdCount - 1 \subseteq 0 .. fdCount
      BY <1>2, <2>1, WsaBefore
    <2>3. /\ Allowed(ToWsa(e)) \in SUBSET WsaFlags
          /\ FromWsa(Allowed(ToWsa(e))) \cup Implicit = e \cup Implicit
      BY WsaFlagsRoundTrip, PollingAssumption
    <2>4. /\ DOMAIN fds' = DOMAIN fds /\ fds'[fdCount] = r
          /\ fds'[fdCount].fd = s /\ fds'[fdCount].data = d
          /\ fds'[fdCount].events = Allowed(ToWsa(e))
          /\ \A i \in DOMAIN fds : i # fdCount => fds'[i] = fds[i]
      BY <1>2, <2>2 DEF WsaInv
    <2>5. fds' \in [DOMAIN fds' -> FdEntry]
      <3>1. r \in FdEntry
        BY <2>3 DEF FdEntry
      <3> QED
        BY <1>2, <2>4, <3>1 DEF WsaInv
    <2>6. \A i \in 0 .. fdCount - 1 : fds[i].fd # s
      BY <1>2, <2>1, <2>2, WsaBefore DEF FdsOf
    <2>7. \A i \in DOMAIN fds' : fds'[i].fd = Invalid <=> i >= fdCount'
      <3>1. ASSUME NEW i \in DOMAIN fds, i # fdCount
            PROVE  i >= fdCount <=> i >= fdCount + 1
        BY <2>1, <3>1, WsaBefore
      <3>2. ~ (fdCount >= fdCount + 1)
        BY <2>1, WsaBefore
      <3> QED
        BY <1>2, <2>1, <2>4, <3>1, <3>2, WsaBefore
    <2>8. \A i \in DOMAIN fds : fds[i].fd # s
      BY <2>1, <2>6, WsaBefore
    <2>9. \A i, j \in DOMAIN fds' : fds'[i].fd # Invalid /\ fds'[i].fd = fds'[j].fd => i = j
      BY <2>4, <2>8 DEF WsaInv
    <2>10. FdCapacity' = FdCapacity /\ WsaLive'
      BY <2>1, <2>4 DEF FdCapacity, WsaLive
    <2>11. fdCount' \in Nat
      BY <1>2, <2>1, WsaBefore
    <2>12. WsaInv'
      BY <1>2, <2>2, <2>4, <2>5, <2>7, <2>9, <2>10, <2>11 DEF WsaInv
    <2>13. WsaWatchNow' = G
      <3>1. D \cup {s} = {fds'[i].fd : i \in 0 .. fdCount' - 1}
        BY <1>2, <2>2, <2>4
      <3>2. ASSUME NEW i \in 0 .. fdCount' - 1
            PROVE  G[fds'[i].fd] = [data |-> fds'[i].data,
                                    events |-> FromWsa(fds'[i].events) \cup Implicit]
        <4>1. CASE i = fdCount
          BY <2>3, <2>4, <4>1
        <4>2. CASE i # fdCount
          <5>1. i \in 0 .. fdCount - 1 /\ fds'[i] = fds[i] /\ fds[i].fd # s
            BY <1>2, <2>2, <2>4, <2>6, <4>2
          <5>2. WsaWatchNow[fds[i].fd] = [data |-> fds[i].data,
                                          events |-> FromWsa(fds[i].events) \cup Implicit]
            BY <2>1, <5>1, WatchFromArray DEF WatchTells
          <5> QED
            BY <5>1, <5>2
        <4> QED
          BY <4>1, <4>2
      <3>3. G = [t \in D \cup {s} |-> G[t]]
        OBVIOUS
      <3> HIDE DEF G, D
      <3> QED
        BY <2>10, <2>12, <3>1, <3>2, <3>3, WatchBecomes
    <2>14. DOMAIN WsaWatchNow = D
      BY <2>1, WatchFromArray DEF WatchTells
    <2>15. s \notin DOMAIN WsaWatchNow
      BY <2>6, <2>14
    <2>16. WsaReadyNow' = WsaReadyNow
      BY <1>2 DEF WsaReadyNow
    <2>17. WsaWatchNow' = [t \in DOMAIN WsaWatchNow \cup {s} |->
                             IF t = s THEN [data |-> d, events |-> e \cup Implicit]
                             ELSE WsaWatchNow[t]]
      BY <2>13, <2>14
    <2>18. WP!Add(s, d, e)
      BY <2>15, <2>16, <2>17 DEF WP!Add, WP!Implicit, Implicit, WsaWatchNow, WsaReadyNow
    <2> QED
      BY <2>12, <2>18 DEF WsaStep, WP!Next, WsaWatchNow, WsaReadyNow
  <1> QED
    BY <1>1, <1>2 DEF WsaAdd

LEMMA EventsReplaced ==
  ASSUME NEW w, NEW a, NEW b, NEW c, w = [data |-> a, events |-> b]
  PROVE  [w EXCEPT !.events = c] = [data |-> a, events |-> c]
  OBVIOUS

LEMMA WsaModStep ==
  ASSUME WsaInv, NEW s \in Sockets, NEW e \in Requests, WsaMod(s, e)
  PROVE  WsaInv' /\ WsaStep
  <1>1. CASE WsaFails("XT_EINVAL")
    BY <1>1, WsaAlone DEF WsaFails
  <1>2. CASE /\ FdsOf(s) # {}
             /\ fds' = [fds EXCEPT ![Lowest(FdsOf(s))].events = Allowed(ToWsa(e))]
             /\ wsaRet' = "ok"
             /\ UNCHANGED <<fdCount, readyData, socketsReady, overread>>
    <2> DEFINE k == Lowest(FdsOf(s))
               r == [fd |-> fds[k].fd, data |-> fds[k].data, events |-> Allowed(ToWsa(e))]
               D == {fds[i].fd : i \in 0 .. fdCount - 1}
               G == [WsaWatchNow EXCEPT ![s].events = e \cup Implicit]
    <2>1. k \in DOMAIN fds /\ fds[k].fd = s /\ k \in 0 .. fdCount - 1 /\ WsaLive
      BY <1>2, FdsOfSocket
    <2>2. fds' = [fds EXCEPT ![k].events = Allowed(ToWsa(e))]
      BY <1>2
    <2> HIDE DEF k
    <2>3. fds[k] \in FdEntry
      BY <2>1 DEF WsaInv
    <2>4. [fds[k] EXCEPT !.events = Allowed(ToWsa(e))] = r
      BY <2>3 DEF FdEntry
    <2>5. fds' = [fds EXCEPT ![k] = r]
      BY <2>2, <2>4
    <2>6. /\ Allowed(ToWsa(e)) \in SUBSET WsaFlags
          /\ FromWsa(Allowed(ToWsa(e))) \cup Implicit = e \cup Implicit
      BY WsaFlagsRoundTrip, PollingAssumption
    <2>7. /\ DOMAIN fds' = DOMAIN fds /\ fds'[k] = r
          /\ \A i \in DOMAIN fds : fds'[i].fd = fds[i].fd /\ fds'[i].data = fds[i].data
          /\ fds'[k].events = Allowed(ToWsa(e))
          /\ \A i \in DOMAIN fds : i # k => fds'[i] = fds[i]
      BY <2>1, <2>5 DEF WsaInv
    <2>8. fds' \in [DOMAIN fds' -> FdEntry]
      <3>1. r \in FdEntry
        BY <2>3, <2>6 DEF FdEntry
      <3> QED
        BY <2>5, <2>7, <3>1 DEF WsaInv
    <2>9. FdCapacity' = FdCapacity /\ WsaLive'
      BY <2>1, <2>7 DEF FdCapacity, WsaLive
    <2>10. WsaInv'
      <3>1. \A i \in DOMAIN fds' : fds'[i].fd = Invalid <=> i >= fdCount'
        BY <1>2, <2>7 DEF WsaInv
      <3>2. \A i, j \in DOMAIN fds' :
              fds'[i].fd # Invalid /\ fds'[i].fd = fds'[j].fd => i = j
        BY <2>7 DEF WsaInv
      <3>3. /\ fdCount' = fdCount /\ readyData' = readyData
            /\ socketsReady' = socketsReady /\ overread' = overread
        BY <1>2
      <3> QED
        BY <1>2, <2>1, <2>7, <2>8, <2>9, <3>1, <3>2, <3>3 DEF WsaInv
    <2>11. /\ WsaWatchNow = [t \in D |-> WsaWatchNow[t]]
           /\ \A i \in 0 .. fdCount - 1 :
                WsaWatchNow[fds[i].fd] = [data |-> fds[i].data,
                                          events |-> FromWsa(fds[i].events) \cup Implicit]
      BY <2>1, WatchFromArray DEF WatchTells
    <2>12. s \in D /\ DOMAIN WsaWatchNow = D
      BY <2>1, <2>11
    <2>13. WsaWatchNow' = G
      <3>1. D = {fds'[i].fd : i \in 0 .. fdCount' - 1}
        BY <1>2, <2>1, <2>7, WsaBefore
      <3>2. /\ G = [t \in D |-> G[t]]
            /\ \A t \in D : G[t] = IF t = s
                                   THEN [WsaWatchNow[t] EXCEPT !.events = e \cup Implicit]
                                   ELSE WsaWatchNow[t]
        BY <2>12
      <3>3. ASSUME NEW i \in 0 .. fdCount' - 1
            PROVE  G[fds'[i].fd] = [data |-> fds'[i].data,
                                    events |-> FromWsa(fds'[i].events) \cup Implicit]
        <4>1. i \in 0 .. fdCount - 1 /\ i \in DOMAIN fds /\ fds[i].fd \in D /\ fds[i].fd # Invalid
          BY <1>2, <2>1, WsaBefore, PollingAssumption
        <4>2. CASE i = k
          <5>1. WsaWatchNow[s] = [data |-> fds[k].data,
                                  events |-> FromWsa(fds[k].events) \cup Implicit]
            BY <2>1, <2>11
          <5>2. [WsaWatchNow[s] EXCEPT !.events = e \cup Implicit]
                  = [data |-> fds[k].data, events |-> e \cup Implicit]
            <6> DEFINE w == WsaWatchNow[s]
                       a == fds[k].data
                       b == FromWsa(fds[k].events) \cup Implicit
                       c == e \cup Implicit
            <6>1. w = [data |-> a, events |-> b]
              BY <5>1
            <6> HIDE DEF w, a, b, c
            <6>2. [w EXCEPT !.events = c] = [data |-> a, events |-> c]
              BY <6>1, EventsReplaced
            <6> QED
              BY <6>2 DEF w, a, c
          <5>3. G[s] = [data |-> fds[k].data, events |-> e \cup Implicit]
            BY <2>12, <3>2, <5>2
          <5> QED
            BY <2>1, <2>6, <2>7, <4>2, <5>3
        <4>3. CASE i # k
          <5>1. fds[i].fd # s
            BY <2>1, <4>1, <4>3 DEF WsaInv
          <5> QED
            BY <2>7, <2>11, <3>2, <4>1, <4>3, <5>1
        <4> QED
          BY <4>2, <4>3
      <3>4. G = [t \in D |-> G[t]]
        BY <3>2
      <3> HIDE DEF G, D
      <3> QED
        BY <2>9, <2>10, <3>1, <3>3, <3>4, WatchBecomes
    <2>14. WsaReadyNow' = WsaReadyNow
      BY <1>2 DEF WsaReadyNow
    <2>15. WP!Mod(s, e)
      BY <2>12, <2>13, <2>14 DEF WP!Mod, WP!Implicit, Implicit, WsaWatchNow, WsaReadyNow
    <2> QED
      BY <2>10, <2>15 DEF WsaStep, WP!Next, WsaWatchNow, WsaReadyNow
  <1> QED
    BY <1>1, <1>2 DEF WsaMod

LEMMA ReadyEventsReplaced ==
  ASSUME NEW x \in ReadyEntry, NEW c
  PROVE  [x EXCEPT !.events = c] = [fd |-> x.fd, data |-> x.data, events |-> c]
  BY DEF ReadyEntry

LEMMA ReadyInvalidated ==
  ASSUME NEW x \in ReadyEntry
  PROVE  /\ [x EXCEPT !.fd = Invalid, !.data = Null]
              = [fd |-> Invalid, data |-> Null, events |-> x.events]
         /\ [fd |-> Invalid, data |-> Null, events |-> x.events] \in ReadyEntry
  <1>1. [fd |-> Invalid, data |-> Null, events |-> x.events] \in ReadyEntry
    BY DEF ReadyEntry
  <1>2. x = [fd |-> x.fd, data |-> x.data, events |-> x.events]
    BY DEF ReadyEntry
  <1> DEFINE a == x.fd
             b == x.data
             c == x.events
  <1>3. x = [fd |-> a, data |-> b, events |-> c]
    BY <1>2
  <1> HIDE DEF a, b, c
  <1>4. [x EXCEPT !.fd = Invalid, !.data = Null] = [fd |-> Invalid, data |-> Null, events |-> c]
    <2> DEFINE y == [x EXCEPT !.fd = Invalid]
    <2>1. y = [fd |-> Invalid, data |-> b, events |-> c]
      BY <1>3
    <2>2. [x EXCEPT !.fd = Invalid, !.data = Null] = [y EXCEPT !.data = Null]
      BY <1>3
    <2> HIDE DEF y
    <2> QED
      BY <2>1, <2>2
  <1> QED
    BY <1>1, <1>4 DEF c

LEMMA WsaSetEventStep ==
  ASSUME WsaInv, NEW s \in Sockets, WsaSetEvent(s, {})
  PROVE  WsaInv' /\ WsaStep
  <1>1. CASE WsaFails("XT_EINVAL")
    BY <1>1, WsaAlone DEF WsaFails
  <1>2. CASE /\ ReadyOf(s) # {}
             /\ readyData' = [readyData EXCEPT ![Lowest(ReadyOf(s))].events =
                                SameBits(ToWsa({}))]
             /\ wsaRet' = "ok"
             /\ UNCHANGED <<fds, fdCount, socketsReady, overread>>
    <2> DEFINE k == Lowest(ReadyOf(s))
               r == [fd |-> readyData[k].fd, data |-> readyData[k].data, events |-> {}]
    <2>1. k \in DOMAIN readyData /\ readyData[k].fd = s
      <3>1. ReadyOf(s) \in SUBSET Nat
        BY DEF ReadyOf, WsaInv
      <3> QED
        BY <1>2, <3>1, LowestExists DEF ReadyOf
    <2>2. SameBits(ToWsa({})) = {}
      BY DEF SameBits, ToWsa
    <2>3. readyData' = [readyData EXCEPT ![k].events = {}]
      BY <1>2, <2>2
    <2> HIDE DEF k
    <2>4. readyData[k] \in ReadyEntry /\ readyData \in Seq(ReadyEntry)
      BY <2>1 DEF WsaInv
    <2>5. [readyData[k] EXCEPT !.events = {}] = r
      <3> DEFINE x == readyData[k]
                 c == {}
      <3>1. x \in ReadyEntry
        BY <2>4
      <3> HIDE DEF x, c
      <3>2. [x EXCEPT !.events = c] = [fd |-> x.fd, data |-> x.data, events |-> c]
        BY <3>1, ReadyEventsReplaced
      <3> QED
        BY <3>2 DEF x, c
    <2>6. readyData' = [readyData EXCEPT ![k] = r]
      BY <2>3, <2>5
    <2>7. r \in ReadyEntry
      BY <2>4 DEF ReadyEntry
    <2> HIDE DEF r
    <2>8. readyData' \in Seq(ReadyEntry) /\ Len(readyData') = Len(readyData)
      BY <2>1, <2>4, <2>6, <2>7, ExceptSeq
    <2>9. /\ DOMAIN readyData' = DOMAIN readyData /\ readyData'[k] = r
          /\ \A i \in DOMAIN readyData : i # k => readyData'[i] = readyData[i]
      BY <2>1, <2>6
    <2>10. r.fd = readyData[k].fd /\ r.data = readyData[k].data /\ r.events = {}
      BY DEF r
    <2>11. \A i \in DOMAIN readyData : readyData'[i].fd = readyData[i].fd
      BY <2>9, <2>10
    <2>12. WsaInv'
      <3>1. \A i, j \in DOMAIN readyData' :
              readyData'[i].fd # Invalid /\ readyData'[i].fd = readyData'[j].fd => i = j
        BY <2>9, <2>11 DEF WsaInv
      <3>2. WsaLive' /\ WsaLive /\ FdCapacity' = FdCapacity
        BY <1>2 DEF WsaSetEvent, WsaLive, FdCapacity
      <3>3. fds' = fds /\ fdCount' = fdCount /\ socketsReady' = socketsReady /\ overread' = overread
        BY <1>2
      <3> QED
        BY <1>2, <2>8, <3>1, <3>2, <3>3 DEF WsaInv
    <2>13. WsaWatchNow' = WsaWatchNow
      BY <1>2 DEF WsaWatchNow, WsaLive, WsaWatch, FdsOf
    <2>14. CASE socketsReady = 0
      <3>1. WsaReadyNow = << >> /\ WsaReadyNow' = << >>
        BY <1>2, <2>12, <2>14, ReadyFromArray, ReadyFromArrayNext DEF ReadyTells
      <3> QED
        BY <2>12, <2>13, <3>1 DEF WsaStep
    <2>15. CASE socketsReady # 0
      <3>1. WsaReadyNow = readyData /\ WsaReadyNow' = readyData'
        BY <1>2, <2>12, <2>15, ReadyFromArray, ReadyFromArrayNext DEF ReadyTells
      <3>2. WsaReadyNow' = [WsaReadyNow EXCEPT ![k].events = {}]
        BY <2>3, <3>1
      <3>3. k \in DOMAIN WsaReadyNow /\ WsaReadyNow[k].fd = s
        BY <2>1, <3>1
      <3>4. WP!SetEvent(s, {})
        BY <2>13, <3>2, <3>3 DEF WP!SetEvent, WsaReadyNow, WsaWatchNow
      <3> QED
        BY <2>12, <3>4 DEF WsaStep, WP!Next, WsaReadyNow, WsaWatchNow
    <2> QED
      BY <2>14, <2>15
  <1> QED
    BY <1>1, <1>2 DEF WsaSetEvent

\* The first entry of a socket in the ready array is the only one.
LEMMA InvalidatedTells ==
  ASSUME WsaInv, NEW s \in Sockets
  PROVE  LET after == InvalidatedReady(s)
         IN  /\ after \in Seq(ReadyEntry) /\ Len(after) = Len(readyData)
             /\ DOMAIN after = DOMAIN readyData
             /\ \A i \in DOMAIN readyData :
                  after[i] = IF readyData[i].fd = s
                             THEN [fd |-> Invalid, data |-> Null, events |-> readyData[i].events]
                             ELSE readyData[i]
  <1> DEFINE after == InvalidatedReady(s)
             places == {i \in DOMAIN readyData : readyData[i].fd = s}
             gone(i) == [fd |-> Invalid, data |-> Null, events |-> readyData[i].events]
             cut(i) == [readyData[i] EXCEPT !.fd = Invalid, !.data = Null]
  <1>1. /\ readyData \in Seq(ReadyEntry) /\ places \in SUBSET Nat /\ s # Invalid
        /\ \A i, j \in places : i = j
    BY PollingAssumption DEF WsaInv
  <1>2. \A i \in DOMAIN readyData : i \in places <=> readyData[i].fd = s
    OBVIOUS
  <1>3. \A i \in DOMAIN readyData : (places # {} /\ i = Lowest(places)) <=> i \in places
    BY <1>1, LowestExists
  <1>4. \A i \in DOMAIN readyData : /\ readyData[i] \in ReadyEntry /\ gone(i) \in ReadyEntry
                                    /\ cut(i) = gone(i)
    <2>1. ASSUME NEW i \in DOMAIN readyData
          PROVE  /\ readyData[i] \in ReadyEntry /\ gone(i) \in ReadyEntry
                 /\ cut(i) = gone(i)
      <3> DEFINE x == readyData[i]
      <3>1. x \in ReadyEntry
        BY <1>1
      <3> HIDE DEF x
      <3>2. /\ [x EXCEPT !.fd = Invalid, !.data = Null]
                 = [fd |-> Invalid, data |-> Null, events |-> x.events]
            /\ [fd |-> Invalid, data |-> Null, events |-> x.events] \in ReadyEntry
        BY <3>1, ReadyInvalidated
      <3> QED
        BY <3>1, <3>2 DEF x
    <2> HIDE DEF gone, cut
    <2> QED
      BY <2>1
  <1>5. after = [i \in DOMAIN readyData |->
                   IF places # {} /\ i = Lowest(places) THEN cut(i) ELSE readyData[i]]
    BY DEF InvalidatedReady
  <1> HIDE DEF places, gone, after, cut
  <1>6. after = [i \in 1 .. Len(readyData) |-> after[i]]
    BY <1>1, <1>5
  <1>7. \A i \in DOMAIN readyData :
          after[i] = IF readyData[i].fd = s THEN gone(i) ELSE readyData[i]
    BY <1>2, <1>3, <1>4, <1>5
  <1>8. \A i \in 1 .. Len(readyData) : after[i] \in ReadyEntry
    BY <1>1, <1>4, <1>7
  <1>9. after \in Seq(ReadyEntry) /\ Len(after) = Len(readyData)
    BY <1>1, <1>6, <1>8
  <1> QED
    BY <1>1, <1>7, <1>9 DEF after, gone

\* Remove by index of a watched entry, of a poll set with a free entry behind:
\* the entries behind the index and the first unused one move up.
LEMMA WsaRemoveAtStep ==
  ASSUME WsaInv, NEW k \in Nat, k < fdCount, fdCount < FdCapacity, WsaRemoveByIndex(k)
  PROVE  WsaInv' /\ WsaStep
  <1> DEFINE s == fds[k].fd
             from == [j \in DOMAIN fds |-> IF j < k \/ j >= fdCount THEN j ELSE j + 1]
             D == {fds[i].fd : i \in 0 .. fdCount - 1}
             G == [t \in D \ {s} |-> WsaWatchNow[t]]
  <1>1. WsaLive
    BY DEF WsaRemoveByIndex
  <1>2. /\ FdCapacity \in Nat /\ fdCount \in Nat /\ fdCount <= FdCapacity
        /\ DOMAIN fds = 0 .. FdCapacity - 1 /\ k \in 0 .. fdCount - 1 /\ k \in DOMAIN fds
        /\ s \in Sockets /\ s # Invalid /\ ~ (k >= FdCapacity)
    BY <1>1, WsaBefore, PollingAssumption
  <1>3. /\ fds' = Shifted(k) /\ overread' = (overread \/ fdCount = FdCapacity)
        /\ readyData' = InvalidatedReady(s) /\ fdCount' = fdCount - 1 /\ wsaRet' = "ok"
        /\ socketsReady' = socketsReady
    BY <1>2 DEF WsaRemoveByIndex
  <1> HIDE DEF s
  <1>4. /\ DOMAIN fds' = DOMAIN fds
        /\ \A j \in DOMAIN fds : from[j] \in DOMAIN fds /\ fds'[j] = fds[from[j]]
    BY <1>2, <1>3 DEF Shifted
  <1>5. \A j \in DOMAIN fds : /\ j < k => from[j] = j
                              /\ j >= k /\ j < fdCount => from[j] = j + 1
                              /\ j >= fdCount => from[j] = j
    BY <1>2
  <1> HIDE DEF from
  <1>6. overread' = FALSE
    <2>1. overread = FALSE /\ (fdCount = FdCapacity) = FALSE
      BY <1>2 DEF WsaInv
    <2> QED
      BY <1>3, <2>1
  <1>7. FdCapacity' = FdCapacity /\ WsaLive' /\ fdCount' \in Nat /\ fdCount' <= FdCapacity'
    <2>1. FdCapacity' = FdCapacity
      BY <1>4 DEF FdCapacity
    <2>2. WsaLive'
      BY <1>1, <1>4 DEF WsaLive
    <2> QED
      BY <1>2, <1>3, <2>1, <2>2
  <1>8. fds' \in [DOMAIN fds' -> FdEntry]
    <2>1. \A j \in DOMAIN fds' : fds'[j] \in FdEntry
      BY <1>1, <1>4, WsaBefore
    <2>2. fds' = [j \in DOMAIN fds' |-> fds'[j]]
      BY <1>3 DEF Shifted
    <2> QED
      BY <2>1, <2>2
  <1>9. \A j \in DOMAIN fds' : fds'[j].fd = Invalid <=> j >= fdCount'
    <2> SUFFICES ASSUME NEW j \in DOMAIN fds PROVE fds'[j].fd = Invalid <=> j >= fdCount - 1
      BY <1>3, <1>4
    <2>1. /\ j \in Nat /\ from[j] \in DOMAIN fds /\ fds'[j] = fds[from[j]]
          /\ fds[from[j]].fd = Invalid <=> from[j] >= fdCount
      BY <1>1, <1>4, WsaBefore
    <2>2. from[j] >= fdCount <=> j >= fdCount - 1
      BY <1>2, <1>5, <2>1
    <2> QED
      BY <2>1, <2>2
  <1>10. \A i, j \in DOMAIN fds' : fds'[i].fd # Invalid /\ fds'[i].fd = fds'[j].fd => i = j
    <2> SUFFICES ASSUME NEW i \in DOMAIN fds, NEW j \in DOMAIN fds,
                        fds'[i].fd # Invalid, fds'[i].fd = fds'[j].fd
                 PROVE  i = j
      BY <1>4
    <2>1. i < fdCount - 1 /\ j < fdCount - 1 /\ i \in Nat /\ j \in Nat
      BY <1>2, <1>3, <1>4, <1>9
    <2>2. from[i] = from[j]
      BY <1>4 DEF WsaInv
    <2> QED
      BY <1>2, <1>5, <2>1, <2>2
  <1>11. /\ readyData' \in Seq(ReadyEntry) /\ Len(readyData') = Len(readyData)
         /\ DOMAIN readyData' = DOMAIN readyData
         /\ \A i \in DOMAIN readyData :
              readyData'[i] = IF readyData[i].fd = s
                              THEN [fd |-> Invalid, data |-> Null, events |-> readyData[i].events]
                              ELSE readyData[i]
    BY <1>2, <1>3, InvalidatedTells
  <1>12. WsaInv'
    <2>1. \A i, j \in DOMAIN readyData' :
            readyData'[i].fd # Invalid /\ readyData'[i].fd = readyData'[j].fd => i = j
      <3>1. \A i \in DOMAIN readyData : \/ readyData'[i].fd = Invalid
                                        \/ readyData'[i].fd = readyData[i].fd
        BY <1>11
      <3> QED
        BY <1>11, <3>1 DEF WsaInv
    <2>2. socketsReady' \in {0, Len(readyData')}
      BY <1>3, <1>11 DEF WsaInv
    <2>3. FdCapacity' \in Nat /\ DOMAIN fds' = 0 .. FdCapacity' - 1
      BY <1>2, <1>4, <1>7
    <2> QED
      BY <1>3, <1>6, <1>7, <1>8, <1>9, <1>10, <1>11, <2>1, <2>2, <2>3 DEF WsaInv
  <1>13. /\ WsaWatchNow = [t \in D |-> WsaWatchNow[t]]
         /\ \A i \in 0 .. fdCount - 1 :
              WsaWatchNow[fds[i].fd] = [data |-> fds[i].data,
                                        events |-> FromWsa(fds[i].events) \cup Implicit]
    BY <1>1, WatchFromArray DEF WatchTells
  <1>14. s \in D /\ DOMAIN WsaWatchNow = D
    BY <1>2, <1>13 DEF s
  <1>15. ASSUME NEW i \in 0 .. fdCount' - 1
         PROVE  /\ from[i] \in 0 .. fdCount - 1 /\ fds'[i] = fds[from[i]]
                /\ fds[from[i]].fd \in D \ {s}
    <2>1. i \in DOMAIN fds /\ i < fdCount - 1
      BY <1>2, <1>3
    <2>2. from[i] \in 0 .. fdCount - 1 /\ from[i] # k
      BY <1>2, <1>5, <2>1
    <2>3. fds[from[i]].fd # s
      BY <1>2, <1>4, <2>1, <2>2 DEF s, WsaInv
    <2> QED
      BY <1>4, <2>1, <2>2, <2>3
  <1>16. WsaWatchNow' = G
    <2>1. D \ {s} = {fds'[i].fd : i \in 0 .. fdCount' - 1}
      <3>1. ASSUME NEW t \in D \ {s} PROVE \E i \in 0 .. fdCount' - 1 : t = fds'[i].fd
        <4>1. PICK j \in 0 .. fdCount - 1 : t = fds[j].fd
          OBVIOUS
        <4>2. j # k /\ j \in DOMAIN fds /\ j \in Nat
          BY <1>1, <4>1, WsaBefore DEF s
        <4>3. CASE j < k
          <5>1. j \in 0 .. fdCount' - 1 /\ fds'[j] = fds[j]
            BY <1>2, <1>3, <1>4, <1>5, <4>2, <4>3
          <5> QED
            BY <4>1, <5>1
        <4>4. CASE j > k
          <5>1. /\ j - 1 \in 0 .. fdCount' - 1 /\ j - 1 \in DOMAIN fds
                /\ j - 1 >= k /\ j - 1 < fdCount /\ (j - 1) + 1 = j
            BY <1>2, <1>3, <4>2, <4>4
          <5>2. fds'[j - 1] = fds[j]
            BY <1>4, <1>5, <5>1
          <5> QED
            BY <4>1, <5>1, <5>2
        <4> QED
          BY <1>2, <4>2, <4>3, <4>4
      <3> HIDE DEF D
      <3> QED
        BY <1>15, <3>1
    <2>2. ASSUME NEW i \in 0 .. fdCount' - 1
          PROVE  G[fds'[i].fd] = [data |-> fds'[i].data,
                                  events |-> FromWsa(fds'[i].events) \cup Implicit]
      BY <1>13, <1>15
    <2>3. G = [t \in D \ {s} |-> G[t]]
      OBVIOUS
    <2> HIDE DEF G, D
    <2> QED
      BY <1>7, <1>12, <2>1, <2>2, <2>3, WatchBecomes
  <1>17. WsaReadyNow' = [i \in DOMAIN WsaReadyNow |->
                           IF WsaReadyNow[i].fd = s
                           THEN [fd |-> Invalid, data |-> Null, events |-> WsaReadyNow[i].events]
                           ELSE WsaReadyNow[i]]
    <2>1. CASE socketsReady = 0
      <3>1. WsaReadyNow = << >> /\ WsaReadyNow' = << >>
        BY <1>3, <1>12, <2>1, ReadyFromArray, ReadyFromArrayNext DEF ReadyTells
      <3> QED
        BY <3>1
    <2>2. CASE socketsReady # 0
      <3>1. WsaReadyNow = readyData /\ WsaReadyNow' = readyData'
        BY <1>3, <1>12, <2>2, ReadyFromArray, ReadyFromArrayNext DEF ReadyTells
      <3>2. readyData' = [i \in DOMAIN readyData' |-> readyData'[i]]
        BY <1>3 DEF InvalidatedReady
      <3> QED
        BY <1>11, <3>1, <3>2
    <2> QED
      BY <2>1, <2>2
  <1>18. WsaWatchNow' = [t \in DOMAIN WsaWatchNow \ {s} |-> WsaWatchNow[t]]
    BY <1>14, <1>16
  <1>19. WP!Remove(s)
    BY <1>14, <1>17, <1>18 DEF WP!Remove, WsaWatchNow, WsaReadyNow
  <1> QED
    BY <1>2, <1>12, <1>19 DEF WsaStep, WP!Next, WsaWatchNow, WsaReadyNow

LEMMA WsaRemoveByIndexStep ==
  ASSUME WsaInv, NEW i \in 0 .. FdCapacity, Removable(i), WsaRemoveByIndex(i)
  PROVE  WsaInv' /\ WsaStep
  <1>1. CASE WsaFails("XT_EINVAL")
    BY <1>1, WsaAlone DEF WsaFails
  <1>2. CASE i < FdCapacity
    <2>1. i \in Nat /\ i < fdCount /\ fdCount < FdCapacity
      BY <1>2 DEF Removable, WsaInv
    <2> QED
      BY <2>1, WsaRemoveAtStep
  <1> QED
    BY <1>1, <1>2 DEF WsaRemoveByIndex

LEMMA WsaRemoveStep ==
  ASSUME WsaInv, NEW s \in Sockets, fdCount < FdCapacity, WsaRemove(s)
  PROVE  WsaInv' /\ WsaStep
  <1>1. CASE WsaFails("XT_ENOENT")
    BY <1>1, WsaAlone DEF WsaFails
  <1>2. CASE FdsOf(s) # {} /\ WsaRemoveByIndex(Lowest(FdsOf(s)))
    <2> DEFINE k == Lowest(FdsOf(s))
    <2>1. k \in 0 .. fdCount - 1 /\ WsaRemoveByIndex(k) /\ fdCount \in Nat
      BY <1>2, FdsOfSocket DEF WsaInv
    <2> HIDE DEF k
    <2>2. k \in Nat /\ k < fdCount
      BY <2>1
    <2> QED
      BY <2>1, <2>2, WsaRemoveAtStep
  <1> QED
    BY <1>1, <1>2 DEF WsaRemove

\* Events WSAPoll may set of a descriptor with flags f, as a client reads them.
LEMMA WsaEventsReported ==
  ASSUME NEW f, NEW w \in {{"POLLRDNORM"}, {"POLLHUP", "POLLNVAL"}},
         w \subseteq f \cup {"POLLERR", "POLLHUP", "POLLNVAL"}
  PROVE  FromWsa(w) \in SUBSET Events /\ FromWsa(w) # {}
         /\ FromWsa(w) \subseteq FromWsa(f) \cup Implicit
  <1>1. CASE w = {"POLLRDNORM"}
    <2>1. FromWsa(w) = {"in"} /\ "POLLRDNORM" \in f
      BY <1>1 DEF FromWsa, Events
    <2> QED
      BY <2>1 DEF FromWsa, Events
  <1>2. CASE w = {"POLLHUP", "POLLNVAL"}
    <2>1. FromWsa(w) = {"err", "hup"}
      BY <1>2 DEF FromWsa, Events
    <2> QED
      BY <2>1 DEF Events, Implicit
  <1> QED
    BY <1>1, <1>2

\* Entries of the array, each once and each with events of its own.
LEMMA WsaReportsEntries ==
  ASSUME WsaInv, WsaLive, fdCount # 0, NEW R \in SUBSET (0 .. fdCount - 1),
         NEW what \in [R -> {{"POLLRDNORM"}, {"POLLHUP", "POLLNVAL"}}],
         \A i \in R : what[i] \subseteq fds[i].events \cup {"POLLERR", "POLLHUP", "POLLNVAL"},
         readyData' = [k \in 1 .. Cardinality(R) |->
                         [fd |-> fds[NthOf(R, k)].fd, data |-> fds[NthOf(R, k)].data,
                          events |-> FromWsa(what[NthOf(R, k)])]],
         socketsReady' = Cardinality(R), wsaRet' = "ok", UNCHANGED <<fds, fdCount, overread>>
  PROVE  WsaInv' /\ WsaStep
  <1>1. /\ fdCount \in Nat /\ fdCount - 1 \in Nat
        /\ \A i \in 0 .. fdCount - 1 : /\ i \in DOMAIN fds /\ fds[i] \in FdEntry
                                      /\ fds[i].fd \in Sockets /\ fds[i].fd # Invalid
    BY WsaBefore, PollingAssumption
  <1>2. IsFiniteSet(R) /\ Cardinality(R) \in Nat
    <2>1. IsFiniteSet(0 .. fdCount - 1)
      BY <1>1, FS_Interval
    <2> QED
      BY <2>1, FS_Subset, FS_CardinalityType
  <1> DEFINE m == Cardinality(R)
             nth(k) == NthOf(R, k)
             out(k) == FromWsa(what[nth(k)])
             r(k) == [fd |-> fds[nth(k)].fd, data |-> fds[nth(k)].data, events |-> out(k)]
  <1>3. ASSUME NEW k \in 1 .. m
        PROVE  nth(k) \in R /\ Cardinality({j \in R : j <= nth(k)}) = k
    BY <1>1, NthExists
  <1>4. readyData' = [k \in 1 .. m |-> r(k)] /\ socketsReady' = m /\ m \in Nat
    BY <1>2
  <1> HIDE DEF nth, m
  <1>5. ASSUME NEW k \in 1 .. m
        PROVE  /\ nth(k) \in 0 .. fdCount - 1
               /\ out(k) \in SUBSET Events /\ out(k) # {}
               /\ out(k) \subseteq FromWsa(fds[nth(k)].events) \cup Implicit
    <2> DEFINE w == what[nth(k)]
               f == fds[nth(k)].events
    <2>1. /\ nth(k) \in R /\ w \in {{"POLLRDNORM"}, {"POLLHUP", "POLLNVAL"}}
          /\ w \subseteq f \cup {"POLLERR", "POLLHUP", "POLLNVAL"}
      BY <1>3
    <2> HIDE DEF w, f
    <2>2. /\ FromWsa(w) \in SUBSET Events /\ FromWsa(w) # {}
          /\ FromWsa(w) \subseteq FromWsa(f) \cup Implicit
      BY <2>1, WsaEventsReported
    <2> QED
      BY <2>1, <2>2 DEF w, f
  <1> HIDE DEF out
  <1>6. ASSUME NEW k \in 1 .. m PROVE r(k) \in ReadyEntry
    BY <1>1, <1>5 DEF ReadyEntry, FdEntry
  <1>7. \A k \in 1 .. m : /\ r(k).fd = fds[nth(k)].fd /\ r(k).data = fds[nth(k)].data
                          /\ r(k).events = out(k)
    OBVIOUS
  <1> HIDE DEF r
  <1>8. /\ readyData' \in Seq(ReadyEntry) /\ Len(readyData') = m /\ DOMAIN readyData' = 1 .. m
        /\ \A k \in 1 .. m : readyData'[k] = r(k)
    BY <1>4, <1>6
  <1>9. ASSUME NEW i \in 1 .. m, NEW j \in 1 .. m, readyData'[i].fd = readyData'[j].fd
        PROVE  i = j
    <2>1. /\ nth(i) \in DOMAIN fds /\ nth(j) \in DOMAIN fds
          /\ fds[nth(i)].fd = fds[nth(j)].fd /\ fds[nth(i)].fd # Invalid
      BY <1>1, <1>5, <1>7, <1>8, <1>9
    <2>2. nth(i) = nth(j)
      BY <2>1 DEF WsaInv
    <2> QED
      BY <1>3, <2>2
  <1>10. WsaInv'
    <2>1. \A i, j \in DOMAIN readyData' :
            readyData'[i].fd # Invalid /\ readyData'[i].fd = readyData'[j].fd => i = j
      BY <1>8, <1>9
    <2>2. WsaLive' /\ FdCapacity' = FdCapacity
      BY DEF WsaLive, FdCapacity
    <2>3. socketsReady' \in {0, Len(readyData')}
      BY <1>4, <1>8
    <2> QED
      BY <1>8, <2>1, <2>2, <2>3 DEF WsaInv
  <1>11. WsaWatchNow' = WsaWatchNow
    BY DEF WsaWatchNow, WsaLive, WsaWatch, FdsOf
  <1>12. CASE m = 0
    <2>1. WsaReadyNow' = << >>
      BY <1>4, <1>10, <1>12, ReadyFromArrayNext
    <2>2. DOMAIN WsaReadyNow' = {}
      BY <2>1
    <2>3. WP!Wait
      BY <1>11, <2>2 DEF WP!Wait, WsaWatchNow, WsaReadyNow
    <2> QED
      BY <1>10, <2>3 DEF WsaStep, WP!Next, WsaWatchNow, WsaReadyNow
  <1>13. CASE m # 0
    <2>1. WsaReadyNow' = readyData' /\ DOMAIN WsaReadyNow' = 1 .. m
      BY <1>4, <1>8, <1>10, <1>13, ReadyFromArrayNext
    <2>2. /\ WsaWatchNow = [t \in {fds[i].fd : i \in 0 .. fdCount - 1} |-> WsaWatchNow[t]]
          /\ \A i \in 0 .. fdCount - 1 :
               WsaWatchNow[fds[i].fd] = [data |-> fds[i].data,
                                         events |-> FromWsa(fds[i].events) \cup Implicit]
      BY WatchFromArray DEF WatchTells
    <2>3. ASSUME NEW k \in 1 .. m
          PROVE  /\ readyData'[k].fd \in DOMAIN WsaWatchNow
                 /\ readyData'[k].data = WsaWatchNow[readyData'[k].fd].data
                 /\ readyData'[k].events # {}
                 /\ readyData'[k].events \subseteq WsaWatchNow[readyData'[k].fd].events
      <3>1. nth(k) \in 0 .. fdCount - 1 /\ readyData'[k] = r(k)
        BY <1>5, <1>8
      <3>2. /\ readyData'[k].fd = fds[nth(k)].fd /\ readyData'[k].data = fds[nth(k)].data
            /\ readyData'[k].events = out(k)
        BY <1>7, <3>1
      <3>3. /\ fds[nth(k)].fd \in DOMAIN WsaWatchNow
            /\ WsaWatchNow[fds[nth(k)].fd].data = fds[nth(k)].data
            /\ WsaWatchNow[fds[nth(k)].fd].events
                 = FromWsa(fds[nth(k)].events) \cup Implicit
        <4> DEFINE i == nth(k)
                   w == WsaWatchNow[fds[i].fd]
                   c == FromWsa(fds[i].events) \cup Implicit
        <4> HIDE DEF i
        <4>1. i \in 0 .. fdCount - 1
          BY <3>1 DEF i
        <4>2. fds[i].fd \in DOMAIN WsaWatchNow /\ w = [data |-> fds[i].data, events |-> c]
          BY <2>2, <4>1
        <4> HIDE DEF w, c
        <4>3. w.data = fds[i].data /\ w.events = c
          BY <4>2
        <4> QED
          BY <4>2, <4>3 DEF i, w, c
      <3> QED
        BY <1>5, <3>2, <3>3
    <2>4. \A k \in DOMAIN WsaReadyNow' : WP!Reports(WsaReadyNow'[k])
      BY <2>1, <2>3 DEF WP!Reports, WsaWatchNow
    <2>5. \A i, j \in DOMAIN WsaReadyNow' :
            WsaReadyNow'[i].fd = WsaReadyNow'[j].fd => i = j
      BY <1>9, <2>1
    <2>6. WP!Wait
      BY <1>11, <2>4, <2>5 DEF WP!Wait, WsaWatchNow, WsaReadyNow
    <2> QED
      BY <1>10, <2>6 DEF WsaStep, WP!Next, WsaWatchNow, WsaReadyNow
  <1> QED
    BY <1>12, <1>13

\* Wait reports entries of the array in their order, each once, with events
\* WSAPoll may set for them.
LEMMA WsaWaitStep ==
  ASSUME WsaInv, WsaWait
  PROVE  WsaInv' /\ WsaStep
  <1>1. CASE WsaFails("error")
    BY <1>1, WsaAlone DEF WsaFails
  <1>2. CASE /\ fdCount = 0 /\ socketsReady' = 0 /\ wsaRet' = "ok"
             /\ UNCHANGED <<fds, fdCount, readyData, overread>>
    <2>1. WsaInv'
      BY <1>2 DEF WsaInv, WsaLive, FdCapacity
    <2>2. WsaReadyNow' = << >> /\ WsaWatchNow' = WsaWatchNow
      BY <1>2, <2>1, ReadyFromArrayNext DEF WsaWatchNow, WsaLive, WsaWatch, FdsOf
    <2>3. DOMAIN WsaReadyNow' = {}
      BY <2>2
    <2>4. WP!Wait
      BY <2>2, <2>3 DEF WP!Wait, WsaWatchNow, WsaReadyNow
    <2> QED
      BY <2>1, <2>4 DEF WsaStep, WP!Next, WsaWatchNow, WsaReadyNow
  <1>3. CASE fdCount # 0 /\ wsaRet' = "ok" /\ UNCHANGED <<fds, fdCount, overread>>
             /\ \E R \in SUBSET (0 .. fdCount - 1) :
                  \E what \in [R -> {{"POLLRDNORM"}, {"POLLHUP", "POLLNVAL"}}] :
                    /\ \A i \in R :
                         what[i] \subseteq fds[i].events \cup {"POLLERR", "POLLHUP", "POLLNVAL"}
                    /\ readyData' = [k \in 1 .. Cardinality(R) |->
                                       [fd |-> fds[NthOf(R, k)].fd, data |-> fds[NthOf(R, k)].data,
                                        events |-> FromWsa(what[NthOf(R, k)])]]
                    /\ socketsReady' = Cardinality(R)
    <2>1. WsaLive
      BY DEF WsaWait
    <2> QED
      BY <1>3, <2>1, WsaReportsEntries
  <1> QED
    BY <1>1, <1>2, <1>3 DEF WsaWait, NthOf

\* Every step keeps the invariant and is a step of PollSet or a stutter.
LEMMA WsaNextInv == WsaInv /\ [WsaNext]_wsaVars => WsaInv' /\ WsaStep
  <1> SUFFICES ASSUME WsaInv, [WsaNext]_wsaVars PROVE WsaInv' /\ WsaStep
    OBVIOUS
  <1>1. CASE UNCHANGED wsaVars
    BY <1>1, WsaAlone DEF wsaVars, WsaInv
  <1>2. CASE \E n \in PollCapacities : WsaCreate(n)
    BY <1>2, WsaCreateStep
  <1>3. CASE WsaDestroy
    BY <1>3, WsaDestroyStep
  <1>4. CASE \E s \in Sockets :
               \/ \E e \in Requests : WsaMod(s, e) \/ \E d \in Data : WsaAdd(s, d, e)
               \/ fdCount < FdCapacity /\ WsaRemove(s)
               \/ WsaSetEvent(s, {})
    BY <1>4, WsaModStep, WsaAddStep, WsaRemoveStep, WsaSetEventStep
  <1>5. CASE \E i \in 0 .. FdCapacity : Removable(i) /\ WsaRemoveByIndex(i)
    BY <1>5, WsaRemoveByIndexStep
  <1>6. CASE WsaWait
    BY <1>6, WsaWaitStep
  <1> QED
    BY <1>1, <1>2, <1>3, <1>4, <1>5, <1>6 DEF WsaNext

\* What the runs check of the poll set on Windows follows from the invariant.
LEMMA WsaInvMeans == WsaInv => WsaTypeOK /\ Compact
  <1> SUFFICES ASSUME WsaInv PROVE WsaTypeOK /\ Compact
    OBVIOUS
  <1>1. WsaTypeOK
    <2>1. \A i \in DOMAIN fds : [fd |-> fds[i].fd, data |-> fds[i].data] \in Entry
      BY DEF WsaInv, FdEntry, Entry
    <2>2. socketsReady \in Nat
      BY DEF WsaInv
    <2> QED
      BY <2>1, <2>2 DEF WsaTypeOK, WsaInv
  <1>2. ASSUME NEW s \in Sockets PROVE Cardinality(FdsOf(s)) <= 1
    <2>1. CASE FdsOf(s) = {}
      BY <2>1, FS_EmptySet
    <2>2. CASE FdsOf(s) # {}
      <3> DEFINE x == Lowest(FdsOf(s))
      <3>1. FdsOf(s) = {x}
        BY <2>2, FdsOfSocket
      <3> HIDE DEF x
      <3>2. Cardinality({x}) = 1
        BY FS_Singleton
      <3> QED
        BY <3>1, <3>2
    <2> QED
      BY <2>1, <2>2
  <1>3. Compact
    BY <1>2 DEF Compact, WsaInv
  <1> QED
    BY <1>1, <1>3

\* The arrays, the ready array and the numbers keep their types (WsaTypeOK).
THEOREM WsaTypeCorrect == WsaSpec => []WsaTypeOK
  <1>1. WsaInit => WsaInv
    BY WsaInitInv
  <1>2. WsaInv /\ [WsaNext]_wsaVars => WsaInv'
    BY WsaNextInv
  <1>3. WsaInv => WsaTypeOK
    BY WsaInvMeans
  <1> QED
    BY <1>1, <1>2, <1>3, PTL DEF WsaSpec

\* On Windows the watched sockets are the first entries of the array, each
\* once, no entry behind them holds a descriptor, and no memmove of a client
\* that never removes from a full set reads beyond the arrays (Compact).
THEOREM ArrayStaysCompact == WsaSpec => []Compact
  <1>1. WsaInit => WsaInv
    BY WsaInitInv
  <1>2. WsaInv /\ [WsaNext]_wsaVars => WsaInv'
    BY WsaNextInv
  <1>3. WsaInv => Compact
    BY WsaInvMeans
  <1> QED
    BY <1>1, <1>2, <1>3, PTL DEF WsaSpec

\* Every call on a poll set on Windows is a call of PollSet or a stutter.
THEOREM WsaIsPollSet == WsaSpec => WsaImplementsPollSet
  <1>1. WsaInit => WsaInv /\ WP!Init
    BY WsaInitInv
  <1>2. WsaInv /\ [WsaNext]_wsaVars => WsaInv' /\ [WP!Next]_(WP!pollSetVars)
    BY WsaNextInv DEF WsaStep, WP!pollSetVars, WsaWatchNow, WsaReadyNow
  <1> QED
    BY <1>1, <1>2, PTL DEF WsaSpec, WsaImplementsPollSet, WP!Spec
=============================================================================
