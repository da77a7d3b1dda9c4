-------------------------------- MODULE Queue -------------------------------
(***************************************************************************)
(* The circular queues xtQueueHD, D, U, LU and ZU.  The five types have    *)
(* the same code over different element types, so one module models them   *)
(* all.  In the code `front' is the index the next Push writes and `rear'  *)
(* the index the next Pop reads.                                           *)
(***************************************************************************)
EXTENDS Integers, Sequences

CONSTANTS
  Values,           \* what a client pushes
  Junk,             \* the content of a cell malloc returned and nobody wrote
  Nothing,          \* the content of *top before the first Peek or Pop
  Capacities,       \* capacities a client asks Create and SetCapacity for
  Growths,          \* growth factors a client sets
  DefaultCapacity,  \* XT_QUEUE_CAPACITY_DEFAULT
  MaxAlloc          \* the largest buffer, in elements, malloc may grant

ASSUME QueueAssumption ==
  /\ Junk \notin Values
  /\ Nothing \notin Values \cup {Junk}
  /\ Capacities \subseteq Nat
  /\ Growths \subseteq Int
  /\ DefaultCapacity \in Nat \ {0}
  /\ MaxAlloc \in Nat

VARIABLES
  q,        \* the struct xtQueue; q.data has an empty domain when it is NULL
  top,      \* *top: the last value Peek or Pop wrote for the client
  ret,      \* what the last call returned
  fault     \* some call read or wrote outside the buffer

vars == <<q, top, ret, fault>>

Cell == Values \cup {Junk}

Errors == {"XT_ENOBUFS", "XT_ENOMEM"}

DefaultGrow == -2

Null == [i \in {} |-> Junk]

Live == DOMAIN q.data # {}
-----------------------------------------------------------------------------
(***************************************************************************)
(* Allocation.  queue_create allocates the default capacity when asked for *)
(* none, but queue_init then stores the capacity that was asked for: a     *)
(* queue created with 0 has room for DefaultCapacity and a capacity of 0.  *)
(***************************************************************************)
Slots(n) == IF n = 0 THEN DefaultCapacity ELSE n

\* malloc may grant a buffer of n elements; it may also refuse any request.
MayAlloc(n) == Slots(n) <= MaxAlloc

NewQueue(n) ==
  [data |-> [i \in 0 .. Slots(n) - 1 |-> Junk],
   count |-> 0, capacity |-> n, front |-> 0, rear |-> 0, grow |-> DefaultGrow]

\* A read through this->data[i]: outside the buffer it yields junk.
Load(s, i) == IF i \in DOMAIN s.data THEN s.data[i] ELSE Junk

(***************************************************************************)
(* SetCapacity builds a new queue, copies min(count, n) elements from the  *)
(* index the next Push would write, and drops the old struct, its growth   *)
(* factor included.  The j-th index copied is front itself for j = 0 and   *)
(* is reduced modulo the old capacity afterwards.                          *)
(***************************************************************************)
Copied(s, n) == IF s.count > n THEN n ELSE s.count

\* Mutant: the copy loop walks the array from 0 and ignores the wrap.
SourceFromZero(s, j) == j

Source(s, j) == IF j = 0 THEN s.front ELSE (s.front + j) % s.capacity

Resized(s, n) ==
  IF n = s.capacity THEN s
  ELSE [NewQueue(n) EXCEPT
          !.data = [i \in DOMAIN @ |-> IF i < Copied(s, n)
                                       THEN Load(s, Source(s, i)) ELSE Junk],
          !.front = Copied(s, n),
          !.count = Copied(s, n)]

ResizeFaults(s, n) ==
  /\ n # s.capacity
  /\ \E j \in 0 .. Copied(s, n) - 1 : Source(s, j) \notin DOMAIN s.data

\* How many elements a Push on a full queue adds to the capacity.
Increment(s) ==
  LET g == IF s.grow > 0 THEN s.grow ELSE s.capacity \div (-s.grow)
  IN  IF g = 0 THEN 1 ELSE g

\* Mutant: front is advanced without the wrap.
StoredNoWrap(s, v) ==
  [s EXCEPT
     !.data  = IF s.front \in DOMAIN @ THEN [@ EXCEPT ![s.front] = v] ELSE @,
     !.front = @ + 1,
     !.count = @ + 1]

\* The tail of Push: the store, the advance of front and the count.
Stored(s, v) ==
  [s EXCEPT
     !.data  = IF s.front \in DOMAIN @ THEN [@ EXCEPT ![s.front] = v] ELSE @,
     !.front = (@ + 1) % s.capacity,
     !.count = @ + 1]

\* Mutant: rear is advanced without the wrap.
AdvancedNoWrap(s) == [s EXCEPT !.rear = @ + 1, !.count = @ - 1]

\* The tail of Pop and Drop: the oldest element is given up.
Advanced(s) == [s EXCEPT !.rear = (@ + 1) % s.capacity, !.count = @ - 1]

Full(s) == s.count = s.capacity
-----------------------------------------------------------------------------
(***************************************************************************)
(* The calls of queue.h.  xtQueueInit sets data to NULL; a client calls    *)
(* the others on a queue whose Create succeeded, as the struct holds no    *)
(* buffer otherwise.  A call without an error code leaves ret at "ok".     *)
(***************************************************************************)
Init ==
  /\ q = [NewQueue(0) EXCEPT !.data = Null]
  /\ top = Nothing
  /\ ret = "ok"
  /\ fault = FALSE

Create(n) ==
  /\ ~Live
  /\ \/ MayAlloc(n) /\ q' = NewQueue(n) /\ ret' = "ok"
     \/ ret' = "XT_ENOMEM" /\ UNCHANGED q
  /\ UNCHANGED <<top, fault>>

Destroy ==
  /\ q' = [q EXCEPT !.data = Null]
  /\ ret' = "ok"
  /\ UNCHANGED <<top, fault>>

SetGrowthFactor(g) ==
  /\ Live
  /\ q' = [q EXCEPT !.grow = g]
  /\ ret' = "ok"
  /\ UNCHANGED <<top, fault>>

PushWithRoom(v) ==
  /\ ~Full(q)
  /\ q' = Stored(q, v)
  /\ fault' = (fault \/ q.front \notin DOMAIN q.data)
  /\ ret' = "ok"

PushNoGrowth ==
  /\ Full(q) /\ q.grow = 0
  /\ ret' = "XT_ENOBUFS"
  /\ UNCHANGED <<q, fault>>

\* Mutant: the old buffer is freed before the new one is allocated.
PushFreesFirst ==
  /\ Full(q) /\ q.grow # 0
  /\ ret' = "XT_ENOMEM"
  /\ q' = [q EXCEPT !.data = Null]
  /\ UNCHANGED fault

PushNoMemory ==
  /\ Full(q) /\ q.grow # 0
  /\ ret' = "XT_ENOMEM"
  /\ UNCHANGED <<q, fault>>

PushGrow(v) ==
  LET n == q.capacity + Increment(q)
      r == Resized(q, n)
  IN  /\ Full(q) /\ q.grow # 0 /\ MayAlloc(n)
      /\ q' = Stored(r, v)
      /\ fault' = (fault \/ ResizeFaults(q, n) \/ r.front \notin DOMAIN r.data)
      /\ ret' = "ok"

Push(v) ==
  /\ Live
  /\ PushWithRoom(v) \/ PushNoGrowth \/ PushNoMemory \/ PushGrow(v)
  /\ UNCHANGED top

Peek ==
  /\ Live
  /\ \/ q.count = 0 /\ ret' = "false" /\ UNCHANGED <<top, fault>>
     \/ /\ q.count # 0
        /\ top' = Load(q, q.rear)
        /\ fault' = (fault \/ q.rear \notin DOMAIN q.data)
        /\ ret' = "true"
  /\ UNCHANGED q

Pop ==
  /\ Live
  /\ \/ q.count = 0 /\ ret' = "false" /\ UNCHANGED <<q, top, fault>>
     \/ /\ q.count # 0
        /\ top' = Load(q, q.rear)
        /\ fault' = (fault \/ q.rear \notin DOMAIN q.data)
        /\ q' = Advanced(q)
        /\ ret' = "true"

\* Mutant: Drop tests the capacity instead of the count.
DropUnchecked ==
  /\ Live
  /\ \/ q.capacity = 0 /\ UNCHANGED q
     \/ q.capacity # 0 /\ q' = Advanced(q)
  /\ ret' = "ok"
  /\ UNCHANGED <<top, fault>>

Drop ==
  /\ Live
  /\ \/ q.count = 0 /\ UNCHANGED q
     \/ q.count # 0 /\ q' = Advanced(q)
  /\ ret' = "ok"
  /\ UNCHANGED <<top, fault>>

SetCapacity(n) ==
  /\ Live
  /\ \/ /\ n = q.capacity \/ MayAlloc(n)
        /\ q' = Resized(q, n)
        /\ fault' = (fault \/ ResizeFaults(q, n))
        /\ ret' = "ok"
     \/ n # q.capacity /\ ret' = "XT_ENOMEM" /\ UNCHANGED <<q, fault>>
  /\ UNCHANGED top
-----------------------------------------------------------------------------
(***************************************************************************)
(* SetCapacity copies from `front', where the oldest element is only when  *)
(* the queue is full (front = rear).  SafeResize is the client's side of   *)
(* the bargain under which a queue keeps its content: resize it while it   *)
(* is empty, enlarge it while it is full, or ask for the capacity it has.  *)
(* Spec is the library used that way; AnySpec lets SetCapacity be called   *)
(* at any time.                                                            *)
(***************************************************************************)
SafeResize(s, n) ==
  \/ n = s.capacity
  \/ s.count = 0
  \/ Full(s) /\ n > s.capacity

Common ==
  \/ \E n \in Capacities : Create(n)
  \/ Destroy
  \/ \E g \in Growths : SetGrowthFactor(g)
  \/ \E v \in Values : Push(v)
  \/ Peek
  \/ Pop
  \/ Drop

Next ==
  \/ Common
  \/ \E n \in Capacities : SafeResize(q, n) /\ SetCapacity(n)

AnyNext ==
  \/ Common
  \/ \E n \in Capacities : SetCapacity(n)

Spec == Init /\ [][Next]_vars

AnySpec == Init /\ [][AnyNext]_vars
-----------------------------------------------------------------------------
Typed(s) ==
  s \in [data : [DOMAIN s.data -> Cell], count : Nat, capacity : Nat,
         front : Nat, rear : Nat, grow : Int]

\* The fields of the struct and the client's variables have their C types.
TypeOK ==
  /\ Typed(q)
  /\ top \in Cell \cup {Nothing}
  /\ ret \in Errors \cup {"ok", "true", "false"}
  /\ fault \in BOOLEAN

\* The index of the element that is popped after i others.
Slot(s, i) == (s.rear + i) % s.capacity

Ring(s) ==
  /\ DOMAIN s.data = 0 .. Slots(s.capacity) - 1
  /\ s.count <= s.capacity
  /\ s.capacity = 0 => s.front = 0 /\ s.rear = 0
  /\ s.capacity # 0 => s.rear < s.capacity /\ s.front = Slot(s, s.count)
  /\ \A i \in 0 .. s.count - 1 : s.data[Slot(s, i)] \in Values

(***************************************************************************)
(* The shape of the ring: the buffer covers the capacity, both indices lie *)
(* in it, the write index is `count' elements ahead of the read index, and *)
(* every element between them was written by a Push.  Push, Pop and the    *)
(* copy loop of SetCapacity each maintain a part of it and rely on the     *)
(* rest; it is the inductive invariant of the proofs.                      *)
(***************************************************************************)
RingOK == Live => Ring(q)

(***************************************************************************)
(* No call reads or writes outside the buffer (data[front] in Push,        *)
(* data[rear] in Peek and Pop, data[i] in the copy loop of SetCapacity),   *)
(* and no client is handed memory that nothing was ever pushed into.       *)
(***************************************************************************)
MemorySafe == ~fault /\ top # Junk

(***************************************************************************)
(* A call that reports an error has left the queue as it was: a Push that  *)
(* cannot grow and a SetCapacity that cannot allocate keep every element.  *)
(***************************************************************************)
ErrorKeepsQueue == [][ret' \in Errors => UNCHANGED <<q, top>>]_vars

\* The elements a client would pop from s, oldest first.
Content(s) == [i \in 1 .. s.count |-> Load(s, Slot(s, i - 1))]

Items == IF Live THEN Content(q) ELSE << >>

(***************************************************************************)
(* The queue is a FIFO: what Peek and Pop hand out is the oldest value     *)
(* pushed and not yet taken, across wrap-around of the ring and            *)
(* reallocation of its buffer.                                             *)
(***************************************************************************)
F == INSTANCE Fifo WITH items <- Items

ImplementsFifo == F!Spec
=============================================================================
