-------------------------------- MODULE Stack -------------------------------
(***************************************************************************)
(* The stacks xtStackHD, D, U, LU and ZU, which have the same code over    *)
(* different element types.                                                *)
(***************************************************************************)
EXTENDS Buffers

VARIABLES
  stack,       \* the struct; stack.data has an empty domain when it is NULL
  topmost,     \* the variable of the client that Peek and Pop write
  stackRet,    \* what the last call returned
  stackFault   \* some call read or wrote outside the buffer

stackVars == <<stack, topmost, stackRet, stackFault>>

StackLive == DOMAIN stack.data # {}

\* Where the next Pop reads, and whether that is outside the buffer.
Top == stack.count - 1

TopFault == stackFault' = (stackFault \/ Top \notin DOMAIN stack.data)

\* How many elements a Push on a full stack adds: at least one.
Increment(s) ==
  LET g == IF s.grow > 0 THEN s.grow ELSE s.capacity \div (-s.grow)
  IN  IF g = 0 THEN 1 ELSE g

Reallocated(s, n) == [s EXCEPT !.data = Realloc(@, n), !.capacity = n]

Pushed(s, v) == [s EXCEPT !.data = Store(@, s.count, v), !.count = @ + 1]
-----------------------------------------------------------------------------
StackInit ==
  /\ stack = [data |-> NoBuffer, count |-> 0, capacity |-> 0, grow |-> -2]
  /\ topmost = Nothing
  /\ stackRet = "ok"
  /\ stackFault = FALSE

\* A stack created with 0 has the default buffer and a capacity of 0.
StackCreate(n) ==
  /\ ~StackLive
  /\ \/ /\ Granted(Requested(n))
        /\ stack' = [data |-> Malloc(Requested(n)), count |-> 0,
                     capacity |-> n, grow |-> -2]
        /\ stackRet' = "ok"
     \/ stackRet' = "XT_ENOMEM" /\ UNCHANGED stack
  /\ UNCHANGED <<topmost, stackFault>>

StackDestroy ==
  /\ stack' = [stack EXCEPT !.data = NoBuffer]
  /\ stackRet' = "ok"
  /\ UNCHANGED <<topmost, stackFault>>

StackSetGrowthFactor(g) ==
  /\ StackLive
  /\ stack' = [stack EXCEPT !.grow = g]
  /\ stackRet' = "ok"
  /\ UNCHANGED <<topmost, stackFault>>

PushOn(s, v) ==
  /\ stack' = Pushed(s, v)
  /\ stackFault' = (stackFault \/ s.count \notin DOMAIN s.data)
  /\ stackRet' = "ok"

PushFails ==
  /\ \/ stack.grow = 0 /\ stackRet' = "XT_ENOBUFS"
     \/ stack.grow # 0 /\ stackRet' = "XT_ENOMEM"
  /\ UNCHANGED <<stack, stackFault>>

PushGrows(v) ==
  LET n == stack.capacity + Increment(stack)
  IN  stack.grow # 0 /\ Granted(n) /\ PushOn(Reallocated(stack, n), v)

StackPush(v) ==
  /\ StackLive
  /\ \/ stack.count # stack.capacity /\ PushOn(stack, v)
     \/ stack.count = stack.capacity /\ (PushFails \/ PushGrows(v))
  /\ UNCHANGED topmost

StackPeek ==
  /\ StackLive
  /\ \/ stack.count = 0 /\ stackRet' = "false" /\ UNCHANGED <<topmost, stackFault>>
     \/ /\ stack.count # 0
        /\ topmost' = Fetch(stack.data, Top)
        /\ TopFault
        /\ stackRet' = "true"
  /\ UNCHANGED stack

\* Mutant: Pop reads the cell behind the top.
StackPopBehind ==
  /\ StackLive /\ stack.count # 0
  /\ topmost' = Fetch(stack.data, stack.count)
  /\ stack' = [stack EXCEPT !.count = @ - 1]
  /\ stackRet' = "true"
  /\ UNCHANGED stackFault

StackPop ==
  /\ StackLive
  /\ \/ /\ stack.count = 0
        /\ stackRet' = "false"
        /\ UNCHANGED <<stack, topmost, stackFault>>
     \/ /\ stack.count # 0
        /\ topmost' = Fetch(stack.data, Top)
        /\ TopFault
        /\ stack' = [stack EXCEPT !.count = @ - 1]
        /\ stackRet' = "true"

StackDrop ==
  /\ StackLive
  /\ stack' = IF stack.count = 0 THEN stack ELSE [stack EXCEPT !.count = @ - 1]
  /\ stackRet' = "ok"
  /\ UNCHANGED <<topmost, stackFault>>

StackRefused(s, n) == [s EXCEPT !.data = Refused(@, n)]

StackSetCapacity(n) ==
  /\ StackLive
  /\ \/ n = stack.capacity /\ stackRet' = "ok" /\ UNCHANGED stack
     \/ /\ n # stack.capacity /\ Granted(n)
        /\ stack' = [Reallocated(stack, n) EXCEPT !.count = Fitting(@, n)]
        /\ stackRet' = "ok"
     \/ /\ n # stack.capacity
        /\ stack' = StackRefused(stack, n)
        /\ stackRet' = "XT_ENOMEM"
  /\ UNCHANGED <<topmost, stackFault>>
-----------------------------------------------------------------------------
(***************************************************************************)
(* StackNext is the stack used with one rule its header does not state: no *)
(* capacity is set to 0, which frees the buffer and reports an error.      *)
(***************************************************************************)
StackNext ==
  \/ \E n \in Capacities : StackCreate(n)
  \/ StackDestroy
  \/ \E g \in Growths : StackSetGrowthFactor(g)
  \/ \E v \in Values : StackPush(v)
  \/ StackPeek \/ StackPop \/ StackDrop
  \/ \E n \in Capacities : (n > 0 \/ stack.capacity = 0) /\ StackSetCapacity(n)

StackSpec == StackInit /\ [][StackNext]_stackVars
-----------------------------------------------------------------------------
\* The fields of the struct and the client's variables have their C types.
StackTypeOK ==
  /\ stack \in [data : [DOMAIN stack.data -> Cell], count : Nat,
               capacity : Nat, grow : Int]
  /\ topmost \in Cell \cup {Nothing}
  /\ stackRet \in Codes
  /\ stackFault \in BOOLEAN

(***************************************************************************)
(* The buffer has the capacity's size (a stack created with 0 has room     *)
(* for the default), the elements lie in it and were pushed, and no call   *)
(* has read or written outside it: Push indexes by a count it compares     *)
(* only for equality with the capacity.                                    *)
(***************************************************************************)
StackBounds ==
  /\ StackLive =>
       /\ DOMAIN stack.data = 0 .. Requested(stack.capacity) - 1
       /\ stack.count <= stack.capacity
       /\ \A i \in 0 .. Top : stack.data[i] \in Values
  /\ topmost # Junk
  /\ ~stackFault

StackItems ==
  IF StackLive THEN [i \in 1 .. stack.count |-> Fetch(stack.data, i - 1)] ELSE << >>

S == INSTANCE Lifo WITH items <- StackItems, top <- topmost

\* Pop and Peek hand out the newest value, through any reallocation.
ImplementsLifo == S!Spec
=============================================================================
