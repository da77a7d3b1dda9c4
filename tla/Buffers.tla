------------------------------- MODULE Buffers ------------------------------
(***************************************************************************)
(* What lists and stacks share: the values a client stores, the requests   *)
(* it makes, and buffers from malloc and realloc.  A buffer is a function  *)
(* on the indices of its elements, with an empty domain when the pointer   *)
(* is NULL or dangling.                                                    *)
(***************************************************************************)
EXTENDS Integers, Sequences

CONSTANTS
  Values,           \* what a client stores; the pointers of an xtListP
  Junk,             \* the content of a cell nobody wrote
  Nothing,          \* the client's variable before anything was handed out
  Capacities,       \* capacities a client asks for
  Growths,          \* growth factors a client sets
  DefaultCapacity,  \* XT_LIST_CAPACITY_DEFAULT, XT_STACK_CAPACITY_DEFAULT
  MaxAlloc          \* the largest buffer, in elements, that may be granted

ASSUME BufferAssumption ==
  /\ Junk \notin Values
  /\ Nothing \notin Values \cup {Junk}
  /\ Capacities \subseteq Nat
  /\ Growths \subseteq Int
  /\ DefaultCapacity \in Nat \ {0}
  /\ MaxAlloc \in Nat

Cell == Values \cup {Junk}

Errors == {"XT_EINVAL", "XT_ENOENT", "XT_ENOBUFS", "XT_ENOMEM"}

Codes == Errors \cup {"ok", "true", "false"}

NoBuffer == [i \in {} |-> Junk]

Requested(n) == IF n = 0 THEN DefaultCapacity ELSE n

\* malloc and realloc may grant this many elements; they may also refuse.
Granted(n) == n \in 1 .. MaxAlloc

Malloc(n) == [i \in 0 .. n - 1 |-> Junk]

Realloc(data, n) ==
  [i \in 0 .. n - 1 |-> IF i \in DOMAIN data THEN data[i] ELSE Junk]

\* A block that was freed: no index is in it.
Dangling == [i \in {-1} |-> Junk]

\* A refused realloc keeps the block, except that a size of 0 frees it.
Refused(data, n) == IF n = 0 THEN Dangling ELSE data

Fetch(data, i) == IF i \in DOMAIN data THEN data[i] ELSE Junk

Store(data, i, v) ==
  IF i \in DOMAIN data THEN [data EXCEPT ![i] = v] ELSE data

\* The count of a container whose capacity becomes n.
Fitting(count, n) == IF count > n THEN n ELSE count
=============================================================================
