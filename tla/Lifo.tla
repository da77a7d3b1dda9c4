-------------------------------- MODULE Lifo --------------------------------
(***************************************************************************)
(* What a stack of the library promises to its client: the values pushed   *)
(* and not yet taken, the newest last, and the last value handed out.  A   *)
(* smaller capacity cuts off the newest.  Calls that fail and calls that   *)
(* only reallocate the buffer are stuttering steps.                        *)
(***************************************************************************)
EXTENDS Integers, Sequences

CONSTANTS Values, Nothing

VARIABLES items, top

vars == <<items, top>>

Newest == items[Len(items)]

Rest == SubSeq(items, 1, Len(items) - 1)

Init == items = << >> /\ top = Nothing

Put(v) == items' = Append(items, v) /\ UNCHANGED top

Look == items # << >> /\ top' = Newest /\ UNCHANGED items

Take == items # << >> /\ top' = Newest /\ items' = Rest

Cut(n) == items' = SubSeq(items, 1, n) /\ UNCHANGED top

Next == (\E v \in Values : Put(v)) \/ Look \/ Take \/ \E n \in 0 .. Len(items) : Cut(n)

Spec == Init /\ [][Next]_vars
=============================================================================
