-------------------------------- MODULE Fifo --------------------------------
(***************************************************************************)
(* What a queue of the library promises to its client, free of any ring    *)
(* buffer: the values pushed and not yet taken, oldest first, and the last *)
(* value handed out.  A call that fails, and a call that only reallocates  *)
(* the buffer, is a stuttering step.                                       *)
(***************************************************************************)
EXTENDS Sequences

CONSTANTS Values,   \* what a client may push
          Nothing   \* the content of *top before anything was handed out

VARIABLES items,    \* pushed and not yet taken, oldest first
          top       \* the last value handed out by Peek or Pop

vars == <<items, top>>

Init == items = << >> /\ top = Nothing

Put(v) == items' = Append(items, v) /\ UNCHANGED top

Look == items # << >> /\ top' = Head(items) /\ UNCHANGED items

Take == items # << >> /\ top' = Head(items) /\ items' = Tail(items)

Discard == items # << >> /\ items' = Tail(items) /\ UNCHANGED top

Close == items' = << >> /\ UNCHANGED top

Next == (\E v \in Values : Put(v)) \/ Look \/ Take \/ Discard \/ Close

Spec == Init /\ [][Next]_vars
=============================================================================
