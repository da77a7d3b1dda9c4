------------------------------- MODULE Vector -------------------------------
(***************************************************************************)
(* What a list of the library promises to its client: a sequence that      *)
(* grows at its end, whose elements are replaced, read and removed at any  *)
(* index, and that a smaller capacity cuts off behind it.  Calls that fail *)
(* and calls that only reallocate the buffer are stuttering steps.         *)
(***************************************************************************)
EXTENDS Integers, Sequences, SequencesExt

CONSTANTS Values, Nothing

VARIABLES items, item

vars == <<items, item>>

Init == items = << >> /\ item = Nothing

Append1(v) == items' = Append(items, v) /\ UNCHANGED item

Replace(i, v) == items' = [items EXCEPT ![i] = v] /\ UNCHANGED item

Read(i) == item' = items[i] /\ UNCHANGED items

Delete(i) == items' = RemoveAt(items, i) /\ UNCHANGED item

Cut(n) == items' = SubSeq(items, 1, n) /\ UNCHANGED item

Next ==
  \/ \E v \in Values : Append1(v)
  \/ \E i \in DOMAIN items :
       Read(i) \/ Delete(i) \/ Cut(i - 1) \/ \E v \in Values : Replace(i, v)

Spec == Init /\ [][Next]_vars
=============================================================================
