------------------------------- MODULE MCQueue ------------------------------
(***************************************************************************)
(* Instances of Queue: a default capacity of 2 and buffers of up to 5      *)
(* elements let a queue wrap, grow twice and run out of memory.            *)
(***************************************************************************)
EXTENDS Queue

\* Halving growth, no growth and a fixed step larger than one.
MCGrowths == {-2, 0, 2}
=============================================================================
