----------------------------- MODULE Suspension -----------------------------
(***************************************************************************)
(* What thread.h promises of xtThreadSuspend and xtThreadContinue, free of *)
(* locks and condition variables: Suspend adds one to the count and sleeps *)
(* when the result is above zero; Continue subtracts one; a sleeping       *)
(* thread is woken once the count is zero or lower, and never before.      *)
(***************************************************************************)
EXTENDS Integers

VARIABLES count,    \* the thread's suspend count
          asleep    \* the thread is inside Suspend and does not run

vars == <<count, asleep>>

Init == count = 0 /\ asleep = FALSE

\* A new thread starts on the same struct.
Start == ~asleep /\ count' = 0 /\ UNCHANGED asleep

Suspend == ~asleep /\ count' = count + 1 /\ asleep' = (count + 1 > 0)

Continue == count' = count - 1 /\ UNCHANGED asleep

Wake == asleep /\ count <= 0 /\ asleep' = FALSE /\ UNCHANGED count

Next == Start \/ Suspend \/ Continue \/ Wake

Spec == Init /\ [][Next]_vars /\ WF_vars(Wake)
=============================================================================
