-------------------------------- MODULE Locks -------------------------------
(***************************************************************************)
(* What thread.h promises of a recursive mutex: a thread may lock a mutex  *)
(* that no other thread has locked, again if it likes, and must unlock it  *)
(* as many times as it has locked it before another thread can.            *)
(***************************************************************************)
EXTENDS Naturals

CONSTANTS Threads, Mutexes

VARIABLE held   \* how many times each thread has each mutex locked

Init == held = [t \in Threads |-> [m \in Mutexes |-> 0]]

Lock(t, m) ==
  /\ \A u \in Threads \ {t} : held[u][m] = 0
  /\ held' = [held EXCEPT ![t][m] = @ + 1]

Unlock(t, m) ==
  /\ held[t][m] > 0
  /\ held' = [held EXCEPT ![t][m] = @ - 1]

Next == \E t \in Threads, m \in Mutexes : Lock(t, m) \/ Unlock(t, m)

Spec == Init /\ [][Next]_held
=============================================================================
