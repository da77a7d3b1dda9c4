--------------------------- MODULE MCWindowsMutex ---------------------------
(***************************************************************************)
(* Three threads and two mutexes, each of which may be locked twice by one *)
(* thread: enough for a thread to make a mutex while a second waits for    *)
(* the library and a third unlocks.                                        *)
(***************************************************************************)
EXTENDS WindowsMutex, TLC

\* Threads and mutexes are told apart by nothing but their names.
MCSymmetry == Permutations(Threads) \cup Permutations(Mutexes)
=============================================================================
