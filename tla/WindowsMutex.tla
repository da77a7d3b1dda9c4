---------------------------- MODULE WindowsMutex ----------------------------
(***************************************************************************)
(* xtMutex on Windows.  A mutex is a critical section, and one that is     *)
(* statically initialised is made by the first Lock or TryLock that meets  *)
(* it.  To keep two threads from making it at once, both calls run under a *)
(* mutex of the library's own, which the first of all calls creates.       *)
(* Every access to shared memory and every system call is an action of its *)
(* own.                                                                    *)
(***************************************************************************)
EXTENDS Integers

CONSTANTS
  Threads, Mutexes,
  Nobody,       \* the owner of a mutex that is free
  NoMutex,      \* the argument of a thread that is in no call
  MaxDepth      \* bound: how often a thread has one mutex locked

ASSUME MutexAssumption ==
  /\ Nobody \notin Threads
  /\ NoMutex \notin Mutexes
  /\ MaxDepth \in Nat

VARIABLES
  handle,       \* _xtLockMutex is not NULL
  library,      \* the thread that owns the library's mutex
  section,      \* the critical section of each mutex
  pc,           \* where each thread is in the code below
  arg,          \* the mutex each thread's call is for
  try,          \* the call is TryLock
  holds         \* history: how many times each thread has locked each mutex

vars == <<handle, library, section, pc, arg, try, holds>>

\* A statically initialised or destroyed critical section is all zeros.
Zero == [made |-> FALSE, owner |-> Nobody, depth |-> 0]

Made == [made |-> TRUE, owner |-> Nobody, depth |-> 0]

Goto(t, l) == pc' = [pc EXCEPT ![t] = l]

\* Nobody has m locked or is inside a call on it.
Unused(m) == \A t \in Threads : holds[t][m] = 0 /\ arg[t] # m
-----------------------------------------------------------------------------
Init ==
  /\ handle = FALSE
  /\ library = Nobody
  /\ section = [m \in Mutexes |-> Zero]
  /\ pc = [t \in Threads |-> "idle"]
  /\ arg = [t \in Threads |-> NoMutex]
  /\ try = [t \in Threads |-> FALSE]
  /\ holds = [t \in Threads |-> [m \in Mutexes |-> 0]]

\* xtMutexCreate and xtMutexDestroy.  The header forbids to create a mutex
\* twice and to destroy it while it is locked or was never made.
Create(m) ==
  /\ Unused(m) /\ ~section[m].made
  /\ section' = [section EXCEPT ![m] = Made]
  /\ UNCHANGED <<handle, library, pc, arg, try, holds>>

Destroy(m) ==
  /\ Unused(m) /\ section[m].made
  /\ section' = [section EXCEPT ![m] = Zero]
  /\ UNCHANGED <<handle, library, pc, arg, try, holds>>
-----------------------------------------------------------------------------
(***************************************************************************)
(* xtMutexLock and xtMutexTryLock.  A thread that finds no library mutex   *)
(* makes one and installs it by compare-and-swap; when another thread has  *)
(* been faster the loop around the swap never ends, so that Install stays  *)
(* disabled.                                                               *)
(***************************************************************************)
\* Mutant: the critical section is looked at without the library's mutex.
CallUnguarded(t, m, tries) ==
  /\ pc[t] = "idle" /\ holds[t][m] < MaxDepth
  /\ Goto(t, "check")
  /\ arg' = [arg EXCEPT ![t] = m]
  /\ try' = [try EXCEPT ![t] = tries]
  /\ UNCHANGED <<handle, library, section, holds>>

Call(t, m, tries) ==
  /\ pc[t] = "idle" /\ holds[t][m] < MaxDepth
  /\ Goto(t, IF handle THEN "wait" ELSE "install")
  /\ arg' = [arg EXCEPT ![t] = m]
  /\ try' = [try EXCEPT ![t] = tries]
  /\ UNCHANGED <<handle, library, section, holds>>

Install(t) ==
  /\ pc[t] = "install" /\ ~handle
  /\ handle' = TRUE
  /\ Goto(t, "wait")
  /\ UNCHANGED <<library, section, arg, try, holds>>

Acquire(t) ==
  /\ pc[t] = "wait" /\ library = Nobody
  /\ library' = t
  /\ Goto(t, "check")
  /\ UNCHANGED <<handle, section, arg, try, holds>>

\* Mutant: every critical section is taken for one that is all zeros.
CheckNothing(t) ==
  /\ pc[t] = "check"
  /\ Goto(t, "make")
  /\ UNCHANGED <<handle, library, section, arg, try, holds>>

\* _xtMutexIsInit compares the critical section with zeros.
Check(t) ==
  /\ pc[t] = "check"
  /\ Goto(t, IF section[arg[t]].made THEN "enter" ELSE "make")
  /\ UNCHANGED <<handle, library, section, arg, try, holds>>

Make(t) ==
  /\ pc[t] = "make"
  /\ section' = [section EXCEPT ![arg[t]] = Made]
  /\ Goto(t, "enter")
  /\ UNCHANGED <<handle, library, arg, try, holds>>

\* The section of m can be entered by t: it is free or already t's.
Enterable(t, m) == section[m].owner \in {Nobody, t}

\* RtlEnterCriticalSection blocks until the section is free, and
\* RtlTryEnterCriticalSection enters it if it is.
Enter(t) ==
  /\ pc[t] = "enter" /\ Enterable(t, arg[t])
  /\ section' = [section EXCEPT ![arg[t]].owner = t, ![arg[t]].depth = @ + 1]
  /\ holds' = [holds EXCEPT ![t][arg[t]] = @ + 1]
  /\ Goto(t, "release")
  /\ UNCHANGED <<handle, library, arg, try>>

\* Mutant: TryLock reports success for a section it has not entered.
BusyIgnored(t) ==
  /\ pc[t] = "enter" /\ try[t] /\ ~Enterable(t, arg[t])
  /\ holds' = [holds EXCEPT ![t][arg[t]] = @ + 1]
  /\ Goto(t, "release")
  /\ UNCHANGED <<handle, library, section, arg, try>>

\* TryLock: the section is owned by another thread (XT_EBUSY).
Busy(t) ==
  /\ pc[t] = "enter" /\ try[t] /\ ~Enterable(t, arg[t])
  /\ Goto(t, "release")
  /\ UNCHANGED <<handle, library, section, arg, try, holds>>

Release(t) ==
  /\ pc[t] = "release"
  /\ library' = Nobody
  /\ Goto(t, "idle")
  /\ arg' = [arg EXCEPT ![t] = NoMutex]
  /\ try' = [try EXCEPT ![t] = FALSE]
  /\ UNCHANGED <<handle, section, holds>>

\* Mutant: the section is freed at the first of several unlocks.
UnlockAtOnce(t, m) ==
  /\ pc[t] = "idle" /\ holds[t][m] > 0
  /\ section' = [section EXCEPT ![m] = Made]
  /\ holds' = [holds EXCEPT ![t][m] = @ - 1]
  /\ UNCHANGED <<handle, library, pc, arg, try>>

\* xtMutexUnlock, without the library's mutex: the last of a thread's unlocks
\* frees the section.
Unlock(t, m) ==
  /\ pc[t] = "idle" /\ holds[t][m] > 0
  /\ section' = [section EXCEPT
                   ![m].depth = @ - 1,
                   ![m].owner = IF section[m].depth = 1 THEN Nobody ELSE @]
  /\ holds' = [holds EXCEPT ![t][m] = @ - 1]
  /\ UNCHANGED <<handle, library, pc, arg, try>>

Inside(t) ==
  \/ Install(t) \/ Acquire(t) \/ Check(t) \/ Make(t)
  \/ Enter(t) \/ Busy(t) \/ Release(t)

Next ==
  \/ \E m \in Mutexes : Create(m) \/ Destroy(m)
  \/ \E t \in Threads : Inside(t)
  \/ \E t \in Threads, m \in Mutexes, tries \in BOOLEAN : Call(t, m, tries)
  \/ \E t \in Threads, m \in Mutexes : Unlock(t, m)

Spec == Init /\ [][Next]_vars
-----------------------------------------------------------------------------
Labels == {"idle", "install", "wait", "check", "make", "enter", "release"}

Section == [made : BOOLEAN, owner : Threads \cup {Nobody}, depth : Nat]

\* Variables have their types.
TypeOK ==
  /\ handle \in BOOLEAN
  /\ library \in Threads \cup {Nobody}
  /\ section \in [Mutexes -> Section]
  /\ pc \in [Threads -> Labels]
  /\ arg \in [Threads -> Mutexes \cup {NoMutex}]
  /\ \A t \in Threads : arg[t] = NoMutex <=> pc[t] = "idle"
  /\ try \in [Threads -> BOOLEAN]
  /\ holds \in [Threads -> [Mutexes -> Nat]]

(***************************************************************************)
(* No two threads have a mutex locked at once, although the first Lock of  *)
(* a static mutex makes its critical section and would free one that is in *)
(* use, and although Unlock does without the library's mutex.              *)
(***************************************************************************)
MutualExclusion ==
  \A m \in Mutexes : \A t, u \in Threads :
    holds[t][m] > 0 /\ holds[u][m] > 0 => t = u

(***************************************************************************)
(* A mutex that a thread has locked is a critical section it owns, as      *)
(* deeply as it has locked it: it is never made anew or destroyed under    *)
(* its owner, and the owner's last Unlock, no earlier one, frees it.       *)
(***************************************************************************)
HoldersOwn ==
  \A m \in Mutexes, t \in Threads :
    holds[t][m] > 0 => section[m] = [made |-> TRUE, owner |-> t,
                                     depth |-> holds[t][m]]

\* The mutexes behave as recursive locks.
L == INSTANCE Locks WITH held <- holds

ImplementsLocks == L!Spec

(***************************************************************************)
(* thread.h, xtMutexTryLock: "Returns instantly whether or not it failed.  *)
(* Use this to retrieve to the lock to a mutex without blocking."  TryLock *)
(* never waits for a thread that itself waits for another to unlock.       *)
(***************************************************************************)
WaitsForOwner(t) == pc[t] = "enter" /\ ~try[t] /\ ~Enterable(t, arg[t])

TryLockNeverBlocks ==
  \A t \in Threads : try[t] /\ pc[t] = "wait"
    => \A u \in Threads : library = u => ~WaitsForOwner(u)
=============================================================================
