------------------------- MODULE WindowsMutexProofs -------------------------
(***************************************************************************)
(* Proofs about WindowsMutex, for any sets of threads and mutexes: mutual  *)
(* exclusion, and that the mutexes are recursive locks.                    *)
(***************************************************************************)
EXTENDS WindowsMutex, TLAPS

\* The labels at which a thread owns the library's mutex.
Guarded == {"check", "make", "enter", "release"}

LibraryHeld == \A t \in Threads : pc[t] \in Guarded <=> library = t

(***************************************************************************)
(* A thread about to make a section has found it all zeros, and one about  *)
(* to enter it has found or made it: nobody else makes or destroys it in   *)
(* between.                                                                *)
(***************************************************************************)
Checked ==
  \A t \in Threads : /\ pc[t] = "make" => ~section[arg[t]].made
                     /\ pc[t] = "enter" => section[arg[t]].made

(***************************************************************************)
(* What the threads hold is what the sections say.                         *)
(***************************************************************************)
Match ==
  \A m \in Mutexes :
    /\ section[m].owner = Nobody => section[m].depth = 0
    /\ ~section[m].made => section[m].owner = Nobody
    /\ \A t \in Threads :
         IF section[m].owner = t
         THEN section[m].depth > 0 /\ holds[t][m] = section[m].depth
         ELSE holds[t][m] = 0

Inv == TypeOK /\ LibraryHeld /\ Checked /\ Match

Step == [L!Next]_holds

USE MutexAssumption

LEMMA InitInv == Init => Inv /\ L!Init
  <1> SUFFICES ASSUME Init PROVE Inv /\ L!Init
    OBVIOUS
  <1> USE DEF Init
  <1>1. TypeOK
    BY DEF TypeOK, Labels, Section, Zero
  <1>2. LibraryHeld
    BY DEF LibraryHeld, Guarded
  <1>3. Checked
    BY DEF Checked
  <1>4. Match
    BY DEF Match, Zero
  <1>5. L!Init
    BY DEF L!Init
  <1> QED
    BY <1>1, <1>2, <1>3, <1>4, <1>5 DEF Inv

\* Nobody is inside a call on a mutex that is created.
LEMMA CreateStep ==
  ASSUME Inv, NEW m \in Mutexes, Create(m)
  PROVE  Inv' /\ Step
  <1> USE DEF Inv, Create, Unused
  <1>1. TypeOK'
    BY DEF TypeOK, Section, Made
  <1>2. LibraryHeld'
    BY DEF LibraryHeld
  <1>3. Checked'
    BY DEF Checked, TypeOK
  <1>4. Match'
    BY DEF Match, TypeOK, Made
  <1> QED
    BY <1>1, <1>2, <1>3, <1>4 DEF Step

\* Nobody has a mutex locked that is destroyed.
LEMMA DestroyStep ==
  ASSUME Inv, NEW m \in Mutexes, Destroy(m)
  PROVE  Inv' /\ Step
  <1> USE DEF Inv, Destroy, Unused
  <1>1. TypeOK'
    BY DEF TypeOK, Section, Zero
  <1>2. LibraryHeld'
    BY DEF LibraryHeld
  <1>3. Checked'
    BY DEF Checked, TypeOK
  <1>4. Match'
    BY DEF Match, TypeOK, Zero
  <1> QED
    BY <1>1, <1>2, <1>3, <1>4 DEF Step

\* A call begins outside the library's mutex.
LEMMA CallStep ==
  ASSUME Inv, NEW t \in Threads, NEW m \in Mutexes, NEW tries \in BOOLEAN,
         Call(t, m, tries)
  PROVE  Inv' /\ Step
  <1> USE DEF Inv, Call, Goto
  <1>1. TypeOK'
    BY DEF TypeOK, Labels
  <1>2. LibraryHeld'
    BY DEF LibraryHeld, TypeOK, Guarded
  <1>3. Checked'
    BY DEF Checked, TypeOK
  <1>4. Match'
    BY DEF Match
  <1> QED
    BY <1>1, <1>2, <1>3, <1>4 DEF Step

\* The winner of the race installs the library's mutex.
LEMMA InstallStep ==
  ASSUME Inv, NEW t \in Threads, Install(t)
  PROVE  Inv' /\ Step
  <1> USE DEF Inv, Install, Goto
  <1>1. TypeOK'
    BY DEF TypeOK, Labels
  <1>2. LibraryHeld'
    BY DEF LibraryHeld, TypeOK, Guarded
  <1>3. Checked'
    BY DEF Checked, TypeOK
  <1>4. Match'
    BY DEF Match
  <1> QED
    BY <1>1, <1>2, <1>3, <1>4 DEF Step

\* The library's mutex is free when it is taken.
LEMMA AcquireStep ==
  ASSUME Inv, NEW t \in Threads, Acquire(t)
  PROVE  Inv' /\ Step
  <1> USE DEF Inv, Acquire, Goto
  <1>1. TypeOK'
    BY DEF TypeOK, Labels
  <1>2. LibraryHeld'
    BY DEF LibraryHeld, TypeOK, Guarded
  <1>3. Checked'
    BY DEF Checked, TypeOK
  <1>4. Match'
    BY DEF Match
  <1> QED
    BY <1>1, <1>2, <1>3, <1>4 DEF Step

\* The thread now knows whether the section is made.
LEMMA CheckStep ==
  ASSUME Inv, NEW t \in Threads, Check(t)
  PROVE  Inv' /\ Step
  <1> USE DEF Inv, Check, Goto
  <1>1. TypeOK'
    BY DEF TypeOK, Labels
  <1>2. LibraryHeld'
    BY DEF LibraryHeld, TypeOK, Guarded
  <1>3. Checked'
    BY DEF Checked, TypeOK
  <1>4. Match'
    BY DEF Match
  <1> QED
    BY <1>1, <1>2, <1>3, <1>4 DEF Step

\* Only one thread makes sections, and this one is all zeros.
LEMMA MakeStep ==
  ASSUME Inv, NEW t \in Threads, Make(t)
  PROVE  Inv' /\ Step
  <1> USE DEF Inv, Make, Goto
  <1>1. arg[t] \in Mutexes
    BY DEF TypeOK
  <1>2. TypeOK'
    BY <1>1 DEF TypeOK, Labels, Section, Made
  <1>3. LibraryHeld'
    BY DEF LibraryHeld, TypeOK, Guarded
  <1>4. Checked'
    BY <1>1 DEF Checked, LibraryHeld, TypeOK, Guarded, Made
  <1>5. Match'
    BY <1>1 DEF Match, Checked, TypeOK, Made
  <1> QED
    BY <1>2, <1>3, <1>4, <1>5 DEF Step

\* Whoever enters a section is alone in it: the step locks the mutex.
LEMMA EnterStep ==
  ASSUME Inv, NEW t \in Threads, Enter(t)
  PROVE  Inv' /\ Step
  <1> USE DEF Inv, Enter, Goto, Enterable
  <1>1. arg[t] \in Mutexes
    BY DEF TypeOK
  <1>2. TypeOK'
    BY <1>1 DEF TypeOK, Labels, Section
  <1>3. LibraryHeld'
    BY DEF LibraryHeld, TypeOK, Guarded
  <1>4. Checked'
    BY <1>1 DEF Checked, TypeOK, Section
  <1>5. Match'
    BY <1>1 DEF Match, Checked, TypeOK, Section
  <1>6. L!Lock(t, arg[t])
    BY <1>1 DEF L!Lock, Match
  <1> QED
    BY <1>1, <1>2, <1>3, <1>4, <1>5, <1>6 DEF Step, L!Next

\* TryLock gives up and changes nothing.
LEMMA BusyStep ==
  ASSUME Inv, NEW t \in Threads, Busy(t)
  PROVE  Inv' /\ Step
  <1> USE DEF Inv, Busy, Goto
  <1>1. TypeOK'
    BY DEF TypeOK, Labels
  <1>2. LibraryHeld'
    BY DEF LibraryHeld, TypeOK, Guarded
  <1>3. Checked'
    BY DEF Checked, TypeOK
  <1>4. Match'
    BY DEF Match
  <1> QED
    BY <1>1, <1>2, <1>3, <1>4 DEF Step

\* The call ends and the library's mutex is free again.
LEMMA ReleaseStep ==
  ASSUME Inv, NEW t \in Threads, Release(t)
  PROVE  Inv' /\ Step
  <1> USE DEF Inv, Release, Goto
  <1>1. TypeOK'
    BY DEF TypeOK, Labels
  <1>2. LibraryHeld'
    BY DEF LibraryHeld, TypeOK, Guarded
  <1>3. Checked'
    BY DEF Checked, TypeOK
  <1>4. Match'
    BY DEF Match
  <1> QED
    BY <1>1, <1>2, <1>3, <1>4 DEF Step

\* The owner leaves its section once, and frees it with its last Unlock.
LEMMA UnlockStep ==
  ASSUME Inv, NEW t \in Threads, NEW m \in Mutexes, Unlock(t, m)
  PROVE  Inv' /\ Step
  <1> USE DEF Inv, Unlock
  <1>1. section[m].owner = t /\ section[m].made
    BY DEF Match, TypeOK
  <1>2. holds[t][m] = section[m].depth /\ section[m].depth \in Nat \ {0}
    BY <1>1 DEF Match, TypeOK, Section
  <1>3. TypeOK'
    <2>1. section[m].depth - 1 \in Nat /\ holds[t][m] - 1 \in Nat
      BY <1>2
    <2>2. section' \in [Mutexes -> Section]
      <3> DEFINE last == IF section[m].depth = 1 THEN Nobody
                                                 ELSE section[m].owner
                 left == [section[m] EXCEPT !.depth = @ - 1, !.owner = last]
      <3>1. section[m] \in Section
        BY DEF TypeOK
      <3>2. last \in Threads \cup {Nobody}
        BY <3>1 DEF Section
      <3> HIDE DEF last
      <3>3. left \in Section
        BY <2>1, <3>1, <3>2 DEF Section
      <3>4. section' = [section EXCEPT ![m] = left]
        BY DEF TypeOK, Section, last
      <3> QED
        BY <3>3, <3>4 DEF TypeOK
    <2>3. holds' \in [Threads -> [Mutexes -> Nat]]
      BY <2>1 DEF TypeOK
    <2> QED
      BY <2>2, <2>3 DEF TypeOK
  <1>4. LibraryHeld'
    BY DEF LibraryHeld
  <1>5. Checked'
    BY DEF Checked, TypeOK, Section
  <1>6. Match'
    BY <1>1, <1>2 DEF Match, TypeOK, Section
  <1>7. L!Unlock(t, m)
    BY DEF L!Unlock
  <1> QED
    BY <1>3, <1>4, <1>5, <1>6, <1>7 DEF Step, L!Next

LEMMA NextStep == Inv /\ [Next]_vars => Inv' /\ Step
  <1> SUFFICES ASSUME Inv, [Next]_vars PROVE Inv' /\ Step
    OBVIOUS
  <1>1. ASSUME NEW m \in Mutexes, Create(m) \/ Destroy(m)
        PROVE  Inv' /\ Step
    BY <1>1, CreateStep, DestroyStep
  <1>2. ASSUME NEW t \in Threads, Inside(t) PROVE Inv' /\ Step
    BY <1>2, InstallStep, AcquireStep, CheckStep, MakeStep, EnterStep,
       BusyStep, ReleaseStep DEF Inside
  <1>3. ASSUME NEW t \in Threads, NEW m \in Mutexes, NEW tries \in BOOLEAN,
               Call(t, m, tries)
        PROVE  Inv' /\ Step
    BY <1>3, CallStep
  <1>4. ASSUME NEW t \in Threads, NEW m \in Mutexes, Unlock(t, m)
        PROVE  Inv' /\ Step
    BY <1>4, UnlockStep
  <1>5. CASE UNCHANGED vars
    BY <1>5 DEF vars, Inv, TypeOK, LibraryHeld, Checked, Match, Step
  <1> QED
    BY <1>1, <1>2, <1>3, <1>4, <1>5 DEF Next

LEMMA Invariance == Spec => []Inv
  <1>1. Init => Inv
    BY InitInv
  <1>2. Inv /\ [Next]_vars => Inv'
    BY NextStep
  <1> QED
    BY <1>1, <1>2, PTL DEF Spec

\* Every variable of the mutexes keeps its type, for any number of threads.
THEOREM MutexTypeCorrect == Spec => []TypeOK
  <1>1. Inv => TypeOK
    BY DEF Inv
  <1> QED
    BY <1>1, Invariance, PTL

\* No two threads have a mutex locked at once, whichever of them made its
\* critical section.
THEOREM Exclusion == Spec => []MutualExclusion
  <1>1. Inv => MutualExclusion
    BY DEF Inv, Match, MutualExclusion, TypeOK
  <1> QED
    BY <1>1, Invariance, PTL

\* A thread that has a mutex locked owns its critical section as deeply.
THEOREM HoldersOwnTheirs == Spec => []HoldersOwn
  <1>1. Inv => HoldersOwn
    <2> SUFFICES ASSUME Inv, NEW m \in Mutexes, NEW t \in Threads,
                        holds[t][m] > 0
                 PROVE  section[m] = [made |-> TRUE, owner |-> t,
                                      depth |-> holds[t][m]]
      BY DEF HoldersOwn
    <2>1. section[m] \in Section
      BY DEF Inv, TypeOK
    <2>2. section[m].owner = t /\ holds[t][m] = section[m].depth
      BY DEF Inv, Match
    <2>3. section[m].made = TRUE
      BY <2>1, <2>2 DEF Inv, Match, Section
    <2> QED
      BY <2>1, <2>2, <2>3 DEF Section
  <1> QED
    BY <1>1, Invariance, PTL

\* The mutexes implement recursive locks: every step locks one, unlocks one
\* or leaves all alone.
THEOREM MutexesAreLocks == Spec => ImplementsLocks
  <1>1. Init => L!Init
    BY InitInv
  <1>2. Inv /\ [Next]_vars => [L!Next]_holds
    BY NextStep DEF Step
  <1> QED
    BY <1>1, <1>2, Invariance, PTL DEF Spec, ImplementsLocks, L!Spec
=============================================================================
