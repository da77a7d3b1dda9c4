-------------------------- MODULE LinuxThreadProofs -------------------------
(***************************************************************************)
(* Proofs about LinuxThread, for any number of controllers: no wakeup is   *)
(* lost, no destroyed object is used, and every step is a step of          *)
(* Suspension or leaves it alone.  That the wakeup does arrive is liveness *)
(* and is left to TLC.                                                     *)
(***************************************************************************)
EXTENDS LinuxThread, TLAPS

(***************************************************************************)
(* The life of the struct: it is initialised exactly while there is a      *)
(* thread to join, and every call in progress is on an initialised struct. *)
(***************************************************************************)
Life ==
  /\ alive <=> pc[Target] # "none"
  /\ \A c \in Controllers : pc[c] # "idle" => alive
  /\ ~late

(***************************************************************************)
(* Between its test of the count and its wait the thread has tested well:  *)
(* no Continue comes in between, as it would need the mutex.               *)
(***************************************************************************)
Tested == pc[Target] = "sleep" => suspendCount > 0

Wakeups == NoLostWakeup /\ OneContinueWakes /\ Tested

Inv == TypeOK /\ MutexHeld /\ Wakeups /\ Life

Step == [S!Next]_<<suspendCount, Sleeping>>

LEMMA Distinct ==
  /\ Target \in Threads /\ Owner \in Controllers
  /\ Controllers \subseteq Threads
  /\ Nobody \notin Threads
  /\ \A c \in Controllers : c # Target
  BY ThreadAssumption DEF Threads

(***************************************************************************)
(* The conjuncts of TypeOK', apart: the two flags, the values, and pc.     *)
(***************************************************************************)
Values ==
  /\ suspendCount \in Int /\ suspendCount <= 1
  /\ holder \in Threads \cup {Nobody}
  /\ seen \in [Controllers -> Int]
  /\ exitValue \in ExitValues \cup {NoValue}
  /\ joinRet \in ExitValues \cup {NoValue}

Labels ==
  /\ pc \in [Threads -> TargetLabels \cup ControllerLabels]
  /\ pc[Target] \in TargetLabels
  /\ \A c \in Controllers : pc[c] \in ControllerLabels
  /\ \A c \in Controllers : pc[c] = "join" => c = Owner

Flags == alive \in BOOLEAN /\ late \in BOOLEAN

LEMMA TypeParts == TypeOK <=> Flags /\ Values /\ Labels
  BY DEF TypeOK, Flags, Values, Labels

LEMMA InitInv == Init => Inv /\ S!Init
  <1> SUFFICES ASSUME Init PROVE Inv /\ S!Init
    OBVIOUS
  <1> USE Distinct DEF Init
  <1>1. Flags
    BY DEF Flags
  <1>2. Values
    BY DEF Values
  <1>3. Labels
    BY DEF Labels, TargetLabels, ControllerLabels
  <1>4. MutexHeld /\ Wakeups
    BY DEF MutexHeld, Wakeups, NoLostWakeup, OneContinueWakes, Tested, Inside
  <1>5. Life
    BY DEF Life, Threads
  <1>6. S!Init
    BY DEF S!Init, Sleeping
  <1> QED
    BY <1>1, <1>2, <1>3, <1>4, <1>5, <1>6, TypeParts DEF Inv

USE DEF TargetLabels, ControllerLabels

\* Create: nobody is inside a call, and the thread starts with a count of zero.
LEMMA CreateStep ==
  ASSUME Inv, Create
  PROVE  Inv' /\ Step
  <1> USE Distinct, TypeParts DEF Inv, Create, Goto
  <1>1. Values'
    BY DEF Values, Labels
  <1>2. Labels'
    BY DEF Labels
  <1>3. Flags' /\ Life'
    <2>1. Flags'
      BY DEF Flags
    <2>2. Life'
      BY DEF Labels, Life
    <2> QED
      BY <2>1, <2>2
  <1>4. MutexHeld'
    BY DEF Labels, MutexHeld, Inside
  <1>5. Wakeups'
    BY DEF Values, Labels, Wakeups, NoLostWakeup, WillSignal, OneContinueWakes,
       Tested, Sleeping
  <1>6. Step
    BY DEF Values, Labels, Step, S!Next, S!Start, Wakeups, OneContinueWakes, Sleeping
  <1> QED
    BY <1>1, <1>2, <1>3, <1>4, <1>5, <1>6 DEF TypeOK, Flags, Values, Labels

\* The thread function returns; the thread is not inside Suspend.
LEMMA ExitStep ==
  ASSUME Inv, NEW v \in ExitValues, Exit(v)
  PROVE  Inv' /\ Step
  <1> USE Distinct, TypeParts DEF Inv, Exit, Goto
  <1>1. Values'
    BY DEF Values, Labels
  <1>2. Labels'
    BY DEF Labels
  <1>3. Flags' /\ Life'
    BY DEF Labels, Flags, Life
  <1>4. MutexHeld'
    BY DEF Labels, MutexHeld, Inside
  <1>5. Wakeups'
    BY DEF Values, Labels, Wakeups, NoLostWakeup, WillSignal, OneContinueWakes,
       Tested, Sleeping
  <1>6. Step
    BY DEF Values, Labels, Step, Wakeups, OneContinueWakes, Sleeping
  <1> QED
    BY <1>1, <1>2, <1>3, <1>4, <1>5, <1>6 DEF TypeOK, Flags, Values, Labels

\* Suspend takes the mutex: the thread holds it from "locked" on.
LEMMA SuspendCallStep ==
  ASSUME Inv, SuspendCall
  PROVE  Inv' /\ Step
  <1> USE Distinct, TypeParts DEF Inv, SuspendCall, Goto, Lock, Touch
  <1>1. Values'
    BY DEF Values, Labels
  <1>2. Labels'
    BY DEF Labels
  <1>3. Flags' /\ Life'
    BY DEF Labels, Flags, Life
  <1>4. MutexHeld'
    BY DEF Labels, MutexHeld, Inside
  <1>5. Wakeups'
    BY DEF Values, Labels, Wakeups, NoLostWakeup, WillSignal, OneContinueWakes,
       Tested, Sleeping
  <1>6. Step
    BY DEF Values, Labels, Step, Wakeups, OneContinueWakes, Sleeping
  <1> QED
    BY <1>1, <1>2, <1>3, <1>4, <1>5, <1>6 DEF TypeOK, Flags, Values, Labels

\* A running thread has a count of zero or lower, so one more is at most one.
LEMMA SuspendCountStep ==
  ASSUME Inv, SuspendCount
  PROVE  Inv' /\ Step
  <1> USE Distinct, TypeParts DEF Inv, SuspendCount, Goto
  <1>1. Values'
    BY DEF Values, Labels, Wakeups, OneContinueWakes, Sleeping
  <1>2. Labels'
    BY DEF Labels
  <1>3. Flags' /\ Life'
    BY DEF Labels, Flags, Life
  <1>4. MutexHeld'
    BY DEF Labels, MutexHeld, Inside
  <1>5. Wakeups'
    BY DEF Values, Labels, Wakeups, NoLostWakeup, WillSignal, OneContinueWakes,
       Tested, Sleeping
  <1>6. Step
    <2>1. ~Sleeping
      BY DEF Labels, Sleeping
    <2>2. pc'[Target] = "entered"
      BY DEF Labels
    <2>3. suspendCount \in Int /\ suspendCount' = suspendCount + 1
      BY DEF Values
    <2>4. Sleeping' = (suspendCount + 1 > 0)
      <3>1. CASE suspendCount' > 0
        <4>1. Sleeping' = TRUE
          BY <2>2, <3>1 DEF Sleeping
        <4>2. (suspendCount + 1 > 0) = TRUE
          BY <2>3, <3>1
        <4> QED
          BY ONLY <4>1, <4>2
      <3>2. CASE ~(suspendCount' > 0)
        <4>1. Sleeping' = FALSE
          BY <2>2, <3>2 DEF Sleeping
        <4>2. (suspendCount + 1 > 0) = FALSE
          BY <2>3, <3>2
        <4> QED
          BY ONLY <4>1, <4>2
      <3> QED
        BY ONLY <3>1, <3>2
    <2> QED
      BY ONLY <2>1, <2>4, SuspendCount DEF Step, S!Next, S!Suspend, SuspendCount
  <1> QED
    BY <1>1, <1>2, <1>3, <1>4, <1>5, <1>6 DEF TypeOK, Flags, Values, Labels

\* Under the mutex: on to waiting only with a count above zero.
LEMMA SuspendTestStep ==
  ASSUME Inv, SuspendTest
  PROVE  Inv' /\ Step
  <1> USE Distinct, TypeParts DEF Inv, SuspendTest, Goto
  <1>1. Values'
    BY DEF Values, Labels
  <1>2. Labels'
    BY DEF Labels
  <1>3. Flags' /\ Life'
    BY DEF Labels, Flags, Life
  <1>4. MutexHeld'
    BY DEF Labels, MutexHeld, Inside
  <1>5. Wakeups'
    BY DEF Values, Labels, Wakeups, NoLostWakeup, WillSignal, OneContinueWakes,
       Tested, Sleeping
  <1>6. Step
    BY DEF Values, Labels, Step, S!Next, S!Wake, Wakeups, OneContinueWakes,
       Sleeping
  <1> QED
    BY <1>1, <1>2, <1>3, <1>4, <1>5, <1>6 DEF TypeOK, Flags, Values, Labels

\* The count is still above zero when the wait begins.
LEMMA SuspendWaitStep ==
  ASSUME Inv, SuspendWait
  PROVE  Inv' /\ Step
  <1> USE Distinct, TypeParts DEF Inv, SuspendWait, Goto, Unlock, Touch
  <1>1. Values'
    BY DEF Values, Labels
  <1>2. Labels'
    BY DEF Labels
  <1>3. Flags' /\ Life'
    BY DEF Labels, Flags, Life
  <1>4. MutexHeld'
    BY DEF Labels, MutexHeld, Inside
  <1>5. Wakeups'
    BY DEF Values, Labels, Wakeups, NoLostWakeup, WillSignal, OneContinueWakes,
       Tested, Sleeping
  <1>6. Step
    BY DEF Values, Labels, Step, Wakeups, OneContinueWakes, Sleeping
  <1> QED
    BY <1>1, <1>2, <1>3, <1>4, <1>5, <1>6 DEF TypeOK, Flags, Values, Labels

\* A wakeup without a signal leaves the thread asleep.
LEMMA SpuriousWakeupStep ==
  ASSUME Inv, SpuriousWakeup
  PROVE  Inv' /\ Step
  <1> USE Distinct, TypeParts DEF Inv, SpuriousWakeup, Goto
  <1>1. Values'
    BY DEF Values, Labels
  <1>2. Labels'
    BY DEF Labels
  <1>3. Flags' /\ Life'
    BY DEF Labels, Flags, Life
  <1>4. MutexHeld'
    BY DEF Labels, MutexHeld, Inside
  <1>5. Wakeups'
    BY DEF Values, Labels, Wakeups, NoLostWakeup, WillSignal, OneContinueWakes,
       Tested, Sleeping
  <1>6. Step
    BY DEF Values, Labels, Step, Wakeups, OneContinueWakes, Sleeping
  <1> QED
    BY <1>1, <1>2, <1>3, <1>4, <1>5, <1>6 DEF TypeOK, Flags, Values, Labels

\* The woken thread takes the mutex again.
LEMMA SuspendRelockStep ==
  ASSUME Inv, SuspendRelock
  PROVE  Inv' /\ Step
  <1> USE Distinct, TypeParts DEF Inv, SuspendRelock, Goto, Lock, Touch
  <1>1. Values'
    BY DEF Values, Labels
  <1>2. Labels'
    BY DEF Labels
  <1>3. Flags' /\ Life'
    BY DEF Labels, Flags, Life
  <1>4. MutexHeld'
    BY DEF Labels, MutexHeld, Inside
  <1>5. Wakeups'
    BY DEF Values, Labels, Wakeups, NoLostWakeup, WillSignal, OneContinueWakes,
       Tested, Sleeping
  <1>6. Step
    BY DEF Values, Labels, Step, Wakeups, OneContinueWakes, Sleeping
  <1> QED
    BY <1>1, <1>2, <1>3, <1>4, <1>5, <1>6 DEF TypeOK, Flags, Values, Labels

\* The count was zero or lower under the mutex.
LEMMA SuspendReturnStep ==
  ASSUME Inv, SuspendReturn
  PROVE  Inv' /\ Step
  <1> USE Distinct, TypeParts DEF Inv, SuspendReturn, Goto, Unlock, Touch
  <1>1. Values'
    BY DEF Values, Labels
  <1>2. Labels'
    BY DEF Labels
  <1>3. Flags' /\ Life'
    BY DEF Labels, Flags, Life
  <1>4. MutexHeld'
    BY DEF Labels, MutexHeld, Inside
  <1>5. Wakeups'
    BY DEF Values, Labels, Wakeups, NoLostWakeup, WillSignal, OneContinueWakes,
       Tested, Sleeping
  <1>6. Step
    BY DEF Values, Labels, Step, Wakeups, OneContinueWakes, Sleeping
  <1> QED
    BY <1>1, <1>2, <1>3, <1>4, <1>5, <1>6 DEF TypeOK, Flags, Values, Labels

\* A controller starts a Continue.
LEMMA ContinueCallStep ==
  ASSUME Inv, NEW c \in Controllers, ContinueCall(c)
  PROVE  Inv' /\ Step
  <1> USE Distinct, TypeParts DEF Inv, ContinueCall, Goto
  <1>1. Values'
    BY DEF Values, Labels
  <1>2. Labels'
    BY DEF Labels
  <1>3. Flags' /\ Life'
    BY DEF Labels, Flags, Life
  <1>4. MutexHeld'
    BY DEF Labels, MutexHeld, Inside
  <1>5. Wakeups'
    BY DEF Values, Labels, Wakeups, NoLostWakeup, WillSignal, OneContinueWakes,
       Tested, Sleeping
  <1>6. Step
    BY DEF Values, Labels, Step, Wakeups, OneContinueWakes, Sleeping
  <1> QED
    BY <1>1, <1>2, <1>3, <1>4, <1>5, <1>6 DEF TypeOK, Flags, Values, Labels

\* Continue takes the mutex.
LEMMA ContinueLockStep ==
  ASSUME Inv, NEW c \in Controllers, ContinueLock(c)
  PROVE  Inv' /\ Step
  <1> USE Distinct, TypeParts DEF Inv, ContinueLock, Goto, Lock, Touch
  <1>1. Values'
    BY DEF Values, Labels
  <1>2. Labels'
    BY DEF Labels
  <1>3. Flags' /\ Life'
    BY DEF Labels, Flags, Life
  <1>4. MutexHeld'
    BY DEF Labels, MutexHeld, Inside
  <1>5. Wakeups'
    BY DEF Values, Labels, Wakeups, NoLostWakeup, WillSignal, OneContinueWakes,
       Tested, Sleeping
  <1>6. Step
    BY DEF Values, Labels, Step, Wakeups, OneContinueWakes, Sleeping
  <1> QED
    BY <1>1, <1>2, <1>3, <1>4, <1>5, <1>6 DEF TypeOK, Flags, Values, Labels

\* The Continue that brings the count to zero or lower is one that will signal;
\* the mutex keeps it away from a thread between its test and its wait.
LEMMA ContinueDecrementStep ==
  ASSUME Inv, NEW c \in Controllers, ContinueDecrement(c)
  PROVE  Inv' /\ Step
  <1> USE Distinct, TypeParts DEF Inv, ContinueDecrement, Goto
  <1>1. Values'
    BY DEF Values, Labels
  <1>2. Labels'
    BY DEF Labels
  <1>3. Flags' /\ Life'
    BY DEF Labels, Flags, Life
  <1>4. MutexHeld'
    BY DEF Labels, MutexHeld, Inside
  <1>5. Wakeups'
    BY DEF Values, Labels, MutexHeld, Inside, Wakeups, NoLostWakeup, WillSignal, OneContinueWakes,
       Tested, Sleeping
  <1>6. Step
    BY DEF Values, Labels, MutexHeld, Inside, Step, S!Next, S!Continue, Wakeups,
       OneContinueWakes, Sleeping
  <1> QED
    BY <1>1, <1>2, <1>3, <1>4, <1>5, <1>6 DEF TypeOK, Flags, Values, Labels

\* A Continue that has seen a count of zero or lower goes on to signal.
LEMMA ContinueUnlockStep ==
  ASSUME Inv, NEW c \in Controllers, ContinueUnlock(c)
  PROVE  Inv' /\ Step
  <1> USE Distinct, TypeParts DEF Inv, ContinueUnlock, Goto, Unlock, Touch
  <1>1. Values'
    BY DEF Values, Labels
  <1>2. Labels'
    BY DEF Labels
  <1>3. Flags' /\ Life'
    BY DEF Labels, Flags, Life
  <1>4. MutexHeld'
    BY DEF Labels, MutexHeld, Inside
  <1>5. Wakeups'
    BY DEF Values, Labels, Wakeups, NoLostWakeup, WillSignal, OneContinueWakes,
       Tested, Sleeping
  <1>6. Step
    BY DEF Values, Labels, Step, Wakeups, OneContinueWakes, Sleeping
  <1> QED
    BY <1>1, <1>2, <1>3, <1>4, <1>5, <1>6 DEF TypeOK, Flags, Values, Labels

\* After the signal the thread no longer waits.
LEMMA ContinueSignalStep ==
  ASSUME Inv, NEW c \in Controllers, ContinueSignal(c)
  PROVE  Inv' /\ Step
  <1> USE Distinct, TypeParts DEF Inv, ContinueSignal, Touch
  <1>1. Values'
    BY DEF Values, Labels
  <1>2. Labels'
    BY DEF Labels
  <1>3. Flags' /\ Life'
    BY DEF Labels, Flags, Life
  <1>4. MutexHeld'
    BY DEF Labels, MutexHeld, Inside
  <1>5. Wakeups'
    BY DEF Values, Labels, Wakeups, NoLostWakeup, WillSignal, OneContinueWakes,
       Tested, Sleeping
  <1>6. Step
    BY DEF Values, Labels, Step, Wakeups, OneContinueWakes, Sleeping
  <1> QED
    BY <1>1, <1>2, <1>3, <1>4, <1>5, <1>6 DEF TypeOK, Flags, Values, Labels

\* A controller starts GetSuspendCount.
LEMMA GetCallStep ==
  ASSUME Inv, NEW c \in Controllers, GetCall(c)
  PROVE  Inv' /\ Step
  <1> USE Distinct, TypeParts DEF Inv, GetCall, Goto
  <1>1. Values'
    BY DEF Values, Labels
  <1>2. Labels'
    BY DEF Labels
  <1>3. Flags' /\ Life'
    BY DEF Labels, Flags, Life
  <1>4. MutexHeld'
    BY DEF Labels, MutexHeld, Inside
  <1>5. Wakeups'
    BY DEF Values, Labels, Wakeups, NoLostWakeup, WillSignal, OneContinueWakes,
       Tested, Sleeping
  <1>6. Step
    BY DEF Values, Labels, Step, Wakeups, OneContinueWakes, Sleeping
  <1> QED
    BY <1>1, <1>2, <1>3, <1>4, <1>5, <1>6 DEF TypeOK, Flags, Values, Labels

\* GetSuspendCount takes the mutex.
LEMMA GetLockStep ==
  ASSUME Inv, NEW c \in Controllers, GetLock(c)
  PROVE  Inv' /\ Step
  <1> USE Distinct, TypeParts DEF Inv, GetLock, Goto, Lock, Touch
  <1>1. Values'
    BY DEF Values, Labels
  <1>2. Labels'
    BY DEF Labels
  <1>3. Flags' /\ Life'
    BY DEF Labels, Flags, Life
  <1>4. MutexHeld'
    BY DEF Labels, MutexHeld, Inside
  <1>5. Wakeups'
    BY DEF Values, Labels, Wakeups, NoLostWakeup, WillSignal, OneContinueWakes,
       Tested, Sleeping
  <1>6. Step
    BY DEF Values, Labels, Step, Wakeups, OneContinueWakes, Sleeping
  <1> QED
    BY <1>1, <1>2, <1>3, <1>4, <1>5, <1>6 DEF TypeOK, Flags, Values, Labels

\* GetSuspendCount reads the count and releases the mutex.
LEMMA GetReadStep ==
  ASSUME Inv, NEW c \in Controllers, GetRead(c)
  PROVE  Inv' /\ Step
  <1> USE Distinct, TypeParts DEF Inv, GetRead, Goto, Unlock, Touch
  <1>1. Values'
    BY DEF Values, Labels
  <1>2. Labels'
    BY DEF Labels
  <1>3. Flags' /\ Life'
    BY DEF Labels, Flags, Life
  <1>4. MutexHeld'
    BY DEF Labels, MutexHeld, Inside
  <1>5. Wakeups'
    BY DEF Values, Labels, Wakeups, NoLostWakeup, WillSignal, OneContinueWakes,
       Tested, Sleeping
  <1>6. Step
    BY DEF Values, Labels, Step, Wakeups, OneContinueWakes, Sleeping
  <1> QED
    BY <1>1, <1>2, <1>3, <1>4, <1>5, <1>6 DEF TypeOK, Flags, Values, Labels

\* The owner starts to wait for the thread to return.
LEMMA JoinCallStep ==
  ASSUME Inv, JoinCall
  PROVE  Inv' /\ Step
  <1> USE Distinct, TypeParts DEF Inv, JoinCall, Goto
  <1>1. Values'
    BY DEF Values, Labels
  <1>2. Labels'
    BY DEF Labels
  <1>3. Flags' /\ Life'
    BY DEF Labels, Flags, Life
  <1>4. MutexHeld'
    BY DEF Labels, MutexHeld, Inside
  <1>5. Wakeups'
    BY DEF Values, Labels, Wakeups, NoLostWakeup, WillSignal, OneContinueWakes,
       Tested, Sleeping
  <1>6. Step
    BY DEF Values, Labels, Step, Wakeups, OneContinueWakes, Sleeping
  <1> QED
    BY <1>1, <1>2, <1>3, <1>4, <1>5, <1>6 DEF TypeOK, Flags, Values, Labels

\* Join ends the life of the struct: the thread has returned and nobody else is inside a call.
LEMMA JoinStep ==
  ASSUME Inv, Quiet, Join
  PROVE  Inv' /\ Step
  <1> USE Distinct, TypeParts DEF Inv, Join, Quiet
  <1>1. Values'
    BY DEF Values, Labels
  <1>2. Labels'
    BY DEF Labels
  <1>3. Flags' /\ Life'
    BY DEF Labels, Flags, Life
  <1>4. MutexHeld'
    BY DEF Labels, MutexHeld, Inside
  <1>5. Wakeups'
    BY DEF Values, Labels, Wakeups, NoLostWakeup, WillSignal, OneContinueWakes,
       Tested, Sleeping
  <1>6. Step
    BY DEF Values, Labels, Step, Wakeups, OneContinueWakes, Sleeping
  <1> QED
    BY <1>1, <1>2, <1>3, <1>4, <1>5, <1>6 DEF TypeOK, Flags, Values, Labels

LEMMA NextStep == Inv /\ [Next]_vars => Inv' /\ Step
  <1> SUFFICES ASSUME Inv, [Next]_vars PROVE Inv' /\ Step
    OBVIOUS
  <1>1. CASE Create
    BY <1>1, CreateStep
  <1>2. CASE TargetStep
    <2>1. ASSUME NEW v \in ExitValues, Exit(v) PROVE Inv' /\ Step
      BY <2>1, ExitStep
    <2> QED
      BY <1>2, <2>1, SuspendCallStep, SuspendCountStep, SuspendTestStep,
         SuspendWaitStep, SpuriousWakeupStep, SuspendRelockStep,
         SuspendReturnStep DEF TargetStep
  <1>3. ASSUME NEW c \in Controllers, ControllerStep(c) PROVE Inv' /\ Step
    BY <1>3, ContinueCallStep, ContinueLockStep, ContinueDecrementStep,
       ContinueUnlockStep, ContinueSignalStep, GetCallStep, GetLockStep, GetReadStep
       DEF ControllerStep
  <1>4. CASE JoinCall
    BY <1>4, JoinCallStep
  <1>5. CASE Quiet /\ Join
    BY <1>5, JoinStep
  <1>6. CASE UNCHANGED vars
    <2>1. Inv'
      BY <1>6 DEF vars, Inv, TypeOK, MutexHeld, Wakeups, NoLostWakeup,
         WillSignal, OneContinueWakes, Tested, Sleeping, Life, Inside
    <2>2. Step
      BY <1>6 DEF vars, Step, Sleeping
    <2> QED
      BY <2>1, <2>2
  <1> QED
    BY <1>1, <1>2, <1>3, <1>4, <1>5, <1>6 DEF Next

LEMMA Invariance == Spec => []Inv
  <1>1. Init => Inv
    BY InitInv
  <1>2. Inv /\ [Next]_vars => Inv'
    BY NextStep
  <1> QED
    BY <1>1, <1>2, PTL DEF Spec

\* Every variable keeps its type, and the suspend count never exceeds one.
THEOREM ThreadTypeCorrect == Spec => []TypeOK
  <1>1. Inv => TypeOK
    BY DEF Inv
  <1> QED
    BY <1>1, Invariance, PTL

\* suspendMutex is held by exactly the thread that is between its lock and
\* its unlock of it, in Suspend, Continue and GetSuspendCount.
THEOREM MutualExclusion == Spec => []MutexHeld
  <1>1. Inv => MutexHeld
    BY DEF Inv
  <1> QED
    BY <1>1, Invariance, PTL

\* Signalling after the unlock loses no wakeup, whatever the number of
\* threads that call Continue.
THEOREM WakeupsArePending == Spec => []NoLostWakeup
  <1>1. Inv => NoLostWakeup
    BY DEF Inv, Wakeups
  <1> QED
    BY <1>1, Invariance, PTL

\* No call uses the mutex or the condition before Create or after Join, when
\* the client joins with no other call in flight.
THEOREM NoUseAfterJoin == Spec => []ObjectsAlive
  <1>1. Inv => ObjectsAlive
    BY DEF Inv, Life, ObjectsAlive
  <1> QED
    BY <1>1, Invariance, PTL

\* A count above zero means the thread sleeps, so that one Continue wakes it.
THEOREM CountMeansAsleep == Spec => []OneContinueWakes
  <1>1. Inv => OneContinueWakes
    BY DEF Inv, Wakeups
  <1> QED
    BY <1>1, Invariance, PTL

\* Every step of Suspend, Continue, Create and Join is a step of the abstract
\* specification or leaves count and sleep alone: the safety part of
\* ImplementsSuspension.
THEOREM SuspensionSteps == Spec => S!Init /\ [][S!Next]_<<suspendCount, Sleeping>>
  <1>1. Init => S!Init
    BY InitInv
  <1>2. Inv /\ [Next]_vars => [S!Next]_<<suspendCount, Sleeping>>
    BY NextStep DEF Step
  <1> QED
    BY <1>1, <1>2, Invariance, PTL DEF Spec
=============================================================================
