----------------------------- MODULE LinuxThread ----------------------------
(***************************************************************************)
(* struct xtThread on Linux: one thread of the library, the thread that    *)
(* creates and joins it, and the threads that continue it.  Every access   *)
(* to the shared struct is an action of its own, also between lock and     *)
(* unlock.  Suspend by another thread and Continue by the thread itself    *)
(* return XT_EINVAL and change nothing, so the actions below are those of  *)
(* the callers the code accepts.                                           *)
(***************************************************************************)
EXTENDS Integers, FiniteSets

CONSTANTS
  Controllers,  \* threads that call Continue and GetSuspendCount
  Owner,        \* the controller that creates and joins the thread
  Target,       \* the thread created
  ExitValues,   \* what the thread function may return
  NoValue,      \* a NULL exit value
  Nobody,       \* no thread holds the mutex
  MaxCredit     \* bound: Continue calls ahead of the Suspends they answer

ASSUME ThreadAssumption ==
  /\ Owner \in Controllers
  /\ Target \notin Controllers
  /\ Nobody \notin Controllers \cup {Target}
  /\ NoValue \notin ExitValues
  /\ MaxCredit \in Nat

VARIABLES
  alive,         \* suspendMutex, suspendCond and attr are initialised
  suspendCount,  \* t->suspendCount
  holder,        \* who holds suspendMutex
  pc,            \* where each thread is in the code below
  seen,          \* a controller's local copy of suspendCount
  exitValue,     \* what the thread function returned
  joinRet,       \* *ret of the last Join
  late           \* a mutex or condition was used while not initialised

vars == <<alive, suspendCount, holder, pc, seen, exitValue, joinRet, late>>

Threads == Controllers \cup {Target}

Goto(t, l) == pc' = [pc EXCEPT ![t] = l]

\* A call on the mutex or the condition; undefined once they are destroyed.
Touch == late' = (late \/ ~alive)

Lock(t) == holder = Nobody /\ holder' = t /\ Touch

Unlock == holder' = Nobody /\ Touch
-----------------------------------------------------------------------------
Init ==
  /\ alive = FALSE
  /\ suspendCount = 0
  /\ holder = Nobody
  /\ pc = [t \in Threads |-> IF t = Target THEN "none" ELSE "idle"]
  /\ seen = [c \in Controllers |-> 0]
  /\ exitValue = NoValue
  /\ joinRet = NoValue
  /\ late = FALSE

\* xtThreadCreate: any failure destroys what was initialised before it.
Create ==
  /\ pc[Owner] = "idle" /\ pc[Target] = "none"
  /\ \/ /\ alive' = TRUE
        /\ suspendCount' = 0
        /\ exitValue' = NoValue
        /\ Goto(Target, "run")
     \/ UNCHANGED <<alive, suspendCount, exitValue, pc>>
  /\ UNCHANGED <<holder, seen, joinRet, late>>

\* thread_start: the thread function returns v.
Exit(v) ==
  /\ pc[Target] = "run"
  /\ Goto(Target, "done")
  /\ exitValue' = v
  /\ UNCHANGED <<alive, suspendCount, holder, seen, joinRet, late>>
-----------------------------------------------------------------------------
(***************************************************************************)
(* xtThreadSuspend, called by the thread itself.  pthread_cond_wait        *)
(* releases the mutex and starts to wait in one step, may return without a *)
(* signal, and takes the mutex again before it returns.                    *)
(***************************************************************************)
SuspendCall ==
  /\ pc[Target] = "run"
  /\ Lock(Target)
  /\ Goto(Target, "locked")
  /\ UNCHANGED <<alive, suspendCount, seen, exitValue, joinRet>>

SuspendCount ==
  /\ pc[Target] = "locked"
  /\ suspendCount' = suspendCount + 1
  /\ Goto(Target, "entered")
  /\ UNCHANGED <<alive, holder, seen, exitValue, joinRet, late>>

\* Mutant: the condition is off by one, so a count of one does not sleep.
SuspendTestOffByOne ==
  /\ pc[Target] \in {"entered", "recheck"}
  /\ Goto(Target, IF suspendCount > 1 THEN "sleep" ELSE "leave")
  /\ UNCHANGED <<alive, suspendCount, holder, seen, exitValue, joinRet, late>>

\* The condition of the loop, on entry and after each wakeup.
SuspendTest ==
  /\ pc[Target] \in {"entered", "recheck"}
  /\ Goto(Target, IF suspendCount > 0 THEN "sleep" ELSE "leave")
  /\ UNCHANGED <<alive, suspendCount, holder, seen, exitValue, joinRet, late>>

SuspendWait ==
  /\ pc[Target] = "sleep"
  /\ Unlock
  /\ Goto(Target, "wait")
  /\ UNCHANGED <<alive, suspendCount, seen, exitValue, joinRet>>

SpuriousWakeup ==
  /\ pc[Target] = "wait"
  /\ Goto(Target, "woken")
  /\ UNCHANGED <<alive, suspendCount, holder, seen, exitValue, joinRet, late>>

SuspendRelock ==
  /\ pc[Target] = "woken"
  /\ Lock(Target)
  /\ Goto(Target, "recheck")
  /\ UNCHANGED <<alive, suspendCount, seen, exitValue, joinRet>>

SuspendReturn ==
  /\ pc[Target] = "leave"
  /\ Unlock
  /\ Goto(Target, "run")
  /\ UNCHANGED <<alive, suspendCount, seen, exitValue, joinRet>>
-----------------------------------------------------------------------------
(***************************************************************************)
(* xtThreadContinue: the decrement is under the mutex, the signal is not.  *)
(* Continues that have been called and not yet counted:                    *)
(***************************************************************************)
Pending == {c \in Controllers : pc[c] \in {"want", "decrement"}}

ContinueCall(c) ==
  /\ pc[c] = "idle" /\ alive
  /\ suspendCount - Cardinality(Pending) > -MaxCredit
  /\ Goto(c, "want")
  /\ UNCHANGED <<alive, suspendCount, holder, seen, exitValue, joinRet, late>>

\* Mutant: the count is decremented without the mutex.
ContinueLockFree(c) ==
  /\ pc[c] = "want"
  /\ Goto(c, "decrement")
  /\ Touch
  /\ UNCHANGED <<alive, suspendCount, holder, seen, exitValue, joinRet>>

ContinueLock(c) ==
  /\ pc[c] = "want"
  /\ Lock(c)
  /\ Goto(c, "decrement")
  /\ UNCHANGED <<alive, suspendCount, seen, exitValue, joinRet>>

ContinueDecrement(c) ==
  /\ pc[c] = "decrement"
  /\ suspendCount' = suspendCount - 1
  /\ seen' = [seen EXCEPT ![c] = suspendCount']
  /\ Goto(c, "unlock")
  /\ UNCHANGED <<alive, holder, exitValue, joinRet, late>>

\* Whether to signal is decided by the count as it was under the mutex.
ContinueUnlock(c) ==
  /\ pc[c] = "unlock"
  /\ Unlock
  /\ Goto(c, IF seen[c] <= 0 THEN "signal" ELSE "idle")
  /\ UNCHANGED <<alive, suspendCount, seen, exitValue, joinRet>>

\* Mutant: the signal reaches nobody.
ContinueSignalLost(c) ==
  /\ pc[c] = "signal"
  /\ Goto(c, "idle")
  /\ Touch
  /\ UNCHANGED <<alive, suspendCount, holder, seen, exitValue, joinRet>>

ContinueSignal(c) ==
  /\ pc[c] = "signal"
  /\ pc' = [pc EXCEPT ![c] = "idle",
                      ![Target] = IF @ = "wait" THEN "woken" ELSE @]
  /\ Touch
  /\ UNCHANGED <<alive, suspendCount, holder, seen, exitValue, joinRet>>

\* xtThreadGetSuspendCount.
GetCall(c) ==
  /\ pc[c] = "idle" /\ alive
  /\ Goto(c, "get")
  /\ UNCHANGED <<alive, suspendCount, holder, seen, exitValue, joinRet, late>>

GetLock(c) ==
  /\ pc[c] = "get"
  /\ Lock(c)
  /\ Goto(c, "read")
  /\ UNCHANGED <<alive, suspendCount, seen, exitValue, joinRet>>

GetRead(c) ==
  /\ pc[c] = "read"
  /\ seen' = [seen EXCEPT ![c] = suspendCount]
  /\ Unlock
  /\ Goto(c, "idle")
  /\ UNCHANGED <<alive, suspendCount, exitValue, joinRet>>
-----------------------------------------------------------------------------
\* xtThreadJoin: pthread_join blocks until the thread has returned, and is
\* given no place to store the exit value: *ret is the NULL it started as.
JoinCall ==
  /\ pc[Owner] = "idle" /\ alive
  /\ Goto(Owner, "join")
  /\ UNCHANGED <<alive, suspendCount, holder, seen, exitValue, joinRet, late>>

\* Mutant: Join cleans up without waiting for the thread to return.
JoinNoWait ==
  /\ pc[Owner] = "join"
  /\ alive' = FALSE
  /\ joinRet' = NoValue
  /\ Goto(Owner, "idle")
  /\ UNCHANGED <<suspendCount, holder, seen, exitValue, late>>

Join ==
  /\ pc[Owner] = "join" /\ pc[Target] = "done"
  /\ alive' = FALSE
  /\ joinRet' = NoValue
  /\ pc' = [pc EXCEPT ![Owner] = "idle", ![Target] = "none"]
  /\ UNCHANGED <<suspendCount, holder, seen, exitValue, late>>

(***************************************************************************)
(* Join destroys the mutex and the condition.  Quiet is the client's duty: *)
(* no other call on the thread is in flight when it is joined.             *)
(***************************************************************************)
Quiet == \A c \in Controllers \ {Owner} : pc[c] = "idle"

TargetStep ==
  \/ \E v \in ExitValues : Exit(v)
  \/ SuspendCall \/ SuspendCount \/ SuspendTest \/ SuspendWait
  \/ SpuriousWakeup \/ SuspendRelock \/ SuspendReturn

ControllerStep(c) ==
  \/ ContinueCall(c) \/ ContinueLock(c) \/ ContinueDecrement(c)
  \/ ContinueUnlock(c) \/ ContinueSignal(c)
  \/ GetCall(c) \/ GetLock(c) \/ GetRead(c)

Next ==
  \/ Create
  \/ TargetStep
  \/ \E c \in Controllers : ControllerStep(c)
  \/ JoinCall
  \/ Quiet /\ Join

(***************************************************************************)
(* A thread that runs keeps running: each started call takes its next      *)
(* step.  Relocking the mutex competes with the controllers, so it needs   *)
(* the mutex to be starvation free.  Nobody is obliged to start a call.    *)
(***************************************************************************)
Fairness ==
  /\ WF_vars(SuspendCount) /\ WF_vars(SuspendTest)
  /\ WF_vars(SuspendWait) /\ WF_vars(SuspendReturn)
  /\ SF_vars(SuspendRelock)
  /\ \A c \in Controllers : /\ WF_vars(ContinueDecrement(c))
                            /\ WF_vars(ContinueUnlock(c))
                            /\ WF_vars(ContinueSignal(c))
                            /\ WF_vars(GetRead(c))

Spec == Init /\ [][Next]_vars

FairSpec == Spec /\ Fairness
-----------------------------------------------------------------------------
TargetLabels == {"none", "run", "locked", "entered", "sleep", "wait", "woken",
                 "recheck", "leave", "done"}

ControllerLabels == {"idle", "want", "decrement", "unlock", "signal", "get",
                     "read", "join"}

\* Variables have their types; the suspend count never exceeds one.
TypeOK ==
  /\ alive \in BOOLEAN /\ late \in BOOLEAN
  /\ suspendCount \in Int /\ suspendCount <= 1
  /\ holder \in Threads \cup {Nobody}
  /\ pc \in [Threads -> TargetLabels \cup ControllerLabels]
  /\ pc[Target] \in TargetLabels
  /\ \A c \in Controllers : pc[c] \in ControllerLabels
  /\ \A c \in Controllers : pc[c] = "join" => c = Owner
  /\ seen \in [Controllers -> Int]
  /\ exitValue \in ExitValues \cup {NoValue}
  /\ joinRet \in ExitValues \cup {NoValue}

\* The labels at which a thread is between lock and unlock.
Inside == {"locked", "entered", "sleep", "recheck", "leave",
           "decrement", "unlock", "read"}

\* Whoever is between lock and unlock of suspendMutex holds it, and only they.
MutexHeld == \A t \in Threads : pc[t] \in Inside <=> holder = t

(***************************************************************************)
(* No lost wakeup.  Continue signals after it has released the mutex, so   *)
(* the thread may have begun to wait, woken or come back to wait again in  *)
(* between.  A thread that waits with a count of zero or lower still has a *)
(* signal coming from a Continue in progress.  The mutex is needed for it: *)
(* a Continue between the thread's test of the count and its wait would    *)
(* signal nobody.                                                          *)
(***************************************************************************)
WillSignal(c) ==
  \/ pc[c] = "signal"
  \/ pc[c] = "unlock" /\ seen[c] <= 0

NoLostWakeup ==
  pc[Target] = "wait" /\ suspendCount <= 0
    => \E c \in Controllers : WillSignal(c)

(***************************************************************************)
(* The mutex and the condition are used only between Create and Join, by   *)
(* the thread itself and by every controller.                              *)
(***************************************************************************)
ObjectsAlive == ~late

(***************************************************************************)
(* Only the thread itself suspends, and the count exceeds zero only while  *)
(* it sleeps: a running thread never owes a Suspend, and the count never   *)
(* exceeds one, so a single Continue always wakes a sleeping thread.       *)
(***************************************************************************)
Sleeping ==
  \/ pc[Target] \in {"sleep", "wait", "woken", "recheck"}
  \/ pc[Target] = "entered" /\ suspendCount > 0

OneContinueWakes == suspendCount > 0 => Sleeping

(***************************************************************************)
(* Suspend and Continue behave as thread.h describes them: every count     *)
(* change is a Suspend or a Continue, the thread never runs on before the  *)
(* count is zero or lower, and once it is the thread does wake.            *)
(***************************************************************************)
S == INSTANCE Suspension
       WITH count <- suspendCount, asleep <- Sleeping

ImplementsSuspension == S!Spec
=============================================================================
