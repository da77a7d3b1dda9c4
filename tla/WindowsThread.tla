----------------------------- MODULE WindowsThread --------------------------
(***************************************************************************)
(* The threads of windows/thread.c: Create, Suspend, Continue and Join     *)
(* over SuspendThread, ResumeThread and an exit event.  The suspend count  *)
(* is changed and read under a mutex only, so that a locked section is one *)
(* step (WindowsMutex shows that the mutexes exclude).  A section and the  *)
(* system call behind it are two.                                          *)
(***************************************************************************)
EXTENDS Integers

CONSTANTS Callers,    \* threads that call Continue; one of them creates and joins
          Creator,
          Result,     \* what the thread function returns
          NoResult,   \* the content of funcRet and *ret before
          MaxDebt     \* bound: Continue is not called at a count of -MaxDebt

ASSUME WindowsThreadAssumption ==
  Creator \in Callers /\ Result # NoResult /\ MaxDebt \in Nat

VARIABLES
  suspendCount,  \* t->suspendCount
  handle,        \* t->nativeThread is stored
  exited,        \* t->exitEvent is signalled
  funcRet,       \* t->funcRet
  joined,        \* *ret of Join, or NoResult
  frozen,        \* the suspend count the system keeps for the thread
  target,        \* where the thread is
  caller         \* where each caller is

wtVars == <<suspendCount, handle, exited, funcRet, joined, frozen, target, caller>>

Started == target # "none"

\* The thread runs code of its own.
Running == target = "running" /\ frozen = 0

WtInit ==
  /\ suspendCount = 0 /\ handle = FALSE /\ exited = FALSE
  /\ funcRet = NoResult /\ joined = NoResult
  /\ frozen = 0
  /\ target = "none"
  /\ caller = [c \in Callers |-> "idle"]

\* _beginthreadex starts the thread; its handle is stored when it returns.
\* The client brings a new struct and a new variable for the result.
WtCreate ==
  /\ target = "none" /\ caller[Creator] = "idle"
  /\ suspendCount' = 0 /\ exited' = FALSE /\ handle' = FALSE
  /\ funcRet' = NoResult /\ joined' = NoResult
  /\ target' = "running"
  /\ caller' = [caller EXCEPT ![Creator] = "create"]
  /\ UNCHANGED frozen

StoreHandle ==
  /\ caller[Creator] = "create"
  /\ handle' = TRUE
  /\ caller' = [caller EXCEPT ![Creator] = "idle"]
  /\ UNCHANGED <<suspendCount, exited, funcRet, joined, frozen, target>>

\* Mutant: the count is tested before it is incremented.
SuspendCountsLate ==
  /\ Running
  /\ suspendCount' = suspendCount + 1
  /\ target' = IF suspendCount > 0 THEN "suspend" ELSE "running"
  /\ UNCHANGED <<handle, exited, funcRet, joined, frozen, caller>>

SuspendCounts ==
  /\ Running
  /\ suspendCount' = suspendCount + 1
  /\ target' = IF suspendCount + 1 > 0 THEN "suspend" ELSE "running"
  /\ UNCHANGED <<handle, exited, funcRet, joined, frozen, caller>>

\* SuspendThread on itself; it fails on a handle that is not stored yet.
SuspendSelf ==
  /\ target = "suspend"
  /\ target' = "running"
  /\ frozen' = IF handle THEN frozen + 1 ELSE frozen
  /\ UNCHANGED <<suspendCount, handle, exited, funcRet, joined, caller>>

\* Mutant: only a count below zero resumes.
ContinueCountsBelow(c) ==
  /\ handle /\ Started /\ caller[c] = "idle"
  /\ suspendCount > -MaxDebt
  /\ suspendCount' = suspendCount - 1
  /\ caller' = [caller EXCEPT ![c] = IF suspendCount - 1 < 0 THEN "resume" ELSE "idle"]
  /\ UNCHANGED <<handle, exited, funcRet, joined, frozen, target>>

ContinueCounts(c) ==
  /\ handle /\ Started /\ caller[c] = "idle"
  /\ suspendCount > -MaxDebt
  /\ suspendCount' = suspendCount - 1
  /\ caller' = [caller EXCEPT ![c] = IF suspendCount - 1 <= 0 THEN "resume" ELSE "idle"]
  /\ UNCHANGED <<handle, exited, funcRet, joined, frozen, target>>

Resume(c) ==
  /\ caller[c] = "resume"
  /\ frozen' = IF frozen > 0 THEN frozen - 1 ELSE 0
  /\ caller' = [caller EXCEPT ![c] = "idle"]
  /\ UNCHANGED <<suspendCount, handle, exited, funcRet, joined, target>>

Return ==
  /\ Running
  /\ funcRet' = Result
  /\ target' = "returned"
  /\ UNCHANGED <<suspendCount, handle, exited, joined, frozen, caller>>

Signal ==
  /\ target = "returned"
  /\ exited' = TRUE
  /\ target' = "ended"
  /\ UNCHANGED <<suspendCount, handle, funcRet, joined, frozen, caller>>

\* Mutant: Join does not wait for the event.
WtJoinAtOnce ==
  /\ handle /\ Started /\ frozen = 0 /\ target # "suspend"
  /\ \A c \in Callers : caller[c] = "idle"
  /\ joined' = funcRet
  /\ handle' = FALSE
  /\ target' = "none"
  /\ UNCHANGED <<suspendCount, exited, funcRet, frozen, caller>>

\* Join waits for the event; no other call on the thread is in flight then.
WtJoin ==
  /\ handle /\ Started /\ exited
  /\ \A c \in Callers : caller[c] = "idle"
  /\ joined' = funcRet
  /\ handle' = FALSE
  /\ target' = "none"
  /\ UNCHANGED <<suspendCount, exited, funcRet, frozen, caller>>
-----------------------------------------------------------------------------
(***************************************************************************)
(* WtNext is the thread used by rules its header does not state: it calls  *)
(* Suspend once Create has returned, and a Suspend that has counted, and   *)
(* not yet suspended, does not overlap with a Continue.  WtAnyNext has     *)
(* the first rule only.                                                    *)
(***************************************************************************)
Apart == target # "suspend" /\ \A c \in Callers : caller[c] # "resume"

WtCommon ==
  \/ WtCreate \/ StoreHandle \/ SuspendSelf \/ Return \/ Signal \/ WtJoin
  \/ \E c \in Callers : Resume(c)

WtNext ==
  \/ WtCommon
  \/ handle /\ Apart /\ SuspendCounts
  \/ \E c \in Callers : target # "suspend" /\ ContinueCounts(c)

WtAnyNext ==
  \/ WtCommon
  \/ handle /\ SuspendCounts
  \/ \E c \in Callers : ContinueCounts(c)

\* Whoever is inside a call goes on.
WtFairness ==
  /\ WF_wtVars(SuspendSelf) /\ WF_wtVars(StoreHandle)
  /\ \A c \in Callers : WF_wtVars(Resume(c))

WtSpec == WtInit /\ [][WtNext]_wtVars /\ WtFairness
-----------------------------------------------------------------------------
WtTypeOK ==
  /\ suspendCount \in -MaxDebt .. 1
  /\ frozen \in 0 .. 1
  /\ handle \in BOOLEAN /\ exited \in BOOLEAN
  /\ {funcRet, joined} \subseteq {Result, NoResult}
  /\ target \in {"none", "running", "suspend", "returned", "ended"}
  /\ caller \in [Callers -> {"idle", "create", "resume"}]

(***************************************************************************)
(* thread.h, Continue: "If the suspend count is zero or lower, the thread  *)
(* shall be woken up when asleep."  A thread that the system keeps         *)
(* suspended at such a count has a ResumeThread coming.                    *)
(***************************************************************************)
NoLostContinue ==
  frozen > 0 /\ suspendCount <= 0 => \E c \in Callers : caller[c] = "resume"

(***************************************************************************)
(* thread.h, Join: the client receives "the thread's exit value on         *)
(* success", which the thread stores and the event announces.              *)
(***************************************************************************)
JoinGivesResult == [][Started /\ target' = "none" => joined' = Result]_wtVars

WS == INSTANCE Suspension WITH
        count <- suspendCount,
        asleep <- target = "suspend" \/ frozen > 0

(***************************************************************************)
(* Suspend sleeps exactly when the count becomes positive, and a sleeping  *)
(* thread whose count is zero or lower wakes up.                           *)
(***************************************************************************)
WindowsImplementsSuspension == WS!Spec
=============================================================================
