------------------------------- MODULE ProcWait ------------------------------
(***************************************************************************)
(* xtProcWait: on Linux, linux/proc.c asks again and again whether a PID   *)
(* is in use; on Windows, windows/proc.c waits for a handle, which nobody  *)
(* closes.  Time is counted in units of which SleepTime, the 50 ms of the  *)
(* loop, has several.                                                      *)
(***************************************************************************)
EXTENDS Naturals

CONSTANTS SleepTime,  \* sleepTime
          Timeouts    \* the timeouts clients ask for, 0 for none

ASSUME WaitAssumption == SleepTime \in Nat \ {0} /\ Timeouts \subseteq Nat

VARIABLES
  procSystem,  \* the build: "linux" or "windows"
  holder,      \* what has the PID: the process, a later one, one that ended, nothing
  leaked,      \* a handle is open
  waiting,     \* where the call is
  asked,       \* the timeout it was given
  left,        \* the variable timeout
  slept,       \* how often a call with a timeout has slept
  waitRet      \* what the last call returned

waitVars == <<procSystem, holder, leaked, waiting, asked, left, slept, waitRet>>

\* kill(pid, 0) and OpenProcess also find a process that has ended, as long
\* as its parent has not waited for it, or a handle to it is open.
IsAlive == holder # "nothing"

WaitInit ==
  /\ procSystem \in {"linux", "windows"} /\ holder = "process" /\ leaked = FALSE
  /\ waiting = "no" /\ asked = 0 /\ left = 0 /\ slept = 0 /\ waitRet = "none"
-----------------------------------------------------------------------------
\* A process ends, the system forgets it, and reuses its PID.
HolderChanges ==
  /\ \/ holder \in {"process", "later"} /\ holder' = "ended"
     \/ holder = "ended" /\ ~leaked /\ holder' = "nothing"
     \/ holder = "nothing" /\ holder' = "later"
  /\ UNCHANGED <<procSystem, leaked, waiting, asked, left, slept, waitRet>>

Answer(ret) == waiting' = "no" /\ waitRet' = ret

ProcWait ==
  /\ waiting = "no"
  /\ asked' \in Timeouts /\ left' = asked' /\ slept' = 0
  /\ \/ procSystem = "linux" /\ ~IsAlive /\ Answer("XT_ENOENT") /\ UNCHANGED leaked
     \/ procSystem = "linux" /\ IsAlive /\ waiting' = "test" /\ UNCHANGED <<leaked, waitRet>>
     \/ procSystem = "windows" /\ Answer("error") /\ UNCHANGED leaked
     \/ procSystem = "windows" /\ IsAlive /\ waiting' = "object" /\ leaked' = TRUE /\ UNCHANGED waitRet
  /\ UNCHANGED <<procSystem, holder>>

\* Mutant: a timeout of 0 is one like any other.
TimedOutAtZero == left <= SleepTime

TimedOut == left # 0 /\ left <= SleepTime

WaitTest ==
  /\ waiting = "test"
  /\ \/ ~IsAlive /\ Answer("ok") /\ UNCHANGED left
     \/ IsAlive /\ TimedOut /\ Answer("XT_ETIMEDOUT") /\ UNCHANGED left
     \/ /\ IsAlive /\ ~TimedOut
        /\ left' = IF left # 0 THEN left - SleepTime ELSE 0
        /\ waiting' = "sleep" /\ UNCHANGED waitRet
  /\ UNCHANGED <<procSystem, holder, leaked, asked, slept>>

\* slept stays at 0 in a call without a timeout.
WaitSleep ==
  /\ waiting = "sleep" /\ waiting' = "test"
  /\ slept' = IF asked = 0 THEN 0 ELSE slept + 1
  /\ UNCHANGED <<procSystem, holder, leaked, asked, left, waitRet>>

\* WaitForSingleObject, with INFINITE for 0.
WaitObject ==
  /\ waiting = "object"
  /\ \/ holder = "ended" /\ Answer("ok")
     \/ asked # 0 /\ holder # "ended" /\ Answer("XT_ETIMEDOUT")
     \/ Answer("error")
  /\ UNCHANGED <<procSystem, holder, leaked, asked, left, slept>>

WaitNext == HolderChanges \/ ProcWait \/ WaitTest \/ WaitSleep \/ WaitObject

\* The waiter runs, its sleeps end, and WaitForSingleObject notices what it
\* waits for.
WaitFairness ==
  /\ WF_waitVars(WaitTest) /\ WF_waitVars(WaitSleep)
  /\ WF_waitVars(WaitObject /\ waitRet' # "error")

WaitSpec == WaitInit /\ [][WaitNext]_waitVars /\ WaitFairness
-----------------------------------------------------------------------------
WaitTypeOK ==
  /\ procSystem \in {"linux", "windows"} /\ leaked \in BOOLEAN
  /\ holder \in {"process", "later", "ended", "nothing"}
  /\ waiting \in {"no", "test", "sleep", "object"}
  /\ asked \in Timeouts \cup {0} /\ left \in 0 .. asked /\ slept \in 0 .. asked
  /\ waitRet \in {"none", "ok", "error", "XT_ENOENT", "XT_ETIMEDOUT"}

\* What the waiter can notice of the end of a process.
Gone == IF procSystem = "windows" THEN holder = "ended" ELSE ~IsAlive

\* "ok" is never said of a process that runs.
EndedWhenOk == waitRet = "ok" => holder # "process"

\* Linux reports a timeout at most one sleep early and never late.
TimeoutOnTime ==
  waiting = "no" /\ waitRet = "XT_ETIMEDOUT" /\ procSystem = "linux" =>
    slept * SleepTime < asked /\ asked <= (slept + 1) * SleepTime

(***************************************************************************)
(* proc.h: "Blocks for a maximum of timeout milliseconds until the         *)
(* specified process has terminated."  Next to the two facts above, a call *)
(* with a timeout returns; one without returns when the process is gone    *)
(* and its PID stays unused.                                               *)
(***************************************************************************)
WaitAnswers ==
  /\ [](EndedWhenOk /\ TimeoutOnTime)
  /\ (asked # 0 /\ waiting # "no") ~> (waiting = "no")
  /\ <>[]Gone => []<>(waiting = "no")
=============================================================================
