---------------------------- MODULE SystemProofs ----------------------------
(***************************************************************************)
(* Proofs about the components that stand on system calls: the threads of  *)
(* WindowsThread, the listings of DirIterator, the copies of FileCopy, the *)
(* waits of ProcWait and the mappings of WindowsMman.  The last section    *)
(* puts these together with what is proved of lists, stacks and poll sets, *)
(* for MCComponents, where all of them stand side by side.                 *)
(***************************************************************************)
EXTENDS MCComponents, ArrayProofs
-----------------------------------------------------------------------------
(***************************************************************************)
(* The threads of windows/thread.c.  The inductive invariant says where    *)
(* the thread is when it is suspended, that a positive count is one of a   *)
(* thread that sleeps or is about to, and that nobody resumes at a         *)
(* positive count: the second keeps Suspend from counting to 2, the third  *)
(* keeps a Resume from waking a thread too early.                          *)
(***************************************************************************)
WtCount == suspendCount \in Int /\ -MaxDebt <= suspendCount /\ suspendCount <= 1

WtTypes ==
  /\ frozen \in {0, 1}
  /\ handle \in BOOLEAN /\ exited \in BOOLEAN
  /\ funcRet \in {Result, NoResult} /\ joined \in {Result, NoResult}
  /\ target \in {"none", "running", "suspend", "returned", "ended"}
  /\ caller \in [Callers -> {"idle", "create", "resume"}]

WtFacts ==
  /\ frozen = 1 => target = "running" /\ handle
  /\ target = "suspend" => suspendCount = 1 /\ handle
  /\ suspendCount = 1 /\ Started => target = "suspend" \/ frozen = 1
  /\ \A c \in Callers : caller[c] = "resume" => suspendCount <= 0 /\ handle
  /\ handle => Started
  /\ \A c \in Callers : caller[c] = "create" => c = Creator /\ Started /\ ~handle
  /\ exited /\ Started => target = "ended"
  /\ target \in {"returned", "ended"} => funcRet = Result
  /\ frozen = 1 /\ suspendCount <= 0 => \E c \in Callers : caller[c] = "resume"

WtInv == WtCount /\ WtTypes /\ WtFacts

Asleep == target = "suspend" \/ frozen > 0

WtStep == [WS!Next]_<<suspendCount, Asleep>>

LEMMA WtInitInv == WtInit => WtInv /\ WS!Init
  <1> SUFFICES ASSUME WtInit PROVE WtInv /\ WS!Init
    OBVIOUS
  <1>1. WtCount /\ WtTypes
    <2>1. WtCount
      BY WindowsThreadAssumption DEF WtInit, WtCount
    <2>2. WtTypes
      BY WindowsThreadAssumption DEF WtInit, WtTypes
    <2> QED
      BY <2>1, <2>2
  <1>2. WtFacts
    BY DEF WtInit, WtFacts, Started
  <1>3. Asleep = FALSE
    BY DEF WtInit, Asleep
  <1> QED
    BY <1>1, <1>2, <1>3 DEF WtInv, WS!Init, Asleep, WtInit

LEMMA WtCreateStep ==
  ASSUME WtInv, WtCreate
  PROVE  WtInv' /\ WtStep
  <1>1. frozen = 0 /\ ~handle /\ \A c \in Callers : caller[c] # "resume"
    BY DEF WtInv, WtTypes, WtFacts, WtCreate, Started
  <1>2. WtCount' /\ WtTypes'
    <2>1. WtCount'
      BY WindowsThreadAssumption DEF WtCreate, WtCount
    <2>2. WtTypes'
      BY WindowsThreadAssumption DEF WtInv, WtTypes, WtCreate
    <2> QED
      BY <2>1, <2>2
  <1>3. WtFacts'
    BY <1>1 DEF WtInv, WtTypes, WtFacts, WtCreate, Started
  <1>4. Asleep = FALSE /\ Asleep' = FALSE
    BY <1>1 DEF WtCreate, Asleep
  <1>5. WS!Start
    BY <1>4 DEF WtCreate, WS!Start, Asleep
  <1> QED
    BY <1>2, <1>3, <1>5 DEF WtInv, WtStep, WS!Next, Asleep

LEMMA StoreHandleStep ==
  ASSUME WtInv, StoreHandle
  PROVE  WtInv' /\ WtStep
  <1>1. WtCount' /\ WtTypes'
    BY DEF WtInv, WtCount, WtTypes, StoreHandle
  <1>2. Started /\ ~handle
    BY WindowsThreadAssumption DEF WtInv, WtTypes, WtFacts, StoreHandle, Started
  <1>3. WtFacts'
    BY <1>2 DEF WtInv, WtTypes, WtFacts, StoreHandle, Started
  <1> QED
    BY <1>1, <1>3 DEF WtInv, StoreHandle, WtStep, Asleep

\* The thread is awake and nobody resumes it: the count is 0 or below.
LEMMA SuspendCountsStep ==
  ASSUME WtInv, handle, Apart, SuspendCounts
  PROVE  WtInv' /\ WtStep
  <1>1. /\ suspendCount \in Int /\ suspendCount <= 0 /\ -MaxDebt <= suspendCount
        /\ frozen = 0 /\ target = "running"
    BY DEF WtInv, WtCount, WtTypes, WtFacts, SuspendCounts, Running, Started
  <1>2. WtCount'
    BY <1>1, WindowsThreadAssumption DEF WtCount, SuspendCounts
  <1>3. WtTypes'
    BY DEF WtInv, WtTypes, SuspendCounts
  <1>4. target' = IF suspendCount' > 0 THEN "suspend" ELSE "running"
    BY DEF SuspendCounts
  <1>5. WtFacts'
    <2>1. suspendCount' > 0 <=> suspendCount' = 1
      BY <1>2 DEF WtCount
    <2> QED
      BY <1>1, <1>4, <2>1 DEF WtInv, WtTypes, WtFacts, SuspendCounts, Started, Apart
  <1>6. Asleep = FALSE /\ Asleep' = (suspendCount + 1 > 0)
    <2>1. frozen' = 0 /\ suspendCount' = suspendCount + 1
      BY <1>1 DEF SuspendCounts
    <2> QED
      BY <1>1, <1>4, <2>1 DEF Asleep
  <1>7. WS!Suspend
    BY <1>6 DEF WS!Suspend, SuspendCounts, Asleep
  <1> QED
    BY <1>2, <1>3, <1>5, <1>7 DEF WtInv, WtStep, WS!Next, Asleep

LEMMA SuspendSelfStep ==
  ASSUME WtInv, SuspendSelf
  PROVE  WtInv' /\ WtStep
  <1>1. frozen = 0 /\ handle /\ target = "suspend" /\ suspendCount = 1
    BY DEF WtInv, WtTypes, WtFacts, SuspendSelf
  <1>2. frozen' = 1 /\ target' = "running" /\ suspendCount' = 1 /\ handle'
    BY <1>1 DEF SuspendSelf
  <1>3. WtCount' /\ WtTypes'
    BY <1>2 DEF WtInv, WtCount, WtTypes, SuspendSelf
  <1>4. WtFacts'
    BY <1>1, <1>2 DEF WtInv, WtTypes, WtFacts, SuspendSelf, Started
  <1>5. Asleep = TRUE /\ Asleep' = TRUE
    BY <1>1, <1>2 DEF Asleep
  <1> QED
    BY <1>1, <1>2, <1>3, <1>4, <1>5 DEF WtInv, WtStep, Asleep

\* The last Continue that the sleeping thread needs goes on to resume it.
LEMMA ContinueCountsStep ==
  ASSUME WtInv, NEW c \in Callers, target # "suspend", ContinueCounts(c)
  PROVE  WtInv' /\ WtStep
  <1>1. /\ suspendCount \in Int /\ suspendCount <= 1 /\ handle /\ Started
        /\ suspendCount' = suspendCount - 1 /\ suspendCount' <= 0
    BY DEF WtInv, WtCount, ContinueCounts
  <1>2. WtCount'
    <2>1. -MaxDebt \in Int /\ suspendCount > -MaxDebt
      BY WindowsThreadAssumption DEF ContinueCounts
    <2> QED
      BY <1>1, <2>1 DEF WtCount
  <1>3. caller' = [caller EXCEPT ![c] = "resume"]
    BY <1>1 DEF ContinueCounts
  <1>4. WtTypes'
    BY <1>3 DEF WtInv, WtTypes, ContinueCounts
  <1>5. WtFacts'
    <2>1. caller'[c] = "resume" /\ suspendCount' # 1
      BY <1>1, <1>3 DEF WtInv, WtTypes
    <2> QED
      BY <1>1, <1>3, <2>1 DEF WtInv, WtTypes, WtFacts, ContinueCounts, Started
  <1>6. Asleep' = Asleep
    BY DEF ContinueCounts, Asleep
  <1>7. WS!Continue
    BY <1>1, <1>6 DEF WS!Continue, Asleep
  <1> QED
    BY <1>2, <1>4, <1>5, <1>7 DEF WtInv, WtStep, WS!Next, Asleep

LEMMA ResumeStep ==
  ASSUME WtInv, NEW c \in Callers, Resume(c)
  PROVE  WtInv' /\ WtStep
  <1>1. suspendCount <= 0 /\ suspendCount # 1 /\ handle /\ target # "suspend"
    BY DEF WtInv, WtCount, WtTypes, WtFacts, Resume
  <1>2. frozen' = 0
    BY DEF WtInv, WtTypes, Resume
  <1>3. WtCount' /\ WtTypes'
    BY <1>2 DEF WtInv, WtCount, WtTypes, Resume
  <1>4. WtFacts'
    BY <1>1, <1>2 DEF WtInv, WtTypes, WtFacts, Resume, Started
  <1>5. Asleep' = FALSE
    BY <1>1, <1>2 DEF Asleep, Resume
  <1>6. CASE frozen = 0
    <2>1. Asleep = FALSE
      BY <1>1, <1>6 DEF Asleep
    <2> QED
      BY <1>3, <1>4, <1>5, <2>1 DEF WtInv, WtStep, Asleep, Resume
  <1>7. CASE frozen # 0
    <2>1. Asleep = TRUE
      BY <1>7 DEF Asleep, WtInv, WtTypes
    <2>2. WS!Wake
      BY <1>1, <1>5, <2>1 DEF WS!Wake, Asleep, Resume
    <2> QED
      BY <1>3, <1>4, <2>2 DEF WtInv, WtStep, WS!Next, Asleep
  <1> QED
    BY <1>6, <1>7

\* The end of a thread.
LEMMA ReturnStep ==
  ASSUME WtInv, Return \/ Signal \/ WtJoin
  PROVE  WtInv' /\ WtStep
  <1>1. /\ frozen = 0 /\ target # "suspend" /\ suspendCount # 1
        /\ WtJoin => target = "ended" /\ funcRet = Result
    BY DEF WtInv, WtTypes, WtFacts, Return, Running, Signal, WtJoin, Started
  <1>2. frozen' = 0 /\ target' \in {"none", "returned", "ended"} /\ suspendCount' = suspendCount
    BY <1>1 DEF Return, Signal, WtJoin
  <1>3. WtCount' /\ WtTypes'
    BY <1>2 DEF WtInv, WtCount, WtTypes, Return, Signal, WtJoin
  <1>4. WtFacts'
    <2>1. CASE Return
      BY <1>1, <2>1 DEF WtInv, WtTypes, WtFacts, Return, Running, Started
    <2>2. CASE Signal
      BY <1>1, <2>2 DEF WtInv, WtTypes, WtFacts, Signal, Started
    <2>3. CASE WtJoin
      BY <1>1, <2>3 DEF WtInv, WtTypes, WtFacts, WtJoin, Started
    <2> QED
      BY <2>1, <2>2, <2>3
  <1>5. Asleep = FALSE /\ Asleep' = FALSE
    BY <1>1, <1>2 DEF Asleep
  <1> QED
    BY <1>2, <1>3, <1>4, <1>5 DEF WtInv, WtStep, Asleep

\* A thread ends, for its client, with the result of its function.
JoinedResult == Started /\ target' = "none" => joined' = Result

LEMMA WtNextInv == WtInv /\ [WtNext]_wtVars => WtInv' /\ WtStep /\ JoinedResult
  <1> SUFFICES ASSUME WtInv, [WtNext]_wtVars PROVE WtInv' /\ WtStep /\ JoinedResult
    OBVIOUS
  <1>1. CASE UNCHANGED wtVars
    BY <1>1 DEF wtVars, WtInv, WtCount, WtTypes, WtFacts, Started, WtStep, Asleep, JoinedResult
  <1>2. CASE WtCreate
    BY <1>2, WtCreateStep DEF WtCreate, JoinedResult, Started
  <1>3. CASE StoreHandle
    BY <1>3, StoreHandleStep DEF StoreHandle, JoinedResult, Started
  <1>4. CASE SuspendSelf
    BY <1>4, SuspendSelfStep DEF SuspendSelf, JoinedResult
  <1>5. CASE Return \/ Signal \/ WtJoin
    <2>1. JoinedResult
      BY <1>5 DEF Return, Signal, WtJoin, JoinedResult, WtInv, WtTypes, WtFacts
    <2> QED
      BY <1>5, <2>1, ReturnStep
  <1>6. CASE \E c \in Callers : Resume(c)
    BY <1>6, ResumeStep DEF Resume, JoinedResult, Started
  <1>7. CASE handle /\ Apart /\ SuspendCounts
    <2>1. target' # "none"
      BY <1>7 DEF SuspendCounts
    <2> QED
      BY <1>7, <2>1, SuspendCountsStep DEF JoinedResult
  <1>8. CASE \E c \in Callers : target # "suspend" /\ ContinueCounts(c)
    BY <1>8, ContinueCountsStep DEF ContinueCounts, JoinedResult, Started
  <1> QED
    BY <1>1, <1>2, <1>3, <1>4, <1>5, <1>6, <1>7, <1>8 DEF WtNext, WtCommon

\* The counts and places of threads on Windows keep their types (WtTypeOK).
THEOREM WtTypeCorrect == WtSpec => []WtTypeOK
  <1>1. WtInit => WtInv
    BY WtInitInv
  <1>2. WtInv /\ [WtNext]_wtVars => WtInv'
    BY WtNextInv
  <1>3. WtInv => WtTypeOK
    <2> SUFFICES ASSUME WtInv PROVE WtTypeOK
      OBVIOUS
    <2>1. suspendCount \in -MaxDebt .. 1
      BY WindowsThreadAssumption DEF WtInv, WtCount
    <2> QED
      BY <2>1 DEF WtInv, WtTypes, WtTypeOK
  <1> QED
    BY <1>1, <1>2, <1>3, PTL DEF WtSpec

\* A thread that Windows keeps suspended at a count of zero or lower has a
\* ResumeThread coming, by the rules of WtNext (NoLostContinue).
THEOREM NoContinueIsLost == WtSpec => []NoLostContinue
  <1>1. WtInit => WtInv
    BY WtInitInv
  <1>2. WtInv /\ [WtNext]_wtVars => WtInv'
    BY WtNextInv
  <1>3. WtInv => NoLostContinue
    BY DEF WtInv, WtTypes, WtFacts, NoLostContinue
  <1> QED
    BY <1>1, <1>2, <1>3, PTL DEF WtSpec

\* Join gives the result of the thread function and nothing else
\* (JoinGivesResult).
THEOREM JoinGivesTheResult == WtSpec => JoinGivesResult
  <1>1. WtInit => WtInv
    BY WtInitInv
  <1>2. WtInv /\ [WtNext]_wtVars => WtInv' /\ [JoinedResult]_wtVars
    BY WtNextInv
  <1> QED
    BY <1>1, <1>2, PTL DEF WtSpec, JoinGivesResult, JoinedResult

\* Suspend sleeps exactly when the count becomes positive and a sleeping
\* thread is woken at zero or below only: the initial states and steps of
\* Suspension, to which its fairness, that it is woken, is left to the runs.
THEOREM WindowsSuspends == WtSpec => WS!Init /\ [][WS!Next]_(WS!vars)
  <1>1. WtInit => WtInv /\ WS!Init
    BY WtInitInv
  <1>2. WtInv /\ [WtNext]_wtVars => WtInv' /\ [WS!Next]_(WS!vars)
    BY WtNextInv DEF WtStep, Asleep, WS!vars
  <1> QED
    BY <1>1, <1>2, PTL DEF WtSpec
-----------------------------------------------------------------------------
(***************************************************************************)
(* The listings of linux/file.c and windows/file.c.  A file that stays is  *)
(* given already or still pending, and never both: on Windows, where the   *)
(* first name comes with the handle, it may be that name instead.          *)
(***************************************************************************)
HasFirst == Windows /\ dirOpen /\ fileCount = 0

DirTypes ==
  /\ dirSystem \in {"linux", "windows"} /\ dirOpen \in BOOLEAN
  /\ dirFiles \in SUBSET Names /\ dirPending \in SUBSET Names
  /\ dirFirst \in Names \cup {NoName}
  /\ dirRet \in {"ok", "error", "XT_ENOENT"}
  /\ dirGiven \in SUBSET Names /\ dirTwice \in SUBSET dirGiven /\ dirStable \in SUBSET Names

DirFacts ==
  /\ dirFirst # NoName <=> Windows /\ dirOpen
  /\ dirTwice \cap dirStable = {}
  /\ dirRet = "XT_ENOENT" => ~dirOpen /\ dirStable \subseteq dirGiven
  /\ dirOpen =>
       /\ dirStable \cap dirPending \cap dirGiven = {}
       /\ HasFirst => /\ dirStable \subseteq dirPending \cup {dirFirst}
                      /\ dirFirst \notin dirStable \cap dirPending
       /\ ~HasFirst => dirStable \subseteq dirGiven \cup dirPending
       /\ fileCount = 0 => dirGiven = {}

\* The names given and those to come are no more than there are and came.
DirCount ==
  /\ fileCount \in Nat /\ dirChanges \in Nat /\ dirChanges <= MaxChanges
  /\ fileCount <= Cardinality(Names) + MaxChanges
  /\ dirOpen => fileCount + Cardinality(dirPending) + (IF HasFirst THEN 1 ELSE 0)
                  <= Cardinality(Names) + dirChanges

DirInv == DirTypes /\ DirFacts /\ DirCount

\* Sets of names are finite, and what a name more or less makes of their size.
LEMMA NamesAreFinite ==
  ASSUME NEW G \in SUBSET Names
  PROVE  /\ IsFiniteSet(G) /\ Cardinality(G) \in Nat /\ Cardinality(Names) \in Nat
         /\ Cardinality(G) <= Cardinality(Names)
         /\ \A f \in G : Cardinality(G \ {f}) = Cardinality(G) - 1
         /\ \A f : Cardinality(G \ {f}) <= Cardinality(G)
         /\ \A f \in Names : Cardinality(G \cup {f}) <= Cardinality(G) + 1
  <1>1. /\ IsFiniteSet(G) /\ Cardinality(G) \in Nat /\ Cardinality(Names) \in Nat
        /\ Cardinality(G) <= Cardinality(Names)
    BY DirAssumption, FS_Subset, FS_CardinalityType
  <1>2. ASSUME NEW f \in G PROVE Cardinality(G \ {f}) = Cardinality(G) - 1
    BY <1>1, FS_RemoveElement
  <1>3. ASSUME NEW f PROVE Cardinality(G \ {f}) <= Cardinality(G)
    BY <1>1, <1>2, FS_RemoveElement
  <1>4. ASSUME NEW f PROVE Cardinality(G \cup {f}) <= Cardinality(G) + 1
    <2>1. Cardinality(G \cup {f})
            = IF f \in G THEN Cardinality(G) ELSE Cardinality(G) + 1
      BY <1>1, FS_AddElement, Zenon
    <2> QED
      BY <1>1, <2>1
  <1> QED
    BY <1>1, <1>2, <1>3, <1>4

LEMMA DirInitInv == DirInit => DirInv
  <1> SUFFICES ASSUME DirInit PROVE DirInv
    OBVIOUS
  <1>1. DirTypes
    BY DirAssumption DEF DirInit, DirTypes
  <1>2. DirFacts
    BY DEF DirInit, DirFacts
  <1>3. DirCount
    BY DirAssumption, NamesAreFinite DEF DirInit, DirCount
  <1> QED
    BY <1>1, <1>2, <1>3 DEF DirInv

LEMMA DirStartStep ==
  ASSUME DirInv, DirStart
  PROVE  DirInv'
  <1>1. ~dirOpen /\ dirFirst = NoName
    BY DEF DirInv, DirFacts, DirStart
  <1>2. /\ dirSystem' = dirSystem /\ dirFiles' = dirFiles /\ dirGiven' = {} /\ dirTwice' = {}
        /\ dirStable' = dirFiles /\ dirChanges' = 0
    BY DEF DirStart
  <1>3. CASE NotOpened
    <2>1. ~dirOpen' /\ dirFirst' = NoName /\ fileCount' = fileCount /\ dirPending' = dirPending
          /\ dirRet' \in {"ok", "error"} /\ dirOpen' \in BOOLEAN
      BY <1>1, <1>3 DEF NotOpened, DirInv, DirTypes
    <2>2. DirTypes'
      BY <1>2, <2>1 DEF DirInv, DirTypes
    <2>3. DirFacts'
      BY <1>2, <2>1 DEF DirFacts
    <2>4. DirCount'
      BY <1>2, <2>1, DirAssumption DEF DirInv, DirCount
    <2> QED
      BY <2>2, <2>3, <2>4 DEF DirInv
  <1>4. CASE Opened /\ ~Windows
    <2>1. /\ dirOpen' = TRUE /\ fileCount' = 0 /\ dirRet' = "ok" /\ dirPending' = dirFiles
          /\ dirFirst' = NoName /\ ~Windows'
      BY <1>1, <1>2, <1>4 DEF Opened, Windows
    <2>2. DirTypes'
      BY <1>2, <2>1 DEF DirInv, DirTypes
    <2>3. DirFacts'
      BY <1>2, <2>1 DEF DirFacts, HasFirst
    <2>4. DirCount'
      <3>1. Cardinality(dirFiles) <= Cardinality(Names) /\ Cardinality(dirFiles) \in Nat
            /\ Cardinality(Names) \in Nat
        BY NamesAreFinite DEF DirInv, DirTypes
      <3> QED
        BY <1>2, <2>1, <3>1, DirAssumption DEF DirCount, HasFirst
    <2> QED
      BY <2>2, <2>3, <2>4 DEF DirInv
  <1>5. CASE Opened /\ Windows
    <2>1. PICK f \in dirFiles : dirFirst' = f /\ dirPending' = dirFiles \ {f}
      BY <1>5 DEF Opened
    <2>2. dirOpen' = TRUE /\ fileCount' = 0 /\ dirRet' = "ok" /\ Windows'
      BY <1>2, <1>5 DEF Opened, Windows
    <2>3. f \in Names /\ f # NoName
      BY DirAssumption DEF DirInv, DirTypes
    <2>4. DirTypes'
      BY <1>2, <2>1, <2>2, <2>3 DEF DirInv, DirTypes
    <2>5. DirFacts'
      BY <1>2, <2>1, <2>2, <2>3 DEF DirFacts, HasFirst
    <2>6. DirCount'
      <3>1. /\ Cardinality(dirFiles \ {f}) = Cardinality(dirFiles) - 1
            /\ Cardinality(dirFiles) <= Cardinality(Names) /\ Cardinality(dirFiles) \in Nat
            /\ Cardinality(Names) \in Nat
        BY NamesAreFinite DEF DirInv, DirTypes
      <3> QED
        BY <1>2, <2>1, <2>2, <3>1, DirAssumption DEF DirCount, HasFirst
    <2> QED
      BY <2>4, <2>5, <2>6 DEF DirInv
  <1> QED
    BY <1>3, <1>4, <1>5 DEF DirStart, Opened

LEMMA DirClosedStep ==
  ASSUME DirInv, dirOpen, NEW ret \in {"ok", "error", "XT_ENOENT"}, Closed(ret),
         ret = "XT_ENOENT" => dirStable \subseteq dirGiven
  PROVE  DirInv'
  <1>1. /\ dirOpen' = FALSE /\ dirFirst' = NoName /\ dirRet' = ret /\ dirSystem' = dirSystem
        /\ dirFiles' = dirFiles /\ dirPending' = dirPending /\ fileCount' = fileCount
        /\ dirGiven' = dirGiven /\ dirTwice' = dirTwice /\ dirStable' = dirStable
        /\ dirChanges' = dirChanges
    BY DEF Closed, dirHistory
  <1>2. DirTypes'
    BY <1>1 DEF DirInv, DirTypes
  <1>3. DirFacts'
    BY <1>1 DEF DirInv, DirFacts
  <1>4. DirCount'
    BY <1>1 DEF DirInv, DirCount
  <1> QED
    BY <1>2, <1>3, <1>4 DEF DirInv

LEMMA DirNextStep ==
  ASSUME DirInv, DirNext
  PROVE  DirInv'
  <1>1. CASE HasFirst /\ Cached
    <2>1. /\ dirOpen' = dirOpen /\ dirFirst' = dirFirst /\ dirRet' = "ok"
          /\ dirSystem' = dirSystem /\ dirFiles' = dirFiles /\ dirPending' = dirPending
          /\ fileCount' = fileCount + 1 /\ dirStable' = dirStable /\ dirChanges' = dirChanges
      BY <1>1 DEF Cached, Give
    <2>2. dirGiven = {} /\ dirTwice = {} /\ dirOpen /\ Windows /\ fileCount = 0
          /\ dirFirst \in Names
      BY <1>1, DirAssumption DEF HasFirst, DirInv, DirFacts, DirTypes
    <2>3. dirGiven' = {dirFirst} /\ dirTwice' = {}
      BY <1>1, <2>2 DEF Cached, Give
    <2>4. ~HasFirst' /\ Windows'
      BY <2>1, <2>2 DEF HasFirst, Windows
    <2>5. DirTypes'
      BY <2>1, <2>2, <2>3 DEF DirInv, DirTypes
    <2>6. DirFacts'
      BY <1>1, <2>1, <2>2, <2>3, <2>4 DEF DirInv, DirFacts
    <2>7. DirCount'
      <3>1. Cardinality(dirPending) \in Nat /\ Cardinality(Names) \in Nat
        BY NamesAreFinite DEF DirInv, DirTypes
      <3> QED
        BY <1>1, <2>1, <2>2, <2>4, <3>1, DirAssumption DEF DirInv, DirCount
    <2> QED
      BY <2>5, <2>6, <2>7 DEF DirInv
  <1>2. CASE ~HasFirst /\ dirOpen /\ NextEntry
    <2>1. PICK f \in dirPending : Give(f) /\ dirPending' = dirPending \ {f}
      BY <1>2 DEF NextEntry
    <2>2. /\ dirOpen' = dirOpen /\ dirFirst' = dirFirst /\ dirRet' = "ok"
          /\ dirSystem' = dirSystem /\ dirFiles' = dirFiles
          /\ fileCount' = fileCount + 1 /\ dirStable' = dirStable /\ dirChanges' = dirChanges
          /\ dirGiven' = dirGiven \cup {f}
          /\ dirTwice' = IF f \in dirGiven THEN dirTwice \cup {f} ELSE dirTwice
      BY <2>1 DEF Give
    <2>3. f \in Names /\ (f \in dirGiven => f \notin dirStable) /\ dirTwice \subseteq dirGiven
      BY <1>2, <2>1 DEF DirInv, DirFacts, DirTypes
    <2>4. DirTypes'
      BY <2>1, <2>2, <2>3 DEF DirInv, DirTypes
    <2>5. fileCount' # 0 /\ ~HasFirst' /\ (Windows' <=> Windows)
      BY <2>2 DEF HasFirst, Windows, DirInv, DirCount
    <2>6. DirFacts'
      BY <1>2, <2>1, <2>2, <2>3, <2>5 DEF DirInv, DirFacts
    <2>7. DirCount'
      <3>1. /\ Cardinality(dirPending) \in Nat /\ Cardinality(Names) \in Nat
            /\ Cardinality(dirPending \ {f}) = Cardinality(dirPending) - 1
        BY NamesAreFinite DEF DirInv, DirTypes
      <3>2. Cardinality(dirPending') = Cardinality(dirPending) - 1 /\ Cardinality(dirPending') \in Nat
        BY <2>1, <3>1, <2>4, NamesAreFinite DEF DirTypes
      <3> QED
        BY <1>2, <2>2, <2>5, <3>1, <3>2, DirAssumption DEF DirInv, DirCount
    <2> QED
      BY <2>4, <2>6, <2>7 DEF DirInv
  <1>3. CASE ~HasFirst /\ dirOpen /\ dirPending = {} /\ Closed("XT_ENOENT")
    <2>1. dirStable \subseteq dirGiven
      BY <1>3 DEF DirInv, DirFacts
    <2> QED
      BY <1>3, <2>1, DirClosedStep
  <1>4. CASE dirOpen /\ Closed("error")
    BY <1>4, DirClosedStep
  <1> QED
    BY <1>1, <1>2, <1>3, <1>4 DEF DirNext, ReadFurther, HasFirst

LEMMA DirEndStep ==
  ASSUME DirInv, DirEnd
  PROVE  DirInv'
  <1>1. PICK ret \in {"ok", "error"} : dirOpen /\ Closed(ret)
    BY DEF DirEnd
  <1> QED
    BY <1>1, DirClosedStep

\* A file that comes or goes is not one that stays.
LEMMA DirChangesStep ==
  ASSUME DirInv, DirChanges
  PROVE  DirInv'
  <1> PICK f \in Names :
        /\ dirFiles' = IF f \in dirFiles THEN dirFiles \ {f} ELSE dirFiles \cup {f}
        /\ dirPending' \in IF dirOpen
                           THEN {dirPending \ {f}, dirPending}
                                  \cup (IF f \in dirFiles THEN {} ELSE {dirPending \cup {f}})
                           ELSE {dirPending}
        /\ dirStable' = dirStable \ {f}
    BY DEF DirChanges
  <1>1. /\ dirOpen' = dirOpen /\ dirFirst' = dirFirst /\ dirRet' = dirRet
        /\ dirSystem' = dirSystem /\ fileCount' = fileCount /\ dirGiven' = dirGiven
        /\ dirTwice' = dirTwice /\ (dirOpen => dirChanges < MaxChanges)
        /\ dirChanges' = IF dirOpen THEN dirChanges + 1 ELSE dirChanges
    BY DEF DirChanges
  <1>2. /\ dirPending' \in {dirPending \ {f}, dirPending, dirPending \cup {f}}
        /\ ~dirOpen => dirPending' = dirPending
    OBVIOUS
  <1>3. (HasFirst' <=> HasFirst) /\ (Windows' <=> Windows)
    BY <1>1 DEF HasFirst, Windows
  <1>4. DirTypes'
    BY <1>1, <1>2 DEF DirInv, DirTypes
  <1>5. DirFacts'
    <2>1. /\ \A g : g \in dirStable' => g \in dirStable /\ g # f
          /\ \A g : g # f => (g \in dirPending' <=> g \in dirPending)
      BY <1>2
    <2>2. /\ dirFirst' # NoName <=> Windows' /\ dirOpen'
          /\ dirTwice' \cap dirStable' = {}
          /\ dirRet' = "XT_ENOENT" => ~dirOpen' /\ dirStable' \subseteq dirGiven'
      BY <1>1, <1>3, <2>1 DEF DirInv, DirFacts
    <2>3. ASSUME dirOpen'
          PROVE  /\ dirStable' \cap dirPending' \cap dirGiven' = {}
                 /\ HasFirst' => /\ dirStable' \subseteq dirPending' \cup {dirFirst'}
                                 /\ dirFirst' \notin dirStable' \cap dirPending'
                 /\ ~HasFirst' => dirStable' \subseteq dirGiven' \cup dirPending'
                 /\ fileCount' = 0 => dirGiven' = {}
      BY <1>1, <1>3, <2>1, <2>3 DEF DirInv, DirFacts
    <2> QED
      BY <2>2, <2>3 DEF DirFacts
  <1>6. DirCount'
    <2>1. /\ Cardinality(dirPending) \in Nat /\ Cardinality(Names) \in Nat
          /\ Cardinality(dirPending \ {f}) <= Cardinality(dirPending)
          /\ Cardinality(dirPending \cup {f}) <= Cardinality(dirPending) + 1
      BY NamesAreFinite DEF DirInv, DirTypes
    <2>2. Cardinality(dirPending') \in Nat
      BY <1>4, NamesAreFinite DEF DirTypes
    <2>3. Cardinality(dirPending') <= Cardinality(dirPending) + 1
      <3>1. CASE dirPending' = dirPending \ {f}
        <4>1. Cardinality(dirPending') = Cardinality(dirPending \ {f})
          BY <3>1
        <4> QED
          BY <2>1, <2>2, <4>1
      <3>2. CASE dirPending' = dirPending
        <4>1. Cardinality(dirPending') = Cardinality(dirPending)
          BY <3>2
        <4> QED
          BY <2>1, <4>1
      <3>3. CASE dirPending' = dirPending \cup {f}
        <4>1. Cardinality(dirPending') = Cardinality(dirPending \cup {f})
          BY <3>3
        <4> QED
          BY <2>1, <4>1
      <3> QED
        BY <1>2, <3>1, <3>2, <3>3
    <2>4. CASE dirOpen
      BY <1>1, <1>3, <2>1, <2>2, <2>3, <2>4, DirAssumption DEF DirInv, DirCount
    <2>5. CASE ~dirOpen
      BY <1>1, <1>3, <2>5 DEF DirInv, DirCount
    <2> QED
      BY <2>4, <2>5
  <1> QED
    BY <1>4, <1>5, <1>6 DEF DirInv

LEMMA DirNextInv == DirInv /\ [DirIteratorNext]_dirVars => DirInv'
  <1> SUFFICES ASSUME DirInv, [DirIteratorNext]_dirVars PROVE DirInv'
    OBVIOUS
  <1>1. CASE UNCHANGED dirVars
    <2>1. /\ dirOpen' = dirOpen /\ dirFirst' = dirFirst /\ dirRet' = dirRet
          /\ dirSystem' = dirSystem /\ fileCount' = fileCount /\ dirGiven' = dirGiven
          /\ dirTwice' = dirTwice /\ dirChanges' = dirChanges /\ dirStable' = dirStable
          /\ dirFiles' = dirFiles /\ dirPending' = dirPending
      BY <1>1 DEF dirVars, dirHistory
    <2> QED
      BY <2>1 DEF DirInv, DirTypes, DirFacts, DirCount, HasFirst, Windows
  <1> QED
    BY <1>1, DirStartStep, DirNextStep, DirEndStep, DirChangesStep DEF DirIteratorNext

\* The directory, the handle and the history keep their types, and the count
\* of names cannot pass the names there are and came (DirTypeOK).
THEOREM DirTypeCorrect == DirSpec => []DirTypeOK
  <1>1. DirInit => DirInv
    BY DirInitInv
  <1>2. DirInv /\ [DirIteratorNext]_dirVars => DirInv'
    BY DirNextInv
  <1>3. DirInv => DirTypeOK
    <2> SUFFICES ASSUME DirInv PROVE DirTypeOK
      OBVIOUS
    <2>1. fileCount \in 0 .. Cardinality(Names) + MaxChanges
      <3>1. Cardinality(Names) \in Nat
        BY DirAssumption, FS_CardinalityType
      <3> QED
        BY <3>1, DirAssumption DEF DirInv, DirCount
    <2> QED
      BY <2>1 DEF DirInv, DirTypes, DirFacts, DirTypeOK
  <1> QED
    BY <1>1, <1>2, <1>3, PTL DEF DirSpec

\* A listing read to its end has every file that was there all the time, and
\* none of them twice, on both systems (ListingComplete).
THEOREM ListingsAreComplete == DirSpec => []ListingComplete
  <1>1. DirInit => DirInv
    BY DirInitInv
  <1>2. DirInv /\ [DirIteratorNext]_dirVars => DirInv'
    BY DirNextInv
  <1>3. DirInv => ListingComplete
    BY DEF DirInv, DirFacts, ListingComplete
  <1> QED
    BY <1>1, <1>2, <1>3, PTL DEF DirSpec
-----------------------------------------------------------------------------
(***************************************************************************)
(* The waits of linux/proc.c and windows/proc.c.  On Linux what is left of *)
(* the timeout and what was slept make up the timeout: every sleep but the *)
(* one that goes on is counted.                                            *)
(***************************************************************************)
WaitTypes ==
  /\ procSystem \in {"linux", "windows"} /\ leaked \in BOOLEAN
  /\ holder \in {"process", "later", "ended", "nothing"}
  /\ waiting \in {"no", "test", "sleep", "object"}
  /\ waitRet \in {"none", "ok", "error", "XT_ENOENT", "XT_ETIMEDOUT"}
  /\ procSystem = "linux" => waiting # "object"
  /\ procSystem = "windows" => waiting \in {"no", "object"}

WaitCount ==
  /\ asked \in Timeouts \cup {0} /\ left \in Nat /\ slept \in Nat
  /\ left <= asked /\ slept * SleepTime <= asked
  /\ asked = 0 => left = 0 /\ slept = 0
  /\ waiting = "test" /\ asked # 0 => left > 0 /\ left + slept * SleepTime = asked
  /\ waiting = "sleep" /\ asked # 0 =>
       left > 0 /\ left + slept * SleepTime + SleepTime = asked

WaitInv == WaitTypes /\ WaitCount /\ EndedWhenOk /\ TimeoutOnTime

\* One sleep more, and no fewer units than sleeps.
LEMMA SleepsTaken ==
  ASSUME NEW n \in Nat
  PROVE  /\ n * SleepTime \in Nat /\ n <= n * SleepTime
         /\ (n + 1) * SleepTime = n * SleepTime + SleepTime
  <1>1. SleepTime \in Nat /\ SleepTime >= 1
    BY WaitAssumption
  <1>2. n * SleepTime \in Nat
    BY <1>1
  <1>3. (n + 1) * SleepTime = n * SleepTime + SleepTime
    BY <1>1
  <1>4. n * SleepTime >= n * 1
    BY <1>1
  <1> QED
    BY <1>2, <1>3, <1>4

LEMMA WaitInitInv == WaitInit => WaitInv
  <1> SUFFICES ASSUME WaitInit PROVE WaitInv
    OBVIOUS
  <1>1. WaitTypes
    BY DEF WaitInit, WaitTypes
  <1>2. WaitCount
    <2>1. 0 * SleepTime = 0
      BY WaitAssumption
    <2> QED
      BY <2>1 DEF WaitInit, WaitCount
  <1> QED
    BY <1>1, <1>2 DEF WaitInit, WaitInv, EndedWhenOk, TimeoutOnTime

LEMMA ProcWaitStep ==
  ASSUME WaitInv, ProcWait
  PROVE  WaitInv'
  <1>1. /\ asked' \in Timeouts /\ left' = asked' /\ slept' = 0
        /\ procSystem' = procSystem /\ holder' = holder
    BY DEF ProcWait
  <1>2. /\ waiting' \in {"no", "test", "object"}
        /\ waiting' = "no" => waitRet' \in {"XT_ENOENT", "error"}
        /\ waiting' # "no" => waitRet' = waitRet
        /\ waiting' = "object" => procSystem = "windows"
        /\ waiting' = "test" => procSystem = "linux"
        /\ leaked' \in BOOLEAN
    BY DEF ProcWait, Answer, WaitInv, WaitTypes
  <1>3. WaitTypes'
    BY <1>1, <1>2 DEF WaitInv, WaitTypes
  <1>4. WaitCount'
    <2>1. 0 * SleepTime = 0 /\ asked' \in Nat
      BY <1>1, WaitAssumption
    <2> QED
      BY <1>1, <1>2, <2>1 DEF WaitCount
  <1>5. EndedWhenOk' /\ TimeoutOnTime'
    BY <1>1, <1>2 DEF WaitInv, EndedWhenOk, TimeoutOnTime
  <1> QED
    BY <1>3, <1>4, <1>5 DEF WaitInv

\* The timeout is over after as many sleeps as fit, and the one that is left
\* would not end before it.
LEMMA WaitTestStep ==
  ASSUME WaitInv, WaitTest
  PROVE  WaitInv'
  <1>1. /\ procSystem' = procSystem /\ holder' = holder /\ leaked' = leaked /\ asked' = asked
        /\ slept' = slept /\ waiting = "test" /\ procSystem = "linux"
    BY DEF WaitTest, WaitInv, WaitTypes
  <1>2. /\ asked \in Nat /\ left \in Nat /\ slept \in Nat /\ SleepTime \in Nat /\ SleepTime > 0
        /\ slept * SleepTime \in Nat /\ (slept + 1) * SleepTime = slept * SleepTime + SleepTime
        /\ asked # 0 => left > 0 /\ left + slept * SleepTime = asked
        /\ asked = 0 => left = 0
    BY <1>1, WaitAssumption, SleepsTaken DEF WaitInv, WaitCount
  <1>3. CASE ~IsAlive /\ Answer("ok") /\ UNCHANGED left
    <2>1. waiting' = "no" /\ waitRet' = "ok" /\ left' = left /\ holder # "process"
      BY <1>3 DEF Answer, IsAlive
    <2> QED
      BY <1>1, <2>1 DEF WaitInv, WaitTypes, WaitCount, EndedWhenOk, TimeoutOnTime
  <1>4. CASE IsAlive /\ TimedOut /\ Answer("XT_ETIMEDOUT") /\ UNCHANGED left
    <2>1. waiting' = "no" /\ waitRet' = "XT_ETIMEDOUT" /\ left' = left
      BY <1>4 DEF Answer
    <2>2. slept * SleepTime < asked /\ asked <= (slept + 1) * SleepTime
      BY <1>2, <1>4 DEF TimedOut
    <2>3. TimeoutOnTime'
      BY <1>1, <2>2 DEF TimeoutOnTime
    <2> QED
      BY <1>1, <2>1, <2>3 DEF WaitInv, WaitTypes, WaitCount, EndedWhenOk
  <1>5. CASE /\ IsAlive /\ ~TimedOut
             /\ left' = IF left # 0 THEN left - SleepTime ELSE 0
             /\ waiting' = "sleep" /\ UNCHANGED waitRet
    <2>1. left # 0 => left > SleepTime
      BY <1>2, <1>5 DEF TimedOut
    <2>2. waiting' = "sleep" /\ waitRet' = waitRet
      BY <1>5
    <2>3. WaitCount'
      <3>1. CASE asked = 0
        BY <1>1, <1>2, <1>5, <3>1 DEF WaitInv, WaitCount
      <3>2. CASE asked # 0
        <4>1. left' = left - SleepTime /\ left' > 0 /\ left' \in Nat
          BY <1>2, <1>5, <2>1, <3>2
        <4>2. left' + slept * SleepTime + SleepTime = asked /\ left' <= asked
          BY <1>2, <3>2, <4>1
        <4> QED
          BY <1>1, <2>2, <3>2, <4>1, <4>2 DEF WaitInv, WaitCount
      <3> QED
        BY <3>1, <3>2
    <2> QED
      BY <1>1, <2>2, <2>3 DEF WaitInv, WaitTypes, EndedWhenOk, TimeoutOnTime
  <1> QED
    BY <1>3, <1>4, <1>5 DEF WaitTest

LEMMA WaitSleepStep ==
  ASSUME WaitInv, WaitSleep
  PROVE  WaitInv'
  <1>1. /\ procSystem' = procSystem /\ holder' = holder /\ leaked' = leaked /\ asked' = asked
        /\ left' = left /\ waiting = "sleep" /\ waiting' = "test" /\ waitRet' = waitRet
        /\ slept' = IF asked = 0 THEN 0 ELSE slept + 1
    BY DEF WaitSleep
  <1>2. WaitCount'
    <2>1. /\ slept * SleepTime \in Nat /\ (slept + 1) * SleepTime = slept * SleepTime + SleepTime
          /\ 0 * SleepTime = 0 /\ asked \in Nat /\ SleepTime \in Nat /\ left \in Nat /\ slept \in Nat
      BY SleepsTaken, WaitAssumption DEF WaitInv, WaitCount
    <2>2. CASE asked = 0
      BY <1>1, <2>1, <2>2 DEF WaitInv, WaitCount
    <2>3. CASE asked # 0
      <3>1. slept' \in Nat /\ slept' * SleepTime = slept * SleepTime + SleepTime
        BY <1>1, <2>1, <2>3
      <3>2. left > 0 /\ left + slept * SleepTime + SleepTime = asked
        BY <1>1, <2>3 DEF WaitInv, WaitCount
      <3>3. left' + slept' * SleepTime = asked' /\ slept' * SleepTime <= asked'
        BY <1>1, <2>1, <3>1, <3>2
      <3> QED
        BY <1>1, <2>3, <3>1, <3>2, <3>3 DEF WaitInv, WaitCount
    <2> QED
      BY <2>2, <2>3
  <1> QED
    BY <1>1, <1>2 DEF WaitInv, WaitTypes, EndedWhenOk, TimeoutOnTime

LEMMA WaitObjectStep ==
  ASSUME WaitInv, WaitObject
  PROVE  WaitInv'
  <1>1. /\ procSystem' = procSystem /\ holder' = holder /\ leaked' = leaked /\ asked' = asked
        /\ left' = left /\ slept' = slept /\ procSystem = "windows" /\ waiting' = "no"
        /\ waitRet' \in {"ok", "error", "XT_ETIMEDOUT"}
        /\ waitRet' = "ok" => holder = "ended"
    BY DEF WaitObject, Answer, WaitInv, WaitTypes
  <1> QED
    BY <1>1 DEF WaitInv, WaitTypes, WaitCount, EndedWhenOk, TimeoutOnTime

LEMMA HolderChangesStep ==
  ASSUME WaitInv, HolderChanges
  PROVE  WaitInv'
  <1>1. /\ holder' \in {"ended", "nothing", "later"} /\ procSystem' = procSystem
        /\ leaked' = leaked /\ waiting' = waiting /\ asked' = asked /\ left' = left
        /\ slept' = slept /\ waitRet' = waitRet
    BY DEF HolderChanges
  <1> QED
    BY <1>1 DEF WaitInv, WaitTypes, WaitCount, EndedWhenOk, TimeoutOnTime

LEMMA WaitNextInv == WaitInv /\ [WaitNext]_waitVars => WaitInv'
  <1> SUFFICES ASSUME WaitInv, [WaitNext]_waitVars PROVE WaitInv'
    OBVIOUS
  <1>1. CASE UNCHANGED waitVars
    BY <1>1 DEF waitVars, WaitInv, WaitTypes, WaitCount, EndedWhenOk, TimeoutOnTime
  <1> QED
    BY <1>1, ProcWaitStep, WaitTestStep, WaitSleepStep, WaitObjectStep, HolderChangesStep
    DEF WaitNext

\* The variables of a wait keep their types: the timeout never becomes
\* negative, which the unsigned one of the code could not (WaitTypeOK).
THEOREM WaitTypeCorrect == WaitSpec => []WaitTypeOK
  <1>1. WaitInit => WaitInv
    BY WaitInitInv
  <1>2. WaitInv /\ [WaitNext]_waitVars => WaitInv'
    BY WaitNextInv
  <1>3. WaitInv => WaitTypeOK
    <2> SUFFICES ASSUME WaitInv PROVE WaitTypeOK
      OBVIOUS
    <2>1. left \in 0 .. asked /\ slept \in 0 .. asked
      <3>1. slept <= slept * SleepTime /\ slept * SleepTime \in Nat /\ asked \in Nat
        BY SleepsTaken, WaitAssumption DEF WaitInv, WaitCount
      <3> QED
        BY <3>1 DEF WaitInv, WaitCount
    <2> QED
      BY <2>1 DEF WaitInv, WaitTypes, WaitCount, WaitTypeOK
  <1> QED
    BY <1>1, <1>2, <1>3, PTL DEF WaitSpec

\* What WaitAnswers says of the answers: "ok" is never said of a process that
\* runs, and a timeout is reported at most one sleep early and never late, for
\* every timeout and every length of a sleep.
THEOREM AnswersAreRight == WaitSpec => []EndedWhenOk /\ []TimeoutOnTime
  <1>1. WaitInit => WaitInv
    BY WaitInitInv
  <1>2. WaitInv /\ [WaitNext]_waitVars => WaitInv'
    BY WaitNextInv
  <1>3. WaitInv => EndedWhenOk /\ TimeoutOnTime
    BY DEF WaitInv
  <1> QED
    BY <1>1, <1>2, <1>3, PTL DEF WaitSpec
-----------------------------------------------------------------------------
(***************************************************************************)
(* The copies of linux/file.c and windows/file.c.  The buffer belongs       *)
(* behind what is on the disk and ends where the blocks that were read end; *)
(* when no line feed is expanded, what is on the disk and in the buffer are *)
(* the first blocks of the source.  In a copy by path the target has no     *)
(* others.                                                                  *)
(***************************************************************************)
OnDisk == Place(copyPos) - Len(buffered)

Verbatim == \A i \in DOMAIN source : ~Expanded(i)

CopyTypes ==
  /\ source \in Seq(Blocks) /\ Len(source) <= MaxBlocks
  /\ copied \in Seq(Blocks) /\ Len(copied) <= 2 * MaxBlocks
  /\ buffered \in Seq(Blocks) /\ Len(buffered) <= Place(copyPos)
  /\ copyPos \in Nat /\ copyPos <= MaxBlocks

CopyControl ==
  /\ copySystem \in {"linux", "windows"} /\ copyText \in BOOLEAN
  /\ copying \in {"no", "path", "handle"} /\ swallowed \in BOOLEAN
  /\ copyRet \in [call : {"no", "path", "handle"}, ret : {"ok", "error"}]

CopyFacts ==
  copying # "no" =>
    /\ copyPos <= Len(source) /\ OnDisk <= Len(copied)
    /\ Verbatim => \A i \in 1 .. OnDisk : copied[i] = source[i]
    /\ Verbatim => \A i \in 1 .. Len(buffered) : buffered[i] = source[OnDisk + i]
    /\ copying = "path" => Len(copied) = OnDisk

CopyInv == CopyTypes /\ CopyControl /\ CopyFacts /\ CopyExact

\* Files are sequences of no more than so many blocks.
LEMMA FilesAreSeqs ==
  ASSUME NEW n \in Nat, NEW s
  PROVE  s \in BoundedSeq(Blocks, n) <=> s \in Seq(Blocks) /\ Len(s) <= n
  <1>1. ASSUME s \in BoundedSeq(Blocks, n) PROVE s \in Seq(Blocks) /\ Len(s) <= n
    <2>1. PICK m \in 0 .. n : s \in [1 .. m -> Blocks]
      BY <1>1 DEF BoundedSeq, SeqOf
    <2>2. m \in Nat /\ m <= n
      BY <2>1
    <2>3. s = [i \in 1 .. m |-> s[i]] /\ \A i \in 1 .. m : s[i] \in Blocks
      BY <2>1
    <2>4. s \in Seq(Blocks) /\ Len(s) = m
      BY <2>2, <2>3
    <2> QED
      BY <2>2, <2>4
  <1>2. ASSUME s \in Seq(Blocks), Len(s) <= n PROVE s \in BoundedSeq(Blocks, n)
    <2>1. Len(s) \in 0 .. n /\ s \in [1 .. Len(s) -> Blocks]
      BY <1>2, LenProperties
    <2>2. \E m \in 0 .. n : s \in [1 .. m -> Blocks]
      BY <2>1, Zenon
    <2>3. s \in UNION {[1 .. m -> Blocks] : m \in 0 .. n}
      BY <2>2, Zenon
    <2> QED
      BY <2>3, Zenon DEF BoundedSeq, SeqOf
  <1> QED
    BY <1>1, <1>2

LEMMA ContentsAreSeqs ==
  ASSUME NEW s
  PROVE  /\ s \in Contents <=> s \in Seq(Blocks) /\ Len(s) <= MaxBlocks
         /\ s \in Targets <=> s \in Seq(Blocks) /\ Len(s) <= 2 * MaxBlocks
  <1>1. MaxBlocks \in Nat /\ 2 * MaxBlocks \in Nat
    BY CopyAssumption
  <1> QED
    BY <1>1, FilesAreSeqs DEF Contents, Targets

\* The line feeds among the first blocks that become longer.
Feeds(i) == {j \in 1 .. i : Expanded(j)}

LEMMA FeedsAreFew ==
  ASSUME NEW i \in Nat
  PROVE  IsFiniteSet(Feeds(i)) /\ Cardinality(Feeds(i)) \in Nat /\ Cardinality(Feeds(i)) <= i
  <1>1. IsFiniteSet(1 .. i) /\ Cardinality(1 .. i) = i
    BY FS_Interval
  <1>2. Feeds(i) \in SUBSET (1 .. i)
    BY DEF Feeds
  <1> QED
    BY <1>1, <1>2, FS_Subset, FS_CardinalityType

\* The position after some blocks, and after a further one.
LEMMA PlaceSteps ==
  ASSUME NEW i \in Nat
  PROVE  /\ Place(i) \in Nat /\ Place(i) <= 2 * i
         /\ Place(i + 1) = Place(i) + (IF Expanded(i + 1) THEN 2 ELSE 1)
  <1>1. Place(i) = i + Cardinality(Feeds(i)) /\ Place(i + 1) = (i + 1) + Cardinality(Feeds(i + 1))
    BY DEF Place, Feeds
  <1>2. /\ IsFiniteSet(Feeds(i)) /\ Cardinality(Feeds(i)) \in Nat
        /\ Cardinality(Feeds(i)) <= i
    BY FeedsAreFew
  <1>3. CASE Expanded(i + 1)
    <2>1. Feeds(i + 1) = Feeds(i) \cup {i + 1} /\ i + 1 \notin Feeds(i)
      BY <1>3 DEF Feeds
    <2>2. Cardinality(Feeds(i + 1)) = Cardinality(Feeds(i)) + 1
      BY <1>2, <2>1, FS_AddElement
    <2> QED
      BY <1>1, <1>2, <1>3, <2>2
  <1>4. CASE ~Expanded(i + 1)
    <2>1. Feeds(i + 1) = Feeds(i)
      BY <1>4 DEF Feeds
    <2> QED
      BY <1>1, <1>2, <1>4, <2>1
  <1> QED
    BY <1>3, <1>4

LEMMA PlaceGrows ==
  ASSUME NEW i \in Nat, NEW n \in Nat, i <= n
  PROVE  Place(i) <= Place(n)
  <1>1. Place(i) = i + Cardinality(Feeds(i)) /\ Place(n) = n + Cardinality(Feeds(n))
    BY DEF Place, Feeds
  <1>2. Feeds(i) \in SUBSET Feeds(n)
    BY DEF Feeds
  <1>3. Cardinality(Feeds(i)) <= Cardinality(Feeds(n))
    BY <1>2, FeedsAreFew, FS_Subset
  <1> QED
    BY <1>1, <1>3, FeedsAreFew

\* Nothing moves when no line feed is expanded.
LEMMA PlaceVerbatim ==
  ASSUME NEW i \in Nat, \A j \in 1 .. i : ~Expanded(j)
  PROVE  Place(i) = i
  <1>1. {j \in 1 .. i : Expanded(j)} = {}
    OBVIOUS
  <1> QED
    BY <1>1, FS_EmptySet DEF Place

\* A position in another state is one in this, unless a call begins.
LEMMA PlaceNext ==
  /\ copyText' = copyText /\ source' = source => Place(copyPos)' = Place(copyPos')
  /\ copyPos' = 0 => Place(copyPos)' = 0
  <1>1. ASSUME copyText' = copyText, source' = source PROVE Place(copyPos)' = Place(copyPos')
    BY <1>1 DEF Place, Expanded
  <1>2. ASSUME copyPos' = 0 PROVE Place(copyPos)' = 0
    <2>1. {j \in 1 .. copyPos' : Expanded(j)'} = {}
      BY <1>2
    <2>2. Place(copyPos)' = copyPos' + Cardinality({j \in 1 .. copyPos' : Expanded(j)'})
      BY DEF Place
    <2>3. Place(copyPos)' = copyPos' + 0
      BY <2>1, <2>2, FS_EmptySet
    <2> QED
      BY <1>2, <2>3
  <1> QED
    BY <1>1, <1>2

\* Writing blocks at a place that is no farther than the end.
LEMMA Written ==
  ASSUME NEW s \in Seq(Blocks), NEW buf \in Seq(Blocks), NEW at \in 0 .. Len(s)
  PROVE  LET w == SubSeq(s, 1, at) \o buf \o SubSeq(s, at + Len(buf) + 1, Len(s))
         IN  /\ w \in Seq(Blocks)
             /\ Len(w) = IF at + Len(buf) <= Len(s) THEN Len(s) ELSE at + Len(buf)
             /\ \A i \in 1 .. at : w[i] = s[i]
             /\ \A i \in 1 .. Len(buf) : w[at + i] = buf[i]
  <1> DEFINE a == SubSeq(s, 1, at)
             n == Len(buf)
             m == at + n + 1
             c == SubSeq(s, m, Len(s))
             w == (a \o buf) \o c
  <1>1. Len(s) \in Nat /\ at \in Nat /\ n \in Nat /\ m \in Nat /\ at <= Len(s) /\ m >= 1
    BY LenProperties
  <1>2. a \in Seq(Blocks) /\ Len(a) = at /\ \A i \in 1 .. at : a[i] = s[i]
    <2>1. \A i \in 1 .. at : s[i] \in Blocks
      BY <1>1
    <2>2. /\ a \in Seq(Blocks) /\ Len(a) = IF 1 <= at THEN at - 1 + 1 ELSE 0
          /\ \A i \in 1 .. at - 1 + 1 : a[i] = s[1 + i - 1]
      BY <1>1, <2>1, SubSeqProperties
    <2> HIDE DEF a
    <2> QED
      BY <1>1, <2>2
  <1>3. c \in Seq(Blocks) /\ Len(c) = IF m <= Len(s) THEN Len(s) - m + 1 ELSE 0
    <2> HIDE DEF m
    <2>1. \A i \in m .. Len(s) : s[i] \in Blocks
      BY <1>1
    <2> QED
      BY <1>1, <2>1, SubSeqProperties
  <1> HIDE DEF a, c
  <1>4. /\ a \o buf \in Seq(Blocks) /\ Len(a \o buf) = at + n
        /\ \A i \in 1 .. at + n : (a \o buf)[i] = IF i <= at THEN a[i] ELSE buf[i - at]
    BY <1>2, ConcatProperties
  <1> DEFINE b == a \o buf
  <1>5. /\ w \in Seq(Blocks) /\ Len(w) = Len(b) + Len(c)
        /\ \A i \in 1 .. Len(b) + Len(c) : w[i] = IF i <= Len(b) THEN b[i] ELSE c[i - Len(b)]
    <2>1. b \in Seq(Blocks)
      BY <1>4
    <2> HIDE DEF b
    <2> QED
      BY <1>3, <2>1, ConcatProperties DEF b
  <1>6. Len(b) = at + n /\ Len(c) \in Nat
    BY <1>3, <1>4, LenProperties
  <1> HIDE DEF w, n, b
  <1>7. Len(w) = IF at + n <= Len(s) THEN Len(s) ELSE at + n
    <2>1. CASE at + n <= Len(s)
      <3>1. at + n + Len(c) = Len(s)
        <4>1. CASE m <= Len(s)
          <5>1. Len(c) = Len(s) - m + 1
            BY <1>3, <4>1
          <5> QED
            BY <1>1, <5>1
        <4>2. CASE ~ (m <= Len(s))
          <5>1. Len(c) = 0
            BY <1>3, <4>2
          <5> QED
            BY <1>1, <2>1, <4>2, <5>1
        <4> QED
          BY <4>1, <4>2
      <3> QED
        BY <1>5, <1>6, <2>1, <3>1
    <2>2. CASE ~ (at + n <= Len(s))
      <3>1. ~ (m <= Len(s)) /\ Len(c) = 0
        BY <1>1, <1>3, <2>2
      <3> QED
        BY <1>1, <1>5, <1>6, <2>2, <3>1
    <2> QED
      BY <2>1, <2>2
  <1>8. ASSUME NEW i \in 1 .. at PROVE w[i] = s[i]
    <2>1. i \in 1 .. Len(b) + Len(c) /\ i <= Len(b) /\ i \in 1 .. at + n /\ i <= at
      BY <1>1, <1>6
    <2> QED
      BY <1>2, <1>4, <1>5, <2>1 DEF b
  <1>9. ASSUME NEW i \in 1 .. n PROVE w[at + i] = buf[i]
    <2>1. /\ at + i \in 1 .. Len(b) + Len(c) /\ at + i <= Len(b) /\ at + i \in 1 .. at + n
          /\ ~ (at + i <= at) /\ (at + i) - at = i
      BY <1>1, <1>6
    <2> QED
      BY <1>4, <1>5, <2>1 DEF b
  <1> QED
    BY <1>5, <1>7, <1>8, <1>9 DEF w, a, c, m, n

LEMMA CopyInitInv == CopyInit => CopyInv
  <1> SUFFICES ASSUME CopyInit PROVE CopyInv
    OBVIOUS
  <1>1. CopyTypes
    <2>1. /\ source \in Seq(Blocks) /\ Len(source) <= MaxBlocks
          /\ copied \in Seq(Blocks) /\ Len(copied) <= MaxBlocks
      BY ContentsAreSeqs DEF CopyInit
    <2>2. Len(copied) <= 2 * MaxBlocks
      BY <2>1, LenProperties, CopyAssumption
    <2>3. buffered \in Seq(Blocks) /\ Len(buffered) = 0 /\ copyPos = 0 /\ MaxBlocks \in Nat
      BY EmptySeq, CopyAssumption DEF CopyInit
    <2>4. 0 <= Place(copyPos)
      BY <2>3, PlaceSteps
    <2> QED
      BY <2>1, <2>2, <2>3, <2>4 DEF CopyTypes
  <1>2. CopyControl /\ CopyFacts /\ CopyExact
    BY DEF CopyInit, CopyControl, CopyFacts, CopyExact, CopyIdentical
  <1> QED
    BY <1>1, <1>2 DEF CopyInv

\* Both ways to begin a copy.
LEMMA CopyBegins ==
  ASSUME CopyInv, FileCopy \/ FileCopyByHandle
  PROVE  CopyInv'
  <1>1. /\ copySystem' = copySystem /\ source' = source
        /\ buffered' = << >> /\ copyPos' = 0 /\ swallowed' = FALSE
        /\ copied' \in {copied, << >>} /\ copyText' \in BOOLEAN
    BY DEF FileCopy, FileCopyByHandle
  <1>2. CopyTypes'
    <2>1. << >> \in Seq(Blocks) /\ Len(<< >>) = 0 /\ MaxBlocks \in Nat
      BY EmptySeq, CopyAssumption
    <2>2. copied' \in Seq(Blocks) /\ Len(copied') <= 2 * MaxBlocks
      <3>1. CASE copied' = copied
        BY <3>1 DEF CopyInv, CopyTypes
      <3>2. CASE copied' = << >>
        <4>1. copied' \in Seq(Blocks) /\ Len(copied') = 0
          BY <2>1, <3>2
        <4> QED
          BY <2>1, <4>1
      <3> QED
        BY <1>1, <3>1, <3>2
    <2>3. buffered' \in Seq(Blocks) /\ Len(buffered') <= Place(copyPos)'
      BY <1>1, <2>1, PlaceNext
    <2>4. source' \in Seq(Blocks) /\ Len(source') <= MaxBlocks
      BY <1>1 DEF CopyInv, CopyTypes
    <2>5. copyPos' = 0
      BY <1>1
    <2> QED
      BY <2>1, <2>2, <2>3, <2>4, <2>5 DEF CopyTypes
  <1>3. CASE copying' = "no" /\ \E c \in {"path", "handle"} : copyRet' = [call |-> c, ret |-> "error"]
    <2>1. CopyControl'
      <3>1. PICK c \in {"path", "handle"} : copyRet' = [call |-> c, ret |-> "error"]
        BY <1>3
      <3>2. copyRet' \in [call : {"no", "path", "handle"}, ret : {"ok", "error"}]
        BY <3>1
      <3> QED
        BY <1>1, <1>3, <3>2 DEF CopyInv, CopyControl
    <2>2. CopyFacts' /\ CopyExact'
      BY <1>3 DEF CopyFacts, CopyExact, CopyIdentical, Succeeded
    <2> QED
      BY <1>2, <2>1, <2>2 DEF CopyInv
  <1>4. CASE /\ copying' \in {"path", "handle"} /\ copyRet' = copyRet
             /\ copying' = "path" => copied' = << >>
    <2>1. CopyControl' /\ CopyExact'
      BY <1>1, <1>4 DEF CopyInv, CopyControl, CopyExact, CopyIdentical, Succeeded
    <2>2. /\ Len(source') \in Nat /\ Len(copied') \in Nat /\ Len(buffered') = 0
          /\ copying' = "path" => Len(copied') = 0
      BY <1>1, <1>2, <1>4, EmptySeq, LenProperties DEF CopyTypes
    <2>3. OnDisk' = 0
      <3>1. Place(copyPos)' = 0 /\ Len(buffered') = 0
        BY <1>1, <2>2, PlaceNext
      <3> QED
        BY <3>1 DEF OnDisk
    <2>4. CopyFacts'
      BY <1>1, <2>2, <2>3 DEF CopyFacts
    <2> QED
      BY <1>2, <2>1, <2>4 DEF CopyInv
  <1>5. copying = "no"
    BY DEF FileCopy, FileCopyByHandle
  <1> QED
    BY <1>3, <1>4, <1>5 DEF FileCopy, FileCopyByHandle

\* The state of a copy under way, for the two steps of one.
LEMMA CopyBefore ==
  ASSUME CopyInv, copying # "no"
  PROVE  /\ source \in Seq(Blocks) /\ copied \in Seq(Blocks) /\ buffered \in Seq(Blocks)
         /\ copyPos \in Nat /\ copyPos <= Len(source) /\ OnDisk \in 0 .. Len(copied)
         /\ Len(source) \in Nat /\ Len(copied) \in Nat /\ Len(buffered) \in Nat
         /\ OnDisk \in Nat /\ OnDisk + Len(buffered) = Place(copyPos) /\ Place(copyPos) \in Nat
         /\ Verbatim => \A i \in 1 .. OnDisk : copied[i] = source[i]
         /\ Verbatim => \A i \in 1 .. Len(buffered) : buffered[i] = source[OnDisk + i]
         /\ copying = "path" => Len(copied) = OnDisk
         /\ Len(source) <= MaxBlocks /\ Len(copied) <= 2 * MaxBlocks /\ MaxBlocks \in Nat
         /\ copying \in {"path", "handle"}
  <1>1. /\ Len(source) \in Nat /\ Len(copied) \in Nat /\ Len(buffered) \in Nat
        /\ copyPos \in Nat /\ Len(buffered) <= Place(copyPos)
    BY LenProperties DEF CopyInv, CopyTypes
  <1>2. Place(copyPos) \in Nat
    BY <1>1, PlaceSteps
  <1>3. OnDisk \in Nat /\ OnDisk + Len(buffered) = Place(copyPos)
    BY <1>1, <1>2 DEF OnDisk
  <1> QED
    BY <1>1, <1>2, <1>3, CopyAssumption DEF CopyInv, CopyTypes, CopyControl, CopyFacts

\* No position of a copy is farther than the last one of a source.
LEMMA PlaceBound ==
  ASSUME CopyInv, copying # "no"
  PROVE  /\ Place(copyPos) <= Place(Len(source)) /\ Place(Len(source)) \in Nat
         /\ Place(Len(source)) <= 2 * MaxBlocks
         /\ Verbatim => Place(copyPos) = copyPos
  <1>1. /\ copyPos \in Nat /\ Len(source) \in Nat /\ copyPos <= Len(source)
        /\ Len(source) <= MaxBlocks /\ MaxBlocks \in Nat /\ source \in Seq(Blocks)
    BY CopyBefore
  <1>2. Place(copyPos) <= Place(Len(source))
    BY <1>1, PlaceGrows
  <1>3. Place(Len(source)) \in Nat /\ Place(Len(source)) <= 2 * Len(source)
    BY <1>1, PlaceSteps
  <1>4. ASSUME Verbatim PROVE Place(copyPos) = copyPos
    <2>1. DOMAIN source = 1 .. Len(source)
      BY <1>1, LenProperties
    <2>2. \A j \in 1 .. copyPos : ~Expanded(j)
      BY <1>1, <1>4, <2>1 DEF Verbatim
    <2> QED
      BY <1>1, <2>2, PlaceVerbatim
  <1> QED
    BY <1>1, <1>2, <1>3, <1>4

\* Writing out what is in the buffer, with a further block or without.
LEMMA FlushedExtends ==
  ASSUME CopyInv, copying # "no", NEW buf \in Seq(Blocks), OnDisk + Len(buf) <= Place(Len(source)),
         Verbatim => \A i \in 1 .. Len(buf) : buf[i] = source[OnDisk + i]
  PROVE  /\ Flushed(buf) \in Seq(Blocks) /\ Len(Flushed(buf)) <= 2 * MaxBlocks
         /\ OnDisk + Len(buf) <= Len(Flushed(buf))
         /\ Verbatim => \A i \in 1 .. OnDisk + Len(buf) : Flushed(buf)[i] = source[i]
         /\ copying = "path" => Len(Flushed(buf)) = OnDisk + Len(buf)
  <1> DEFINE at == OnDisk
             w == SubSeq(copied, 1, at) \o buf \o SubSeq(copied, at + Len(buf) + 1, Len(copied))
  <1>1. Flushed(buf) = w
    BY DEF Flushed, OnDisk
  <1>2. /\ at \in 0 .. Len(copied) /\ at \in Nat /\ Len(buf) \in Nat /\ Len(copied) \in Nat
        /\ copied \in Seq(Blocks)
    BY CopyBefore, LenProperties
  <1>3. /\ Verbatim => \A i \in 1 .. at : copied[i] = source[i]
        /\ copying = "path" => Len(copied) = at
        /\ Len(copied) <= 2 * MaxBlocks /\ MaxBlocks \in Nat
    BY CopyBefore
  <1>a. at + Len(buf) <= 2 * MaxBlocks
    <2>1. Place(Len(source)) \in Nat /\ Place(Len(source)) <= 2 * MaxBlocks
      BY PlaceBound
    <2>2. at + Len(buf) <= Place(Len(source))
      OBVIOUS
    <2> HIDE DEF at
    <2> QED
      BY <1>2, <1>3, <2>1, <2>2
  <1> HIDE DEF at
  <1>4. /\ w \in Seq(Blocks)
        /\ Len(w) = IF at + Len(buf) <= Len(copied) THEN Len(copied) ELSE at + Len(buf)
        /\ \A i \in 1 .. at : w[i] = copied[i]
        /\ \A i \in 1 .. Len(buf) : w[at + i] = buf[i]
    BY <1>2, Written
  <1> HIDE DEF w
  <1>5. Verbatim => \A i \in 1 .. Len(buf) : buf[i] = source[at + i]
    BY DEF at
  <1>6. ASSUME Verbatim, NEW i \in 1 .. at + Len(buf) PROVE w[i] = source[i]
    <2>1. CASE i <= at
      BY <1>2, <1>3, <1>4, <1>6, <2>1
    <2>2. CASE ~ (i <= at)
      <3>1. i - at \in 1 .. Len(buf) /\ at + (i - at) = i
        BY <1>2, <2>2
      <3> QED
        BY <1>4, <1>5, <1>6, <3>1
    <2> QED
      BY <2>1, <2>2
  <1>7. /\ Len(w) <= 2 * MaxBlocks /\ at + Len(buf) <= Len(w)
        /\ copying = "path" => Len(w) = at + Len(buf)
    BY <1>2, <1>3, <1>4, <1>a
  <1> QED
    BY <1>1, <1>4, <1>6, <1>7 DEF at

\* What a block of the source becomes, and where the next one goes.
LEMMA CellsOf ==
  ASSUME CopyInv, copying # "no", copyPos < Len(source)
  PROVE  /\ Cells(copyPos + 1) \in Seq(Blocks) /\ Len(Cells(copyPos + 1)) \in {1, 2}
         /\ Place(copyPos + 1) = Place(copyPos) + Len(Cells(copyPos + 1))
         /\ Place(copyPos + 1) <= Place(Len(source)) /\ Place(copyPos + 1) \in Nat
         /\ Verbatim => Cells(copyPos + 1) = <<source[copyPos + 1]>>
  <1>0. copyPos \in Nat /\ Len(source) \in Nat /\ source \in Seq(Blocks)
    BY CopyBefore
  <1>1. copyPos + 1 <= Len(source) /\ copyPos + 1 \in Nat
    BY <1>0
  <1>2. source[copyPos + 1] \in Blocks /\ copyPos + 1 \in DOMAIN source
    BY <1>0, <1>1, LenProperties
  <1>3. Place(copyPos + 1) = Place(copyPos) + (IF Expanded(copyPos + 1) THEN 2 ELSE 1)
    BY <1>0, <1>1, PlaceSteps
  <1>4. Place(copyPos + 1) <= Place(Len(source))
    BY <1>0, <1>1, PlaceGrows
  <1>5. Place(copyPos + 1) \in Nat
    BY <1>0, <1>1, PlaceSteps
  <1>6. CASE Expanded(copyPos + 1)
    <2>1. Cells(copyPos + 1) = <<CarriageReturn, LineFeed>>
      BY <1>6 DEF Cells
    <2>2. Cells(copyPos + 1) \in Seq(Blocks) /\ Len(Cells(copyPos + 1)) = 2
      BY <2>1, CopyAssumption
    <2>3. ~Verbatim
      BY <1>2, <1>6 DEF Verbatim
    <2> QED
      BY <1>3, <1>4, <1>5, <1>6, <2>2, <2>3
  <1>7. CASE ~Expanded(copyPos + 1)
    <2>1. Cells(copyPos + 1) = <<source[copyPos + 1]>>
      BY <1>7 DEF Cells
    <2>2. Cells(copyPos + 1) \in Seq(Blocks) /\ Len(Cells(copyPos + 1)) = 1
      <3>1. ASSUME NEW b \in Blocks PROVE <<b>> \in Seq(Blocks) /\ Len(<<b>>) = 1
        OBVIOUS
      <3> QED
        BY <1>2, <2>1, <3>1
    <2> QED
      BY <1>3, <1>4, <1>5, <1>7, <2>1, <2>2
  <1> QED
    BY <1>6, <1>7

LEMMA CopyBlockStep ==
  ASSUME CopyInv, CopyBlock
  PROVE  CopyInv'
  <1>1. /\ copying # "no" /\ copyPos < Len(source)
        /\ copySystem' = copySystem /\ source' = source /\ copyText' = copyText
    BY DEF CopyBlock
  <1>k. Verbatim' = Verbatim
    BY <1>1 DEF Verbatim, Expanded
  <1> DEFINE cells == Cells(copyPos + 1)
             buf == buffered \o cells
  <1>2. /\ buf \in Seq(Blocks) /\ Len(buf) = Len(buffered) + Len(cells)
        /\ Len(cells) \in Nat
        /\ OnDisk + Len(buf) = Place(copyPos + 1) /\ Place(copyPos + 1) <= Place(Len(source))
        /\ Verbatim => \A i \in 1 .. Len(buf) : buf[i] = source[OnDisk + i]
    <2>1. /\ cells \in Seq(Blocks) /\ Len(cells) \in {1, 2}
          /\ Place(copyPos + 1) = Place(copyPos) + Len(cells)
          /\ Place(copyPos + 1) <= Place(Len(source)) /\ Place(copyPos + 1) \in Nat
          /\ Verbatim => cells = <<source[copyPos + 1]>>
      BY <1>1, CellsOf
    <2> HIDE DEF cells
    <2>2. /\ buf \in Seq(Blocks) /\ Len(buf) = Len(buffered) + Len(cells)
          /\ \A i \in 1 .. Len(buffered) + Len(cells) :
               buf[i] = IF i <= Len(buffered) THEN buffered[i] ELSE cells[i - Len(buffered)]
      BY <1>1, <2>1, CopyBefore, ConcatProperties
    <2> HIDE DEF buf
    <2>3. /\ OnDisk + Len(buffered) = Place(copyPos) /\ OnDisk \in Nat
          /\ Len(buffered) \in Nat /\ Place(copyPos) \in Nat /\ copyPos \in Nat
          /\ Verbatim => \A i \in 1 .. Len(buffered) : buffered[i] = source[OnDisk + i]
      BY <1>1, CopyBefore
    <2>4. OnDisk + Len(buf) = Place(copyPos + 1) /\ Len(cells) \in Nat
      BY <2>1, <2>2, <2>3
    <2>5. ASSUME Verbatim, NEW i \in 1 .. Len(buf) PROVE buf[i] = source[OnDisk + i]
      <3>1. cells = <<source[copyPos + 1]>> /\ Len(cells) = 1 /\ cells[1] = source[copyPos + 1]
        BY <2>1, <2>5
      <3>2. OnDisk + (Len(buffered) + 1) = copyPos + 1
        BY <1>1, <2>3, <2>5, PlaceBound
      <3>3. CASE i = Len(buffered) + 1
        <4>1. buf[i] = cells[1]
          BY <2>2, <2>3, <3>1, <3>3
        <4> QED
          BY <3>1, <3>2, <3>3, <4>1
      <3>4. CASE i # Len(buffered) + 1
        <4>1. i \in 1 .. Len(buffered) /\ i \in 1 .. Len(buffered) + Len(cells) /\ i <= Len(buffered)
          BY <2>2, <2>3, <3>1, <3>4
        <4> QED
          BY <2>2, <2>3, <2>5, <4>1
      <3> QED
        BY <3>3, <3>4
    <2> QED
      BY <2>1, <2>2, <2>4, <2>5
  <1>s. Taken(buf) \/ NotTaken
    BY DEF CopyBlock
  <1> HIDE DEF cells, buf
  <1>3. /\ copyPos \in Nat /\ Len(source) \in Nat /\ copyPos + 1 <= Len(source)
        /\ Len(source) <= MaxBlocks /\ MaxBlocks \in Nat
        /\ OnDisk \in Nat /\ OnDisk <= Len(copied) /\ Len(copied) \in Nat
        /\ Len(buffered) \in Nat /\ Place(copyPos) \in Nat
    BY <1>1, CopyBefore
  <1>m. Place(copyPos + 1) \in Nat
    BY <1>3, PlaceSteps
  <1>n. Place(copyPos)' = Place(copyPos')
    BY <1>1, PlaceNext
  <1>4. CASE NotTaken
    <2>1. /\ copying' = "no" /\ copyRet' = [call |-> copying, ret |-> "error"] /\ buffered' = << >>
          /\ copied' = copied /\ copyPos' = copyPos /\ swallowed' = swallowed
      BY <1>4 DEF NotTaken, Returns
    <2>2. CopyTypes'
      <3>1. buffered' \in Seq(Blocks) /\ Len(buffered') = 0
        BY <2>1, EmptySeq
      <3>2. Place(copyPos)' = Place(copyPos)
        BY <1>n, <2>1
      <3> QED
        BY <1>1, <1>3, <2>1, <3>1, <3>2 DEF CopyInv, CopyTypes
    <2>3. CopyControl'
      BY <1>1, <2>1 DEF CopyInv, CopyControl
    <2>4. CopyFacts' /\ CopyExact'
      BY <2>1 DEF CopyFacts, CopyExact, CopyIdentical, Succeeded
    <2> QED
      BY <2>2, <2>3, <2>4 DEF CopyInv
  <1>5. CASE /\ buffered' = buf /\ copied' = copied /\ copyPos' = copyPos + 1
             /\ copying' = copying /\ copyRet' = copyRet /\ swallowed' = swallowed
    <2>p. Place(copyPos)' = Place(copyPos + 1)
      BY <1>5, <1>n
    <2>1. OnDisk' = OnDisk
      <3>1. OnDisk' = Place(copyPos + 1) - Len(buf)
        BY <1>5, <2>p DEF OnDisk
      <3> QED
        BY <1>2, <1>3, <3>1
    <2>2. CopyTypes'
      <3>1. Len(buf) <= Place(copyPos + 1)
        <4>1. OnDisk + Len(buf) = Place(copyPos + 1) /\ Len(buf) = Len(buffered) + Len(cells) /\ Len(cells) \in Nat
          BY <1>2
        <4> QED
          BY <1>3, <1>m, <4>1
      <3>2. buffered' \in Seq(Blocks) /\ Len(buffered') <= Place(copyPos)'
        BY <1>2, <1>5, <2>p, <3>1
      <3>3. copyPos' \in Nat /\ copyPos' <= MaxBlocks
        BY <1>3, <1>5
      <3> QED
        BY <1>1, <1>5, <3>2, <3>3 DEF CopyInv, CopyTypes
    <2>3. CopyFacts'
      BY <1>1, <1>2, <1>3, <1>k, <1>5, <2>1 DEF CopyInv, CopyFacts
    <2>4. CopyControl' /\ CopyExact'
      BY <1>1, <1>5 DEF CopyInv, CopyControl, CopyExact, CopyIdentical, Succeeded
    <2> QED
      BY <2>2, <2>3, <2>4 DEF CopyInv
  <1>6. CASE /\ buffered' = << >> /\ copied' = Flushed(buf) /\ copyPos' = copyPos + 1
             /\ copying' = copying /\ copyRet' = copyRet /\ swallowed' = swallowed
    <2>1. /\ copied' \in Seq(Blocks) /\ Len(copied') <= 2 * MaxBlocks
          /\ Place(copyPos + 1) <= Len(copied')
          /\ Verbatim => \A i \in 1 .. Place(copyPos + 1) : copied'[i] = source[i]
          /\ copying = "path" => Len(copied') = Place(copyPos + 1)
      <3>1. OnDisk + Len(buf) <= Place(Len(source))
        BY <1>2
      <3> QED
        BY <1>1, <1>2, <1>6, <3>1, FlushedExtends
    <2>2. Len(buffered') = 0 /\ DOMAIN buffered' = {} /\ buffered' \in Seq(Blocks)
      BY <1>6, EmptySeq
    <2>p. Place(copyPos)' = Place(copyPos + 1)
      BY <1>6, <1>n
    <2>3. OnDisk' = Place(copyPos + 1)
      BY <1>m, <2>2, <2>p DEF OnDisk
    <2>4. CopyTypes'
      BY <1>1, <1>3, <1>6, <1>m, <2>1, <2>2, <2>p DEF CopyInv, CopyTypes
    <2>5. CopyFacts'
      BY <1>1, <1>3, <1>k, <1>6, <2>1, <2>2, <2>3 DEF CopyFacts
    <2>6. CopyControl' /\ CopyExact'
      BY <1>1, <1>6 DEF CopyInv, CopyControl, CopyExact, CopyIdentical, Succeeded
    <2> QED
      BY <2>4, <2>5, <2>6 DEF CopyInv
  <1> QED
    BY <1>s, <1>4, <1>5, <1>6 DEF Taken

\* The last of the buffer reaches the disk, or the loss is remembered.
LEMMA CopyEndStep ==
  ASSUME CopyInv, CopyEnd
  PROVE  CopyInv'
  <1>1. /\ copying # "no" /\ source' = source /\ buffered' = << >> /\ copyPos' = 0
        /\ copySystem' = copySystem /\ copyText' = copyText
        /\ copying' = "no" /\ copyRet' = [call |-> copying, ret |-> "ok"]
    BY DEF CopyEnd, Returns
  <1>2. /\ Flushed(buffered) \in Seq(Blocks) /\ Len(Flushed(buffered)) <= 2 * MaxBlocks
        /\ Place(copyPos) <= Len(Flushed(buffered))
        /\ Verbatim => \A i \in 1 .. Place(copyPos) : Flushed(buffered)[i] = source[i]
        /\ copying = "path" => Len(Flushed(buffered)) = Place(copyPos)
    <2>1. /\ OnDisk + Len(buffered) = Place(copyPos) /\ buffered \in Seq(Blocks)
          /\ Verbatim => \A i \in 1 .. Len(buffered) : buffered[i] = source[OnDisk + i]
      BY <1>1, CopyBefore
    <2>2. OnDisk + Len(buffered) <= Place(Len(source))
      BY <1>1, <2>1, PlaceBound
    <2> QED
      BY <1>1, <2>1, <2>2, FlushedExtends
  <1>3. /\ copyPos \in Nat /\ Len(source) \in Nat /\ copyPos <= Len(source)
        /\ copied \in Seq(Blocks) /\ source \in Seq(Blocks) /\ Len(copied) <= 2 * MaxBlocks
        /\ copying \in {"path", "handle"}
    BY <1>1, CopyBefore
  <1>4. PICK failed \in BOOLEAN :
          /\ \/ ~failed /\ copied' = Flushed(buffered)
             \/ failed /\ buffered # << >> /\ UNCHANGED copied
          /\ swallowed' = (failed \/ copyPos < Len(source))
    BY DEF CopyEnd
  <1>5. copied' \in Seq(Blocks) /\ Len(copied') <= 2 * MaxBlocks
    BY <1>2, <1>3, <1>4
  <1>6. CopyTypes'
    <2>1. buffered' \in Seq(Blocks) /\ Len(buffered') = 0
      BY <1>1, EmptySeq
    <2>2. MaxBlocks \in Nat /\ copyPos' = 0 /\ Len(source') <= MaxBlocks /\ source' \in Seq(Blocks)
      BY <1>1, CopyBefore
    <2>3. Place(copyPos)' = 0
      BY <1>1, PlaceNext
    <2> QED
      BY <1>5, <2>1, <2>2, <2>3 DEF CopyTypes
  <1>7. CopyControl'
    <2>1. swallowed' \in BOOLEAN
      BY <1>4
    <2>2. copyRet' \in [call : {"no", "path", "handle"}, ret : {"ok", "error"}]
      BY <1>1, <1>3
    <2> QED
      BY <1>1, <2>1, <2>2 DEF CopyInv, CopyControl
  <1>8. CopyFacts'
    BY <1>1 DEF CopyFacts
  <1>9. CopyExact'
    <2> SUFFICES ASSUME Verbatim, ~swallowed'
                 PROVE  /\ copying = "path" => copied' = source
                        /\ copying = "handle" => IsPrefix(source, copied')
      <3>1. (\A i \in DOMAIN source : ~Expanded(i))' <=> Verbatim
        BY <1>1 DEF Verbatim, Expanded
      <3> QED
        BY <1>1, <3>1 DEF CopyExact, CopyIdentical, Succeeded
    <2>1. copied' = Flushed(buffered) /\ Place(copyPos) = Len(source)
      <3>1. ~ (failed \/ copyPos < Len(source))
        BY <1>4, Zenon
      <3>2. ~ failed /\ ~ (copyPos < Len(source))
        BY <3>1, Zenon
      <3>3. copied' = Flushed(buffered)
        BY <1>4, <3>2, Zenon
      <3>4. copyPos = Len(source)
        BY <1>3, <3>2
      <3> QED
        BY <1>1, <3>3, <3>4, PlaceBound
    <2>2. /\ Len(source) <= Len(copied') /\ \A i \in 1 .. Len(source) : copied'[i] = source[i]
          /\ copying = "path" => Len(copied') = Len(source)
      BY <1>2, <2>1
    <2>3. copying = "path" => copied' = source
      BY <1>3, <1>5, <2>2, SeqEqual
    <2>4. IsPrefix(source, copied')
      <3> DEFINE n == Len(source)
                 c == copied'
      <3>1. SubSeq(source, 1, n) = source
        BY <1>3, SubSeqFull
      <3>2. \A i \in 1 .. n : c[i] \in Blocks
        BY <1>3, <2>2
      <3>3. n \in Nat /\ n = Len(source)
        BY <1>3
      <3>4. \A i \in 1 .. n : c[i] = source[i]
        BY <2>2
      <3> HIDE DEF n, c
      <3>5. /\ SubSeq(c, 1, n) \in Seq(Blocks) /\ Len(SubSeq(c, 1, n)) = IF 1 <= n THEN n - 1 + 1 ELSE 0
            /\ \A i \in 1 .. n - 1 + 1 : SubSeq(c, 1, n)[i] = c[1 + i - 1]
        BY <3>2, <3>3, SubSeqProperties
      <3>6. Len(SubSeq(c, 1, n)) = n /\ \A i \in 1 .. n : SubSeq(c, 1, n)[i] = source[i]
        BY <3>3, <3>4, <3>5
      <3>7. SubSeq(c, 1, n) = source
        BY <1>3, <3>3, <3>5, <3>6, SeqEqual
      <3> QED
        BY <2>2, <3>1, <3>7 DEF IsPrefix, n, c
    <2> QED
      BY <2>3, <2>4
  <1> QED
    BY <1>6, <1>7, <1>8, <1>9 DEF CopyInv

LEMMA CopyNextInv == CopyInv /\ [CopyNext]_copyVars => CopyInv'
  <1> SUFFICES ASSUME CopyInv, [CopyNext]_copyVars PROVE CopyInv'
    OBVIOUS
  <1>1. CASE UNCHANGED copyVars
    <2>1. Place(copyPos)' = Place(copyPos) /\ Verbatim' = Verbatim
      BY <1>1 DEF copyVars, Place, Verbatim, Expanded
    <2>2. OnDisk' = OnDisk
      BY <1>1, <2>1 DEF copyVars, OnDisk
    <2>3. CopyTypes' /\ CopyControl' /\ CopyFacts'
      BY <1>1, <2>1, <2>2 DEF copyVars, CopyInv, CopyTypes, CopyControl, CopyFacts
    <2>4. CopyExact'
      BY <1>1 DEF copyVars, CopyInv, CopyExact, CopyIdentical, Succeeded, Expanded
    <2> QED
      BY <2>3, <2>4 DEF CopyInv
  <1> QED
    BY <1>1, CopyBegins, CopyBlockStep, CopyEndStep DEF CopyNext

\* The target is at most twice as long as a source may be, and no more is in
\* the buffer than was read and expanded (CopyTypeOK).
THEOREM CopyTypeCorrect == CopySpec => []CopyTypeOK
  <1>1. CopyInit => CopyInv
    BY CopyInitInv
  <1>2. CopyInv /\ [CopyNext]_copyVars => CopyInv'
    BY CopyNextInv
  <1>3. CopyInv => CopyTypeOK
    <2> SUFFICES ASSUME CopyInv PROVE CopyTypeOK
      OBVIOUS
    <2>1. source \in Contents /\ copied \in Targets
      BY ContentsAreSeqs DEF CopyInv, CopyTypes
    <2>2. copyPos \in 0 .. MaxBlocks
      BY CopyAssumption DEF CopyInv, CopyTypes
    <2> QED
      BY <2>1, <2>2 DEF CopyInv, CopyTypes, CopyControl, CopyTypeOK
  <1> QED
    BY <1>1, <1>2, <1>3, PTL DEF CopySpec

\* A copy that succeeds, with no failure it does not report and no line feed
\* written to a stream in text mode, made the target equal to the source, or
\* the source a prefix of it, whichever blocks fwrite kept in its buffer
\* (CopyExact).
THEOREM CopiesAreExact == CopySpec => []CopyExact
  <1>1. CopyInit => CopyInv
    BY CopyInitInv
  <1>2. CopyInv /\ [CopyNext]_copyVars => CopyInv'
    BY CopyNextInv
  <1>3. CopyInv => CopyExact
    BY DEF CopyInv
  <1> QED
    BY <1>1, <1>2, <1>3, PTL DEF CopySpec
-----------------------------------------------------------------------------
(***************************************************************************)
(* The mappings of windows/mman.c.  HeapMatchesViews is not inductive: it  *)
(* does not say that a mapping is one client's alone, without which a      *)
(* client could unmap another's view; nor that one thread at a time makes  *)
(* or remakes a mapping and adds it to an empty heap, without which an Add *)
(* would forget a mapping or xtmremap find its own gone.                   *)
(***************************************************************************)
\* A heap as MmanSpec leaves it: of the code's capacity, with one entry at most.
SmallHeaps ==
  [data : [0 .. HeapCap - 1 -> [addr : Addresses \cup {0}, size : Sizes \cup {0}]],
   count : {0, 1}, cap : {HeapCap}]

\* A heap of one entry at most is in order: Sift and Siftup leave it alone.
LEMMA SiftRests ==
  ASSUME NEW h, h.count = 0 \/ h.count = 1
  PROVE  Sift(h, 0) = h
  <1> DEFINE s == [heap |-> h, at |-> 0]
             Turn(a) == [k \in Nat |-> IF k = 0 THEN s ELSE Sunk(a[k - 1])]
             after == CHOOSE a : a = Turn(a)
             const == [k \in Nat |-> s]
  <1>1. Sunk(s) = s
    <2>1. s.at = 0 /\ s.heap = h /\ ~ (Left(0) < h.count) /\ ~ (Right(0) < h.count)
      BY DEF Left, Right
    <2> QED
      BY <2>1 DEF Sunk
  <1>2. Sift(h, 0) = after[h.count].heap
    BY DEF Sift
  <1> HIDE DEF s
  <1>3. const = Turn(const)
    <2>1. \A k \in Nat : (IF k = 0 THEN s ELSE Sunk(const[k - 1])) = s
      BY <1>1
    <2> QED
      BY <2>1
  <1>4. after = Turn(after)
    <2> HIDE DEF Turn, const
    <2> QED
      BY <1>3
  <1> HIDE DEF after
  <1>5. after[0] = s
    BY <1>4
  <1>6. after[1] = s
    BY <1>1, <1>4, <1>5
  <1>7. s.heap = h
    BY DEF s
  <1> QED
    BY <1>2, <1>5, <1>6, <1>7

LEMMA SiftupRests ==
  ASSUME NEW h
  PROVE  Siftup(h, 0) = h
  <1> DEFINE s == [heap |-> h, at |-> 0]
             Turn(a) == [k \in Nat |-> IF k = 0 THEN s ELSE Risen(a[k - 1])]
             after == CHOOSE a : a = Turn(a)
             const == [k \in Nat |-> s]
  <1>1. Risen(s) = s
    BY DEF Risen
  <1>2. Siftup(h, 0) = after[0].heap
    BY DEF Siftup
  <1> HIDE DEF s
  <1>3. const = Turn(const)
    <2>1. \A k \in Nat : (IF k = 0 THEN s ELSE Risen(const[k - 1])) = s
      BY <1>1
    <2> QED
      BY <2>1
  <1>4. after = Turn(after)
    <2> HIDE DEF Turn, const
    <2> QED
      BY <1>3
  <1> HIDE DEF after
  <1>5. after[0] = s
    BY <1>4
  <1>6. s.heap = h
    BY DEF s
  <1> QED
    BY <1>2, <1>5, <1>6

\* The search meets the only entry when that is what it is for.
LEMMA IndexOfOnly ==
  ASSUME NEW h \in SmallHeaps, NEW key
  PROVE  IndexOf(h, key) = IF h.count = 1 /\ h.data[0].addr = key THEN 0 ELSE HeapCap
  <1> DEFINE Turn(f) == [i \in Nat |->
               IF i >= h.count THEN h.cap
               ELSE IF Key(h, i) = key THEN i
               ELSE f[IF Key(h, i) > key /\ Right(i) < h.count THEN Right(i) ELSE Left(i)]]
             from == CHOOSE f : f = Turn(f)
             sol == [i \in Nat |-> IF i = 0 /\ h.count = 1 /\ Key(h, 0) = key THEN 0 ELSE h.cap]
  <1>1. IndexOf(h, key) = from[0]
    BY DEF IndexOf
  <1>2. h.count \in {0, 1} /\ h.cap = HeapCap
    BY DEF SmallHeaps
  <1>3. sol = Turn(sol)
    <2>1. \A i \in Nat : Left(i) \in Nat /\ Right(i) \in Nat /\ Left(i) # 0 /\ Right(i) # 0
      BY DEF Left, Right
    <2>2. \A i \in Nat : i # 0 => sol[i] = h.cap
      OBVIOUS
    <2>3. ASSUME NEW i \in Nat
          PROVE  sol[i] = IF i >= h.count THEN h.cap
                   ELSE IF Key(h, i) = key THEN i
                   ELSE sol[IF Key(h, i) > key /\ Right(i) < h.count THEN Right(i) ELSE Left(i)]
      <3>1. CASE i >= h.count
        <4>1. sol[i] = h.cap
          BY <1>2, <3>1
        <4> HIDE DEF sol
        <4> QED
          BY <1>2, <3>1, <4>1
      <3>2. CASE ~ (i >= h.count)
        <4>1. i = 0 /\ h.count = 1 /\ i < h.count
          BY <1>2, <3>2
        <4>2. sol[0] = IF Key(h, 0) = key THEN 0 ELSE h.cap
          BY <4>1
        <4>3. sol[IF Key(h, i) > key /\ Right(i) < h.count THEN Right(i) ELSE Left(i)] = h.cap
          BY <2>1, <2>2
        <4> HIDE DEF sol
        <4> QED
          BY <3>2, <4>1, <4>2, <4>3
      <3> QED
        BY <3>1, <3>2
    <2> QED
      BY <2>3
  <1>4. from = Turn(from)
    <2> HIDE DEF Turn, sol
    <2> QED
      BY <1>3
  <1> HIDE DEF from
  <1>a. ASSUME NEW i \in Nat
        PROVE  from[i] = IF i >= h.count THEN h.cap
                 ELSE IF Key(h, i) = key THEN i
                 ELSE from[IF Key(h, i) > key /\ Right(i) < h.count THEN Right(i) ELSE Left(i)]
    <2> HIDE DEF from
    <2> QED
      BY <1>4
  <1>5. \A i \in Nat : i # 0 => from[i] = h.cap
    <2> TAKE i \in Nat
    <2> HAVE i # 0
    <2>1. i >= h.count
      BY <1>2
    <2> QED
      BY <1>a, <2>1
  <1>6. Left(0) = 1 /\ Right(0) = 2
    BY DEF Left, Right
  <1>7. CASE h.count = 0
    BY <1>1, <1>2, <1>4, <1>7
  <1>8. CASE h.count = 1 /\ Key(h, 0) = key
    <2>1. from[0] = 0
      BY <1>a, <1>8
    <2> QED
      BY <1>1, <1>8, <2>1 DEF Key
  <1>9. CASE h.count = 1 /\ Key(h, 0) # key
    <2>1. from[0] = from[1] \/ from[0] = from[2]
      BY <1>4, <1>6, <1>9
    <2>2. from[1] = h.cap /\ from[2] = h.cap
      BY <1>5
    <2>3. from[0] = h.cap
      BY <2>1, <2>2
    <2> QED
      BY <1>1, <1>2, <1>9, <2>3 DEF Key
  <1> QED
    BY <1>2, <1>7, <1>8, <1>9

\* Remove leaves an empty heap of the only entry.
LEMMA WithoutTheOnly ==
  ASSUME NEW h \in SmallHeaps, h.count = 1
  PROVE  Without(h, 0) \in SmallHeaps /\ Without(h, 0).count = 0
  <1> DEFINE up == [h EXCEPT !.data[0].addr = 0]
             rest == [up EXCEPT !.data[0] = up.data[h.count - 1], !.count = @ - 1]
  <1>1. /\ h = [data |-> h.data, count |-> 1, cap |-> HeapCap]
        /\ h.data \in [0 .. HeapCap - 1 -> [addr : Addresses \cup {0}, size : Sizes \cup {0}]]
    BY DEF SmallHeaps
  <1>2. 0 \in 0 .. HeapCap - 1
    BY MmanAssumption
  <1> DEFINE cell == [h.data[0] EXCEPT !.addr = 0]
             data == [h.data EXCEPT ![0] = cell]
  <1>3. cell \in [addr : Addresses \cup {0}, size : Sizes \cup {0}]
    BY <1>1, <1>2
  <1>4. up = [data |-> data, count |-> 1, cap |-> HeapCap]
    BY <1>1, <1>2
  <1>5. data[0] = cell /\ data \in [0 .. HeapCap - 1 -> [addr : Addresses \cup {0}, size : Sizes \cup {0}]]
    <2> HIDE DEF cell
    <2> QED
      BY <1>1, <1>2, <1>3
  <1>6. Without(h, 0) = Sift(rest, 0)
    <2>1. Siftup(up, 0) = up
      <3> HIDE DEF up
      <3> QED
        BY SiftupRests
    <2> QED
      BY <2>1 DEF Without
  <1> HIDE DEF cell, data, up
  <1>7. rest = [data |-> [data EXCEPT ![0] = data[0]], count |-> 0, cap |-> HeapCap]
    <2> DEFINE mid == [up EXCEPT !.data[0] = up.data[h.count - 1]]
    <2>1. h.count - 1 = 0 /\ up.data = data /\ up.count = 1
      BY <1>1, <1>4
    <2>2. mid = [data |-> [data EXCEPT ![0] = data[0]], count |-> 1, cap |-> HeapCap]
      BY <1>4, <2>1
    <2>3. rest = [mid EXCEPT !.count = up.count - 1]
      BY <1>4
    <2> HIDE DEF mid, rest
    <2> QED
      BY <2>1, <2>2, <2>3
  <1>8. [data EXCEPT ![0] = data[0]] = data
    BY <1>5
  <1>9. rest \in SmallHeaps /\ rest.count = 0
    BY <1>5, <1>7, <1>8 DEF SmallHeaps
  <1> HIDE DEF rest
  <1> QED
    BY <1>6, <1>9, SiftRests

\* Add, which starts from an empty heap, leaves one of the new entry.
LEMMA WithTheFirst ==
  ASSUME NEW e \in Mappings
  PROVE  /\ With(LazilyInit, e) \in SmallHeaps
         /\ With(LazilyInit, e).count = 1 /\ With(LazilyInit, e).data[0] = e
  <1> DEFINE cells == [i \in 0 .. HeapCap - 1 |-> NoMapping]
             data == [cells EXCEPT ![0] = e]
             new == [data |-> data, count |-> 1, cap |-> HeapCap]
  <1>1. 0 \in 0 .. HeapCap - 1
    BY MmanAssumption
  <1>2. data[0] = e /\ data \in [0 .. HeapCap - 1 -> [addr : Addresses \cup {0}, size : Sizes \cup {0}]]
    BY <1>1 DEF Mappings, NoMapping
  <1>3. With(LazilyInit, e) = Sift(new, 0)
    <2> HIDE DEF cells
    <2>1. LazilyInit = [data |-> cells, count |-> 0, cap |-> HeapCap]
      BY DEF LazilyInit, EmptyHeap, cells
    <2>2. LazilyInit.count = 0
      BY <2>1
    <2>3. [LazilyInit EXCEPT !.data[LazilyInit.count] = e, !.count = @ + 1] = new
      <3> DEFINE mid == [LazilyInit EXCEPT !.data[LazilyInit.count] = e]
      <3>1. mid = [data |-> data, count |-> 0, cap |-> HeapCap]
        BY <2>1, <2>2
      <3>2. [LazilyInit EXCEPT !.data[LazilyInit.count] = e, !.count = @ + 1]
              = [mid EXCEPT !.count = LazilyInit.count + 1]
        BY <2>1
      <3> HIDE DEF mid
      <3> QED
        BY <2>2, <3>1, <3>2
    <2> HIDE DEF new
    <2> QED
      BY <2>2, <2>3 DEF With
  <1> HIDE DEF data
  <1>4. new \in SmallHeaps /\ new.count = 1 /\ new.data[0] = e
    BY <1>2 DEF SmallHeaps
  <1> HIDE DEF new
  <1> QED
    BY <1>3, <1>4, SiftRests
-----------------------------------------------------------------------------
MapperStates == {"idle", "add", "unmap", "remap", "remapUnmap", "remapMap", "abort"}

\* The views that nobody will unmap any more.
Lost == forgotten \cup unrecorded \cup refused

\* The mappings the system has views of.
Viewed == {[addr |-> a, size |-> views[a]] : a \in DOMAIN views}

MmanTypes ==
  /\ heap \in SmallHeaps
  /\ DOMAIN views \subseteq Addresses /\ \A a \in DOMAIN views : views[a] \in Sizes
  /\ mpc \in [Mappers -> MapperStates]
  /\ arg \in [Mappers -> Mappings \cup {NoMapping}]
  /\ mine \in [Mappers -> SUBSET Mappings]
  /\ forgotten \cup unrecorded \cup refused \subseteq Mappings

\* No two threads are about to record the same mapping.
MmanControl ==
  \A t \in Mappers : \A u \in Mappers :
    mpc[t] = "add" /\ mpc[u] = "add" /\ arg[t] = arg[u] => t = u

\* Each mapping belongs to the one client that was given it; a call works on
\* a mapping of its own, or adds one that nobody has yet.
MmanOwners ==
  /\ \A t \in Mappers : \A u \in Mappers : \A m \in Mappings : m \in mine[t] /\ m \in mine[u] => t = u
  /\ \A t \in Mappers : mpc[t] \in {"unmap", "remap", "remapUnmap"} => arg[t] \in mine[t]
  /\ \A t \in Mappers : mpc[t] = "add" => arg[t] \in Mappings /\ \A u \in Mappers : arg[t] \notin mine[u]
  /\ Known \cup forgotten \cup refused \subseteq GivenOut
  /\ Lost \cap (Known \cup InTransit) = {}

\* What HeapMatchesViews says, with what is lost in one set.
Accounts ==
  /\ Viewed = Known \cup InTransit \cup Lost
  /\ GivenOut \subseteq Known \cup InTransit \cup forgotten \cup refused
  /\ GivenOut \cap unrecorded = {}
  /\ Known \cap InTransit = {}
  /\ \A t \in Mappers : mpc[t] = "abort" => arg[t] \in forgotten \cup refused

MmanInv == MmanTypes /\ MmanControl /\ MmanOwners /\ Accounts

\* What an empty heap and one of an entry know.
KnownByCount ==
  heap \in SmallHeaps =>
    /\ heap.count = 0 => Known = {}
    /\ heap.count = 1 => Known = {heap.data[0]}
    /\ heap.count \in {0, 1}

LEMMA KnownIs == KnownByCount
  <1> SUFFICES ASSUME heap \in SmallHeaps
               PROVE  /\ heap.count = 0 => Known = {}
                      /\ heap.count = 1 => Known = {heap.data[0]}
    BY DEF SmallHeaps, KnownByCount
  <1>1. heap.count \in {0, 1}
    BY DEF SmallHeaps
  <1>2. heap.count = 0 => 0 .. heap.count - 1 = {}
    OBVIOUS
  <1>3. heap.count = 1 => 0 .. heap.count - 1 = {0}
    OBVIOUS
  <1> QED
    BY <1>1, <1>2, <1>3 DEF Known

LEMMA KnownIsNext == KnownByCount'
  BY KnownIs, PTL

\* A view's address tells which mapping it is.
LEMMA ViewedOnce ==
  ASSUME NEW m \in Viewed, NEW n \in Viewed, m.addr = n.addr
  PROVE  m = n /\ m.addr \in DOMAIN views /\ m = [addr |-> m.addr, size |-> views[m.addr]]
  BY DEF Viewed

\* MapViewOfFile.
LEMMA ViewMade ==
  ASSUME MmanTypes, NEW a \in Addresses \ DOMAIN views, NEW n \in Sizes, views' = View(a, n)
  PROVE  /\ DOMAIN views' \subseteq Addresses /\ \A b \in DOMAIN views' : views'[b] \in Sizes
         /\ [addr |-> a, size |-> n] \notin Viewed
         /\ Viewed' = Viewed \cup {[addr |-> a, size |-> n]}
  <1>1. DOMAIN views' = DOMAIN views \cup {a} /\ views'[a] = n
    BY DEF View
  <1>2. \A b \in DOMAIN views : views'[b] = views[b]
    BY DEF View
  <1>3. DOMAIN views' \subseteq Addresses /\ \A b \in DOMAIN views' : views'[b] \in Sizes
    BY <1>1, <1>2 DEF MmanTypes, MapperStates
  <1>4. [addr |-> a, size |-> n] \notin Viewed
    BY DEF Viewed
  <1>5. Viewed' = Viewed \cup {[addr |-> a, size |-> n]}
    BY <1>1, <1>2 DEF Viewed
  <1> QED
    BY <1>3, <1>4, <1>5

\* UnmapViewOfFile.
LEMMA ViewGone ==
  ASSUME MmanTypes, NEW m \in Viewed, views' = Unview(m.addr)
  PROVE  /\ DOMAIN views' \subseteq Addresses /\ \A b \in DOMAIN views' : views'[b] \in Sizes
         /\ Viewed' = Viewed \ {m}
  <1>1. DOMAIN views' = DOMAIN views \ {m.addr} /\ \A b \in DOMAIN views' : views'[b] = views[b]
    BY DEF Unview
  <1>2. DOMAIN views' \subseteq Addresses /\ \A b \in DOMAIN views' : views'[b] \in Sizes
    BY <1>1 DEF MmanTypes, MapperStates
  <1>3. ASSUME NEW x PROVE x \in Viewed' <=> x \in Viewed \ {m}
    <2>1. x \in Viewed' <=> \E b \in DOMAIN views' : x = [addr |-> b, size |-> views[b]]
      BY <1>1 DEF Viewed
    <2>2. x \in Viewed <=> \E b \in DOMAIN views : x = [addr |-> b, size |-> views[b]]
      BY DEF Viewed
    <2>3. \A b \in DOMAIN views : [addr |-> b, size |-> views[b]] = m <=> b = m.addr
      BY DEF Viewed
    <2> QED
      BY <1>1, <2>1, <2>2, <2>3
  <1> QED
    BY <1>2, <1>3

TransitStates == {"add", "unmap", "remapUnmap"}

\* What the other threads are about to record or to unmap.
OthersInTransit(t) == {arg[u] : u \in {w \in Mappers \ {t} : mpc[w] \in TransitStates}}

\* What a step of one thread does to the mappings in transit.
LEMMA TransitOf ==
  ASSUME NEW t \in Mappers, \A u \in Mappers \ {t} : mpc'[u] = mpc[u] /\ arg'[u] = arg[u]
  PROVE  /\ InTransit = OthersInTransit(t) \cup (IF mpc[t] \in TransitStates THEN {arg[t]} ELSE {})
         /\ InTransit' = OthersInTransit(t) \cup (IF mpc'[t] \in TransitStates THEN {arg'[t]} ELSE {})
  BY DEF InTransit, OthersInTransit, TransitStates

LEMMA TransitOfNow ==
  ASSUME NEW t \in Mappers
  PROVE  InTransit = OthersInTransit(t) \cup (IF mpc[t] \in TransitStates THEN {arg[t]} ELSE {})
  BY DEF InTransit, OthersInTransit, TransitStates

\* No two threads work on the same mapping.
LEMMA WorksAlone ==
  ASSUME MmanInv, NEW t \in Mappers,
         mpc[t] = "add" \/ (mpc[t] # "add" /\ arg[t] \in mine[t])
  PROVE  arg[t] \notin OthersInTransit(t)
  <1> SUFFICES ASSUME NEW u \in Mappers \ {t}, mpc[u] \in TransitStates, arg[u] = arg[t]
               PROVE  FALSE
    BY DEF OthersInTransit
  <1>1. arg[t] \in Mappings
    BY DEF MmanInv, MmanTypes, MapperStates, MmanOwners
  <1>2. CASE mpc[u] = "add"
    <2>1. mpc[t] = "add" => t = u
      BY <1>2 DEF MmanInv, MmanControl
    <2>2. arg[u] \notin mine[t]
      BY <1>2 DEF MmanInv, MmanOwners
    <2> QED
      BY <2>1, <2>2
  <1>3. CASE mpc[u] # "add"
    <2>1. arg[u] \in mine[u]
      BY <1>3 DEF MmanInv, MmanOwners, TransitStates
    <2>2. mpc[t] = "add" => arg[t] \notin mine[u]
      BY DEF MmanInv, MmanOwners
    <2>3. arg[t] \notin mine[t]
      BY <1>1, <2>1 DEF MmanInv, MmanOwners
    <2> QED
      BY <2>1, <2>2, <2>3
  <1> QED
    BY <1>2, <1>3

\* The mapping a client holds is what the heap finds at its address.
LEMMA FoundIsKnown ==
  ASSUME MmanInv, NEW t \in Mappers, NEW m \in mine[t], Found(m.addr)
  PROVE  heap.count = 1 /\ heap.data[0] = m /\ IndexOf(heap, m.addr) = 0
  <1>1. heap.count = 1 /\ heap.data[0].addr = m.addr /\ IndexOf(heap, m.addr) = 0
    <2>1. heap \in SmallHeaps /\ heap.cap = HeapCap /\ HeapCap \in Nat
      BY MmanAssumption DEF MmanInv, MmanTypes, MapperStates, SmallHeaps
    <2>2. IndexOf(heap, m.addr) = IF heap.count = 1 /\ heap.data[0].addr = m.addr THEN 0 ELSE HeapCap
      BY <2>1, IndexOfOnly
    <2>3. IndexOf(heap, m.addr) # HeapCap
      BY <2>1 DEF Found
    <2> QED
      BY <2>2, <2>3
  <1>2. Known = {heap.data[0]}
    BY <1>1, KnownIs DEF KnownByCount, MmanInv, MmanTypes, MapperStates
  <1>3. m \in Viewed /\ heap.data[0] \in Viewed
    BY <1>2 DEF MmanInv, Accounts, GivenOut, Lost
  <1> QED
    BY <1>1, <1>3, ViewedOnce

\* What the heap records is found at its address.
LEMMA KnownAreFound ==
  ASSUME heap \in SmallHeaps, NEW m \in Known
  PROVE  Found(m.addr)
  <1>1. heap.count = 1 /\ m = heap.data[0]
    BY KnownIs DEF KnownByCount
  <1>2. IndexOf(heap, m.addr) = 0
    BY <1>1, IndexOfOnly
  <1>3. heap.cap = HeapCap /\ 0 < HeapCap
    BY MmanAssumption DEF SmallHeaps
  <1> QED
    BY <1>2, <1>3 DEF Found

LEMMA MmanInitInv == MmanInit => MmanInv
  <1> SUFFICES ASSUME MmanInit
               PROVE  MmanInv
    OBVIOUS
  <1>1. heap \in SmallHeaps /\ heap.count = 0
    <2>1. heap = [data |-> [i \in 0 .. HeapCap - 1 |-> NoMapping], count |-> 0, cap |-> HeapCap]
      BY DEF MmanInit, EmptyHeap
    <2>2. [i \in 0 .. HeapCap - 1 |-> NoMapping]
            \in [0 .. HeapCap - 1 -> [addr : Addresses \cup {0}, size : Sizes \cup {0}]]
      BY DEF NoMapping
    <2> QED
      BY <2>1, <2>2 DEF SmallHeaps
  <1>2. Known = {}
    BY <1>1, KnownIs DEF KnownByCount
  <1>3. Viewed = {} /\ InTransit = {} /\ Lost = {} /\ GivenOut = {}
    BY DEF MmanInit, Viewed, InTransit, Lost, GivenOut
  <1>4. MmanTypes
    BY <1>1 DEF MmanInit, MmanTypes, MapperStates
  <1>5. MmanControl /\ MmanOwners
    BY <1>2, <1>3 DEF MmanInit, MmanControl, MmanOwners
  <1>6. Accounts
    BY <1>2, <1>3 DEF MmanInit, Accounts
  <1> QED
    BY <1>4, <1>5, <1>6 DEF MmanInv

\* The system makes a view, for xtmmap or for xtmremap.
LEMMA MapViewStep ==
  ASSUME MmanInv, NEW t \in Mappers, NEW n \in Sizes, MapView(t, n),
         mpc[t] \in {"idle", "remapMap"}
  PROVE  MmanInv'
  <1>1. /\ heap' = heap /\ mine' = mine
        /\ forgotten' = forgotten /\ unrecorded' = unrecorded /\ refused' = refused
        /\ Known' = Known /\ GivenOut' = GivenOut /\ Lost' = Lost
    BY DEF MapView, Known, GivenOut, Lost
  <1>2. mpc[t] \notin TransitStates
    BY DEF TransitStates
  <1>4. CASE /\ views' = views /\ arg' = arg
             /\ mpc' = [mpc EXCEPT ![t] = "idle"]
    <2>1. /\ mpc'[t] = "idle" /\ \A u \in Mappers \ {t} : mpc'[u] = mpc[u] /\ arg'[u] = arg[u]
      BY <1>4 DEF MmanInv, MmanTypes, MapperStates
    <2>2. InTransit' = InTransit
      BY <1>2, <2>1, TransitOf DEF TransitStates
    <2>3. MmanTypes'
      BY <1>1, <1>4 DEF MmanInv, MmanTypes, MapperStates
    <2>4. MmanControl'
      BY <2>1 DEF MmanInv, MmanControl
    <2>5. MmanOwners'
      BY <1>1, <1>4, <2>1, <2>2 DEF MmanInv, MmanOwners
    <2>6. Accounts'
      BY <1>1, <1>4, <2>1, <2>2 DEF MmanInv, Accounts, Viewed
    <2> QED
      BY <2>3, <2>4, <2>5, <2>6 DEF MmanInv
  <1>5. ASSUME NEW a \in Addresses \ DOMAIN views,
               views' = View(a, n),
               arg' = [arg EXCEPT ![t] = [addr |-> a, size |-> n]],
               mpc' = [mpc EXCEPT ![t] = "add"]
        PROVE  MmanInv'
    <2> DEFINE m == [addr |-> a, size |-> n]
    <2>1. m \in Mappings
      BY DEF Mappings
    <2>2. /\ DOMAIN views' \subseteq Addresses /\ \A b \in DOMAIN views' : views'[b] \in Sizes
          /\ m \notin Viewed /\ Viewed' = Viewed \cup {m}
      BY <1>5, ViewMade DEF MmanInv
    <2>3. arg' = [arg EXCEPT ![t] = m]
      BY <1>5
    <2> HIDE DEF m
    <2>4. /\ mpc'[t] = "add" /\ arg'[t] = m
          /\ \A u \in Mappers \ {t} : mpc'[u] = mpc[u] /\ arg'[u] = arg[u]
          /\ InTransit' = InTransit \cup {m}
      <3>1. /\ mpc'[t] = "add" /\ arg'[t] = m
            /\ \A u \in Mappers \ {t} : mpc'[u] = mpc[u] /\ arg'[u] = arg[u]
        BY <1>5, <2>3 DEF MmanInv, MmanTypes, MapperStates
      <3> QED
        BY <1>2, <3>1, TransitOf DEF TransitStates
    <2>5. /\ Viewed = Known \cup InTransit \cup Lost
          /\ GivenOut \subseteq Known \cup InTransit \cup forgotten \cup refused
      BY DEF MmanInv, Accounts
    <2>6. \A u \in Mappers : m \notin mine[u]
      BY <2>2, <2>5 DEF GivenOut, Lost
    <2>7. MmanTypes'
      BY <1>1, <1>5, <2>1, <2>2, <2>3 DEF MmanInv, MmanTypes, MapperStates
    <2>8. MmanControl'
      <3>1. \A u \in Mappers : mpc[u] = "add" => arg[u] # m
        BY <2>2, <2>5 DEF InTransit
      <3> QED
        BY <2>4, <3>1 DEF MmanInv, MmanControl
    <2>9. MmanOwners'
      <3>1. \A u \in Mappers : mpc'[u] \in {"unmap", "remap", "remapUnmap"} => arg'[u] \in mine'[u]
        BY <1>1, <2>4 DEF MmanInv, MmanOwners
      <3>2. \A u \in Mappers : mpc'[u] = "add" =>
              arg'[u] \in Mappings /\ \A v \in Mappers : arg'[u] \notin mine'[v]
        BY <1>1, <2>1, <2>4, <2>6 DEF MmanInv, MmanOwners
      <3>3. Lost' \cap (Known' \cup InTransit') = {}
        BY <1>1, <2>2, <2>4, <2>5 DEF MmanInv, MmanOwners
      <3> QED
        BY <1>1, <3>1, <3>2, <3>3 DEF MmanInv, MmanOwners
    <2>10. Accounts'
      <3>1. m \notin Known
        BY <2>2, <2>5
      <3>2. \A u \in Mappers : mpc'[u] = "abort" => u # t
        BY <2>4
      <3> QED
        BY <1>1, <2>2, <2>4, <2>5, <3>1, <3>2 DEF MmanInv, Accounts
    <2> QED
      BY <2>7, <2>8, <2>9, <2>10 DEF MmanInv
  <1> QED
    BY <1>4, <1>5 DEF MapView, Goto

\* A view's mapping is recorded, and the one the heap had is forgotten.
LEMMA HeapAddStep ==
  ASSUME MmanInv, NEW t \in Mappers, HeapAdd(t)
  PROVE  MmanInv'
  <1> DEFINE m == arg[t]
  <1>1. /\ mpc[t] = "add" /\ heap' = With(LazilyInit, m)
        /\ mine' = [mine EXCEPT ![t] = @ \cup {m}]
        /\ mpc' = [mpc EXCEPT ![t] = "idle"]
        /\ views' = views /\ arg' = arg /\ forgotten' = forgotten \cup Known
        /\ unrecorded' = unrecorded /\ refused' = refused
        /\ Lost' = Lost \cup Known /\ Viewed' = Viewed
    BY DEF HeapAdd, At, Goto, Lost, Viewed
  <1>2. m \in Mappings /\ \A u \in Mappers : m \notin mine[u]
    BY <1>1 DEF MmanInv, MmanOwners
  <1>3. heap' \in SmallHeaps /\ heap'.count = 1 /\ heap'.data[0] = m
    <2> HIDE DEF m
    <2> QED
      BY <1>1, <1>2, WithTheFirst
  <1>4. Known \subseteq GivenOut /\ m \notin GivenOut /\ m \notin Known
    BY <1>2 DEF MmanInv, MmanOwners, GivenOut
  <1>5. Known' = {m}
    BY <1>3, KnownIsNext DEF KnownByCount, SmallHeaps
  <1>6. mpc'[t] = "idle" /\ \A u \in Mappers \ {t} : mpc'[u] = mpc[u] /\ arg'[u] = arg[u]
    BY <1>1 DEF MmanInv, MmanTypes, MapperStates
  <1>7. m \notin OthersInTransit(t)
    BY <1>1, WorksAlone
  <1>8. /\ mpc'[t] = "idle" /\ \A u \in Mappers \ {t} : mpc'[u] = mpc[u] /\ arg'[u] = arg[u]
        /\ InTransit = OthersInTransit(t) \cup {m} /\ InTransit' = InTransit \ {m}
    <2>1. m = arg[t]
      BY DEF m
    <2> QED
      BY <1>1, <1>6, <1>7, <2>1, TransitOf DEF TransitStates
  <1>9. mine'[t] = mine[t] \cup {m} /\ \A u \in Mappers \ {t} : mine'[u] = mine[u]
    BY <1>1 DEF MmanInv, MmanTypes, MapperStates
  <1>10. \A u \in Mappers \ {t} : mpc[u] = "add" => arg[u] # m
    BY <1>7 DEF OthersInTransit, TransitStates
  <1> HIDE DEF m
  <1>11. MmanTypes'
    <2>1. mine' \in [Mappers -> SUBSET Mappings]
      BY <1>1, <1>2 DEF MmanInv, MmanTypes, MapperStates
    <2>2. mpc' \in [Mappers -> MapperStates]
      BY <1>1 DEF MmanInv, MmanTypes, MapperStates
    <2>3. SmallHeaps' = SmallHeaps
      BY DEF SmallHeaps
    <2>4. Known \subseteq Mappings
      <3>1. GivenOut \subseteq Mappings
        BY DEF GivenOut, MmanInv, MmanTypes
      <3> QED
        BY <1>4, <3>1
    <2> QED
      BY <1>1, <1>3, <2>1, <2>2, <2>3, <2>4 DEF MmanInv, MmanTypes, MapperStates
  <1>12. MmanControl'
    BY <1>1, <1>8 DEF MmanInv, MmanControl
  <1>13. MmanOwners'
    <2>1. \A u \in Mappers : \A v \in Mappers : \A x \in Mappings : x \in mine'[u] /\ x \in mine'[v] => u = v
      BY <1>2, <1>9 DEF MmanInv, MmanOwners
    <2>2. \A u \in Mappers : mpc'[u] \in {"unmap", "remap", "remapUnmap"} => arg'[u] \in mine'[u]
      BY <1>8, <1>9 DEF MmanInv, MmanOwners
    <2>3. \A u \in Mappers : mpc'[u] = "add" =>
            arg'[u] \in Mappings /\ \A v \in Mappers : arg'[u] \notin mine'[v]
      BY <1>8, <1>9, <1>10 DEF MmanInv, MmanOwners
    <2>4. Known' \cup forgotten' \cup refused' \subseteq GivenOut'
      <3>1. GivenOut' = GivenOut \cup {m}
        BY <1>9 DEF GivenOut
      <3> QED
        BY <1>1, <1>4, <1>5, <3>1 DEF MmanInv, MmanOwners
    <2>5. Lost' \cap (Known' \cup InTransit') = {}
      <3>1. Known \cap InTransit = {} /\ m \in InTransit
        BY <1>8 DEF MmanInv, Accounts
      <3>2. Lost \cap InTransit = {}
        BY DEF MmanInv, MmanOwners
      <3> QED
        BY <1>1, <1>4, <1>5, <1>8, <3>1, <3>2
    <2> QED
      BY <2>1, <2>2, <2>3, <2>4, <2>5 DEF MmanOwners
  <1>14. Accounts'
    <2>1. GivenOut' = GivenOut \cup {m}
      BY <1>9 DEF GivenOut
    <2>2. m \notin unrecorded
      BY <1>8 DEF MmanInv, MmanOwners, Lost
    <2>3. \A u \in Mappers : mpc'[u] = "abort" => mpc[u] = "abort" /\ arg'[u] = arg[u]
      BY <1>8
    <2> QED
      BY <1>1, <1>4, <1>5, <1>8, <2>1, <2>2, <2>3 DEF MmanInv, Accounts
  <1> QED
    BY <1>11, <1>12, <1>13, <1>14 DEF MmanInv

\* A view that could not be recorded stays.
LEMMA HeapAddNoMemoryStep ==
  ASSUME MmanInv, NEW t \in Mappers, HeapAddNoMemory(t)
  PROVE  MmanInv'
  <1> DEFINE m == arg[t]
  <1>1. /\ mpc[t] = "add" /\ unrecorded' = unrecorded \cup {m}
        /\ forgotten' = forgotten /\ refused' = refused
        /\ mpc' = [mpc EXCEPT ![t] = "idle"]
        /\ heap' = heap /\ views' = views /\ arg' = arg /\ mine' = mine
        /\ Lost' = Lost \cup {m} /\ Viewed' = Viewed /\ GivenOut' = GivenOut
    BY DEF HeapAddNoMemory, At, Goto, Lost, Viewed, GivenOut
  <1>2. m \in Mappings /\ \A u \in Mappers : m \notin mine[u]
    BY <1>1 DEF MmanInv, MmanOwners
  <1>3. Known' = Known /\ m \notin Known
    <2>1. Known' = Known
      BY <1>1 DEF Known
    <2>2. m \notin GivenOut
      BY <1>2 DEF GivenOut
    <2>3. Known \subseteq GivenOut
      BY DEF MmanInv, MmanOwners
    <2> QED
      BY <2>1, <2>2, <2>3
  <1>4. mpc'[t] = "idle" /\ \A u \in Mappers \ {t} : mpc'[u] = mpc[u] /\ arg'[u] = arg[u]
    BY <1>1 DEF MmanInv, MmanTypes, MapperStates
  <1>5. InTransit' = InTransit \ {m} /\ m \in InTransit
    BY <1>1, <1>4, TransitOf, WorksAlone DEF TransitStates
  <1> HIDE DEF m
  <1>6. MmanTypes'
    BY <1>1, <1>2 DEF MmanInv, MmanTypes, MapperStates
  <1>7. MmanControl'
    BY <1>1, <1>4 DEF MmanInv, MmanControl
  <1>8. MmanOwners'
    <2>1. Lost' \cap (Known' \cup InTransit') = {}
      BY <1>1, <1>3, <1>5 DEF MmanInv, MmanOwners
    <2> QED
      BY <1>1, <1>3, <1>4, <2>1 DEF MmanInv, MmanOwners
  <1>9. Accounts'
    <2>1. m \notin GivenOut
      BY <1>2 DEF GivenOut
    <2> QED
      BY <1>1, <1>3, <1>4, <1>5, <2>1 DEF MmanInv, Accounts
  <1> QED
    BY <1>6, <1>7, <1>8, <1>9 DEF MmanInv

\* HeapRemove, for xtmunmap and for xtmremap: the heap forgets a mapping whose
\* view is about to go.
LEMMA RemoveStep ==
  ASSUME MmanInv, NEW t \in Mappers, NEW m \in mine[t], Found(m.addr),
         heap' = Without(heap, IndexOf(heap, m.addr)),
         mpc[t] \in {"idle", "remap"}, mpc'[t] \in {"unmap", "remapUnmap"},
         mpc' = [mpc EXCEPT ![t] = mpc'[t]], arg' = [arg EXCEPT ![t] = m],
         views' = views, mine' = mine,
         forgotten' = forgotten, unrecorded' = unrecorded, refused' = refused
  PROVE  MmanInv'
  <1>1. heap.count = 1 /\ heap.data[0] = m /\ IndexOf(heap, m.addr) = 0
    BY FoundIsKnown
  <1>2. m \in Mappings
    BY DEF MmanInv, MmanTypes, MapperStates
  <1>3. heap' \in SmallHeaps /\ heap'.count = 0
    BY <1>1, WithoutTheOnly DEF MmanInv, MmanTypes, MapperStates
  <1>4. Known = {m} /\ Known' = {}
    BY <1>1, <1>3, KnownIs, KnownIsNext DEF KnownByCount, MmanInv, MmanTypes, MapperStates, SmallHeaps
  <1>5. arg'[t] = m /\ \A u \in Mappers \ {t} : mpc'[u] = mpc[u] /\ arg'[u] = arg[u]
    BY DEF MmanInv, MmanTypes, MapperStates
  <1>6. InTransit' = InTransit \cup {m}
    BY <1>5, TransitOf DEF TransitStates
  <1>7. mpc'[t] # "add" /\ mpc'[t] # "abort"
    OBVIOUS
  <1>8. MmanTypes'
    <2>1. mpc' \in [Mappers -> MapperStates]
      BY DEF MmanInv, MmanTypes, MapperStates
    <2>2. arg' \in [Mappers -> Mappings \cup {NoMapping}]
      BY <1>2 DEF MmanInv, MmanTypes, MapperStates
    <2>3. SmallHeaps' = SmallHeaps
      BY DEF SmallHeaps
    <2> QED
      BY <1>3, <2>1, <2>2, <2>3 DEF MmanInv, MmanTypes, MapperStates
  <1>9. MmanControl'
    BY <1>5, <1>7 DEF MmanInv, MmanControl
  <1>10. MmanOwners'
    <2>1. Lost' \cap (Known' \cup InTransit') = {}
      BY <1>4, <1>6 DEF MmanInv, MmanOwners, Lost
    <2>2. \A u \in Mappers : mpc'[u] \in {"unmap", "remap", "remapUnmap"} => arg'[u] \in mine'[u]
      BY <1>5 DEF MmanInv, MmanOwners
    <2>3. \A u \in Mappers : mpc'[u] = "add" =>
            arg'[u] \in Mappings /\ \A v \in Mappers : arg'[u] \notin mine'[v]
      BY <1>5, <1>7 DEF MmanInv, MmanOwners
    <2>4. GivenOut' = GivenOut
      BY DEF GivenOut
    <2> QED
      BY <1>4, <2>1, <2>2, <2>3, <2>4 DEF MmanInv, MmanOwners
  <1>11. Accounts'
    <2>1. Viewed' = Viewed /\ GivenOut' = GivenOut /\ Lost' = Lost
      BY DEF Viewed, GivenOut, Lost
    <2>2. \A u \in Mappers : mpc'[u] = "abort" => mpc[u] = "abort" /\ arg'[u] = arg[u]
      BY <1>5, <1>7
    <2> QED
      BY <1>4, <1>6, <2>1, <2>2 DEF MmanInv, Accounts
  <1> QED
    BY <1>8, <1>9, <1>10, <1>11 DEF MmanInv

\* UnmapViewOfFile unmaps a view, for xtmunmap and for xtmremap.
LEMMA UnmapStep ==
  ASSUME MmanInv, NEW t \in Mappers, mpc[t] \in {"unmap", "remapUnmap"},
         mpc'[t] = "idle" \/ (mpc'[t] = "remapMap" /\ mpc[t] = "remapUnmap"),
         mpc' = [mpc EXCEPT ![t] = mpc'[t]], views' = Unview(arg[t].addr),
         mine' = [mine EXCEPT ![t] = @ \ {arg[t]}],
         heap' = heap, arg' = arg,
         forgotten' = forgotten, unrecorded' = unrecorded, refused' = refused
  PROVE  MmanInv'
  <1> DEFINE m == arg[t]
  <1>1. m \in mine[t] /\ m \in Mappings
    BY DEF MmanInv, MmanTypes, MapperStates, MmanOwners
  <1>2. Known' = Known /\ Lost' = Lost
    BY DEF Known, Lost
  <1>3. \A u \in Mappers \ {t} : mpc'[u] = mpc[u] /\ arg'[u] = arg[u]
    BY DEF MmanInv, MmanTypes, MapperStates
  <1>4. InTransit' = InTransit \ {m} /\ m \in InTransit
    BY <1>1, <1>3, TransitOf, WorksAlone DEF TransitStates
  <1>5. mine'[t] = mine[t] \ {m} /\ \A u \in Mappers \ {t} : mine'[u] = mine[u] /\ m \notin mine[u]
    BY <1>1 DEF MmanInv, MmanTypes, MapperStates, MmanOwners
  <1>6. Viewed = Known \cup InTransit \cup Lost /\ Known \cap InTransit = {}
    BY DEF MmanInv, Accounts
  <1>7. views' = Unview(m.addr)
    OBVIOUS
  <1> HIDE DEF m
  <1>8. /\ DOMAIN views' \subseteq Addresses /\ \A b \in DOMAIN views' : views'[b] \in Sizes
        /\ Viewed' = Viewed \ {m}
    BY <1>4, <1>6, <1>7, ViewGone DEF MmanInv
  <1>9. MmanTypes'
    <2>1. mpc' \in [Mappers -> MapperStates]
      BY DEF MmanInv, MmanTypes, MapperStates
    <2>2. mine' \in [Mappers -> SUBSET Mappings]
      BY DEF MmanInv, MmanTypes, MapperStates
    <2> QED
      BY <1>8, <2>1, <2>2 DEF MmanInv, MmanTypes, MapperStates
  <1>10. MmanControl'
    BY <1>3 DEF MmanInv, MmanControl
  <1>11. MmanOwners'
    <2>1. \A u \in Mappers : \A v \in Mappers : \A x \in Mappings : x \in mine'[u] /\ x \in mine'[v] => u = v
      BY <1>5 DEF MmanInv, MmanOwners
    <2>2. \A u \in Mappers : mpc'[u] \in {"unmap", "remap", "remapUnmap"} => arg'[u] \in mine'[u]
      BY <1>3, <1>5 DEF MmanInv, MmanOwners
    <2>3. \A u \in Mappers : mpc'[u] = "add" => arg'[u] \in Mappings /\ \A v \in Mappers : arg'[u] \notin mine'[v]
      BY <1>3, <1>5 DEF MmanInv, MmanOwners
    <2>4. Known' \cup forgotten' \cup refused' \subseteq GivenOut'
      <3>1. m \notin Known \cup forgotten \cup refused
        BY <1>4, <1>6 DEF MmanInv, MmanOwners, Lost
      <3>2. GivenOut \ {m} \subseteq GivenOut'
        BY <1>5 DEF GivenOut
      <3> QED
        BY <1>2, <3>1, <3>2 DEF MmanInv, MmanOwners
    <2>5. Lost' \cap (Known' \cup InTransit') = {}
      BY <1>2, <1>4 DEF MmanInv, MmanOwners
    <2> QED
      BY <2>1, <2>2, <2>3, <2>4, <2>5 DEF MmanOwners
  <1>12. Accounts'
    <2>1. m \notin Lost /\ m \notin Known
      BY <1>4, <1>6 DEF MmanInv, MmanOwners
    <2>2. GivenOut' \subseteq GivenOut \ {m}
      BY <1>5 DEF GivenOut
    <2>3. \A u \in Mappers : mpc'[u] = "abort" => u # t /\ mpc[u] = "abort"
      BY <1>3
    <2> QED
      BY <1>2, <1>4, <1>6, <1>8, <2>1, <2>2, <2>3 DEF MmanInv, Accounts
  <1> QED
    BY <1>9, <1>10, <1>11, <1>12 DEF MmanInv

\* UnmapViewOfFile refuses to unmap a view, which is lost from now on.
LEMMA RefusalStep ==
  ASSUME MmanInv, NEW t \in Mappers, mpc[t] \in {"unmap", "remapUnmap"},
         mpc'[t] = "idle" \/ (mpc'[t] = "abort" /\ mpc[t] = "remapUnmap"),
         mpc' = [mpc EXCEPT ![t] = mpc'[t]], refused' = refused \cup {arg[t]},
         heap' = heap, views' = views, arg' = arg, mine' = mine,
         forgotten' = forgotten, unrecorded' = unrecorded
  PROVE  MmanInv'
  <1> DEFINE m == arg[t]
  <1>1. m \in mine[t] /\ m \in Mappings
    BY DEF MmanInv, MmanTypes, MapperStates, MmanOwners
  <1>2. /\ Known' = Known /\ Viewed' = Viewed /\ GivenOut' = GivenOut
        /\ Lost' = Lost \cup {m} /\ refused' = refused \cup {m}
    BY DEF Known, Viewed, GivenOut, Lost
  <1>3. \A u \in Mappers \ {t} : mpc'[u] = mpc[u] /\ arg'[u] = arg[u]
    BY DEF MmanInv, MmanTypes, MapperStates
  <1>4. InTransit' = InTransit \ {m} /\ m \in InTransit
    BY <1>1, <1>3, TransitOf, WorksAlone DEF TransitStates
  <1>5. arg'[t] = m
    OBVIOUS
  <1> HIDE DEF m
  <1>6. MmanTypes'
    BY <1>1, <1>2 DEF MmanInv, MmanTypes, MapperStates
  <1>7. MmanControl'
    BY <1>3 DEF MmanInv, MmanControl
  <1>8. m \notin Known
    BY <1>4 DEF MmanInv, Accounts
  <1>9. MmanOwners'
    <2>1. Lost' \cap (Known' \cup InTransit') = {}
      BY <1>2, <1>4, <1>8 DEF MmanInv, MmanOwners
    <2>2. m \in GivenOut
      BY <1>1 DEF GivenOut
    <2> QED
      BY <1>2, <1>3, <2>1, <2>2 DEF MmanInv, MmanOwners
  <1>10. Accounts'
    BY <1>2, <1>3, <1>4, <1>5 DEF MmanInv, Accounts
  <1> QED
    BY <1>6, <1>7, <1>9, <1>10 DEF MmanInv

\* xtmremap takes what it found.
LEMMA MremapStep ==
  ASSUME MmanInv, NEW t \in Mappers, Mremap(t)
  PROVE  MmanInv'
  <1>1. PICK m \in mine[t] :
          /\ Found(m.addr) /\ arg' = [arg EXCEPT ![t] = m]
    BY DEF Mremap
  <1>2. /\ mpc[t] = "idle" /\ mpc' = [mpc EXCEPT ![t] = "remap"]
        /\ heap' = heap /\ views' = views /\ mine' = mine
        /\ forgotten' = forgotten /\ unrecorded' = unrecorded /\ refused' = refused
    BY DEF Mremap, At, Goto
  <1>3. heap.count = 1 /\ heap.data[0] = m /\ m \in Mappings
    BY <1>1, FoundIsKnown DEF MmanInv, MmanTypes, MapperStates
  <1>4. /\ mpc'[t] = "remap" /\ arg'[t] = m
        /\ \A u \in Mappers \ {t} : mpc'[u] = mpc[u] /\ arg'[u] = arg[u]
    BY <1>1, <1>2 DEF MmanInv, MmanTypes, MapperStates
  <1>5. /\ InTransit' = InTransit /\ Known' = Known
        /\ Viewed' = Viewed /\ GivenOut' = GivenOut /\ Lost' = Lost
    BY <1>2, <1>4, TransitOf DEF TransitStates, Known, Viewed, GivenOut, Lost
  <1>7. MmanTypes'
    BY <1>1, <1>2, <1>3 DEF MmanInv, MmanTypes, MapperStates
  <1>8. MmanControl'
    BY <1>4 DEF MmanInv, MmanControl
  <1>9. MmanOwners'
    BY <1>1, <1>2, <1>4, <1>5 DEF MmanInv, MmanOwners
  <1>10. Accounts'
    BY <1>2, <1>4, <1>5 DEF MmanInv, Accounts
  <1> QED
    BY <1>7, <1>8, <1>9, <1>10 DEF MmanInv

\* xtmremap finds again what it found before, or aborts, when the heap has
\* forgotten it.
LEMMA RemapRemoveStep ==
  ASSUME MmanInv, NEW t \in Mappers, RemapRemove(t)
  PROVE  MmanInv'
  <1> DEFINE m == arg[t]
  <1>1. /\ mpc[t] = "remap" /\ m \in mine[t]
        /\ views' = views /\ arg' = arg /\ mine' = mine
        /\ forgotten' = forgotten /\ unrecorded' = unrecorded /\ refused' = refused
    BY DEF RemapRemove, At, MmanInv, MmanOwners
  <1>2. CASE Found(m.addr)
    <2>1. /\ heap' = Without(heap, IndexOf(heap, m.addr))
          /\ mpc' = [mpc EXCEPT ![t] = "remapUnmap"]
      BY <1>2 DEF RemapRemove, Goto
    <2>2. mpc'[t] = "remapUnmap" /\ arg' = [arg EXCEPT ![t] = m]
      BY <1>1, <2>1 DEF MmanInv, MmanTypes, MapperStates
    <2> HIDE DEF m
    <2> QED
      BY <1>1, <1>2, <2>1, <2>2, RemoveStep
  <1>3. CASE ~Found(m.addr)
    <2>1. heap' = heap /\ mpc' = [mpc EXCEPT ![t] = "abort"]
      BY <1>3 DEF RemapRemove, Goto
    <2>2. m \notin Known
      BY <1>3, KnownAreFound DEF MmanInv, MmanTypes
    <2>3. m \in GivenOut /\ m \notin InTransit
      <3>1. m \notin OthersInTransit(t)
        BY <1>1, WorksAlone
      <3> QED
        BY <1>1, <3>1, TransitOfNow DEF GivenOut, TransitStates
    <2>4. m \in forgotten \cup refused
      BY <2>2, <2>3 DEF MmanInv, Accounts
    <2>5. /\ mpc'[t] = "abort" /\ arg'[t] = m
          /\ \A u \in Mappers \ {t} : mpc'[u] = mpc[u] /\ arg'[u] = arg[u]
      BY <1>1, <2>1 DEF MmanInv, MmanTypes, MapperStates
    <2> HIDE DEF m
    <2>6. /\ InTransit' = InTransit /\ Known' = Known
          /\ Viewed' = Viewed /\ GivenOut' = GivenOut /\ Lost' = Lost
      BY <1>1, <2>1, <2>5, TransitOf DEF TransitStates, Known, Viewed, GivenOut, Lost
    <2>7. MmanTypes'
      BY <1>1, <2>1 DEF MmanInv, MmanTypes, MapperStates, SmallHeaps
    <2>8. MmanControl'
      BY <2>5 DEF MmanInv, MmanControl
    <2>9. MmanOwners'
      BY <1>1, <2>5, <2>6 DEF MmanInv, MmanOwners
    <2>10. Accounts'
      BY <1>1, <2>4, <2>5, <2>6 DEF MmanInv, Accounts
    <2> QED
      BY <2>7, <2>8, <2>9, <2>10 DEF MmanInv
  <1> QED
    BY <1>2, <1>3

LEMMA MmanNextInv == MmanInv /\ [MmanNext]_mmanVars => MmanInv'
  <1> SUFFICES ASSUME MmanInv, [MmanNext]_mmanVars
               PROVE  MmanInv'
    OBVIOUS
  <1>1. CASE UNCHANGED mmanVars
    <2>1. /\ Known' = Known /\ InTransit' = InTransit
          /\ Viewed' = Viewed /\ GivenOut' = GivenOut /\ Lost' = Lost
      BY <1>1 DEF mmanVars, Known, InTransit, Viewed, GivenOut, Lost
    <2>2. MmanTypes' /\ MmanControl'
      BY <1>1 DEF mmanVars, MmanInv, MmanTypes, MapperStates, MmanControl, SmallHeaps
    <2>3. MmanOwners' /\ Accounts'
      BY <1>1, <2>1 DEF mmanVars, MmanInv, MmanOwners, Accounts
    <2> QED
      BY <2>2, <2>3 DEF MmanInv
  <1>2. ASSUME NEW t \in Mappers, MmanStep(t)
        PROVE  MmanInv'
    <2>1. CASE HeapAdd(t)
      BY <2>1, HeapAddStep
    <2>2. CASE HeapAddNoMemory(t)
      BY <2>2, HeapAddNoMemoryStep
    <2>3. CASE Munmap(t)
      <3>1. PICK m \in mine[t] :
              /\ Found(m.addr) /\ heap' = Without(heap, IndexOf(heap, m.addr))
              /\ arg' = [arg EXCEPT ![t] = m]
        BY <2>3 DEF Munmap
      <3>2. /\ mpc[t] = "idle" /\ mpc' = [mpc EXCEPT ![t] = "unmap"]
            /\ views' = views /\ mine' = mine
            /\ forgotten' = forgotten /\ unrecorded' = unrecorded /\ refused' = refused
        BY <2>3 DEF Munmap, At, Goto
      <3>3. mpc'[t] = "unmap"
        BY <3>2 DEF MmanInv, MmanTypes, MapperStates
      <3> QED
        BY <3>1, <3>2, <3>3, RemoveStep
    <2>4. CASE Unmap(t)
      <3>1. /\ mpc[t] = "unmap" /\ mpc' = [mpc EXCEPT ![t] = "idle"]
            /\ heap' = heap /\ arg' = arg /\ forgotten' = forgotten /\ unrecorded' = unrecorded
            /\ ViewUnmapped(t) \/ ViewRefused(t)
        BY <2>4 DEF Unmap, At, Goto
      <3>2. mpc'[t] = "idle"
        BY <3>1 DEF MmanInv, MmanTypes, MapperStates
      <3>3. CASE ViewUnmapped(t)
        BY <3>1, <3>2, <3>3, UnmapStep DEF ViewUnmapped
      <3>4. CASE ViewRefused(t)
        BY <3>1, <3>2, <3>4, RefusalStep DEF ViewRefused
      <3> QED
        BY <3>1, <3>3, <3>4
    <2>5. CASE Mremap(t)
      BY <2>5, MremapStep
    <2>6. CASE RemapRemove(t)
      BY <2>6, RemapRemoveStep
    <2>7. CASE RemapUnmap(t)
      <3>1. /\ mpc[t] = "remapUnmap"
            /\ heap' = heap /\ arg' = arg /\ forgotten' = forgotten /\ unrecorded' = unrecorded
            /\ \/ ViewUnmapped(t) /\ mpc' = [mpc EXCEPT ![t] = "remapMap"]
               \/ ViewRefused(t) /\ mpc' = [mpc EXCEPT ![t] = "abort"]
        BY <2>7 DEF RemapUnmap, At, Goto
      <3>2. CASE ViewUnmapped(t) /\ mpc' = [mpc EXCEPT ![t] = "remapMap"]
        <4>1. mpc'[t] = "remapMap"
          BY <3>2 DEF MmanInv, MmanTypes, MapperStates
        <4> QED
          BY <3>1, <3>2, <4>1, UnmapStep DEF ViewUnmapped
      <3>3. CASE ViewRefused(t) /\ mpc' = [mpc EXCEPT ![t] = "abort"]
        <4>1. mpc'[t] = "abort"
          BY <3>3 DEF MmanInv, MmanTypes, MapperStates
        <4> QED
          BY <3>1, <3>3, <4>1, RefusalStep DEF ViewRefused
      <3> QED
        BY <3>1, <3>2, <3>3
    <2>8. CASE RemapMap(t)
      BY <2>8, MapViewStep DEF RemapMap, At
    <2>9. CASE Mmap(t)
      BY <2>9, MapViewStep DEF Mmap, At
    <2> QED
      BY <1>2, <2>1, <2>2, <2>3, <2>4, <2>5, <2>6, <2>7, <2>8, <2>9 DEF MmanStep
  <1>3. CASE MmanAborted
    BY <1>1, <1>3 DEF MmanAborted
  <1> QED
    BY <1>1, <1>2, <1>3 DEF MmanNext

\* The invariant implies the types, and that every view is accounted for.
LEMMA MmanInvMeans == MmanInv => MmanTypeOK /\ HeapMatchesViews
  <1> SUFFICES ASSUME MmanInv
               PROVE  MmanTypeOK /\ HeapMatchesViews
    OBVIOUS
  <1>1. /\ heap.cap = HeapCap /\ heap.count \in {0, 1}
        /\ heap.data \in [0 .. HeapCap - 1 -> [addr : Addresses \cup {0}, size : Sizes \cup {0}]]
    BY DEF MmanInv, MmanTypes, SmallHeaps
  <1>2. heap.count \in 0 .. HeapCap
    BY <1>1, MmanAssumption
  <1>3. MmanTypeOK
    BY <1>1, <1>2 DEF MmanInv, MmanTypes, MapperStates, MmanTypeOK
  <1>4. HeapMatchesViews
    BY DEF MmanInv, Accounts, MmanOwners, Viewed, Lost, HeapMatchesViews
  <1> QED
    BY <1>3, <1>4

\* Every cell of the heap of mman.c holds a mapping or none, and its count fits.
THEOREM MmanTypeCorrect == MmanSpec => []MmanTypeOK
  BY MmanInitInv, MmanNextInv, MmanInvMeans, PTL DEF MmanSpec

\* Whatever the threads ask for at once, the heap, the calls under way, the
\* mappings the heap forgot, and the views that could not be recorded or that the
\* system refused to unmap account for exactly the views there are; and xtmremap
\* aborts only when its mapping is among the forgotten or the refused ones
\* (HeapMatchesViews).
THEOREM EveryViewIsAccountedFor == MmanSpec => []HeapMatchesViews
  BY MmanInitInv, MmanNextInv, MmanInvMeans, PTL DEF MmanSpec
-----------------------------------------------------------------------------
(***************************************************************************)
(* What is proved of each component holds where they stand side by side:   *)
(* MCSpec implements the specification of every one of them.               *)
(***************************************************************************)

\* The start of all is a start of each.
LEMMA MCInitParts ==
  MCInit => /\ ListInit /\ StackInit /\ EpollInit /\ WsaInit /\ WtInit
            /\ MmanInit /\ DirInit /\ CopyInit /\ WaitInit
  BY DEF MCInit, DirIdle, CopyIdle, WaitIdle

\* A step is one of a single component, or of none.
LEMMA MCNextParts ==
  [MCNext]_MCVars =>
    /\ [ListNext]_listVars /\ [StackNext]_stackVars /\ [EpollNext]_epollVars
    /\ [WsaNext]_wsaVars /\ [WtNext]_wtVars /\ [MmanNext]_mmanVars
    /\ [DirIteratorNext]_dirVars /\ [CopyNext]_copyVars /\ [WaitNext]_waitVars
  <1> SUFFICES ASSUME [MCNext]_MCVars
               PROVE  /\ [ListNext]_listVars /\ [StackNext]_stackVars /\ [EpollNext]_epollVars
                      /\ [WsaNext]_wsaVars /\ [WtNext]_wtVars /\ [MmanNext]_mmanVars
                      /\ [DirIteratorNext]_dirVars /\ [CopyNext]_copyVars /\ [WaitNext]_waitVars
    OBVIOUS
  <1>1. CASE UNCHANGED MCVars
    BY <1>1 DEF MCVars
  <1>2. CASE MCNext
    BY <1>2 DEF MCNext, Others
  <1> QED
    BY <1>1, <1>2

\* A behaviour of all the components is one of each of them.
THEOREM ComponentsStandAlone ==
  MCSpec => /\ ListSpec /\ StackSpec /\ EpollSpec /\ WsaSpec /\ WtSpec
            /\ MmanSpec /\ DirSpec /\ CopySpec /\ WaitSpec
  BY MCInitParts, MCNextParts, PTL
     DEF MCSpec, ListSpec, StackSpec, EpollSpec, WsaSpec, WtSpec, MmanSpec, DirSpec, CopySpec, WaitSpec

\* The variables of every component have the types of the code at any time.
THEOREM MCTypeCorrect == MCSpec => []MCTypeOK
  <1>1. ListTypeOK /\ StackTypeOK /\ EpollTypeOK /\ WsaTypeOK /\ WtTypeOK /\ MmanTypeOK
          /\ DirTypeOK /\ CopyTypeOK /\ WaitTypeOK => MCTypeOK
    BY DEF MCTypeOK
  <1> QED
    BY <1>1, ComponentsStandAlone, ListTypeCorrect, StackTypeCorrect, EpollTypeCorrect, WsaTypeCorrect,
       WtTypeCorrect, MmanTypeCorrect, DirTypeCorrect, CopyTypeCorrect, WaitTypeCorrect, PTL

\* Neither a list nor a stack that is used by the rules of ListNext and StackNext
\* uses memory it does not have, whatever the capacities and growth factors.
THEOREM ArraysStayInBounds == MCSpec => []MCBounds
  <1>1. ListBounds /\ StackBounds => MCBounds
    BY DEF MCBounds
  <1> QED
    BY <1>1, ComponentsStandAlone, ListStaysInBounds, StackStaysInBounds, PTL

\* Each property of a component that is proved above is one of MCSpec.
THEOREM ComponentsAreCorrect ==
  MCSpec => /\ []NoFreedItem /\ ImplementsVector /\ ImplementsLifo
            /\ []SlotsMatchKernel /\ EpollImplementsPollSet
            /\ []Compact /\ WsaImplementsPollSet
            /\ []NoLostContinue /\ JoinGivesResult
            /\ []HeapMatchesViews /\ []ListingComplete /\ []CopyExact
  BY ComponentsStandAlone, OwnedItemsFreedOnce, ListIsVector, StackIsLifo, SlotsAgreeWithKernel,
     EpollIsPollSet, ArrayStaysCompact, WsaIsPollSet, NoContinueIsLost, JoinGivesTheResult,
     EveryViewIsAccountedFor, ListingsAreComplete, CopiesAreExact, PTL
=============================================================================
