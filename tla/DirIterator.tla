----------------------------- MODULE DirIterator -----------------------------
(***************************************************************************)
(* xtFileIterator of linux/file.c and windows/file.c: a directory is read  *)
(* name by name while other programs add and remove files.                 *)
(***************************************************************************)
EXTENDS Naturals, FiniteSets

CONSTANTS Names,      \* the names files may have
          NoName,     \* stands for NULL
          MaxChanges  \* bounds the changes made to the directory in a listing

ASSUME DirAssumption == NoName \notin Names /\ IsFiniteSet(Names) /\ MaxChanges \in Nat

VARIABLES
  dirSystem,  \* the build: "linux" or "windows"
  dirFiles,   \* the files of the directory
  dirPending, \* what the system still has to give of the listing
  dirOpen,    \* the directory, or the search handle, is open
  dirFirst,   \* handle->firstFilePath
  fileCount,  \* handle->fileCount
  dirRet,     \* what the last call returned
  dirGiven,   \* the names Next gave since Start
  dirTwice,   \* those that it gave more than once
  dirStable,  \* the files that were there since Start
  dirChanges  \* the changes since Start

dirHistory == <<dirGiven, dirTwice, dirStable, dirChanges>>

dirVars ==
  <<dirSystem, dirFiles, dirPending, dirOpen, dirFirst, fileCount, dirRet, dirHistory>>

Windows == dirSystem = "windows"

DirInit ==
  /\ dirSystem \in {"linux", "windows"}
  /\ dirFiles \in SUBSET Names
  /\ dirPending = {} /\ dirOpen = FALSE /\ dirFirst = NoName /\ fileCount = 0 /\ dirRet = "ok"
  /\ dirGiven = {} /\ dirTwice = {} /\ dirStable = {} /\ dirChanges = 0
-----------------------------------------------------------------------------
\* opendir and FindFirstFile; the latter returns the first name as well, and
\* fails in an empty directory.
Opened ==
  /\ dirOpen' = TRUE /\ fileCount' = 0 /\ dirRet' = "ok"
  /\ \/ ~Windows /\ dirPending' = dirFiles /\ UNCHANGED dirFirst
     \/ /\ Windows
        /\ \E f \in dirFiles : dirFirst' = f /\ dirPending' = dirFiles \ {f}

\* The failure of strdup is reported with the code of an earlier call, which
\* may be 0.  The client that takes it for success is not modelled.
NotOpened ==
  /\ \/ dirRet' = "error"
     \/ Windows /\ dirFiles # {} /\ dirRet' = "ok"
  /\ UNCHANGED <<dirPending, dirOpen, dirFirst, fileCount>>

DirStart ==
  /\ ~dirOpen
  /\ Opened \/ NotOpened
  /\ dirGiven' = {} /\ dirTwice' = {} /\ dirStable' = dirFiles /\ dirChanges' = 0
  /\ UNCHANGED <<dirSystem, dirFiles>>

Give(name) ==
  /\ fileCount' = fileCount + 1 /\ dirRet' = "ok"
  /\ dirGiven' = dirGiven \cup {name}
  /\ dirTwice' = IF name \in dirGiven THEN dirTwice \cup {name} ELSE dirTwice
  /\ UNCHANGED <<dirSystem, dirFiles, dirOpen, dirFirst, dirStable, dirChanges>>

Cached == Give(dirFirst) /\ UNCHANGED dirPending

NextEntry == \E f \in dirPending : Give(f) /\ dirPending' = dirPending \ {f}

Closed(ret) ==
  /\ dirOpen' = FALSE /\ dirFirst' = NoName /\ dirRet' = ret
  /\ UNCHANGED <<dirSystem, dirFiles, dirPending, fileCount, dirHistory>>

\* Reading further may fail, with an error of its own, or be at the end.
ReadFurther ==
  \/ NextEntry
  \/ dirPending = {} /\ Closed("XT_ENOENT")
  \/ Closed("error")

\* Mutant: the name that FindFirstFile found is never given.
DirNextWithoutFirst == dirOpen /\ ReadFurther

\* xtFileIteratorNext: on Windows the first name is the one Start has found.
DirNext ==
  /\ dirOpen
  /\ IF Windows /\ fileCount = 0 THEN Cached ELSE ReadFurther

DirEnd == dirOpen /\ \E ret \in {"ok", "error"} : Closed(ret)

\* A file that comes or goes during a listing may be part of it or not.
DirChanges ==
  /\ dirOpen => dirChanges < MaxChanges
  /\ \E f \in Names :
       /\ dirFiles' = IF f \in dirFiles THEN dirFiles \ {f} ELSE dirFiles \cup {f}
       /\ dirPending' \in IF dirOpen THEN {dirPending \ {f}, dirPending}
                                          \cup (IF f \in dirFiles THEN {} ELSE {dirPending \cup {f}})
                          ELSE {dirPending}
       /\ dirStable' = dirStable \ {f}
  /\ dirChanges' = IF dirOpen THEN dirChanges + 1 ELSE dirChanges
  /\ UNCHANGED <<dirSystem, dirOpen, dirFirst, fileCount, dirRet, dirGiven, dirTwice>>

DirIteratorNext == DirStart \/ DirNext \/ DirEnd \/ DirChanges

DirSpec == DirInit /\ [][DirIteratorNext]_dirVars
-----------------------------------------------------------------------------
DirTypeOK ==
  /\ dirSystem \in {"linux", "windows"} /\ dirOpen \in BOOLEAN
  /\ dirFiles \in SUBSET Names /\ dirPending \in SUBSET Names
  /\ dirFirst \in Names \cup {NoName} /\ (dirFirst # NoName => Windows /\ dirOpen)
  /\ fileCount \in 0 .. Cardinality(Names) + MaxChanges
  /\ dirRet \in {"ok", "error", "XT_ENOENT"}
  /\ dirGiven \in SUBSET Names /\ dirTwice \in SUBSET dirGiven /\ dirStable \in SUBSET Names

(***************************************************************************)
(* A listing that was read to its end has every file that was there all    *)
(* the time, and no such file twice, whatever happened to other files      *)
(* between two calls.                                                      *)
(***************************************************************************)
ListingComplete ==
  /\ dirRet = "XT_ENOENT" => dirStable \subseteq dirGiven
  /\ dirTwice \cap dirStable = {}
=============================================================================
