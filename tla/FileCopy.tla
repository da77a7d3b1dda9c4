------------------------------- MODULE FileCopy ------------------------------
(***************************************************************************)
(* xtFileCopy and xtFileCopyByHandle, which linux/file.c and               *)
(* windows/file.c share: two files of blocks, the second written through   *)
(* the buffer of its stream.  Source and target are different files, and a *)
(* client opens the stream of a source as xtFileCopy does, in binary mode. *)
(***************************************************************************)
EXTENDS Naturals, FiniteSets, SequencesExt

CONSTANTS Blocks,          \* the contents of a block
          LineFeed,        \* the block of a line feed
          CarriageReturn,  \* the one of a carriage return
          MaxBlocks        \* the most blocks of a file that is read

ASSUME CopyAssumption == MaxBlocks \in Nat /\ {LineFeed, CarriageReturn} \subseteq Blocks

Contents == BoundedSeq(Blocks, MaxBlocks)

\* A carriage return is written for every block at most.
Targets == BoundedSeq(Blocks, 2 * MaxBlocks)

VARIABLES
  copySystem,  \* which of the two files is compiled
  source,      \* the file that is read
  copied,      \* the file that is written, on the disk
  copyText,    \* its stream is one in text mode
  buffered,    \* the blocks fwrite took that are not on the disk
  copyPos,     \* the blocks that were read
  copying,     \* "path" or "handle" in a call of the one or the other function
  copyRet,     \* what the last call returned, with its name
  swallowed    \* an error of the last call is not reported

copyVars ==
  <<copySystem, source, copied, copyText, buffered, copyPos, copying, copyRet, swallowed>>

\* A stream in text mode puts a carriage return before every line feed.
Expanded(i) == copyText /\ source[i] = LineFeed

Cells(i) == IF Expanded(i) THEN <<CarriageReturn, LineFeed>> ELSE <<source[i]>>

\* The position in the target once i blocks of the source are written.
Place(i) == i + Cardinality({j \in 1 .. i : Expanded(j)})

\* The target once the buffer is written where it belongs.
Flushed(buf) ==
  LET at == Place(copyPos) - Len(buffered)
  IN  SubSeq(copied, 1, at) \o buf \o SubSeq(copied, at + Len(buf) + 1, Len(copied))

CopyInit ==
  /\ copySystem \in {"linux", "windows"} /\ copyText = FALSE
  /\ source \in Contents /\ copied \in Contents
  /\ buffered = << >> /\ copyPos = 0 /\ copying = "no"
  /\ copyRet = [call |-> "no", ret |-> "ok"] /\ swallowed = FALSE
-----------------------------------------------------------------------------
Returns(ret) == copyRet' = [call |-> copying, ret |-> ret] /\ copying' = "no"

\* fopen(dst, "w+") empties the target and, on Windows, opens a text stream.
FileCopy ==
  /\ copying = "no"
  /\ \/ copying' = "path" /\ copied' = << >> /\ UNCHANGED copyRet
     \/ copyRet' = [call |-> "path", ret |-> "error"] /\ UNCHANGED <<copied, copying>>
  /\ copyText' = (copySystem = "windows")
  /\ buffered' = << >> /\ copyPos' = 0 /\ swallowed' = FALSE
  /\ UNCHANGED <<copySystem, source>>

\* Both streams are set to the beginning; the target keeps what it has.  The
\* client has opened it in the mode it wants, of which Linux has one.
FileCopyByHandle ==
  /\ copying = "no"
  /\ \/ copying' = "handle" /\ UNCHANGED copyRet
     \/ copyRet' = [call |-> "handle", ret |-> "error"] /\ UNCHANGED copying
  /\ copyText' \in IF copySystem = "windows" THEN BOOLEAN ELSE {FALSE}
  /\ buffered' = << >> /\ copyPos' = 0 /\ swallowed' = FALSE
  /\ UNCHANGED <<copySystem, source, copied>>

\* fwrite keeps a block in the buffer or writes the buffer out with it.
Taken(buf) ==
  /\ \/ buffered' = buf /\ UNCHANGED copied
     \/ buffered' = << >> /\ copied' = Flushed(buf)
  /\ copyPos' = copyPos + 1
  /\ UNCHANGED <<copying, copyRet, swallowed>>

\* A block that fwrite does not take; the call returns an error.
NotTaken == Returns("error") /\ buffered' = << >> /\ UNCHANGED <<copied, copyPos, swallowed>>

\* Mutant: a failed fwrite ends the copy as the end of the source does.
CopyBlockUnchecked ==
  /\ copying # "no" /\ copyPos < Len(source)
  /\ \/ Taken(buffered \o Cells(copyPos + 1))
     \/ Returns("ok") /\ buffered' = << >> /\ UNCHANGED <<copied, copyPos, swallowed>>
  /\ UNCHANGED <<copySystem, source, copyText>>

CopyBlock ==
  /\ copying # "no" /\ copyPos < Len(source)
  /\ Taken(buffered \o Cells(copyPos + 1)) \/ NotTaken
  /\ UNCHANGED <<copySystem, source, copyText>>

\* fread returns 0 at the end of the source, and when it fails; fseek, or
\* fclose, writes what is left in the buffer, and may fail as well.
CopyEnd ==
  /\ copying # "no"
  /\ \E failed \in BOOLEAN :
       /\ \/ ~failed /\ copied' = Flushed(buffered)
          \/ failed /\ buffered # << >> /\ UNCHANGED copied
       /\ swallowed' = (failed \/ copyPos < Len(source))
  /\ buffered' = << >> /\ copyPos' = 0
  /\ Returns("ok")
  /\ UNCHANGED <<copySystem, source, copyText>>

CopyNext == FileCopy \/ FileCopyByHandle \/ CopyBlock \/ CopyEnd

CopySpec == CopyInit /\ [][CopyNext]_copyVars
-----------------------------------------------------------------------------
CopyTypeOK ==
  /\ copySystem \in {"linux", "windows"} /\ copyText \in BOOLEAN
  /\ source \in Contents /\ copied \in Targets
  /\ copyPos \in 0 .. MaxBlocks /\ Len(buffered) <= Place(copyPos)
  /\ copying \in {"no", "path", "handle"} /\ swallowed \in BOOLEAN
  /\ copyRet \in [call : {"no", "path", "handle"}, ret : {"ok", "error"}]

\* A copy that reports success, and no failure of fread or of the last flush
\* was left unreported.
Succeeded == copying = "no" /\ copyRet.ret = "ok" /\ ~swallowed

(***************************************************************************)
(* What file.h says of a copy: the target becomes equal to the source;     *)
(* through handles, up to the source's length.                             *)
(***************************************************************************)
CopyIdentical ==
  Succeeded =>
    /\ copyRet.call = "path" => copied = source
    /\ copyRet.call = "handle" => IsPrefix(source, copied)

(***************************************************************************)
(* It does wherever no line feed goes through a stream in text mode: in    *)
(* every copy on Linux, whichever blocks fwrite kept in its buffer and     *)
(* whatever the target was before.                                         *)
(***************************************************************************)
CopyExact == (\A i \in DOMAIN source : ~Expanded(i)) => CopyIdentical
=============================================================================
