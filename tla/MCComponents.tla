---------------------------- MODULE MCComponents ----------------------------
(***************************************************************************)
(* The components that share no state with each other, one at a time: a    *)
(* behaviour picks one of them and the others stay as they were.           *)
(***************************************************************************)
EXTENDS List, Stack, EpollSet, WsaPollSet, WindowsThread, WindowsMman,
        DirIterator, FileCopy, ProcWait

VARIABLE component  \* the one that is used

\* One initial state of each component that has several.
DirIdle == DirInit /\ dirSystem = "linux" /\ dirFiles = {}

CopyIdle == CopyInit /\ copySystem = "linux" /\ source = << >> /\ copied = << >>

WaitIdle == WaitInit /\ procSystem = "linux"

MCInit ==
  /\ component \in {"list", "stack", "epoll", "wsa", "thread", "mman", "dir", "copy", "wait"}
  /\ ListInit /\ StackInit /\ EpollInit /\ WsaInit /\ WtInit /\ MmanInit
  /\ IF component = "dir" THEN DirInit ELSE DirIdle
  /\ IF component = "copy" THEN CopyInit ELSE CopyIdle
  /\ IF component = "wait" THEN WaitInit ELSE WaitIdle

\* The components that are not used keep their state.
Others(name) ==
  /\ UNCHANGED component
  /\ name # "list" => UNCHANGED listVars
  /\ name # "stack" => UNCHANGED stackVars
  /\ name # "epoll" => UNCHANGED epollVars
  /\ name # "wsa" => UNCHANGED wsaVars
  /\ name # "thread" => UNCHANGED wtVars
  /\ name # "mman" => UNCHANGED mmanVars
  /\ name # "dir" => UNCHANGED dirVars
  /\ name # "copy" => UNCHANGED copyVars
  /\ name # "wait" => UNCHANGED waitVars

MCNext ==
  \/ component = "list" /\ ListNext /\ Others("list")
  \/ component = "stack" /\ StackNext /\ Others("stack")
  \/ component = "epoll" /\ EpollNext /\ Others("epoll")
  \/ component = "wsa" /\ WsaNext /\ Others("wsa")
  \/ component = "thread" /\ WtNext /\ Others("thread")
  \/ component = "mman" /\ MmanNext /\ Others("mman")
  \/ component = "dir" /\ DirIteratorNext /\ Others("dir")
  \/ component = "copy" /\ CopyNext /\ Others("copy")
  \/ component = "wait" /\ WaitNext /\ Others("wait")

MCVars ==
  <<component, listVars, stackVars, epollVars, wsaVars, wtVars, mmanVars, dirVars, copyVars, waitVars>>

MCSpec == MCInit /\ [][MCNext]_MCVars /\ WtFairness /\ WaitFairness

\* One component alone: a list that grows by any growth factor, and a poll set
\* and a thread that are used by any client.
MCListGrowing ==
  /\ MCInit /\ component = "list"
  /\ [][(ListNext \/ \E v \in Values : ListAdd(v)) /\ Others("list")]_MCVars

MCEpollAny ==
  MCInit /\ component = "epoll" /\ [][EpollAnyNext /\ Others("epoll")]_MCVars

MCThreadAny ==
  MCInit /\ component = "thread" /\ [][WtAnyNext /\ Others("thread")]_MCVars

MCGrowths == {-2, 0, 3}

MCRequests == {{"in"}, {"out", "err"}}

\* The variables of every component have the types of the code.
MCTypeOK ==
  /\ ListTypeOK /\ StackTypeOK /\ EpollTypeOK /\ WsaTypeOK /\ WtTypeOK /\ MmanTypeOK
  /\ DirTypeOK /\ CopyTypeOK /\ WaitTypeOK

\* Neither a list nor a stack uses memory it does not have.
MCBounds == ListBounds /\ StackBounds
=============================================================================
