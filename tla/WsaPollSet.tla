------------------------------ MODULE WsaPollSet ----------------------------
(***************************************************************************)
(* xtSocketPoll on Windows: parallel arrays of descriptors and data, the   *)
(* first `count' of which are watched, and the array Wait copies the ready *)
(* ones to.  The two arrays are moved together, and are one here.          *)
(***************************************************************************)
EXTENDS Polling, FiniteSets

VARIABLES
  fds,          \* p->fds and p->data, with an empty domain without a poll set
  fdCount,      \* p->count
  readyData,    \* the first p->socketsReady entries of p->readyData
  socketsReady, \* the client's variable, written by Wait
  overread,     \* memory beyond the arrays was copied into them
  wsaRet        \* what the last call returned

wsaVars == <<fds, fdCount, readyData, socketsReady, overread, wsaRet>>

WsaLive == DOMAIN fds # {}

FdCapacity == Cardinality(DOMAIN fds)

\* The smallest index of a set.
FdsOf(s) == {i \in DOMAIN fds : fds[i].fd = s}

NoFd == [fd |-> Invalid, data |-> Null, events |-> {}]

\* socket_poll_event_flags_to_sys and socket_poll_event_sys_to_flags.
ToWsa(e) ==
  {f \in {"POLLRDNORM", "POLLWRNORM", "POLLERR", "POLLHUP"} :
     \/ f = "POLLRDNORM" /\ "in" \in e
     \/ f = "POLLWRNORM" /\ "out" \in e
     \/ f = "POLLERR" /\ "err" \in e
     \/ f = "POLLHUP" /\ "hup" \in e}

\* POLLIN is POLLRDNORM or POLLRDBAND, POLLOUT is POLLWRNORM.
FromWsa(f) ==
  {e \in Events :
     \/ e = "in" /\ "POLLRDNORM" \in f
     \/ e = "out" /\ "POLLWRNORM" \in f
     \/ e = "err" /\ f \cap {"POLLERR", "POLLNVAL"} # {}
     \/ e = "hup" /\ "POLLHUP" \in f}

\* socket_poll_event_fix_sys_flags: WSAPoll refuses these flags.
Allowed(f) == f \ {"POLLERR", "POLLHUP"}

\* The xtSocketPollEvent with the bits of native flags: POLLWRNORM is 0x10,
\* POLLHUP is 0x02, POLLERR is 0x01 and POLLRDNORM, 0x100, is none of them.
SameBits(f) ==
  {e \in Events : \/ e = "in" /\ "POLLHUP" \in f
                  \/ e = "hup" /\ "POLLWRNORM" \in f}
-----------------------------------------------------------------------------
(***************************************************************************)
(* The calls of socket.h on a poll set, as a client makes them: with valid *)
(* sockets, none of which it adds twice.                                   *)
(***************************************************************************)
WsaInit ==
  /\ fds = << >> /\ fdCount = 0 /\ readyData = << >> /\ socketsReady = 0
  /\ overread = FALSE
  /\ wsaRet = "ok"

WsaCreate(n) ==
  /\ ~WsaLive
  /\ \/ /\ fds' = [i \in 0 .. Clamped(n) - 1 |-> NoFd]
        /\ fdCount' = 0 /\ readyData' = << >> /\ socketsReady' = 0
        /\ wsaRet' = "ok"
     \/ wsaRet' = "error" /\ UNCHANGED <<fds, fdCount, readyData, socketsReady>>
  /\ UNCHANGED overread

WsaDestroy ==
  /\ fds' = << >> /\ readyData' = << >> /\ socketsReady' = 0 /\ wsaRet' = "ok"
  /\ UNCHANGED <<fdCount, overread>>

WsaFails(code) ==
  /\ wsaRet' = code
  /\ UNCHANGED <<fds, fdCount, readyData, socketsReady, overread>>

WsaAdd(s, d, e) ==
  /\ WsaLive
  /\ \/ fdCount = FdCapacity /\ WsaFails("XT_ENOBUFS")
     \/ /\ fdCount # FdCapacity
        /\ \A i \in FdsOf(s) : i >= fdCount
        /\ fds' = [fds EXCEPT ![fdCount] =
                     [fd |-> s, data |-> d, events |-> Allowed(ToWsa(e))]]
        /\ fdCount' = fdCount + 1
        /\ wsaRet' = "ok"
        /\ UNCHANGED <<readyData, socketsReady, overread>>

\* Mod and Remove search the whole capacity, also behind the count.
WsaMod(s, e) ==
  /\ WsaLive
  /\ \/ /\ FdsOf(s) # {}
        /\ fds' = [fds EXCEPT ![Lowest(FdsOf(s))].events = Allowed(ToWsa(e))]
        /\ wsaRet' = "ok"
        /\ UNCHANGED <<fdCount, readyData, socketsReady, overread>>
     \/ FdsOf(s) = {} /\ WsaFails("XT_EINVAL")

\* Mutant: memmove moves the entries behind the index and no more.
ShiftedExactly(i) ==
  [j \in DOMAIN fds |-> IF j >= i /\ j < fdCount - 1 THEN fds[j + 1] ELSE fds[j]]

\* memmove moves one entry more than there are behind index i: the first
\* unused one, or what lies behind the arrays.
Shifted(i) ==
  [j \in DOMAIN fds |->
     IF j < i \/ j >= fdCount THEN fds[j]
     ELSE IF j + 1 \in DOMAIN fds THEN fds[j + 1] ELSE NoFd]

\* Mutant: the ready array is left alone.
UninvalidatedReady(s) == readyData

\* The first entry of the socket in the ready array becomes invalid.
InvalidatedReady(s) ==
  LET ready == {i \in DOMAIN readyData : readyData[i].fd = s}
  IN  [i \in DOMAIN readyData |->
         IF ready # {} /\ i = Lowest(ready)
         THEN [readyData[i] EXCEPT !.fd = Invalid, !.data = Null] ELSE readyData[i]]

WsaRemoveByIndex(i) ==
  /\ WsaLive
  /\ \/ i >= FdCapacity /\ WsaFails("XT_EINVAL")
     \/ /\ i < FdCapacity
        /\ fds' = Shifted(i)
        /\ overread' = (overread \/ fdCount = FdCapacity)
        /\ readyData' = InvalidatedReady(fds[i].fd)
        /\ fdCount' = fdCount - 1
        /\ wsaRet' = "ok"
        /\ UNCHANGED socketsReady

WsaRemove(s) ==
  \/ WsaLive /\ FdsOf(s) = {} /\ WsaFails("XT_ENOENT")
  \/ FdsOf(s) # {} /\ WsaRemoveByIndex(Lowest(FdsOf(s)))

ReadyOf(s) == {i \in DOMAIN readyData : readyData[i].fd = s}

WsaSetEvent(s, e) ==
  /\ WsaLive
  /\ \/ /\ ReadyOf(s) # {}
        /\ readyData' = [readyData EXCEPT ![Lowest(ReadyOf(s))].events =
                           SameBits(ToWsa(e))]
        /\ wsaRet' = "ok"
        /\ UNCHANGED <<fds, fdCount, socketsReady, overread>>
     \/ ReadyOf(s) = {} /\ WsaFails("XT_EINVAL")

\* WSAPoll sets revents of some watched descriptors, among the events asked
\* for and the errors; Wait copies those in the order of the array.
WsaWait ==
  /\ WsaLive
  /\ \/ fdCount = 0 /\ socketsReady' = 0 /\ wsaRet' = "ok"
        /\ UNCHANGED <<fds, fdCount, readyData, overread>>
     \/ /\ fdCount # 0
        /\ \E R \in SUBSET (0 .. fdCount - 1) :
             \E what \in [R -> {{"POLLRDNORM"}, {"POLLHUP", "POLLNVAL"}}] :
               LET nth(k) == CHOOSE i \in R : Cardinality({j \in R : j <= i}) = k
               IN  /\ \A i \in R :
                        what[i] \subseteq fds[i].events \cup {"POLLERR", "POLLHUP", "POLLNVAL"}
                   /\ readyData' = [k \in 1 .. Cardinality(R) |->
                                      [fd |-> fds[nth(k)].fd, data |-> fds[nth(k)].data,
                                       events |-> FromWsa(what[nth(k)])]]
                   /\ socketsReady' = Cardinality(R)
        /\ wsaRet' = "ok"
        /\ UNCHANGED <<fds, fdCount, overread>>
     \/ WsaFails("error")
-----------------------------------------------------------------------------
(***************************************************************************)
(* WsaNext is the poll set used by rules its header does not state: only   *)
(* an index below the count is removed, and not from a full set, and       *)
(* SetEvent is used to clear an event only (any other is stored as native  *)
(* flags).                                                                 *)
(***************************************************************************)
Removable(i) == (i < fdCount /\ fdCount < FdCapacity) \/ i >= FdCapacity

WsaNext ==
  \/ \E n \in PollCapacities : WsaCreate(n)
  \/ WsaDestroy
  \/ \E s \in Sockets :
       \/ \E e \in Requests : WsaMod(s, e) \/ \E d \in Data : WsaAdd(s, d, e)
       \/ fdCount < FdCapacity /\ WsaRemove(s)
       \/ WsaSetEvent(s, {})
  \/ \E i \in 0 .. FdCapacity : Removable(i) /\ WsaRemoveByIndex(i)
  \/ WsaWait

WsaSpec == WsaInit /\ [][WsaNext]_wsaVars
-----------------------------------------------------------------------------
WsaTypeOK ==
  /\ \A i \in DOMAIN fds : [fd |-> fds[i].fd, data |-> fds[i].data] \in Entry
  /\ fdCount \in Nat
  /\ readyData \in Seq(ReadyEntry)
  /\ socketsReady \in Nat
  /\ wsaRet \in {"ok", "error", "XT_ENOBUFS", "XT_ENOENT", "XT_EINVAL"}

(***************************************************************************)
(* The watched sockets are the first `count' entries, each once, and no    *)
(* entry behind them holds a descriptor: Mod and Remove search the whole   *)
(* capacity and take what they find for a watched socket.  memmove keeps   *)
(* that up by moving one entry too many.                                   *)
(***************************************************************************)
Compact ==
  WsaLive => /\ fdCount <= FdCapacity
             /\ \A i \in DOMAIN fds : fds[i].fd = Invalid <=> i >= fdCount
             /\ \A s \in Sockets : Cardinality(FdsOf(s)) <= 1
             /\ ~overread

WsaWatch ==
  [s \in {fds[i].fd : i \in 0 .. fdCount - 1} |->
     LET i == Lowest(FdsOf(s))
     IN  [data |-> fds[i].data, events |-> FromWsa(fds[i].events) \cup Implicit]]

WP == INSTANCE PollSet WITH
        watch <- IF WsaLive THEN WsaWatch ELSE << >>,
        ready <- SubSeq(readyData, 1, socketsReady)

(***************************************************************************)
(* socket.h: events come for watched sockets, with their own data and the  *)
(* events asked for or implied; a removed socket stays in the ready array  *)
(* only as an invalid one.                                                 *)
(***************************************************************************)
WsaImplementsPollSet == WP!Spec
=============================================================================
