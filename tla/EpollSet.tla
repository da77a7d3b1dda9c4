------------------------------ MODULE EpollSet ------------------------------
(***************************************************************************)
(* xtSocketPoll on Linux: a table of slots, the epoll instance of the      *)
(* kernel, and the array epoll_wait fills, whose entries point to slots.   *)
(***************************************************************************)
EXTENDS Polling, FiniteSets

VARIABLES
  slots,      \* p->data, with an empty domain when there is no poll set
  slotCount,  \* p->count
  reported,   \* the first p->socketsReady entries of p->events
  interest,   \* the kernel: from registered sockets to events and slot
  epollRet    \* what the last call returned

epollVars == <<slots, slotCount, reported, interest, epollRet>>

EpollLive == DOMAIN slots # {}

\* p->capacity
Size == Cardinality(DOMAIN slots)

FreeSlots == {i \in DOMAIN slots : slots[i].fd = Invalid}

SlotsOf(s) == {i \in DOMAIN slots : slots[i].fd = s}

\* socket_poll_event_flags_to_sys and socket_poll_event_sys_to_flags.
ToEpoll(e) ==
  {f \in {"EPOLLIN", "EPOLLOUT", "EPOLLERR", "EPOLLHUP", "EPOLLRDHUP"} :
     \/ f = "EPOLLIN" /\ "in" \in e
     \/ f = "EPOLLOUT" /\ "out" \in e
     \/ f = "EPOLLERR" /\ "err" \in e
     \/ f \in {"EPOLLHUP", "EPOLLRDHUP"} /\ "hup" \in e}

FromEpoll(f) ==
  {e \in Events :
     \/ e = "in" /\ "EPOLLIN" \in f
     \/ e = "out" /\ "EPOLLOUT" \in f
     \/ e = "err" /\ "EPOLLERR" \in f
     \/ e = "hup" /\ f \cap {"EPOLLHUP", "EPOLLRDHUP"} # {}}

\* Mutant: errors are not added.
FixedWithoutErrors(f) == f \cup {"EPOLLHUP", "EPOLLRDHUP"}

\* socket_poll_event_fix_sys_flags.
Fixed(f) == f \cup {"EPOLLERR", "EPOLLHUP", "EPOLLRDHUP"}
-----------------------------------------------------------------------------
(***************************************************************************)
(* The calls of socket.h on a poll set, as a client makes them: with valid *)
(* sockets, which it removes before it closes them.  Any system call may   *)
(* fail; its error is the value "error".                                   *)
(***************************************************************************)
EpollInit ==
  /\ slots = << >> /\ slotCount = 0 /\ reported = << >> /\ interest = << >>
  /\ epollRet = "ok"

EpollCreate(n) ==
  /\ ~EpollLive
  /\ \/ /\ slots' = [i \in 0 .. Clamped(n) - 1 |-> NoEntry]
        /\ slotCount' = 0 /\ reported' = << >> /\ interest' = << >>
        /\ epollRet' = "ok"
     \/ epollRet' = "error" /\ UNCHANGED <<slots, slotCount, reported, interest>>

EpollDestroy ==
  /\ slots' = << >> /\ reported' = << >> /\ interest' = << >>
  /\ epollRet' = "ok"
  /\ UNCHANGED slotCount

EpollFails(code) ==
  /\ epollRet' = code
  /\ UNCHANGED <<slots, slotCount, reported, interest>>

\* epoll_ctl refuses a socket that is registered.
Register(s, i, e) ==
  /\ s \notin DOMAIN interest
  /\ interest' = [t \in DOMAIN interest \cup {s} |->
                    IF t = s THEN [events |-> Fixed(ToEpoll(e)), slot |-> i]
                    ELSE interest[t]]

EpollAdd(s, d, e) ==
  /\ EpollLive
  /\ \/ slotCount = Size /\ EpollFails("XT_ENOBUFS")
     \/ /\ slotCount # Size
        /\ Register(s, Lowest(FreeSlots), e)
        /\ slots' = [slots EXCEPT ![Lowest(FreeSlots)] = [fd |-> s, data |-> d]]
        /\ slotCount' = slotCount + 1
        /\ epollRet' = "ok"
        /\ UNCHANGED reported
     \/ slotCount # Size /\ EpollFails("error")

\* Mutant: Mod registers the pointer to the first slot.
EpollModFirstSlot(s, e) ==
  /\ EpollLive /\ s \in DOMAIN interest
  /\ interest' = [interest EXCEPT ![s] = [events |-> Fixed(ToEpoll(e)), slot |-> 0]]
  /\ epollRet' = "ok"
  /\ UNCHANGED <<slots, slotCount, reported>>

EpollMod(s, e) ==
  /\ EpollLive
  /\ \/ /\ SlotsOf(s) # {} /\ s \in DOMAIN interest
        /\ interest' = [interest EXCEPT ![s] =
                          [events |-> Fixed(ToEpoll(e)), slot |-> Lowest(SlotsOf(s))]]
        /\ epollRet' = "ok"
        /\ UNCHANGED <<slots, slotCount, reported>>
     \/ EpollFails("XT_EINVAL")

\* epoll_ctl refuses to delete a descriptor that is not registered.
EpollRemoveByIndex(i) ==
  /\ EpollLive
  /\ \/ i \notin DOMAIN slots /\ EpollFails("XT_EINVAL")
     \/ /\ i \in DOMAIN slots /\ slots[i].fd \in DOMAIN interest
        /\ interest' = [s \in DOMAIN interest \ {slots[i].fd} |-> interest[s]]
        /\ slots' = [slots EXCEPT ![i] = NoEntry]
        /\ slotCount' = slotCount - 1
        /\ epollRet' = "ok"
        /\ UNCHANGED reported
     \/ i \in DOMAIN slots /\ EpollFails("error")

EpollRemove(s) ==
  \/ EpollLive /\ SlotsOf(s) = {} /\ EpollFails("XT_ENOENT")
  \/ SlotsOf(s) # {} /\ EpollRemoveByIndex(Lowest(SlotsOf(s)))

ReadyAs(s) == {i \in DOMAIN reported : slots[reported[i].slot].fd = s}

EpollSetEvent(s, e) ==
  /\ EpollLive
  /\ \/ /\ ReadyAs(s) # {}
        /\ reported' = [reported EXCEPT ![Lowest(ReadyAs(s))].events = ToEpoll(e)]
        /\ epollRet' = "ok"
        /\ UNCHANGED <<slots, slotCount, interest>>
     \/ ReadyAs(s) = {} /\ EpollFails("XT_EINVAL")

\* The kernel reports registered sockets in any order, each for some events.
EpollWait ==
  /\ EpollLive
  /\ \/ \E n \in 0 .. Size :
          \E order \in [1 .. n -> DOMAIN interest] :
            /\ \A i, j \in 1 .. n : order[i] = order[j] => i = j
            /\ \E what \in [1 .. n -> {{"EPOLLIN"}, {"EPOLLRDHUP", "EPOLLERR"}}] :
                 /\ \A i \in 1 .. n : what[i] \subseteq interest[order[i]].events
                 /\ reported' = [i \in 1 .. n |->
                                   [slot |-> interest[order[i]].slot, events |-> what[i]]]
        /\ epollRet' = "ok"
        /\ UNCHANGED <<slots, slotCount, interest>>
     \/ EpollFails("error")
-----------------------------------------------------------------------------
(***************************************************************************)
(* The ready array keeps its pointers when a slot is freed, and Add takes  *)
(* the first free slot.  EpollNext is the poll set used by a rule its      *)
(* header does not state: between Remove and the next Wait no socket is    *)
(* added to a slot the ready array points to.  EpollAnyNext has no rule.   *)
(***************************************************************************)
Forgotten == FreeSlots # {} => \A i \in DOMAIN reported : reported[i].slot # Lowest(FreeSlots)

EpollCommon ==
  \/ \E n \in PollCapacities : EpollCreate(n)
  \/ EpollDestroy
  \/ \E s \in Sockets :
       EpollRemove(s) \/ \E e \in Requests : EpollMod(s, e) \/ EpollSetEvent(s, e)
  \/ \E i \in 0 .. Size : EpollRemoveByIndex(i)
  \/ EpollWait

EpollAddAny == \E s \in Sockets, d \in Data, e \in Requests : EpollAdd(s, d, e)

EpollNext == EpollCommon \/ (Forgotten /\ EpollAddAny)

EpollAnyNext == EpollCommon \/ EpollAddAny

EpollSpec == EpollInit /\ [][EpollNext]_epollVars
-----------------------------------------------------------------------------
EpollTypeOK ==
  /\ slots \in [DOMAIN slots -> Entry]
  /\ slotCount \in Nat
  /\ \A i \in DOMAIN reported : reported[i].slot \in DOMAIN slots
  /\ DOMAIN interest \subseteq Sockets
  /\ epollRet \in {"ok", "error", "XT_ENOBUFS", "XT_ENOENT", "XT_EINVAL"}

(***************************************************************************)
(* The slot table and the kernel agree: a socket is registered exactly     *)
(* with the one slot that holds it, whose address an event will bring      *)
(* back, and count is the number of slots in use, so that an Add below     *)
(* the capacity finds a free one.  Add, Mod and Remove each change both    *)
(* sides, and the kernel's part can fail.                                  *)
(***************************************************************************)
SlotsMatchKernel ==
  EpollLive =>
    /\ \A s \in Sockets :
         SlotsOf(s) = IF s \in DOMAIN interest THEN {interest[s].slot} ELSE {}
    /\ slotCount = Cardinality(DOMAIN interest)

EpollWatch ==
  [s \in DOMAIN interest |-> [data |-> slots[Lowest(SlotsOf(s))].data,
                             events |-> FromEpoll(interest[s].events)]]

EpollReady ==
  [i \in DOMAIN reported |->
     [fd |-> slots[reported[i].slot].fd, data |-> slots[reported[i].slot].data,
      events |-> FromEpoll(reported[i].events)]]

EP == INSTANCE PollSet WITH watch <- EpollWatch, ready <- EpollReady

(***************************************************************************)
(* socket.h: events come for watched sockets, with their own data and the  *)
(* events asked for or implied; a removed socket stays in the ready array  *)
(* only as an invalid one.                                                 *)
(***************************************************************************)
EpollImplementsPollSet == EP!Spec
=============================================================================
