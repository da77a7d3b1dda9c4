------------------------------- MODULE Polling ------------------------------
(***************************************************************************)
(* What the two implementations of xtSocketPoll and its specification      *)
(* share.  An enum xtSocketPollEvent is a set of event names; XT_POLLNONE  *)
(* is the empty set.                                                       *)
(***************************************************************************)
EXTENDS Integers, Sequences

CONSTANTS
  Sockets,          \* descriptors of a client
  Invalid,          \* XT_SOCKET_INVALID_FD
  Data,             \* what a client associates with a socket
  Null,             \* the data of an entry that has none
  Requests,         \* events a client asks for
  PollCapacities,   \* capacities a client asks Create for
  PollDefault       \* XT_SOCKET_POLL_CAPACITY_DEFAULT

Events == {"in", "out", "err", "hup"}

ASSUME PollingAssumption ==
  /\ Invalid \notin Sockets
  /\ Null \notin Data
  /\ Requests \subseteq SUBSET Events
  /\ PollCapacities \subseteq Nat
  /\ PollDefault \in Nat \ {0}

\* XT_POLLERR and XT_POLLHUP are always added implicitly.
Implicit == {"err", "hup"}

Clamped(n) == IF n = 0 THEN PollDefault ELSE n

NoEntry == [fd |-> Invalid, data |-> Null]

Entry == [fd : Sockets \cup {Invalid}, data : Data \cup {Null}]

ReadyEntry ==
  [fd : Sockets \cup {Invalid}, data : Data \cup {Null}, events : SUBSET Events]

\* The search of a table from its first entry on.
Lowest(S) == CHOOSE i \in S : \A j \in S : i <= j
=============================================================================
