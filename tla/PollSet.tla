------------------------------- MODULE PollSet ------------------------------
(***************************************************************************)
(* What socket.h promises of a set of polled sockets, whatever the system: *)
(* which sockets are watched, with what data and for which events, and the *)
(* ready array of the last Wait.  A socket that is removed is invalidated  *)
(* in the ready array and stays present there until the next Wait.         *)
(***************************************************************************)
EXTENDS Polling

VARIABLES
  watch,   \* from the watched sockets to their data and events
  ready    \* the ready array, as far as the client may read it

pollSetVars == <<watch, ready>>

Init == watch = << >> /\ ready = << >>

Add(s, d, e) ==
  /\ s \notin DOMAIN watch
  /\ watch' = [t \in DOMAIN watch \cup {s} |->
                 IF t = s THEN [data |-> d, events |-> e \cup Implicit] ELSE watch[t]]
  /\ UNCHANGED ready

Mod(s, e) ==
  /\ s \in DOMAIN watch
  /\ watch' = [watch EXCEPT ![s].events = e \cup Implicit]
  /\ UNCHANGED ready

Remove(s) ==
  /\ s \in DOMAIN watch
  /\ watch' = [t \in DOMAIN watch \ {s} |-> watch[t]]
  /\ ready' = [i \in DOMAIN ready |->
                 IF ready[i].fd = s
                 THEN [fd |-> Invalid, data |-> Null, events |-> ready[i].events]
                 ELSE ready[i]]

SetEvent(s, e) ==
  /\ \E i \in DOMAIN ready :
       ready[i].fd = s /\ ready' = [ready EXCEPT ![i].events = e]
  /\ UNCHANGED watch

\* An entry tells of one watched socket, its data and events it is watched for.
Reports(r) ==
  /\ r.fd \in DOMAIN watch
  /\ r.data = watch[r.fd].data
  /\ r.events # {} /\ r.events \subseteq watch[r.fd].events

Wait ==
  /\ \A i \in DOMAIN ready' : Reports(ready'[i])
  /\ \A i, j \in DOMAIN ready' : ready'[i].fd = ready'[j].fd => i = j
  /\ UNCHANGED watch

Close == watch' = << >> /\ ready' = << >>

Next ==
  \/ \E s \in Sockets :
       \/ \E d \in Data, e \in Requests : Add(s, d, e)
       \/ \E e \in Requests : Mod(s, e)
       \/ \E e \in Requests \cup {{}} : SetEvent(s, e)
       \/ Remove(s)
  \/ Wait
  \/ Close

Spec == Init /\ [][Next]_pollSetVars
=============================================================================
