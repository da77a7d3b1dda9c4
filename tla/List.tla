-------------------------------- MODULE List --------------------------------
(***************************************************************************)
(* The array lists xtListHD, D, U, LU, ZU and P.  The first five have the  *)
(* same code; xtListP adds the flag XT_LIST_FREE_ITEM, under which the     *)
(* list frees items, and behaves like the others without it.  So one       *)
(* module stands for all six.  NULL items are left out: free ignores them. *)
(***************************************************************************)
EXTENDS Buffers

VARIABLES
  list,       \* the struct; list.data has an empty domain when it is NULL
  item,       \* the variable of the client that Get writes
  listRet,    \* what the last call returned
  listFault,  \* an access outside the buffer, or an item freed twice
  freed       \* items that were freed and not allocated again by the client

listVars == <<list, item, listRet, listFault, freed>>

ListLive == DOMAIN list.data # {}

ListItems(l) == [i \in 1 .. l.count |-> Fetch(l.data, i - 1)]

Held(l) == {Fetch(l.data, i) : i \in 0 .. l.count - 1}

\* Mutant: the item before the first is freed too.
OwnedOffByOne(l, first) ==
  IF l.flags THEN {Fetch(l.data, i) : i \in first - 1 .. l.count - 1} \ {Junk}
  ELSE {}

\* The items from index first on, if the list has to free them.
Owned(l, first) ==
  IF l.flags THEN {Fetch(l.data, i) : i \in first .. l.count - 1} ELSE {}

\* free() on each of these items.
Free(S) ==
  /\ freed' = freed \cup S
  /\ listFault' = (listFault \/ S \cap freed # {})

Keeps == UNCHANGED <<listFault, freed>>

\* A positive factor is taken as the new capacity itself.
Grown(l) ==
  IF l.grow > 0 THEN l.grow ELSE l.capacity \div (-l.grow) + l.capacity

\* Mutant: the count is not cut down to a smaller capacity.
ResizedUncut(l, n) == [l EXCEPT !.data = Realloc(@, n), !.capacity = n]

Resized(l, n) ==
  [l EXCEPT !.data = Realloc(@, n), !.capacity = n, !.count = Fitting(@, n)]

Unresized(l, n) == [l EXCEPT !.data = Refused(@, n)]

Appended(l, v) == [l EXCEPT !.data = Store(@, l.count, v), !.count = @ + 1]

\* Mutant: memmove moves one element too few.
RemovedShort(l, i) ==
  [l EXCEPT
     !.data = [j \in DOMAIN @ |->
                 IF j = l.count - 1 /\ j = i THEN Junk
                 ELSE IF j >= i /\ j < l.count - 2 THEN l.data[j + 1] ELSE @[j]],
     !.count = @ - 1]

\* The last element is zeroed, an earlier one is overwritten by memmove.
Removed(l, i) ==
  [l EXCEPT
     !.data = [j \in DOMAIN @ |->
                 IF j = l.count - 1 /\ j = i THEN Junk
                 ELSE IF j >= i /\ j < l.count - 1 THEN l.data[j + 1] ELSE @[j]],
     !.count = @ - 1]
-----------------------------------------------------------------------------
(***************************************************************************)
(* The calls of list.h.  A client adds an item that is allocated, and      *)
(* gives a list that owns its items no item twice: otherwise the list      *)
(* would rightly free it twice.                                            *)
(***************************************************************************)
ListInit ==
  /\ list = [data |-> NoBuffer, count |-> 0, capacity |-> 0, grow |-> -1,
             flags |-> FALSE]
  /\ item = Nothing
  /\ listRet = "ok"
  /\ listFault = FALSE
  /\ freed = {}

ListCreate(n) ==
  /\ ~ListLive
  /\ \/ /\ Granted(Requested(n))
        /\ list' = [data |-> Malloc(Requested(n)), count |-> 0,
                    capacity |-> Requested(n), grow |-> -1, flags |-> FALSE]
        /\ listRet' = "ok"
     \/ listRet' = "XT_ENOMEM" /\ UNCHANGED list
  /\ UNCHANGED item /\ Keeps

ListClear ==
  /\ ListLive
  /\ Free(Owned(list, 0))
  /\ list' = [list EXCEPT !.count = 0]
  /\ listRet' = "ok"
  /\ UNCHANGED item

ListDestroy ==
  /\ ListLive
  /\ Free(Owned(list, 0))
  /\ list' = [list EXCEPT !.count = 0, !.data = NoBuffer]
  /\ listRet' = "ok"
  /\ UNCHANGED item

\* An address that was freed is handed in again only for a new item.
Given(v) == list.flags \/ v \in freed => v \notin Held(list)

\* The store at index i of l, after the items in S were freed.
Put(l, i, v, S) ==
  /\ Given(v)
  /\ list' = l
  /\ listFault' = (listFault \/ i \notin DOMAIN l.data \/ S \cap freed # {})
  /\ freed' = (freed \cup S) \ {v}
  /\ listRet' = "ok"

\* An xtListP frees what does not fit before it calls realloc.
SetCapacityFails(n) ==
  /\ Free(Owned(list, n))
  /\ list' = Unresized(list, n)
  /\ listRet' = "XT_ENOMEM"

AddWithRoom(v) ==
  /\ list.count # list.capacity
  /\ Put(Appended(list, v), list.count, v, {})

AddNoGrowth ==
  /\ list.count = list.capacity /\ list.grow = 0
  /\ listRet' = "XT_ENOBUFS"
  /\ UNCHANGED list /\ Keeps

AddGrows(v) ==
  LET n == Grown(list)
      r == Resized(list, n)
  IN  /\ list.count = list.capacity /\ list.grow # 0
      /\ \/ Granted(n) /\ Put(Appended(r, v), r.count, v, Owned(list, n))
         \/ SetCapacityFails(n)

ListAdd(v) ==
  /\ ListLive
  /\ AddWithRoom(v) \/ AddNoGrowth \/ AddGrows(v)
  /\ UNCHANGED item

ListAddAt(v, i) ==
  /\ ListLive
  /\ \/ i >= list.count /\ listRet' = "XT_EINVAL" /\ UNCHANGED list /\ Keeps
     \/ /\ i < list.count
        /\ Put([list EXCEPT !.data = Store(@, i, v)], i, v,
               IF list.flags THEN {Fetch(list.data, i)} ELSE {})
  /\ UNCHANGED item

ListGet(i) ==
  /\ ListLive
  /\ \/ i >= list.count /\ listRet' = "XT_EINVAL" /\ UNCHANGED <<item, listFault>>
     \/ /\ i < list.count
        /\ item' = Fetch(list.data, i)
        /\ listFault' = (listFault \/ i \notin DOMAIN list.data)
        /\ listRet' = "ok"
  /\ UNCHANGED <<list, freed>>

\* An xtListP frees the item it removes if it is the last one.
RemoveFrom(i) ==
  /\ list' = Removed(list, i)
  /\ Free(IF i = list.count - 1 THEN Owned(list, i) ELSE {})
  /\ listRet' = "ok"

\* Mutant: RemoveAt takes any index.
ListRemoveAtUnchecked(i) == ListLive /\ RemoveFrom(i) /\ UNCHANGED item

ListRemoveAt(i) ==
  /\ ListLive
  /\ \/ i >= list.count /\ listRet' = "XT_EINVAL" /\ UNCHANGED list /\ Keeps
     \/ i < list.count /\ RemoveFrom(i)
  /\ UNCHANGED item

First(l, v) ==
  CHOOSE i \in 0 .. l.count - 1 :
    l.data[i] = v /\ \A j \in 0 .. i - 1 : l.data[j] # v

ListRemove(v) ==
  /\ ListLive
  /\ \/ v \notin Held(list) /\ listRet' = "XT_ENOENT" /\ UNCHANGED list /\ Keeps
     \/ v \in Held(list) /\ RemoveFrom(First(list, v))
  /\ UNCHANGED item

ListSetCapacity(n) ==
  /\ ListLive
  /\ \/ /\ Granted(n)
        /\ Free(Owned(list, n))
        /\ list' = Resized(list, n)
        /\ listRet' = "ok"
     \/ SetCapacityFails(n)
  /\ UNCHANGED item

ListEnsureCapacity(n) ==
  \/ /\ ListLive /\ list.capacity >= n
     /\ listRet' = "ok"
     /\ UNCHANGED <<list, item>> /\ Keeps
  \/ list.capacity < n /\ ListSetCapacity(n)

ListSetFlags(on) ==
  /\ ListLive
  /\ on => \A i, j \in 1 .. list.count : ListItems(list)[i] = ListItems(list)[j] => i = j
  /\ list' = [list EXCEPT !.flags = on]
  /\ listRet' = "ok"
  /\ UNCHANGED item /\ Keeps

ListSetGrowthFactor(g) ==
  /\ ListLive
  /\ list' = [list EXCEPT !.grow = g]
  /\ listRet' = "ok"
  /\ UNCHANGED item /\ Keeps
-----------------------------------------------------------------------------
(***************************************************************************)
(* ListNext is the list used by rules its header does not state: growth    *)
(* ends in a larger capacity (a positive factor is above the count, a      *)
(* relative one does not round to nothing), no capacity is 0, and memory   *)
(* does not run out while owned items are cut off.                         *)
(***************************************************************************)
Growing == list.count = list.capacity /\ list.grow # 0 => Grown(list) > list.count

Careful(n) ==
  /\ n > 0
  /\ Owned(list, n) # {} => listRet' # "XT_ENOMEM"

ListCommon ==
  \/ \E n \in Capacities : ListCreate(n) \/ ListEnsureCapacity(n)
  \/ ListClear \/ ListDestroy
  \/ \E i \in 0 .. list.count :
       ListGet(i) \/ ListRemoveAt(i) \/ \E v \in Values : ListAddAt(v, i)
  \/ \E v \in Values : ListRemove(v)
  \/ \E on \in BOOLEAN : ListSetFlags(on)
  \/ \E g \in Growths : ListSetGrowthFactor(g)

ListNext ==
  \/ ListCommon
  \/ \E v \in Values : Growing /\ ListAdd(v)
  \/ \E n \in Capacities : ListSetCapacity(n) /\ Careful(n)

ListSpec == ListInit /\ [][ListNext]_listVars
-----------------------------------------------------------------------------
\* The fields of the struct and the client's variables have their C types.
ListTypeOK ==
  /\ list \in [data : [DOMAIN list.data -> Cell], count : Nat,
              capacity : Nat, grow : Int, flags : BOOLEAN]
  /\ item \in Cell \cup {Nothing}
  /\ listRet \in Codes
  /\ listFault \in BOOLEAN
  /\ freed \subseteq Cell

(***************************************************************************)
(* list.h: "Bounds checking is performed on all operations."  The buffer   *)
(* has the capacity's size, the elements lie in it and were all stored by  *)
(* the client, and no call has read or written outside it, through growth, *)
(* cuts and removals.                                                      *)
(***************************************************************************)
ListBounds ==
  /\ ListLive => /\ DOMAIN list.data = 0 .. list.capacity - 1
                 /\ list.count <= list.capacity
                 /\ Junk \notin Held(list)
  /\ item # Junk
  /\ ~listFault

(***************************************************************************)
(* list.h, XT_LIST_FREE_ITEM: "Free an item if it has been removed".  The  *)
(* list frees no item it still holds: Get never hands out freed memory,    *)
(* and no later call frees an item again.                                  *)
(***************************************************************************)
NoFreedItem == Held(list) \cap freed = {}

V == INSTANCE Vector WITH items <- IF ListLive THEN ListItems(list) ELSE << >>

\* The list is the sequence its client has built, through any reallocation.
ImplementsVector == V!Spec
=============================================================================
