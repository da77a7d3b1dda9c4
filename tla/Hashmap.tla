------------------------------- MODULE Hashmap ------------------------------
(***************************************************************************)
(* struct xtHashmap: chained buckets, growth by rehashing into a new map,  *)
(* the iterator the map carries in itself, and the optional ownership of   *)
(* keys and values.  A key stands for the client's key object and for its  *)
(* content at once: keyCompare is equality and keyHash is Hash.  Factors   *)
(* are kept as integers: `grow' counts halves and `limit' quarters.        *)
(***************************************************************************)
EXTENDS Integers, Sequences, FiniteSets

CONSTANTS
  Keys, Values,
  Hash,         \* keyHash: a natural number for each key
  None,         \* a NULL entry in the iterator
  Freed,        \* an iterator entry whose bucket has been freed
  Capacities,   \* capacities a client asks Create and SetCapacity for
  DefaultCapacity,  \* XT_HASHMAP_CAPACITY_DEFAULT
  MaxCapacity,  \* bound: an explicit SetCapacity keeps within it
  Grows,        \* growth factors a client sets, in halves
  Limits,       \* growth limits a client sets, in quarters
  Flags         \* the ownership flags a client sets: subsets of {"key", "value"}

\* What a call returns but for a key or a value.
Answers == {"ok", "void", "added", "removed", "false", "abort", "corrupted",
            "XT_ENOMEM", "XT_ENOBUFS", "XT_EINVAL", "XT_EEXIST", "XT_ENOENT"}

ASSUME HashmapAssumption ==
  /\ Hash \in [Keys -> Nat]
  /\ None # Freed /\ {None, Freed} \cap Keys = {}
  /\ Keys \cap Values = {} /\ (Keys \cup Values) \cap Answers = {}
  /\ Capacities \subseteq Nat /\ DefaultCapacity \in Nat \ {0}
  /\ Grows \subseteq Nat /\ Limits \subseteq Nat \ {0}
  /\ Flags \subseteq SUBSET {"key", "value"}

VARIABLES
  map,    \* the struct; map.buckets has an empty domain when it is NULL
  ret,    \* what the last call returned; a key is what Foreach handed out
  freed,  \* keys in the map whose key or value object has been freed
  fault,  \* memory outside a live object was read or written
  loop    \* history: the client's Foreach loop

vars == <<map, ret, freed, fault, loop>>

Entry == [key : Keys, value : Values]

SX == INSTANCE SequencesExt

Live == DOMAIN map.buckets # {}

\* The index of the bucket of k in m.
Home(m, k) == Hash[k] % m.capacity

\* Every entry of m in the order the iterator follows.
Entries(m) == SX!FlattenSeq([i \in 1 .. m.capacity |-> m.buckets[i - 1]])

KeysOf(es) == {es[i].key : i \in DOMAIN es}

KeysIn(m) == UNION {KeysOf(m.buckets[i]) : i \in DOMAIN m.buckets}

Stored == KeysIn(map)
-----------------------------------------------------------------------------
(***************************************************************************)
(* The iterator: `entry' is the next entry of bucket number `nr', or NULL  *)
(* when that bucket is exhausted.                                          *)
(***************************************************************************)
AtEnd(m) == m.it.entry = None /\ m.it.nr >= m.capacity

\* Mutant: the reset iterator stands in bucket 0 instead of behind the last.
EndAtZero(m) == [entry |-> None, nr |-> 0]

End(m) == [entry |-> None, nr |-> m.capacity]

\* The entry that follows the i-th in its chain.
After(chain, i) == IF i < Len(chain) THEN chain[i + 1].key ELSE None

Position(m, k) == CHOOSE i \in DOMAIN m.buckets[Home(m, k)] :
                    m.buckets[Home(m, k)][i].key = k

\* The value xtHashmapGetValue finds.
ValueIn(m, k) == m.buckets[Home(m, k)][Position(m, k)].value

\* The iterator once it has handed out k.
Past(m, k) == [entry |-> After(m.buckets[Home(m, k)], Position(m, k)),
               nr |-> Home(m, k)]

\* The non-empty buckets from number n on.
Occupied(m, n) == {i \in n .. m.capacity - 1 : m.buckets[i] # << >>}

First(S) == CHOOSE i \in S : \A j \in S : i <= j

\* The key xtHashmapForeach hands out next, or None at the end.
NextKey(m) ==
  LET from == Occupied(m, IF AtEnd(m) THEN 0 ELSE m.it.nr + 1)
  IN  IF m.it.entry # None THEN m.it.entry
      ELSE IF from = {} THEN None
      ELSE m.buckets[First(from)][1].key
-----------------------------------------------------------------------------
\* A map of capacity c with the settings of `like'.
Empty(c, like) ==
  [like EXCEPT !.buckets = [i \in 0 .. c - 1 |-> << >>], !.capacity = c,
               !.count = 0, !.it = [entry |-> None, nr |-> 0]]

\* Mutant: the chain is replaced by the new entry.
LinkedOver(m, e) ==
  [m EXCEPT !.buckets[Home(m, e.key)] = <<e>>, !.count = @ + 1]

\* The tail of xtHashmapAdd: the entry goes to the end of its chain.
Linked(m, e) ==
  [m EXCEPT !.buckets[Home(m, e.key)] = Append(@, e), !.count = @ + 1]

\* A map that is full to its growth limit grows before it takes an entry.
Crowded(m) == 4 * m.count >= m.capacity * m.limit

MayGrow(m) == m.grow > 2

Larger(m) == (m.capacity * m.grow) \div 2

(***************************************************************************)
(* xtHashmapSetCapacity puts the iterator of the new map n, of size c,     *)
(* behind the entry that headed the bucket the iterator of the old map m   *)
(* was in: it runs Foreach on the new map, whose iterator it has set to c, *)
(* and aborts if it does not meet the key.                                 *)
(***************************************************************************)
Paused(m) == m.it.nr < m.capacity /\ m.buckets[m.it.nr] # << >>

\* Mutant: the iterator of the new map is not put at the end first.
ResumableInPlace(m, n, c) == Home(n, m.buckets[m.it.nr][1].key) >= 1

Resumable(m, n, c) ==
  LET head == m.buckets[m.it.nr][1].key
      from == IF c >= n.capacity THEN 0 ELSE c + 1
  IN  Home(n, head) >= from

Restored(m, n, c) ==
  IF ~Paused(m) THEN [status |-> "ok",
                      map |-> [n EXCEPT !.it = [entry |-> None, nr |-> c]]]
  ELSE IF Resumable(m, n, c) THEN
         [status |-> "ok",
          map |-> [n EXCEPT !.it = Past(n, m.buckets[m.it.nr][1].key)]]
  ELSE [status |-> "corrupted", map |-> m]

\* How xtHashmapSetCapacity ends for m when the entries of m were added to a
\* map of size c with outcome r.
Rebuilt(m, c, r) ==
  IF Entries(m) = << >> THEN [status |-> "abort", map |-> m]
  ELSE IF r.status = "ok" THEN Restored(m, r.map, c)
  ELSE r

\* xtHashmapAdd puts e into the map n of a rehash; if n has to grow for it,
\* `grown' is the outcome.  After an error the map is n as it was.
Taken(n, e, grown) ==
  IF ~Crowded(n) THEN [status |-> "ok", map |-> Linked(n, e)]
  ELSE IF ~MayGrow(n) THEN [status |-> "XT_ENOBUFS", map |-> n]
  ELSE IF grown.status = "ok" THEN [status |-> "ok", map |-> Linked(grown.map, e)]
  ELSE [status |-> grown.status, map |-> n]

\* A map is always made larger, but for a call that asks for its own capacity.
Size(m, c) == IF c < m.capacity THEN m.capacity + 1 ELSE c

(***************************************************************************)
(* The outcome of adding k entries to an empty map with the settings of    *)
(* `like', for each size of the map and each sequence of k entries, given  *)
(* the outcomes for k - 1.  A map that grows for the last entry is rebuilt *)
(* from the k - 1 it holds, which is how the code comes to call itself.    *)
(***************************************************************************)
Filling(like, k, before) ==
  [c \in Nat |-> [es \in Seq(Entry) |->
     IF k = 0 THEN [status |-> "ok", map |-> Empty(c, like)]
     ELSE LET r    == before[c][SX!Front(es)]
              size == Size(r.map, Larger(r.map))
          IN  IF r.status # "ok" THEN r
              ELSE Taken(r.map, SX!Last(es),
                         Rebuilt(r.map, size, before[size][Entries(r.map)]))]]

Refill(like, c, es) ==
  LET filled[k \in Nat] == Filling(like, k, filled[k - 1])
  IN  filled[Len(es)][c][es]

\* Memory permitting, the outcome of replacing m by a map of capacity c: a
\* status and a map, which after an error holds the entries added so far.
Rehash(m, c) == Rebuilt(m, Size(m, c), Refill(m, Size(m, c), Entries(m)))

\* The entries whose objects xtHashmapDestroy frees under these flags.
Released(flags, ks) == IF flags = {} THEN {} ELSE ks

\* Mutant: the flags of the old map are left set while it is destroyed.
KeptFlags(m) == m.flags

\* The flags under which Rehash destroys the map it has replaced.
ClearedFlags(m) == m.flags \ {"key", "value"}
-----------------------------------------------------------------------------
Init ==
  /\ map = [buckets |-> [i \in {} |-> << >>], capacity |-> 0, count |-> 0,
            limit |-> 3, grow |-> 3, flags |-> {},
            it |-> [entry |-> None, nr |-> 0]]
  /\ ret = "ok"
  /\ freed = {}
  /\ fault = FALSE
  /\ loop = [phase |-> "new", due |-> {}, seen |-> {}]

NewLoop == loop' = [phase |-> "new", due |-> {}, seen |-> {}]

(***************************************************************************)
(* xtHashmapCreate sizes the array before it puts the default capacity in  *)
(* the place of zero: asked for none it clears an array of no elements.    *)
(***************************************************************************)
Create(n) ==
  LET size == IF n = 0 THEN DefaultCapacity ELSE n
  IN  /\ ~Live
      /\ \/ /\ map' = Empty(size, [map EXCEPT !.limit = 3, !.grow = 3,
                                              !.flags = {}])
            /\ fault' = (fault \/ n = 0)
            /\ ret' = "ok"
         \/ ret' = "XT_ENOMEM" /\ UNCHANGED <<map, fault>>
      /\ NewLoop
      /\ UNCHANGED freed

Destroy ==
  /\ map' = [map EXCEPT !.buckets = [i \in {} |-> << >>]]
  /\ ret' = "void"
  /\ freed' = {}
  /\ NewLoop
  /\ UNCHANGED fault

(***************************************************************************)
(* The ways xtHashmapSetCapacity(c) ends.  When a call to xtHashmapAdd on  *)
(* the new map fails, the new map is destroyed with the entries it holds,  *)
(* under the flags it has inherited.                                       *)
(***************************************************************************)
OutOfMemory ==
  /\ freed' \in {freed \cup Released(map.flags, KeysOf(SubSeq(Entries(map), 1, n)))
                  : n \in 0 .. map.count}
  /\ ret' = "XT_ENOMEM"
  /\ UNCHANGED map

NoRoom(r) ==
  /\ r.status = "XT_ENOBUFS"
  /\ freed' = freed \cup Released(map.flags, KeysIn(r.map))
  /\ ret' = r.status
  /\ UNCHANGED map

Aborts == {"abort", "corrupted"}

Abort(r) == r.status \in Aborts /\ ret' = r.status /\ UNCHANGED <<map, freed>>

RehashFails(r) == OutOfMemory \/ NoRoom(r) \/ Abort(r)

OldMapDestroyed == freed' = freed \cup Released(ClearedFlags(map), Stored)

SetCapacity(c) ==
  /\ Live
  /\ \/ c < 1 /\ ret' = "XT_EINVAL" /\ UNCHANGED <<map, freed>>
     \/ LET r == Rehash(map, c)
        IN  /\ c >= 1
            /\ \/ RehashFails(r)
               \/ r.status = "ok" /\ map' = r.map /\ OldMapDestroyed /\ ret' = "ok"
  /\ UNCHANGED <<fault, loop>>

\* The entry is allocated and the chain is searched in a map m with room.
Place(m, k, v) ==
  \/ ret' = "XT_ENOMEM" /\ map' = m /\ UNCHANGED loop
  \/ k \in KeysIn(m) /\ ret' = "XT_EEXIST" /\ map' = m /\ UNCHANGED loop
  \/ /\ k \notin KeysIn(m)
     /\ map' = Linked(m, [key |-> k, value |-> v])
     /\ loop' = [loop EXCEPT !.seen = @ \ {k}]
     /\ ret' = "added"

Add(k, v) ==
  /\ Live
  /\ \/ ~Crowded(map) /\ Place(map, k, v) /\ UNCHANGED freed
     \/ /\ Crowded(map) /\ ~MayGrow(map)
        /\ ret' = "XT_ENOBUFS"
        /\ UNCHANGED <<map, freed, loop>>
     \/ LET r == Rehash(map, Larger(map))
        IN  /\ Crowded(map) /\ MayGrow(map)
            /\ \/ RehashFails(r) /\ UNCHANGED loop
               \/ r.status = "ok" /\ Place(r.map, k, v) /\ OldMapDestroyed
  /\ UNCHANGED fault

Get(k) ==
  /\ Live
  /\ ret' = IF k \in Stored THEN ValueIn(map, k) ELSE "XT_ENOENT"
  /\ UNCHANGED <<map, freed, fault, loop>>

\* Mutant: the count is not decremented.
UnlinkedUncounted(m, k) ==
  [m EXCEPT !.buckets[Home(m, k)] = SX!RemoveAt(@, Position(m, k)),
            !.it.entry = IF @ = k THEN Freed ELSE @]

\* Mutant: the count is decremented twice.
UnlinkedTwice(m, k) ==
  [m EXCEPT !.buckets[Home(m, k)] = SX!RemoveAt(@, Position(m, k)),
            !.count = @ - 2,
            !.it.entry = IF @ = k THEN Freed ELSE @]

\* The entry of k leaves its chain and is freed, be the iterator at it or not.
Unlinked(m, k) ==
  [m EXCEPT !.buckets[Home(m, k)] = SX!RemoveAt(@, Position(m, k)),
            !.count = @ - 1,
            !.it.entry = IF @ = k THEN Freed ELSE @]

Remove(k) ==
  /\ Live
  /\ \/ k \notin Stored /\ ret' = "XT_ENOENT" /\ UNCHANGED <<map, freed, loop>>
     \/ /\ k \in Stored
        /\ map' = Unlinked(map, k)
        /\ freed' = freed \ {k}
        /\ loop' = [loop EXCEPT !.due = @ \ {k}, !.seen = @ \ {k}]
        /\ ret' = "removed"
  /\ UNCHANGED fault

\* What the loop has still to visit and has visited when Foreach is called.
Due == IF loop.phase = "on" THEN loop.due ELSE Stored

Seen == IF loop.phase = "on" THEN loop.seen ELSE {}

Foreach ==
  /\ Live
  /\ \/ /\ map.it.entry = Freed
        /\ fault' = TRUE
        /\ UNCHANGED <<map, ret, loop>>
     \/ /\ map.it.entry # Freed /\ NextKey(map) # None
        /\ ret' = NextKey(map)
        /\ map' = [map EXCEPT !.it = Past(map, ret')]
        /\ loop' = [phase |-> "on", due |-> Due \ {ret'}, seen |-> Seen \cup {ret'}]
        /\ UNCHANGED fault
     \/ /\ map.it.entry # Freed /\ NextKey(map) = None
        /\ ret' = "false"
        /\ map' = [map EXCEPT !.it = End(map)]
        /\ loop' = [phase |-> "ready", due |-> {}, seen |-> {}]
        /\ UNCHANGED fault
  /\ UNCHANGED freed

ForeachEnd ==
  /\ Live
  /\ map' = [map EXCEPT !.it = End(map)]
  /\ loop' = [phase |-> "ready", due |-> {}, seen |-> {}]
  /\ ret' = "void"
  /\ UNCHANGED <<freed, fault>>

SetFlags(f) ==
  /\ Live /\ map' = [map EXCEPT !.flags = f] /\ ret' = "void"
  /\ UNCHANGED <<freed, fault, loop>>

SetGrowthFactor(g) ==
  /\ Live /\ map' = [map EXCEPT !.grow = g] /\ ret' = "void"
  /\ UNCHANGED <<freed, fault, loop>>

SetGrowthLimit(l) ==
  /\ Live /\ map' = [map EXCEPT !.limit = l] /\ ret' = "void"
  /\ UNCHANGED <<freed, fault, loop>>
-----------------------------------------------------------------------------
(***************************************************************************)
(* Spec is the library used with care, by rules its header does not state: *)
(*   - a map is not created with a capacity of zero, and is iterated over  *)
(*     for the first time only after a call to ForeachEnd;                 *)
(*   - SetCapacity is called on a map that is not empty, with a capacity   *)
(*     under whose growth limit its entries fit;                           *)
(*   - during a Foreach loop the map does not grow, and only keys the loop *)
(*     has handed out are removed;                                         *)
(*   - growth factor and limit are such that the map a growing map is      *)
(*     rebuilt in has room for the entries there are, or one bucket only,  *)
(*     in which no growth by a half ever gets it a second;                 *)
(*   - memory does not run out while a map that owns its keys or values is *)
(*     rehashed.                                                           *)
(* AnySpec has no rules.                                                   *)
(***************************************************************************)
Looping == loop.phase = "on"

OwnsNothing == map.flags = {}

Roomy(c) == 4 * (map.count - 1) < c * map.limit

CarefulAdd(k, v) ==
  /\ Crowded(map) /\ MayGrow(map) =>
       ~Looping /\ (Roomy(Larger(map)) \/ Larger(map) = 1)
  /\ Add(k, v)
  /\ ret' = "XT_ENOMEM" => OwnsNothing \/ ~Crowded(map)

CarefulSetCapacity(c) ==
  /\ ~Looping /\ Stored # {} /\ Roomy(c)
  /\ SetCapacity(c)
  /\ ret' = "XT_ENOMEM" => OwnsNothing

Common ==
  \/ Destroy
  \/ \E k \in Keys : Get(k)
  \/ ForeachEnd
  \/ \E f \in Flags : SetFlags(f)
  \/ \E g \in Grows : SetGrowthFactor(g)
  \/ \E l \in Limits : SetGrowthLimit(l)

Bounded(c) == c >= map.capacity \/ map.capacity < MaxCapacity

Next ==
  \/ Common
  \/ \E n \in Capacities \ {0} : Create(n)
  \/ \E k \in Keys, v \in Values : CarefulAdd(k, v)
  \/ \E k \in Keys : (Looping => k \in loop.seen) /\ Remove(k)
  \/ loop.phase # "new" /\ Foreach
  \/ \E c \in Capacities : Bounded(c) /\ CarefulSetCapacity(c)

AnyNext ==
  \/ Common
  \/ \E n \in Capacities : Create(n)
  \/ \E k \in Keys, v \in Values : Add(k, v)
  \/ \E k \in Keys : Remove(k)
  \/ Foreach
  \/ \E c \in Capacities : Bounded(c) /\ SetCapacity(c)

Spec == Init /\ [][Next]_vars

AnySpec == Init /\ [][ret \notin Aborts /\ AnyNext]_vars
-----------------------------------------------------------------------------
\* The fields of the struct have their C types.
TypeOK ==
  /\ map.capacity \in Nat /\ map.count \in Nat
  /\ map.buckets \in [DOMAIN map.buckets -> Seq(Entry)]
  /\ map.it \in [entry : Keys \cup {None, Freed}, nr : Nat]
  /\ map.flags \in SUBSET {"key", "value"}
  /\ ret \in Answers \cup Keys \cup Values
  /\ freed \subseteq Keys
  /\ fault \in BOOLEAN

(***************************************************************************)
(* Rehashing, unlinking and duplicate tests together keep every key once,  *)
(* in the bucket of its hash, and the count equal to the entries stored.   *)
(***************************************************************************)
ShapeOK ==
  Live => /\ DOMAIN map.buckets = 0 .. map.capacity - 1
          /\ \A i \in DOMAIN map.buckets :
               \A e \in DOMAIN map.buckets[i] :
                 Home(map, map.buckets[i][e].key) = i
          /\ map.count = Len(Entries(map))
          /\ map.count = Cardinality(Stored)

(***************************************************************************)
(* A loop that removes what it has been handed never reads a freed entry   *)
(* through the iterator, growth frees no key or value of an entry it       *)
(* carries over, and nothing is written outside the array of buckets.      *)
(***************************************************************************)
MemorySafe == ~fault /\ freed \cap Stored = {}

(***************************************************************************)
(* hashmap.c, the check at the end of xtHashmapSetCapacity: "New hashmap   *)
(* got corrupted".  When a map is rehashed with its iterator inside it,    *)
(* the entry it was at is found again in the new map.                      *)
(***************************************************************************)
NeverCorrupted == ret # "corrupted"

(***************************************************************************)
(* hashmap.h, xtHashmapForeach: "A boolean indicating if a next bucket was *)
(* found.  If not, the loop has ended".  A loop ends only when every key   *)
(* that was there when it began, and was not removed since, was handed     *)
(* out, and it hands out no key twice.                                     *)
(***************************************************************************)
LoopVisitsAll ==
  [][/\ ret' = "false" => Due = {}
     /\ ret' \in Keys => ret' \notin Seen]_vars

\* The entry of each key, as the client sees it.
Contents == [k \in Stored |-> ValueIn(map, k)]

D == INSTANCE Dictionary
       WITH dict <- Contents, answer <- ret,
            Refusals <- {"XT_ENOMEM", "XT_ENOBUFS", "XT_EINVAL", "void"}

(***************************************************************************)
(* The map is a dictionary: it answers by the contents the calls so far    *)
(* have left, across collisions, growth and failed growth.                 *)
(***************************************************************************)
ImplementsDictionary == D!Spec
=============================================================================
