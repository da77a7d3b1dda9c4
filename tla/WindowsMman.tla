----------------------------- MODULE WindowsMman ----------------------------
(***************************************************************************)
(* xtmmap, xtmunmap and xtmremap of windows/mman.c, called by several      *)
(* threads.  The heap that records the mappings by address is used under a *)
(* lock, one call on it at a time, and a step here is such a call or a     *)
(* system call on views.  An address is a positive number, and 0 is NULL.  *)
(***************************************************************************)
EXTENDS Integers, FiniteSets

CONSTANTS Mappers,    \* the threads
          Addresses,  \* where the system may place a view
          Sizes,      \* lengths a client asks for
          HeapCap     \* XT_MMAN_HEAP_CAP_DEFAULT

ASSUME MmanAssumption ==
  Addresses \cup Sizes \subseteq Nat \ {0} /\ HeapCap \in Nat \ {0}

VARIABLES
  heap,        \* _xtMmapDefaultHeap
  views,       \* the system: from the addresses of views to their lengths
  mpc,         \* where each thread is
  arg,         \* the address and length a thread works on
  mine,        \* the mappings each thread was given and has not given back
  forgotten,   \* history: the mappings the heap lost when it recorded others
  unrecorded,  \* history: the views xtmmap made and could not record
  refused      \* history: the views the system refused to unmap

mmanVars == <<heap, views, mpc, arg, mine, forgotten, unrecorded, refused>>
-----------------------------------------------------------------------------
NoMapping == [addr |-> 0, size |-> 0]

EmptyHeap == [data |-> [i \in 0 .. HeapCap - 1 |-> NoMapping], count |-> 0, cap |-> HeapCap]

Left(i) == 2 * i + 1

Right(i) == 2 * i + 2

Parent(i) == (i - 1) \div 2

Key(h, i) == h.data[i].addr

Swapped(h, a, b) ==
  [h EXCEPT !.data = [@ EXCEPT ![a] = h.data[b], ![b] = h.data[a]]]

\* One exchange of Sift: the entry goes below its smaller child, if that is
\* smaller than the entry.
Sunk(s) ==
  LET h == s.heap
      l == IF Left(s.at) < h.count /\ Key(h, Left(s.at)) < Key(h, s.at) THEN Left(s.at) ELSE s.at
      m == IF Right(s.at) < h.count /\ Key(h, Right(s.at)) < Key(h, l) THEN Right(s.at) ELSE l
  IN  IF m = s.at THEN s ELSE [heap |-> Swapped(h, s.at, m), at |-> m]

\* The position grows with each exchange, so after count of them it rests.
Sift(h, i) ==
  LET after[k \in Nat] == IF k = 0 THEN [heap |-> h, at |-> i] ELSE Sunk(after[k - 1])
  IN  after[h.count].heap

\* One turn of the loop of Siftup: the entry rises above a larger parent.
Risen(s) ==
  IF s.at > 0 /\ Key(s.heap, Parent(s.at)) > Key(s.heap, s.at)
  THEN [heap |-> Swapped(s.heap, Parent(s.at), s.at), at |-> Parent(s.at)]
  ELSE s

Siftup(h, i) ==
  LET after[k \in Nat] == IF k = 0 THEN [heap |-> h, at |-> i] ELSE Risen(after[k - 1])
  IN  after[i].heap

\* The search of Get and GetIndex: h.cap when it does not meet the key.
IndexOf(h, key) ==
  LET from[i \in Nat] ==
        IF i >= h.count THEN h.cap
        ELSE IF Key(h, i) = key THEN i
        ELSE from[IF Key(h, i) > key /\ Right(i) < h.count THEN Right(i) ELSE Left(i)]
  IN  from[0]

\* Remove: the entry rises to the root as NULL, and the last one replaces it.
Without(h, i) ==
  LET up == Siftup([h EXCEPT !.data[i].addr = 0], i)
  IN  Sift([up EXCEPT !.data[0] = up.data[h.count - 1], !.count = @ - 1], 0)

\* Add: the new entry is put last and sifted down, which leaves it there.
With(h, e) == Sift([h EXCEPT !.data[h.count] = e, !.count = @ + 1], h.count)
-----------------------------------------------------------------------------
MmanInit ==
  /\ heap = EmptyHeap
  /\ views = << >>
  /\ mpc = [t \in Mappers |-> "idle"]
  /\ arg = [t \in Mappers |-> NoMapping]
  /\ mine = [t \in Mappers |-> {}]
  /\ forgotten = {} /\ unrecorded = {} /\ refused = {}

\* A thread in xtmremap has called abort(), which ends the others too.
Aborted == \E t \in Mappers : mpc[t] = "abort"

At(t, here) == mpc[t] = here /\ ~Aborted

Goto(t, there) == mpc' = [mpc EXCEPT ![t] = there]

View(a, n) ==
  [b \in DOMAIN views \cup {a} |-> IF b = a THEN n ELSE views[b]]

Unview(a) == [b \in DOMAIN views \ {a} |-> views[b]]

\* The mappings the heap records.
Known == {heap.data[i] : i \in 0 .. heap.count - 1}

\* What HeapLazyInit leaves: the heap is never marked as initialised, so
\* every Add starts from an empty one and forgets what it held.
LazilyInit == EmptyHeap

\* xtmmap and the end of xtmremap: the system makes a view, or refuses to.
MapView(t, n) ==
  \/ \E a \in Addresses \ DOMAIN views :
       /\ views' = View(a, n)
       /\ arg' = [arg EXCEPT ![t] = [addr |-> a, size |-> n]]
       /\ Goto(t, "add")
       /\ UNCHANGED <<heap, mine, forgotten, unrecorded, refused>>
  \/ Goto(t, "idle") /\ UNCHANGED <<heap, views, arg, mine, forgotten, unrecorded, refused>>

\* A length of 0, MAP_FIXED and executable mappings are refused before.
Mmap(t) == At(t, "idle") /\ \E n \in Sizes : MapView(t, n)

\* HeapAdd.
HeapAdd(t) ==
  /\ At(t, "add")
  /\ heap' = With(LazilyInit, arg[t])
  /\ forgotten' = forgotten \cup Known
  /\ mine' = [mine EXCEPT ![t] = @ \cup {arg[t]}]
  /\ Goto(t, "idle")
  /\ UNCHANGED <<views, arg, unrecorded, refused>>

\* Without memory for the heap, xtmmap tries to unmap the view, which the
\* heap does not know, and fails: the view stays.
HeapAddNoMemory(t) ==
  /\ At(t, "add")
  /\ unrecorded' = unrecorded \cup {arg[t]}
  /\ Goto(t, "idle")
  /\ UNCHANGED <<heap, views, arg, mine, forgotten, refused>>

Found(a) == IndexOf(heap, a) < heap.cap

\* Mutant: the entry is removed and the view forgotten.
MunmapAtOnce(t) ==
  /\ At(t, "idle")
  /\ \E m \in mine[t] :
       /\ Found(m.addr)
       /\ heap' = Without(heap, IndexOf(heap, m.addr))
       /\ mine' = [mine EXCEPT ![t] = @ \ {m}]
  /\ UNCHANGED <<views, mpc, arg, forgotten, unrecorded, refused>>

\* HeapRemove in xtmunmap; it refuses a mapping the heap does not know and,
\* without a change, a length that is not the mapped one.
Munmap(t) ==
  /\ At(t, "idle")
  /\ \E m \in mine[t] :
       /\ Found(m.addr)
       /\ heap.data[IndexOf(heap, m.addr)].size = m.size
       /\ heap' = Without(heap, IndexOf(heap, m.addr))
       /\ arg' = [arg EXCEPT ![t] = m]
       /\ Goto(t, "unmap")
  /\ UNCHANGED <<views, mine, forgotten, unrecorded, refused>>

\* UnmapViewOfFile, which the system may refuse when the heap has already
\* forgotten the mapping: the view stays, and with it its memory.
ViewUnmapped(t) ==
  /\ views' = Unview(arg[t].addr)
  /\ mine' = [mine EXCEPT ![t] = @ \ {arg[t]}]
  /\ UNCHANGED refused

ViewRefused(t) ==
  /\ refused' = refused \cup {arg[t]}
  /\ UNCHANGED <<views, mine>>

\* The client of xtmunmap is told of a refusal, XT_EPERM, and goes on.
Unmap(t) ==
  /\ At(t, "unmap")
  /\ ViewUnmapped(t) \/ ViewRefused(t)
  /\ Goto(t, "idle")
  /\ UNCHANGED <<heap, arg, forgotten, unrecorded>>

\* HeapGet in xtmremap, which returns a pointer into the heap; xtmremap
\* refuses, without a change, what the heap does not know.
Mremap(t) ==
  /\ At(t, "idle")
  /\ \E m \in mine[t] :
       /\ Found(m.addr)
       /\ heap.data[IndexOf(heap, m.addr)].size = m.size
       /\ arg' = [arg EXCEPT ![t] = m]
       /\ Goto(t, "remap")
  /\ UNCHANGED <<heap, views, mine, forgotten, unrecorded, refused>>

\* The heap is searched again, under a lock of its own: the program aborts if
\* another thread's xtmmap made it forget the mapping in between.
RemapRemove(t) ==
  /\ At(t, "remap")
  /\ \/ /\ Found(arg[t].addr)
        /\ heap' = Without(heap, IndexOf(heap, arg[t].addr))
        /\ Goto(t, "remapUnmap")
     \/ ~Found(arg[t].addr) /\ Goto(t, "abort") /\ UNCHANGED heap
  /\ UNCHANGED <<views, arg, mine, forgotten, unrecorded, refused>>

\* The program aborts if the system refuses to unmap the view.
RemapUnmap(t) ==
  /\ At(t, "remapUnmap")
  /\ \/ ViewUnmapped(t) /\ Goto(t, "remapMap")
     \/ ViewRefused(t) /\ Goto(t, "abort")
  /\ UNCHANGED <<heap, arg, forgotten, unrecorded>>

RemapMap(t) == At(t, "remapMap") /\ \E n \in Sizes : MapView(t, n)

MmanAborted == Aborted /\ UNCHANGED mmanVars

MmanStep(t) ==
  \/ Mmap(t) \/ HeapAdd(t) \/ HeapAddNoMemory(t) \/ Munmap(t) \/ Unmap(t)
  \/ Mremap(t) \/ RemapRemove(t) \/ RemapUnmap(t) \/ RemapMap(t)

MmanNext == (\E t \in Mappers : MmanStep(t)) \/ MmanAborted

MmanSpec == MmanInit /\ [][MmanNext]_mmanVars
-----------------------------------------------------------------------------
Mappings == [addr : Addresses, size : Sizes]

\* Every cell of the heap holds a mapping or none, and the count fits.
MmanTypeOK ==
  /\ heap.cap = HeapCap /\ heap.count \in 0 .. HeapCap
  /\ heap.data \in [0 .. HeapCap - 1 -> [addr : Addresses \cup {0}, size : Sizes \cup {0}]]
  /\ DOMAIN views \subseteq Addresses /\ \A a \in DOMAIN views : views[a] \in Sizes
  /\ mpc \in [Mappers -> {"idle", "add", "unmap", "remap", "remapUnmap", "remapMap", "abort"}]
  /\ arg \in [Mappers -> Mappings \cup {NoMapping}]
  /\ mine \in [Mappers -> SUBSET Mappings]
  /\ forgotten \cup unrecorded \cup refused \subseteq Mappings

InTransit == {arg[t] : t \in {u \in Mappers : mpc[u] \in {"add", "unmap", "remapUnmap"}}}

GivenOut == UNION {mine[t] : t \in Mappers}

(***************************************************************************)
(* A view exists exactly for the mappings the heap records, for those a    *)
(* call is about to record or to unmap, for those the heap forgot when it  *)
(* recorded another one, for those it found no memory to record, which no  *)
(* client holds, and for those the system refused to unmap.  So nothing    *)
(* else leaks, whatever the threads do at once: no view is unmapped that a *)
(* client still holds, and none is recorded or unmapped twice.  xtmremap   *)
(* aborts only when the heap forgot the mapping after it was found, or     *)
(* when the system refuses to unmap the old view.                          *)
(***************************************************************************)
HeapMatchesViews ==
  /\ {[addr |-> a, size |-> views[a]] : a \in DOMAIN views}
       = Known \cup InTransit \cup forgotten \cup unrecorded \cup refused
  /\ GivenOut \subseteq Known \cup InTransit \cup forgotten \cup refused
  /\ Known \cup forgotten \cup refused \subseteq GivenOut
  /\ GivenOut \cap unrecorded = {}
  /\ Known \cap (InTransit \cup forgotten) = {}
  /\ \A t \in Mappers : mpc[t] = "abort" => arg[t] \in forgotten \cup refused
=============================================================================
