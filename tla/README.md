# Verification of libxtcommon

TLA+ models of the parts of libxtcommon that keep state across calls, TLC
configurations that check them on small instances, and TLAPS proofs for every
value of the constants. Paths in this file are relative to the repository;
`generic/`, `linux/` and `windows/` stand for `src/generic/` and so on.

## 1. The system

libxtcommon is a C library without threads or global loops of its own: each
component is a struct and the functions a client calls on it. Concurrency comes
from the client, through the threads and mutexes the library wraps.

| Component | State it keeps | Operations | What is hard about it |
|---|---|---|---|
| Queues (`generic/collection/queue.c`) | buffer, capacity, count, front, rear, growth factor | Init, Create, Destroy, Push, Pop, Peek, Drop, SetCapacity, SetGrowthFactor | wrap-around together with growth and resizing; a capacity of 0 over a non-empty buffer; malloc failing in the middle of Push |
| Hash map (`generic/collection/hashmap.c`) | array of chains, count, growth factor and limit, ownership flags, one iterator | Create, Destroy, Add, Get, GetValue, Remove, Foreach, ForeachEnd, SetCapacity, setters | growth rebuilds the map through Add, which may grow the new map again; the iterator lives in the map and must survive growth and removal; objects owned by the map must be freed once |
| Threads on Linux (`linux/thread.c`) | mutex, condition, suspend count, pthread handle | Create, Suspend, Continue, GetSuspendCount, Join | Continue signals outside the mutex; spurious wakeups; Join destroys the objects others use |
| Mutexes and threads on Windows (`windows/thread.c`) | a library-wide lock made on first use, critical sections, suspend count, exit event | as on Linux, with Lock, TryLock and Unlock of the library's own | lazy creation by two threads; a lock held while waiting for another; suspension decided under the mutex and done after it |
| Lists (`generic/collection/list.c`) | buffer, capacity, count, growth factor, ownership flag | Create, Add, AddAt, Get, RemoveAt, SetCapacity, Destroy | growth arithmetic; ownership of pointers when items are cut off |
| Stacks (`generic/collection/stack.c`) | buffer, capacity, count, growth factor | Create, Push, Pop, Peek, Drop, SetCapacity, Destroy | growth by realloc; realloc of size zero |
| Poll sets on Linux (`linux/socket.c`) | slot table, ready array, an epoll descriptor | Create, Add, Mod, Remove, RemoveByIndex, SetEvent, Wait, Destroy | ready entries point into slots that may be reused |
| Poll sets on Windows (`windows/socket.c`) | parallel arrays, ready array | the same | compaction on removal; a stale ready count |
| Mappings on Windows (`windows/mman.c`) | a heap that records mappings, its lock | xtmmap, xtmunmap, xtmremap | lazy initialisation; a pointer into the heap used after its lock is released; the system refusing to unmap what the heap has forgotten |
| Directory iterators (`linux/file.c`, `windows/file.c`) | a handle of the system, on Windows the first name, a count | Start, Next, End | the directory changes while it is read; on Windows Start already reads the first name |
| File copies (the same files) | a buffer | CopyByHandle, Copy | failures in the middle; bytes that are still in the stream's buffer; streams in text mode |
| Process waits (`linux/proc.c`, `windows/proc.c`) | the time left | IsAlive, Wait | a PID that is reused; a process that ends while the time runs out |
| Sorting (`generic/sort.c`) | none | bubble, heap, insertion, quick, selection and radix sort | the ends of the index ranges for short arrays; overflow of the radix |
| Strings, formatting, base64, time, arithmetic | none | one function per conversion | buffer lengths, terminators, the rewriting of printf formats |
| Ciphers, password hashes, digests, checksums (`generic/crypto`, `generic/hash`) | key schedules; a digest's buffer and length | set a key, encrypt, decrypt; Init, Update, Digest, Reset | chaining in place; messages cut into updates anywhere |
| Error tables, system information, dynamic loading, the rest of sockets, files and processes | none, or a handle of the system | one system call each | |

How they interact: Push grows a queue by calling its own SetCapacity, and Add
grows a hash map the same way; threads use the mutexes (on Windows literally,
with `xtMutexLock`); Windows mappings use a mutex around their heap; everything
reports through the codes of `error.h`. The collections, poll sets and files do
not lock: a client that shares them brings its own mutex. There is no message
passing and nothing is persisted, so there is no recovery to model.

`PROJECT.json` lists all components with their status, and every place in the
code that is hard to test under `hazards`.

## 2. The modules

| Module | Models | Role |
|---|---|---|
| `Queue` | `queue.c` | the queue, one action per call |
| `Fifo` | what a client expects of a queue | abstract specification of `Queue` |
| `QueueProofs` | | theorems about `Queue` |
| `Hashmap` | `hashmap.c` | the hash map, one action per call |
| `Dictionary` | what a client expects of a map | abstract specification of `Hashmap` |
| `HashmapProofs` | | theorems about `Hashmap` |
| `LinuxThread` | suspend protocol of `linux/thread.c` | one action per access to shared state |
| `Suspension` | what `thread.h` promises of Suspend and Continue | abstract specification of `LinuxThread` |
| `LinuxThreadProofs` | | theorems about `LinuxThread` |
| `WindowsMutex` | the mutexes of `windows/thread.c` | one action per access to shared state |
| `Locks` | what `thread.h` promises of a recursive mutex | abstract specification of `WindowsMutex` |
| `WindowsMutexProofs` | | theorems about `WindowsMutex` |
| `List`, `Buffers` | `list.c`; buffers from malloc and realloc | one action per call |
| `Vector` | what a client expects of a list | abstract specification of `List` |
| `Stack`, `Buffers` | `stack.c` | one action per call |
| `Lifo` | what a client expects of a stack | abstract specification of `Stack` |
| `EpollSet`, `Polling` | the poll sets of `linux/socket.c` | one action per call, the kernel's events in between |
| `WsaPollSet`, `Polling` | the poll sets of `windows/socket.c` | the same |
| `PollSet` | what `socket.h` promises of a poll set | abstract specification of both |
| `ArrayProofs` | | theorems about `Stack`, `List`, `EpollSet` and `WsaPollSet` |
| `WindowsThread` | the threads of `windows/thread.c` | one action per locked section and per system call; a second implementation of `Suspension` |
| `WindowsMman` | `windows/mman.c`, with its heap as operators on a record | one action per call on the heap and per system call |
| `DirIterator` | the directory iterators of both systems | one action per call, and the changes of other programs |
| `FileCopy` | the file copies of both systems | one action per block |
| `ProcWait` | `xtProcWait` of both systems | one action per question and per sleep |
| `SystemProofs` | | theorems about `WindowsThread`, `DirIterator`, `ProcWait`, `FileCopy` and `WindowsMman`, and about `MCComponents`, which puts all of the components side by side |
| `Machine` | the loops and the 32-bit words of C | operators |
| `Sorting` | `sort.c` | functions on arrays, with the definition of a sorted array |
| `PureFunctions` | what callers may pass to a function that only computes, and what it promises | a state is an input |
| `FunctionProofs` | | theorems about `PureFunctions`: sorting |
| `CodecProofs` | | theorems about `PureFunctions`: base64, ciphers, password hashes, checksums and digests |
| `Strings` | the searching and cutting in `string.c`, path and process lists, rows of the console | operators and their definitions |
| `Formats` | the formatting in `string.c`, the rewriting of formats on both systems, `time.c` and `math.c` | operators and their definitions |
| `Codecs`, `Ciphers`, `Digests` | `base64.c`, `bcrypt.c`, `blowfish.c`, `serpent.c`, `hash.c`, `crc32.c` | operators and their definitions |
| `MCQueue`, `MCHashmap`, `MCWindowsMutex`, `MCComponents`, `MCFunctions` | | instances for TLC; `LinuxThread` needs none beside its `.cfg` |

### Queue

`q` is the struct, with `q.data` a function on the indices of the buffer (an
empty domain when the pointer is NULL). `top` is the variable a client passes
to Pop and Peek, `ret` the result of the last call, and `fault` records an
access outside the buffer. The five element types share their code, so one module stands for all of them; the
lines in `PROJECT.json` name one type or the range of all five. malloc may
refuse any request and always refuses more than `MaxAlloc` elements.

SetCapacity copies from `front`, the index Push writes next, while the oldest
element is at `rear`. The two are equal only when the queue is full or empty.
So there are two specifications:

- `Spec` is the queue resized with care (`SafeResize`): while it is empty, to a
  larger capacity while it is full (which is what Push itself does), or to the
  capacity it has;
- `AnySpec` allows SetCapacity at any time.

### Hashmap

`map.buckets` maps bucket numbers to chains, which are sequences of entries.
`map.it` is the iterator: the next entry's key and a bucket number. The pointer
to a bucket that has been freed is the value `Freed`; a Foreach that follows it
sets `fault`. `freed` holds the keys of the map whose objects have been freed.
`loop` is the client's view of its Foreach loop: which keys it is still due to
be handed, and which it has seen. A key stands for the key object and for its
content at once, keyCompare is equality, and keyHash is the constant `Hash`.
Factors are integers: the growth factor counts halves and the limit quarters,
so that the default factor 1.5 is 3 and the default limit 0.75 is 3.

`Rehash` is SetCapacity's work. It adds the entries one by one to a new map
(`Refill`) and then looks for the entry the old iterator was at (`Restored`),
aborting when the new iterator does not meet it. In the code SetCapacity and
Add call each other, since the new map may be crowded before all entries are in
it. The model computes the same by the number of entries: `Filling` has the
outcomes of adding k entries to an empty map, for every capacity, from those
for k - 1; an entry that is `Taken` by a crowded map waits for the k - 1 before
it to be `Rebuilt` in a larger one. `Add` performs growth and insertion in one
action, as the code does, and so may end with the map grown and the entry
refused.

`Spec` is the map used by rules its header does not state:

- it is not created with a capacity of zero (the code then clears elements it
  has not allocated);
- ForeachEnd is called before the first loop (the iterator of a new map is not
  at its end, see section 5);
- SetCapacity is called outside loops on a map that is not empty (it aborts
  otherwise), with a capacity under whose growth limit the entries fit;
- during a loop the map does not grow, and only keys the loop has handed out
  are removed;
- growth factor and limit are such that a growing map is rebuilt in one with
  room for its entries. Otherwise the new map grows in its turn, while
  `hashmap.c:291` goes by the capacity asked for when it restores the iterator,
  and may abort. A map of one bucket that grows by a half stays one of one
  bucket, however often it is rebuilt, and is allowed;
- memory does not run out while a map that owns its keys or values is rehashed.

`AnySpec` has no rules; it ends when the program aborts.

### LinuxThread

`Target` is the library's thread, `Controllers` are the threads that call
Continue and GetSuspendCount, and `Owner` is the one of them that creates and
joins the thread. `pc` places each thread in the code. Every access to the
count and every call on the mutex or the condition is an action of its own, also
between lock and unlock: mutual exclusion is something the model can lose.
`pthread_cond_wait` is release-and-wait in one step, a wakeup that may be spurious, and a relock.
`alive` says that the mutex and the condition are initialised, and `late` that
one was used when they were not. `seen` is the local copy of the count.

Left out: names, IDs, IsAlive and Yield, which do not touch the protocol, the
XT_EINVAL returns of Suspend from another thread and Continue from the thread
itself, guard sizes below -1 (the header does not document them, and the code
reports success without a thread), and reads of `nativeThread` by the new thread
before pthread_create has stored it, which glibc does first.

`Next` contains one rule for the client (`Quiet`): no other call on the thread
is in flight when Join destroys its mutex and condition.

`Fairness` says that a thread inside a call takes its next step. Leaving
`pthread_cond_wait` competes with controllers for the mutex, and gets strong
fairness: it is a property of the pthread mutex (that it starves nobody), not of
this code. Nobody is obliged to make a call, and a thread may sleep for ever when
nobody continues it.

### WindowsMutex

A critical section is its owner and its depth, and `made` tells one that
RtlInitializeCriticalSection has filled in from the zeros of `XT_MUTEX_INIT`.
`handle` and `library` are the mutex of the library's own that Lock and TryLock
hold while they look at a critical section, make it and enter it; the first call
of all creates it. A thread that loses the race to install it repeats a
compare-and-swap that cannot succeed, so its `Install` stays disabled. `holds`
is a history variable: how often each thread has locked each mutex by the return
values it got. `Unlock` does not take the library's mutex and can come between
any two steps of a Lock.

The client obeys the header: it unlocks what it has locked, creates a mutex only
if it is not made, and destroys one only if it is made and not in use (`Unused`).
Failures of CreateMutex and WaitForSingleObject, whose results the callers
ignore, are left out.

There is no liveness property and the runs do not check for deadlock, because
a thread really may wait for ever: the loser of the race, and everybody behind a
Lock that waits for a thread whose own next call is a Lock.

### List and Stack

`list` and `stack` are the structs; a buffer is a function on its indices, empty
when the pointer is NULL or dangling. `freed` holds the items a list has freed;
an address leaves it when the client hands it in again for a new item. `List` stands for all six types: the
first five have the code of xtListP without its flag. `Resized` is SetCapacity
with its order of steps, free, realloc, assign, and `ListAdd` performs growth
and store in one action. realloc may refuse any request; a request of zero
frees the buffer and returns NULL, as glibc does.

The rules of a client:

- a list grows into a larger capacity: with a positive growth factor only while
  it is shorter than the factor (`Growing`; see section 5);
- no capacity of 0 for a buffer that exists, in lists and in stacks;
- memory does not run out while a list that owns its items is cut off.

### EpollSet, WsaPollSet and PollSet

`PollSet` has the sockets that are watched with their data and events, and the
ready array of the last Wait, whose entries of removed sockets are invalidated.
`EpollSet` implements it with the table of slots, the interest set of the kernel
(`interest`) and ready entries that point to slots; `WsaPollSet` with one compact
array and copies. Wait reports any set of events the kernel could: the requested
ones and errors. Failures of epoll_ctl and of allocation are included.

The rules of a client: on Linux, a socket is not added into a slot the ready
array still points to (see section 5). On Windows, RemoveByIndex gets an index
below the count and no full set, whose arrays it would read one behind
their end, and SetEvent is used to clear events only: it stores the flags of the
system where the others store those of `socket.h`.

### WindowsThread

A section under the suspend mutex is one step here, since `WindowsMutex` shows
that the mutexes exclude; the SuspendThread or ResumeThread behind it is another
step. `frozen` is the suspend count the system keeps. `MaxDebt` bounds how far
Continue runs ahead. The client's rules (`Apart` is the second): a
thread suspends itself once Create has returned, since Create stores the handle
Suspend uses after the thread has started; no Continue falls between the count
and the SuspendThread of a Suspend (see section 5); nothing is in flight when
Join closes the handles. `WtFairness` is weak fairness of every step inside a
call: scheduling by the system, and nothing that the code would have to do.

### WindowsMman

The heap is computed as in the code, index arithmetic included. xtmmap, xtmunmap
and xtmremap are run by several threads over it; a step is one call on the heap,
which locks, or one system call. `views` are the mappings of the system.

As the heap is never marked initialised, each Add starts from an empty one and
forgets the mappings before, which can then neither be unmapped nor remapped.
There is no rule for the client against this: `forgotten` holds these mappings.

UnmapViewOfFile may be refused (`ViewRefused`) when the heap no longer has the
entry: the view stays for good, and `refused` holds it. xtmunmap then returns
XT_EPERM, and xtmremap aborts the program, as it does when its second search
finds nothing because another thread's xtmmap came in between. `unrecorded` holds
the views that xtmmap made and could not record for want of memory, which nobody
can unmap either. `HeapMatchesViews` accounts for every view there is: nothing
leaks but in these three ways, and xtmremap aborts only after the first or the
second. What a client may not do is unmap or remap the mapping of another one, or
one that it has given back. Left out: protection, file and offset of a mapping,
which xtmremap reads through a pointer into the heap after the element has been
removed.

### DirIterator, FileCopy and ProcWait

`DirIterator` reads a directory that other programs modify (`DirChanges`) at most
`MaxChanges` times. The system gives every name that stays exactly once, and one
that comes or goes at most once, which is what POSIX and Windows both say.
`ListingComplete` relates what a client was given to the names that were there
the whole time. A Windows Start whose strdup fails ends the iterator; the client
that takes its return value 0 for success is left out.

`FileCopy` copies blocks through the buffer of the target's stream. Reading,
writing and flushing may fail. One of the blocks is a line feed, and a stream in
text mode puts a carriage return before it (`Cells`); on Windows xtFileCopy opens
such a stream for its target, and a client of xtFileCopyByHandle may. A block
stands for a byte, so the buffer of the stream is cut off anywhere.
`CopyIdentical` says that a copy that returns success is a copy, unless a read or
the last flush failed: the code does not look at these. `CopyExact` says it of
sources in which no line feed goes through a stream in text mode. Source and
target are different files.

`ProcWait` counts time in units of half of the 50 ms the Linux loop sleeps. The
PID's holder ends, becomes a zombie, and the PID may be given to another
process; on Windows the handles that xtProcWait never closes keep it in use.
`WaitAnswers` says when a timeout may be reported, that success means that the
PID was free, and that a wait without limit ends once the PID stays free. It
assumes that the waiter keeps running (weak fairness of its steps).

### Functions

Every initial state of `MCFunctions` is one function with its arguments; nothing
moves. `PureFunctions` is the same without the bounds for sorting, base64, the
ciphers and bcrypt: arrays, texts and keys of any length the functions accept,
with any numbers, bytes or bits in them. What it asks of an input is named
(`SortInput`, `BlowfishInput`, ...), and TLC checks that the inputs of the run are
among those (`InputsAssumption`). bcrypt's passwords are C strings shorter than 72
bytes: its subkeys are made from 72 bytes with the terminator, and longer
passwords that agree in those have the same hash.
A loop of the C code is `Rounds(Round, start, k)` in `Machine`:
what is left of `start` after k rounds, where k is a number of rounds that is
always enough, and a round that finds its loop at an end changes nothing. Quick
sort's calls are rounds too: round k gives the answer of the calls that are
nested at most k deep. Each property compares the code's result, computed with the code's
indices, loops and early ends, with a definition: `SortedBy` with ordered
permutations, `TextOK` with definitions by quantifiers over positions, `HexOK`
and `CommasOK` by reading back, `CodecsInvert` by decoding, `DigestsStandard` by
the padded text that the standards define. Where the code is wrong (section 5) the
definition says so in a named precondition, for example `Restartless` for the
search that does not start again.

The second rewriting of formats, on Windows, works in the buffer it reads.
`RewriteInPlace` computes it on the cells of a buffer of a given size, of which
the format and its terminator fill the first: what is moved where, when it gives
up, and whether a cell outside was used. The buffers of the run are just large
enough for the format, and up to three cells larger.

- The widths are small where overflow matters: `UnsignedSize` is 128, so that
  radix sort's `exp` is at its limit; a digest's `lo` ends before `LoLimit`, so
  that it overflows within three blocks.
- Blowfish has bytes of `ByteBits` = 1 bit and tables given as constants; its
  rounds, key schedule, modes and in-place order are the code's. Serpent has full
  words; bcrypt runs over this Blowfish. The values of the real tables are left
  to test vectors.
- A digest's compression is the sequence of the blocks compressed. Two contexts
  are then equal exactly when the same blocks went in, which is what buffering and
  padding are about.

## 3. What TLC checks

| Run | Result | Question |
|---|---|---|
| `queue` | holds, 41 619 states | Do wrap-around, growth and careful resizing keep the ring's shape (`RingOK`), stay in the buffer (`MemorySafe`), change nothing on errors (`ErrorKeepsQueue`) and amount to a FIFO (`ImplementsFifo`)? |
| `queue_any_resize` | violated | Is the queue a FIFO when it may be resized at any time? |
| `hashmap` | holds, about 148 500 states | Do collisions, growth, failed growth and removal in loops keep the chains (`ShapeOK`), memory (`MemorySafe`), the iterator (`NeverCorrupted`, `LoopVisitsAll`) and the dictionary (`ImplementsDictionary`)? |
| `hashmap_first_loop` | violated | Does the first loop over a new map visit everything? |
| `linux_thread` | holds, 144 906 states | Is every wakeup delivered (`NoLostWakeup`, `ImplementsSuspension` with its liveness), with no use of destroyed objects (`ObjectsAlive`)? |
| `windows_mutex` | holds, about 8 200 states up to symmetry | Do mutexes that are made by their first Lock exclude other threads (`MutualExclusion`), stay with their owner (`HoldersOwn`) and amount to recursive locks (`ImplementsLocks`)? |
| `windows_mutex_trylock` | violated | Does TryLock return without waiting for a contended mutex? |
| `components` | holds, 63 998 states | Lists and stacks: bounds (`MCBounds`), ownership (`NoFreedItem`), `ImplementsVector`, `ImplementsLifo`. Poll sets: the slots and the kernel agree (`SlotsMatchKernel`), the array has no holes (`Compact`), both implement `PollSet`. Windows threads: no Continue is lost (`NoLostContinue`), Join's value (`JoinGivesResult`), `WindowsImplementsSuspension`. Mappings: every view is recorded, in transit, or lost in one of three known ways (`HeapMatchesViews`). `ListingComplete`, `CopyExact`, `WaitAnswers`. |
| `list_growth` | violated | Does a list stay in its buffer with a positive growth factor below its length? |
| `epoll_reused` | violated | Is a removed socket gone from the ready array, whatever is added? |
| `windows_thread_any` | violated | Is a Windows thread awake when its count is zero, however Continue falls? |
| `functions` | holds, 81 614 inputs | Do the pure functions compute what they are for (`SortsCorrectly`, `TextsCorrect`, `FormatsCorrect`, `CodecsInvert`, `DigestsStandard`)? |

The components of `components` share no state, so one behaviour uses one of them
and the states add up instead of multiplying (list 22 376, mappings 15 001,
Windows poll set 10 310, epoll 9 006, copy 3 208, stack 1 995, iterator 1 657,
wait 409, thread 36).

Bounds, and why they are enough:

- Queue: client capacities 0 to 3, a default capacity of 2 and buffers of at
  most 5 elements. The ring can wrap in every position, grow twice in a row,
  start from capacity 0, and fail to grow. The growth factors are -2 (the
  default, whose increment rounds to 0 for a capacity of 1), 0 and 2. Two values
  suffice to see a reordering. The proofs remove all of these bounds.
- Hashmap: three keys, two with the same hash and the third in their bucket or
  not depending on the capacity, so that growth breaks chains and makes them;
  explicit capacities up to 3 while growth itself is not bounded but ends, since
  three keys crowd no map beyond a small capacity. The growth factors allow
  growth and forbid it; the limits are the default of three quarters, a whole,
  and a quarter, under which few maps may grow at all. Values are symmetric:
  they are stored and handed out. The properties are proved without these bounds.
- LinuxThread: two helpers beside the owner, so that three Continues can be in
  progress at once, and a count down to -2, so that two Suspends in a row need
  not sleep. The thread is created again after it has been joined. The bound
  `MaxCredit` stops Continue, which nothing in the code does. The safety
  properties are proved for any number of controllers and any bound.
- WindowsMutex: three threads, so that one can make a mutex while a second waits
  for the library and a third unlocks; two mutexes, so that a thread can hold one
  while it locks another; a depth of two, the first that tells an owner's last
  unlock from an earlier one. Threads and mutexes are symmetric. The properties
  are proved without these bounds.

- Lists: two values, capacities up to 3, growth factors -2, 0 and 3, at most 3
  elements of memory: a list is cut, grown and refused in every order of calls.
  `list_growth` has lists of 2 and 3 and a growth factor of 1, so that the Add
  that has to grow a full list cuts it. Stacks have the same bounds.
- Poll sets: two sockets, two data, two sets of events, capacities 0 (the
  default, 3) and 2: a set can be full, a slot reused, and an entry removed
  from either end of the ready array.
- WindowsThread: two callers, one of which creates and joins, and a count down
  to -2, as in LinuxThread.
- WindowsMman: two threads, three addresses and a heap with room for two, so that
  a mapping can be recorded, forgotten and under way at once. One length is enough,
  since lengths are only compared with each other.
- DirIterator: two names and two changes, so that a file can go and come back.
  FileCopy: contents of up to two blocks, line feeds and others, so that one may
  be written and another be in the buffer. ProcWait: timeouts from 0 (no limit) to 5 half-periods, on,
  between and beside the multiples of the period.
- Functions: `MCFunctions` names its inputs; texts of up to 6 characters over
  alphabets in which each character has a role of its own, arrays of up to 4
  elements with equal keys, messages of up to three blocks cut in two places.

Every property of a passing run has a mutant of the code that breaks it: the
definitions marked "Mutant" beside the ones they replace, listed in
`PROJECT.json`.

## 4. What is proved

`QueueProofs` proves `TypeOK`, `RingOK`, `MemorySafe`, `ErrorKeepsQueue` and
the refinement `ImplementsFifo` for `Spec`. The assumptions are those of
`QueueAssumption`: capacities are naturals, growth factors integers, the
default capacity is not zero, and the two marker values are not client values.
The inductive invariant is `TypeOK /\ RingOK /\ MemorySafe`: `RingOK` by itself
implies that no access leaves the buffer, but its last conjunct, that each of
the `count` cells from `rear` on was written by a Push, is what makes Pop hand
out values. The lemmas follow the code: what `Stored`, `Advanced` and `Resized`
do to the ring, the modular arithmetic of a wrapped index, and how each changes
the sequence a client would pop. The FIFO refinement then has one step per
action.

`HashmapProofs` proves `TypeOK`, `ShapeOK`, `MemorySafe`, `NeverCorrupted`,
`LoopVisitsAll` and the refinement `ImplementsDictionary` for `Spec`, for any
keys, hash function, capacities, growth factors and limits. The assumptions are
those of `HashmapAssumption`: hashes and capacities are naturals, the default
capacity and the limits are not zero, and keys, values, answers and the marks in
the iterator are distinct. The argument has three parts.

- A map in good order (`MapOK`) has every entry in the bucket of its hash, no
  key twice in a chain, and as many keys as its count says. Linking and
  unlinking keep this and add or take one of its entries, `Pairs`. A rebuilt
  map is in good order, has the capacity asked for and the same entries
  (`RehashWell`): by induction on the number of entries, where `Suffices` says
  that a map with room for all of them never grows, or has one bucket and
  is only ever rebuilt with one. `EntriesList` shows that the iterator meets
  every entry once, which is what keeps the rebuilt map complete. The contents
  a client sees are determined by `Pairs`, so the dictionary's steps follow.
- The iterator and the client's loop are tied by `Tracks`: between loops the
  iterator is at its end; during one, the keys that are due all lie before it
  and those seen all behind. It is this that `LoopVisitsAll` and the half of
  `MemorySafe` about the iterator rest on. A removal of a seen key moves the
  positions behind it in its chain by one, and `UnlinkedAhead` shows that what
  the iterator has before it does not change.
- `HashmapInv` puts these together with the fact that no object is freed early:
  `Spec` lets memory run out in a rehash only when the map owns nothing.

`LinuxThreadProofs` proves `TypeOK`, `MutexHeld`, `NoLostWakeup`,
`ObjectsAlive`, `OneContinueWakes`, and that every step is a step of
`Suspension` or a stutter (`SuspensionSteps`), for any set of controllers. The
assumptions are those of `ThreadAssumption`: the owner is a controller, the
thread is not, and the markers are distinct from the values. The inductive
invariant `Inv` adds two parts to these properties. `Tested` says that between
its test of the count and its wait the thread's count stays above zero: a
decrement in between is ruled out by `MutexHeld`, and without it `SuspendWait`
would break `NoLostWakeup`. `Life` says that the struct is initialised exactly
while there is a thread to join, and that every call in progress is on an
initialised struct. `OneContinueWakes` gives the bound of one on the count in
`TypeOK`. `Quiet` is used in one place, `Join` preserving `Life`.

`WindowsMutexProofs` proves `TypeOK`, `MutualExclusion`, `HoldersOwn` and the
refinement `ImplementsLocks`, for any sets of threads and mutexes. The inductive
invariant adds `LibraryHeld` (who is between the library's lock and unlock owns
its mutex), `Checked` (what a thread has found out about a critical section
stays true until it acts on it) and `Match` (the owners and depths of the
sections are exactly what the threads have been told). `Checked` needs
`LibraryHeld` against other Locks, and the client's `Unused` against Create and
Destroy. `Match` implies both safety properties and the refinement.

`MutexHeld` and `OneContinueWakes` are proved and no run checks them any more.

`ArrayProofs` proves types, bounds and the refinements of `Stack` and `List`.
`StackInv` and `ListInv` are the types, the bounds, and what makes the bounds
inductive: a live buffer has the capacity's size (the default's for a stack
created with 0), the cells below the count were written by the client, and for
a list no held item is among the freed ones. Push and Add compare the count
with the capacity for equality only, so `count <= capacity` is needed at every
step, through growth, cuts and removals; for the list it rests on `Growing`,
which is why the run without that rule fails. `OwnedItemsFreedOnce` needs that
what AddAt, RemoveAt, Clear and the cuts free is a suffix or a single cell,
which is no longer held afterwards. The refinements follow from what the
operators on buffers do to the sequence of elements.

It also does the same for the two poll sets and their one abstract
specification. `EpollInv` says that a slot is in use exactly if the kernel
watches its descriptor with the slot's events, that no descriptor has two
slots, and that ready entries point at slots in use. It implies
`SlotsMatchKernel` and, with each step, a step of `PollSet`. `WsaInv` says that
the descriptors in use are the first `fdCount` cells of each of the parallel
arrays, without repetition, and that the ready count is no more than what Wait
wrote; compaction on removal is the step that could lose it.

`SystemProofs` has a part per component.

- `WindowsThread`: `WtInv` adds to `NoLostContinue` where the target is when it
  is suspended, and that nobody is about to resume it at a positive count; the
  first keeps Suspend from counting twice, the second a resume from coming
  early. `WindowsSuspends` is the safety part of the refinement of `Suspension`.
- `DirIterator`: `DirInv` says that what was listed and what the system still
  holds pending are disjoint and cover every file that was there all along,
  including, on Windows, the first name, which Start has taken from the system
  and Next has not yet handed out. `Names` is assumed finite, as directories are.
- `ProcWait`: `WaitInv` relates the time left to the sleeps done.
- `FileCopy`: `CopyInv` says that what is in the target, followed by what is in
  the buffer, agrees with the source up to the position read, where no line feed
  is expanded. By handle, the target may be longer and keeps its tail. `Place` is
  where the next block belongs; `PlaceVerbatim` shows that without expansions it
  is the number of blocks read, and `PlaceBound` that with them it is at most
  twice that.
- `WindowsMman`: `HeapMatchesViews` is not inductive. `MmanInv` adds that a
  mapping is one client's alone, without which a client could unmap another's
  view; that a mapping about to be recorded is nobody's yet, and no other thread's
  (`MmanControl`, `MmanOwners`); and that the heap has at most one entry, the
  latest, since every Add starts from an empty heap (`SmallHeaps`). `Lost` joins
  the views that no entry leads to any more, and `Accounts` is the sum the property
  is about. xtmremap's second search can fail only for a forgotten or refused
  mapping because the search finds whatever is there (`KnownAreFound`). That it finds
  the only entry, and that sifting leaves it alone, are facts about functions
  defined by recursion: `SiftRests` and `IndexOfOnly` exhibit the function and
  show that it satisfies the equation.

The last part shows that `MCSpec` implements the specification of every
component, so that all of the above, `MCTypeOK` and `MCBounds` hold in it.

`FunctionProofs` proves `SortsCorrectly`: each of the six algorithms, in both
orders and for numbers and pointers, returns an ordered permutation of any
array. The assumptions are that the array is not empty, that radix sort is given
natural numbers below a tenth of the size of an unsigned (`Sortable`), and that
this size is no multiple of 10 (`SortingAssumption`). There are three layers.

- Loops. `LoopExists` shows that the recursive function in `Rounds` exists, by
  joining its finite beginnings, and `LoopInvariant` is induction over its
  rounds. For every loop of sort.c there is a rule: if each round leads from
  `S[n]` to `S[n + 1]`, then k rounds lead from `S[0]` to `S[k]`. A lemma
  cannot take the round as a parameter, so the rules are stated one by one.
- Permutations. `Reordered(a, b)` gives b as a after a permutation of the
  indices. Swaps reorder, reordering is transitive and keeps the number of
  occurrences of every element (`ReorderedCounts`). `Rank` turns both orders
  into one of integers.
- Invariants of the loops. Bubble sort: what is behind the pass is in order and
  nothing before it belongs there (`TailSorted`), and a pass without a swap
  leaves an ordered array, so the early end is right. Insertion: the head is
  ordered except around the element that sinks. Selection: `LeadSorted`. Heap:
  `HeapFrom(a, low, high)` between the parents above `low` and their children;
  while `Percolate` runs it holds but for the hole, and for the element that will
  fill it (`Sifting`). Quick: `Splitting` says that what lies left of i belongs
  not behind the pivot, what lies right of j not before it, and, as long as
  i <= j, that there is an element on each side to stop the scans, which
  have no bound of their own (`ScansUp`, `ScansDown`). `QuickDone` is then induction
  on the length of the range. Radix: after the pass for the digit `exp` the array
  is ordered by its remainders modulo 10 * `exp` (`DigitsSorted`), for which the pass
  has to be stable, and `exp` wraps only when no digit is left.

`CodecProofs` proves `CodecsInvert`, which has four parts, with the same rules for
loops. The assumptions are in `CiphersAssumption`: bytes have some bits, the number
of rounds is even and positive, and the initial tables are tables of words.

- Serpent (`SerpentInverts`), at its full size. Each box is undone by its
  inverse (`BoxInverse` looks at all sixteen values of all eight), the rotations
  and shifts of `rot` by `irot`, and a round key by itself. So the
  decryption passes the states of the encryption in the other order. The key
  schedule matters only in that it ends in 140 words, and that bits of a key beyond
  its length do not reach it.
- Blowfish (`BlowfishInverts`). `FeistelTrace` follows the network: after n rounds of
  decryption the halves are those before the last n rounds of encryption,
  exchanged. It holds whatever F and the subkeys are, as long as these
  are words, which the key expansion keeps (`ExpandStateContexts`).
  `EncryptedECB` and `EncryptedCBC` say block by block what a mode has written,
  and `DecryptedCBC` that decryption from the last block on finds the block before
  still encrypted. This is where the order of the loop counts.
- Base64 (`Base64Inverts`). Three bytes are four characters and back
  (`GroupOfSextets`, by division), and the loop over the groups stops
  exactly where the text or the room ends (`Decoded`), whether that is at the
  end of a group or inside.
- bcrypt (`BcryptAccepts`). `SaltDecoded` gives back the first 16 bytes of the seed
  from a salt, also from one that was cut for its buffer or has a
  ciphertext behind it. `SubkeysApart`: two passwords with the same 72
  bytes of subkeys are equal, because both are followed by a 0 that neither contains.
  The theorem takes the ciphertext as a value of its own for each subkeys, salt
  and cost, so it is about bcrypt's handling of these and not about collisions.

It also proves `DigestsStandard`, for messages of every length. The sizes of a
block, of the length at its end and of MD5's `lo` are any that satisfy
`DigestsAssumption`: the length fits in a block, and `lo` overflows at the end of one.

- Digests (`DigestsFollow`). `Place` relates a context to a text: the blocks
  before a place were compressed, and the buffer begins with the cells between the
  last of them and the place. What else the buffer holds does not matter. If
  the next cells of the text go in, the place moves on by as many: for MD5
  in one step, with the three cases of a buffer that is not filled, that is
  filled, and that is empty (`Md5Absorbs`, with `Md5Counts` for the carry from
  `lo` to `hi`), and for the other two round by round (`ShaAbsorbs`). The
  text is the message with the standard's padding. So, when the message is in, the
  context stands at its end, and `Md5Digests` and `ShaDigests` show that the blocks
  that are then made in the buffer, one or two, are the last of the text
  (`EndsHere`, `EndsNext`). Reset puts a context at the start of any text,
  whatever it was used for (`ResetTakes`).
- Checksums (`ChecksumsContinue`). A shift is linear (`ShiftedSum`), and
  it is injective because the polynomial has the highest bit, which the shift
  itself leaves clear (`ShiftedInjective`). A byte of the message is eight shifts of the
  sum with that byte added (`CRCByteIsEight`, where the table comes in), so two sums that
  differ go on differing until the end (`SumsDiffer`).

The assumptions in all of them are those of the modules: capacities and lengths
are naturals, defaults are not zero, markers are not client values.

Only model-checked:

- the liveness part of `ImplementsSuspension` and `WindowsImplementsSuspension`
  (a thread whose count is zero or lower wakes up) and of `WaitAnswers`, since
  they rest on fairness;
- `TextsCorrect` and `FormatsCorrect`. Their modules are recursive in the way
  the code is, and recursive operators are out of the prover's reach.

## 5. Where the code disagrees with what it says

Each of these is a run that TLC ends with a counterexample.

1. `queue.c:352`: SetCapacity copies from the write index. A queue that is
   neither empty nor full loses its contents when it is resized.
2. `hashmap.c:68`: the iterator of a new map stands in bucket 0 as if it were
   exhausted, so the first loop skips that bucket.
3. `windows/thread.c:72`: TryLock waits for the library's mutex, which a Lock of
   a contended mutex (any mutex) holds while it waits (`windows/thread.c:64`).
   `thread.h:70` says that TryLock returns instantly.
4. `list.c:16`: a positive growth factor is taken as the new capacity. A longer
   list is cut to it, and the Add behind it writes outside the buffer. (A
   relative factor may round to no growth, with the same end: -2 at capacity 1.)
5. `linux/socket.c:636`: ready entries point to slots, and a slot that is
   reused makes an old event belong to a new socket.
6. `windows/thread.c:228`: Suspend counts and suspends in two steps. A Continue
   in between is lost, and the thread sleeps at a count of zero.

These are modelled too. The models' preconditions or properties name them, and
the properties hold outside of them:

- Collections. `queue.c:357`: every growth resets the growth factor to the
  default. `hashmap.c:291`: a rehash whose new map grows may abort; `hashmap.c:279`:
  one that fails frees keys and values the old map holds. `list.c:514`: items cut
  off are freed before a realloc that may fail. ListP's RemoveAt does not
  free an item in the middle (`list.h:32`). SetCapacity(0) of lists and stacks
  frees the buffer and reports XT_ENOMEM. `stack.h:4` says "First in first out".
- Threads. `linux/thread.c:158`: Join passes NULL to pthread_join and loses the
  exit value.
- Windows poll sets. SetEvent stores the system's flags (`windows/socket.c:707`);
  RemoveByIndex reads one element behind a full set and counts down for an index
  that is not there; Wait on an empty set leaves the old ready count (726).
- Windows mappings. The heap is never marked as initialised, and each Add empties
  it (`windows/mman.c:93`): a mapping made before the last one can neither be
  unmapped nor remapped. The search of the heap looks at one side of it. When the
  system refuses to unmap a view, the heap has already forgotten it (364).
  xtmremap, against its comment, drops the old mapping before it makes the new
  one, reads the old one's fields through a stale pointer, and aborts (443) after
  such a refusal or when another thread's xtmmap came in between.
- Copies. `windows/file.c:104` opens the target in text mode, so a copied line
  feed becomes a carriage return and a line feed: the copy is another file, and
  success is returned, where `file.h:92` speaks of a copied file. `CopyExact` leaves
  such sources out.
- Processes and files. xtProcWait reports a timeout up to 50 ms early, cannot
  tell a reused PID or a zombie from a process that runs, and on Windows never
  closes its handle. Windows GetPids and GetProcessCount drop the first process.
  A copy takes a read error for the end of the file, ignores the last flush, and
  leaves the tail of a longer target when called by handle.
- Texts. xtStringContains does not start again inside a partial match ("ab" in
  "aab"). TrimWords reads behind a text that ends in two blanks. FormatCommas
  leaves a separator out when the remaining value is 10, and FormatCommasLL
  returns a pointer behind the sign. FormatHex writes behind a buffer that is
  not a multiple of its group, FormatTimestamp and Base64Encode put a terminator
  one behind a full one. xtvsnprintf drops the precision of a rewritten
  directive, rewrites "%%I8d", and returns 0 for long formats. The Windows one drops
  widths; a %zu moves the rest of the format by two, which writes a byte behind
  the buffer (`windows/string/format.c:176`); a new text of exactly the buffer's
  size gets its terminator behind it (212). MemSplit gives one chunk too few on
  exact multiples, and NextPow2(0) is 0.
- Console. xtConsolePutString wraps at the console's width for a width
  of 0, where `os.h:123` says that it fails, counts the blanks of an alignment
  before a row goes back to its last space, and refuses a word that just fits.
- Time. xtCalendarGetGMTOffset on Windows (`windows/time.c:60-65`) receives the
  offset of a place west of Greenwich without its sign, although `time.h:89` says
  "This can be a negative value!". The value is uninitialised where the difference
  is taken the wrong way round: in the west while it is the day before there, in the
  east while it is the first of the next month or the same hour. `FormatsCorrect`
  claims the offset only at Greenwich and, by a full hour or more, east of it in
  one month.
- Error tables. XT_EBUSY's entry is labelled XT_EPIPE (its text is right).
  xtProcGetName leaves its descriptor open when it fails.
- Guard sizes below -1 make `linux/thread.c:104` report success without a thread.
- Ciphers and digests. Blowfish's decryption in CBC mode wraps for a length
  of 0. Serpent's key length is in bits. bcrypt's key length wraps at 256. Digest
  twice, or Update after Digest, without Reset gives no digest of anything.
- Sorting. Empty arrays break heap, quick, radix and selection sort; a radix
  sort of negative numbers, or near the top of the type, fails; quick sort of
  pointers leaks its pivot when memory runs out.

## 6. Plan

### Not modelled

Sockets beyond poll sets, error tables, system information, dynamic loading and
the rest of the terminal: one system call or table each, without state of the library's own.
Inside modelled components: names and IDs of threads and processes, /proc
parsing, protection flags, clocks, and the constants of ciphers and digests.
