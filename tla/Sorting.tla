------------------------------- MODULE Sorting ------------------------------
(***************************************************************************)
(* generic/sort.c.  An array is a function on 0 .. n - 1; its elements are *)
(* records whose key is the number, or what the comparison of xtSortP      *)
(* looks at, so that elements with equal keys can be told apart.  Ascend   *)
(* and descend, and the copies of the code for int, unsigned and arbitrary *)
(* elements, differ in the comparison only.                                *)
(***************************************************************************)
EXTENDS Machine

CONSTANT UnsignedSize  \* the number of values of an unsigned

K == 10

ASSUME SortingAssumption == UnsignedSize \in Nat \ {0} /\ UnsignedSize % K # 0

SortTypes == {"bubble", "heap", "insert", "quick", "select", "radix"}

Before(x, y, ascend) == IF ascend THEN x.key < y.key ELSE x.key > y.key

Size(a) == Cardinality(DOMAIN a)

Swap(a, i, j) == [a EXCEPT ![i] = a[j], ![j] = a[i]]
-----------------------------------------------------------------------------
\* Neighbours are put in order, from the first ones to those below n.
BubblePass(a, n, ascend) ==
  Rounds(LAMBDA i, c : IF Before(c[i], c[i - 1], ascend) THEN Swap(c, i - 1, i) ELSE c,
         a, n - 1)

\* A pass without a swap is the last.
Bubble(s, ascend) ==
  LET b == BubblePass(s.list, s.n, ascend)
  IN  IF s.swapped THEN [list |-> b, n |-> s.n - 1, swapped |-> b # s.list] ELSE s

BubbleSort(a, ascend) ==
  Rounds(LAMBDA k, s : Bubble(s, ascend),
         [list |-> a, n |-> Size(a), swapped |-> TRUE], Size(a)).list

\* Mutant: the right child of a node is never looked at.
SiftLeft(s, p, high, ascend) ==
  LET q == 2 * s.low + 1
  IN  IF q < high /\ Before(p, s.list[q], ascend)
      THEN [list |-> [s.list EXCEPT ![s.low] = s.list[q]], low |-> q]
      ELSE s

\* The larger child of low comes up unless p belongs before it.
Sift(s, p, high, ascend) ==
  LET left == 2 * s.low + 1
      q == IF left # high - 1 /\ Before(s.list[left], s.list[left + 1], ascend)
           THEN left + 1 ELSE left
  IN  IF left < high /\ Before(p, s.list[q], ascend)
      THEN [list |-> [s.list EXCEPT ![s.low] = s.list[q]], low |-> q]
      ELSE s

\* The element at low goes down to its place below high; low grows in every
\* round.
Percolate(a, low, high, ascend) ==
  LET s == Rounds(LAMBDA k, t : Sift(t, a[low], high, ascend), [list |-> a, low |-> low], high)
  IN  [s.list EXCEPT ![s.low] = a[low]]

\* A heap is made from the last parent to the first; then its top changes
\* places with the element behind it.
Parents(n) == n \div 2 + 1

MakeHeap(a, n, ascend) ==
  Rounds(LAMBDA k, c : Percolate(c, Parents(n) - k, n, ascend), a, Parents(n))

HeapSort(a, ascend) ==
  LET n == Size(a)
  IN  Rounds(LAMBDA k, c : Percolate(Swap(c, 0, n - k), 0, n - k, ascend),
             MakeHeap(a, n, ascend), n - 1)

\* The element at j changes places with those before it that it belongs before.
Sink(s, ascend) ==
  IF s.j > 0 /\ Before(s.list[s.j], s.list[s.j - 1], ascend)
  THEN [list |-> Swap(s.list, s.j, s.j - 1), j |-> s.j - 1]
  ELSE s

Insert(a, i, ascend) ==
  Rounds(LAMBDA k, s : Sink(s, ascend), [list |-> a, j |-> i], i).list

InsertionSort(a, ascend) ==
  Rounds(LAMBDA i, c : Insert(c, i, ascend), a, Size(a) - 1)

\* The first of the elements from j on that no other one comes before.
Best(a, j, ascend) ==
  Rounds(LAMBDA k, m : IF Before(a[j + k], a[m], ascend) THEN j + k ELSE m,
         j, Size(a) - 1 - j)

SelectionSort(a, ascend) ==
  Rounds(LAMBDA k, c : Swap(c, Best(c, k - 1, ascend), k - 1), a, Size(a) - 1)

\* The scans for the next element from i upwards, and from j downwards, that
\* is on the wrong side of the pivot.
ScanUp(a, i, pivot, ascend) ==
  CHOOSE x \in i .. Size(a) - 1 :
    ~Before(a[x], pivot, ascend) /\ \A y \in i .. x - 1 : Before(a[y], pivot, ascend)

ScanDown(a, j, pivot, ascend) ==
  CHOOSE x \in 0 .. j :
    ~Before(pivot, a[x], ascend) /\ \A y \in x + 1 .. j : Before(pivot, a[y], ascend)

Part(s, pivot, ascend) ==
  LET up == ScanUp(s.list, s.i, pivot, ascend)
      down == ScanDown(s.list, s.j, pivot, ascend)
  IN  IF s.i > s.j THEN s
      ELSE IF up <= down THEN [list |-> Swap(s.list, up, down), i |-> up + 1, j |-> down - 1]
      ELSE [list |-> s.list, i |-> up, j |-> down]

\* The loop that splits low .. high at the pivot: i and j approach each other.
Split(a, low, high, ascend) ==
  Rounds(LAMBDA k, s : Part(s, a[low + (high - low) \div 2], ascend),
         [list |-> a, i |-> low, j |-> high], Size(a))

\* One call, where quick answers the calls it makes.  Each allocates two
\* buffers; memory is how often that still works.  A call that finds none ends
\* those that wait for it.
QuickCall(call, quick, ascend) ==
  LET s == Split(call.list, call.low, call.high, ascend)
      left == IF call.low < s.j
              THEN quick[[list |-> s.list, low |-> call.low, high |-> s.j,
                          memory |-> call.memory - 1]]
              ELSE [list |-> s.list, memory |-> call.memory - 1, ret |-> "ok"]
  IN  IF call.memory = 0 THEN [list |-> call.list, memory |-> 0, ret |-> "XT_ENOMEM"]
      ELSE IF s.i < call.high /\ left.ret = "ok"
      THEN quick[[list |-> left.list, low |-> s.i, high |-> call.high, memory |-> left.memory]]
      ELSE left

\* The calls of a sort: on ranges of an array with the elements of a.
Calls(a) ==
  {c \in [list : [DOMAIN a -> {a[i] : i \in DOMAIN a}], low : DOMAIN a, high : DOMAIN a,
          memory : Int] : c.low <= c.high}

\* Calls are nested less deep than the array is long.
Quick(a, ascend, memory) ==
  Rounds(LAMBDA depth, quick : [c \in Calls(a) |-> QuickCall(c, quick, ascend)],
         [c \in Calls(a) |-> [list |-> c.list, memory |-> c.memory, ret |-> "ok"]],
         Size(a))[[list |-> a, low |-> 0, high |-> Size(a) - 1, memory |-> memory]]

Digit(x, exp) == (x.key \div exp) % K

\* Counting sort by a digit: elements with the same digit keep their order.
RadixPass(a, exp) ==
  LET place(i) == Cardinality({j \in DOMAIN a :
                    \/ Digit(a[j], exp) < Digit(a[i], exp)
                    \/ Digit(a[j], exp) = Digit(a[i], exp) /\ j < i})
  IN  [p \in DOMAIN a |-> a[CHOOSE i \in DOMAIN a : place(i) = p]]

RadixRound(s, m) ==
  IF m \div s.exp > 0
  THEN [list |-> RadixPass(s.list, s.exp), exp |-> (s.exp * K) % UnsignedSize]
  ELSE s

Largest(a) ==
  Rounds(LAMBDA i, m : IF a[i].key > m THEN a[i].key ELSE m, a[0].key, Size(a) - 1)

\* A number has fewer digits than its value.
RadixSort(a, ascend) ==
  LET m == Largest(a)
      b == Rounds(LAMBDA k, s : RadixRound(s, m), [list |-> a, exp |-> 1], m).list
  IN  IF ascend THEN b ELSE [i \in DOMAIN a |-> b[Size(a) - 1 - i]]
-----------------------------------------------------------------------------
NoLimit == -1

Done(a) == [list |-> a, ret |-> "ok"]

NoMemory(a) == [list |-> a, ret |-> "XT_ENOMEM"]

\* xtSortD and xtSortU: only the radix sort of numbers allocates.
SortNumbers(a, type, ascend, memory) ==
  CASE type = "bubble" -> Done(BubbleSort(a, ascend))
    [] type = "heap" -> Done(HeapSort(a, ascend))
    [] type = "insert" -> Done(InsertionSort(a, ascend))
    [] type = "quick" -> Done(Quick(a, ascend, NoLimit).list)
    [] type = "select" -> Done(SelectionSort(a, ascend))
    [] type = "radix" -> IF memory = 0 THEN NoMemory(a) ELSE Done(RadixSort(a, ascend))

\* xtSortP and, with strcmp, xtSortStr.  The other sorts allocate one buffer.
SortPointers(a, type, ascend, memory) ==
  CASE type = "radix" -> [list |-> a, ret |-> "XT_EOPNOTSUPP"]
    [] type = "quick" ->
         LET q == Quick(a, ascend, memory)
         IN  [list |-> q.list, ret |-> q.ret]
    [] OTHER -> IF memory = 0 THEN NoMemory(a) ELSE SortNumbers(a, type, ascend, memory)

\* The code has no answer to an empty array: heap sort, quick sort and radix
\* sort read its first element and selection sort runs behind it.  A radix
\* sort takes no negative number, and exp must not overflow.
Sortable(a, type) ==
  /\ Size(a) > 0
  /\ type = "radix" => \A i \in DOMAIN a : a[i].key \in 0 .. UnsignedSize \div K

\* sort.h: the array becomes an ordered permutation of itself; a sort that
\* cannot allocate may stop in the middle and still loses no element.
SortedBy(a, r, ascend) ==
  /\ DOMAIN r.list = DOMAIN a
  /\ \A x \in {a[i] : i \in DOMAIN a} :
       Cardinality({i \in DOMAIN a : a[i] = x}) = Cardinality({i \in DOMAIN a : r.list[i] = x})
  /\ r.ret = "ok" => \A i, j \in DOMAIN a : i < j => ~Before(r.list[j], r.list[i], ascend)
=============================================================================
