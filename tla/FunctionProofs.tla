-------------------------- MODULE FunctionProofs ---------------------------
(***************************************************************************)
(* Sorting is right for every array: the six algorithms of sort.c return   *)
(* the elements they are given in the order that is asked for, whatever    *)
(* the length and the numbers (SortsSort).                                 *)
(*                                                                         *)
(* Every loop of Sorting is a Rounds, a recursive function of the number   *)
(* of rounds.  LoopExists says that there is one, LoopInvariant is the     *)
(* rule for what its rounds preserve; one rule for each loop follows       *)
(* (BubblePassRule and after), where S[n] is the set of states that the    *)
(* loop may be in after n rounds.  A proof about a loop is then a choice   *)
(* of S, the loop's invariant, and a proof that a round leads from S[n] to *)
(* S[n + 1].                                                               *)
(***************************************************************************)
EXTENDS PureFunctions, FiniteSetTheorems, WellFoundedInduction, TLAPS
-----------------------------------------------------------------------------
\* A set of natural numbers has a least one.
LEMMA LeastOf ==
  ASSUME NEW T, T \subseteq Nat, T # {}
  PROVE  \E x \in T : \A y \in T : x <= y
  <1> DEFINE R == OpToRel(<, Nat)
  <1>1. IsWellFoundedOn(R, Nat)
    BY NatLessThanWellFounded
  <1>2. \A x \in Nat : \A y \in Nat : y < x => <<y, x>> \in R
    BY DEF OpToRel
  <1> HIDE DEF R
  <1>3. PICK x \in T : \A y \in T : ~ (<<y, x>> \in R)
    BY <1>1, WFMin
  <1>4. \A y \in T : x \in Nat /\ y \in Nat /\ ~ (y < x)
    BY <1>2, <1>3
  <1>5. \A y \in T : x <= y
    BY <1>4
  <1> QED
    BY <1>5

\* Induction over the natural numbers, for a set rather than a predicate.
LEMMA Induction ==
  ASSUME NEW T, T \subseteq Nat, 0 \in T, \A n \in T : n + 1 \in T
  PROVE  T = Nat
  <1> DEFINE M == Nat \ T
  <1> SUFFICES ASSUME M # {}
               PROVE  FALSE
    OBVIOUS
  <1>1. PICK x \in M : \A y \in M : x <= y
    <2>1. M \subseteq Nat
      OBVIOUS
    <2> HIDE DEF M
    <2> QED
      BY <2>1, LeastOf
  <1>2. x \in Nat /\ x # 0 /\ x \notin T
    BY <1>1
  <1>3. x - 1 \in Nat /\ x - 1 \notin M
    BY <1>1, <1>2
  <1>4. (x - 1) + 1 \in T
    BY <1>3
  <1>5. (x - 1) + 1 = x
    BY <1>2
  <1> QED
    BY <1>2, <1>4, <1>5

\* A loop as a function of the number of rounds it has run.
IsLoop(f, first, next) == f[0] = first /\ \A n \in Nat : f[n + 1] = next[n + 1][f[n]]

\* The function a loop is.
LoopOf(first, next) == CHOOSE f : IsLoop(f, first, next)

\* There is such a function.
LEMMA LoopSteps ==
  ASSUME NEW first, NEW next
  PROVE  IsLoop(LoopOf(first, next), first, next)
  <1> DEFINE Good(n, g) == g[0] = first /\ \A k \in Nat : k < n => g[k + 1] = next[k + 1][g[k]]
             T == {n \in Nat : \E g : Good(n, g)}
  <1>1. 0 \in T
    <2> DEFINE g == [k \in Nat |-> first]
    <2>1. g[0] = first /\ \A k \in Nat : ~ (k < 0)
      OBVIOUS
    <2>2. Good(0, g)
      BY <2>1
    <2> HIDE DEF Good
    <2> QED
      BY <2>2
  <1>2. ASSUME NEW n \in T PROVE n + 1 \in T
    <2>1. n \in Nat /\ \E g : Good(n, g)
      BY <1>2
    <2>2. PICK g : Good(n, g)
      BY <2>1
    <2> DEFINE h == [k \in Nat |-> IF k = n + 1 THEN next[n + 1][g[n]] ELSE g[k]]
    <2>3. h[0] = first
      BY <2>1, <2>2
    <2>4. ASSUME NEW k \in Nat, k < n + 1 PROVE h[k + 1] = next[k + 1][h[k]]
      <3>1. h[k] = g[k] /\ k # n + 1
        BY <2>1, <2>4
      <3>2. CASE k = n
        BY <2>1, <3>1, <3>2
      <3>3. CASE k # n
        <4>1. k < n /\ k + 1 # n + 1 /\ k + 1 \in Nat
          BY <2>1, <2>4, <3>3
        <4>2. g[k + 1] = next[k + 1][g[k]] /\ h[k + 1] = g[k + 1]
          BY <2>2, <4>1
        <4> QED
          BY <3>1, <4>2
      <3> QED
        BY <3>2, <3>3
    <2> HIDE DEF h
    <2>5. Good(n + 1, h)
      BY <2>3, <2>4
    <2>6. n + 1 \in Nat
      BY <2>1
    <2> HIDE DEF Good
    <2> QED
      BY <2>5, <2>6
  <1>3. T = Nat
    <2>1. T \subseteq Nat
      OBVIOUS
    <2> HIDE DEF T
    <2> QED
      BY <1>1, <1>2, <2>1, Induction
  <1> DEFINE G(n) == CHOOSE g : Good(n, g)
             f == [k \in Nat |-> G(k)[k]]
  <1>4. \A n \in Nat : Good(n, G(n))
    <2> HIDE DEF Good
    <2> QED
      BY <1>3
  <1> HIDE DEF G
  \* Two functions that are good up to n agree up to n.
  <1>5. ASSUME NEW g, NEW h, NEW p \in Nat, NEW q \in Nat, Good(p, g), Good(q, h)
        PROVE  \A n \in Nat : n <= p /\ n <= q => g[n] = h[n]
    <2> DEFINE U == {n \in Nat : n <= p /\ n <= q => g[n] = h[n]}
    <2>1. 0 \in U
      BY <1>5
    <2>2. ASSUME NEW n \in U PROVE n + 1 \in U
      <3>1. n \in Nat /\ (n <= p /\ n <= q => g[n] = h[n])
        BY <2>2
      <3>2. ASSUME n + 1 <= p, n + 1 <= q PROVE g[n + 1] = h[n + 1]
        <4>1. n < p /\ n < q /\ g[n] = h[n]
          BY <3>1, <3>2
        <4>2. g[n + 1] = next[n + 1][g[n]] /\ h[n + 1] = next[n + 1][h[n]]
          BY <1>5, <3>1, <4>1
        <4> QED
          BY <4>1, <4>2
      <3> QED
        BY <3>1, <3>2
    <2>3. U = Nat
      <3>1. U \subseteq Nat
        OBVIOUS
      <3> HIDE DEF U
      <3> QED
        BY <2>1, <2>2, <3>1, Induction
    <2> QED
      BY <2>3
  <1>6. f[0] = first
    BY <1>4
  <1>7. ASSUME NEW k \in Nat, k # 0 PROVE f[k] = next[k][f[k - 1]]
    <2>1. k - 1 \in Nat /\ k - 1 < k /\ k - 1 <= k /\ (k - 1) + 1 = k
      BY <1>7
    <2>2. Good(k, G(k)) /\ Good(k - 1, G(k - 1)) /\ f[k] = G(k)[k] /\ f[k - 1] = G(k - 1)[k - 1]
      BY <1>4, <2>1
    <2>3. G(k)[k] = next[k][G(k)[k - 1]]
      BY <2>1, <2>2
    <2> HIDE DEF Good, f
    <2>4. G(k)[k - 1] = G(k - 1)[k - 1]
      BY <1>5, <2>1, <2>2
    <2> QED
      BY <2>2, <2>3, <2>4
  <1> HIDE DEF f
  <1>8. ASSUME NEW n \in Nat PROVE f[n + 1] = next[n + 1][f[n]]
    <2>1. n + 1 \in Nat /\ n + 1 # 0 /\ (n + 1) - 1 = n
      OBVIOUS
    <2> QED
      BY <1>7, <2>1
  <1>9. IsLoop(f, first, next)
    BY <1>6, <1>8 DEF IsLoop
  <1> QED
    BY <1>9 DEF LoopOf

\* What holds at the start of a loop and is kept by its rounds holds after any
\* number of them.
LEMMA LoopInvariant ==
  ASSUME NEW S, NEW f, NEW k \in Nat, f[0] \in S[0],
         \A n \in 0 .. k - 1 : f[n] \in S[n] => f[n + 1] \in S[n + 1]
  PROVE  \A n \in 0 .. k : f[n] \in S[n]
  <1> DEFINE T == {n \in Nat : n <= k => f[n] \in S[n]}
  <1>1. T \subseteq Nat /\ 0 \in T /\ \A n \in T : n + 1 \in T
    OBVIOUS
  <1> HIDE DEF T
  <1>2. T = Nat
    BY <1>1, Induction
  <1> QED
    BY <1>2 DEF T

\* The k rounds of a loop, as a function of their number, that go through the
\* sets S.
Goes(h, first, next, S, k) ==
  /\ h = [n \in 0 .. k |-> h[n]]
  /\ h[0] = first
  /\ \A n \in 0 .. k - 1 : h[n] \in S[n] /\ h[n + 1] = next[n + 1][h[n]]

\* A loop goes through the sets S if each of its rounds leads from one of them
\* to the next.
LEMMA LoopExists ==
  ASSUME NEW first, NEW next, NEW S, NEW k \in Nat, first \in S[0],
         \A n \in 0 .. k - 1 : \A s \in S[n] : next[n + 1][s] \in S[n + 1]
  PROVE  \E h : Goes(h, first, next, S, k)
  <1> DEFINE g == LoopOf(first, next)
  <1>1. g[0] = first /\ \A n \in Nat : g[n + 1] = next[n + 1][g[n]]
    <2>1. IsLoop(LoopOf(first, next), first, next)
      BY LoopSteps
    <2> QED
      BY <2>1 DEF IsLoop
  <1> HIDE DEF g
  <1>2. \A n \in 0 .. k - 1 : g[n] \in S[n] => g[n + 1] \in S[n + 1]
    BY <1>1
  <1>3. \A n \in 0 .. k : g[n] \in S[n]
    BY <1>1, <1>2, LoopInvariant
  <1> DEFINE h == [n \in 0 .. k |-> g[n]]
  <1>4. Goes(h, first, next, S, k)
    <2>1. 0 \in 0 .. k /\ \A n \in 0 .. k - 1 : n \in Nat /\ n \in 0 .. k /\ n + 1 \in 0 .. k
      OBVIOUS
    <2> QED
      BY <1>1, <1>3, <2>1 DEF Goes
  <1> HIDE DEF h
  <1> QED
    BY <1>4

\* Counting the rounds from 0 or from 1.
LEMMA RoundBefore ==
  ASSUME NEW k \in Nat
  PROVE  /\ \A n \in 0 .. k - 1 : n + 1 \in Nat /\ (n + 1) - 1 = n
         /\ \A n \in 0 .. k : n # 0 => n - 1 \in 0 .. k - 1 /\ (n - 1) + 1 = n
  OBVIOUS

LEMMA RoundAfter ==
  ASSUME NEW k \in Nat
  PROVE  /\ 0 \in 0 .. k /\ k \in 0 .. k
         /\ \A n \in 0 .. k - 1 : n + 1 \in 0 .. k /\ n + 1 # 0 /\ (n + 1) - 1 = n
  OBVIOUS
-----------------------------------------------------------------------------
\* Whatever set S[n] holds the state after n rounds, the loop of a pass ends in
\* the last of them.  The rules below say the same of the other loops.
LEMMA BubblePassRule ==
  ASSUME NEW a, NEW n0, NEW ascend, n0 - 1 \in Nat, NEW S,
         a \in S[0],
         \A n \in 0 .. n0 - 1 - 1 : \A s \in S[n] :
           (IF Before(s[n + 1], s[n + 1 - 1], ascend) THEN Swap(s, n + 1 - 1, n + 1) ELSE s) \in S[n + 1]
  PROVE  BubblePass(a, n0, ascend) \in S[n0 - 1]
  <1> DEFINE k == n0 - 1
             first == a
             Body(n, s) == (IF Before(s[n], s[n - 1], ascend) THEN Swap(s, n - 1, n) ELSE s)
             Turn(f) == [n \in 0 .. k |-> IF n = 0 THEN first ELSE Body(n, f[n - 1])]
             after == CHOOSE f : f = Turn(f)
             next == [n \in Nat |-> [s \in S[n - 1] |-> Body(n, s)]]
  <1>1. BubblePass(a, n0, ascend) = after[k]
    BY DEF BubblePass, Rounds
  <1>2. k \in Nat /\ first \in S[0] /\ \A n \in 0 .. k - 1 : \A s \in S[n] : Body(n + 1, s) \in S[n + 1]
    OBVIOUS
  <1> HIDE DEF Body, after, k, first
  <1>3. \A n \in 0 .. k - 1 : \A s \in S[n] : next[n + 1][s] = Body(n + 1, s)
    BY <1>2, RoundBefore
  <1> HIDE DEF next, Turn
  <1>4. \A n \in 0 .. k - 1 : \A s \in S[n] : next[n + 1][s] \in S[n + 1]
    BY <1>2, <1>3
  <1>5. PICK h : Goes(h, first, next, S, k)
    BY <1>2, <1>4, LoopExists
  <1>6. \A n \in 0 .. k - 1 : h[n + 1] = Body(n + 1, h[n])
    BY <1>3, <1>5 DEF Goes
  <1>7. \A n \in 0 .. k : h[n] = IF n = 0 THEN first ELSE Body(n, h[n - 1])
    BY <1>2, <1>5, <1>6, RoundBefore DEF Goes
  <1>8. h = Turn(h)
    BY <1>5, <1>7 DEF Goes, Turn
  <1>9. after = Turn(after)
    BY <1>8 DEF after
  <1>10. \A n \in 0 .. k : after[n] = IF n = 0 THEN first ELSE Body(n, after[n - 1])
    BY <1>9 DEF Turn
  <1>11. after[0] = first /\ \A n \in 0 .. k - 1 : after[n + 1] = Body(n + 1, after[n])
    BY <1>2, <1>10, RoundAfter
  <1>12. \A n \in 0 .. k : after[n] \in S[n]
    BY <1>2, <1>11, LoopInvariant
  <1>13. after[k] \in S[k] /\ k = n0 - 1
    BY <1>2, <1>12, RoundAfter DEF k
  <1> QED
    BY <1>1, <1>13

\* The loop over the passes.
LEMMA BubbleSortRule ==
  ASSUME NEW a, NEW ascend, Size(a) \in Nat, NEW S,
         [list |-> a, n |-> Size(a), swapped |-> TRUE] \in S[0],
         \A n \in 0 .. Size(a) - 1 : \A s \in S[n] :
           Bubble(s, ascend) \in S[n + 1]
  PROVE  \E r \in S[Size(a)] : BubbleSort(a, ascend) = r.list
  <1> DEFINE k == Size(a)
             first == [list |-> a, n |-> Size(a), swapped |-> TRUE]
             Body(n, s) == Bubble(s, ascend)
             Turn(f) == [n \in 0 .. k |-> IF n = 0 THEN first ELSE Body(n, f[n - 1])]
             after == CHOOSE f : f = Turn(f)
             next == [n \in Nat |-> [s \in S[n - 1] |-> Body(n, s)]]
  <1>1. BubbleSort(a, ascend) = after[k].list
    BY DEF BubbleSort, Rounds
  <1>2. k \in Nat /\ first \in S[0] /\ \A n \in 0 .. k - 1 : \A s \in S[n] : Body(n + 1, s) \in S[n + 1]
    OBVIOUS
  <1> HIDE DEF Body, after, k, first
  <1>3. \A n \in 0 .. k - 1 : \A s \in S[n] : next[n + 1][s] = Body(n + 1, s)
    BY <1>2, RoundBefore
  <1> HIDE DEF next, Turn
  <1>4. \A n \in 0 .. k - 1 : \A s \in S[n] : next[n + 1][s] \in S[n + 1]
    BY <1>2, <1>3
  <1>5. PICK h : Goes(h, first, next, S, k)
    BY <1>2, <1>4, LoopExists
  <1>6. \A n \in 0 .. k - 1 : h[n + 1] = Body(n + 1, h[n])
    BY <1>3, <1>5 DEF Goes
  <1>7. \A n \in 0 .. k : h[n] = IF n = 0 THEN first ELSE Body(n, h[n - 1])
    BY <1>2, <1>5, <1>6, RoundBefore DEF Goes
  <1>8. h = Turn(h)
    BY <1>5, <1>7 DEF Goes, Turn
  <1>9. after = Turn(after)
    BY <1>8 DEF after
  <1>10. \A n \in 0 .. k : after[n] = IF n = 0 THEN first ELSE Body(n, after[n - 1])
    BY <1>9 DEF Turn
  <1>11. after[0] = first /\ \A n \in 0 .. k - 1 : after[n + 1] = Body(n + 1, after[n])
    BY <1>2, <1>10, RoundAfter
  <1>12. \A n \in 0 .. k : after[n] \in S[n]
    BY <1>2, <1>11, LoopInvariant
  <1>13. after[k] \in S[k] /\ k = Size(a)
    BY <1>2, <1>12, RoundAfter DEF k
  <1> QED
    BY <1>1, <1>13

\* The loop that lets an element go down.
LEMMA PercolateRule ==
  ASSUME NEW a, NEW low, NEW high, NEW ascend, high \in Nat, NEW S,
         [list |-> a, low |-> low] \in S[0],
         \A n \in 0 .. high - 1 : \A s \in S[n] :
           Sift(s, a[low], high, ascend) \in S[n + 1]
  PROVE  \E r \in S[high] : Percolate(a, low, high, ascend) = [r.list EXCEPT ![r.low] = a[low]]
  <1> DEFINE k == high
             first == [list |-> a, low |-> low]
             Body(n, s) == Sift(s, a[low], high, ascend)
             Turn(f) == [n \in 0 .. k |-> IF n = 0 THEN first ELSE Body(n, f[n - 1])]
             after == CHOOSE f : f = Turn(f)
             next == [n \in Nat |-> [s \in S[n - 1] |-> Body(n, s)]]
  <1>1. Percolate(a, low, high, ascend) = [after[k].list EXCEPT ![after[k].low] = a[low]]
    BY DEF Percolate, Rounds
  <1>2. k \in Nat /\ first \in S[0] /\ \A n \in 0 .. k - 1 : \A s \in S[n] : Body(n + 1, s) \in S[n + 1]
    OBVIOUS
  <1> HIDE DEF Body, after, k, first
  <1>3. \A n \in 0 .. k - 1 : \A s \in S[n] : next[n + 1][s] = Body(n + 1, s)
    BY <1>2, RoundBefore
  <1> HIDE DEF next, Turn
  <1>4. \A n \in 0 .. k - 1 : \A s \in S[n] : next[n + 1][s] \in S[n + 1]
    BY <1>2, <1>3
  <1>5. PICK h : Goes(h, first, next, S, k)
    BY <1>2, <1>4, LoopExists
  <1>6. \A n \in 0 .. k - 1 : h[n + 1] = Body(n + 1, h[n])
    BY <1>3, <1>5 DEF Goes
  <1>7. \A n \in 0 .. k : h[n] = IF n = 0 THEN first ELSE Body(n, h[n - 1])
    BY <1>2, <1>5, <1>6, RoundBefore DEF Goes
  <1>8. h = Turn(h)
    BY <1>5, <1>7 DEF Goes, Turn
  <1>9. after = Turn(after)
    BY <1>8 DEF after
  <1>10. \A n \in 0 .. k : after[n] = IF n = 0 THEN first ELSE Body(n, after[n - 1])
    BY <1>9 DEF Turn
  <1>11. after[0] = first /\ \A n \in 0 .. k - 1 : after[n + 1] = Body(n + 1, after[n])
    BY <1>2, <1>10, RoundAfter
  <1>12. \A n \in 0 .. k : after[n] \in S[n]
    BY <1>2, <1>11, LoopInvariant
  <1>13. after[k] \in S[k] /\ k = high
    BY <1>2, <1>12, RoundAfter DEF k
  <1> QED
    BY <1>1, <1>13

\* The loop that makes a heap.
LEMMA MakeHeapRule ==
  ASSUME NEW a, NEW n0, NEW ascend, Parents(n0) \in Nat, NEW S,
         a \in S[0],
         \A n \in 0 .. Parents(n0) - 1 : \A s \in S[n] :
           Percolate(s, Parents(n0) - (n + 1), n0, ascend) \in S[n + 1]
  PROVE  MakeHeap(a, n0, ascend) \in S[Parents(n0)]
  <1> DEFINE k == Parents(n0)
             first == a
             Body(n, s) == Percolate(s, Parents(n0) - (n), n0, ascend)
             Turn(f) == [n \in 0 .. k |-> IF n = 0 THEN first ELSE Body(n, f[n - 1])]
             after == CHOOSE f : f = Turn(f)
             next == [n \in Nat |-> [s \in S[n - 1] |-> Body(n, s)]]
  <1>1. MakeHeap(a, n0, ascend) = after[k]
    BY DEF MakeHeap, Rounds
  <1>2. k \in Nat /\ first \in S[0] /\ \A n \in 0 .. k - 1 : \A s \in S[n] : Body(n + 1, s) \in S[n + 1]
    OBVIOUS
  <1> HIDE DEF Body, after, k, first
  <1>3. \A n \in 0 .. k - 1 : \A s \in S[n] : next[n + 1][s] = Body(n + 1, s)
    BY <1>2, RoundBefore
  <1> HIDE DEF next, Turn
  <1>4. \A n \in 0 .. k - 1 : \A s \in S[n] : next[n + 1][s] \in S[n + 1]
    BY <1>2, <1>3
  <1>5. PICK h : Goes(h, first, next, S, k)
    BY <1>2, <1>4, LoopExists
  <1>6. \A n \in 0 .. k - 1 : h[n + 1] = Body(n + 1, h[n])
    BY <1>3, <1>5 DEF Goes
  <1>7. \A n \in 0 .. k : h[n] = IF n = 0 THEN first ELSE Body(n, h[n - 1])
    BY <1>2, <1>5, <1>6, RoundBefore DEF Goes
  <1>8. h = Turn(h)
    BY <1>5, <1>7 DEF Goes, Turn
  <1>9. after = Turn(after)
    BY <1>8 DEF after
  <1>10. \A n \in 0 .. k : after[n] = IF n = 0 THEN first ELSE Body(n, after[n - 1])
    BY <1>9 DEF Turn
  <1>11. after[0] = first /\ \A n \in 0 .. k - 1 : after[n + 1] = Body(n + 1, after[n])
    BY <1>2, <1>10, RoundAfter
  <1>12. \A n \in 0 .. k : after[n] \in S[n]
    BY <1>2, <1>11, LoopInvariant
  <1>13. after[k] \in S[k] /\ k = Parents(n0)
    BY <1>2, <1>12, RoundAfter DEF k
  <1> QED
    BY <1>1, <1>13

\* The loop that takes a heap apart.
LEMMA HeapSortRule ==
  ASSUME NEW a, NEW ascend, Size(a) - 1 \in Nat, NEW S,
         MakeHeap(a, Size(a), ascend) \in S[0],
         \A n \in 0 .. Size(a) - 1 - 1 : \A s \in S[n] :
           Percolate(Swap(s, 0, Size(a) - (n + 1)), 0, Size(a) - (n + 1), ascend) \in S[n + 1]
  PROVE  HeapSort(a, ascend) \in S[Size(a) - 1]
  <1> DEFINE k == Size(a) - 1
             first == MakeHeap(a, Size(a), ascend)
             Body(n, s) == Percolate(Swap(s, 0, Size(a) - (n)), 0, Size(a) - (n), ascend)
             Turn(f) == [n \in 0 .. k |-> IF n = 0 THEN first ELSE Body(n, f[n - 1])]
             after == CHOOSE f : f = Turn(f)
             next == [n \in Nat |-> [s \in S[n - 1] |-> Body(n, s)]]
  <1>1. HeapSort(a, ascend) = after[k]
    BY DEF HeapSort, Rounds
  <1>2. k \in Nat /\ first \in S[0] /\ \A n \in 0 .. k - 1 : \A s \in S[n] : Body(n + 1, s) \in S[n + 1]
    OBVIOUS
  <1> HIDE DEF Body, after, k, first
  <1>3. \A n \in 0 .. k - 1 : \A s \in S[n] : next[n + 1][s] = Body(n + 1, s)
    BY <1>2, RoundBefore
  <1> HIDE DEF next, Turn
  <1>4. \A n \in 0 .. k - 1 : \A s \in S[n] : next[n + 1][s] \in S[n + 1]
    BY <1>2, <1>3
  <1>5. PICK h : Goes(h, first, next, S, k)
    BY <1>2, <1>4, LoopExists
  <1>6. \A n \in 0 .. k - 1 : h[n + 1] = Body(n + 1, h[n])
    BY <1>3, <1>5 DEF Goes
  <1>7. \A n \in 0 .. k : h[n] = IF n = 0 THEN first ELSE Body(n, h[n - 1])
    BY <1>2, <1>5, <1>6, RoundBefore DEF Goes
  <1>8. h = Turn(h)
    BY <1>5, <1>7 DEF Goes, Turn
  <1>9. after = Turn(after)
    BY <1>8 DEF after
  <1>10. \A n \in 0 .. k : after[n] = IF n = 0 THEN first ELSE Body(n, after[n - 1])
    BY <1>9 DEF Turn
  <1>11. after[0] = first /\ \A n \in 0 .. k - 1 : after[n + 1] = Body(n + 1, after[n])
    BY <1>2, <1>10, RoundAfter
  <1>12. \A n \in 0 .. k : after[n] \in S[n]
    BY <1>2, <1>11, LoopInvariant
  <1>13. after[k] \in S[k] /\ k = Size(a) - 1
    BY <1>2, <1>12, RoundAfter DEF k
  <1> QED
    BY <1>1, <1>13

\* The inner loop of insertion sort.
LEMMA InsertRule ==
  ASSUME NEW a, NEW i, NEW ascend, i \in Nat, NEW S,
         [list |-> a, j |-> i] \in S[0],
         \A n \in 0 .. i - 1 : \A s \in S[n] :
           Sink(s, ascend) \in S[n + 1]
  PROVE  \E r \in S[i] : Insert(a, i, ascend) = r.list
  <1> DEFINE k == i
             first == [list |-> a, j |-> i]
             Body(n, s) == Sink(s, ascend)
             Turn(f) == [n \in 0 .. k |-> IF n = 0 THEN first ELSE Body(n, f[n - 1])]
             after == CHOOSE f : f = Turn(f)
             next == [n \in Nat |-> [s \in S[n - 1] |-> Body(n, s)]]
  <1>1. Insert(a, i, ascend) = after[k].list
    BY DEF Insert, Rounds
  <1>2. k \in Nat /\ first \in S[0] /\ \A n \in 0 .. k - 1 : \A s \in S[n] : Body(n + 1, s) \in S[n + 1]
    OBVIOUS
  <1> HIDE DEF Body, after, k, first
  <1>3. \A n \in 0 .. k - 1 : \A s \in S[n] : next[n + 1][s] = Body(n + 1, s)
    BY <1>2, RoundBefore
  <1> HIDE DEF next, Turn
  <1>4. \A n \in 0 .. k - 1 : \A s \in S[n] : next[n + 1][s] \in S[n + 1]
    BY <1>2, <1>3
  <1>5. PICK h : Goes(h, first, next, S, k)
    BY <1>2, <1>4, LoopExists
  <1>6. \A n \in 0 .. k - 1 : h[n + 1] = Body(n + 1, h[n])
    BY <1>3, <1>5 DEF Goes
  <1>7. \A n \in 0 .. k : h[n] = IF n = 0 THEN first ELSE Body(n, h[n - 1])
    BY <1>2, <1>5, <1>6, RoundBefore DEF Goes
  <1>8. h = Turn(h)
    BY <1>5, <1>7 DEF Goes, Turn
  <1>9. after = Turn(after)
    BY <1>8 DEF after
  <1>10. \A n \in 0 .. k : after[n] = IF n = 0 THEN first ELSE Body(n, after[n - 1])
    BY <1>9 DEF Turn
  <1>11. after[0] = first /\ \A n \in 0 .. k - 1 : after[n + 1] = Body(n + 1, after[n])
    BY <1>2, <1>10, RoundAfter
  <1>12. \A n \in 0 .. k : after[n] \in S[n]
    BY <1>2, <1>11, LoopInvariant
  <1>13. after[k] \in S[k] /\ k = i
    BY <1>2, <1>12, RoundAfter DEF k
  <1> QED
    BY <1>1, <1>13

\* Its outer loop.
LEMMA InsertionSortRule ==
  ASSUME NEW a, NEW ascend, Size(a) - 1 \in Nat, NEW S,
         a \in S[0],
         \A n \in 0 .. Size(a) - 1 - 1 : \A s \in S[n] :
           Insert(s, n + 1, ascend) \in S[n + 1]
  PROVE  InsertionSort(a, ascend) \in S[Size(a) - 1]
  <1> DEFINE k == Size(a) - 1
             first == a
             Body(n, s) == Insert(s, n, ascend)
             Turn(f) == [n \in 0 .. k |-> IF n = 0 THEN first ELSE Body(n, f[n - 1])]
             after == CHOOSE f : f = Turn(f)
             next == [n \in Nat |-> [s \in S[n - 1] |-> Body(n, s)]]
  <1>1. InsertionSort(a, ascend) = after[k]
    BY DEF InsertionSort, Rounds
  <1>2. k \in Nat /\ first \in S[0] /\ \A n \in 0 .. k - 1 : \A s \in S[n] : Body(n + 1, s) \in S[n + 1]
    OBVIOUS
  <1> HIDE DEF Body, after, k, first
  <1>3. \A n \in 0 .. k - 1 : \A s \in S[n] : next[n + 1][s] = Body(n + 1, s)
    BY <1>2, RoundBefore
  <1> HIDE DEF next, Turn
  <1>4. \A n \in 0 .. k - 1 : \A s \in S[n] : next[n + 1][s] \in S[n + 1]
    BY <1>2, <1>3
  <1>5. PICK h : Goes(h, first, next, S, k)
    BY <1>2, <1>4, LoopExists
  <1>6. \A n \in 0 .. k - 1 : h[n + 1] = Body(n + 1, h[n])
    BY <1>3, <1>5 DEF Goes
  <1>7. \A n \in 0 .. k : h[n] = IF n = 0 THEN first ELSE Body(n, h[n - 1])
    BY <1>2, <1>5, <1>6, RoundBefore DEF Goes
  <1>8. h = Turn(h)
    BY <1>5, <1>7 DEF Goes, Turn
  <1>9. after = Turn(after)
    BY <1>8 DEF after
  <1>10. \A n \in 0 .. k : after[n] = IF n = 0 THEN first ELSE Body(n, after[n - 1])
    BY <1>9 DEF Turn
  <1>11. after[0] = first /\ \A n \in 0 .. k - 1 : after[n + 1] = Body(n + 1, after[n])
    BY <1>2, <1>10, RoundAfter
  <1>12. \A n \in 0 .. k : after[n] \in S[n]
    BY <1>2, <1>11, LoopInvariant
  <1>13. after[k] \in S[k] /\ k = Size(a) - 1
    BY <1>2, <1>12, RoundAfter DEF k
  <1> QED
    BY <1>1, <1>13

\* The inner loop of selection sort.
LEMMA BestRule ==
  ASSUME NEW a, NEW j, NEW ascend, Size(a) - 1 - j \in Nat, NEW S,
         j \in S[0],
         \A n \in 0 .. Size(a) - 1 - j - 1 : \A s \in S[n] :
           (IF Before(a[j + (n + 1)], a[s], ascend) THEN j + (n + 1) ELSE s) \in S[n + 1]
  PROVE  Best(a, j, ascend) \in S[Size(a) - 1 - j]
  <1> DEFINE k == Size(a) - 1 - j
             first == j
             Body(n, s) == (IF Before(a[j + (n)], a[s], ascend) THEN j + (n) ELSE s)
             Turn(f) == [n \in 0 .. k |-> IF n = 0 THEN first ELSE Body(n, f[n - 1])]
             after == CHOOSE f : f = Turn(f)
             next == [n \in Nat |-> [s \in S[n - 1] |-> Body(n, s)]]
  <1>1. Best(a, j, ascend) = after[k]
    BY DEF Best, Rounds
  <1>2. k \in Nat /\ first \in S[0] /\ \A n \in 0 .. k - 1 : \A s \in S[n] : Body(n + 1, s) \in S[n + 1]
    OBVIOUS
  <1> HIDE DEF Body, after, k, first
  <1>3. \A n \in 0 .. k - 1 : \A s \in S[n] : next[n + 1][s] = Body(n + 1, s)
    BY <1>2, RoundBefore
  <1> HIDE DEF next, Turn
  <1>4. \A n \in 0 .. k - 1 : \A s \in S[n] : next[n + 1][s] \in S[n + 1]
    BY <1>2, <1>3
  <1>5. PICK h : Goes(h, first, next, S, k)
    BY <1>2, <1>4, LoopExists
  <1>6. \A n \in 0 .. k - 1 : h[n + 1] = Body(n + 1, h[n])
    BY <1>3, <1>5 DEF Goes
  <1>7. \A n \in 0 .. k : h[n] = IF n = 0 THEN first ELSE Body(n, h[n - 1])
    BY <1>2, <1>5, <1>6, RoundBefore DEF Goes
  <1>8. h = Turn(h)
    BY <1>5, <1>7 DEF Goes, Turn
  <1>9. after = Turn(after)
    BY <1>8 DEF after
  <1>10. \A n \in 0 .. k : after[n] = IF n = 0 THEN first ELSE Body(n, after[n - 1])
    BY <1>9 DEF Turn
  <1>11. after[0] = first /\ \A n \in 0 .. k - 1 : after[n + 1] = Body(n + 1, after[n])
    BY <1>2, <1>10, RoundAfter
  <1>12. \A n \in 0 .. k : after[n] \in S[n]
    BY <1>2, <1>11, LoopInvariant
  <1>13. after[k] \in S[k] /\ k = Size(a) - 1 - j
    BY <1>2, <1>12, RoundAfter DEF k
  <1> QED
    BY <1>1, <1>13

\* Its outer loop.
LEMMA SelectionSortRule ==
  ASSUME NEW a, NEW ascend, Size(a) - 1 \in Nat, NEW S,
         a \in S[0],
         \A n \in 0 .. Size(a) - 1 - 1 : \A s \in S[n] :
           Swap(s, Best(s, n + 1 - 1, ascend), n + 1 - 1) \in S[n + 1]
  PROVE  SelectionSort(a, ascend) \in S[Size(a) - 1]
  <1> DEFINE k == Size(a) - 1
             first == a
             Body(n, s) == Swap(s, Best(s, n - 1, ascend), n - 1)
             Turn(f) == [n \in 0 .. k |-> IF n = 0 THEN first ELSE Body(n, f[n - 1])]
             after == CHOOSE f : f = Turn(f)
             next == [n \in Nat |-> [s \in S[n - 1] |-> Body(n, s)]]
  <1>1. SelectionSort(a, ascend) = after[k]
    BY DEF SelectionSort, Rounds
  <1>2. k \in Nat /\ first \in S[0] /\ \A n \in 0 .. k - 1 : \A s \in S[n] : Body(n + 1, s) \in S[n + 1]
    OBVIOUS
  <1> HIDE DEF Body, after, k, first
  <1>3. \A n \in 0 .. k - 1 : \A s \in S[n] : next[n + 1][s] = Body(n + 1, s)
    BY <1>2, RoundBefore
  <1> HIDE DEF next, Turn
  <1>4. \A n \in 0 .. k - 1 : \A s \in S[n] : next[n + 1][s] \in S[n + 1]
    BY <1>2, <1>3
  <1>5. PICK h : Goes(h, first, next, S, k)
    BY <1>2, <1>4, LoopExists
  <1>6. \A n \in 0 .. k - 1 : h[n + 1] = Body(n + 1, h[n])
    BY <1>3, <1>5 DEF Goes
  <1>7. \A n \in 0 .. k : h[n] = IF n = 0 THEN first ELSE Body(n, h[n - 1])
    BY <1>2, <1>5, <1>6, RoundBefore DEF Goes
  <1>8. h = Turn(h)
    BY <1>5, <1>7 DEF Goes, Turn
  <1>9. after = Turn(after)
    BY <1>8 DEF after
  <1>10. \A n \in 0 .. k : after[n] = IF n = 0 THEN first ELSE Body(n, after[n - 1])
    BY <1>9 DEF Turn
  <1>11. after[0] = first /\ \A n \in 0 .. k - 1 : after[n + 1] = Body(n + 1, after[n])
    BY <1>2, <1>10, RoundAfter
  <1>12. \A n \in 0 .. k : after[n] \in S[n]
    BY <1>2, <1>11, LoopInvariant
  <1>13. after[k] \in S[k] /\ k = Size(a) - 1
    BY <1>2, <1>12, RoundAfter DEF k
  <1> QED
    BY <1>1, <1>13

\* The loop that splits a range at its pivot.
LEMMA SplitRule ==
  ASSUME NEW a, NEW low, NEW high, NEW ascend, Size(a) \in Nat, NEW S,
         [list |-> a, i |-> low, j |-> high] \in S[0],
         \A n \in 0 .. Size(a) - 1 : \A s \in S[n] :
           Part(s, a[low + (high - low) \div 2], ascend) \in S[n + 1]
  PROVE  Split(a, low, high, ascend) \in S[Size(a)]
  <1> DEFINE k == Size(a)
             first == [list |-> a, i |-> low, j |-> high]
             Body(n, s) == Part(s, a[low + (high - low) \div 2], ascend)
             Turn(f) == [n \in 0 .. k |-> IF n = 0 THEN first ELSE Body(n, f[n - 1])]
             after == CHOOSE f : f = Turn(f)
             next == [n \in Nat |-> [s \in S[n - 1] |-> Body(n, s)]]
  <1>1. Split(a, low, high, ascend) = after[k]
    BY DEF Split, Rounds
  <1>2. k \in Nat /\ first \in S[0] /\ \A n \in 0 .. k - 1 : \A s \in S[n] : Body(n + 1, s) \in S[n + 1]
    OBVIOUS
  <1> HIDE DEF Body, after, k, first
  <1>3. \A n \in 0 .. k - 1 : \A s \in S[n] : next[n + 1][s] = Body(n + 1, s)
    BY <1>2, RoundBefore
  <1> HIDE DEF next, Turn
  <1>4. \A n \in 0 .. k - 1 : \A s \in S[n] : next[n + 1][s] \in S[n + 1]
    BY <1>2, <1>3
  <1>5. PICK h : Goes(h, first, next, S, k)
    BY <1>2, <1>4, LoopExists
  <1>6. \A n \in 0 .. k - 1 : h[n + 1] = Body(n + 1, h[n])
    BY <1>3, <1>5 DEF Goes
  <1>7. \A n \in 0 .. k : h[n] = IF n = 0 THEN first ELSE Body(n, h[n - 1])
    BY <1>2, <1>5, <1>6, RoundBefore DEF Goes
  <1>8. h = Turn(h)
    BY <1>5, <1>7 DEF Goes, Turn
  <1>9. after = Turn(after)
    BY <1>8 DEF after
  <1>10. \A n \in 0 .. k : after[n] = IF n = 0 THEN first ELSE Body(n, after[n - 1])
    BY <1>9 DEF Turn
  <1>11. after[0] = first /\ \A n \in 0 .. k - 1 : after[n + 1] = Body(n + 1, after[n])
    BY <1>2, <1>10, RoundAfter
  <1>12. \A n \in 0 .. k : after[n] \in S[n]
    BY <1>2, <1>11, LoopInvariant
  <1>13. after[k] \in S[k] /\ k = Size(a)
    BY <1>2, <1>12, RoundAfter DEF k
  <1> QED
    BY <1>1, <1>13

\* The calls of quick sort, by the depth of their nesting.
LEMMA QuickRule ==
  ASSUME NEW a, NEW ascend, NEW memory, Size(a) \in Nat, NEW S,
         [c \in Calls(a) |-> [list |-> c.list, memory |-> c.memory, ret |-> "ok"]] \in S[0],
         \A n \in 0 .. Size(a) - 1 : \A s \in S[n] :
           [c \in Calls(a) |-> QuickCall(c, s, ascend)] \in S[n + 1]
  PROVE  \E r \in S[Size(a)] : Quick(a, ascend, memory) = r[[list |-> a, low |-> 0, high |-> Size(a) - 1, memory |-> memory]]
  <1> DEFINE k == Size(a)
             first == [c \in Calls(a) |-> [list |-> c.list, memory |-> c.memory, ret |-> "ok"]]
             Body(n, s) == [c \in Calls(a) |-> QuickCall(c, s, ascend)]
             Turn(f) == [n \in 0 .. k |-> IF n = 0 THEN first ELSE Body(n, f[n - 1])]
             after == CHOOSE f : f = Turn(f)
             next == [n \in Nat |-> [s \in S[n - 1] |-> Body(n, s)]]
  <1>1. Quick(a, ascend, memory) = after[k][[list |-> a, low |-> 0, high |-> Size(a) - 1, memory |-> memory]]
    BY DEF Quick, Rounds
  <1>2. k \in Nat /\ first \in S[0] /\ \A n \in 0 .. k - 1 : \A s \in S[n] : Body(n + 1, s) \in S[n + 1]
    OBVIOUS
  <1> HIDE DEF Body, after, k, first
  <1>3. \A n \in 0 .. k - 1 : \A s \in S[n] : next[n + 1][s] = Body(n + 1, s)
    BY <1>2, RoundBefore
  <1> HIDE DEF next, Turn
  <1>4. \A n \in 0 .. k - 1 : \A s \in S[n] : next[n + 1][s] \in S[n + 1]
    BY <1>2, <1>3
  <1>5. PICK h : Goes(h, first, next, S, k)
    BY <1>2, <1>4, LoopExists
  <1>6. \A n \in 0 .. k - 1 : h[n + 1] = Body(n + 1, h[n])
    BY <1>3, <1>5 DEF Goes
  <1>7. \A n \in 0 .. k : h[n] = IF n = 0 THEN first ELSE Body(n, h[n - 1])
    BY <1>2, <1>5, <1>6, RoundBefore DEF Goes
  <1>8. h = Turn(h)
    BY <1>5, <1>7 DEF Goes, Turn
  <1>9. after = Turn(after)
    BY <1>8 DEF after
  <1>10. \A n \in 0 .. k : after[n] = IF n = 0 THEN first ELSE Body(n, after[n - 1])
    BY <1>9 DEF Turn
  <1>11. after[0] = first /\ \A n \in 0 .. k - 1 : after[n + 1] = Body(n + 1, after[n])
    BY <1>2, <1>10, RoundAfter
  <1>12. \A n \in 0 .. k : after[n] \in S[n]
    BY <1>2, <1>11, LoopInvariant
  <1>13. after[k] \in S[k] /\ k = Size(a)
    BY <1>2, <1>12, RoundAfter DEF k
  <1> QED
    BY <1>1, <1>13

\* The loop that finds the largest key.
LEMMA LargestRule ==
  ASSUME NEW a, Size(a) - 1 \in Nat, NEW S,
         a[0].key \in S[0],
         \A n \in 0 .. Size(a) - 1 - 1 : \A s \in S[n] :
           (IF a[n + 1].key > s THEN a[n + 1].key ELSE s) \in S[n + 1]
  PROVE  Largest(a) \in S[Size(a) - 1]
  <1> DEFINE k == Size(a) - 1
             first == a[0].key
             Body(n, s) == (IF a[n].key > s THEN a[n].key ELSE s)
             Turn(f) == [n \in 0 .. k |-> IF n = 0 THEN first ELSE Body(n, f[n - 1])]
             after == CHOOSE f : f = Turn(f)
             next == [n \in Nat |-> [s \in S[n - 1] |-> Body(n, s)]]
  <1>1. Largest(a) = after[k]
    BY DEF Largest, Rounds
  <1>2. k \in Nat /\ first \in S[0] /\ \A n \in 0 .. k - 1 : \A s \in S[n] : Body(n + 1, s) \in S[n + 1]
    OBVIOUS
  <1> HIDE DEF Body, after, k, first
  <1>3. \A n \in 0 .. k - 1 : \A s \in S[n] : next[n + 1][s] = Body(n + 1, s)
    BY <1>2, RoundBefore
  <1> HIDE DEF next, Turn
  <1>4. \A n \in 0 .. k - 1 : \A s \in S[n] : next[n + 1][s] \in S[n + 1]
    BY <1>2, <1>3
  <1>5. PICK h : Goes(h, first, next, S, k)
    BY <1>2, <1>4, LoopExists
  <1>6. \A n \in 0 .. k - 1 : h[n + 1] = Body(n + 1, h[n])
    BY <1>3, <1>5 DEF Goes
  <1>7. \A n \in 0 .. k : h[n] = IF n = 0 THEN first ELSE Body(n, h[n - 1])
    BY <1>2, <1>5, <1>6, RoundBefore DEF Goes
  <1>8. h = Turn(h)
    BY <1>5, <1>7 DEF Goes, Turn
  <1>9. after = Turn(after)
    BY <1>8 DEF after
  <1>10. \A n \in 0 .. k : after[n] = IF n = 0 THEN first ELSE Body(n, after[n - 1])
    BY <1>9 DEF Turn
  <1>11. after[0] = first /\ \A n \in 0 .. k - 1 : after[n + 1] = Body(n + 1, after[n])
    BY <1>2, <1>10, RoundAfter
  <1>12. \A n \in 0 .. k : after[n] \in S[n]
    BY <1>2, <1>11, LoopInvariant
  <1>13. after[k] \in S[k] /\ k = Size(a) - 1
    BY <1>2, <1>12, RoundAfter DEF k
  <1> QED
    BY <1>1, <1>13

\* The loop over the digits.
LEMMA RadixRule ==
  ASSUME NEW a, NEW ascend, Largest(a) \in Nat, NEW S,
         [list |-> a, exp |-> 1] \in S[0],
         \A n \in 0 .. Largest(a) - 1 : \A s \in S[n] :
           RadixRound(s, Largest(a)) \in S[n + 1]
  PROVE  \E r \in S[Largest(a)] : RadixSort(a, ascend) = IF ascend THEN r.list ELSE [i \in DOMAIN a |-> r.list[Size(a) - 1 - i]]
  <1> DEFINE k == Largest(a)
             first == [list |-> a, exp |-> 1]
             Body(n, s) == RadixRound(s, Largest(a))
             Turn(f) == [n \in 0 .. k |-> IF n = 0 THEN first ELSE Body(n, f[n - 1])]
             after == CHOOSE f : f = Turn(f)
             next == [n \in Nat |-> [s \in S[n - 1] |-> Body(n, s)]]
  <1>1. RadixSort(a, ascend) = IF ascend THEN after[k].list ELSE [i \in DOMAIN a |-> after[k].list[Size(a) - 1 - i]]
    BY DEF RadixSort, Rounds
  <1>2. k \in Nat /\ first \in S[0] /\ \A n \in 0 .. k - 1 : \A s \in S[n] : Body(n + 1, s) \in S[n + 1]
    OBVIOUS
  <1> HIDE DEF Body, after, k, first
  <1>3. \A n \in 0 .. k - 1 : \A s \in S[n] : next[n + 1][s] = Body(n + 1, s)
    BY <1>2, RoundBefore
  <1> HIDE DEF next, Turn
  <1>4. \A n \in 0 .. k - 1 : \A s \in S[n] : next[n + 1][s] \in S[n + 1]
    BY <1>2, <1>3
  <1>5. PICK h : Goes(h, first, next, S, k)
    BY <1>2, <1>4, LoopExists
  <1>6. \A n \in 0 .. k - 1 : h[n + 1] = Body(n + 1, h[n])
    BY <1>3, <1>5 DEF Goes
  <1>7. \A n \in 0 .. k : h[n] = IF n = 0 THEN first ELSE Body(n, h[n - 1])
    BY <1>2, <1>5, <1>6, RoundBefore DEF Goes
  <1>8. h = Turn(h)
    BY <1>5, <1>7 DEF Goes, Turn
  <1>9. after = Turn(after)
    BY <1>8 DEF after
  <1>10. \A n \in 0 .. k : after[n] = IF n = 0 THEN first ELSE Body(n, after[n - 1])
    BY <1>9 DEF Turn
  <1>11. after[0] = first /\ \A n \in 0 .. k - 1 : after[n + 1] = Body(n + 1, after[n])
    BY <1>2, <1>10, RoundAfter
  <1>12. \A n \in 0 .. k : after[n] \in S[n]
    BY <1>2, <1>11, LoopInvariant
  <1>13. after[k] \in S[k] /\ k = Largest(a)
    BY <1>2, <1>12, RoundAfter DEF k
  <1> QED
    BY <1>1, <1>13
-----------------------------------------------------------------------------
\* What the arrays hold.
Elem == [key : Int, id : Nat]

\* Arrays of n elements.
Arr(n) == [0 .. n - 1 -> Elem]

\* The place of an element in the order that is asked for.
Rank(x, ascend) == IF ascend THEN x.key ELSE -x.key

\* An element has an integer rank, which Before compares.
LEMMA Ranks ==
  ASSUME NEW ascend \in BOOLEAN, NEW x \in Elem
  PROVE  /\ Rank(x, ascend) \in Int
         /\ \A y \in Elem : Before(x, y, ascend) <=> Rank(x, ascend) < Rank(y, ascend)
  BY DEF Elem, Rank, Before

\* The same of the elements of an array.
LEMMA RanksOf ==
  ASSUME NEW n \in Nat, NEW ascend \in BOOLEAN, NEW a \in Arr(n)
  PROVE  /\ \A i \in 0 .. n - 1 : a[i] \in Elem /\ Rank(a[i], ascend) \in Int
         /\ \A i, j \in 0 .. n - 1 : Before(a[i], a[j], ascend) <=> Rank(a[i], ascend) < Rank(a[j], ascend)
  <1>1. \A i \in 0 .. n - 1 : a[i] \in Elem
    BY DEF Arr
  <1> QED
    BY <1>1, Ranks

\* The size of an array is its length.
LEMMA SizeOf ==
  ASSUME NEW n \in Nat, NEW E, NEW a \in [0 .. n - 1 -> E]
  PROVE  Size(a) = n /\ DOMAIN a = 0 .. n - 1
  <1>1. DOMAIN a = 0 .. n - 1
    OBVIOUS
  <1>2. Cardinality(0 .. n - 1) = n
    <2>1. 0 \in Int /\ n - 1 \in Int
      OBVIOUS
    <2>2. Cardinality(0 .. n - 1) = IF 0 > n - 1 THEN 0 ELSE n - 1 - 0 + 1
      BY <2>1, FS_Interval
    <2> QED
      BY <2>2
  <1> QED
    BY <1>1, <1>2 DEF Size

\* One array has the elements of another in some order.
Permutes(p, D) ==
  /\ p \in [D -> D]
  /\ \A i, j \in D : p[i] = p[j] => i = j
  /\ \A j \in D : \E i \in D : p[i] = j

\* b is a with its elements in another order.
Reordered(a, b) ==
  /\ DOMAIN b = DOMAIN a
  /\ \E p : Permutes(p, DOMAIN a) /\ \A i \in DOMAIN a : b[i] = a[p[i]]

\* Reordering is reflexive ...
LEMMA ReorderedItself ==
  ASSUME NEW a
  PROVE  Reordered(a, a)
  <1> DEFINE p == [i \in DOMAIN a |-> i]
  <1>1. Permutes(p, DOMAIN a) /\ \A i \in DOMAIN a : a[i] = a[p[i]]
    BY DEF Permutes
  <1> QED
    BY <1>1 DEF Reordered

\* ... and transitive.
LEMMA ReorderedTwice ==
  ASSUME NEW a, NEW b, NEW c, Reordered(a, b), Reordered(b, c)
  PROVE  Reordered(a, c)
  <1> DEFINE D == DOMAIN a
  <1>1. DOMAIN b = D /\ DOMAIN c = D
    BY DEF Reordered
  <1>2. PICK p : Permutes(p, D) /\ \A i \in D : b[i] = a[p[i]]
    BY DEF Reordered
  <1>3. PICK q : Permutes(q, D) /\ \A i \in D : c[i] = b[q[i]]
    BY <1>1 DEF Reordered
  <1> DEFINE r == [i \in D |-> p[q[i]]]
  <1>4. p \in [D -> D] /\ q \in [D -> D]
    BY <1>2, <1>3 DEF Permutes
  <1>5. r \in [D -> D]
    BY <1>4
  <1>6. \A i, j \in D : r[i] = r[j] => i = j
    <2> SUFFICES ASSUME NEW i \in D, NEW j \in D, r[i] = r[j] PROVE i = j
      OBVIOUS
    <2>1. q[i] \in D /\ q[j] \in D /\ p[q[i]] = p[q[j]]
      BY <1>4
    <2>2. q[i] = q[j]
      BY <1>2, <2>1 DEF Permutes
    <2> QED
      BY <1>3, <2>2 DEF Permutes
  <1>7. \A j \in D : \E i \in D : r[i] = j
    <2> SUFFICES ASSUME NEW j \in D PROVE \E i \in D : r[i] = j
      OBVIOUS
    <2>1. PICK k \in D : p[k] = j
      BY <1>2 DEF Permutes
    <2>2. PICK i \in D : q[i] = k
      BY <1>3 DEF Permutes
    <2> QED
      BY <2>1, <2>2
  <1>8. \A i \in D : c[i] = a[r[i]]
    BY <1>2, <1>3, <1>4
  <1> HIDE DEF r
  <1>9. Permutes(r, D)
    BY <1>5, <1>6, <1>7 DEF Permutes
  <1> QED
    BY <1>1, <1>8, <1>9 DEF Reordered

\* Swapping two elements reorders an array.
LEMMA Swaps ==
  ASSUME NEW n \in Nat, NEW a \in Arr(n), NEW i \in 0 .. n - 1, NEW j \in 0 .. n - 1
  PROVE  /\ Swap(a, i, j) \in Arr(n)
         /\ Swap(a, i, j)[i] = a[j] /\ Swap(a, i, j)[j] = a[i]
         /\ \A k \in 0 .. n - 1 : k # i /\ k # j => Swap(a, i, j)[k] = a[k]
         /\ Reordered(a, Swap(a, i, j))
  <1> DEFINE D == 0 .. n - 1
             b == Swap(a, i, j)
             p == [k \in D |-> IF k = j THEN i ELSE IF k = i THEN j ELSE k]
  <1>1. a \in [D -> Elem] /\ i \in D /\ j \in D
    BY DEF Arr
  <1> HIDE DEF D
  <1>2. /\ b \in [D -> Elem]
        /\ b[i] = a[j] /\ b[j] = a[i]
        /\ \A k \in D : k # i /\ k # j => b[k] = a[k]
    BY <1>1 DEF Swap
  <1> HIDE DEF b
  <1>3. \A k \in D : b[k] = a[p[k]]
    BY <1>1, <1>2
  <1>4. Permutes(p, D)
    <2>1. p \in [D -> D]
      BY <1>1
    <2>2. \A k, l \in D : p[k] = p[l] => k = l
      BY <1>1
    <2>3. \A l \in D : \E k \in D : p[k] = l
      <3> SUFFICES ASSUME NEW l \in D PROVE \E k \in D : p[k] = l
        OBVIOUS
      <3>1. p[l] \in D /\ p[p[l]] = l
        BY <1>1
      <3> QED
        BY <3>1
    <2> HIDE DEF p
    <2> QED
      BY <2>1, <2>2, <2>3 DEF Permutes
  <1>5. DOMAIN a = D /\ DOMAIN b = D
    BY <1>1, <1>2
  <1> HIDE DEF p
  <1>6. Reordered(a, b)
    BY <1>3, <1>4, <1>5 DEF Reordered
  <1> QED
    BY <1>2, <1>6 DEF b, D, Arr

\* How many of the places in D hold x.
Occurrences(a, D, x) == Cardinality({i \in D : a[i] = x})

\* A reordered array has as many of every element as before.
LEMMA ReorderedCounts ==
  ASSUME NEW a, NEW b, Reordered(a, b), IsFiniteSet(DOMAIN a), NEW x
  PROVE  Occurrences(a, DOMAIN a, x) = Occurrences(b, DOMAIN a, x)
  <1> DEFINE D == DOMAIN a
             A == {i \in D : a[i] = x}
             B == {i \in D : b[i] = x}
  <1>1. PICK p : Permutes(p, D) /\ \A i \in D : b[i] = a[p[i]]
    BY DEF Reordered
  <1> DEFINE q == [i \in B |-> p[i]]
  <1>2. q \in [B -> A]
    BY <1>1 DEF Permutes
  <1>3. \A i, j \in B : q[i] = q[j] => i = j
    BY <1>1 DEF Permutes
  <1>4. \A j \in A : \E i \in B : q[i] = j
    BY <1>1 DEF Permutes
  <1> DEFINE N == B
             M == A
  <1> HIDE DEF q, A, B
  <1>5. q \in Bijection(B, A)
    BY <1>2, <1>3, <1>4 DEF Bijection, Injection, Surjection, IsInjective
  <1>6. ExistsBijection(B, A)
    BY <1>5 DEF ExistsBijection
  <1>7. IsFiniteSet(B)
    <2>1. B \subseteq D
      BY DEF B
    <2> QED
      BY <2>1, FS_Subset
  <1>8. Cardinality(A) = Cardinality(B)
    BY <1>6, <1>7, FS_Bijection
  <1> QED
    BY <1>8 DEF A, B, Occurrences

\* The elements from m on are in order, and none before them belongs behind.
TailSorted(a, m, n, ascend) ==
  \A i, j \in 0 .. n - 1 : i < j /\ j >= m => Rank(a[i], ascend) <= Rank(a[j], ascend)

\* An array in order.
Ordered(a, n, ascend) ==
  \A i, j \in 0 .. n - 1 : i < j => Rank(a[i], ascend) <= Rank(a[j], ascend)

\* Neighbours in order make an array in order.
LEMMA NeighboursSuffice ==
  ASSUME NEW n \in Nat, NEW a \in Arr(n), NEW ascend \in BOOLEAN, NEW low \in Int, NEW high \in Int,
         low >= 0, high < n,
         \A i \in low + 1 .. high : Rank(a[i - 1], ascend) <= Rank(a[i], ascend)
  PROVE  \A i, j \in low .. high : i < j => Rank(a[i], ascend) <= Rank(a[j], ascend)
  <1> DEFINE T == {d \in Nat : \A i \in low .. high : i + d <= high => Rank(a[i], ascend) <= Rank(a[i + d], ascend)}
  <1>1. \A i \in low .. high : Rank(a[i], ascend) \in Int
    BY Ranks DEF Arr
  <1>2. 0 \in T
    BY <1>1
  <1>3. ASSUME NEW d \in T PROVE d + 1 \in T
    <2>1. d \in Nat /\ \A i \in low .. high : i + d <= high => Rank(a[i], ascend) <= Rank(a[i + d], ascend)
      BY <1>3
    <2>2. ASSUME NEW i \in low .. high, i + (d + 1) <= high
          PROVE  Rank(a[i], ascend) <= Rank(a[i + (d + 1)], ascend)
      <3>1. i + d \in low .. high /\ i + (d + 1) \in low + 1 .. high /\ i + (d + 1) - 1 = i + d
            /\ i + (d + 1) \in low .. high
        BY <2>1, <2>2
      <3>2. Rank(a[i], ascend) <= Rank(a[i + d], ascend)
        BY <2>1, <2>2, <3>1
      <3>3. Rank(a[i + d], ascend) <= Rank(a[i + (d + 1)], ascend)
        BY <3>1
      <3> QED
        BY <1>1, <3>1, <3>2, <3>3
    <2> QED
      BY <2>1, <2>2
  <1>4. T = Nat
    <2>1. T \subseteq Nat
      OBVIOUS
    <2> HIDE DEF T
    <2> QED
      BY <1>2, <1>3, <2>1, Induction
  <1>5. ASSUME NEW i \in low .. high, NEW j \in low .. high, i < j
        PROVE  Rank(a[i], ascend) <= Rank(a[j], ascend)
    <2>1. j - i \in Nat /\ i + (j - i) = j /\ j <= high
      BY <1>5
    <2>2. j - i \in T
      BY <1>4, <2>1
    <2> QED
      BY <2>1, <2>2
  <1> QED
    BY <1>5
-----------------------------------------------------------------------------
\* What k rounds of a pass over the first m elements of a have done: the k-th
\* element is the largest so far, and an array that is still the same is in
\* order so far.
Passed(a, c, k, m, n, ascend) ==
  /\ Reordered(a, c)
  /\ TailSorted(c, m, n, ascend)
  /\ \A i \in 0 .. k : Rank(c[i], ascend) <= Rank(c[k], ascend)
  /\ \/ c = a /\ \A i \in 1 .. k : Rank(a[i - 1], ascend) <= Rank(a[i], ascend)
     \/ \E i \in 0 .. k - 1 : Rank(c[i], ascend) < Rank(a[i], ascend)

\* One comparison of a pass keeps what holds after the ones before.
LEMMA PassRound ==
  ASSUME NEW n \in Nat, NEW ascend \in BOOLEAN, NEW a \in Arr(n), NEW m \in 1 .. n,
         NEW k \in Nat, k + 1 <= m - 1, NEW c \in Arr(n), Passed(a, c, k, m, n, ascend)
  PROVE  LET d == IF Before(c[k + 1], c[k + 1 - 1], ascend) THEN Swap(c, k + 1 - 1, k + 1) ELSE c
         IN  d \in Arr(n) /\ Passed(a, d, k + 1, m, n, ascend)
  <1> DEFINE d == Swap(c, k, k + 1)
             R(x) == Rank(x, ascend)
             D == 0 .. n - 1
  <1>1. k \in D /\ k + 1 \in D /\ k # k + 1 /\ k + 1 - 1 = k /\ k + 1 < m
    OBVIOUS
  <1>2. /\ \A i \in D : R(c[i]) \in Int /\ R(a[i]) \in Int
        /\ Before(c[k + 1], c[k], ascend) <=> R(c[k + 1]) < R(c[k])
    BY <1>1, Ranks DEF Arr
  <1>3. /\ Reordered(a, c)
        /\ \A i, j \in D : i < j /\ j >= m => R(c[i]) <= R(c[j])
        /\ \A i \in 0 .. k : R(c[i]) <= R(c[k])
        /\ \/ c = a /\ \A i \in 1 .. k : R(a[i - 1]) <= R(a[i])
           \/ \E i \in 0 .. k - 1 : R(c[i]) < R(a[i])
    BY DEF Passed, TailSorted
  <1>4. CASE Before(c[k + 1], c[k], ascend)
    <2>1. /\ d \in Arr(n) /\ d[k] = c[k + 1] /\ d[k + 1] = c[k]
          /\ \A i \in D : i # k /\ i # k + 1 => d[i] = c[i]
          /\ Reordered(c, d)
      <3> DEFINE l == k + 1
      <3>1. k \in D /\ l \in D
        BY <1>1
      <3> HIDE DEF l
      <3>2. /\ Swap(c, k, l) \in Arr(n) /\ Swap(c, k, l)[k] = c[l] /\ Swap(c, k, l)[l] = c[k]
            /\ \A i \in D : i # k /\ i # l => Swap(c, k, l)[i] = c[i]
            /\ Reordered(c, Swap(c, k, l))
        BY <3>1, Swaps
      <3> QED
        BY <3>2 DEF l
    <2> HIDE DEF d, R
    <2>2. Reordered(a, d)
      BY <1>3, <2>1, ReorderedTwice
    <2>3. ASSUME NEW i \in D, NEW j \in D, i < j, j >= m PROVE R(d[i]) <= R(d[j])
      <3>1. j # k /\ j # k + 1 /\ d[j] = c[j] /\ k < j /\ k + 1 < j
        BY <1>1, <2>1, <2>3
      <3> QED
        BY <1>1, <1>3, <2>1, <2>3, <3>1
    <2>4. ASSUME NEW i \in 0 .. k + 1 PROVE R(d[i]) <= R(d[k + 1])
      BY <1>1, <1>2, <1>3, <1>4, <2>1
    <2>5. \E i \in 0 .. (k + 1) - 1 : R(d[i]) < R(a[i])
      <3>1. CASE c = a
        <4>1. k \in 0 .. (k + 1) - 1 /\ R(d[k]) < R(a[k])
          BY <1>2, <1>4, <2>1, <3>1
        <4> QED
          BY <4>1
      <3>2. CASE \E i \in 0 .. k - 1 : R(c[i]) < R(a[i])
        <4>1. PICK i \in 0 .. k - 1 : R(c[i]) < R(a[i])
          BY <3>2
        <4>2. i \in 0 .. (k + 1) - 1 /\ d[i] = c[i]
          BY <1>1, <2>1
        <4> QED
          BY <4>1, <4>2
      <3> QED
        BY <1>3, <3>1, <3>2
    <2>6. Passed(a, d, k + 1, m, n, ascend)
      BY <2>2, <2>3, <2>4, <2>5 DEF Passed, TailSorted, R
    <2> QED
      BY <1>1, <1>4, <2>1, <2>6 DEF d
  <1>5. CASE ~Before(c[k + 1], c[k], ascend)
    <2> HIDE DEF R
    <2>1. R(c[k]) <= R(c[k + 1])
      BY <1>1, <1>2, <1>5
    <2>2. \A i \in 0 .. k + 1 : R(c[i]) <= R(c[k + 1])
      BY <1>1, <1>2, <1>3, <2>1
    <2>3. \/ c = a /\ \A i \in 1 .. k + 1 : R(a[i - 1]) <= R(a[i])
          \/ \E i \in 0 .. (k + 1) - 1 : R(c[i]) < R(a[i])
      <3>1. CASE c = a /\ \A i \in 1 .. k : R(a[i - 1]) <= R(a[i])
        <4>1. ASSUME NEW i \in 1 .. k + 1 PROVE R(a[i - 1]) <= R(a[i])
          <5>1. CASE i = k + 1
            BY <1>1, <2>1, <3>1, <5>1
          <5>2. CASE i # k + 1
            <6>1. i \in 1 .. k
              BY <5>2
            <6> QED
              BY <3>1, <6>1
          <5> QED
            BY <5>1, <5>2
        <4> QED
          BY <3>1, <4>1
      <3>2. CASE \E i \in 0 .. k - 1 : R(c[i]) < R(a[i])
        <4>1. PICK i \in 0 .. k - 1 : R(c[i]) < R(a[i])
          BY <3>2
        <4>2. i \in 0 .. (k + 1) - 1
          OBVIOUS
        <4> QED
          BY <4>1, <4>2
      <3> QED
        BY <1>3, <3>1, <3>2
    <2>4. Passed(a, c, k + 1, m, n, ascend)
      BY <1>3, <2>2, <2>3 DEF Passed, TailSorted, R
    <2> QED
      BY <1>1, <1>5, <2>4
  <1> QED
    BY <1>4, <1>5

\* A pass moves the largest of the first m elements behind the others; when it
\* changes nothing they were in order.
LEMMA PassSorts ==
  ASSUME NEW n \in Nat, NEW ascend \in BOOLEAN, NEW a \in Arr(n), NEW m \in 1 .. n,
         TailSorted(a, m, n, ascend)
  PROVE  LET b == BubblePass(a, m, ascend)
         IN  /\ b \in Arr(n) /\ Reordered(a, b) /\ TailSorted(b, m - 1, n, ascend)
             /\ b = a => Ordered(a, n, ascend)
  <1> DEFINE b == BubblePass(a, m, ascend)
             S == [k \in Nat |-> {c \in Arr(n) : Passed(a, c, k, m, n, ascend)}]
             R(x) == Rank(x, ascend)
  <1>1. \A i \in 0 .. n - 1 : \A c \in Arr(n) : R(c[i]) \in Int
    BY Ranks DEF Arr
  <1>2. a \in S[0]
    <2>1. 0 \in 0 .. n - 1 /\ \A i \in 0 .. 0 : i = 0
      OBVIOUS
    <2>2. \A i \in 1 .. 0 : FALSE
      OBVIOUS
    <2>3. Passed(a, a, 0, m, n, ascend)
      BY <1>1, <2>1, <2>2, ReorderedItself DEF Passed
    <2> QED
      BY <2>3
  <1>3. ASSUME NEW k \in 0 .. (m - 1) - 1, NEW c \in S[k]
        PROVE  (IF Before(c[k + 1], c[k + 1 - 1], ascend) THEN Swap(c, k + 1 - 1, k + 1) ELSE c) \in S[k + 1]
    <2> DEFINE d == IF Before(c[k + 1], c[k + 1 - 1], ascend) THEN Swap(c, k + 1 - 1, k + 1) ELSE c
    <2>1. k \in Nat /\ k + 1 <= m - 1 /\ k + 1 \in Nat /\ c \in Arr(n) /\ Passed(a, c, k, m, n, ascend)
      BY <1>3
    <2>2. d \in Arr(n) /\ Passed(a, d, k + 1, m, n, ascend)
      BY <2>1, PassRound
    <2> HIDE DEF d
    <2>4. d \in S[k + 1]
      BY <2>1, <2>2
    <2> QED
      BY <2>4 DEF d
  <1>4. m - 1 \in Nat
    OBVIOUS
  <1>5. b \in S[m - 1]
    <2> HIDE DEF S
    <2> QED
      BY <1>2, <1>3, <1>4, BubblePassRule
  <1>6. b \in Arr(n) /\ Passed(a, b, m - 1, m, n, ascend)
    BY <1>4, <1>5
  <1> HIDE DEF b, S
  <1>7. TailSorted(b, m - 1, n, ascend)
    <2> SUFFICES ASSUME NEW i \in 0 .. n - 1, NEW j \in 0 .. n - 1, i < j, j >= m - 1
                 PROVE  Rank(b[i], ascend) <= Rank(b[j], ascend)
      BY DEF TailSorted
    <2>1. CASE j >= m
      BY <1>6, <2>1 DEF Passed, TailSorted
    <2>2. CASE j = m - 1
      <3>1. i \in 0 .. m - 1
        BY <2>2
      <3> QED
        BY <1>6, <2>2, <3>1 DEF Passed
    <2> QED
      BY <2>1, <2>2
  <1>8. ASSUME b = a PROVE Ordered(a, n, ascend)
    <2>1. ~ \E i \in 0 .. (m - 1) - 1 : Rank(b[i], ascend) < Rank(a[i], ascend)
      <3> SUFFICES ASSUME NEW i \in 0 .. (m - 1) - 1, Rank(b[i], ascend) < Rank(a[i], ascend)
                   PROVE  FALSE
        OBVIOUS
      <3>1. Rank(a[i], ascend) \in Int
        BY <1>1
      <3> QED
        BY <1>8, <3>1
    <2>2. \A i \in 0 + 1 .. m - 1 : Rank(a[i - 1], ascend) <= Rank(a[i], ascend)
      BY <1>6, <2>1 DEF Passed
    <2>3. \A i, j \in 0 .. m - 1 : i < j => Rank(a[i], ascend) <= Rank(a[j], ascend)
      <3>1. 0 \in Int /\ m - 1 \in Int /\ 0 >= 0 /\ m - 1 < n
        BY <1>4
      <3> HIDE DEF R
      <3> QED
        BY <2>2, <3>1, NeighboursSuffice
    <2> SUFFICES ASSUME NEW i \in 0 .. n - 1, NEW j \in 0 .. n - 1, i < j
                 PROVE  Rank(a[i], ascend) <= Rank(a[j], ascend)
      BY DEF Ordered
    <2>4. CASE j >= m
      BY <2>4 DEF TailSorted
    <2>5. CASE j < m
      <3>1. i \in 0 .. m - 1 /\ j \in 0 .. m - 1
        BY <2>5
      <3> QED
        BY <2>3, <3>1
    <2> QED
      BY <2>4, <2>5
  <1>9. Reordered(a, b)
    BY <1>6 DEF Passed
  <1> QED
    BY <1>6, <1>7, <1>8, <1>9 DEF b

\* An array that a sort has put in order.
Sorts(a, b, n, ascend) == b \in Arr(n) /\ Reordered(a, b) /\ Ordered(b, n, ascend)

\* Bubble sort sorts.
LEMMA BubbleSorts ==
  ASSUME NEW n \in Nat, NEW ascend \in BOOLEAN, NEW a \in Arr(n)
  PROVE  Sorts(a, BubbleSort(a, ascend), n, ascend)
  <1> DEFINE Good(s, k) ==
               /\ s.list \in Arr(n) /\ Reordered(a, s.list)
               /\ \/ s.swapped = TRUE /\ s.n = n - k /\ TailSorted(s.list, s.n, n, ascend)
                  \/ s.swapped = FALSE /\ Ordered(s.list, n, ascend)
             States == [list : Arr(n), n : Int, swapped : BOOLEAN]
             S == [k \in Nat |-> {s \in States : Good(s, k)}]
             start == [list |-> a, n |-> Size(a), swapped |-> TRUE]
  <1>1. Size(a) = n
    BY SizeOf DEF Arr
  <1>2. start \in S[0]
    <2>1. TailSorted(a, n, n, ascend)
      BY DEF TailSorted
    <2>2. Good(start, 0)
      BY <1>1, <2>1, ReorderedItself
    <2>3. start \in States
      BY <1>1
    <2> HIDE DEF Good, start, States
    <2> QED
      BY <2>2, <2>3
  <1>3. ASSUME NEW k \in 0 .. n - 1, NEW s \in S[k] PROVE Bubble(s, ascend) \in S[k + 1]
    <2>1. s \in States /\ Good(s, k) /\ k + 1 \in Nat
      BY <1>3
    <2> DEFINE b == BubblePass(s.list, s.n, ascend)
               t == [list |-> b, n |-> s.n - 1, swapped |-> b # s.list]
    <2>2. CASE s.swapped = TRUE
      <3>1. s.n \in 1 .. n /\ s.n = n - k /\ TailSorted(s.list, s.n, n, ascend) /\ s.list \in Arr(n)
            /\ Reordered(a, s.list)
        BY <2>1, <2>2
      <3>2. /\ b \in Arr(n) /\ Reordered(s.list, b) /\ TailSorted(b, s.n - 1, n, ascend)
            /\ b = s.list => Ordered(s.list, n, ascend)
        BY <3>1, PassSorts
      <3>6. Bubble(s, ascend) = t
        BY <2>2 DEF Bubble
      <3> HIDE DEF b
      <3>3. Reordered(a, b)
        BY <3>1, <3>2, ReorderedTwice
      <3>4. t \in States
        BY <3>1, <3>2
      <3>5. Good(t, k + 1)
        <4>1. t.list = b /\ t.n = s.n - 1 /\ t.swapped = (b # s.list)
          OBVIOUS
        <4>2. s.n - 1 = n - (k + 1)
          BY <3>1
        <4>3. CASE b = s.list
          <5>1. t.swapped = FALSE /\ Ordered(t.list, n, ascend)
            BY <3>2, <4>1, <4>3
          <5> HIDE DEF t
          <5> QED
            BY <3>2, <3>3, <4>1, <5>1
        <4>4. CASE b # s.list
          <5>1. t.swapped = TRUE /\ t.n = n - (k + 1) /\ TailSorted(t.list, t.n, n, ascend)
            BY <3>2, <4>1, <4>2, <4>4
          <5> HIDE DEF t
          <5> QED
            BY <3>2, <3>3, <4>1, <5>1
        <4> QED
          BY <4>3, <4>4
      <3> HIDE DEF t, Good, States
      <3> QED
        BY <2>1, <3>4, <3>5, <3>6
    <2>3. CASE s.swapped = FALSE
      <3>1. Bubble(s, ascend) = s
        BY <2>3 DEF Bubble
      <3>2. Good(s, k + 1)
        BY <2>1, <2>3
      <3> HIDE DEF Good, States
      <3> QED
        BY <2>1, <3>1, <3>2
    <2>5. s.swapped \in BOOLEAN
      BY <2>1
    <2> QED
      BY <2>2, <2>3, <2>5
  <1>4. \E r \in S[n] : BubbleSort(a, ascend) = r.list
    <2> HIDE DEF S
    <2> QED
      BY <1>1, <1>2, <1>3, BubbleSortRule
  <1>5. PICK r \in S[n] : BubbleSort(a, ascend) = r.list
    BY <1>4
  <1>6. Good(r, n)
    BY <1>5
  <1>7. TailSorted(r.list, 0, n, ascend) => Ordered(r.list, n, ascend)
    BY DEF TailSorted, Ordered
  <1>8. Ordered(r.list, n, ascend)
    BY <1>6, <1>7
  <1> QED
    BY <1>5, <1>6, <1>8 DEF Sorts
-----------------------------------------------------------------------------
\* The first elements of an array, up to m, are in order.
HeadSorted(a, m, ascend) ==
  \A x, y \in 0 .. m : x < y => Rank(a[x], ascend) <= Rank(a[y], ascend)

\* While the element at j sinks, the others up to i stay in order and those
\* behind it belong behind it.
Sinking(a, s, i, k, n, ascend) ==
  /\ s.list \in Arr(n) /\ Reordered(a, s.list)
  /\ s.j \in 0 .. i
  /\ \A x, y \in 0 .. i : x < y /\ x # s.j /\ y # s.j => Rank(s.list[x], ascend) <= Rank(s.list[y], ascend)
  /\ \A y \in 0 .. i : s.j < y => Rank(s.list[s.j], ascend) <= Rank(s.list[y], ascend)
  /\ \/ s.j = i - k
     \/ s.j > 0 /\ ~Before(s.list[s.j], s.list[s.j - 1], ascend)

\* A step of the inner loop of insertion sort keeps the hole in its place.
LEMMA SinkRound ==
  ASSUME NEW n \in Nat, NEW ascend \in BOOLEAN, NEW a \in Arr(n), NEW i \in 1 .. n - 1,
         NEW k \in 0 .. i - 1, NEW s \in [list : Arr(n), j : 0 .. i], Sinking(a, s, i, k, n, ascend)
  PROVE  /\ Sink(s, ascend) \in [list : Arr(n), j : 0 .. i]
         /\ Sinking(a, Sink(s, ascend), i, k + 1, n, ascend)
  <1> DEFINE R(x) == Rank(x, ascend)
             D == 0 .. n - 1
             l == s.list
             j == s.j
  <1>1. /\ l \in Arr(n) /\ Reordered(a, l) /\ j \in 0 .. i
        /\ \A x, y \in 0 .. i : x < y /\ x # j /\ y # j => R(l[x]) <= R(l[y])
        /\ \A y \in 0 .. i : j < y => R(l[j]) <= R(l[y])
        /\ \/ j = i - k
           \/ j > 0 /\ ~Before(l[j], l[j - 1], ascend)
    BY DEF Sinking
  <1>2. \A x \in 0 .. i : x \in D /\ R(l[x]) \in Int /\ l[x] \in Elem
    <2>1. \A x \in D : l[x] \in Elem /\ R(l[x]) \in Int
      BY <1>1, RanksOf
    <2>2. \A x \in 0 .. i : x \in D
      OBVIOUS
    <2> HIDE DEF R, D, l
    <2> QED
      BY <2>1, <2>2
  <1>3. CASE j > 0 /\ Before(l[j], l[j - 1], ascend)
    <2> DEFINE h == j - 1
               d == Swap(l, j, h)
               t == [list |-> d, j |-> h]
    <2>1. h \in 0 .. i /\ h < j /\ j = i - k /\ h = i - (k + 1) /\ j \in D /\ h \in D /\ j - 1 = h
          /\ h # j /\ \A x \in 0 .. i : x < j => x = h \/ x < h
      BY <1>1, <1>2, <1>3
    <2>2. Sink(s, ascend) = t
      BY <1>3 DEF Sink
    <2>3. R(l[j]) < R(l[h])
      BY <1>1, <1>2, <1>3, <2>1, Ranks
    <2> HIDE DEF h, R
    <2>4. /\ d \in Arr(n) /\ d[j] = l[h] /\ d[h] = l[j] /\ Reordered(l, d)
          /\ \A x \in D : x # h /\ x # j => d[x] = l[x]
      <3>1. l \in Arr(n) /\ j \in D /\ h \in D
        BY <1>1, <2>1
      <3> HIDE DEF l, j
      <3>2. /\ Swap(l, j, h) \in Arr(n)
            /\ Swap(l, j, h)[j] = l[h] /\ Swap(l, j, h)[h] = l[j]
            /\ \A x \in D : x # j /\ x # h => Swap(l, j, h)[x] = l[x]
            /\ Reordered(l, Swap(l, j, h))
        BY <3>1, Swaps
      <3> QED
        BY <3>2
    <2> HIDE DEF d, l, j
    <2>5. t \in [list : Arr(n), j : 0 .. i] /\ t.list = d /\ t.j = h
      BY <2>1, <2>4
    <2>6. Reordered(a, d)
      BY <1>1, <2>4, ReorderedTwice
    <2>7. ASSUME NEW x \in 0 .. i, NEW y \in 0 .. i, x < y, x # h, y # h
          PROVE  R(d[x]) <= R(d[y])
      <3>1. CASE x = j
        <4>1. d[x] = l[h] /\ d[y] = l[y] /\ h < y /\ y # j
          BY <1>2, <2>1, <2>4, <2>7, <3>1
        <4> QED
          BY <1>1, <2>1, <2>7, <3>1, <4>1
      <3>2. CASE y = j
        <4>1. x < h /\ x # j /\ d[x] = l[x] /\ d[y] = l[h]
          BY <1>2, <2>1, <2>4, <2>7, <3>2
        <4> QED
          BY <1>1, <2>1, <2>7, <3>2, <4>1
      <3>3. CASE x # j /\ y # j
        BY <1>1, <1>2, <2>4, <2>7, <3>3
      <3> QED
        BY <3>1, <3>2, <3>3
    <2>8. ASSUME NEW y \in 0 .. i, h < y PROVE R(d[h]) <= R(d[y])
      <3>1. CASE y = j
        BY <1>2, <2>1, <2>3, <2>4, <3>1
      <3>2. CASE y # j
        <4>1. j < y /\ d[y] = l[y] /\ d[h] = l[j]
          BY <1>2, <2>1, <2>4, <2>8, <3>2
        <4> QED
          BY <1>1, <4>1
      <3> QED
        BY <3>1, <3>2
    <2>9. Sinking(a, t, i, k + 1, n, ascend)
      <3> HIDE DEF t
      <3> QED
        BY <2>1, <2>4, <2>5, <2>6, <2>7, <2>8 DEF Sinking, R
    <2> HIDE DEF t
    <2> QED
      BY <2>2, <2>5, <2>9
  <1>4. CASE ~ (j > 0 /\ Before(l[j], l[j - 1], ascend))
    <2>1. Sink(s, ascend) = s
      BY <1>4 DEF Sink
    <2>2. j > 0 /\ ~Before(l[j], l[j - 1], ascend)
      BY <1>1, <1>4
    <2>3. Sinking(a, s, i, k + 1, n, ascend)
      BY <2>2 DEF Sinking
    <2> QED
      BY <2>1, <2>3
  <1> QED
    BY <1>3, <1>4

\* Inserting an element makes the sorted head one longer.
LEMMA InsertSorts ==
  ASSUME NEW n \in Nat, NEW ascend \in BOOLEAN, NEW a \in Arr(n), NEW i \in 1 .. n - 1,
         HeadSorted(a, i - 1, ascend)
  PROVE  /\ Insert(a, i, ascend) \in Arr(n) /\ Reordered(a, Insert(a, i, ascend))
         /\ HeadSorted(Insert(a, i, ascend), i, ascend)
  <1> DEFINE States == [list : Arr(n), j : 0 .. i]
             S == [k \in Nat |-> {s \in States : Sinking(a, s, i, k, n, ascend)}]
             start == [list |-> a, j |-> i]
             R(x) == Rank(x, ascend)
  <1>1. start \in S[0]
    <2>1. start \in States /\ start.list = a /\ start.j = i /\ i - 0 = i
      OBVIOUS
    <2>2. \A x, y \in 0 .. i : x < y /\ x # i /\ y # i => R(a[x]) <= R(a[y])
      BY DEF HeadSorted
    <2>3. \A y \in 0 .. i : ~ (i < y)
      OBVIOUS
    <2> HIDE DEF start, States
    <2>4. Sinking(a, start, i, 0, n, ascend)
      BY <2>1, <2>2, <2>3, ReorderedItself DEF Sinking
    <2> QED
      BY <2>1, <2>4
  <1>2. ASSUME NEW k \in 0 .. i - 1, NEW s \in S[k] PROVE Sink(s, ascend) \in S[k + 1]
    <2>1. k + 1 \in Nat /\ s \in States /\ Sinking(a, s, i, k, n, ascend)
      BY <1>2
    <2>2. Sink(s, ascend) \in States /\ Sinking(a, Sink(s, ascend), i, k + 1, n, ascend)
      BY <2>1, SinkRound
    <2> HIDE DEF States
    <2> QED
      BY <2>1, <2>2
  <1>3. i \in Nat
    OBVIOUS
  <1>4. \E r \in S[i] : Insert(a, i, ascend) = r.list
    <2> HIDE DEF S
    <2> QED
      BY <1>1, <1>2, <1>3, InsertRule
  <1>5. PICK r \in S[i] : Insert(a, i, ascend) = r.list
    BY <1>4
  <1>6. Sinking(a, r, i, i, n, ascend)
    BY <1>3, <1>5
  <1> DEFINE l == r.list
             j == r.j
  <1>7. /\ l \in Arr(n) /\ Reordered(a, l) /\ j \in 0 .. i
        /\ \A x, y \in 0 .. i : x < y /\ x # j /\ y # j => R(l[x]) <= R(l[y])
        /\ \A y \in 0 .. i : j < y => R(l[j]) <= R(l[y])
        /\ \/ j = 0
           \/ j > 0 /\ ~Before(l[j], l[j - 1], ascend)
    BY <1>3, <1>6 DEF Sinking
  <1> HIDE DEF l, j, S
  <1>8. \A x \in 0 .. i : R(l[x]) \in Int /\ l[x] \in Elem
    BY <1>7, Ranks DEF Arr
  <1>9. ASSUME NEW x \in 0 .. i, NEW y \in 0 .. i, x < y PROVE R(l[x]) <= R(l[y])
    <2>1. CASE y = j
      <3>1. j > 0 /\ j - 1 \in 0 .. i /\ ~Before(l[j], l[j - 1], ascend)
        BY <1>7, <1>9, <2>1
      <3>2. R(l[j - 1]) <= R(l[j])
        BY <1>7, <1>8, <3>1, Ranks
      <3>3. CASE x = j - 1
        BY <2>1, <3>2, <3>3
      <3>4. CASE x # j - 1
        <4>1. x < j - 1 /\ x # j /\ j - 1 # j
          BY <1>7, <1>9, <2>1, <3>4
        <4>2. R(l[x]) <= R(l[j - 1])
          BY <1>7, <3>1, <4>1
        <4> HIDE DEF R
        <4> QED
          BY <1>7, <1>8, <2>1, <3>1, <3>2, <4>2
      <3> QED
        BY <3>3, <3>4
    <2>2. CASE x = j
      BY <1>7, <1>9, <2>2
    <2>3. CASE x # j /\ y # j
      BY <1>7, <1>9, <2>3
    <2> QED
      BY <2>1, <2>2, <2>3
  <1>10. HeadSorted(l, i, ascend)
    BY <1>9 DEF HeadSorted
  <1> QED
    BY <1>5, <1>7, <1>10 DEF l

\* Insertion sort sorts.
LEMMA InsertionSorts ==
  ASSUME NEW n \in Nat \ {0}, NEW ascend \in BOOLEAN, NEW a \in Arr(n)
  PROVE  Sorts(a, InsertionSort(a, ascend), n, ascend)
  <1> DEFINE S == [k \in Nat |-> {c \in Arr(n) : Reordered(a, c) /\ HeadSorted(c, k, ascend)}]
  <1>1. Size(a) = n /\ n - 1 \in Nat
    BY SizeOf DEF Arr
  <1>2. a \in S[0]
    BY ReorderedItself DEF HeadSorted
  <1>3. ASSUME NEW k \in 0 .. (n - 1) - 1, NEW c \in S[k] PROVE Insert(c, k + 1, ascend) \in S[k + 1]
    <2>1. k + 1 \in Nat /\ k + 1 \in 1 .. n - 1 /\ (k + 1) - 1 = k /\ c \in Arr(n) /\ Reordered(a, c)
          /\ HeadSorted(c, k, ascend)
      BY <1>3
    <2>2. /\ Insert(c, k + 1, ascend) \in Arr(n) /\ Reordered(c, Insert(c, k + 1, ascend))
          /\ HeadSorted(Insert(c, k + 1, ascend), k + 1, ascend)
      <3> DEFINE i == k + 1
      <3>1. i \in 1 .. n - 1 /\ HeadSorted(c, i - 1, ascend)
        BY <2>1
      <3> HIDE DEF i
      <3>2. /\ Insert(c, i, ascend) \in Arr(n) /\ Reordered(c, Insert(c, i, ascend))
            /\ HeadSorted(Insert(c, i, ascend), i, ascend)
        BY <2>1, <3>1, InsertSorts
      <3> QED
        BY <3>2 DEF i
    <2>3. Reordered(a, Insert(c, k + 1, ascend))
      BY <2>1, <2>2, ReorderedTwice
    <2> QED
      BY <2>1, <2>2, <2>3
  <1>4. InsertionSort(a, ascend) \in S[n - 1]
    <2> HIDE DEF S
    <2> QED
      BY <1>1, <1>2, <1>3, InsertionSortRule
  <1>5. HeadSorted(InsertionSort(a, ascend), n - 1, ascend)
    BY <1>1, <1>4
  <1>6. Ordered(InsertionSort(a, ascend), n, ascend)
    BY <1>5 DEF Ordered, HeadSorted
  <1> QED
    BY <1>1, <1>4, <1>6 DEF Sorts
-----------------------------------------------------------------------------
\* The inner loop of selection sort finds an element that none comes before.
LEMMA BestIsFirst ==
  ASSUME NEW n \in Nat, NEW ascend \in BOOLEAN, NEW a \in Arr(n), NEW j \in 0 .. n - 1
  PROVE  /\ Best(a, j, ascend) \in j .. n - 1
         /\ \A x \in j .. n - 1 : Rank(a[Best(a, j, ascend)], ascend) <= Rank(a[x], ascend)
  <1> DEFINE R(x) == Rank(x, ascend)
             D == 0 .. n - 1
             S == [k \in Nat |-> {m \in D : m >= j /\ \A x \in D : j <= x /\ x <= j + k => R(a[m]) <= R(a[x])}]
  <1>1. Size(a) = n /\ n - 1 - j \in Nat
    BY SizeOf DEF Arr
  <1>2. /\ \A x \in D : R(a[x]) \in Int
        /\ \A x, y \in D : Before(a[x], a[y], ascend) <=> R(a[x]) < R(a[y])
    BY RanksOf
  <1> HIDE DEF R
  <1>3. j \in S[0]
    <2>1. \A x \in D : j <= x /\ x <= j + 0 => x = j
      OBVIOUS
    <2> QED
      BY <1>2, <2>1
  <1>4. ASSUME NEW k \in 0 .. (n - 1 - j) - 1, NEW m \in S[k]
        PROVE  (IF Before(a[j + (k + 1)], a[m], ascend) THEN j + (k + 1) ELSE m) \in S[k + 1]
    <2> DEFINE z == j + (k + 1)
    <2>1. /\ k \in Nat /\ k + 1 \in Nat /\ z \in D /\ z >= j /\ m \in D /\ m >= j
          /\ \A x \in D : j <= x /\ x <= j + k => R(a[m]) <= R(a[x])
          /\ \A x \in D : j <= x /\ x <= z => x = z \/ x <= j + k
      BY <1>4
    <2> HIDE DEF z
    <2>2. CASE Before(a[z], a[m], ascend)
      <3>1. R(a[z]) < R(a[m])
        BY <1>2, <2>1, <2>2
      <3>2. \A x \in D : j <= x /\ x <= z => R(a[z]) <= R(a[x])
        BY <1>2, <2>1, <3>1
      <3>3. z \in S[k + 1]
        BY <2>1, <3>2 DEF z
      <3> QED
        BY <2>2, <3>3 DEF z
    <2>3. CASE ~Before(a[z], a[m], ascend)
      <3>1. R(a[m]) <= R(a[z])
        BY <1>2, <2>1, <2>3
      <3>2. \A x \in D : j <= x /\ x <= z => R(a[m]) <= R(a[x])
        BY <1>2, <2>1, <3>1
      <3>3. m \in S[k + 1]
        BY <2>1, <3>2 DEF z
      <3> QED
        BY <2>3, <3>3 DEF z
    <2> QED
      BY <2>2, <2>3
  <1>5. Best(a, j, ascend) \in S[n - 1 - j]
    <2> HIDE DEF S
    <2> QED
      BY <1>1, <1>3, <1>4, BestRule
  <1> DEFINE m == Best(a, j, ascend)
  <1> HIDE DEF m
  <1>6. m \in D /\ m >= j /\ \A x \in D : j <= x /\ x <= j + (n - 1 - j) => R(a[m]) <= R(a[x])
    BY <1>1, <1>5 DEF m
  <1>7. m \in j .. n - 1 /\ \A x \in j .. n - 1 : x \in D /\ j <= x /\ x <= j + (n - 1 - j)
    BY <1>6
  <1>8. \A x \in j .. n - 1 : R(a[m]) <= R(a[x])
    BY <1>6, <1>7
  <1> QED
    BY <1>7, <1>8 DEF m, R

\* The first k elements are in order and none belongs behind a later one.
LeadSorted(a, k, n, ascend) ==
  \A x, y \in 0 .. n - 1 : x < y /\ x < k => Rank(a[x], ascend) <= Rank(a[y], ascend)

\* Selection sort sorts.
LEMMA SelectionSorts ==
  ASSUME NEW n \in Nat \ {0}, NEW ascend \in BOOLEAN, NEW a \in Arr(n)
  PROVE  Sorts(a, SelectionSort(a, ascend), n, ascend)
  <1> DEFINE S == [k \in Nat |-> {c \in Arr(n) : Reordered(a, c) /\ LeadSorted(c, k, n, ascend)}]
             R(x) == Rank(x, ascend)
             D == 0 .. n - 1
  <1>1. Size(a) = n /\ n - 1 \in Nat
    BY SizeOf DEF Arr
  <1>2. a \in S[0]
    BY ReorderedItself DEF LeadSorted
  <1>3. ASSUME NEW k \in 0 .. (n - 1) - 1, NEW c \in S[k]
        PROVE  Swap(c, Best(c, k + 1 - 1, ascend), k + 1 - 1) \in S[k + 1]
    <2> DEFINE m == Best(c, k, ascend)
               d == Swap(c, m, k)
    <2>1. k + 1 - 1 = k /\ k \in D /\ k \in Nat /\ k + 1 \in Nat
      BY <1>3
    <2>2. c \in Arr(n) /\ Reordered(a, c) /\ \A x, y \in D : x < y /\ x < k => R(c[x]) <= R(c[y])
      BY <1>3, <2>1 DEF LeadSorted
    <2>3. m \in k .. n - 1 /\ \A x \in k .. n - 1 : R(c[m]) <= R(c[x])
      BY <2>1, <2>2, BestIsFirst
    <2>4. \A x \in D : R(c[x]) \in Int
      BY <2>2, RanksOf
    <2> HIDE DEF R, m
    <2>5. /\ Swap(c, m, k) \in Arr(n)
          /\ Swap(c, m, k)[m] = c[k] /\ Swap(c, m, k)[k] = c[m]
          /\ \A x \in D : x # m /\ x # k => Swap(c, m, k)[x] = c[x]
          /\ Reordered(c, Swap(c, m, k))
      <3>1. m \in D /\ k \in D
        BY <2>1, <2>3
      <3> QED
        BY <2>2, <3>1, Swaps
    <2>6. /\ d \in Arr(n) /\ d[m] = c[k] /\ d[k] = c[m]
          /\ \A x \in D : x # m /\ x # k => d[x] = c[x]
          /\ Reordered(c, d)
      BY <2>5
    <2> HIDE DEF d
    <2>7. Reordered(a, d)
      BY <2>2, <2>6, ReorderedTwice
    <2>8. ASSUME NEW x \in D, NEW y \in D, x < y, x < k + 1 PROVE R(d[x]) <= R(d[y])
      <3>1. CASE x < k
        <4>1. x # m /\ x # k /\ d[x] = c[x] /\ m \in D /\ x < m
          BY <2>3, <2>6, <3>1
        <4>2. y = k \/ y = m \/ (y # k /\ y # m)
          OBVIOUS
        <4>3. R(c[x]) <= R(c[k]) /\ R(c[x]) <= R(c[m]) /\ R(c[x]) <= R(c[y])
          BY <2>1, <2>2, <2>8, <3>1, <4>1
        <4> QED
          BY <2>6, <4>1, <4>2, <4>3
      <3>2. CASE x = k
        <4>1. d[x] = c[m] /\ y \in k .. n - 1 /\ y # k
          BY <2>6, <2>8, <3>2
        <4>2. CASE y = m
          <5>1. d[y] = c[k] /\ k \in k .. n - 1
            BY <2>1, <2>6, <4>2
          <5> QED
            BY <2>3, <4>1, <5>1
        <4>3. CASE y # m
          BY <2>3, <2>6, <4>1, <4>3
        <4> QED
          BY <4>2, <4>3
      <3> QED
        BY <2>8, <3>1, <3>2
    <2>9. LeadSorted(d, k + 1, n, ascend)
      BY <2>8 DEF LeadSorted, R
    <2>10. d \in S[k + 1]
      BY <2>1, <2>6, <2>7, <2>9
    <2> QED
      BY <2>1, <2>10 DEF d, m
  <1>4. SelectionSort(a, ascend) \in S[n - 1]
    <2> HIDE DEF S
    <2> QED
      BY <1>1, <1>2, <1>3, SelectionSortRule
  <1> DEFINE b == SelectionSort(a, ascend)
  <1> HIDE DEF b
  <1>5. b \in Arr(n) /\ Reordered(a, b) /\ LeadSorted(b, n - 1, n, ascend)
    BY <1>1, <1>4 DEF b
  <1>6. Ordered(b, n, ascend)
    BY <1>5 DEF Ordered, LeadSorted
  <1> QED
    BY <1>5, <1>6 DEF Sorts, b
-----------------------------------------------------------------------------

\* The children of x in a heap.
Child(x, y) == y = 2 * x + 1 \/ y = 2 * x + 2

\* From low on no node below high belongs before a child of its.
HeapFrom(a, low, high, ascend) ==
  \A x, y \in 0 .. high - 1 : low <= x /\ Child(x, y) => Rank(a[y], ascend) <= Rank(a[x], ascend)

\* b is a with elements from low to below high at other places in there.
Inside(a, b, low, high, n) ==
  /\ \A x \in 0 .. n - 1 : x < low \/ x >= high => b[x] = a[x]
  /\ \A x \in low .. high - 1 : \E y \in low .. high - 1 : b[x] = a[y]

\* The array with the element that sinks, p, in the hole at h.
Filled(s, p) == [s.list EXCEPT ![s.low] = p]

\* What holds after k steps of percolate.
Sifting(a, s, p, low, high, k, n, ascend) ==
  LET f == Filled(s, p)
      h == s.low
  IN  /\ s.list \in Arr(n) /\ h \in low .. high - 1
      /\ f \in Arr(n) /\ Reordered(a, f) /\ Inside(a, f, low, high, n)
      /\ \A x, y \in 0 .. high - 1 :
           low <= x /\ x # h /\ Child(x, y) => Rank(f[y], ascend) <= Rank(f[x], ascend)
      /\ \A x, y \in 0 .. high - 1 :
           low <= x /\ Child(x, h) /\ Child(h, y) => Rank(f[y], ascend) <= Rank(f[x], ascend)
      /\ \/ h >= low + k
         \/ \A y \in 0 .. high - 1 : Child(h, y) => Rank(f[y], ascend) <= Rank(f[h], ascend)

\* A step of percolate keeps the heap but for the hole, or ends it.
LEMMA SiftRound ==
  ASSUME NEW n \in Nat, NEW ascend \in BOOLEAN, NEW a \in Arr(n), NEW high \in 1 .. n,
         NEW low \in 0 .. high - 1, NEW p \in Elem, NEW k \in Nat, NEW s,
         s \in [list : Arr(n), low : low .. high - 1],
         Sifting(a, s, p, low, high, k, n, ascend)
  PROVE  /\ Sift(s, p, high, ascend) \in [list : Arr(n), low : low .. high - 1]
         /\ Sifting(a, Sift(s, p, high, ascend), p, low, high, k + 1, n, ascend)
  <1> DEFINE R(x) == Rank(x, ascend)
             D == 0 .. n - 1
             H == 0 .. high - 1
             l == s.list
             h == s.low
             f == Filled(s, p)
             left == 2 * h + 1
             q == IF left # high - 1 /\ Before(l[left], l[left + 1], ascend) THEN left + 1 ELSE left
             g == [l EXCEPT ![h] = l[q]]
             t == [list |-> g, low |-> q]
             e == Swap(f, h, q)
  <1>1. /\ l \in Arr(n) /\ h \in low .. high - 1
        /\ f \in Arr(n) /\ Reordered(a, f) /\ Inside(a, f, low, high, n)
        /\ \A x, y \in H : low <= x /\ x # h /\ Child(x, y) => R(f[y]) <= R(f[x])
        /\ \A x, y \in H : low <= x /\ Child(x, h) /\ Child(h, y) => R(f[y]) <= R(f[x])
        /\ \/ h >= low + k
           \/ \A y \in H : Child(h, y) => R(f[y]) <= R(f[h])
    BY DEF Sifting
  <1>2. h \in H /\ h \in D /\ h \in Nat /\ \A x \in H : x \in D
    BY <1>1
  <1>3. f[h] = p /\ \A x \in D : x # h => f[x] = l[x]
    <2>1. l \in [D -> Elem]
      BY <1>1 DEF Arr
    <2> HIDE DEF D, l, h
    <2>2. f = [l EXCEPT ![h] = p]
      BY DEF Filled, l, h
    <2> QED
      BY <1>2, <2>1, <2>2
  <1>4. /\ \A x \in D : f[x] \in Elem /\ R(f[x]) \in Int
        /\ \A x, y \in D : Before(f[x], f[y], ascend) <=> R(f[x]) < R(f[y])
    BY <1>1, RanksOf
  <1>5. \A y \in H : Child(h, y) <=> y = left \/ y = left + 1
    BY <1>2 DEF Child
  <1>6. left \in Nat /\ left > h
    BY <1>2
  <1>7. Sift(s, p, high, ascend) = IF left < high /\ Before(p, l[q], ascend) THEN t ELSE s
    BY DEF Sift
  <1> HIDE DEF f, t, R
  \* The child that is looked at belongs before no other child.
  <1>8. ASSUME left < high
        PROVE  /\ q \in H /\ q \in D /\ q > h /\ Child(h, q) /\ l[q] = f[q]
               /\ \A y \in H : Child(h, y) => R(f[y]) <= R(f[q])
    <2> HIDE DEF h, l
    <2>1. left \in H /\ left \in D /\ left # h /\ f[left] = l[left] /\ Child(h, left)
      BY <1>2, <1>3, <1>5, <1>6, <1>8
    <2>2. CASE left = high - 1
      <3>1. q = left /\ \A y \in H : Child(h, y) => y = left
        BY <1>5, <1>6, <2>2
      <3> HIDE DEF q, left
      <3> QED
        BY <1>4, <1>6, <2>1, <3>1
    <2>3. CASE left # high - 1
      <3> DEFINE right == left + 1
      <3>1. right \in H /\ right \in D /\ right # h /\ right > h /\ Child(h, right)
        BY <1>2, <1>5, <1>6, <1>8, <2>3
      <3>2. f[right] = l[right]
        <4> HIDE DEF right
        <4> QED
          BY <1>3, <3>1
      <3>3. q = IF Before(f[left], f[right], ascend) THEN right ELSE left
        BY <2>1, <2>3, <3>2
      <3>4. \A y \in H : Child(h, y) => y = left \/ y = right
        BY <1>5
      <3> HIDE DEF q, left, right
      <3>5. Before(f[left], f[right], ascend) <=> R(f[left]) < R(f[right])
        BY <1>4, <2>1, <3>1
      <3>6. R(f[left]) \in Int /\ R(f[right]) \in Int
        BY <1>4, <2>1, <3>1
      <3>7. CASE R(f[left]) < R(f[right])
        BY <1>6, <2>1, <3>1, <3>2, <3>3, <3>4, <3>5, <3>6, <3>7
      <3>8. CASE ~ (R(f[left]) < R(f[right]))
        BY <1>6, <2>1, <3>1, <3>2, <3>3, <3>4, <3>5, <3>6, <3>8
      <3> QED
        BY <3>7, <3>8
    <2> QED
      BY <2>2, <2>3
  <1>9. CASE left < high /\ Before(p, l[q], ascend)
    <2>1. /\ q \in H /\ q \in D /\ q > h /\ Child(h, q) /\ l[q] = f[q]
          /\ \A y \in H : Child(h, y) => R(f[y]) <= R(f[q])
      BY <1>8, <1>9
    <2> HIDE DEF q, left, h, l
    <2>2. R(f[h]) < R(f[q])
      BY <1>2, <1>3, <1>4, <1>9, <2>1
    <2>3. /\ Swap(f, h, q) \in Arr(n)
          /\ Swap(f, h, q)[h] = f[q] /\ Swap(f, h, q)[q] = f[h]
          /\ \A x \in D : x # h /\ x # q => Swap(f, h, q)[x] = f[x]
          /\ Reordered(f, Swap(f, h, q))
      BY <1>1, <1>2, <2>1, Swaps
    <2>4. t.list = g /\ t.low = q /\ t \in [list : Arr(n), low : low .. high - 1] /\ g \in Arr(n)
      <3>1. g \in Arr(n)
        <4>1. l \in [D -> Elem] /\ l[q] \in Elem
          BY <1>1, <2>1 DEF Arr
        <4> HIDE DEF D
        <4>2. g \in [D -> Elem]
          BY <1>2, <4>1
        <4> HIDE DEF g
        <4> QED
          BY <4>2 DEF Arr, D
      <3>2. q \in low .. high - 1
        BY <1>1, <2>1
      <3> HIDE DEF g
      <3> QED
        BY <3>1, <3>2 DEF t
    <2>5. Filled(t, p) = e
      <3>1. l \in [D -> Elem] /\ f \in [D -> Elem]
        BY <1>1 DEF Arr
      <3> HIDE DEF D
      <3>2. Filled(t, p) = [g EXCEPT ![q] = p] /\ g = [l EXCEPT ![h] = l[q]]
        BY <2>4 DEF Filled
      <3>3. e = [f EXCEPT ![h] = f[q], ![q] = f[h]]
        BY DEF Swap
      <3>4. e \in [D -> Elem] /\ Filled(t, p) \in [D -> Elem]
        BY <1>2, <2>1, <3>1, <3>2, <3>3
      <3>5. ASSUME NEW x \in D PROVE Filled(t, p)[x] = e[x]
        <4>1. CASE x = q
          BY <1>2, <1>3, <2>1, <2>3, <3>1, <3>2, <4>1
        <4>2. CASE x = h
          BY <1>2, <1>3, <2>1, <2>3, <3>1, <3>2, <4>2
        <4>3. CASE x # q /\ x # h
          BY <1>2, <1>3, <2>1, <2>3, <3>1, <3>2, <4>3
        <4> QED
          BY <4>1, <4>2, <4>3
      <3> HIDE DEF e
      <3> QED
        BY <3>4, <3>5
    <2>6. /\ e \in Arr(n) /\ Reordered(f, e) /\ e[h] = f[q] /\ e[q] = f[h]
          /\ \A x \in D : x # h /\ x # q => e[x] = f[x]
      BY <2>3
    <2> HIDE DEF e, g
    <2>7. Reordered(a, e)
      BY <1>1, <2>6, ReorderedTwice
    <2>8. Inside(a, e, low, high, n)
      <3>1. /\ \A x \in D : x < low \/ x >= high => f[x] = a[x]
            /\ \A x \in low .. high - 1 : \E y \in low .. high - 1 : f[x] = a[y]
        BY <1>1 DEF Inside
      <3>2. q \in low .. high - 1 /\ h \in low .. high - 1
        BY <1>1, <2>1
      <3>3. ASSUME NEW x \in D, x < low \/ x >= high PROVE e[x] = a[x]
        <4>1. x # h /\ x # q
          BY <3>2, <3>3
        <4> QED
          BY <2>6, <3>1, <3>3, <4>1
      <3>4. ASSUME NEW x \in low .. high - 1 PROVE \E y \in low .. high - 1 : e[x] = a[y]
        <4>1. x \in D
          OBVIOUS
        <4>2. e[x] = f[x] \/ e[x] = f[h] \/ e[x] = f[q]
          BY <2>6, <4>1
        <4> QED
          BY <3>1, <3>2, <4>2
      <3> QED
        BY <3>3, <3>4 DEF Inside
    <2>9. ASSUME NEW x \in H, NEW y \in H, low <= x, x # q, Child(x, y) PROVE R(e[y]) <= R(e[x])
      <3>1. CASE x = h
        <4>1. CASE y = q
          BY <1>2, <1>4, <2>1, <2>2, <2>6, <3>1, <4>1
        <4>2. CASE y # q
          <5>1. y # h
            BY <1>2, <2>9, <3>1 DEF Child
          <5>2. e[y] = f[y]
            BY <1>2, <2>6, <4>2, <5>1
          <5> QED
            BY <2>1, <2>6, <2>9, <3>1, <5>2
        <4> QED
          BY <4>1, <4>2
      <3>2. CASE x # h /\ y = h
        <4>1. e[x] = f[x] /\ e[y] = f[q]
          BY <1>2, <2>6, <2>9, <3>2
        <4> QED
          BY <1>1, <2>1, <2>9, <3>2, <4>1
      <3>3. CASE x # h /\ y # h
        <4>1. y # q
          BY <1>2, <2>1, <2>9, <3>3 DEF Child
        <4>2. e[x] = f[x] /\ e[y] = f[y]
          BY <1>2, <2>6, <2>9, <3>3, <4>1
        <4> QED
          BY <1>1, <2>9, <3>3, <4>2
      <3> QED
        BY <3>1, <3>2, <3>3
    <2>10. ASSUME NEW x \in H, NEW y \in H, low <= x, Child(x, q), Child(q, y) PROVE R(e[y]) <= R(e[x])
      <3>1. x = h
        BY <1>2, <2>1, <2>10 DEF Child
      <3>2. y # q /\ y # h
        BY <1>2, <2>1, <2>10 DEF Child
      <3>3. e[x] = f[q] /\ e[y] = f[y]
        BY <1>2, <2>6, <3>1, <3>2
      <3>4. low <= q /\ q # h
        BY <1>1, <2>1
      <3> QED
        BY <1>1, <2>1, <2>10, <3>3, <3>4
    <2>11. q >= low + (k + 1)
      <3>1. ~ \A y \in H : Child(h, y) => R(f[y]) <= R(f[h])
        BY <1>2, <1>4, <2>1, <2>2
      <3>2. h >= low + k
        BY <1>1, <3>1
      <3> QED
        BY <1>2, <2>1, <3>2
    <2>12. Sifting(a, t, p, low, high, k + 1, n, ascend)
      <3>1. q \in low .. high - 1
        BY <1>1, <2>1
      <3> QED
        BY <2>4, <2>5, <2>6, <2>7, <2>8, <2>9, <2>10, <2>11, <3>1 DEF Sifting, R
    <2> QED
      BY <1>7, <1>9, <2>4, <2>12
  <1>10. CASE ~ (left < high /\ Before(p, l[q], ascend))
    <2>1. Sift(s, p, high, ascend) = s
      BY <1>7, <1>10
    <2>2. ASSUME NEW y \in H, Child(h, y) PROVE R(f[y]) <= R(f[h])
      <3>1. left < high
        BY <1>5, <1>6, <2>2
      <3>2. /\ q \in D /\ l[q] = f[q] /\ R(f[y]) <= R(f[q])
        BY <1>8, <2>2, <3>1
      <3>3. ~Before(f[h], f[q], ascend)
        BY <1>3, <1>10, <3>1, <3>2
      <3>4. y \in D
        BY <1>2
      <3> HIDE DEF q, left, h, l
      <3> QED
        BY <1>2, <1>4, <3>2, <3>3, <3>4
    <2>3. Sifting(a, s, p, low, high, k + 1, n, ascend)
      BY <1>1, <2>2 DEF Sifting, R, f
    <2> QED
      BY <2>1, <2>3
  <1> QED
    BY <1>9, <1>10
-----------------------------------------------------------------------------
\* Percolating an element makes the heap one element larger.
LEMMA PercolateHeaps ==
  ASSUME NEW n \in Nat, NEW ascend \in BOOLEAN, NEW a \in Arr(n), NEW high \in 1 .. n,
         NEW low \in 0 .. high - 1, HeapFrom(a, low + 1, high, ascend)
  PROVE  LET b == Percolate(a, low, high, ascend)
         IN  /\ b \in Arr(n) /\ Reordered(a, b) /\ Inside(a, b, low, high, n)
             /\ HeapFrom(b, low, high, ascend)
  <1> DEFINE b == Percolate(a, low, high, ascend)
             p == a[low]
             States == [list : Arr(n), low : low .. high - 1]
             S == [k \in Nat |-> {s \in States : Sifting(a, s, p, low, high, k, n, ascend)}]
             start == [list |-> a, low |-> low]
             R(x) == Rank(x, ascend)
             H == 0 .. high - 1
  <1>1. high \in Nat /\ low \in 0 .. n - 1 /\ p \in Elem
    BY RanksOf
  <1>2. start \in S[0]
    <2>1. start \in States /\ start.list = a /\ start.low = low
      OBVIOUS
    <2> HIDE DEF start, States
    <2>2. Filled(start, p) = a
      <3>1. [a EXCEPT ![low] = a[low]] = a
        <4>1. a \in [0 .. n - 1 -> Elem]
          BY DEF Arr
        <4> QED
          BY <1>1, <4>1
      <3> QED
        BY <2>1, <3>1 DEF Filled
    <2>3. Inside(a, a, low, high, n)
      BY DEF Inside
    <2>4. \A x, y \in H : low <= x /\ x # low /\ Child(x, y) => R(a[y]) <= R(a[x])
      BY DEF HeapFrom
    <2>5. \A x \in H : ~ (low <= x /\ Child(x, low))
      BY DEF Child
    <2>6. low \in low .. high - 1 /\ low >= low + 0
      OBVIOUS
    <2>7. Sifting(a, start, p, low, high, 0, n, ascend)
      BY <2>1, <2>2, <2>3, <2>4, <2>5, <2>6, ReorderedItself DEF Sifting
    <2> QED
      BY <2>1, <2>7
  <1>3. ASSUME NEW k \in 0 .. high - 1, NEW s \in S[k] PROVE Sift(s, a[low], high, ascend) \in S[k + 1]
    <2>1. k \in Nat /\ k + 1 \in Nat /\ s \in States /\ Sifting(a, s, p, low, high, k, n, ascend)
      BY <1>3
    <2>2. /\ Sift(s, p, high, ascend) \in States
          /\ Sifting(a, Sift(s, p, high, ascend), p, low, high, k + 1, n, ascend)
      <3> HIDE DEF p
      <3> QED
        BY <1>1, <2>1, SiftRound
    <2> HIDE DEF States
    <2> QED
      BY <2>1, <2>2
  <1>4. \E r \in S[high] : b = [r.list EXCEPT ![r.low] = a[low]]
    <2> HIDE DEF S
    <2> QED
      BY <1>1, <1>2, <1>3, PercolateRule
  <1>5. PICK r \in S[high] : b = Filled(r, p)
    BY <1>4 DEF Filled
  <1>6. Sifting(a, r, p, low, high, high, n, ascend)
    BY <1>1, <1>5
  <1> DEFINE h == r.low
  <1>7. /\ h \in low .. high - 1
        /\ b \in Arr(n) /\ Reordered(a, b) /\ Inside(a, b, low, high, n)
        /\ \A x, y \in H : low <= x /\ x # h /\ Child(x, y) => R(b[y]) <= R(b[x])
        /\ \/ h >= low + high
           \/ \A y \in H : Child(h, y) => R(b[y]) <= R(b[h])
    BY <1>5, <1>6 DEF Sifting
  <1> HIDE DEF b, h, S, R
  <1>8. \A x, y \in H : low <= x /\ Child(x, y) => R(b[y]) <= R(b[x])
    BY <1>7
  <1>9. HeapFrom(b, low, high, ascend)
    BY <1>8 DEF HeapFrom, R
  <1> QED
    BY <1>7, <1>9 DEF b

\* The first loop of heap sort makes the array a heap.
LEMMA HeapMade ==
  ASSUME NEW n \in Nat \ {0}, NEW ascend \in BOOLEAN, NEW a \in Arr(n)
  PROVE  LET b == MakeHeap(a, n, ascend)
         IN  b \in Arr(n) /\ Reordered(a, b) /\ HeapFrom(b, 0, n, ascend)
  <1> DEFINE b == MakeHeap(a, n, ascend)
             m == Parents(n)
             S == [k \in Nat |-> {c \in Arr(n) : Reordered(a, c) /\ HeapFrom(c, m - k, n, ascend)}]
  <1>1. m \in 1 .. n /\ 2 * m >= n + 1
    BY DEF Parents
  <1> HIDE DEF m
  <1>2. a \in S[0]
    <2>1. \A x, y \in 0 .. n - 1 : ~ (m - 0 <= x /\ Child(x, y))
      BY <1>1 DEF Child
    <2>2. HeapFrom(a, m - 0, n, ascend)
      BY <2>1 DEF HeapFrom
    <2> QED
      BY <2>2, ReorderedItself
  <1>3. ASSUME NEW k \in 0 .. m - 1, NEW c \in S[k]
        PROVE  Percolate(c, m - (k + 1), n, ascend) \in S[k + 1]
    <2> DEFINE low == m - (k + 1)
               d == Percolate(c, low, n, ascend)
    <2>1. k + 1 \in Nat /\ low \in 0 .. n - 1 /\ low + 1 = m - k /\ n \in 1 .. n /\ n \in Nat
      BY <1>1
    <2>2. c \in Arr(n) /\ Reordered(a, c) /\ HeapFrom(c, low + 1, n, ascend)
      BY <1>1, <1>3, <2>1
    <2> HIDE DEF low
    <2>3. d \in Arr(n) /\ Reordered(c, d) /\ HeapFrom(d, low, n, ascend)
      BY <2>1, <2>2, PercolateHeaps
    <2> HIDE DEF d
    <2>4. Reordered(a, d)
      BY <2>2, <2>3, ReorderedTwice
    <2>5. d \in S[k + 1]
      BY <2>1, <2>3, <2>4 DEF low
    <2> QED
      BY <2>5 DEF d, low
  <1>4. m \in Nat
    BY <1>1
  <1>5. b \in S[m]
    <2> HIDE DEF S
    <2> QED
      BY <1>2, <1>3, <1>4, MakeHeapRule DEF m
  <1> HIDE DEF b
  <1>6. m - m = 0
    BY <1>1
  <1> QED
    BY <1>4, <1>5, <1>6 DEF b

\* No element of a heap belongs behind its top.
LEMMA TopOfHeap ==
  ASSUME NEW n \in Nat, NEW ascend \in BOOLEAN, NEW a \in Arr(n), NEW high \in 1 .. n,
         HeapFrom(a, 0, high, ascend)
  PROVE  \A x \in 0 .. high - 1 : Rank(a[x], ascend) <= Rank(a[0], ascend)
  <1> DEFINE R(x) == Rank(x, ascend)
             T == {d \in Nat : \A x \in 0 .. high - 1 : x <= d => R(a[x]) <= R(a[0])}
  <1>1. \A x \in 0 .. high - 1 : R(a[x]) \in Int
    <2>1. \A x \in 0 .. high - 1 : x \in 0 .. n - 1
      OBVIOUS
    <2> QED
      BY <2>1, RanksOf
  <1>2. \A x, y \in 0 .. high - 1 : Child(x, y) => R(a[y]) <= R(a[x])
    BY DEF HeapFrom
  <1> HIDE DEF R
  <1>3. 0 \in T
    <2>1. \A x \in 0 .. high - 1 : x <= 0 => x = 0
      OBVIOUS
    <2> QED
      BY <1>1, <2>1
  <1>4. ASSUME NEW d \in T PROVE d + 1 \in T
    <2>1. d \in Nat /\ \A x \in 0 .. high - 1 : x <= d => R(a[x]) <= R(a[0])
      BY <1>4
    <2>2. ASSUME NEW x \in 0 .. high - 1, x <= d + 1 PROVE R(a[x]) <= R(a[0])
      <3>1. CASE x <= d
        BY <2>1, <3>1
      <3>2. CASE x = d + 1
        <4> DEFINE y == (x - 1) \div 2
        <4>1. x - 1 \in Nat
          BY <2>1, <3>2
        <4>2. y \in Nat /\ (x - 1 = 2 * y \/ x - 1 = 2 * y + 1)
          <5> DEFINE z == x - 1
          <5>1. z \in Nat
            BY <4>1
          <5> HIDE DEF z
          <5>2. z \div 2 \in Nat /\ (z = 2 * (z \div 2) \/ z = 2 * (z \div 2) + 1)
            BY <5>1
          <5> QED
            BY <5>2 DEF z
        <4> HIDE DEF y
        <4>3. y \in 0 .. high - 1 /\ y <= d /\ (x = 2 * y + 1 \/ x = 2 * y + 2)
          BY <2>1, <3>2, <4>1, <4>2
        <4>4. Child(y, x)
          BY <4>3 DEF Child
        <4>5. R(a[x]) <= R(a[y]) /\ R(a[y]) <= R(a[0])
          BY <1>2, <2>1, <4>3, <4>4
        <4>6. 0 \in 0 .. high - 1
          OBVIOUS
        <4> QED
          BY <1>1, <4>3, <4>5, <4>6
      <3> QED
        BY <2>1, <2>2, <3>1, <3>2
    <2> QED
      BY <2>1, <2>2
  <1>5. T = Nat
    <2>1. T \subseteq Nat
      OBVIOUS
    <2> HIDE DEF T
    <2> QED
      BY <1>3, <1>4, <2>1, Induction
  <1> SUFFICES ASSUME NEW x \in 0 .. high - 1 PROVE R(a[x]) <= R(a[0])
    BY DEF R
  <1>6. x \in T
    BY <1>5
  <1> QED
    BY <1>6

\* The top of a heap goes behind it, where the sorted elements begin.
LEMMA TopGoesBehind ==
  ASSUME NEW n \in Nat, NEW ascend \in BOOLEAN, NEW c \in Arr(n), NEW high \in 1 .. n - 1,
         HeapFrom(c, 0, high + 1, ascend), TailSorted(c, high + 1, n, ascend)
  PROVE  LET e == Percolate(Swap(c, 0, high), 0, high, ascend)
         IN  /\ e \in Arr(n) /\ Reordered(c, e)
             /\ HeapFrom(e, 0, high, ascend) /\ TailSorted(e, high, n, ascend)
  <1> DEFINE R(x) == Rank(x, ascend)
             D == 0 .. n - 1
             d == Swap(c, 0, high)
             e == Percolate(d, 0, high, ascend)
  <1>1. 0 \in D /\ high \in D /\ high + 1 \in 1 .. n /\ high # 0 /\ (high + 1) - 1 = high
        /\ high \in 1 .. n /\ 0 \in 0 .. high - 1
    OBVIOUS
  <1>2. /\ \A x, y \in 0 .. high : Child(x, y) => R(c[y]) <= R(c[x])
        /\ \A x, y \in D : x < y /\ y >= high + 1 => R(c[x]) <= R(c[y])
    BY <1>1 DEF HeapFrom, TailSorted
  <1>3. \A x \in 0 .. high : R(c[x]) <= R(c[0])
    <2> DEFINE z == high + 1
    <2>1. z \in 1 .. n /\ HeapFrom(c, 0, z, ascend) /\ z - 1 = high
      BY <1>1
    <2> HIDE DEF z
    <2>2. \A x \in 0 .. z - 1 : Rank(c[x], ascend) <= Rank(c[0], ascend)
      BY <2>1, TopOfHeap
    <2> QED
      BY <2>1, <2>2
  <1>4. /\ Swap(c, 0, high) \in Arr(n)
        /\ Swap(c, 0, high)[0] = c[high] /\ Swap(c, 0, high)[high] = c[0]
        /\ \A x \in D : x # 0 /\ x # high => Swap(c, 0, high)[x] = c[x]
        /\ Reordered(c, Swap(c, 0, high))
    BY <1>1, Swaps
  <1>5. \A x \in D : R(c[x]) \in Int
    BY RanksOf
  <1> HIDE DEF d, R
  <1>6. /\ d \in Arr(n) /\ d[0] = c[high] /\ d[high] = c[0]
        /\ \A x \in D : x # 0 /\ x # high => d[x] = c[x]
        /\ Reordered(c, d)
    BY <1>4 DEF d
  <1>7. HeapFrom(d, 0 + 1, high, ascend)
    <2> SUFFICES ASSUME NEW x \in 0 .. high - 1, NEW y \in 0 .. high - 1, 0 + 1 <= x, Child(x, y)
                 PROVE  R(d[y]) <= R(d[x])
      BY DEF HeapFrom, R
    <2>1. x \in D /\ y \in D /\ x # 0 /\ x # high /\ y # 0 /\ y # high /\ x \in 0 .. high /\ y \in 0 .. high
      BY DEF Child
    <2> QED
      BY <1>2, <1>6, <2>1
  <1>8. /\ e \in Arr(n) /\ Reordered(d, e) /\ Inside(d, e, 0, high, n)
        /\ HeapFrom(e, 0, high, ascend)
    BY <1>1, <1>6, <1>7, PercolateHeaps
  <1> HIDE DEF e
  <1>9. Reordered(c, e)
    BY <1>6, <1>8, ReorderedTwice
  <1>10. /\ \A x \in D : x >= high => e[x] = d[x]
         /\ \A x \in 0 .. high - 1 : \E y \in 0 .. high - 1 : e[x] = d[y]
    BY <1>8 DEF Inside
  \* What stands before high in d stands up to high in c.
  <1>11. \A x \in 0 .. high - 1 : \E y \in 0 .. high : d[x] = c[y]
    <2> SUFFICES ASSUME NEW x \in 0 .. high - 1 PROVE \E y \in 0 .. high : d[x] = c[y]
      OBVIOUS
    <2>1. CASE x = 0
      BY <1>6, <2>1
    <2>2. CASE x # 0
      <3>1. x \in D /\ x # high /\ x \in 0 .. high
        OBVIOUS
      <3> QED
        BY <1>6, <2>2, <3>1
    <2> QED
      BY <2>1, <2>2
  <1>12. ASSUME NEW x \in D, NEW y \in D, x < y, y >= high PROVE R(e[x]) <= R(e[y])
    <2>1. CASE x < high
      <3>1. x \in 0 .. high - 1
        BY <2>1
      <3>2. PICK z \in 0 .. high : e[x] = c[z]
        BY <1>10, <1>11, <3>1
      <3>3. CASE y = high
        BY <1>3, <1>6, <1>10, <3>2, <3>3
      <3>4. CASE y # high
        <4>1. e[y] = c[y] /\ z \in D /\ z < y /\ y >= high + 1
          BY <1>6, <1>10, <1>12, <3>4
        <4> QED
          BY <1>2, <3>2, <4>1
      <3> QED
        BY <3>3, <3>4
    <2>2. CASE x >= high
      <3>1. y # high /\ y # 0 /\ y >= high + 1 /\ e[y] = c[y]
        BY <1>6, <1>10, <1>12, <2>2
      <3>2. CASE x = high
        <4>1. e[x] = c[0] /\ 0 < y
          BY <1>6, <1>10, <1>12, <2>2, <3>2
        <4> QED
          BY <1>1, <1>2, <3>1, <4>1
      <3>3. CASE x # high
        <4>1. e[x] = c[x]
          BY <1>6, <1>10, <2>2, <3>3
        <4> QED
          BY <1>2, <1>12, <3>1, <4>1
      <3> QED
        BY <3>2, <3>3
    <2> QED
      BY <2>1, <2>2
  <1>13. TailSorted(e, high, n, ascend)
    BY <1>12 DEF TailSorted, R
  <1> QED
    BY <1>8, <1>9, <1>13 DEF e, d

\* Heap sort sorts.
LEMMA HeapSorts ==
  ASSUME NEW n \in Nat \ {0}, NEW ascend \in BOOLEAN, NEW a \in Arr(n)
  PROVE  Sorts(a, HeapSort(a, ascend), n, ascend)
  <1> DEFINE S == [k \in Nat |-> {c \in Arr(n) : /\ Reordered(a, c) /\ HeapFrom(c, 0, n - k, ascend)
                                                 /\ TailSorted(c, n - k, n, ascend)}]
             b == HeapSort(a, ascend)
             m == MakeHeap(a, n, ascend)
  <1>1. Size(a) = n /\ n - 1 \in Nat /\ n - 0 = n /\ n \in Nat
    BY SizeOf DEF Arr
  <1>2. m \in S[0]
    <2>1. m \in Arr(n) /\ Reordered(a, m) /\ HeapFrom(m, 0, n, ascend)
      BY HeapMade
    <2> HIDE DEF m
    <2>2. TailSorted(m, n, n, ascend)
      BY DEF TailSorted
    <2> QED
      BY <1>1, <2>1, <2>2
  <1>3. ASSUME NEW k \in 0 .. (n - 1) - 1, NEW c \in S[k]
        PROVE  Percolate(Swap(c, 0, n - (k + 1)), 0, n - (k + 1), ascend) \in S[k + 1]
    <2> DEFINE high == n - (k + 1)
               e == Percolate(Swap(c, 0, high), 0, high, ascend)
    <2>1. k \in Nat /\ k + 1 \in Nat /\ high \in 1 .. n - 1 /\ high + 1 = n - k
      BY <1>3
    <2>2. /\ c \in Arr(n) /\ Reordered(a, c)
          /\ HeapFrom(c, 0, high + 1, ascend) /\ TailSorted(c, high + 1, n, ascend)
      BY <1>3, <2>1
    <2> HIDE DEF high
    <2>3. /\ e \in Arr(n) /\ Reordered(c, e)
          /\ HeapFrom(e, 0, high, ascend) /\ TailSorted(e, high, n, ascend)
      BY <1>1, <2>1, <2>2, TopGoesBehind
    <2> HIDE DEF e
    <2>4. Reordered(a, e)
      BY <2>2, <2>3, ReorderedTwice
    <2>5. e \in S[k + 1]
      BY <2>1, <2>3, <2>4 DEF high
    <2> QED
      BY <2>5 DEF e, high
  <1>4. b \in S[n - 1]
    <2> HIDE DEF S
    <2> QED
      BY <1>1, <1>2, <1>3, HeapSortRule
  <1> HIDE DEF b
  <1>5. b \in Arr(n) /\ Reordered(a, b) /\ TailSorted(b, 1, n, ascend)
    <2>1. n - (n - 1) = 1
      BY <1>1
    <2> QED
      BY <1>1, <1>4, <2>1
  <1>6. Ordered(b, n, ascend)
    BY <1>5 DEF Ordered, TailSorted
  <1> QED
    BY <1>5, <1>6 DEF Sorts, b
-----------------------------------------------------------------------------
\* A scan ends where it should when there is something to stop it.
LEMMA ScansUp ==
  ASSUME NEW n \in Nat, NEW ascend \in BOOLEAN, NEW a \in Arr(n), NEW pivot \in Elem,
         NEW i \in 0 .. n - 1, NEW w \in i .. n - 1, Rank(pivot, ascend) <= Rank(a[w], ascend)
  PROVE  LET up == ScanUp(a, i, pivot, ascend)
         IN  /\ up \in i .. w /\ Rank(pivot, ascend) <= Rank(a[up], ascend)
             /\ \A y \in i .. up - 1 : Rank(a[y], ascend) < Rank(pivot, ascend)
  <1> DEFINE R(x) == Rank(x, ascend)
             Ends(x) == ~Before(a[x], pivot, ascend) /\ \A y \in i .. x - 1 : Before(a[y], pivot, ascend)
             up == ScanUp(a, i, pivot, ascend)
             T == {x \in i .. n - 1 : ~Before(a[x], pivot, ascend)}
  <1>1. \A x \in i .. n - 1 : R(a[x]) \in Int /\ (Before(a[x], pivot, ascend) <=> R(a[x]) < R(pivot))
    <2>1. \A x \in i .. n - 1 : x \in 0 .. n - 1
      OBVIOUS
    <2>2. \A x \in 0 .. n - 1 : a[x] \in Elem
      BY RanksOf
    <2>3. \A x \in i .. n - 1 : a[x] \in Elem
      BY <2>1, <2>2
    <2> QED
      BY <2>3, Ranks
  <1>2. R(pivot) \in Int
    BY Ranks
  <1> HIDE DEF R
  <1>3. T \subseteq Nat /\ w \in T
    BY <1>1, <1>2 DEF R
  <1>4. PICK x \in T : \A y \in T : x <= y
    <2> HIDE DEF T
    <2> QED
      BY <1>3, LeastOf
  <1>5. x \in i .. n - 1 /\ ~Before(a[x], pivot, ascend)
    OBVIOUS
  <1>6. ASSUME NEW y \in i .. x - 1 PROVE Before(a[y], pivot, ascend)
    <2>1. y \in i .. n - 1 /\ ~ (x <= y)
      BY <1>5
    <2> QED
      BY <1>4, <2>1
  <1>7. \E z \in i .. n - 1 : Ends(z)
    BY <1>5, <1>6
  <1>8. up = CHOOSE z \in i .. n - 1 : Ends(z)
    BY SizeOf DEF ScanUp, Arr
  <1> HIDE DEF up
  <1>9. up \in i .. n - 1 /\ Ends(up)
    <2> HIDE DEF Ends
    <2> QED
      BY <1>7, <1>8
  <1>10. up <= w
    <2> SUFFICES ASSUME w < up PROVE FALSE
      BY <1>9
    <2>1. w \in i .. up - 1
      BY <1>9
    <2>2. R(a[w]) < R(pivot)
      BY <1>1, <1>9, <2>1
    <2> QED
      BY <1>1, <1>2, <2>2 DEF R
  <1>11. \A y \in i .. up - 1 : R(a[y]) < R(pivot)
    BY <1>1, <1>9
  <1>12. R(pivot) <= R(a[up])
    BY <1>1, <1>2, <1>9
  <1> QED
    BY <1>9, <1>10, <1>11, <1>12 DEF R, up

\* The scan from the right stops at an element that does not belong there.
LEMMA ScansDown ==
  ASSUME NEW n \in Nat, NEW ascend \in BOOLEAN, NEW a \in Arr(n), NEW pivot \in Elem,
         NEW j \in 0 .. n - 1, NEW w \in 0 .. j, Rank(a[w], ascend) <= Rank(pivot, ascend)
  PROVE  LET down == ScanDown(a, j, pivot, ascend)
         IN  /\ down \in w .. j /\ Rank(a[down], ascend) <= Rank(pivot, ascend)
             /\ \A y \in down + 1 .. j : Rank(pivot, ascend) < Rank(a[y], ascend)
  <1> DEFINE R(x) == Rank(x, ascend)
             Ends(x) == ~Before(pivot, a[x], ascend) /\ \A y \in x + 1 .. j : Before(pivot, a[y], ascend)
             down == ScanDown(a, j, pivot, ascend)
             T == {d \in Nat : d <= j /\ ~Before(pivot, a[j - d], ascend)}
  <1>1. \A x \in 0 .. j : R(a[x]) \in Int /\ (Before(pivot, a[x], ascend) <=> R(pivot) < R(a[x]))
    <2>1. \A x \in 0 .. j : x \in 0 .. n - 1
      OBVIOUS
    <2>2. \A x \in 0 .. n - 1 : a[x] \in Elem
      BY RanksOf
    <2>3. \A x \in 0 .. j : a[x] \in Elem
      BY <2>1, <2>2
    <2> QED
      BY <2>3, Ranks
  <1>2. R(pivot) \in Int
    BY Ranks
  <1> HIDE DEF R
  <1>3. T \subseteq Nat /\ j - w \in T
    <2>1. j - w \in Nat /\ j - w <= j /\ j - (j - w) = w
      OBVIOUS
    <2>2. ~Before(pivot, a[w], ascend)
      BY <1>1, <1>2 DEF R
    <2> QED
      BY <2>1, <2>2
  <1>4. PICK d \in T : \A y \in T : d <= y
    <2> HIDE DEF T
    <2> QED
      BY <1>3, LeastOf
  <1> DEFINE x == j - d
  <1>5. x \in 0 .. j /\ d \in Nat /\ ~Before(pivot, a[x], ascend)
    OBVIOUS
  <1>6. ASSUME NEW y \in x + 1 .. j PROVE Before(pivot, a[y], ascend)
    <2>1. j - y \in Nat /\ j - y <= j /\ j - (j - y) = y /\ ~ (d <= j - y)
      BY <1>5
    <2>2. j - y \notin T
      BY <1>4, <2>1
    <2> QED
      BY <2>1, <2>2
  <1> HIDE DEF x
  <1>7. \E z \in 0 .. j : Ends(z)
    BY <1>5, <1>6
  <1>8. down = CHOOSE z \in 0 .. j : Ends(z)
    BY DEF ScanDown
  <1> HIDE DEF down
  <1>9. down \in 0 .. j /\ Ends(down)
    <2> HIDE DEF Ends
    <2> QED
      BY <1>7, <1>8
  <1>10. w <= down
    <2> SUFFICES ASSUME down < w PROVE FALSE
      BY <1>9
    <2>1. w \in down + 1 .. j
      BY <1>9
    <2>2. R(pivot) < R(a[w])
      BY <1>1, <1>9, <2>1
    <2> QED
      BY <1>1, <1>2, <2>2 DEF R
  <1>11. \A y \in down + 1 .. j : R(pivot) < R(a[y])
    BY <1>1, <1>9
  <1>12. R(a[down]) <= R(pivot)
    BY <1>1, <1>2, <1>9
  <1> QED
    BY <1>9, <1>10, <1>11, <1>12 DEF R, down

\* What is below i does not belong behind the pivot and what is above j not
\* before it; once an element on either side is known it stops the next scan.
Splitting(a, s, pivot, low, high, k, n, ascend) ==
  /\ s.list \in Arr(n) /\ Reordered(a, s.list) /\ Inside(a, s.list, low, high + 1, n)
  /\ s.i \in low .. high + 1 /\ s.j \in low - 1 .. high
  /\ \A x \in low .. s.i - 1 : Rank(s.list[x], ascend) <= Rank(pivot, ascend)
  /\ \A x \in s.j + 1 .. high : Rank(pivot, ascend) <= Rank(s.list[x], ascend)
  /\ \/ s.i = low /\ s.j = high /\ s.list = a
     \/ s.i > low /\ s.j < high
  /\ s.i > s.j \/ s.i >= low + k

\* Exchanging two elements of a range keeps to the range.
LEMMA SwapInside ==
  ASSUME NEW n \in Nat, NEW a \in Arr(n), NEW b \in Arr(n), NEW low \in 0 .. n - 1, NEW high \in low .. n - 1,
         Inside(a, b, low, high + 1, n), NEW i \in low .. high, NEW j \in low .. high
  PROVE  Inside(a, Swap(b, i, j), low, high + 1, n)
  <1> DEFINE D == 0 .. n - 1
             e == Swap(b, i, j)
  <1>1. i \in D /\ j \in D
    OBVIOUS
  <1>2. /\ Swap(b, i, j)[i] = b[j] /\ Swap(b, i, j)[j] = b[i]
        /\ \A x \in D : x # i /\ x # j => Swap(b, i, j)[x] = b[x]
    BY <1>1, Swaps
  <1>3. /\ e[i] = b[j] /\ e[j] = b[i]
        /\ \A x \in D : x # i /\ x # j => e[x] = b[x]
    BY <1>2
  <1> HIDE DEF e
  <1>4. /\ \A x \in D : x < low \/ x >= high + 1 => b[x] = a[x]
        /\ \A x \in low .. high : \E y \in low .. high : b[x] = a[y]
    <2>1. (high + 1) - 1 = high
      OBVIOUS
    <2> QED
      BY <2>1 DEF Inside
  <1>5. ASSUME NEW x \in D, x < low \/ x >= high + 1 PROVE e[x] = a[x]
    <2>1. x # i /\ x # j
      BY <1>5
    <2> QED
      BY <1>3, <1>4, <1>5, <2>1
  <1>6. ASSUME NEW x \in low .. high PROVE \E y \in low .. high : e[x] = a[y]
    <2>1. x \in D
      OBVIOUS
    <2>2. e[x] = b[x] \/ e[x] = b[i] \/ e[x] = b[j]
      BY <1>3, <2>1
    <2> QED
      BY <1>4, <2>2
  <1>7. (high + 1) - 1 = high
    OBVIOUS
  <1> QED
    BY <1>5, <1>6, <1>7 DEF Inside, e

\* A round of the split keeps both sides apart, or ends it.
LEMMA PartRound ==
  ASSUME NEW n \in Nat, NEW ascend \in BOOLEAN, NEW a \in Arr(n),
         NEW low \in 0 .. n - 1, NEW high \in low .. n - 1, NEW mid \in low .. high,
         NEW pivot \in Elem, pivot = a[mid], NEW k \in Nat, NEW s,
         s \in [list : Arr(n), i : Int, j : Int],
         Splitting(a, s, pivot, low, high, k, n, ascend)
  PROVE  /\ Part(s, pivot, ascend) \in [list : Arr(n), i : Int, j : Int]
         /\ Splitting(a, Part(s, pivot, ascend), pivot, low, high, k + 1, n, ascend)
  <1> DEFINE R(x) == Rank(x, ascend)
             D == 0 .. n - 1
             l == s.list
             i == s.i
             j == s.j
             up == ScanUp(l, i, pivot, ascend)
             down == ScanDown(l, j, pivot, ascend)
             d == Swap(l, up, down)
             t == [list |-> d, i |-> up + 1, j |-> down - 1]
             u == [list |-> l, i |-> up, j |-> down]
             P == R(pivot)
  <1>1. /\ l \in Arr(n) /\ Reordered(a, l) /\ Inside(a, l, low, high + 1, n)
        /\ i \in low .. high + 1 /\ j \in low - 1 .. high
        /\ \A x \in low .. i - 1 : R(l[x]) <= P
        /\ \A x \in j + 1 .. high : P <= R(l[x])
        /\ \/ i = low /\ j = high /\ l = a
           \/ i > low /\ j < high
        /\ i > j \/ i >= low + k
    BY DEF Splitting
  <1>2. Part(s, pivot, ascend) = IF i > j THEN s ELSE IF up <= down THEN t ELSE u
    BY DEF Part
  <1>3. (\A x \in D : R(l[x]) \in Int) /\ P \in Int
    BY <1>1, RanksOf, Ranks
  <1>4. CASE i > j
    <2>1. Splitting(a, s, pivot, low, high, k + 1, n, ascend)
      BY <1>1, <1>4 DEF Splitting
    <2> QED
      BY <1>2, <1>4, <2>1
  <1>5. CASE ~ (i > j)
    <2>1. i \in D /\ j \in D /\ i <= j
      BY <1>1, <1>5
    <2>2. \E v \in i .. high : P <= R(l[v]) /\ v <= j + 1 /\ (i = low => v <= mid)
      <3>1. CASE i = low /\ j = high /\ l = a
        <4>1. mid \in i .. high /\ P <= R(l[mid]) /\ mid <= j + 1
          <5>1. l[mid] = pivot
            BY <3>1
          <5> HIDE DEF l, i, j
          <5> QED
            BY <1>3, <3>1, <5>1
        <4> QED
          BY <4>1
      <3>2. CASE i > low /\ j < high
        <4>1. j + 1 \in i .. high /\ j + 1 \in j + 1 .. high /\ i # low
          BY <1>1, <2>1, <3>2
        <4> QED
          BY <1>1, <4>1
      <3> QED
        BY <1>1, <3>1, <3>2
    <2>3. \E w \in low .. j : R(l[w]) <= P /\ w >= i - 1 /\ (i = low => w >= mid)
      <3>1. CASE i = low /\ j = high /\ l = a
        <4>1. mid \in low .. j /\ R(l[mid]) <= P /\ mid >= i - 1
          <5>1. l[mid] = pivot
            BY <3>1
          <5> HIDE DEF l, i, j
          <5> QED
            BY <1>3, <3>1, <5>1
        <4> QED
          BY <4>1
      <3>2. CASE i > low /\ j < high
        <4>1. i - 1 \in low .. j /\ i - 1 \in low .. i - 1 /\ i # low
          BY <1>1, <2>1, <3>2
        <4> QED
          BY <1>1, <4>1
      <3> QED
        BY <1>1, <3>1, <3>2
    <2>4. PICK v \in i .. high : P <= R(l[v]) /\ v <= j + 1 /\ (i = low => v <= mid)
      BY <2>2
    <2>5. PICK w \in low .. j : R(l[w]) <= P /\ w >= i - 1 /\ (i = low => w >= mid)
      BY <2>3
    <2>6. /\ up \in i .. v /\ P <= R(l[up])
          /\ \A y \in i .. up - 1 : R(l[y]) < P
      <3>1. v \in i .. n - 1
        BY <2>1
      <3> HIDE DEF l, i
      <3> QED
        BY <1>1, <2>1, <2>4, <3>1, ScansUp
    <2>7. /\ down \in w .. j /\ R(l[down]) <= P
          /\ \A y \in down + 1 .. j : P < R(l[y])
      <3>1. w \in 0 .. j
        BY <2>1
      <3> HIDE DEF l, j
      <3> QED
        BY <1>1, <2>1, <2>5, <3>1, ScansDown
    <2> HIDE DEF up, down, R, l, i, j
    <2>8. up \in i .. high /\ down \in low .. j /\ up \in D /\ down \in D /\ up \in low .. high /\ down \in low .. high
      BY <1>1, <2>1, <2>6, <2>7
    <2>9. ASSUME NEW x \in low .. up - 1 PROVE R(l[x]) <= P
      <3>1. CASE x \in low .. i - 1
        BY <1>1, <3>1
      <3>2. CASE x \in i .. up - 1
        <4>1. x \in D
          BY <2>8
        <4> QED
          BY <1>3, <2>6, <3>2, <4>1
      <3> QED
        BY <1>1, <2>8, <3>1, <3>2
    <2>10. ASSUME NEW x \in down + 1 .. high PROVE P <= R(l[x])
      <3>1. CASE x \in j + 1 .. high
        BY <1>1, <3>1
      <3>2. CASE x \in down + 1 .. j
        <4>1. x \in D
          BY <2>8
        <4> QED
          BY <1>3, <2>7, <3>2, <4>1
      <3> QED
        BY <1>1, <2>8, <3>1, <3>2
    <2>11. CASE up <= down
      <3>1. /\ Swap(l, up, down) \in Arr(n)
            /\ Swap(l, up, down)[up] = l[down] /\ Swap(l, up, down)[down] = l[up]
            /\ \A x \in D : x # up /\ x # down => Swap(l, up, down)[x] = l[x]
            /\ Reordered(l, Swap(l, up, down))
        BY <1>1, <2>8, Swaps
      <3>2. /\ d \in Arr(n)
            /\ d[up] = l[down] /\ d[down] = l[up]
            /\ \A x \in D : x # up /\ x # down => d[x] = l[x]
            /\ Reordered(l, d)
        BY <3>1
      <3>3. Inside(a, d, low, high + 1, n)
        BY <1>1, <2>8, SwapInside
      <3> HIDE DEF d
      <3>4. Reordered(a, d)
        BY <1>1, <3>2, ReorderedTwice
      <3>5. ASSUME NEW x \in low .. (up + 1) - 1 PROVE R(d[x]) <= P
        <4>1. CASE x = up
          BY <2>7, <3>2, <4>1
        <4>2. CASE x # up
          <5>1. x \in low .. up - 1 /\ x \in D /\ x # down
            BY <2>8, <2>11, <4>2
          <5> QED
            BY <2>9, <3>2, <4>2, <5>1
        <4> QED
          BY <4>1, <4>2
      <3>6. ASSUME NEW x \in (down - 1) + 1 .. high PROVE P <= R(d[x])
        <4>1. CASE x = down
          BY <2>6, <3>2, <4>1
        <4>2. CASE x # down
          <5>1. x \in down + 1 .. high /\ x \in D /\ x # up
            BY <2>8, <2>11, <4>2
          <5> QED
            BY <2>10, <3>2, <4>2, <5>1
        <4> QED
          BY <4>1, <4>2
      <3>7. /\ up + 1 \in low .. high + 1 /\ down - 1 \in low - 1 .. high /\ up + 1 > low /\ down - 1 < high
            /\ up + 1 > down - 1 \/ up + 1 >= low + (k + 1)
            /\ up + 1 \in Int /\ down - 1 \in Int
        BY <1>1, <1>5, <2>8
      <3>8. t.list = d /\ t.i = up + 1 /\ t.j = down - 1 /\ t \in [list : Arr(n), i : Int, j : Int]
        BY <3>2, <3>7
      <3>9. Part(s, pivot, ascend) = t
        BY <1>2, <1>5, <2>11
      <3> HIDE DEF t
      <3>10. Splitting(a, t, pivot, low, high, k + 1, n, ascend)
        BY <3>2, <3>3, <3>4, <3>5, <3>6, <3>7, <3>8 DEF Splitting, R
      <3> QED
        BY <3>8, <3>9, <3>10
    <2>12. CASE ~ (up <= down)
      <3>1. i # low
        BY <1>1, <2>4, <2>5, <2>6, <2>7, <2>8, <2>12
      <3>2. /\ up \in low .. high + 1 /\ down \in low - 1 .. high /\ up > low /\ down < high /\ up > down
            /\ up \in Int /\ down \in Int
        BY <1>1, <2>8, <2>12, <3>1
      <3>3. u.list = l /\ u.i = up /\ u.j = down /\ u \in [list : Arr(n), i : Int, j : Int]
        BY <1>1, <3>2
      <3>4. Part(s, pivot, ascend) = u
        BY <1>2, <1>5, <2>12
      <3> HIDE DEF u
      <3>5. Splitting(a, u, pivot, low, high, k + 1, n, ascend)
        BY <1>1, <2>9, <2>10, <3>2, <3>3 DEF Splitting, R
      <3> QED
        BY <3>3, <3>4, <3>5
    <2> QED
      BY <2>11, <2>12
  <1> QED
    BY <1>4, <1>5
-----------------------------------------------------------------------------
\* Nothing below i belongs behind anything above j.
SplitAt(a, low, high, i, j, ascend) ==
  \E P \in Int : /\ \A x \in low .. i - 1 : Rank(a[x], ascend) <= P
                /\ \A x \in j + 1 .. high : P <= Rank(a[x], ascend)

\* The split leaves two parts, none of the left belonging behind one of the right.
LEMMA SplitParts ==
  ASSUME NEW n \in Nat, NEW ascend \in BOOLEAN, NEW a \in Arr(n),
         NEW low \in 0 .. n - 1, NEW high \in low .. n - 1
  PROVE  LET s == Split(a, low, high, ascend)
         IN  /\ s.list \in Arr(n) /\ Reordered(a, s.list) /\ Inside(a, s.list, low, high + 1, n)
             /\ s.i \in low + 1 .. high + 1 /\ s.j \in low - 1 .. high - 1 /\ s.j < s.i
             /\ SplitAt(s.list, low, high, s.i, s.j, ascend)
  <1> DEFINE mid == low + (high - low) \div 2
             pivot == a[mid]
             States == [list : Arr(n), i : Int, j : Int]
             S == [k \in Nat |-> {s \in States : Splitting(a, s, pivot, low, high, k, n, ascend)}]
             start == [list |-> a, i |-> low, j |-> high]
             R(x) == Rank(x, ascend)
             s == Split(a, low, high, ascend)
  <1>1. mid \in low .. high
    <2> DEFINE w == high - low
    <2>1. w \in Nat
      OBVIOUS
    <2> HIDE DEF w
    <2>2. w \div 2 \in 0 .. w
      BY <2>1
    <2>3. low + w = high
      BY DEF w
    <2>4. mid = low + w \div 2
      BY DEF w
    <2> HIDE DEF mid
    <2> QED
      BY <2>1, <2>2, <2>3, <2>4
  <1>2. Size(a) = n
    BY SizeOf DEF Arr
  <1>3. pivot \in Elem /\ R(pivot) \in Int
    <2>1. mid \in 0 .. n - 1
      BY <1>1
    <2> HIDE DEF mid
    <2> QED
      BY <2>1, RanksOf
  <1>4. start \in S[0]
    <2>1. start \in States /\ start.list = a /\ start.i = low /\ start.j = high
      OBVIOUS
    <2> HIDE DEF start, States, pivot
    <2>2. Inside(a, a, low, high + 1, n)
      BY DEF Inside
    <2>3. low \in low .. high + 1 /\ high \in low - 1 .. high /\ low >= low + 0
      OBVIOUS
    <2>4. (\A x \in low .. low - 1 : FALSE) /\ (\A x \in high + 1 .. high : FALSE)
      OBVIOUS
    <2>5. Splitting(a, start, pivot, low, high, 0, n, ascend)
      BY <2>1, <2>2, <2>3, <2>4, ReorderedItself DEF Splitting
    <2> QED
      BY <2>1, <2>5
  <1>5. ASSUME NEW k \in 0 .. n - 1, NEW t \in S[k] PROVE Part(t, pivot, ascend) \in S[k + 1]
    <2>1. k \in Nat /\ k + 1 \in Nat /\ t \in States /\ Splitting(a, t, pivot, low, high, k, n, ascend)
      BY <1>5
    <2>2. /\ Part(t, pivot, ascend) \in States
          /\ Splitting(a, Part(t, pivot, ascend), pivot, low, high, k + 1, n, ascend)
      <3>1. pivot = a[mid]
        OBVIOUS
      <3> HIDE DEF pivot, mid
      <3> QED
        BY <1>1, <1>3, <2>1, <3>1, PartRound
    <2> HIDE DEF States, pivot
    <2> QED
      BY <2>1, <2>2
  <1>6. s \in S[n]
    <2> HIDE DEF S
    <2> QED
      BY <1>2, <1>4, <1>5, SplitRule
  <1> HIDE DEF pivot, s
  <1>7. Splitting(a, s, pivot, low, high, n, n, ascend)
    BY <1>6
  <1> DEFINE l == s.list
             i == s.i
             j == s.j
  <1>8. /\ l \in Arr(n) /\ Reordered(a, l) /\ Inside(a, l, low, high + 1, n)
        /\ i \in low .. high + 1 /\ j \in low - 1 .. high
        /\ \A x \in low .. i - 1 : R(l[x]) <= R(pivot)
        /\ \A x \in j + 1 .. high : R(pivot) <= R(l[x])
        /\ \/ i = low /\ j = high
           \/ i > low /\ j < high
        /\ i > j \/ i >= low + n
    BY <1>7 DEF Splitting
  <1>9. i > j /\ i \in low + 1 .. high + 1 /\ j \in low - 1 .. high - 1
    BY <1>8
  <1>10. \E P \in Int : /\ \A x \in low .. i - 1 : R(l[x]) <= P
                        /\ \A x \in j + 1 .. high : P <= R(l[x])
    BY <1>3, <1>8
  <1> HIDE DEF R
  <1> QED
    BY <1>8, <1>9, <1>10 DEF SplitAt, s, R

\* A part of an array is in order.
PartOrdered(a, low, high, ascend) ==
  \A x, y \in low .. high : x < y => Rank(a[x], ascend) <= Rank(a[y], ascend)

\* What the parts of a range are when it has been split and one is sorted.
LEMMA InsideTwice ==
  ASSUME NEW n \in Nat, NEW a, NEW b, NEW c, NEW low \in 0 .. n - 1, NEW high \in low .. n - 1,
         NEW i \in low .. high, NEW j \in i .. high,
         Inside(a, b, low, high + 1, n), Inside(b, c, i, j + 1, n)
  PROVE  Inside(a, c, low, high + 1, n)
  <1> DEFINE D == 0 .. n - 1
  <1>1. /\ \A x \in D : x < low \/ x >= high + 1 => b[x] = a[x]
        /\ \A x \in low .. high : \E y \in low .. high : b[x] = a[y]
    <2>1. (high + 1) - 1 = high
      OBVIOUS
    <2> QED
      BY <2>1 DEF Inside
  <1>2. /\ \A x \in D : x < i \/ x >= j + 1 => c[x] = b[x]
        /\ \A x \in i .. j : \E y \in i .. j : c[x] = b[y]
    <2>1. (j + 1) - 1 = j
      OBVIOUS
    <2> QED
      BY <2>1 DEF Inside
  <1>3. ASSUME NEW x \in D, x < low \/ x >= high + 1 PROVE c[x] = a[x]
    <2>1. x < i \/ x >= j + 1
      BY <1>3
    <2> QED
      BY <1>1, <1>2, <1>3, <2>1
  <1>4. ASSUME NEW x \in low .. high PROVE \E y \in low .. high : c[x] = a[y]
    <2>1. CASE x \in i .. j
      <3>1. PICK y \in i .. j : c[x] = b[y]
        BY <1>2, <2>1
      <3>2. y \in low .. high
        OBVIOUS
      <3> QED
        BY <1>1, <3>1, <3>2
    <2>2. CASE x \notin i .. j
      <3>1. x \in D /\ (x < i \/ x >= j + 1)
        BY <2>2
      <3>2. c[x] = b[x]
        BY <1>2, <3>1
      <3> QED
        BY <1>1, <3>2
    <2> QED
      BY <2>1, <2>2
  <1>5. (high + 1) - 1 = high
    OBVIOUS
  <1> QED
    BY <1>3, <1>4, <1>5 DEF Inside

\* A part has been put in order, unless it is too short to need it.
PartDone(a, b, low, high, n, ascend) ==
  \/ b = a /\ low >= high
  \/ Inside(a, b, low, high + 1, n) /\ PartOrdered(b, low, high, ascend)

\* When both parts of a split range are in order the range is.
LEMMA PartsJoin ==
  ASSUME NEW n \in Nat, NEW ascend \in BOOLEAN, NEW a \in Arr(n), NEW b \in Arr(n), NEW c \in Arr(n),
         NEW low \in 0 .. n - 1, NEW high \in low .. n - 1,
         NEW i \in low + 1 .. high + 1, NEW j \in low - 1 .. high - 1, j < i, SplitAt(a, low, high, i, j, ascend),
         PartDone(a, b, low, j, n, ascend), PartDone(b, c, i, high, n, ascend)
  PROVE  PartOrdered(c, low, high, ascend)
  <1> DEFINE R(x) == Rank(x, ascend)
             D == 0 .. n - 1
  <1>1. /\ \A x \in D : R(a[x]) \in Int
        /\ \A x \in D : R(b[x]) \in Int
        /\ \A x \in D : R(c[x]) \in Int
    BY RanksOf
  <1>2. (high + 1) - 1 = high /\ (j + 1) - 1 = j /\ \A x \in low .. high : x \in D
    OBVIOUS
  <1>8. PICK P \in Int : /\ \A x \in low .. i - 1 : R(a[x]) <= P
                         /\ \A x \in j + 1 .. high : P <= R(a[x])
    BY DEF SplitAt
  <1>9. /\ \/ b = a /\ low >= j
           \/ Inside(a, b, low, j + 1, n) /\ PartOrdered(b, low, j, ascend)
        /\ \/ c = b /\ i >= high
           \/ Inside(b, c, i, high + 1, n) /\ PartOrdered(c, i, high, ascend)
    BY DEF PartDone
  <1> HIDE DEF R
  <1>3. /\ \A x \in D : x > j => b[x] = a[x]
        /\ \A x \in low .. j : \E y \in low .. j : b[x] = a[y]
    BY <1>2, <1>9 DEF Inside
  <1>4. /\ \A x \in D : x < i => c[x] = b[x]
        /\ \A x \in i .. high : \E y \in i .. high : c[x] = b[y]
    BY <1>2, <1>9 DEF Inside
  <1>5. ASSUME NEW x \in low .. high, x < i PROVE R(c[x]) <= P /\ c[x] = b[x]
    <2>1. c[x] = b[x]
      BY <1>2, <1>4, <1>5
    <2>2. CASE x > j
      <3>1. b[x] = a[x] /\ x \in low .. i - 1
        BY <1>2, <1>3, <1>5, <2>2
      <3> QED
        BY <1>8, <2>1, <3>1 DEF R
    <2>3. CASE x <= j
      <3>1. PICK y \in low .. j : b[x] = a[y]
        BY <1>3, <2>3
      <3>2. y \in low .. i - 1
        OBVIOUS
      <3> QED
        BY <1>8, <2>1, <3>1, <3>2 DEF R
    <2> QED
      BY <2>1, <2>2, <2>3
  <1>6. ASSUME NEW x \in low .. high, x > j PROVE P <= R(c[x])
    <2>1. CASE x < i
      <3>1. c[x] = a[x] /\ x \in j + 1 .. high
        BY <1>2, <1>3, <1>4, <1>6, <2>1
      <3> QED
        BY <1>8, <3>1 DEF R
    <2>2. CASE x >= i
      <3>1. PICK y \in i .. high : c[x] = b[y]
        BY <1>4, <2>2
      <3>2. y \in j + 1 .. high /\ y \in D /\ y > j
        OBVIOUS
      <3>3. b[y] = a[y]
        BY <1>3, <3>2
      <3> QED
        BY <1>8, <3>1, <3>2, <3>3 DEF R
    <2> QED
      BY <2>1, <2>2
  <1>7. ASSUME NEW x \in low .. high, NEW y \in low .. high, x < y PROVE R(c[x]) <= R(c[y])
    <2>1. R(c[x]) \in Int /\ R(c[y]) \in Int
      BY <1>1, <1>2
    <2>2. CASE y <= j
      <3>1. x \in low .. j /\ y \in low .. j /\ ~ (low >= j)
        BY <1>7, <2>2
      <3>2. R(b[x]) <= R(b[y])
        BY <1>7, <1>9, <3>1 DEF PartOrdered, R
      <3>3. c[x] = b[x] /\ c[y] = b[y]
        BY <1>5, <1>7, <2>2
      <3> QED
        BY <3>2, <3>3
    <2>3. CASE x >= i
      <3>1. x \in i .. high /\ y \in i .. high /\ ~ (i >= high)
        BY <1>7, <2>3
      <3> QED
        BY <1>7, <1>9, <3>1 DEF PartOrdered, R
    <2>4. CASE x < i /\ y > j
      BY <1>5, <1>6, <2>1, <2>4
    <2> QED
      BY <2>2, <2>3, <2>4
  <1> QED
    BY <1>7 DEF PartOrdered, R
-----------------------------------------------------------------------------
\* What an array that is reordered may hold.
LEMMA ReorderedKeeps ==
  ASSUME NEW n \in Nat, NEW b \in Arr(n), NEW V, NEW a \in [0 .. n - 1 -> V], Reordered(a, b)
  PROVE  b \in [0 .. n - 1 -> V]
  <1> DEFINE D == 0 .. n - 1
  <1>1. b \in [D -> Elem]
    BY DEF Arr
  <1>2. PICK p : Permutes(p, D) /\ \A i \in D : b[i] = a[p[i]]
    BY DEF Reordered
  <1>3. \A i \in D : b[i] \in V
    BY <1>2 DEF Permutes
  <1> HIDE DEF D
  <1>4. b \in [D -> V]
    BY <1>1, <1>3
  <1> QED
    BY <1>4 DEF D

\* What a call of quick sort returns.
Results(n) == [list : Arr(n), memory : Int, ret : {"ok", "XT_ENOMEM"}]

\* What a call for the part from c.low to c.high gives back, when calls may
\* still be nested k deep: a part that is no longer than that is in order,
\* unless memory ran out.
QuickDone(c, r, k, n, ascend) ==
  /\ r \in Results(n) /\ Reordered(c.list, r.list) /\ Inside(c.list, r.list, c.low, c.high + 1, n)
  /\ c.high - c.low < k /\ r.ret = "ok" => PartOrdered(r.list, c.low, c.high, ascend)
  /\ c.memory < 0 => r.memory < 0 /\ r.ret = "ok"

\* A call of quick sort sorts its range, once the calls it makes do.
LEMMA CallSorts ==
  ASSUME NEW n \in Nat, NEW ascend \in BOOLEAN, NEW a \in Arr(n), NEW k \in Nat, NEW quick,
         \A c \in Calls(a) : QuickDone(c, quick[c], k, n, ascend),
         NEW call \in Calls(a)
  PROVE  QuickDone(call, QuickCall(call, quick, ascend), k + 1, n, ascend)
  <1> DEFINE D == 0 .. n - 1
             V == {a[i] : i \in D}
             l == call.list
             low == call.low
             high == call.high
             s == Split(l, low, high, ascend)
             i == s.i
             j == s.j
             m == call.memory - 1
             c1 == [list |-> s.list, low |-> low, high |-> j, memory |-> m]
             left == IF low < j THEN quick[c1] ELSE [list |-> s.list, memory |-> m, ret |-> "ok"]
             c2 == [list |-> left.list, low |-> i, high |-> high, memory |-> left.memory]
             none == [list |-> l, memory |-> 0, ret |-> "XT_ENOMEM"]
             r == IF call.memory = 0 THEN none
                  ELSE IF i < high /\ left.ret = "ok" THEN quick[c2] ELSE left
  <1>1. QuickCall(call, quick, ascend) = r
    BY DEF QuickCall
  <1>2. DOMAIN a = D
    BY DEF Arr
  <1>3. V \subseteq Elem
    BY RanksOf
  <1>4. Calls(a) = {c \in [list : [D -> V], low : D, high : D, memory : Int] : c.low <= c.high}
    BY <1>2 DEF Calls
  <1> HIDE DEF V
  <1>5. /\ l \in [D -> V] /\ l \in Arr(n) /\ low \in D /\ high \in low .. n - 1 /\ high \in D
        /\ call.memory \in Int /\ m \in Int
    <2>1. l \in [D -> V] /\ low \in D /\ high \in D /\ low <= high /\ call.memory \in Int
      BY <1>4
    <2> HIDE DEF l, low, high
    <2>2. l \in Arr(n)
      BY <1>3, <2>1 DEF Arr
    <2> QED
      BY <2>1, <2>2
  <1> HIDE DEF l, low, high, r
  <1>6. CASE call.memory = 0
    <2>1. r = none
      BY <1>6 DEF r
    <2>2. none.list = l /\ none.memory = 0 /\ none.ret = "XT_ENOMEM" /\ none \in Results(n)
      BY <1>5 DEF Results
    <2> HIDE DEF none
    <2>3. Inside(l, l, low, high + 1, n)
      BY DEF Inside
    <2>4. QuickDone(call, none, k + 1, n, ascend)
      BY <1>5, <1>6, <2>2, <2>3, ReorderedItself DEF QuickDone, l, low, high
    <2> QED
      BY <1>1, <2>1, <2>4
  <1>7. CASE call.memory # 0
    <2>1. /\ s.list \in Arr(n) /\ Reordered(l, s.list) /\ Inside(l, s.list, low, high + 1, n)
          /\ i \in low + 1 .. high + 1 /\ j \in low - 1 .. high - 1 /\ j < i
          /\ SplitAt(s.list, low, high, i, j, ascend)
      BY <1>5, SplitParts
    <2>2. s.list \in [D -> V]
      BY <1>5, <2>1, ReorderedKeeps
    <2> HIDE DEF s, i, j, m, left
    <2> DEFINE b == left.list
               sl == s.list
    <2>3. /\ left \in Results(n) /\ b \in Arr(n) /\ Reordered(sl, b)
          /\ left.memory \in Int
          /\ call.memory < 0 => left.memory < 0 /\ left.ret = "ok"
          /\ \/ b = sl /\ low >= j
             \/ low < j /\ Inside(sl, b, low, j + 1, n)
          /\ high - low < k + 1 /\ left.ret = "ok" => PartDone(sl, b, low, j, n, ascend)
      <3>1. CASE low < j
        <4>1. left = quick[c1]
          BY <3>1 DEF left
        <4>2. c1.list = sl /\ c1.low = low /\ c1.high = j /\ c1.memory = m
          OBVIOUS
        <4>3. j \in D /\ low <= j
          BY <1>5, <2>1, <3>1
        <4>4. c1 \in Calls(a)
          BY <1>4, <1>5, <2>2, <4>3
        <4> HIDE DEF c1
        <4>5. QuickDone(c1, left, k, n, ascend)
          BY <4>1, <4>4
        <4>6. high - low < k + 1 => j - low < k
          BY <1>5, <2>1, <4>3
        <4>7. call.memory < 0 => m < 0
          BY <1>5 DEF m
        <4>8. left \in Results(n)
          BY <4>5 DEF QuickDone
        <4>9. left.list \in Arr(n) /\ left.memory \in Int
          BY <4>8 DEF Results
        <4> QED
          BY <3>1, <4>2, <4>5, <4>6, <4>7, <4>8, <4>9 DEF QuickDone, PartDone
      <3>2. CASE ~ (low < j)
        <4>1. left.list = sl /\ left.memory = m /\ left.ret = "ok"
          BY <3>2 DEF left
        <4>2. low >= j
          BY <1>5, <2>1, <3>2
        <4>3. call.memory < 0 => m < 0
          BY <1>5 DEF m
        <4>4. left \in Results(n)
          <5>1. left = [list |-> s.list, memory |-> m, ret |-> "ok"]
            BY <3>2 DEF left
          <5> QED
            BY <1>5, <2>1, <5>1 DEF Results
        <4> QED
          BY <1>5, <2>1, <4>1, <4>2, <4>3, <4>4, ReorderedItself DEF PartDone
      <3> QED
        BY <3>1, <3>2
    <2>4. Reordered(l, b) /\ Inside(l, b, low, high + 1, n)
      <3>1. Reordered(l, b)
        BY <2>1, <2>3, ReorderedTwice
      <3>2. CASE b = sl
        BY <2>1, <3>1, <3>2
      <3>3. CASE low < j /\ Inside(sl, b, low, j + 1, n)
        <4>1. low \in low .. high /\ j \in low .. high
          BY <1>5, <2>1, <3>3
        <4> HIDE DEF b, sl
        <4>2. Inside(l, b, low, high + 1, n)
          BY <1>5, <2>1, <3>3, <4>1, InsideTwice DEF sl
        <4> QED
          BY <3>1, <4>2
      <3> QED
        BY <2>3, <3>2, <3>3
    <2>5. b \in [D -> V]
      BY <1>5, <2>3, <2>4, ReorderedKeeps
    <2>6. SplitAt(sl, low, high, i, j, ascend)
      BY <2>1
    <2>7. sl \in Arr(n)
      BY <2>1
    <2> HIDE DEF b, sl
    <2>8. CASE i < high /\ left.ret = "ok"
      <3> DEFINE q == quick[c2]
                 c == q.list
      <3>1. r = q
        BY <1>7, <2>8 DEF r
      <3>2. c2.list = b /\ c2.low = i /\ c2.high = high /\ c2.memory = left.memory
        BY DEF b
      <3>3. i \in D /\ i <= high /\ i \in low .. high /\ high \in i .. high
        BY <1>5, <2>1, <2>8
      <3>4. c2 \in Calls(a)
        <4>1. c2 = [list |-> b, low |-> i, high |-> high, memory |-> left.memory]
          BY DEF b
        <4> HIDE DEF c2
        <4> QED
          BY <1>4, <1>5, <2>3, <2>5, <3>3, <4>1
      <3> HIDE DEF c2
      <3>5. QuickDone(c2, q, k, n, ascend)
        BY <3>4
      <3> HIDE DEF q
      <3>10. q \in Results(n)
        BY <3>5 DEF QuickDone
      <3>11. c \in Arr(n) /\ q.memory \in Int
        BY <3>10 DEF Results
      <3>6. /\ c \in Arr(n) /\ Reordered(b, c) /\ Inside(b, c, i, high + 1, n) /\ q.memory \in Int
            /\ left.memory < 0 => q.memory < 0 /\ q.ret = "ok"
            /\ high - i < k /\ q.ret = "ok" => PartOrdered(c, i, high, ascend)
        BY <3>2, <3>5, <3>11 DEF QuickDone
      <3> HIDE DEF c
      <3>7. Reordered(l, c) /\ Inside(l, c, low, high + 1, n)
        <4>1. Reordered(l, c)
          BY <2>4, <3>6, ReorderedTwice
        <4>2. Inside(l, c, low, high + 1, n)
          BY <1>5, <2>4, <3>3, <3>6, InsideTwice
        <4> QED
          BY <4>1, <4>2
      <3>8. ASSUME high - low < k + 1, q.ret = "ok" PROVE PartOrdered(c, low, high, ascend)
        <4>1. PartDone(sl, b, low, j, n, ascend)
          BY <2>3, <2>8, <3>8
        <4>2. high - i < k
          BY <1>5, <2>1, <3>3, <3>8
        <4>3. PartDone(b, c, i, high, n, ascend)
          BY <3>6, <3>8, <4>2 DEF PartDone
        <4>4. b \in Arr(n)
          BY <2>3 DEF b
        <4> QED
          BY <1>5, <2>1, <2>6, <2>7, <3>6, <4>1, <4>3, <4>4, PartsJoin
      <3>9. QuickDone(call, q, k + 1, n, ascend)
        BY <2>3, <3>6, <3>7, <3>8, <3>10 DEF QuickDone, l, low, high, c
      <3> QED
        BY <1>1, <3>1, <3>9
    <2>9. CASE ~ (i < high /\ left.ret = "ok")
      <3>1. r = left
        BY <1>7, <2>9 DEF r
      <3>2. ASSUME high - low < k + 1, left.ret = "ok" PROVE PartOrdered(b, low, high, ascend)
        <4>1. PartDone(sl, b, low, j, n, ascend)
          BY <2>3, <3>2
        <4>2. PartDone(b, b, i, high, n, ascend)
          BY <1>5, <2>1, <2>9, <3>2 DEF PartDone
        <4>3. b \in Arr(n)
          BY <2>3 DEF b
        <4> QED
          BY <1>5, <2>1, <2>6, <2>7, <4>1, <4>2, <4>3, PartsJoin
      <3>3. QuickDone(call, left, k + 1, n, ascend)
        BY <2>3, <2>4, <3>2 DEF QuickDone, l, low, high, b
      <3> QED
        BY <1>1, <3>1, <3>3
    <2> QED
      BY <2>8, <2>9
  <1> QED
    BY <1>6, <1>7

\* Quick sort sorts, or says that it is out of memory and has reordered.
LEMMA QuickSorts ==
  ASSUME NEW n \in Nat \ {0}, NEW ascend \in BOOLEAN, NEW a \in Arr(n), NEW memory \in Int
  PROVE  LET r == Quick(a, ascend, memory)
         IN  /\ r.list \in Arr(n) /\ Reordered(a, r.list)
             /\ r.ret = "ok" => Ordered(r.list, n, ascend)
             /\ memory < 0 => r.ret = "ok"
  <1> DEFINE S == [k \in Nat |-> {q \in [Calls(a) -> Results(n)] :
                                    \A c \in Calls(a) : QuickDone(c, q[c], k, n, ascend)}]
             start == [c \in Calls(a) |-> [list |-> c.list, memory |-> c.memory, ret |-> "ok"]]
             first == [list |-> a, low |-> 0, high |-> Size(a) - 1, memory |-> memory]
             D == 0 .. n - 1
  <1>1. Size(a) = n /\ DOMAIN a = D /\ n \in Nat
    BY SizeOf DEF Arr
  <1>2. \A i \in D : a[i] \in Elem
    BY RanksOf
  <1>3. ASSUME NEW c \in Calls(a)
        PROVE  c.list \in Arr(n) /\ c.low \in D /\ c.high \in D /\ c.low <= c.high /\ c.memory \in Int
    <2> DEFINE V == {a[i] : i \in D}
    <2>1. V \subseteq Elem
      BY <1>2
    <2>2. Calls(a) = {d \in [list : [D -> V], low : D, high : D, memory : Int] : d.low <= d.high}
      BY <1>1 DEF Calls
    <2> HIDE DEF V, D
    <2>3. c.list \in [D -> V] /\ c.low \in D /\ c.high \in D /\ c.low <= c.high /\ c.memory \in Int
      BY <2>2
    <2>4. c.list \in [D -> Elem]
      BY <2>1, <2>3
    <2> QED
      BY <2>3, <2>4 DEF Arr, D
  <1>4. start \in S[0]
    <2>1. ASSUME NEW c \in Calls(a) PROVE start[c] \in Results(n) /\ QuickDone(c, start[c], 0, n, ascend)
      <3>1. start[c] = [list |-> c.list, memory |-> c.memory, ret |-> "ok"]
        BY <2>1
      <3>2. start[c].list = c.list /\ start[c].memory = c.memory /\ start[c].ret = "ok"
        BY <3>1
      <3>3. start[c] \in Results(n)
        BY <1>3, <3>1 DEF Results
      <3>4. Inside(c.list, c.list, c.low, c.high + 1, n)
        BY DEF Inside
      <3>5. ~ (c.high - c.low < 0)
        BY <1>3
      <3> HIDE DEF start
      <3> QED
        BY <3>2, <3>3, <3>4, <3>5, ReorderedItself DEF QuickDone
    <2>2. start = [c \in Calls(a) |-> start[c]]
      OBVIOUS
    <2> HIDE DEF start
    <2>3. start \in [Calls(a) -> Results(n)]
      BY <2>1, <2>2
    <2> QED
      BY <2>1, <2>3
  <1>5. ASSUME NEW k \in 0 .. n - 1, NEW q \in S[k]
        PROVE  [c \in Calls(a) |-> QuickCall(c, q, ascend)] \in S[k + 1]
    <2> DEFINE t == [c \in Calls(a) |-> QuickCall(c, q, ascend)]
    <2>1. k \in Nat /\ k + 1 \in Nat /\ \A c \in Calls(a) : QuickDone(c, q[c], k, n, ascend)
      BY <1>5
    <2>2. \A c \in Calls(a) : QuickDone(c, QuickCall(c, q, ascend), k + 1, n, ascend)
      BY <1>1, <2>1, CallSorts
    <2>3. \A c \in Calls(a) : t[c] = QuickCall(c, q, ascend)
      OBVIOUS
    <2>4. t = [c \in Calls(a) |-> t[c]]
      OBVIOUS
    <2> HIDE DEF t
    <2>5. \A c \in Calls(a) : QuickDone(c, t[c], k + 1, n, ascend)
      BY <2>2, <2>3
    <2>6. \A c \in Calls(a) : t[c] \in Results(n)
      BY <2>5 DEF QuickDone
    <2>7. t \in [Calls(a) -> Results(n)]
      BY <2>4, <2>6
    <2>8. t \in S[k + 1]
      BY <2>1, <2>5, <2>7
    <2> QED
      BY <2>8 DEF t
  <1>6. \E q \in S[n] : Quick(a, ascend, memory) = q[first]
    <2> HIDE DEF S
    <2> QED
      BY <1>1, <1>4, <1>5, QuickRule
  <1>7. PICK q \in S[n] : Quick(a, ascend, memory) = q[first]
    BY <1>6
  <1>8. first \in Calls(a)
    <2> DEFINE V == {a[i] : i \in D}
    <2>1. Calls(a) = {d \in [list : [D -> V], low : D, high : D, memory : Int] : d.low <= d.high}
      BY <1>1 DEF Calls
    <2>2. a \in [D -> V]
      <3>1. a \in [D -> Elem]
        BY DEF Arr
      <3> QED
        BY <3>1
    <2>3. 0 \in D /\ n - 1 \in D /\ 0 <= n - 1
      OBVIOUS
    <2>4. first = [list |-> a, low |-> 0, high |-> n - 1, memory |-> memory]
      BY <1>1
    <2> HIDE DEF V, D, first
    <2> QED
      BY <2>1, <2>2, <2>3, <2>4
  <1> DEFINE r == Quick(a, ascend, memory)
  <1>9. QuickDone(first, r, n, n, ascend)
    BY <1>1, <1>7, <1>8
  <1>10. first.list = a /\ first.low = 0 /\ first.high = n - 1 /\ first.memory = memory
    BY <1>1
  <1> HIDE DEF r, first, S
  <1>11. r \in Results(n) /\ Reordered(a, r.list) /\ (memory < 0 => r.ret = "ok")
         /\ (r.ret = "ok" => PartOrdered(r.list, 0, n - 1, ascend))
    <2>1. (n - 1) - 0 < n
      BY <1>1
    <2> QED
      BY <1>9, <1>10, <2>1 DEF QuickDone
  <1>12. r.list \in Arr(n)
    BY <1>11 DEF Results
  <1>13. PartOrdered(r.list, 0, n - 1, ascend) => Ordered(r.list, n, ascend)
    BY DEF PartOrdered, Ordered
  <1> QED
    BY <1>11, <1>12, <1>13 DEF r
-----------------------------------------------------------------------------
\* What % and \div are.
LEMMA Divides ==
  ASSUME NEW x \in Int, NEW e \in Nat \ {0}
  PROVE  x = e * (x \div e) + (x % e) /\ x \div e \in Int /\ x % e \in 0 .. e - 1
  OBVIOUS

\* A multiple of a positive number has its sign.
LEMMA NotPositive ==
  ASSUME NEW e \in Nat \ {0}, NEW q \in Int, q <= 0
  PROVE  e * q <= 0
  OBVIOUS

\* Dividing by ten times as much is dividing once more.
LEMMA DividesTwice ==
  ASSUME NEW x \in Int, NEW e \in Nat \ {0}
  PROVE  x \div (e * 10) = (x \div e) \div 10
  OBVIOUS

\* The next digit of a number, from the remainder below it.
LEMMA NextDigit ==
  ASSUME NEW x \in Int, NEW e \in Nat \ {0}
  PROVE  x % (e * 10) = e * ((x \div e) % 10) + (x % e)
  <1> DEFINE y == x \div e
             z == e * 10
  <1>1. x = e * y + (x % e) /\ y \in Int /\ x % e \in 0 .. e - 1
    BY Divides
  <1>2. y = 10 * (y \div 10) + (y % 10) /\ y % 10 \in 0 .. 9 /\ y \div 10 \in Int
    BY <1>1
  <1>3. z \in Nat \ {0} /\ x = z * (x \div z) + (x % z)
    <2>1. z \in Nat \ {0}
      OBVIOUS
    <2> HIDE DEF z
    <2> QED
      BY <2>1, Divides
  <1>4. x \div z = y \div 10
    BY DividesTwice
  <1> HIDE DEF y
  <1>5. z * (y \div 10) = e * (10 * (y \div 10))
    BY <1>2
  <1>6. e * y = e * (10 * (y \div 10)) + e * (y % 10)
    <2> DEFINE q == 10 * (y \div 10)
               r == y % 10
    <2>1. q \in Int /\ r \in Int /\ y = q + r
      BY <1>2
    <2> HIDE DEF q, r
    <2>2. e * (q + r) = e * q + e * r
      BY <2>1
    <2> QED
      BY <2>1, <2>2 DEF q, r
  <1>7. x % z = e * (y % 10) + (x % e)
    <2>1. x % z \in Int
      BY <1>3
    <2> DEFINE u == e * (10 * (y \div 10))
               v == e * (y % 10)
    <2>2. u \in Int /\ v \in Int /\ x % e \in Int
      BY <1>1, <1>2
    <2>3. x = u + v + (x % e) /\ x = u + (x % z)
      BY <1>1, <1>3, <1>4, <1>5, <1>6
    <2> HIDE DEF u, z
    <2> QED
      BY <2>1, <2>2, <2>3
  <1> QED
    BY <1>7 DEF y

\* A smaller digit makes a smaller number, whatever is below it.
LEMMA HigherDigit ==
  ASSUME NEW e \in Nat \ {0}, NEW c \in Int, NEW d \in Int, c < d,
         NEW r \in 0 .. e - 1, NEW q \in 0 .. e - 1
  PROVE  e * c + r <= e * d + q
  <1>1. e * (c + 1) <= e * d
     OBVIOUS
  <1>2. e * (c + 1) = e * c + e /\ e * c \in Int /\ e * d \in Int
     OBVIOUS
  <1> QED BY <1>1, <1>2

\* A number below the divisor is its own remainder.
LEMMA Small ==
  ASSUME NEW e \in Nat \ {0}, NEW x \in 0 .. e - 1
  PROVE  x % e = x
  OBVIOUS

-----------------------------------------------------------------------------
\* The order of a counting sort: by digit, and by place for the same digit.
Earlier(a, exp, j, i) ==
  \/ Digit(a[j], exp) < Digit(a[i], exp)
  \/ Digit(a[j], exp) = Digit(a[i], exp) /\ j < i

\* The places of a counting sort are a permutation: every element goes where no
\* other one does.
LEMMA PassReorders ==
  ASSUME NEW n \in Nat, NEW a \in Arr(n), NEW exp \in Nat \ {0}
  PROVE  LET b == RadixPass(a, exp)
         IN  /\ b \in Arr(n)
             /\ \E p : /\ Permutes(p, 0 .. n - 1) /\ \A i \in 0 .. n - 1 : b[i] = a[p[i]]
                       /\ \A i, j \in 0 .. n - 1 : i < j => Earlier(a, exp, p[i], p[j])
  <1> DEFINE D == 0 .. n - 1
             G(i) == Digit(a[i], exp)
             L(i) == {j \in D : Earlier(a, exp, j, i)}
             place == [i \in D |-> Cardinality(L(i))]
             b == RadixPass(a, exp)
             Index(p) == CHOOSE i \in D : Cardinality(L(i)) = p
             inv == [p \in D |-> Index(p)]
  <1>1. DOMAIN a = D /\ \A i \in D : a[i] \in Elem
    BY DEF Arr
  <1>2. \A i \in D : G(i) \in Int
    <2>1. \A i \in D : a[i].key \in Int
      BY <1>1 DEF Elem
    <2>2. \A x \in Int : (x \div exp) % K \in Int
      <3> SUFFICES ASSUME NEW x \in Int PROVE (x \div exp) % K \in Int
        OBVIOUS
      <3>1. x \div exp \in Int
        OBVIOUS
      <3> QED
        BY <3>1 DEF K
    <2> QED
      BY <2>1, <2>2 DEF Digit
  <1>3. IsFiniteSet(D) /\ Cardinality(D) = n
    <2>1. 0 \in Int /\ n - 1 \in Int
      OBVIOUS
    <2>2. IsFiniteSet(D) /\ Cardinality(D) = IF 0 > n - 1 THEN 0 ELSE n - 1 - 0 + 1
      BY <2>1, FS_Interval
    <2> QED
      BY <2>2
  <1>4. b = [p \in D |-> a[inv[p]]]
    <2>1. b = [p \in D |-> a[CHOOSE i \in D : Cardinality(L(i)) = p]]
      BY <1>1 DEF RadixPass, Earlier
    <2>2. \A p \in D : (CHOOSE i \in D : Cardinality(L(i)) = p) = inv[p]
      OBVIOUS
    <2> QED
      BY <2>1, <2>2
  <1>19. \A p \in D : (\E i \in D : place[i] = p) => inv[p] \in D /\ place[inv[p]] = p
    <2> SUFFICES ASSUME NEW p \in D, NEW i \in D, place[i] = p PROVE inv[p] \in D /\ place[inv[p]] = p
      OBVIOUS
    <2>1. Cardinality(L(i)) = p
      OBVIOUS
    <2>2. inv[p] = CHOOSE k \in D : Cardinality(L(k)) = p
      OBVIOUS
    <2> HIDE DEF L, inv
    <2>3. inv[p] \in D /\ Cardinality(L(inv[p])) = p
      BY <2>1, <2>2
    <2> QED
      BY <2>3
  <1>20. inv = [p \in D |-> inv[p]]
    <2> HIDE DEF Index
    <2> QED
      OBVIOUS
  <1> HIDE DEF b, inv
  <1>5. \A i \in D : L(i) \subseteq D /\ i \notin L(i)
    BY <1>2 DEF Earlier
  <1>6. \A i \in D : IsFiniteSet(L(i)) /\ place[i] \in D
    <2> SUFFICES ASSUME NEW i \in D PROVE IsFiniteSet(L(i)) /\ place[i] \in D
      OBVIOUS
    <2> DEFINE M == L(i)
    <2>1. M \in SUBSET D /\ M # D
      BY <1>5
    <2>2. place[i] = Cardinality(M)
      OBVIOUS
    <2> HIDE DEF M, place
    <2>3. IsFiniteSet(M) /\ Cardinality(M) <= Cardinality(D) /\ Cardinality(M) # Cardinality(D)
      BY <1>3, <2>1, FS_Subset
    <2>4. Cardinality(M) \in Nat
      BY <2>3, FS_CardinalityType
    <2> QED
      BY <1>3, <2>2, <2>3, <2>4 DEF M
  <1>7. ASSUME NEW i \in D, NEW k \in D, Earlier(a, exp, i, k) PROVE place[i] < place[k]
    <2> DEFINE M == L(i)
               N == L(k)
    <2>1. M \subseteq N
      <3> SUFFICES ASSUME NEW j \in D, Earlier(a, exp, j, i) PROVE Earlier(a, exp, j, k)
        OBVIOUS
      <3> QED
        BY <1>2, <1>7 DEF Earlier
    <2>2. i \in N /\ i \notin M
      BY <1>5, <1>7
    <2>3. place[i] = Cardinality(M) /\ place[k] = Cardinality(N)
      OBVIOUS
    <2>4. place[i] \in Int /\ place[k] \in Int /\ IsFiniteSet(N)
      BY <1>6
    <2> HIDE DEF M, N, place
    <2>5. Cardinality(M) <= Cardinality(N) /\ Cardinality(M) # Cardinality(N)
      BY <2>1, <2>2, <2>4, FS_Subset
    <2> QED
      BY <2>3, <2>4, <2>5
  <1>8. \A i, k \in D : i = k \/ Earlier(a, exp, i, k) \/ Earlier(a, exp, k, i)
    BY <1>2 DEF Earlier
  <1>9. place \in [D -> D]
    BY <1>6
  <1> HIDE DEF L, place, D
  <1>10. \A i, k \in D : place[i] = place[k] => i = k
    <2> SUFFICES ASSUME NEW i \in D, NEW k \in D, place[i] = place[k], i # k PROVE FALSE
      OBVIOUS
    <2>1. place[i] \in Int
      BY <1>9 DEF D
    <2>2. ~ (place[i] < place[k]) /\ ~ (place[k] < place[i])
      BY <2>1
    <2> QED
      BY <1>7, <1>8, <2>2
  <1>11. place \in Surjection(D, D)
    <2>1. place \in Injection(D, D)
      BY <1>9, <1>10 DEF Injection, IsInjective
    <2> QED
      BY <1>3, <2>1, FS_Injection
  <1>12. \A p \in D : inv[p] \in D /\ place[inv[p]] = p
    <2>1. \A p \in D : \E i \in D : place[i] = p
      BY <1>11 DEF Surjection
    <2> QED
      BY <1>19, <2>1
  <1>14. inv \in [D -> D]
    BY <1>12, <1>20
  <1>15. Permutes(inv, D)
    <2>1. \A p, q \in D : inv[p] = inv[q] => p = q
      BY <1>12
    <2>2. \A i \in D : \E p \in D : inv[p] = i
      <3> SUFFICES ASSUME NEW i \in D PROVE \E p \in D : inv[p] = i
        OBVIOUS
      <3>1. place[i] \in D
        BY <1>9
      <3>2. inv[place[i]] = i
        BY <1>10, <1>12, <3>1
      <3> QED
        BY <3>1, <3>2
    <2> QED
      BY <1>14, <2>1, <2>2 DEF Permutes
  <1>16. \A p, q \in D : p < q => Earlier(a, exp, inv[p], inv[q])
    <2> SUFFICES ASSUME NEW p \in D, NEW q \in D, p < q PROVE Earlier(a, exp, inv[p], inv[q])
      OBVIOUS
    <2>1. p # q /\ ~ (q < p)
      BY DEF D
    <2>2. inv[p] \in D /\ inv[q] \in D /\ place[inv[p]] = p /\ place[inv[q]] = q
      BY <1>12
    <2> QED
      BY <1>7, <1>8, <2>1, <2>2
  <1>17. \A p \in D : b[p] = a[inv[p]]
    BY <1>4
  <1>18. b \in [D -> Elem]
    BY <1>1, <1>4, <1>12
  <1> QED
    BY <1>15, <1>16, <1>17, <1>18 DEF D, b, Arr
-----------------------------------------------------------------------------
\* In order as far as the digits below e tell.
DigitsSorted(a, e, n) ==
  \A i, j \in 0 .. n - 1 : i < j => a[i].key % e <= a[j].key % e

\* A pass orders the array by one more digit.
LEMMA PassSortsDigits ==
  ASSUME NEW n \in Nat, NEW a \in Arr(n), NEW exp \in Nat \ {0}, DigitsSorted(a, exp, n)
  PROVE  LET b == RadixPass(a, exp)
         IN  b \in Arr(n) /\ Reordered(a, b) /\ DigitsSorted(b, exp * 10, n)
  <1> DEFINE D == 0 .. n - 1
             b == RadixPass(a, exp)
             x(i) == a[i].key
             d(i) == (x(i) \div exp) % 10
             r(i) == x(i) % exp
  <1>1. b \in Arr(n) /\ \E p : /\ Permutes(p, D) /\ \A i \in D : b[i] = a[p[i]]
                               /\ \A i, j \in D : i < j => Earlier(a, exp, p[i], p[j])
    BY PassReorders
  <1>2. PICK p : /\ Permutes(p, D) /\ \A i \in D : b[i] = a[p[i]]
                 /\ \A i, j \in D : i < j => Earlier(a, exp, p[i], p[j])
    BY <1>1
  <1> HIDE DEF b
  <1>3. DOMAIN a = D /\ DOMAIN b = D /\ \A i \in D : x(i) \in Int
    <2>1. \A i \in D : a[i] \in Elem
      BY DEF Arr
    <2> QED
      BY <1>1, <2>1 DEF Arr, Elem
  <1>4. Reordered(a, b)
    BY <1>2, <1>3 DEF Reordered
  <1>5. ASSUME NEW i \in D
        PROVE  d(i) \in Int /\ r(i) \in 0 .. exp - 1 /\ x(i) % (exp * 10) = exp * d(i) + r(i)
    <2> DEFINE y == x(i)
    <2>1. y \in Int
      BY <1>3
    <2> HIDE DEF y
    <2>2. (y \div exp) % 10 \in Int
      <3> DEFINE z == y \div exp
      <3>1. z \in Int
        BY <2>1, Divides
      <3> HIDE DEF z
      <3>2. z % 10 \in Int
        BY <3>1
      <3> QED
        BY <3>2 DEF z
    <2>3. y % exp \in 0 .. exp - 1
      BY <2>1, Divides
    <2>4. y % (exp * 10) = exp * ((y \div exp) % 10) + (y % exp)
      BY <2>1, NextDigit
    <2> QED
      BY <2>2, <2>3, <2>4 DEF y
  <1>6. ASSUME NEW i \in D, NEW j \in D, i < j PROVE b[i].key % (exp * 10) <= b[j].key % (exp * 10)
    <2> DEFINE k == p[i]
               l == p[j]
    <2>1. k \in D /\ l \in D /\ b[i].key = x(k) /\ b[j].key = x(l) /\ Earlier(a, exp, k, l)
      BY <1>2, <1>6 DEF Permutes
    <2>2. d(k) < d(l) \/ (d(k) = d(l) /\ k < l)
      BY <2>1 DEF Earlier, Digit, K
    <2> HIDE DEF k, l
    <2>3. d(k) \in Int /\ d(l) \in Int /\ r(k) \in 0 .. exp - 1 /\ r(l) \in 0 .. exp - 1
          /\ x(k) % (exp * 10) = exp * d(k) + r(k) /\ x(l) % (exp * 10) = exp * d(l) + r(l)
      BY <1>5, <2>1
    <2>4. CASE d(k) < d(l)
      <3> HIDE DEF d, r
      <3>1. exp * d(k) + r(k) <= exp * d(l) + r(l)
        BY <2>3, <2>4, HigherDigit
      <3> QED
        BY <2>1, <2>3, <3>1
    <2>5. CASE d(k) = d(l) /\ k < l
      <3>1. r(k) <= r(l)
        BY <2>1, <2>5 DEF DigitsSorted
      <3>2. exp * d(l) \in Int
        <4> HIDE DEF d
        <4> QED
          BY <2>3
      <3> DEFINE z == exp * d(l)
      <3>3. x(k) % (exp * 10) = z + r(k) /\ x(l) % (exp * 10) = z + r(l)
        BY <2>3, <2>5
      <3>4. z + r(k) <= z + r(l)
        <4> HIDE DEF z, r
        <4> QED
          BY <2>3, <3>1, <3>2 DEF z
      <3> QED
        BY <2>1, <3>3, <3>4
    <2> QED
      BY <2>2, <2>4, <2>5
  <1>7. DigitsSorted(b, exp * 10, n)
    BY <1>6 DEF DigitsSorted
  <1> QED
    BY <1>1, <1>4, <1>7 DEF b

\* The largest key is at least as large as any other.
LEMMA LargestIsLargest ==
  ASSUME NEW n \in Nat \ {0}, NEW a \in Arr(n)
  PROVE  /\ \E i \in 0 .. n - 1 : Largest(a) = a[i].key
         /\ \A i \in 0 .. n - 1 : a[i].key <= Largest(a)
  <1> DEFINE D == 0 .. n - 1
             x(i) == a[i].key
             S == [k \in Nat |-> {v \in Int : /\ \E i \in D : v = x(i)
                                              /\ \A i \in D : i <= k => x(i) <= v}]
  <1>1. Size(a) = n /\ n - 1 \in Nat
    BY SizeOf DEF Arr
  <1>2. \A i \in D : x(i) \in Int
    <2>1. \A i \in D : a[i] \in Elem
      BY DEF Arr
    <2> QED
      BY <2>1 DEF Elem
  <1> HIDE DEF x
  <1>3. x(0) \in S[0]
    <2>1. 0 \in D /\ \A i \in D : i <= 0 => i = 0
      OBVIOUS
    <2> QED
      BY <1>2, <2>1
  <1>4. ASSUME NEW k \in 0 .. (n - 1) - 1, NEW v \in S[k]
        PROVE  (IF x(k + 1) > v THEN x(k + 1) ELSE v) \in S[k + 1]
    <2> DEFINE z == k + 1
    <2>1. z \in Nat /\ z \in D /\ \A i \in D : i <= z => i = z \/ i <= k
      BY <1>1
    <2>2. v \in Int /\ (\E i \in D : v = x(i)) /\ \A i \in D : i <= k => x(i) <= v
      BY <1>4
    <2> HIDE DEF z
    <2>3. x(z) \in Int
      BY <1>2, <2>1
    <2>4. CASE x(z) > v
      <3>1. \A i \in D : i <= z => x(i) <= x(z)
        BY <1>2, <2>1, <2>2, <2>3, <2>4
      <3>2. x(z) \in S[z]
        BY <2>1, <2>3, <3>1
      <3> QED
        BY <2>4, <3>2 DEF z
    <2>5. CASE ~ (x(z) > v)
      <3>1. \A i \in D : i <= z => x(i) <= v
        BY <1>2, <2>1, <2>2, <2>3, <2>5
      <3>2. v \in S[z]
        BY <2>1, <2>2, <3>1
      <3> QED
        BY <2>5, <3>2 DEF z
    <2> QED
      BY <2>4, <2>5
  <1>5. Largest(a) \in S[n - 1]
    <2> HIDE DEF S
    <2> USE DEF x
    <2> QED
      BY <1>1, <1>3, <1>4, LargestRule
  <1>6. (\E i \in D : Largest(a) = x(i)) /\ \A i \in D : i <= n - 1 => x(i) <= Largest(a)
    BY <1>1, <1>5
  <1> QED
    BY <1>6 DEF x

\* The numbers that a radix sort can sort: the next power of ten above them is
\* still an unsigned number.
SmallNumbers(a, n) == \A i \in 0 .. n - 1 : a[i].key \in 0 .. UnsignedSize \div K

\* Radix sort sorts natural numbers that fit the unsigned type.
LEMMA RadixSorts ==
  ASSUME NEW n \in Nat \ {0}, NEW ascend \in BOOLEAN, NEW a \in Arr(n), SmallNumbers(a, n)
  PROVE  Sorts(a, RadixSort(a, ascend), n, ascend)
  <1> DEFINE D == 0 .. n - 1
             m == Largest(a)
             States == [list : Arr(n), exp : Nat \ {0}]
             Good(s, k) == /\ Reordered(a, s.list) /\ DigitsSorted(s.list, s.exp, n)
                           /\ s.exp > m \/ s.exp > k
             S == [k \in Nat |-> {s \in States : Good(s, k)}]
             start == [list |-> a, exp |-> 1]
  <1>1. Size(a) = n /\ DOMAIN a = D /\ n \in Nat
    BY SizeOf DEF Arr
  <1>2. UnsignedSize \in Nat \ {0} /\ UnsignedSize % 10 # 0
    BY SortingAssumption DEF K
  <1>3. /\ \E i \in D : m = a[i].key
        /\ \A i \in D : a[i].key <= m
    BY LargestIsLargest
  <1> HIDE DEF m
  <1>4. m \in Nat /\ m <= UnsignedSize \div 10 /\ \A i \in D : a[i].key \in 0 .. m
    <2>1. \A i \in D : a[i].key \in 0 .. UnsignedSize \div 10
      BY DEF SmallNumbers, K
    <2>2. UnsignedSize \div 10 \in Nat
      BY <1>2
    <2> DEFINE U == UnsignedSize \div 10
    <2> HIDE DEF U
    <2>3. U \in Nat /\ \A i \in D : a[i].key \in 0 .. U
      BY <2>1, <2>2 DEF U
    <2>4. m \in 0 .. U
      BY <1>3, <2>3
    <2> QED
      BY <1>3, <2>3, <2>4 DEF U
  <1>5. start \in S[0]
    <2>1. start.list = a /\ start.exp = 1 /\ start \in States
      OBVIOUS
    <2>2. \A i \in D : a[i].key % 1 = 0
      <3>1. \A i \in D : a[i].key \in Int
        BY <1>4
      <3>2. \A x \in Int : x % 1 = 0
        OBVIOUS
      <3> QED
        BY <3>1, <3>2
    <2>3. DigitsSorted(a, 1, n)
      BY <2>2 DEF DigitsSorted
    <2> HIDE DEF start, States
    <2>4. Good(start, 0)
      BY <2>1, <2>3, ReorderedItself
    <2> QED
      BY <2>1, <2>4
  <1>6. ASSUME NEW k \in 0 .. m - 1, NEW s \in S[k] PROVE RadixRound(s, m) \in S[k + 1]
    <2> DEFINE e == s.exp
               t == [list |-> RadixPass(s.list, e), exp |-> (e * K) % UnsignedSize]
    <2>1. /\ k \in Nat /\ k + 1 \in Nat /\ s \in States /\ s.list \in Arr(n) /\ e \in Nat \ {0}
          /\ Reordered(a, s.list) /\ DigitsSorted(s.list, e, n) /\ (e > m \/ e > k)
      BY <1>4, <1>6
    <2>2. RadixRound(s, m) = IF m \div e > 0 THEN t ELSE s
      BY DEF RadixRound
    <2> HIDE DEF e, t
    <2>3. CASE e <= m
      <3>1. m \div e > 0
        <4>1. m = e * (m \div e) + (m % e) /\ m \div e \in Int /\ m % e \in 0 .. e - 1
          BY <1>4, <2>1, Divides
        <4> DEFINE q == m \div e
                   p == e * q
        <4>2. q <= 0 => p <= 0
          BY <2>1, <4>1, NotPositive
        <4>3. p \in Int /\ q \in Int
          BY <2>1, <4>1
        <4>4. m = p + (m % e) /\ m % e \in Int /\ m % e < e
          BY <2>1, <4>1
        <4> HIDE DEF q, p
        <4>5. q > 0
          BY <1>4, <2>1, <2>3, <4>2, <4>3, <4>4
        <4> QED
          BY <4>5 DEF q
      <3>2. e * 10 < UnsignedSize
        BY <1>2, <1>4, <2>1, <2>3
      <3>3. (e * 10) % UnsignedSize = e * 10
        <4> DEFINE z == e * 10
        <4>1. z \in 0 .. UnsignedSize - 1
          BY <1>2, <2>1, <3>2
        <4> HIDE DEF z
        <4>2. z % UnsignedSize = z
          BY <1>2, <4>1, Small
        <4> QED
          BY <4>2 DEF z
      <3> DEFINE b == RadixPass(s.list, e)
      <3>4. t = [list |-> b, exp |-> e * 10]
        BY <3>3 DEF t, K
      <3>5. b \in Arr(n) /\ Reordered(s.list, b) /\ DigitsSorted(b, e * 10, n)
        BY <2>1, PassSortsDigits
      <3> HIDE DEF b
      <3>6. Reordered(a, b)
        BY <2>1, <3>5, ReorderedTwice
      <3>7. e * 10 \in Nat \ {0} /\ (e * 10 > m \/ e * 10 > k + 1)
        BY <1>4, <2>1, <2>3
      <3>8. t \in States /\ t.list = b /\ t.exp = e * 10
        BY <3>4, <3>5, <3>7
      <3> HIDE DEF States
      <3>9. Good(t, k + 1)
        BY <3>5, <3>6, <3>7, <3>8
      <3>10. RadixRound(s, m) = t
        BY <2>2, <3>1
      <3> HIDE DEF Good
      <3> QED
        BY <2>1, <3>8, <3>9, <3>10
    <2>4. CASE ~ (e <= m)
      <3>1. ~ (m \div e > 0)
        <4>1. m = e * (m \div e) + (m % e) /\ m \div e \in Int /\ m % e \in 0 .. e - 1
          BY <1>4, <2>1, Divides
        <4> QED
          BY <1>4, <2>1, <2>4, <4>1
      <3>2. Good(s, k + 1)
        BY <1>4, <2>1, <2>4 DEF e
      <3> HIDE DEF Good, States
      <3> QED
        BY <2>1, <2>2, <3>1, <3>2
    <2> QED
      BY <2>3, <2>4
  <1>7. \E r \in S[m] : RadixSort(a, ascend) = IF ascend THEN r.list
                                               ELSE [i \in DOMAIN a |-> r.list[Size(a) - 1 - i]]
    <2> HIDE DEF S
    <2> QED
      BY <1>4, <1>5, <1>6, RadixRule DEF m
  <1>8. PICK r \in S[m] : RadixSort(a, ascend) = IF ascend THEN r.list
                                                 ELSE [i \in DOMAIN a |-> r.list[Size(a) - 1 - i]]
    BY <1>7
  <1> DEFINE c == r.list
  <1>9. c \in Arr(n) /\ Reordered(a, c) /\ r.exp \in Nat \ {0} /\ r.exp > m /\ DigitsSorted(c, r.exp, n)
    BY <1>4, <1>8
  <1> HIDE DEF c, S
  <1>10. \A i \in D : c[i].key \in 0 .. m
    <2>1. PICK p : Permutes(p, D) /\ \A i \in D : c[i] = a[p[i]]
      BY <1>1, <1>9 DEF Reordered
    <2> QED
      BY <1>4, <2>1 DEF Permutes
  <1>11. ASSUME NEW i \in D, NEW j \in D, i < j PROVE c[i].key <= c[j].key
    <2>1. c[i].key % r.exp <= c[j].key % r.exp
      BY <1>9, <1>11 DEF DigitsSorted
    <2>2. \A x \in 0 .. m : x % r.exp = x
      <3> SUFFICES ASSUME NEW x \in 0 .. m PROVE x % r.exp = x
        OBVIOUS
      <3>1. x \in 0 .. r.exp - 1
        BY <1>4, <1>9
      <3> QED
        BY <1>9, <3>1, Small
    <2> QED
      BY <1>10, <2>1, <2>2
  <1>12. CASE ascend
    <2>1. Ordered(c, n, ascend)
      BY <1>11, <1>12 DEF Ordered, Rank
    <2> QED
      BY <1>8, <1>9, <1>12, <2>1 DEF Sorts, c
  <1>13. CASE ~ascend
    <2> DEFINE b == [i \in D |-> c[n - 1 - i]]
               q == [i \in D |-> n - 1 - i]
    <2>1. \A i \in D : n - 1 - i \in D /\ n - 1 - (n - 1 - i) = i
      OBVIOUS
    <2>2. RadixSort(a, ascend) = b
      BY <1>1, <1>8, <1>13 DEF c
    <2>3. b \in Arr(n) /\ DOMAIN c = D
      <3>1. c \in [D -> Elem]
        BY <1>9 DEF Arr
      <3>2. b \in [D -> Elem]
        BY <2>1, <3>1
      <3> HIDE DEF b
      <3> QED
        BY <3>1, <3>2 DEF Arr
    <2>4. Permutes(q, D)
      <3>1. q \in [D -> D]
        BY <2>1
      <3>2. \A i, j \in D : q[i] = q[j] => i = j
        OBVIOUS
      <3>3. \A j \in D : \E i \in D : q[i] = j
        <4> SUFFICES ASSUME NEW j \in D PROVE \E i \in D : q[i] = j
          OBVIOUS
        <4>1. n - 1 - j \in D /\ q[n - 1 - j] = j
          BY <2>1
        <4> QED
          BY <4>1
      <3> HIDE DEF q
      <3> QED
        BY <3>1, <3>2, <3>3 DEF Permutes
    <2>5. Reordered(c, b)
      <3>1. DOMAIN b = D /\ \A i \in D : b[i] = c[q[i]]
        OBVIOUS
      <3> HIDE DEF b, q, D
      <3> QED
        BY <2>3, <2>4, <3>1 DEF Reordered
    <2>6. Reordered(a, b)
      <3> HIDE DEF b
      <3> QED
        BY <1>9, <2>5, ReorderedTwice
    <2>7. ASSUME NEW i \in D, NEW j \in D, i < j PROVE Rank(b[i], ascend) <= Rank(b[j], ascend)
      <3>1. n - 1 - j \in D /\ n - 1 - i \in D /\ n - 1 - j < n - 1 - i
        BY <2>1, <2>7
      <3>2. c[n - 1 - j].key <= c[n - 1 - i].key
        BY <1>11, <3>1
      <3>3. b[i].key = c[n - 1 - i].key /\ b[j].key = c[n - 1 - j].key
        OBVIOUS
      <3>4. b[i].key \in Int /\ b[j].key \in Int
        BY <1>10, <3>1, <3>3
      <3> HIDE DEF b
      <3> QED
        BY <1>13, <3>2, <3>3, <3>4 DEF Rank
    <2>8. Ordered(b, n, ascend)
      BY <2>7 DEF Ordered
    <2> HIDE DEF b
    <2> QED
      BY <2>2, <2>3, <2>6, <2>8 DEF Sorts
  <1> QED
    BY <1>12, <1>13
-----------------------------------------------------------------------------
\* An array that has been put in order is what is promised, and one that is
\* only reordered is when memory ran out.
LEMMA SortedIsSorted ==
  ASSUME NEW n \in Nat, NEW ascend \in BOOLEAN, NEW a \in Arr(n), NEW r,
         r.list \in Arr(n), Reordered(a, r.list), r.ret = "ok" => Ordered(r.list, n, ascend)
  PROVE  SortedBy(a, r, ascend)
  <1> DEFINE b == r.list
             D == 0 .. n - 1
  <1>1. DOMAIN a = D /\ DOMAIN b = D
    BY DEF Arr
  <1>2. IsFiniteSet(DOMAIN a)
    BY <1>1, FS_Interval
  <1>3. \A x : Cardinality({i \in DOMAIN a : a[i] = x}) = Cardinality({i \in DOMAIN a : b[i] = x})
    <2>1. Reordered(a, b)
      OBVIOUS
    <2> HIDE DEF b
    <2>2. \A x : Occurrences(a, DOMAIN a, x) = Occurrences(b, DOMAIN a, x)
      BY <1>2, <2>1, ReorderedCounts
    <2> QED
      BY <2>2 DEF Occurrences
  <1>4. ASSUME r.ret = "ok", NEW i \in DOMAIN a, NEW j \in DOMAIN a, i < j
        PROVE  ~Before(b[j], b[i], ascend)
    <2>1. i \in D /\ j \in D /\ Rank(b[i], ascend) <= Rank(b[j], ascend)
      BY <1>1, <1>4 DEF Ordered
    <2>2. /\ Rank(b[i], ascend) \in Int /\ Rank(b[j], ascend) \in Int
          /\ Before(b[j], b[i], ascend) <=> Rank(b[j], ascend) < Rank(b[i], ascend)
      BY <2>1, RanksOf
    <2> QED
      BY <2>1, <2>2
  <1> QED
    BY <1>1, <1>3, <1>4 DEF SortedBy

\* A sorted array is a right result.
LEMMA SortedIsDone ==
  ASSUME NEW n \in Nat, NEW ascend \in BOOLEAN, NEW a \in Arr(n), NEW b, Sorts(a, b, n, ascend)
  PROVE  SortedBy(a, Done(b), ascend)
  <1>1. b \in Arr(n) /\ Reordered(a, b) /\ Ordered(b, n, ascend)
    BY DEF Sorts
  <1>2. Done(b).list = b
    BY DEF Done
  <1> QED
    BY <1>1, <1>2, SortedIsSorted

\* So is the array itself, when memory ran out.
LEMMA UnsortedIsNoMemory ==
  ASSUME NEW n \in Nat, NEW ascend \in BOOLEAN, NEW a \in Arr(n)
  PROVE  SortedBy(a, NoMemory(a), ascend)
  <1>1. NoMemory(a).list = a /\ NoMemory(a).ret # "ok"
    BY DEF NoMemory
  <1> QED
    BY <1>1, ReorderedItself, SortedIsSorted

\* Every algorithm sorts numbers ...
LEMMA NumbersSorted ==
  ASSUME NEW n \in Nat \ {0}, NEW ascend \in BOOLEAN, NEW a \in Arr(n), NEW type \in SortTypes,
         NEW memory, Sortable(a, type)
  PROVE  SortedBy(a, SortNumbers(a, type, ascend, memory), ascend)
  <1>9. n \in Nat
    OBVIOUS
  <1>1. CASE type = "bubble"
    BY <1>9, <1>1, BubbleSorts, SortedIsDone DEF SortNumbers
  <1>2. CASE type = "heap"
    BY <1>9, <1>2, HeapSorts, SortedIsDone DEF SortNumbers
  <1>3. CASE type = "insert"
    BY <1>9, <1>3, InsertionSorts, SortedIsDone DEF SortNumbers
  <1>4. CASE type = "quick"
    <2> DEFINE r == Quick(a, ascend, NoLimit)
    <2>1. NoLimit \in Int /\ NoLimit < 0
      BY DEF NoLimit
    <2> HIDE DEF r
    <2>2. r.list \in Arr(n) /\ Reordered(a, r.list) /\ Ordered(r.list, n, ascend)
      BY <2>1, QuickSorts DEF r
    <2>3. Sorts(a, r.list, n, ascend)
      BY <2>2 DEF Sorts
    <2>4. SortedBy(a, Done(r.list), ascend)
      BY <1>9, <2>3, SortedIsDone
    <2>5. SortNumbers(a, type, ascend, memory) = Done(r.list)
      BY <1>4 DEF SortNumbers, r
    <2> QED
      BY <2>4, <2>5
  <1>5. CASE type = "select"
    BY <1>9, <1>5, SelectionSorts, SortedIsDone DEF SortNumbers
  <1>6. CASE type = "radix"
    <2>1. DOMAIN a = 0 .. n - 1
      BY DEF Arr
    <2>2. SmallNumbers(a, n)
      BY <1>6, <2>1 DEF Sortable, SmallNumbers
    <2>3. SortedBy(a, Done(RadixSort(a, ascend)), ascend)
      BY <1>9, <2>2, RadixSorts, SortedIsDone
    <2>4. SortedBy(a, NoMemory(a), ascend)
      BY <1>9, UnsortedIsNoMemory
    <2> QED
      BY <1>6, <2>3, <2>4 DEF SortNumbers
  <1> QED
    BY <1>1, <1>2, <1>3, <1>4, <1>5, <1>6 DEF SortTypes

\* ... and pointers.
LEMMA PointersSorted ==
  ASSUME NEW n \in Nat \ {0}, NEW ascend \in BOOLEAN, NEW a \in Arr(n), NEW type \in SortTypes,
         NEW memory \in Nat, Sortable(a, type)
  PROVE  SortedBy(a, SortPointers(a, type, ascend, memory), ascend)
  <1>9. n \in Nat /\ memory \in Int
    OBVIOUS
  <1>1. CASE type = "radix"
    <2> DEFINE r == [list |-> a, ret |-> "XT_EOPNOTSUPP"]
    <2>1. r.list = a /\ r.ret # "ok"
      OBVIOUS
    <2> HIDE DEF r
    <2>2. SortedBy(a, r, ascend)
      BY <1>9, <2>1, ReorderedItself, SortedIsSorted
    <2> QED
      BY <1>1, <2>2 DEF SortPointers, r
  <1>2. CASE type = "quick"
    <2> DEFINE q == Quick(a, ascend, memory)
               r == [list |-> q.list, ret |-> q.ret]
    <2>1. SortPointers(a, type, ascend, memory) = r
      BY <1>2 DEF SortPointers
    <2> HIDE DEF q
    <2>2. q.list \in Arr(n) /\ Reordered(a, q.list) /\ (q.ret = "ok" => Ordered(q.list, n, ascend))
      BY <1>9, QuickSorts DEF q
    <2>3. r.list = q.list /\ r.ret = q.ret
      OBVIOUS
    <2> HIDE DEF r
    <2>4. SortedBy(a, r, ascend)
      BY <1>9, <2>2, <2>3, SortedIsSorted
    <2> QED
      BY <2>1, <2>4
  <1>3. CASE type # "radix" /\ type # "quick"
    <2>1. SortPointers(a, type, ascend, memory) =
            IF memory = 0 THEN NoMemory(a) ELSE SortNumbers(a, type, ascend, memory)
      BY <1>3 DEF SortPointers
    <2> QED
      BY <1>9, <2>1, NumbersSorted, UnsortedIsNoMemory
  <1> QED
    BY <1>1, <1>2, <1>3

\* Whatever the numbers and however many, every algorithm of sort.c returns
\* the elements it was given, in the order that was asked for unless it
\* reports that it could not allocate memory or is not supported.
THEOREM SortsSort == PureSpec => []SortsCorrectly
  <1>1. ASSUME Is("sort"), SortInput(input) PROVE SortsCorrectly
    <2> DEFINE keys == input.keys
               n == Cardinality(DOMAIN keys)
               list == [i \in DOMAIN keys |-> [key |-> keys[i], id |-> i]]
    <2>1. /\ input.type \in SortTypes /\ input.ascend \in BOOLEAN /\ input.memory \in Nat
          /\ n \in Nat /\ keys \in [0 .. n - 1 -> Int]
      BY <1>1 DEF SortInput
    <2>2. SortsCorrectly <=>
            (Sortable(list, input.type) =>
               /\ SortedBy(list, SortNumbers(list, input.type, input.ascend, input.memory), input.ascend)
               /\ SortedBy(list, SortPointers(list, input.type, input.ascend, input.memory), input.ascend))
      BY <1>1 DEF SortsCorrectly
    <2> HIDE DEF keys, n
    <2>3. list \in Arr(n)
      <3>1. DOMAIN keys = 0 .. n - 1 /\ \A i \in 0 .. n - 1 : keys[i] \in Int
        BY <2>1
      <3>2. \A i \in 0 .. n - 1 : [key |-> keys[i], id |-> i] \in Elem
        BY <2>1, <3>1 DEF Elem
      <3>3. list \in [0 .. n - 1 -> Elem]
        BY <3>1, <3>2
      <3> QED
        BY <3>3 DEF Arr
    <2> HIDE DEF list
    <2>4. ASSUME Sortable(list, input.type) PROVE n \in Nat \ {0}
      <3>1. Size(list) = n
        BY <2>1, <2>3, SizeOf DEF Arr
      <3> QED
        BY <2>1, <2>4, <3>1 DEF Sortable
    <2> QED
      BY <2>1, <2>2, <2>3, <2>4, NumbersSorted, PointersSorted
  <1>2. SortsCorrectly /\ UNCHANGED input => SortsCorrectly'
    BY DEF SortsCorrectly, Is
  <1>3. PureInit => SortsCorrectly
    <2>1. ~Is("sort") => SortsCorrectly
      BY DEF SortsCorrectly
    <2> QED
      BY <1>1, <2>1 DEF PureInit
  <1>4. SortsCorrectly /\ [PureNext]_input => SortsCorrectly'
    BY <1>2 DEF PureNext
  <1> QED
    BY <1>3, <1>4, PTL DEF PureSpec
=============================================================================
