---------------------------- MODULE FilterProofs ----------------------------
(***************************************************************************)
(* Proofs about WindowMedian, for signals of any length and any integers,  *)
(* and about HeapMedian, for any length of the array that the code allows. *)
(***************************************************************************)
EXTENDS HeapMedian, WindowMedian, FiniteSetTheorems, TLAPS

-----------------------------------------------------------------------------
(* The inductive invariant *)

\* The heap once the value that moves through it has found its place.
Settled(s) ==
    IF pc \in {"up", "down"} /\ s = side THEN [heap[s] EXCEPT ![child] = val] ELSE heap[s]

\* The heaps that still count.
Counting == IF pc \in {"fill", "up"} THEN Sides ELSE {side}

\* Where the algorithm is tells how many values it has read and kept.
Progress ==
    /\ seen \in [Values -> 0..read]
    /\ pc \in {"fill", "up"} => read = n["left"] + n["right"] - 1
    /\ pc = "fill" => \A s \in Sides : n[s] < Lh
    /\ pc = "up" => child \in Held(side) /\ \A s \in Sides : s # side => n[s] < Lh
    /\ pc = "down" => child \in Places
    /\ pc \in {"drain", "down", "done"} => n[side] = Lh
    /\ pc = "done" => read = L

\* k may be nearer to the median than its parent: it moves up.
Rising(s, k) == pc = "up" /\ s = side /\ k = child

\* The parent of k may be further out than k: it moves down.
Sinking(s, k) == pc = "down" /\ s = side /\ Parent(k) = child

\* The heaps are ordered but for the value that moves, and would be without it.
NearlyOrdered ==
    \A s \in Counting : \A k \in Held(s) :
        /\ Settled(s)[k] \in Values
        /\ Parent(k) # 0 /\ ~Rising(s, k) /\ ~Sinking(s, k) =>
              ~Before(s, Settled(s)[Parent(k)], Settled(s)[k])
        /\ pc \in {"up", "down"} /\ s = side /\ Parent(k) = child /\ Parent(child) # 0 =>
              ~Before(s, Settled(s)[Parent(child)], Settled(s)[k])

\* The places of value v in a heap.
PlacesOf(s, v) == {k \in Held(s) : Settled(s)[k] = v}

\* The heap has what is further out than the median, and not all of its copies,
\* since the median is one.
Partitioned ==
    \A s \in Counting :
        /\ \A v \in Values :
              /\ Before(s, v, median) => Cardinality(PlacesOf(s, v)) = seen[v]
              /\ Before(s, median, v) => PlacesOf(s, v) = {}
        /\ Cardinality(PlacesOf(s, median)) < seen[median]

\* Why the median is in the middle.
HeapInv ==
    /\ TypeOK /\ Progress /\ NearlyOrdered /\ Partitioned
    /\ IsFiniteSet(Reads) /\ Cardinality(Reads) = read

-----------------------------------------------------------------------------

-----------------------------------------------------------------------------
(* The inductive invariant *)

\* w holds what p holds, in another order: there are maps to and fro.
Rearranges(w, p) ==
    \E f, g \in [Cells -> Cells] :
        /\ \A c \in Cells : g[f[c]] = c /\ f[g[c]] = c
        /\ \A c \in Cells : w[c] = p[f[c]]

\* The window holds the picked samples, each of them once.
Rearranged == Rearranges(window, Picked(i))

\* After j rounds the j least are at the front, in order.
FrontSorted == \A a \in 0..j - 1 : \A b \in a + 1..4 : window[a] <= window[b]

FilterTyped ==
    /\ N \in Nat \ {0}
    /\ signal \in [0..N - 1 -> Int]
    /\ result \in [0..N - 1 -> Int \cup {Nothing}]
    /\ i \in 0..N /\ j \in 0..3
    /\ at \in {"call", "pick", "sort", "returned"}
    /\ at = "call" => i = 0
    /\ at = "sort" => i < N
    /\ at \in {"pick", "sort"} => N > 1

\* Why the filter returns medians.
FilterInv ==
    /\ FilterTyped
    /\ at \in {"pick", "sort"} => extension = Extend(signal, N)
    /\ at = "sort" => window \in [Cells -> Int] /\ Rearranged /\ FrontSorted
    /\ ResultIsMedian

-----------------------------------------------------------------------------
(* Lemmas about windows *)

\* The extension is the reflected signal, two places further on.
LEMMA ExtensionReflects ==
    ASSUME FilterTyped, N > 1, extension = Extend(signal, N), NEW k \in 0..N - 1
    PROVE  /\ Picked(k) \in [Cells -> Int]
           /\ \A c \in Cells : Picked(k)[c] = Reflected(k - 2 + c)
<1> SUFFICES ASSUME NEW c \in Cells
             PROVE  extension[k + c] \in Int /\ extension[k + c] = Reflected(k - 2 + c)
  BY DEF Picked
<1>1. k + c \in 0..N + 3 /\ N \in Nat /\ k \in Int /\ c \in Int
  BY DEF Cells, FilterTyped
<1>2. extension[k + c] = signal[Source(N, k + c)]
  BY <1>1 DEF Extend
<1>3. Source(N, k + c) \in 0..N - 1
  BY <1>1 DEF Source
<1>4. Reflected(k - 2 + c) = signal[Source(N, k + c)]
  <2>1. CASE k + c < 2
    BY <2>1, <1>1 DEF Source, Reflected
  <2>2. CASE k + c \in 2..N + 1
    BY <2>2, <1>1 DEF Source, Reflected
  <2>3. CASE k + c > N + 1
    BY <2>3, <1>1 DEF Source, Reflected
  <2> QED BY <2>1, <2>2, <2>3, <1>1
<1> QED BY <1>2, <1>3, <1>4 DEF FilterTyped

\* A nonempty part of a window has a first least place.
LEMMA LeastExists ==
    ASSUME NEW w \in [Cells -> Int], NEW f \in 0..2
    PROVE  /\ Least(w, f) \in f..4
           /\ \A c \in f..4 : w[Least(w, f)] <= w[c]
<1> DEFINE First(k) == /\ \A c \in f..4 : w[k] <= w[c]
                       /\ \A c \in f..k - 1 : w[k] < w[c]
<1>1. \A c \in Cells : w[c] \in Int
  OBVIOUS
<1>2. w[0] \in Int /\ w[1] \in Int /\ w[2] \in Int /\ w[3] \in Int /\ w[4] \in Int
  BY <1>1 DEF Cells
<1>3. \E k \in f..4 : First(k)
  <2>1. CASE f = 0
    <3>1. f..4 = {0, 1, 2, 3, 4}
      BY <2>1
    <3>2. \A k \in f..4 : First(k) <=> (/\ \A c \in {0, 1, 2, 3, 4} : w[k] <= w[c]
                                       /\ \A c \in {0, 1, 2, 3, 4} : c < k => w[k] < w[c])
      BY <3>1
    <3> HIDE DEF First
    <3> QED BY <3>1, <3>2, <1>2, Z3
  <2>2. CASE f = 1
    <3>1. f..4 = {1, 2, 3, 4}
      BY <2>2
    <3>2. \A k \in f..4 : First(k) <=> (/\ \A c \in {1, 2, 3, 4} : w[k] <= w[c]
                                       /\ \A c \in {1, 2, 3, 4} : c < k => w[k] < w[c])
      BY <3>1
    <3> HIDE DEF First
    <3> QED BY <3>1, <3>2, <1>2, Z3
  <2>3. CASE f = 2
    <3>1. f..4 = {2, 3, 4}
      BY <2>3
    <3>2. \A k \in f..4 : First(k) <=> (/\ \A c \in {2, 3, 4} : w[k] <= w[c]
                                       /\ \A c \in {2, 3, 4} : c < k => w[k] < w[c])
      BY <3>1
    <3> HIDE DEF First
    <3> QED BY <3>1, <3>2, <1>2, Z3
  <2> QED BY <2>1, <2>2, <2>3
<1>4. First(Least(w, f)) /\ Least(w, f) \in f..4
  BY <1>3, Zenon DEF Least
<1> QED BY <1>4

\* A set of two has no more than two elements, nor has a part of it.
LEMMA AtMostTwo ==
    ASSUME NEW x, NEW y, NEW S \in SUBSET {x, y}
    PROVE  Cardinality(S) <= 2
<1>1. IsFiniteSet({x}) /\ Cardinality({x}) = 1
  BY FS_Singleton
<1>2. IsFiniteSet({x} \cup {y}) /\ Cardinality({x} \cup {y}) <= 2
  BY <1>1, FS_AddElement
<1>3. {x} \cup {y} = {x, y}
  OBVIOUS
<1>4. Cardinality({x, y}) \in Nat /\ Cardinality(S) \in Nat
  BY <1>2, <1>3, FS_CardinalityType, FS_Subset
<1>5. Cardinality(S) <= Cardinality({x, y})
  BY <1>2, <1>3, FS_Subset
<1> QED BY <1>2, <1>3, <1>4, <1>5

\* Exchanging two places keeps the window a rearrangement of the samples.
LEMMA SwapRearranges ==
    ASSUME NEW w \in [Cells -> Int], NEW p \in [Cells -> Int],
           NEW a \in Cells, NEW b \in Cells, Rearranges(w, p)
    PROVE  Rearranges(Swapped(w, a, b), p)
<1>0. PICK f \in [Cells -> Cells], g \in [Cells -> Cells] :
        /\ \A c \in Cells : g[f[c]] = c /\ f[g[c]] = c
        /\ \A c \in Cells : w[c] = p[f[c]]
  BY DEF Rearranges
<1> DEFINE t == [c \in Cells |-> IF c = a THEN b ELSE IF c = b THEN a ELSE c]
           ff == [c \in Cells |-> f[t[c]]]
           gg == [c \in Cells |-> t[g[c]]]
<1>1. /\ t \in [Cells -> Cells]
      /\ \A c \in Cells : t[t[c]] = c
  OBVIOUS
<1>2. \A c \in Cells : Swapped(w, a, b)[c] = w[t[c]]
  BY DEF Swapped
<1> HIDE DEF t
<1>3. ff \in [Cells -> Cells] /\ gg \in [Cells -> Cells]
  BY <1>1
<1>4. \A c \in Cells : gg[ff[c]] = c /\ ff[gg[c]] = c
  BY <1>0, <1>1
<1>5. \A c \in Cells : Swapped(w, a, b)[c] = p[ff[c]]
  BY <1>0, <1>1, <1>2
<1> HIDE DEF ff, gg
<1> QED BY <1>3, <1>4, <1>5 DEF Rearranges

\* A round brings the least of the rest to the front.
LEMMA RoundSorts ==
    ASSUME NEW w \in [Cells -> Int], NEW r \in 0..2,
           \A a \in 0..r - 1 : \A b \in a + 1..4 : w[a] <= w[b]
    PROVE  LET v == Swapped(w, r, Least(w, r))
           IN  \A a \in 0..r : \A b \in a + 1..4 : v[a] <= v[b]
<1> DEFINE m == Least(w, r)
           v == Swapped(w, r, m)
<1>1. m \in r..4 /\ \A c \in r..4 : w[m] <= w[c]
  BY LeastExists
<1>2. m \in Cells /\ r \in Cells /\ \A c \in Cells : w[c] \in Int
  BY <1>1 DEF Cells
<1> HIDE DEF m
<1>3. \A c \in Cells : v[c] = IF c = m THEN w[r] ELSE IF c = r THEN w[m] ELSE w[c]
  BY <1>2 DEF Swapped
<1> HIDE DEF v
<1> SUFFICES ASSUME NEW a \in 0..r, NEW b \in a + 1..4
             PROVE  v[a] <= v[b]
  BY DEF v, m
<1>4. a \in Cells /\ b \in Cells
  BY DEF Cells
<1>5. CASE a = r
  BY <1>5, <1>1, <1>2, <1>3, <1>4
<1>6. CASE a < r
  BY <1>6, <1>1, <1>2, <1>3, <1>4
<1> QED BY <1>5, <1>6

\* With the three least at the front in order, the middle is the median.
LEMMA MiddleIsMedian ==
    ASSUME FilterTyped, N > 1, extension = Extend(signal, N), i < N,
           window \in [Cells -> Int], Rearranged, j = 3, FrontSorted
    PROVE  IsMedian(window[2], i)
<1> DEFINE v == window[2]
<1>1. PICK f \in [Cells -> Cells], g \in [Cells -> Cells] :
        /\ \A c \in Cells : g[f[c]] = c /\ f[g[c]] = c
        /\ \A c \in Cells : window[c] = Picked(i)[f[c]]
  BY DEF Rearranged, Rearranges
<1>2. i \in 0..N - 1
  BY DEF FilterTyped
<1>3. \A c \in Cells : Picked(i)[c] = Reflected(i - 2 + c)
  BY <1>2, ExtensionReflects
<1>4. \A c \in Cells : Reflected(i - 2 + c) = window[g[c]]
  BY <1>1, <1>3
<1>5. \A c \in Cells : window[c] \in Int
  OBVIOUS
<1>6. /\ window[0] <= v /\ window[1] <= v
      /\ v <= window[3] /\ v <= window[4] /\ v \in Int
  BY <1>5 DEF FrontSorted, Cells
<1>7. \A c \in Cells : Reflected(i - 2 + c) < v => c \in {f[0], f[1]}
  <2> SUFFICES ASSUME NEW c \in Cells, window[g[c]] < v PROVE c \in {f[0], f[1]}
    BY <1>4
  <2>1. g[c] \in Cells /\ g[c] # 2
    BY <1>6
  <2>2. g[c] \in {0, 1}
    BY <2>1, <1>5, <1>6 DEF Cells
  <2> QED BY <2>2, <1>1
<1>8. \A c \in Cells : Reflected(i - 2 + c) > v => c \in {f[3], f[4]}
  <2> SUFFICES ASSUME NEW c \in Cells, window[g[c]] > v PROVE c \in {f[3], f[4]}
    BY <1>4
  <2>1. g[c] \in Cells /\ g[c] # 2
    BY <1>6
  <2>2. g[c] \in {3, 4}
    BY <2>1, <1>5, <1>6 DEF Cells
  <2> QED BY <2>2, <1>1
<1>9. Cardinality({c \in Cells : Reflected(i - 2 + c) < v}) <= 2
  BY <1>7, AtMostTwo
<1>10. Cardinality({c \in Cells : Reflected(i - 2 + c) > v}) <= 2
  BY <1>8, AtMostTwo
<1>11. \E c \in Cells : Reflected(i - 2 + c) = v
  <2>1. f[2] \in Cells /\ g[f[2]] = 2
    BY <1>1 DEF Cells
  <2> QED BY <2>1, <1>4
<1> QED BY <1>9, <1>10, <1>11 DEF IsMedian

-----------------------------------------------------------------------------
(* Invariance *)

\* Nothing has been written at the start.
LEMMA FilterInvInit == FilterInit => FilterInv
<1> SUFFICES ASSUME FilterInit PROVE FilterInv
  OBVIOUS
<1> USE FilterAssumption
<1>1. N \in Nat \ {0} /\ signal \in [0..N - 1 -> Int] /\ i = 0 /\ j = 0 /\ at = "call"
  BY DEF FilterInit
<1>2. result \in [0..N - 1 -> Int \cup {Nothing}]
  BY DEF FilterInit
<1>3. FilterTyped
  BY <1>1, <1>2 DEF FilterTyped
<1>4. ResultIsMedian
  BY <1>1 DEF ResultIsMedian
<1> QED BY <1>1, <1>3, <1>4 DEF FilterInv

\* Every step keeps the invariant.
LEMMA FilterInvStep == FilterInv /\ [FilterNext]_filterVars => FilterInv'
<1> SUFFICES ASSUME FilterInv, [FilterNext]_filterVars PROVE FilterInv'
  OBVIOUS
<1> USE DEF FilterInv
<1>1. CASE UNCHANGED filterVars
  <2>1. FilterTyped'
    BY <1>1 DEF filterVars, FilterTyped
  <2>2. at = "sort" => (window \in [Cells -> Int] /\ Rearranged /\ FrontSorted)'
    BY <1>1 DEF filterVars, Rearranged, Rearranges, FrontSorted, Picked
  <2>3. ResultIsMedian'
    BY <1>1 DEF filterVars, ResultIsMedian, IsMedian, Reflected
  <2> QED BY <1>1, <2>1, <2>2, <2>3 DEF filterVars
<1>2. ASSUME UNCHANGED <<N, signal, result, i>>
      PROVE  (N > 1 => \A k \in 0..i - 1 : IsMedian(result[k], k))'
  BY <1>2 DEF ResultIsMedian, IsMedian, Reflected
<1>3. CASE CallSingle
  <2>1. FilterTyped'
    BY <1>3 DEF CallSingle, FilterTyped
  <2>2. ResultIsMedian'
    BY <1>3 DEF CallSingle, ResultIsMedian, FilterTyped
  <2> QED BY <1>3, <2>1, <2>2 DEF CallSingle
<1>4. CASE CallExtends
  <2>1. FilterTyped'
    BY <1>4 DEF CallExtends, FilterTyped
  <2>2. ResultIsMedian'
    BY <1>4, <1>2 DEF CallExtends, ResultIsMedian
  <2> QED BY <1>4, <2>1, <2>2 DEF CallExtends
<1>5. CASE Pick
  <2>1. FilterTyped'
    BY <1>5 DEF Pick, FilterTyped
  <2>2. ResultIsMedian'
    BY <1>5, <1>2 DEF Pick, ResultIsMedian
  <2>3. i \in 0..N - 1 /\ N > 1
    BY <1>5 DEF Pick, FilterTyped
  <2>4. window' = Picked(i) /\ window' \in [Cells -> Int]
    BY <1>5, <2>3, ExtensionReflects DEF Pick
  <2>5. Picked(i)' = Picked(i)
    BY <1>5 DEF Pick, Picked
  <2>6. Rearranged'
    <3> DEFINE id == [c \in Cells |-> c]
    <3>1. id \in [Cells -> Cells] /\ \A c \in Cells : id[id[c]] = c
      OBVIOUS
    <3>2. \A c \in Cells : window'[c] = Picked(i)'[id[c]]
      BY <2>4, <2>5
    <3> HIDE DEF id
    <3> QED BY <3>1, <3>2 DEF Rearranged, Rearranges
  <2>7. FrontSorted'
    BY <1>5 DEF Pick, FrontSorted
  <2> QED BY <1>5, <2>1, <2>2, <2>4, <2>6, <2>7 DEF Pick
<1>6. CASE SortRound
  <2> DEFINE m == Least(window, j)
  <2>1. j \in 0..2 /\ j' = j + 1 /\ window' = Swapped(window, j, m)
    BY <1>6 DEF SortRound, Rounds, FilterTyped
  <2>2. window \in [Cells -> Int] /\ Rearranged /\ FrontSorted
    BY <1>6 DEF SortRound
  <2>3. m \in Cells /\ j \in Cells
    BY <2>1, <2>2, LeastExists DEF Cells
  <2>4. FilterTyped'
    BY <1>6, <2>1 DEF SortRound, FilterTyped
  <2>5. ResultIsMedian'
    BY <1>6, <1>2 DEF SortRound, ResultIsMedian
  <2>6. window' \in [Cells -> Int]
    BY <2>1, <2>2, <2>3 DEF Swapped
  <2>7. Picked(i)' = Picked(i) /\ Picked(i) \in [Cells -> Int]
    <3>1. i \in 0..N - 1 /\ N > 1
      BY <1>6 DEF SortRound, FilterTyped
    <3> QED BY <1>6, <3>1, ExtensionReflects DEF SortRound, Picked
  <2>8. Rearranged'
    <3>1. Rearranges(window, Picked(i))
      BY <2>2 DEF Rearranged
    <3>2. Rearranges(window', Picked(i))
      BY <3>1, <2>1, <2>2, <2>3, <2>7, SwapRearranges
    <3> QED BY <3>2, <2>7 DEF Rearranged
  <2>9. FrontSorted'
    <3>1. \A a \in 0..j : \A b \in a + 1..4 : window'[a] <= window'[b]
      BY <2>1, <2>2, RoundSorts DEF FrontSorted
    <3>2. 0..j' - 1 = 0..j
      BY <2>1
    <3> QED BY <3>1, <3>2 DEF FrontSorted
  <2> QED BY <1>6, <2>4, <2>5, <2>6, <2>8, <2>9 DEF SortRound
<1>7. CASE Store
  <2>1. /\ i' = i + 1 /\ result' = [result EXCEPT ![i] = window[2]]
        /\ UNCHANGED <<N, signal, extension, j, window>> /\ at' = "pick"
        /\ i \in 0..N - 1 /\ N > 1 /\ j = 3
        /\ window \in [Cells -> Int]
    BY <1>7 DEF Store, Rounds, FilterTyped
  <2>2. IsMedian(window[2], i)
    <3>1. FilterTyped /\ extension = Extend(signal, N) /\ Rearranged /\ FrontSorted
      BY <1>7 DEF Store
    <3>2. i < N /\ N > 1 /\ j = 3 /\ window \in [Cells -> Int]
      BY <2>1 DEF FilterTyped
    <3> HIDE DEF FilterInv
    <3> QED BY <3>1, <3>2, MiddleIsMedian
  <2>3. window[2] \in Int
    BY <2>1 DEF Cells
  <2>4. FilterTyped'
    BY <2>1, <2>3 DEF FilterTyped
  <2>5. \A k \in 0..i : IsMedian(result'[k], k)
    <3> SUFFICES ASSUME NEW k \in 0..i PROVE IsMedian(result'[k], k)
      OBVIOUS
    <3>1. CASE k = i
      BY <3>1, <2>1, <2>2 DEF FilterTyped
    <3>2. CASE k # i
      BY <3>2, <2>1 DEF FilterTyped, ResultIsMedian
    <3> QED BY <3>1, <3>2
  <2>6. ResultIsMedian'
    <3>1. \A k \in 0..i : IsMedian(result[k], k)'
      BY <2>1, <2>5 DEF IsMedian, Reflected
    <3>2. 0..i' - 1 = 0..i
      BY <2>1
    <3> QED BY <3>1, <3>2, <2>1 DEF ResultIsMedian
  <2> QED BY <1>7, <2>1, <2>4, <2>6 DEF Store
<1>8. CASE FilterReturns
  <2>1. FilterTyped'
    BY <1>8 DEF FilterReturns, FilterTyped
  <2>2. ResultIsMedian'
    BY <1>8, <1>2 DEF FilterReturns, ResultIsMedian, FilterTyped
  <2> QED BY <1>8, <2>1, <2>2 DEF FilterReturns
<1> QED BY <1>1, <1>3, <1>4, <1>5, <1>6, <1>7, <1>8 DEF FilterNext

\* medianfilter() writes the median of each window, for every signal.
THEOREM FilterTheorem == FilterSpec => []ResultIsMedian
<1>1. FilterInv => ResultIsMedian
  BY DEF FilterInv
<1> QED BY <1>1, FilterInvInit, FilterInvStep, PTL DEF FilterSpec

-----------------------------------------------------------------------------
(* Lemmas about heaps *)

\* Further out is a strict order of the values.
LEMMA OuterOrder ==
    ASSUME NEW s \in Sides
    PROVE  /\ \A x \in Int : ~Before(s, x, x)
           /\ \A x, y \in Int : Before(s, x, y) => ~Before(s, y, x)
           /\ \A x, y \in Int : Before(s, x, y) \/ Before(s, y, x) \/ x = y
           /\ \A x, y, z \in Int :
                 /\ Before(s, x, y) /\ Before(s, y, z) => Before(s, x, z)
                 /\ ~Before(s, x, y) /\ ~Before(s, y, z) => ~Before(s, x, z)
                 /\ Before(s, x, y) /\ ~Before(s, z, y) => Before(s, x, z)
                 /\ ~Before(s, y, x) /\ Before(s, y, z) => Before(s, x, z)
BY DEF Before, Sides

\* The two sides are opposite.
LEMMA OppositeOrder ==
    ASSUME NEW s \in Sides, NEW t \in Sides, s # t, NEW x \in Int, NEW y \in Int
    PROVE  Before(s, x, y) <=> Before(t, y, x)
BY DEF Before, Sides

\* How many values a heap has room for.
LEMMA HeapSize ==
    ASSUME TypeOK
    PROVE  /\ L \in Nat /\ L >= 4 /\ Lh \in Nat /\ Lh >= 3
           /\ 2 * Lh <= L + 2 /\ L + 1 <= 2 * Lh
           /\ Places = 1..Lh - 1 /\ 1 \in Places /\ 2 \in Places
           /\ IsFiniteSet(Places)
<1>1. L \in Nat /\ L >= 4
  BY ConstantsAssumption DEF TypeOK
<1>2. Lh \in Nat /\ Lh >= 3 /\ 2 * Lh <= L + 2 /\ L + 1 <= 2 * Lh
  BY <1>1 DEF Lh
<1>3. IsFiniteSet(1..Lh - 1)
  BY <1>2, FS_Interval
<1> QED BY <1>1, <1>2, <1>3 DEF Places

\* Parents come before their children, of which there are two.
LEMMA Parents ==
    ASSUME NEW k \in Nat \ {0}
    PROVE  /\ Parent(k) \in 0..k - 1
           /\ Parent(k) = 0 <=> k \in {1, 2}
           /\ \A c \in Nat : Parent(k) = c <=> k \in {2 * c + 1, 2 * c + 2}
BY DEF Parent

\* The places of a heap that hold something.
LEMMA HeldPlaces ==
    ASSUME TypeOK, NEW s \in Sides
    PROVE  /\ Held(s) = 1..n[s] - 1 /\ n[s] \in 1..Lh /\ n[s] \in Nat
           /\ Held(s) \subseteq Places /\ Held(s) \subseteq Nat \ {0}
           /\ n[s] = Lh => Held(s) = Places
           /\ IsFiniteSet(Held(s))
           /\ \A v : IsFiniteSet(PlacesOf(s, v)) /\ Cardinality(PlacesOf(s, v)) \in Nat
           /\ \A k \in Held(s) : Parent(k) # 0 => Parent(k) \in Held(s)
<1>1. n[s] \in 1..Lh /\ Lh \in Nat /\ Places = 1..Lh - 1
  BY HeapSize DEF TypeOK
<1>2. /\ Held(s) = 1..n[s] - 1 /\ n[s] \in Nat /\ Held(s) \subseteq Places
      /\ Held(s) \subseteq Nat \ {0} /\ (n[s] = Lh => Held(s) = Places)
  BY <1>1 DEF Held
<1>3. IsFiniteSet(Held(s))
  BY <1>2, HeapSize, FS_Subset
<1>4. ASSUME NEW v
      PROVE  IsFiniteSet(PlacesOf(s, v)) /\ Cardinality(PlacesOf(s, v)) \in Nat
  <2>1. PlacesOf(s, v) \subseteq Held(s)
    BY DEF PlacesOf
  <2>2. IsFiniteSet(PlacesOf(s, v))
    BY <1>3, <2>1, FS_Subset
  <2> QED BY <2>2, FS_CardinalityType
<1>5. ASSUME NEW k \in Held(s), Parent(k) # 0
      PROVE  Parent(k) \in Held(s)
  BY <1>2, <1>5, Parents
<1> QED BY <1>1, <1>2, <1>3, <1>4, <1>5

\* The value moves: two places of a heap exchange what they hold, and with it
\* whether they belong to a set of places.
LEMMA ExchangeKeeps ==
    ASSUME NEW F, NEW G, IsFiniteSet(F), NEW a, NEW b,
           a \in G <=> b \in F, b \in G <=> a \in F,
           \A k : k # a /\ k # b => (k \in G <=> k \in F)
    PROVE  Cardinality(G) = Cardinality(F) /\ (F = {} => G = {})
<1> DEFINE t == [k \in F |-> IF k = a THEN b ELSE IF k = b THEN a ELSE k]
           u == [k \in G |-> IF k = a THEN b ELSE IF k = b THEN a ELSE k]
<1>1. t \in [F -> G] /\ u \in [G -> F]
  OBVIOUS
<1>2. (\A k \in F : u[t[k]] = k) /\ (\A k \in G : t[u[k]] = k)
  OBVIOUS
<1> HIDE DEF t, u
<1>3. t \in Bijection(F, G)
  BY <1>1, <1>2 DEF Bijection, Injection, IsInjective, Surjection
<1>4. ExistsBijection(F, G)
  BY <1>3 DEF ExistsBijection
<1>5. Cardinality(G) = Cardinality(F)
  BY <1>4, FS_Bijection
<1>6. F = {} => G = {}
  BY <1>1
<1> QED BY <1>5, <1>6

\* Of two siblings, the one nearer to the median.
LEMMA NearerSibling ==
    ASSUME TypeOK, NEW k \in Places, \A p \in Places : heap[side][p] \in Int
    PROVE  /\ Nearer(k) \in Places /\ Nearer(k) \in {k, k + 1}
           /\ \A p \in Places : p \in {k, k + 1} =>
                 ~Before(side, heap[side][Nearer(k)], heap[side][p])
<1>1. side \in Sides
  BY DEF TypeOK
<1> QED BY <1>1, OuterOrder DEF Nearer

\* A set of naturals has a least element.
LEMMA LeastNatural ==
    ASSUME NEW S \in SUBSET Nat, S # {}
    PROVE  \E x \in S : \A y \in S : x <= y
<1>1. PICK x \in S : \A y \in S : ~(<<y, x>> \in OpToRel(<, Nat))
  BY NatLessThanWellFounded, WFMin
<1>2. \A y \in S : ~(y < x)
  BY <1>1 DEF OpToRel
<1> QED BY <1>2

\* No value of a full heap is nearer to the median than the one at its top: the
\* first place with such a value would have a parent with one.
LEMMA TopIsNearest ==
    ASSUME TypeOK, Progress, NearlyOrdered, pc = "drain"
    PROVE  /\ \A p \in Places : heap[side][p] \in Values /\ heap[side][p] \in Int
           /\ Nearer(1) \in {1, 2} /\ Nearer(1) \in Places
           /\ \A p \in Places : ~Before(side, heap[side][Nearer(1)], heap[side][p])
<1> DEFINE h == heap[side]
           Bad == {p \in Places : Before(side, h[Nearer(1)], h[p])}
<1>1. side \in Sides /\ n[side] = Lh
  BY DEF TypeOK, Progress
<1>2. Held(side) = Places /\ Places = 1..Lh - 1 /\ Lh \in Nat /\ 1 \in Places
  BY <1>1, HeldPlaces, HeapSize
<1>3. /\ \A p \in Places : h[p] \in Values
      /\ \A p \in Places : Parent(p) # 0 => ~Before(side, h[Parent(p)], h[p])
  BY <1>2 DEF NearlyOrdered, Counting, Settled, Rising, Sinking
<1>4. \A p \in Places : h[p] \in Int
  BY <1>3, ConstantsAssumption
<1>5. /\ Nearer(1) \in Places /\ Nearer(1) \in {1, 2}
      /\ \A p \in Places : p \in {1, 2} => ~Before(side, h[Nearer(1)], h[p])
  BY <1>2, <1>4, NearerSibling
<1> HIDE DEF h
<1>6. Bad = {}
  <2> SUFFICES ASSUME Bad # {} PROVE FALSE
    OBVIOUS
  <2>1. Bad \in SUBSET Nat
    BY <1>2
  <2>2. PICK p \in Bad : \A q \in Bad : p <= q
    BY <2>1, LeastNatural
  <2>3. p \in Places /\ p \in Nat \ {0} /\ Before(side, h[Nearer(1)], h[p])
    BY <1>2, <2>2
  <2>4. p \notin {1, 2}
    BY <1>5, <2>3
  <2>5. Parent(p) \in Places /\ Parent(p) # 0 /\ Parent(p) < p
    <3>1. Parent(p) \in 0..p - 1 /\ (Parent(p) = 0 <=> p \in {1, 2})
      BY <2>3, Parents
    <3> QED BY <1>2, <2>3, <2>4, <3>1
  <2>6. ~Before(side, h[Nearer(1)], h[Parent(p)])
    BY <2>2, <2>3, <2>5, <1>2
  <2> QED BY <1>1, <1>3, <1>4, <1>5, <2>3, <2>5, <2>6, OuterOrder
<1> QED BY <1>3, <1>4, <1>5, <1>6 DEF h

-----------------------------------------------------------------------------
(* Invariance: types, and what has been read *)

\* Reading a value counts it.
LEMMA SeeCounts ==
    ASSUME TypeOK, Progress, IsFiniteSet(Reads), Cardinality(Reads) = read,
           NEW v \in Values, read < L, See(v), L' = L
    PROVE  /\ seen' \in [Values -> 0..read'] /\ read' = read + 1 /\ read' \in 1..L
           /\ seen' \in [Values -> 0..L]
           /\ \A w \in Values : seen'[w] = IF w = v THEN seen[w] + 1 ELSE seen[w]
           /\ IsFiniteSet(Reads') /\ Cardinality(Reads') = read'
<1> DEFINE x == <<v, seen[v] + 1>>
<1>1. /\ L \in Nat /\ read \in 1..L /\ seen \in [Values -> 0..read]
      /\ read' = read + 1 /\ seen' = [seen EXCEPT ![v] = @ + 1]
  BY HeapSize DEF TypeOK, Progress, See
<1>2. \A w \in Values : seen'[w] = IF w = v THEN seen[w] + 1 ELSE seen[w]
  BY <1>1
<1>3. seen' \in [Values -> 0..read'] /\ read' \in 1..L /\ seen' \in [Values -> 0..L]
  <2>1. \A w \in Values : seen[w] \in 0..read
    BY <1>1
  <2>2. seen[v] + 1 \in 0..read'
    BY <1>1, <2>1
  <2>3. \A w \in Values : seen'[w] \in 0..read' /\ seen'[w] \in 0..L
    BY <1>1, <1>2, <2>1, <2>2
  <2> QED BY <1>1, <2>3
<1>4. Reads' = Reads \cup {x} /\ x \notin Reads
  <2>1. x \in Values \X (1..L) /\ seen[v] \in Nat
    BY <1>1
  <2>2. \A y \in Values \X (1..L) : y[2] <= seen'[y[1]] <=> y[2] <= seen[y[1]] \/ y = x
    <3> SUFFICES ASSUME NEW y \in Values \X (1..L)
                 PROVE  y[2] <= seen'[y[1]] <=> y[2] <= seen[y[1]] \/ y = x
      OBVIOUS
    <3>1. y = <<y[1], y[2]>> /\ y[1] \in Values /\ y[2] \in 1..L /\ seen[y[1]] \in Nat
      BY <1>1
    <3> QED BY <1>2, <2>1, <3>1
  <2>3. Reads' = {y \in Values \X (1..L) : y[2] <= seen'[y[1]]}
    BY DEF Reads
  <2>4. ~(x[2] <= seen[x[1]])
    BY <2>1
  <2> QED BY <2>1, <2>2, <2>3, <2>4 DEF Reads
<1>5. IsFiniteSet(Reads') /\ Cardinality(Reads') = Cardinality(Reads) + 1
  BY <1>4, FS_AddElement
<1> QED BY <1>1, <1>2, <1>3, <1>5

\* At the start one value has been read: the median.
LEMMA HeapInvInit == Init => HeapInv
<1> SUFFICES ASSUME Init PROVE HeapInv
  OBVIOUS
<1>1. /\ L \in Lengths /\ L \in Nat /\ L >= 4 /\ median \in Values /\ read = 1 /\ pc = "fill"
      /\ n = [s \in Sides |-> 1] /\ side = "left" /\ val = median /\ child = 0
      /\ heap = [s \in Sides |-> [k \in Places |-> Unset]]
      /\ seen = [v \in Values |-> IF v = median THEN 1 ELSE 0]
  BY ConstantsAssumption DEF Init
<1>2. Lh \in Nat /\ Lh >= 3
  BY <1>1 DEF Lh
<1>3. TypeOK
  BY <1>1, <1>2 DEF TypeOK, Sides
<1>4. Progress
  BY <1>1, <1>2 DEF Progress, Sides
<1>5. \A s \in Sides : Held(s) = {}
  BY <1>1 DEF Held
<1>6. NearlyOrdered
  BY <1>1, <1>5 DEF NearlyOrdered, Counting
<1>7. Partitioned
  <2> SUFFICES ASSUME NEW s \in Sides
               PROVE  /\ \A v \in Values :
                            /\ Before(s, v, median) => Cardinality(PlacesOf(s, v)) = seen[v]
                            /\ Before(s, median, v) => PlacesOf(s, v) = {}
                      /\ Cardinality(PlacesOf(s, median)) < seen[median]
    BY <1>1 DEF Partitioned, Counting
  <2>1. \A v : PlacesOf(s, v) = {} /\ Cardinality(PlacesOf(s, v)) = 0
    BY <1>5, FS_EmptySet DEF PlacesOf
  <2>2. ~Before(s, median, median)
    BY <1>1, ConstantsAssumption, OuterOrder
  <2> QED BY <1>1, <2>1, <2>2
<1>8. Reads = {<<median, 1>>}
  <2>1. \A y \in Values \X (1..L) : y[2] <= seen[y[1]] <=> y = <<median, 1>>
    <3> SUFFICES ASSUME NEW y \in Values \X (1..L)
                 PROVE  y[2] <= seen[y[1]] <=> y = <<median, 1>>
      OBVIOUS
    <3>1. y = <<y[1], y[2]>> /\ y[1] \in Values /\ y[2] \in 1..L
      OBVIOUS
    <3> QED BY <1>1, <3>1
  <2>2. <<median, 1>> \in Values \X (1..L)
    BY <1>1
  <2> QED BY <2>1, <2>2 DEF Reads
<1>9. IsFiniteSet(Reads) /\ Cardinality(Reads) = read
  BY <1>1, <1>8, FS_Singleton
<1> QED BY <1>3, <1>4, <1>6, <1>7, <1>9 DEF HeapInv

\* Every step keeps the types, the progress and the count of what was read.
LEMMA TypeStep ==
    ASSUME HeapInv, [Next]_vars
    PROVE  /\ TypeOK' /\ Progress' /\ L' = L /\ Lh' = Lh /\ Places' = Places
           /\ IsFiniteSet(Reads') /\ Cardinality(Reads') = read'
<1>0. /\ TypeOK /\ Progress /\ IsFiniteSet(Reads) /\ Cardinality(Reads) = read
  BY DEF HeapInv
<1>1. L' = L
  BY DEF Next, ReadNext, vars, Append, Skip, Take, Replace, MoveUp, StayUp, MoveDown, StayDown, Return
<1>2. Lh' = Lh /\ Places' = Places
  BY <1>1 DEF Lh, Places
<1>3. /\ L \in Nat /\ Lh \in Nat /\ Lh >= 3 /\ 2 * Lh <= L + 2 /\ Places = 1..Lh - 1
      /\ 1 \in Places /\ 2 \in Places /\ "left" \in Sides /\ "right" \in Sides
  BY <1>0, HeapSize DEF Sides
<1>4. /\ L \in Lengths /\ read \in 1..L /\ median \in Values /\ val \in Values
      /\ heap \in [Sides -> [Places -> Values \cup {Unset}]]
      /\ n \in [Sides -> 1..Lh] /\ side \in Sides /\ child \in 0..Lh - 1
      /\ pc \in {"fill", "up", "drain", "down", "done"}
      /\ n["left"] \in 1..Lh /\ n["right"] \in 1..Lh
      /\ seen \in [Values -> 0..L] /\ seen \in [Values -> 0..read]
  BY <1>0, <1>3 DEF TypeOK, Progress
<1>5. ASSUME UNCHANGED <<read, seen>>
      PROVE  /\ read' \in 1..L /\ seen' \in [Values -> 0..L] /\ seen' \in [Values -> 0..read']
             /\ IsFiniteSet(Reads') /\ Cardinality(Reads') = read'
  <2>1. Reads' = Reads
    BY <1>1, <1>5 DEF Reads
  <2> QED BY <1>0, <1>4, <1>5, <2>1
<1>6. ASSUME UNCHANGED vars
      PROVE  /\ TypeOK' /\ Progress' /\ IsFiniteSet(Reads') /\ Cardinality(Reads') = read'
  BY <1>0, <1>6 DEF vars, TypeOK, Progress, Reads, Lh, Places, Held
<1>7. ASSUME NEW v \in Values, Append(v)
      PROVE  /\ TypeOK' /\ Progress' /\ IsFiniteSet(Reads') /\ Cardinality(Reads') = read'
  <2>1. /\ side' \in Sides /\ val' = v /\ child' = n[side'] /\ pc' = "up" /\ pc = "fill"
        /\ n' = [n EXCEPT ![side'] = @ + 1] /\ UNCHANGED <<median, heap>>
    BY <1>3, <1>7 DEF Append
  <2>2. /\ read = n["left"] + n["right"] - 1 /\ n["left"] < Lh /\ n["right"] < Lh
        /\ n[side'] < Lh /\ n[side'] \in 1..Lh
    BY <1>0, <1>3, <1>4, <2>1 DEF Progress
  <2>3. read < L
    BY <1>3, <1>4, <2>2
  <2>4. /\ seen' \in [Values -> 0..read'] /\ read' = read + 1 /\ read' \in 1..L
        /\ seen' \in [Values -> 0..L] /\ IsFiniteSet(Reads') /\ Cardinality(Reads') = read'
    BY <1>0, <1>1, <1>7, <2>3, SeeCounts DEF Append
  <2>5. n' \in [Sides -> 1..Lh]
    BY <1>3, <1>4, <2>1, <2>2
  <2>6. TypeOK'
    <3>1. child' \in 0..Lh' - 1 /\ n' \in [Sides -> 1..Lh'] /\ val' \in Values
      BY <1>2, <1>3, <2>1, <2>2, <2>5
    <3>2. heap' \in [Sides -> [Places' -> Values \cup {Unset}]] /\ median' \in Values
      BY <1>2, <1>4, <2>1
    <3> QED BY <1>1, <1>4, <2>1, <2>4, <3>1, <3>2 DEF TypeOK
  <2>7. read' = n'["left"] + n'["right"] - 1
    BY <1>4, <2>1, <2>2, <2>4 DEF Sides
  <2>8. child' \in Held(side)'
    BY <1>4, <2>1, <2>2 DEF Held
  <2>9. \A s \in Sides : s # side' => n'[s] < Lh'
    BY <1>2, <1>4, <2>1, <2>2 DEF Sides
  <2> QED BY <2>1, <2>4, <2>6, <2>7, <2>8, <2>9 DEF Progress
<1>8. ASSUME NEW v \in Values, Skip(v) \/ Take(v) \/ Replace(v)
      PROVE  /\ TypeOK' /\ Progress' /\ IsFiniteSet(Reads') /\ Cardinality(Reads') = read'
  <2>1. /\ See(v) /\ read < L /\ pc = "drain" /\ UNCHANGED <<L, heap, n, side>>
        /\ \/ median' \in {median, v} /\ UNCHANGED <<val, child, pc>>
           \/ median' = heap[side][Nearer(1)] /\ val' = v /\ child' = Nearer(1) /\ pc' = "down"
    BY <1>8 DEF Skip, Take, Replace
  <2>2. /\ seen' \in [Values -> 0..read'] /\ read' = read + 1 /\ read' \in 1..L
        /\ seen' \in [Values -> 0..L] /\ IsFiniteSet(Reads') /\ Cardinality(Reads') = read'
    BY <1>0, <2>1, SeeCounts
  <2>3. (\A p \in Places : heap[side][p] \in Values) /\ Nearer(1) \in Places
    BY <1>0, <2>1, TopIsNearest DEF HeapInv
  <2>4. n[side] = Lh
    BY <1>0, <2>1 DEF Progress
  <2>5. median' \in Values /\ val' \in Values /\ child' \in 0..Lh - 1
    BY <1>3, <1>4, <2>1, <2>3
  <2>6. pc' \in {"drain", "down"} /\ (pc' = "down" => child' \in Places')
    BY <1>2, <2>1, <2>3
  <2>7. TypeOK'
    BY <1>2, <1>4, <2>1, <2>2, <2>5, <2>6 DEF TypeOK
  <2> QED BY <1>2, <2>1, <2>2, <2>4, <2>6, <2>7 DEF Progress
<1>9. ASSUME MoveUp \/ StayUp \/ MoveDown \/ StayDown \/ Return
      PROVE  /\ TypeOK' /\ Progress' /\ IsFiniteSet(Reads') /\ Cardinality(Reads') = read'
  <2>1. UNCHANGED <<read, median, n, side, val, seen>>
    BY <1>9 DEF MoveUp, StayUp, MoveDown, StayDown, Return
  <2>2. /\ read' \in 1..L /\ seen' \in [Values -> 0..L] /\ seen' \in [Values -> 0..read']
        /\ IsFiniteSet(Reads') /\ Cardinality(Reads') = read'
    BY <1>5, <2>1
  <2>3. /\ Held(side)' = Held(side) /\ Held(side) \subseteq Places
        /\ pc = "up" => child \in Held(side)
        /\ Held(side) = 1..n[side] - 1 /\ n[side] \in Nat /\ Held(side) \subseteq Nat \ {0}
    BY <1>0, <1>4, <2>1, HeldPlaces DEF Held, Progress
  <2>4. ASSUME MoveUp PROVE TypeOK' /\ Progress'
    <3>1. /\ pc = "up" /\ pc' = "up" /\ child' = Parent(child) /\ Parent(child) # 0
          /\ heap' = [heap EXCEPT ![side][child] = heap[side][Parent(child)]]
      BY <2>4 DEF MoveUp, GoesUp
    <3>2. child' \in Held(side) /\ child' \in Places
      BY <1>0, <1>4, <2>3, <3>1, HeldPlaces
    <3>3. heap' \in [Sides -> [Places -> Values \cup {Unset}]]
      BY <1>4, <2>3, <3>1, <3>2
    <3>4. TypeOK'
      BY <1>1, <1>2, <1>3, <1>4, <2>1, <2>2, <3>1, <3>2, <3>3 DEF TypeOK
    <3> QED BY <1>0, <1>2, <2>1, <2>2, <2>3, <3>1, <3>2, <3>4 DEF Progress
  <2>5. ASSUME StayUp PROVE TypeOK' /\ Progress'
    <3>1. /\ pc = "up" /\ child' = child /\ heap' = [heap EXCEPT ![side][child] = val]
          /\ pc' = IF n[side] = Lh THEN "drain" ELSE "fill"
      BY <2>5 DEF StayUp, Full
    <3>2. heap' \in [Sides -> [Places -> Values \cup {Unset}]]
      BY <1>4, <2>3, <3>1
    <3>3. TypeOK'
      BY <1>1, <1>2, <1>4, <2>1, <2>2, <3>1, <3>2 DEF TypeOK
    <3>4. pc' = "fill" => \A s \in Sides : n'[s] < Lh'
      <4> SUFFICES ASSUME pc' = "fill", NEW s \in Sides PROVE n[s] < Lh
        BY <1>2, <2>1
      <4>1. n[s] \in 1..Lh /\ n[side] # Lh
        BY <1>4, <3>1
      <4>2. s # side => n[s] < Lh
        BY <1>0, <3>1 DEF Progress
      <4> QED BY <1>3, <4>1, <4>2
    <3> QED BY <1>0, <1>2, <2>1, <2>2, <3>1, <3>3, <3>4 DEF Progress
  <2>6. ASSUME MoveDown PROVE TypeOK' /\ Progress'
    <3>1. /\ pc = "down" /\ pc' = "down" /\ child' = Below /\ 2 * child + 1 < Lh
          /\ heap' = [heap EXCEPT ![side][child] = heap[side][Below]]
      BY <2>6 DEF MoveDown, GoesDown
    <3>2. child \in Places /\ n[side] = Lh
      BY <1>0, <3>1 DEF Progress
    <3>3. 2 * child + 1 \in Places
      BY <1>3, <3>1, <3>2
    <3>4. child' \in Places
      BY <3>1, <3>3 DEF Below, Nearer
    <3>5. heap' \in [Sides -> [Places -> Values \cup {Unset}]]
      BY <1>4, <3>1, <3>2, <3>4
    <3>6. TypeOK'
      BY <1>1, <1>2, <1>3, <1>4, <2>1, <2>2, <3>1, <3>4, <3>5 DEF TypeOK
    <3> QED BY <1>2, <2>1, <2>2, <3>1, <3>2, <3>4, <3>6 DEF Progress
  <2>7. ASSUME StayDown PROVE TypeOK' /\ Progress'
    <3>1. /\ pc = "down" /\ pc' = "drain" /\ child' = child
          /\ heap' = [heap EXCEPT ![side][child] = val]
      BY <2>7 DEF StayDown
    <3>2. child \in Places /\ n[side] = Lh
      BY <1>0, <3>1 DEF Progress
    <3>3. heap' \in [Sides -> [Places -> Values \cup {Unset}]]
      BY <1>4, <3>1, <3>2
    <3>4. TypeOK'
      BY <1>1, <1>2, <1>4, <2>1, <2>2, <3>1, <3>3 DEF TypeOK
    <3> QED BY <1>2, <2>1, <2>2, <3>1, <3>2, <3>4 DEF Progress
  <2>8. ASSUME Return PROVE TypeOK' /\ Progress'
    <3>1. pc = "drain" /\ pc' = "done" /\ read = L /\ UNCHANGED <<heap, child>>
      BY <2>8 DEF Return
    <3>2. TypeOK'
      BY <1>1, <1>2, <1>4, <2>1, <2>2, <3>1 DEF TypeOK
    <3> QED BY <1>0, <1>1, <1>2, <2>1, <2>2, <3>1, <3>2 DEF Progress
  <2> QED BY <1>9, <2>2, <2>4, <2>5, <2>6, <2>7, <2>8
<1> QED BY <1>1, <1>2, <1>6, <1>7, <1>8, <1>9 DEF Next, ReadNext

-----------------------------------------------------------------------------
(* Invariance: order and partition *)

\* What counts is the same before and after a step.
LEMMA SamePartition ==
    ASSUME Partitioned, Counting' \subseteq Counting, UNCHANGED <<median, seen>>,
           \A s \in Counting' : Held(s)' = Held(s) /\ Settled(s)' = Settled(s)
    PROVE  Partitioned'
<1>1. \A s \in Counting' : \A v : PlacesOf(s, v)' = PlacesOf(s, v)
  BY DEF PlacesOf
<1>2. \A s \in Counting' :
        /\ \A v \in Values :
              /\ Before(s, v, median) => Cardinality(PlacesOf(s, v)) = seen[v]
              /\ Before(s, median, v) => PlacesOf(s, v) = {}
        /\ Cardinality(PlacesOf(s, median)) < seen[median]
  BY DEF Partitioned
<1> QED BY <1>1, <1>2 DEF Partitioned, Before

\* Partition, told of the median there is after a step.
LEMMA PartitionedBy ==
    ASSUME NEW d \in Values, d = median',
           \A s \in Counting' :
              /\ \A v \in Values :
                    /\ Before(s, v, d) => Cardinality(PlacesOf(s, v)') = seen'[v]
                    /\ Before(s, d, v) => PlacesOf(s, v)' = {}
              /\ Cardinality(PlacesOf(s, d)') < seen'[d]
    PROVE  Partitioned'
BY DEF Partitioned, PlacesOf, Before

\* A value that has found its place is where it belongs.
LEMMA StayKeeps ==
    ASSUME HeapInv, StayUp \/ StayDown
    PROVE  NearlyOrdered' /\ Partitioned'
<1>0. TypeOK /\ Progress /\ NearlyOrdered /\ Partitioned
  BY DEF HeapInv
<1>1. /\ UNCHANGED <<L, median, n, side, val, child, seen>> /\ pc \in {"up", "down"}
      /\ heap' = [heap EXCEPT ![side][child] = val] /\ pc' \in {"fill", "drain"}
      /\ pc = "down" => pc' = "drain"
  BY DEF StayUp, StayDown
<1>2. /\ side \in Sides /\ heap \in [Sides -> [Places -> Values \cup {Unset}]]
      /\ child \in Held(side) /\ Held(side) \subseteq Places /\ child \in Nat \ {0}
      /\ val \in Values
  BY <1>0, <1>1, HeldPlaces DEF TypeOK, Progress
<1>3. /\ \A s \in Sides : Held(s)' = Held(s) /\ Settled(s)' = Settled(s)
      /\ Settled(side) = [heap[side] EXCEPT ![child] = val]
  BY <1>1, <1>2 DEF Settled, Held
<1>4. Counting' \subseteq Counting /\ Counting' \subseteq Sides /\ side \in Counting
  BY <1>1, <1>2 DEF Counting
<1>5. Partitioned'
  BY <1>0, <1>1, <1>3, <1>4, SamePartition
<1>6. ASSUME NEW s \in Counting', NEW k \in Held(s), Parent(k) # 0
      PROVE  ~Before(s, Settled(s)[Parent(k)], Settled(s)[k])
  <2>1. s \in Counting /\ s \in Sides /\ k \in Nat \ {0} /\ k \in Places
    BY <1>0, <1>4, HeldPlaces
  <2>2. CASE ~Rising(s, k) /\ ~Sinking(s, k)
    BY <1>0, <1>6, <2>1, <2>2 DEF NearlyOrdered
  <2>3. CASE Rising(s, k)
    <3>1. k = child /\ s = side /\ StayUp
      BY <1>1, <2>3 DEF Rising, StayUp, StayDown
    <3>2. ~Before(side, heap[side][Parent(child)], val)
      BY <1>6, <3>1 DEF StayUp, GoesUp
    <3>3. Parent(child) # child /\ Parent(child) \in Places
      BY <1>0, <1>2, <1>6, <3>1, Parents, HeldPlaces
    <3> QED BY <1>2, <1>3, <3>1, <3>2, <3>3
  <2>4. CASE Sinking(s, k)
    <3>1. Parent(k) = child /\ s = side /\ pc = "down" /\ StayDown
      BY <2>4 DEF Sinking, StayUp
    <3>2. Held(side) = Places /\ Places = 1..Lh - 1 /\ Lh \in Nat
      BY <1>0, <1>2, <3>1, HeldPlaces, HeapSize DEF Progress
    <3>3. k \in {2 * child + 1, 2 * child + 2} /\ k # child
      BY <1>2, <2>1, <3>1, Parents
    <3>4. 2 * child + 1 < Lh /\ 2 * child + 1 \in Places /\ child \notin {2 * child + 1, 2 * child + 2}
      BY <1>2, <2>1, <3>2, <3>3
    <3>5. \A p \in Places : p # child => heap[side][p] \in Values
      <4>1. \A p \in Places : Settled(side)[p] \in Values
        BY <1>0, <1>4, <3>2 DEF NearlyOrdered
      <4> QED BY <4>1, <1>2, <1>3
    <3>6. Below \in Places /\ ~Before(side, val, heap[side][Below])
      <4>1. Below \in Places
        BY <3>4 DEF Below, Nearer
      <4>2. ~GoesDown
        BY <3>1 DEF StayDown
      <4>3. GoesDown <=> 2 * child + 1 < Lh /\ Before(side, val, heap[side][Below])
        BY Zenon DEF GoesDown
      <4> QED BY <3>4, <4>1, <4>2, <4>3, Zenon
    <3>7. Below # child /\ Below \in {2 * child + 1, 2 * child + 2}
      <4>1. Below \in {2 * child + 1, (2 * child + 1) + 1}
        BY DEF Below, Nearer
      <4>2. (2 * child + 1) + 1 = 2 * child + 2
        BY <1>2
      <4> QED BY <3>4, <4>1, <4>2
    <3>8. ~Before(side, heap[side][Below], heap[side][k])
      <4>1. heap[side][Below] \in Int /\ heap[side][k] \in Int
        BY <2>1, <3>3, <3>5, <3>6, <3>7, ConstantsAssumption
      <4>2. k = 2 * child + 1 \/ (k = (2 * child + 1) + 1 /\ (2 * child + 1) + 1 \in Places)
        BY <1>2, <2>1, <3>3
      <4>3. Below = Nearer(2 * child + 1)
        BY DEF Below
      <4> QED BY <1>2, <4>1, <4>2, <4>3, OuterOrder DEF Nearer
    <3>9. ~Before(side, val, heap[side][k])
      BY <1>2, <2>1, <3>3, <3>5, <3>6, <3>7, <3>8, ConstantsAssumption, OuterOrder
    <3> QED BY <1>2, <1>3, <2>1, <3>1, <3>3, <3>9
  <2> QED BY <2>2, <2>3, <2>4
<1>7. NearlyOrdered'
  <2> SUFFICES ASSUME NEW s \in Counting', NEW k \in Held(s)'
               PROVE  /\ Settled(s)'[k] \in Values
                      /\ Parent(k) # 0 => ~Before(s, Settled(s)'[Parent(k)], Settled(s)'[k])
    BY <1>1 DEF NearlyOrdered, Rising, Sinking, Parent, Before
  <2>1. s \in Counting /\ s \in Sides /\ Held(s)' = Held(s) /\ Settled(s)' = Settled(s)
    BY <1>3, <1>4
  <2> QED BY <1>0, <1>6, <2>1 DEF NearlyOrdered
<1> QED BY <1>5, <1>7

\* A value that moves up or down leaves order behind it.
LEMMA MoveKeepsOrder ==
    ASSUME HeapInv, MoveUp \/ MoveDown
    PROVE  /\ side \in Sides /\ child \in Held(side) /\ child' \in Held(side)
           /\ Held(side) \subseteq Places
           /\ \A s \in Sides : Held(s)' = Held(s)
           /\ \A s \in Sides : s # side => Settled(s)' = Settled(s)
           /\ Settled(side)'[child] = Settled(side)[child']
           /\ Settled(side)'[child'] = Settled(side)[child]
           /\ \A k \in Places : k # child /\ k # child' => Settled(side)'[k] = Settled(side)[k]
           /\ Counting' = Counting /\ side \in Counting /\ Counting \subseteq Sides
           /\ NearlyOrdered'
<1>0. TypeOK /\ Progress /\ NearlyOrdered
  BY DEF HeapInv
<1>1. /\ UNCHANGED <<L, median, n, side, val, seen, pc>> /\ pc \in {"up", "down"}
      /\ heap' = [heap EXCEPT ![side][child] = heap[side][child']]
      /\ pc = "up" => MoveUp
      /\ pc = "down" => MoveDown
  BY DEF MoveUp, MoveDown
<1>2. /\ side \in Sides /\ heap \in [Sides -> [Places -> Values \cup {Unset}]]
      /\ child \in Held(side) /\ Held(side) \subseteq Places /\ child \in Nat \ {0}
      /\ val \in Values
  BY <1>0, <1>1, HeldPlaces DEF TypeOK, Progress
<1>3. pc = "up" => /\ child' = Parent(child) /\ Parent(child) # 0 /\ child' \in Held(side)
                   /\ child' # child /\ Before(side, heap[side][child'], val)
  BY <1>0, <1>1, <1>2, HeldPlaces, Parents DEF MoveUp, GoesUp
<1>4. pc = "down" => /\ child' = Below /\ 2 * child + 1 \in Places /\ Held(side) = Places
                     /\ child' \in Places /\ child' # child /\ Parent(child') = child
                     /\ child' \in {2 * child + 1, 2 * child + 2}
                     /\ Before(side, val, heap[side][child'])
  <2> SUFFICES ASSUME pc = "down"
               PROVE  /\ Below \in Places /\ 2 * child + 1 \in Places /\ Held(side) = Places
                      /\ Below # child /\ Parent(Below) = child
                      /\ Below \in {2 * child + 1, 2 * child + 2}
    BY <1>1 DEF MoveDown, GoesDown
  <2>1. Held(side) = Places /\ Places = 1..Lh - 1 /\ Lh \in Nat
    BY <1>0, <1>2, HeldPlaces, HeapSize DEF Progress
  <2>2. 2 * child + 1 < Lh
    BY <1>1 DEF MoveDown, GoesDown
  <2>3. 2 * child + 1 \in Places
    BY <1>2, <2>1, <2>2
  <2>4. Below \in Places /\ Below \in {2 * child + 1, 2 * child + 2}
    BY <2>3, <1>2 DEF Below, Nearer
  <2>5. Below \in Nat \ {0} /\ Below # child
    BY <1>2, <2>4
  <2> QED BY <1>2, <2>1, <2>3, <2>4, <2>5, Parents
<1>5. child' \in Held(side) /\ child' # child /\ child' \in Nat \ {0} /\ child' \in Places
  BY <1>0, <1>1, <1>2, <1>3, <1>4, HeldPlaces
<1>6. \A s \in Sides : Held(s)' = Held(s)
  BY <1>1 DEF Held
<1>7. \A s \in Sides : s # side => Settled(s)' = Settled(s)
  BY <1>1, <1>2 DEF Settled
<1> DEFINE old == Settled(side)
           new == Settled(side)'
<1>8. /\ old = [heap[side] EXCEPT ![child] = val]
      /\ new = [heap'[side] EXCEPT ![child'] = val]
  BY <1>1 DEF Settled
<1>9. /\ new[child] = old[child'] /\ new[child'] = old[child]
      /\ \A k \in Places : k # child /\ k # child' => new[k] = old[k]
      /\ old[child] = val /\ \A k \in Places : k # child => old[k] = heap[side][k]
  BY <1>1, <1>2, <1>5, <1>8
<1>10. Counting' = Counting /\ side \in Counting /\ Counting \subseteq Sides
  BY <1>1, <1>2 DEF Counting
<1> HIDE DEF old, new
<1>11. /\ \A k \in Held(side) : old[k] \in Values /\ old[k] \in Int
       /\ \A k \in Held(side) : Parent(k) # 0 /\ ~Rising(side, k) /\ ~Sinking(side, k) =>
              ~Before(side, old[Parent(k)], old[k])
       /\ \A k \in Held(side) : Parent(k) = child /\ Parent(child) # 0 =>
              ~Before(side, old[Parent(child)], old[k])
  BY <1>0, <1>1, <1>10, ConstantsAssumption DEF NearlyOrdered, old
<1>12. ASSUME NEW k \in Held(side)
       PROVE  /\ new[k] \in Values
              /\ Parent(k) # 0 /\ ~(pc = "up" /\ k = child') /\ ~(pc = "down" /\ Parent(k) = child')
                    => ~Before(side, new[Parent(k)], new[k])
              /\ Parent(k) = child' /\ Parent(child') # 0
                    => ~Before(side, new[Parent(child')], new[k])
  <2>0. /\ k \in Places /\ k \in Nat \ {0} /\ Parent(k) # k
        /\ Parent(k) # 0 => Parent(k) \in Held(side) /\ Parent(k) \in Places
    BY <1>0, <1>2, HeldPlaces, Parents
  <2>1. new[k] \in Values
    BY <1>2, <1>5, <1>9, <1>11, <2>0
  <2>2. CASE pc = "up"
    <3>0. /\ child' = Parent(child) /\ old[child'] = heap[side][child'] /\ Before(side, old[child'], val)
          /\ Parent(child) # 0 /\ ~Sinking(side, k) /\ (Rising(side, k) <=> k = child)
      BY <1>3, <1>5, <1>9, <2>2 DEF Rising, Sinking
    <3>1. Parent(child') # 0 => Parent(child') # child /\ Parent(child') # child'
                             /\ Parent(child') \in Held(side) /\ Parent(child') \in Places
      BY <1>0, <1>2, <1>5, <3>0, Parents, HeldPlaces
    <3>2. ASSUME k # child, k # child', Parent(k) = child'
          PROVE  ~Before(side, val, old[k])
      <4>1. ~Before(side, old[child'], old[k])
        BY <1>3, <1>5, <1>11, <2>2, <3>0, <3>2
      <4> QED BY <1>2, <1>5, <1>9, <1>11, <3>0, <4>1, OuterOrder
    <3>3. ASSUME Parent(k) # 0, k # child'
          PROVE  ~Before(side, new[Parent(k)], new[k])
      <4>1. CASE k = child
        BY <4>1, <1>2, <1>9, <1>11, <1>5, <3>0, OuterOrder
      <4>2. CASE k # child /\ Parent(k) = child'
        BY <4>2, <1>9, <2>0, <3>2, <3>3
      <4>3. CASE k # child /\ Parent(k) = child
        <5>1. ~Before(side, old[child'], old[k])
          BY <4>3, <1>11, <3>0
        <5> QED BY <4>3, <5>1, <1>9, <2>0, <3>3
      <4>4. CASE k # child /\ Parent(k) # child' /\ Parent(k) # child
        BY <4>4, <1>9, <1>11, <2>0, <3>0, <3>3
      <4> QED BY <4>1, <4>2, <4>3, <4>4
    <3>4. ASSUME Parent(k) = child', Parent(child') # 0
          PROVE  ~Before(side, new[Parent(child')], new[k])
      <4>0. new[Parent(child')] = old[Parent(child')]
        BY <1>9, <3>1, <3>4
      <4>1. ~Before(side, old[Parent(child')], old[child'])
        <5>1. ~Rising(side, child') /\ ~Sinking(side, child')
          BY <1>5, <2>2 DEF Rising, Sinking
        <5> QED BY <5>1, <1>5, <1>11, <3>4
      <4>2. CASE k = child
        BY <4>0, <4>1, <4>2, <1>9
      <4>3. CASE k # child
        <5>1. k # child'
          BY <2>0, <3>4
        <5>2. ~Before(side, old[child'], old[k])
          BY <1>11, <3>0, <3>4, <4>3, <1>5
        <5>3. ~Before(side, old[Parent(child')], old[k])
          BY <1>2, <1>5, <1>11, <3>1, <3>4, <4>1, <5>2, OuterOrder
        <5> QED BY <1>9, <2>0, <4>0, <4>3, <5>1, <5>3
      <4> QED BY <4>2, <4>3
    <3> QED BY <2>1, <2>2, <3>3, <3>4
  <2>3. CASE pc = "down"
    <3>0. /\ Parent(child') = child /\ old[child'] = heap[side][child'] /\ Before(side, val, old[child'])
          /\ ~Rising(side, k) /\ (Sinking(side, k) <=> Parent(k) = child)
      BY <1>4, <1>5, <1>9, <2>3 DEF Rising, Sinking
    <3>1. Parent(child) # 0 => Parent(child) # child /\ Parent(child) # child'
                            /\ Parent(child) \in Held(side) /\ Parent(child) \in Places
      BY <1>0, <1>2, <1>5, <3>0, Parents, HeldPlaces
    <3>2. ASSUME Parent(k) = child, k # child'
          PROVE  ~Before(side, old[child'], old[k])
      <4>1. k \in {2 * child + 1, 2 * child + 2} /\ k # child
        BY <1>2, <2>0, <3>2, Parents
      <4>2. /\ 2 * child + 1 \in Places /\ Nearer(2 * child + 1) = child'
            /\ old[child'] = heap[side][child'] /\ old[k] = heap[side][k]
        BY <1>4, <1>5, <1>9, <2>0, <2>3, <4>1 DEF Below
      <4>3. ~Before(side, heap[side][child'], heap[side][k])
        <5>1. heap[side][child'] \in Int /\ heap[side][k] \in Int
          BY <4>2, <1>5, <1>11
        <5> QED BY <1>2, <2>0, <3>2, <4>1, <4>2, <5>1, OuterOrder DEF Nearer
      <4> QED BY <4>2, <4>3
    <3>3. ASSUME Parent(k) # 0, Parent(k) # child'
          PROVE  ~Before(side, new[Parent(k)], new[k])
      <4>1. CASE k = child
        <5>1. ~Before(side, old[Parent(child)], old[child'])
          BY <1>5, <1>11, <3>0, <3>3, <4>1
        <5> QED BY <4>1, <5>1, <1>9, <3>1, <3>3
      <4>2. CASE k = child'
        BY <4>2, <1>2, <1>5, <1>9, <1>11, <3>0, OuterOrder
      <4>3. CASE k # child' /\ Parent(k) = child
        BY <4>3, <1>9, <2>0, <3>2
      <4>4. CASE k # child /\ k # child' /\ Parent(k) # child
        BY <4>4, <1>9, <1>11, <2>0, <3>0, <3>3
      <4> QED BY <4>1, <4>2, <4>3, <4>4
    <3>4. ASSUME Parent(k) = child', Parent(child') # 0
          PROVE  ~Before(side, new[Parent(child')], new[k])
      <4>1. k # child' /\ Parent(k) # child /\ Parent(k) # 0
        BY <1>5, <2>0, <3>4
      <4>2. k # child
        BY <1>2, <1>5, <2>0, <3>0, <3>4, Parents
      <4>3. ~Before(side, old[child'], old[k])
        BY <1>11, <3>0, <3>4, <4>1
      <4> QED BY <1>9, <2>0, <3>0, <4>1, <4>2, <4>3
    <3> QED BY <2>1, <2>3, <3>3, <3>4
  <2> QED BY <1>1, <2>2, <2>3
<1>13. NearlyOrdered'
  <2> SUFFICES ASSUME NEW s \in Counting', NEW k \in Held(s)'
               PROVE  /\ Settled(s)'[k] \in Values
                      /\ Parent(k) # 0 /\ ~Rising(s, k)' /\ ~Sinking(s, k)' =>
                            ~Before(s, Settled(s)'[Parent(k)], Settled(s)'[k])
                      /\ pc' \in {"up", "down"} /\ s = side' /\ Parent(k) = child' /\ Parent(child') # 0 =>
                            ~Before(s, Settled(s)'[Parent(child')], Settled(s)'[k])
    BY DEF NearlyOrdered, Parent, Before
  <2>1. k \in Held(s) /\ s \in Sides /\ s \in Counting
    BY <1>6, <1>10
  <2>2. CASE s = side
    BY <2>1, <2>2, <1>1, <1>12 DEF new, Rising, Sinking
  <2>3. CASE s # side
    <3>1. ~Rising(s, k) /\ ~Sinking(s, k) /\ s # side'
      BY <1>1, <2>3 DEF Rising, Sinking
    <3> QED BY <1>0, <1>7, <2>1, <2>3, <3>1 DEF NearlyOrdered
  <2> QED BY <2>2, <2>3
<1> QED BY <1>2, <1>5, <1>6, <1>7, <1>9, <1>10, <1>13 DEF old, new

\* Moving a value exchanges it with another one.
LEMMA MoveKeeps ==
    ASSUME HeapInv, MoveUp \/ MoveDown
    PROVE  NearlyOrdered' /\ Partitioned'
<1>0. TypeOK /\ Partitioned
  BY DEF HeapInv
<1>1. /\ side \in Sides /\ child \in Held(side) /\ child' \in Held(side)
      /\ Held(side) \subseteq Places
      /\ \A s \in Sides : Held(s)' = Held(s)
      /\ \A s \in Sides : s # side => Settled(s)' = Settled(s)
      /\ Settled(side)'[child] = Settled(side)[child']
      /\ Settled(side)'[child'] = Settled(side)[child]
      /\ \A k \in Places : k # child /\ k # child' => Settled(side)'[k] = Settled(side)[k]
      /\ Counting' = Counting /\ Counting \subseteq Sides
      /\ NearlyOrdered'
  BY MoveKeepsOrder
<1>2. UNCHANGED <<median, seen>>
  BY DEF MoveUp, MoveDown
<1>3. PICK d \in Values : d = median
  BY <1>0 DEF TypeOK
<1>4. ASSUME NEW s \in Sides, NEW v
      PROVE  /\ Cardinality(PlacesOf(s, v)') = Cardinality(PlacesOf(s, v))
             /\ PlacesOf(s, v) = {} => PlacesOf(s, v)' = {}
  <2>1. CASE s # side
    BY <2>1, <1>1 DEF PlacesOf
  <2>2. CASE s = side
    <3> DEFINE S == Held(s)
               f == Settled(s)
               g == Settled(s)'
    <3>1. Settled(s) = Settled(side) /\ Settled(s)' = Settled(side)' /\ Held(s) = Held(side)
      <4>1. side' = side
        BY DEF MoveUp, MoveDown
      <4> QED BY <2>2, <4>1 DEF Settled
    <3>2. /\ IsFiniteSet(S) /\ child \in S /\ child' \in S
          /\ g[child] = f[child'] /\ g[child'] = f[child]
          /\ \A k \in S : k # child /\ k # child' => g[k] = f[k]
      BY <1>0, <1>1, <3>1, HeldPlaces
    <3>3. /\ \A k : k \in PlacesOf(s, v) <=> k \in S /\ f[k] = v
          /\ \A k : k \in PlacesOf(s, v)' <=> k \in S /\ g[k] = v
      BY <1>1 DEF PlacesOf
    <3> HIDE DEF S, f, g
    <3>4. PICK a \in S, b \in S : a = child /\ b = child'
      BY <3>2
    <3>5. g[a] = f[b] /\ g[b] = f[a] /\ \A k \in S : k # a /\ k # b => g[k] = f[k]
      BY <3>2, <3>4
    <3>6. /\ a \in PlacesOf(s, v)' <=> b \in PlacesOf(s, v)
          /\ b \in PlacesOf(s, v)' <=> a \in PlacesOf(s, v)
          /\ \A k : k # a /\ k # b => (k \in PlacesOf(s, v)' <=> k \in PlacesOf(s, v))
          /\ IsFiniteSet(PlacesOf(s, v))
      BY <1>0, <3>3, <3>5, HeldPlaces
    <3> QED BY <3>6, ExchangeKeeps
  <2> QED BY <2>1, <2>2
<1>5. Partitioned'
  <2>1. \A s \in Counting :
           /\ \A v \in Values :
                 /\ Before(s, v, d) => Cardinality(PlacesOf(s, v)) = seen[v]
                 /\ Before(s, d, v) => PlacesOf(s, v) = {}
           /\ Cardinality(PlacesOf(s, d)) < seen[d]
    BY <1>0, <1>3 DEF Partitioned
  <2>2. \A s \in Counting' :
           /\ \A v \in Values :
                 /\ Before(s, v, d) => Cardinality(PlacesOf(s, v)') = seen'[v]
                 /\ Before(s, d, v) => PlacesOf(s, v)' = {}
           /\ Cardinality(PlacesOf(s, d)') < seen'[d]
    BY <1>1, <1>2, <1>4, <2>1
  <2> QED BY <1>2, <1>3, <2>2, PartitionedBy
<1> QED BY <1>1, <1>5

\* A value that is appended to a heap joins the values of that side.
LEMMA AppendKeeps ==
    ASSUME HeapInv, NEW v \in Values, Append(v)
    PROVE  NearlyOrdered' /\ Partitioned'
<1>0. /\ TypeOK /\ Progress /\ NearlyOrdered /\ Partitioned
      /\ IsFiniteSet(Reads) /\ Cardinality(Reads) = read
  BY DEF HeapInv
<1>1. /\ pc = "fill" /\ pc' = "up" /\ val' = v /\ child' = n[side']
      /\ side' = (IF v < median THEN "left" ELSE "right") /\ side' \in Sides
      /\ n' = [n EXCEPT ![side'] = @ + 1] /\ UNCHANGED <<L, median, heap>>
      /\ seen' = [seen EXCEPT ![v] = @ + 1]
  BY DEF Append, See, Sides
<1>17. PICK t \in Sides, c \in Nat \ {0}, d \in Values : t = side' /\ c = child' /\ d = median
  BY <1>0, <1>1, HeapSize DEF TypeOK
<1>18. n[t] < Lh /\ n[t] = c
  BY <1>0, <1>1, <1>17 DEF Progress
<1>2. /\ heap \in [Sides -> [Places -> Values \cup {Unset}]] /\ n \in [Sides -> 1..Lh]
      /\ seen \in [Values -> 0..read] /\ read \in Nat /\ Lh \in Nat /\ Places = 1..Lh - 1
      /\ d \in Int /\ v \in Int /\ n[t] < Lh /\ n[t] = c
      /\ t = side' /\ c = child' /\ d = median /\ d = median'
  <2>1. heap \in [Sides -> [Places -> Values \cup {Unset}]] /\ n \in [Sides -> 1..Lh]
    BY <1>0 DEF TypeOK
  <2>2. seen \in [Values -> 0..read] /\ read \in Nat /\ Lh \in Nat /\ Places = 1..Lh - 1
    BY <1>0, HeapSize DEF TypeOK, Progress
  <2>3. d \in Int /\ v \in Int
    BY ConstantsAssumption
  <2> QED BY <1>1, <1>17, <1>18, <2>1, <2>2, <2>3
<1>3. /\ Counting = Sides /\ Counting' = Sides
      /\ \A s \in Sides : Settled(s) = heap[s]
      /\ \A s \in Sides : s # t => Settled(s)' = heap[s] /\ Held(s)' = Held(s)
      /\ Settled(t)' = [heap[t] EXCEPT ![c] = v]
  BY <1>1, <1>2 DEF Counting, Settled, Held
<1>4. Held(t)' = Held(t) \cup {c} /\ c \notin Held(t) /\ c \in Places /\ Held(t) \subseteq Places
  BY <1>1, <1>2 DEF Held
<1>5. /\ \A k \in Held(t) : Settled(t)'[k] = heap[t][k]
      /\ Settled(t)'[c] = v
  <2>1. heap[t] \in [Places -> Values \cup {Unset}]
    BY <1>2
  <2> QED BY <1>3, <1>4, <2>1
<1>6. \A s \in Sides : \A k \in Held(s) :
         /\ heap[s][k] \in Values
         /\ Parent(k) # 0 => ~Before(s, heap[s][Parent(k)], heap[s][k])
  BY <1>0, <1>1, <1>3 DEF NearlyOrdered, Rising, Sinking
<1>7. \A k \in Held(t)' : Parent(k) # c /\ (Parent(k) # 0 /\ k # c => Parent(k) \in Held(t))
  <2> SUFFICES ASSUME NEW k \in Held(t)'
               PROVE  Parent(k) # c /\ (Parent(k) # 0 /\ k # c => Parent(k) \in Held(t))
    OBVIOUS
  <2>1. k \in 1..c /\ c \in Nat \ {0} /\ k \in Nat \ {0}
    <3>1. Held(t) = 1..c - 1
      BY <1>2 DEF Held
    <3>2. k \in (1..c - 1) \cup {c}
      BY <3>1, <1>4
    <3> HIDE DEF Held
    <3> QED BY <3>2
  <2>2. Parent(k) \in 0..k - 1
    BY <2>1, Parents
  <2>3. Parent(k) # c
    BY <2>1, <2>2
  <2>4. k # c => k \in Held(t)
    BY <1>4
  <2> QED BY <1>0, <1>1, <2>3, <2>4, HeldPlaces
<1>8. NearlyOrdered'
  <2> SUFFICES ASSUME NEW s \in Sides, NEW k \in Held(s)'
               PROVE  /\ Settled(s)'[k] \in Values
                      /\ Parent(k) # 0 /\ ~(s = t /\ k = c) =>
                            ~Before(s, Settled(s)'[Parent(k)], Settled(s)'[k])
                      /\ ~(s = t /\ Parent(k) = c)
    BY <1>1, <1>2, <1>3 DEF NearlyOrdered, Parent, Before, Rising, Sinking
  <2>1. CASE s # t
    BY <2>1, <1>3, <1>6
  <2>2. CASE s = t
    BY <2>2, <1>1, <1>4, <1>5, <1>6, <1>7
  <2> QED BY <2>1, <2>2
<1>9. \A w \in Values : seen'[w] = IF w = v THEN seen[w] + 1 ELSE seen[w]
  BY <1>1, <1>2
<1>10. ASSUME NEW s \in Sides, s # t, NEW w PROVE PlacesOf(s, w)' = PlacesOf(s, w)
  BY <1>3, <1>10 DEF PlacesOf
<1>11. ASSUME NEW w
       PROVE  /\ w # v => PlacesOf(t, w)' = PlacesOf(t, w)
              /\ w = v => PlacesOf(t, w)' = PlacesOf(t, w) \cup {c} /\ c \notin PlacesOf(t, w)
  BY <1>1, <1>3, <1>4, <1>5 DEF PlacesOf
<1>12. /\ \A w : IsFiniteSet(PlacesOf(t, w)) /\ Cardinality(PlacesOf(t, w)) \in Nat
       /\ \A w : w # v => Cardinality(PlacesOf(t, w)') = Cardinality(PlacesOf(t, w))
       /\ Cardinality(PlacesOf(t, v)') = Cardinality(PlacesOf(t, v)) + 1
  <2>1. \A w : IsFiniteSet(PlacesOf(t, w)) /\ Cardinality(PlacesOf(t, w)) \in Nat
    BY <1>0, <1>1, HeldPlaces
  <2>2. Cardinality(PlacesOf(t, v)') = Cardinality(PlacesOf(t, v)) + 1
    BY <2>1, <1>11, FS_AddElement
  <2> QED BY <2>1, <2>2, <1>11
<1>13. /\ Before(t, v, d) \/ v = d
       /\ \A s \in Sides : s # t => ~Before(s, v, d)
  BY <1>1, <1>2 DEF Before, Sides
<1>14. ASSUME NEW s \in Sides
       PROVE  /\ \A w \in Values :
                   /\ Before(s, w, d) => Cardinality(PlacesOf(s, w)') = seen'[w]
                   /\ Before(s, d, w) => PlacesOf(s, w)' = {}
              /\ Cardinality(PlacesOf(s, d)') < seen'[d]
  <2>1. /\ \A w \in Values :
             /\ Before(s, w, d) => Cardinality(PlacesOf(s, w)) = seen[w]
             /\ Before(s, d, w) => PlacesOf(s, w) = {}
        /\ Cardinality(PlacesOf(s, d)) < seen[d]
    BY <1>0, <1>2, <1>3 DEF Partitioned
  <2>2. /\ Cardinality(PlacesOf(s, d)) \in Nat
        /\ \A w \in Values : seen[w] \in Nat
    BY <1>0, <1>2, HeldPlaces
  <2>3. CASE s # t
    <3>1. ~Before(s, v, d)
      BY <1>13, <2>3
    <3>2. \A w : PlacesOf(s, w)' = PlacesOf(s, w)
      BY <1>10, <2>3
    <3>3. Cardinality(PlacesOf(s, d)') < seen'[d]
      BY <1>2, <1>9, <2>1, <2>2, <3>2
    <3> QED BY <1>9, <2>1, <3>1, <3>2, <3>3
  <2>4. CASE s = t
    <3>1. ~Before(t, d, v)
      BY <1>1, <1>2, <1>13, OuterOrder
    <3>2. ASSUME NEW w \in Values, Before(t, w, d)
          PROVE  Cardinality(PlacesOf(t, w)') = seen'[w]
      BY <2>1, <2>4, <3>2, <1>9, <1>12
    <3>3. ASSUME NEW w \in Values, Before(t, d, w)
          PROVE  PlacesOf(t, w)' = {}
      BY <2>1, <2>4, <3>1, <3>3, <1>11
    <3>4. Cardinality(PlacesOf(t, d)') < seen'[d]
      <4>1. CASE d = v
        BY <4>1, <2>1, <2>2, <2>4, <1>9, <1>12
      <4>2. CASE d # v
        BY <4>2, <2>1, <2>4, <1>9, <1>12
      <4> QED BY <4>1, <4>2
    <3> QED BY <2>4, <3>2, <3>3, <3>4
  <2> QED BY <2>3, <2>4
<1>15. Partitioned'
  BY <1>2, <1>3, <1>14, PartitionedBy
<1> QED BY <1>8, <1>15

\* While one heap is full, a value that is read is passed over, or becomes the
\* median, or the top of the heap does and the value takes its place.
LEMMA DrainKeeps ==
    ASSUME HeapInv, NEW v \in Values, Skip(v) \/ Take(v) \/ Replace(v)
    PROVE  NearlyOrdered' /\ Partitioned'
<1>0. /\ TypeOK /\ Progress /\ NearlyOrdered /\ Partitioned
  BY DEF HeapInv
<1>1. /\ pc = "drain" /\ UNCHANGED <<L, heap, n, side>> /\ side \in Sides
      /\ seen' = [seen EXCEPT ![v] = @ + 1] /\ seen \in [Values -> 0..read] /\ read \in Nat
      /\ heap \in [Sides -> [Places -> Values \cup {Unset}]]
      /\ median \in Values /\ median \in Int /\ v \in Int /\ n[side] = Lh
  <2>1. /\ pc = "drain" /\ UNCHANGED <<L, heap, n, side>>
        /\ seen' = [seen EXCEPT ![v] = @ + 1]
    BY DEF Skip, Take, Replace, See
  <2>2. /\ side \in Sides /\ heap \in [Sides -> [Places -> Values \cup {Unset}]]
        /\ median \in Values /\ read \in Nat
    BY <1>0, HeapSize DEF TypeOK
  <2>3. seen \in [Values -> 0..read] /\ n[side] = Lh
    BY <1>0, <2>1 DEF Progress
  <2>4. median \in Int /\ v \in Int
    BY <2>2, ConstantsAssumption
  <2> QED BY <2>1, <2>2, <2>3, <2>4
<1> DEFINE h == heap[side]
           top == Nearer(1)
<1>2. /\ \A p \in Places : h[p] \in Values /\ h[p] \in Int
      /\ top \in {1, 2} /\ top \in Places
      /\ \A p \in Places : ~Before(side, h[top], h[p])
  BY <1>0, <1>1, TopIsNearest
<1>3. /\ Held(side) = Places /\ Held(side)' = Places /\ Places \subseteq Nat \ {0}
      /\ \A w : IsFiniteSet(PlacesOf(side, w)) /\ Cardinality(PlacesOf(side, w)) \in Nat
      /\ \A p \in Places : Parent(p) # 0 => Parent(p) \in Places
  <2>1. Held(side) = Places /\ Places \subseteq Nat \ {0}
        /\ (\A w : IsFiniteSet(PlacesOf(side, w)) /\ Cardinality(PlacesOf(side, w)) \in Nat)
        /\ \A p \in Held(side) : Parent(p) # 0 => Parent(p) \in Held(side)
    BY <1>0, <1>1, HeldPlaces
  <2>2. Held(side)' = Held(side)
    BY <1>1 DEF Held
  <2> QED BY <2>1, <2>2
<1>4. Counting = {side} /\ Counting' = {side} /\ Settled(side) = h /\ pc' \in {"drain", "down"}
  BY <1>1 DEF Counting, Settled, Skip, Take, Replace
<1>5. \A w : PlacesOf(side, w) = {p \in Places : h[p] = w}
  BY <1>3, <1>4 DEF PlacesOf
<1>6. \A p \in Places : Parent(p) # 0 => ~Before(side, h[Parent(p)], h[p])
  BY <1>0, <1>1, <1>3, <1>4 DEF NearlyOrdered, Rising, Sinking
<1>7. /\ \A w \in Values :
            /\ Before(side, w, median) => Cardinality(PlacesOf(side, w)) = seen[w]
            /\ Before(side, median, w) => PlacesOf(side, w) = {}
      /\ Cardinality(PlacesOf(side, median)) < seen[median]
      /\ \A w \in Values : seen[w] \in Nat
      /\ \A w \in Values : seen'[w] = IF w = v THEN seen[w] + 1 ELSE seen[w]
      /\ \A w \in Values : w \in Int
  BY <1>0, <1>1, <1>4, ConstantsAssumption DEF Partitioned
<1> HIDE DEF h, top
<1>8. ASSUME NEW d \in Values, d = median',
             \A w \in Values :
               /\ Before(side, w, d) => Cardinality(PlacesOf(side, w)') = seen'[w]
               /\ Before(side, d, w) => PlacesOf(side, w)' = {},
             Cardinality(PlacesOf(side, d)') < seen'[d]
      PROVE  Partitioned'
  <2>1. side' = side
    BY <1>1
  <2>2. \A s \in Counting' : s = side
    BY <1>4
  <2>3. \A s, w : s = side => PlacesOf(s, w)' = PlacesOf(side, w)'
    BY <2>1 DEF PlacesOf, Held, Settled
  <2>4. \A s \in Counting' :
           /\ \A w \in Values :
                 /\ Before(s, w, d) => Cardinality(PlacesOf(s, w)') = seen'[w]
                 /\ Before(s, d, w) => PlacesOf(s, w)' = {}
           /\ Cardinality(PlacesOf(s, d)') < seen'[d]
    BY <1>8, <2>2, <2>3
  <2> QED BY <1>8, <2>4, PartitionedBy
<1>9. ASSUME Skip(v) \/ Take(v)
      PROVE  NearlyOrdered' /\ Partitioned'
  <2>1. pc' = "drain" /\ Settled(side)' = h
    BY <1>1, <1>9 DEF Skip, Take, Settled, h
  <2>2. \A w : PlacesOf(side, w)' = PlacesOf(side, w)
    BY <1>3, <1>5, <2>1 DEF PlacesOf
  <2>3. NearlyOrdered'
    BY <1>1, <1>2, <1>3, <1>4, <1>6, <2>1 DEF NearlyOrdered, Parent, Before, Rising, Sinking
  <2>4. CASE Skip(v)
    <3>1. PICK d \in Values : d = median /\ d = median' /\ ~Before(side, v, d)
      BY <1>1, <2>4 DEF Skip
    <3>2. ASSUME NEW w \in Values
          PROVE  /\ Before(side, w, d) => Cardinality(PlacesOf(side, w)') = seen'[w]
                 /\ Before(side, d, w) => PlacesOf(side, w)' = {}
      BY <1>7, <2>2, <3>1
    <3>3. Cardinality(PlacesOf(side, d)) < seen[d] /\ seen'[d] \in {seen[d], seen[d] + 1}
      BY <1>7, <3>1
    <3>4. Cardinality(PlacesOf(side, d)') < seen'[d]
      BY <1>3, <1>7, <2>2, <3>3
    <3> QED BY <1>8, <2>3, <3>1, <3>2, <3>4
  <2>5. CASE Take(v)
    <3>1. median' = v /\ Before(side, v, median) /\ ~Before(side, v, h[top])
      BY <2>5 DEF Take, h, top
    <3>2. ASSUME NEW w \in Values, Before(side, w, v)
          PROVE  Cardinality(PlacesOf(side, w)') = seen'[w]
      <4>1. Before(side, w, median) /\ w # v
        BY <1>1, <1>7, <3>1, <3>2, OuterOrder
      <4> QED BY <4>1, <1>7, <2>2
    <3>3. ASSUME NEW w \in Values, Before(side, v, w)
          PROVE  PlacesOf(side, w)' = {}
      <4>1. \A p \in Places : ~Before(side, v, h[p])
        BY <1>1, <1>2, <3>1, OuterOrder
      <4> QED BY <4>1, <3>3, <1>5, <2>2
    <3>4. Cardinality(PlacesOf(side, v)') < seen'[v]
      <4>1. Cardinality(PlacesOf(side, v)) = seen[v] /\ seen'[v] = seen[v] + 1 /\ seen[v] \in Nat
        BY <1>7, <3>1
      <4> QED BY <2>2, <4>1
    <3> QED BY <1>8, <2>3, <3>1, <3>2, <3>3, <3>4
  <2> QED BY <1>9, <2>4, <2>5
<1>10. ASSUME Replace(v)
       PROVE  NearlyOrdered' /\ Partitioned'
  <2>1. /\ median' = h[top] /\ val' = v /\ child' = top /\ pc' = "down"
        /\ Before(side, v, median) /\ Before(side, v, h[top])
    BY <1>10 DEF Replace, h, top
  <2> DEFINE g == Settled(side)'
  <2>0. PICK m \in Values : m = h[top]
    BY <1>2
  <2>2. g = [h EXCEPT ![top] = v] /\ h \in [Places -> Values \cup {Unset}]
    BY <1>1, <2>1 DEF Settled, h
  <2>3. g[top] = v /\ \A p \in Places : p # top => g[p] = h[p]
    BY <1>2, <2>2
  <2>4. Parent(top) = 0 /\ top \in Nat \ {0}
    BY <1>2, <1>3, Parents
  <2> HIDE DEF g
  <2>5. NearlyOrdered'
    <3> SUFFICES ASSUME NEW k \in Places
                 PROVE  /\ g[k] \in Values
                        /\ Parent(k) # 0 /\ Parent(k) # top => ~Before(side, g[Parent(k)], g[k])
      BY <1>1, <1>3, <1>4, <2>1, <2>4 DEF NearlyOrdered, Parent, Before, Rising, Sinking, g
    <3>1. g[k] \in Values
      BY <1>2, <2>3
    <3>2. Parent(k) # 0 => k # top /\ Parent(k) \in Places
      BY <1>3, <2>4
    <3> QED BY <1>6, <2>3, <3>1, <3>2
  <2>6. \A w : PlacesOf(side, w)' = {p \in Places : g[p] = w}
    BY <1>1, <1>3 DEF PlacesOf, g
  <2>7. m \in Int /\ v # m /\ ~Before(side, median, m)
    <3>1. m \in Int /\ top \in PlacesOf(side, m)
      BY <1>2, <1>5, <2>0
    <3> QED BY <1>1, <1>7, <2>0, <2>1, <3>1, OuterOrder
  <2>8. /\ PlacesOf(side, v)' = PlacesOf(side, v) \cup {top} /\ top \notin PlacesOf(side, v)
        /\ PlacesOf(side, m)' = PlacesOf(side, m) \ {top} /\ top \in PlacesOf(side, m)
        /\ \A w : w # v /\ w # m => PlacesOf(side, w)' = PlacesOf(side, w)
    <3>1. ASSUME NEW w, NEW p
          PROVE  p \in PlacesOf(side, w)' <=>
                     (p = top /\ w = v) \/ (p # top /\ p \in PlacesOf(side, w))
      <4>1. p \in PlacesOf(side, w)' <=> p \in Places /\ g[p] = w
        BY <2>6
      <4>2. p \in PlacesOf(side, w) <=> p \in Places /\ h[p] = w
        BY <1>5
      <4> QED BY <4>1, <4>2, <1>2, <2>3
    <3>2. ASSUME NEW w PROVE top \in PlacesOf(side, w) <=> w = m
      BY <1>2, <1>5, <2>0
    <3>3. /\ \A p : p \in PlacesOf(side, v)' <=> p \in PlacesOf(side, v) \cup {top}
          /\ top \notin PlacesOf(side, v)
      BY <2>7, <3>1, <3>2
    <3>4. /\ \A p : p \in PlacesOf(side, m)' <=> p \in PlacesOf(side, m) \ {top}
          /\ top \in PlacesOf(side, m)
      BY <2>7, <3>1, <3>2
    <3>5. ASSUME NEW w, w # v, w # m
          PROVE  PlacesOf(side, w)' = PlacesOf(side, w)
      <4>1. \A p : p \in PlacesOf(side, w)' <=> p \in PlacesOf(side, w)
        BY <3>1, <3>2, <3>5
      <4> QED BY <4>1, Zenon
    <3>6. /\ PlacesOf(side, v)' = PlacesOf(side, v) \cup {top}
          /\ PlacesOf(side, m)' = PlacesOf(side, m) \ {top}
      BY <3>3, <3>4, Zenon
    <3> QED BY <3>3, <3>4, <3>5, <3>6, Zenon
  <2>9. /\ Cardinality(PlacesOf(side, v)') = Cardinality(PlacesOf(side, v)) + 1
        /\ Cardinality(PlacesOf(side, m)') = Cardinality(PlacesOf(side, m)) - 1
    <3>1. /\ Cardinality(PlacesOf(side, v) \cup {top}) = Cardinality(PlacesOf(side, v)) + 1
          /\ Cardinality(PlacesOf(side, m) \ {top}) = Cardinality(PlacesOf(side, m)) - 1
      BY <1>3, <2>8, FS_AddElement, FS_RemoveElement
    <3> QED BY <2>8, <3>1
  <2>10. ASSUME NEW w \in Values, Before(side, w, m)
         PROVE  Cardinality(PlacesOf(side, w)') = seen'[w]
    <3>1. Before(side, w, median) /\ w # m
      BY <1>1, <1>7, <2>7, <2>10, OuterOrder
    <3>2. CASE w = v
      BY <3>1, <3>2, <1>3, <1>7, <2>9
    <3>3. CASE w # v
      BY <3>1, <3>3, <1>7, <2>8
    <3> QED BY <3>2, <3>3
  <2>11. ASSUME NEW w \in Values, Before(side, m, w)
         PROVE  PlacesOf(side, w)' = {}
    <3>1. w # v /\ w # m
      BY <1>1, <1>7, <2>0, <2>1, <2>7, <2>11, OuterOrder
    <3>2. PlacesOf(side, w) = {}
      <4> SUFFICES ASSUME NEW p \in Places, h[p] = w PROVE FALSE
        BY <1>5
      <4>1. ~Before(side, m, h[p])
        BY <1>2, <2>0
      <4> QED BY <2>11, <4>1
    <3> QED BY <2>8, <3>1, <3>2
  <2>12. Cardinality(PlacesOf(side, m)') < seen'[m]
    <3>1. Before(side, m, median) \/ m = median
      BY <1>1, <2>7, OuterOrder
    <3>2. Cardinality(PlacesOf(side, m)) <= seen[m] /\ seen'[m] = seen[m] /\ seen[m] \in Nat
      BY <1>1, <1>3, <1>7, <2>7, <3>1
    <3> QED BY <1>3, <2>9, <3>2
  <2>13. m = median'
    BY <2>0, <2>1
  <2> QED BY <1>8, <2>5, <2>10, <2>11, <2>12, <2>13
<1> QED BY <1>9, <1>10

\* Every step keeps the invariant.
LEMMA HeapInvStep == HeapInv /\ [Next]_vars => HeapInv'
<1> SUFFICES ASSUME HeapInv, [Next]_vars PROVE HeapInv'
  OBVIOUS
<1>0. TypeOK /\ Progress /\ NearlyOrdered /\ Partitioned
  BY DEF HeapInv
<1>1. /\ TypeOK' /\ Progress' /\ IsFiniteSet(Reads') /\ Cardinality(Reads') = read'
  BY TypeStep
<1>2. ASSUME \/ UNCHANGED vars
             \/ Return
      PROVE  NearlyOrdered' /\ Partitioned'
  <2>1. /\ UNCHANGED <<L, median, heap, n, side, val, child, seen>>
        /\ pc' = pc \/ (pc = "drain" /\ pc' = "done")
    BY <1>2 DEF vars, Return
  <2>2. /\ Counting' = Counting /\ \A s : Held(s)' = Held(s) /\ Settled(s)' = Settled(s)
        /\ \A s, k : Rising(s, k)' = Rising(s, k) /\ Sinking(s, k)' = Sinking(s, k)
        /\ pc' \in {"up", "down"} <=> pc \in {"up", "down"}
    BY <2>1 DEF Counting, Held, Settled, Rising, Sinking, Parent
  <2>3. Partitioned'
    BY <1>0, <2>1, <2>2, SamePartition
  <2>4. NearlyOrdered'
    <3> SUFFICES ASSUME NEW s \in Counting', NEW k \in Held(s)'
                 PROVE  /\ Settled(s)'[k] \in Values
                        /\ Parent(k) # 0 /\ ~Rising(s, k)' /\ ~Sinking(s, k)' =>
                              ~Before(s, Settled(s)'[Parent(k)], Settled(s)'[k])
                        /\ pc' \in {"up", "down"} /\ s = side' /\ Parent(k) = child' /\ Parent(child') # 0 =>
                              ~Before(s, Settled(s)'[Parent(child')], Settled(s)'[k])
      BY DEF NearlyOrdered, Parent, Before
    <3> QED BY <1>0, <2>1, <2>2 DEF NearlyOrdered
  <2> QED BY <2>3, <2>4
<1>3. NearlyOrdered' /\ Partitioned'
  BY <1>2, StayKeeps, MoveKeeps, AppendKeeps, DrainKeeps DEF Next, ReadNext
<1> QED BY <1>1, <1>3 DEF HeapInv

-----------------------------------------------------------------------------
(* The median *)

\* Between two values, the heaps that still count hold what lies outside the
\* median, in order.
LEMMA HeapInvHolds == HeapInv => HeapsHoldOuter
<1> SUFFICES ASSUME HeapInv, pc \in {"fill", "drain"},
                    NEW s \in IF pc = "fill" THEN Sides ELSE {side}
             PROVE  Ordered(s) /\ HoldsOuter(s)
  BY DEF HeapsHoldOuter
<1>1. s \in Counting /\ Settled(s) = heap[s]
  BY DEF Counting, Settled
<1>2. \A k : ~Rising(s, k) /\ ~Sinking(s, k)
  BY DEF Rising, Sinking
<1>3. Ordered(s)
  BY <1>1, <1>2 DEF HeapInv, NearlyOrdered, Ordered
<1>4. \A v : Copies(s, v) = Cardinality(PlacesOf(s, v))
  BY <1>1 DEF Copies, PlacesOf
<1>5. \A v \in Values :
        /\ Before(s, v, median) => Cardinality(PlacesOf(s, v)) = seen[v]
        /\ Before(s, median, v) => PlacesOf(s, v) = {}
  BY <1>1 DEF HeapInv, Partitioned
<1> QED BY <1>3, <1>4, <1>5, FS_EmptySet DEF HoldsOuter

\* What is further out on the side of the full heap is in it.
LEMMA HeapBoundsItsSide ==
    ASSUME HeapInv, pc = "done"
    PROVE  ReadBefore(side) < Lh
<1> DEFINE A == {x \in Reads : Before(side, x[1], median)}
           place == [v \in Values |-> CHOOSE f : f \in Bijection(1..seen[v], PlacesOf(side, v))]
           inj == [x \in A |-> place[x[1]][x[2]]]
<1>0. TypeOK /\ Progress /\ Partitioned /\ IsFiniteSet(Reads)
  BY DEF HeapInv
<1>1. /\ side \in Sides /\ seen \in [Values -> 0..L] /\ L \in Nat
      /\ Places = 1..Lh - 1 /\ Lh \in Nat /\ Lh >= 3 /\ IsFiniteSet(Places)
      /\ side \in Counting /\ Settled(side) = heap[side]
  BY <1>0, HeapSize DEF TypeOK, Counting, Settled
<1>2. /\ Held(side) = Places
      /\ \A v : IsFiniteSet(PlacesOf(side, v)) /\ Cardinality(PlacesOf(side, v)) \in Nat
  BY <1>0, <1>1, HeldPlaces DEF Progress
<1>3. \A v : PlacesOf(side, v) = {k \in Places : heap[side][k] = v}
  BY <1>1, <1>2 DEF PlacesOf
<1>4. ASSUME NEW v \in Values, Before(side, v, median)
      PROVE  place[v] \in Bijection(1..seen[v], PlacesOf(side, v))
  <2>1. Cardinality(PlacesOf(side, v)) = seen[v]
    BY <1>0, <1>1, <1>4 DEF Partitioned
  <2>2. ExistsBijection(1..seen[v], PlacesOf(side, v))
    BY <1>2, <2>1, FS_CardinalityType
  <2>3. \E f : f \in Bijection(1..seen[v], PlacesOf(side, v))
    BY <2>2 DEF ExistsBijection
  <2> QED BY <2>3
<1> HIDE DEF place
<1>5. ASSUME NEW x \in A
      PROVE  /\ x = <<x[1], x[2]>> /\ x[1] \in Values /\ Before(side, x[1], median)
             /\ x[2] \in 1..seen[x[1]]
             /\ inj[x] \in Places /\ heap[side][inj[x]] = x[1]
  <2>1. /\ x \in Values \X (1..L) /\ x[2] <= seen[x[1]] /\ Before(side, x[1], median)
    BY <1>5 DEF Reads
  <2>2. x = <<x[1], x[2]>> /\ x[1] \in Values /\ x[2] \in 1..seen[x[1]]
    BY <1>1, <2>1
  <2>3. inj[x] \in PlacesOf(side, x[1])
    <3>1. place[x[1]] \in [1..seen[x[1]] -> PlacesOf(side, x[1])]
      BY <1>4, <2>1, <2>2 DEF Bijection, Surjection
    <3> QED BY <2>2, <3>1
  <2> QED BY <1>3, <2>1, <2>2, <2>3
<1>6. ASSUME NEW x \in A, NEW y \in A, inj[x] = inj[y]
      PROVE  x = y
  <2>1. x[1] = y[1]
    BY <1>5, <1>6
  <2>2. place[x[1]][x[2]] = place[x[1]][y[2]]
    BY <1>6, <2>1
  <2>3. x[2] = y[2]
    BY <1>4, <1>5, <2>1, <2>2 DEF Bijection, Injection, IsInjective
  <2> QED BY <1>5, <2>1, <2>3
<1>7. inj \in Injection(A, Places)
  BY <1>5, <1>6 DEF Injection, IsInjective
<1> HIDE DEF inj
<1>8. Cardinality(A) <= Cardinality(Places) /\ Cardinality(Places) = Lh - 1
  BY <1>1, <1>7, FS_Injection, FS_Interval
<1>9. Cardinality(A) \in Nat
  BY <1>1, <1>7, FS_Injection, FS_CardinalityType
<1> QED BY <1>1, <1>8, <1>9 DEF ReadBefore

\* The heap and the median are not on the other side.
LEMMA HeapBoundsOtherSide ==
    ASSUME HeapInv, pc = "done", NEW t \in Sides, t # side
    PROVE  ReadBefore(t) <= L - Lh /\ ReadBefore(t) \in Nat
<1> DEFINE O == {x \in Reads : Before(t, x[1], median)}
           E == Reads \ O
           h == heap[side]
           count(v) == Cardinality(PlacesOf(side, v))
           rank == [v \in Values |-> CHOOSE f : f \in Bijection(PlacesOf(side, v), 1..count(v))]
           inj == [k \in 0..Lh - 1 |-> IF k = 0 THEN <<median, seen[median]>> ELSE <<h[k], rank[h[k]][k]>>]
<1>0. TypeOK /\ Progress /\ Partitioned /\ NearlyOrdered /\ IsFiniteSet(Reads) /\ Cardinality(Reads) = L
  BY DEF HeapInv, Progress
<1>1. /\ side \in Sides /\ seen \in [Values -> 0..L] /\ L \in Nat /\ median \in Values
      /\ Places = 1..Lh - 1 /\ Lh \in Nat /\ Lh >= 3
      /\ side \in Counting /\ Settled(side) = h
  BY <1>0, HeapSize DEF TypeOK, Counting, Settled
<1>2. /\ Held(side) = Places
      /\ \A v : IsFiniteSet(PlacesOf(side, v)) /\ count(v) \in Nat
  BY <1>0, <1>1, HeldPlaces DEF Progress
<1>3. /\ \A v : PlacesOf(side, v) = {k \in Places : h[k] = v}
      /\ \A k \in Places : h[k] \in Values
  BY <1>0, <1>1, <1>2 DEF PlacesOf, NearlyOrdered
<1>4. ASSUME NEW v \in Values
      PROVE  /\ Before(side, v, median) => count(v) = seen[v]
             /\ Before(side, median, v) => PlacesOf(side, v) = {}
             /\ count(median) < seen[median]
  BY <1>0, <1>1 DEF Partitioned
<1>5. ASSUME NEW v \in Values
      PROVE  rank[v] \in Bijection(PlacesOf(side, v), 1..count(v))
  <2>1. IsFiniteSet(1..count(v)) /\ Cardinality(1..count(v)) = count(v)
    BY <1>2, FS_Interval
  <2>2. ExistsBijection(PlacesOf(side, v), 1..count(v))
    BY <1>2, <2>1, FS_SameCardinalityBij
  <2>3. \E f : f \in Bijection(PlacesOf(side, v), 1..count(v))
    BY <2>2 DEF ExistsBijection
  <2> QED BY <2>3
<1> HIDE DEF rank, count, h
<1>6. ASSUME NEW k \in Places
      PROVE  /\ h[k] \in Values /\ ~Before(t, h[k], median)
             /\ rank[h[k]][k] \in 1..count(h[k])
             /\ count(h[k]) <= seen[h[k]] /\ (h[k] = median => count(h[k]) < seen[median])
  <2>1. h[k] \in Values /\ k \in PlacesOf(side, h[k])
    BY <1>3
  <2>2. rank[h[k]] \in [PlacesOf(side, h[k]) -> 1..count(h[k])]
    BY <1>5, <2>1 DEF Bijection, Surjection
  <2>3. ~Before(side, median, h[k])
    BY <1>4, <2>1
  <2>4. h[k] \in Int /\ median \in Int
    BY <1>1, <2>1, ConstantsAssumption
  <2>5. Before(side, h[k], median) \/ h[k] = median
    BY <1>1, <2>3, <2>4, OuterOrder
  <2>6. count(h[k]) <= seen[h[k]] /\ (h[k] = median => count(h[k]) < seen[median])
    BY <1>1, <1>2, <1>4, <2>1, <2>5
  <2>7. ~Before(t, h[k], median)
    BY <1>1, <2>3, <2>4, OppositeOrder
  <2> QED BY <2>1, <2>2, <2>6, <2>7
<1>7. ASSUME NEW v \in Values, ~Before(t, v, median), NEW r \in 1..seen[v]
      PROVE  <<v, r>> \in E
  <2>1. r \in 1..L
    BY <1>1, <1>7
  <2> QED BY <1>1, <1>7, <2>1 DEF Reads
<1>8. ASSUME NEW k \in 0..Lh - 1 PROVE inj[k] \in E
  <2>1. CASE k = 0
    <3>1. seen[median] \in 1..seen[median]
      BY <1>1, <1>2, <1>4
    <3>2. ~Before(t, median, median)
      BY <1>1, ConstantsAssumption, OuterOrder
    <3>3. <<median, seen[median]>> \in E
      BY <1>1, <1>7, <3>1, <3>2
    <3> QED BY <2>1, <3>3
  <2>2. CASE k # 0
    <3>1. k \in Places
      BY <1>1, <2>2
    <3>2. rank[h[k]][k] \in 1..seen[h[k]]
      BY <1>1, <1>2, <1>6, <3>1
    <3>3. <<h[k], rank[h[k]][k]>> \in E
      BY <1>6, <1>7, <3>1, <3>2
    <3> QED BY <2>2, <3>3
  <2> QED BY <2>1, <2>2
<1>9. ASSUME NEW k \in 0..Lh - 1, NEW m \in 0..Lh - 1, inj[k] = inj[m]
      PROVE  k = m
  <2>1. ASSUME NEW p \in 0..Lh - 1, inj[0] = inj[p] PROVE p = 0
    <3> SUFFICES ASSUME p # 0 PROVE FALSE
      OBVIOUS
    <3>1. p \in Places
      BY <1>1
    <3>2. h[p] = median /\ rank[h[p]][p] = seen[median]
      BY <2>1, <1>1
    <3> QED BY <1>1, <1>2, <1>6, <3>1, <3>2
  <2>2. CASE k # 0 /\ m # 0
    <3>1. k \in Places /\ m \in Places
      BY <1>1, <2>2
    <3>2. h[k] = h[m] /\ rank[h[k]][k] = rank[h[k]][m]
      BY <1>9, <2>2
    <3>3. h[k] \in Values /\ k \in PlacesOf(side, h[k]) /\ m \in PlacesOf(side, h[k])
      BY <1>3, <3>1, <3>2
    <3> QED BY <1>5, <3>2, <3>3 DEF Bijection, Injection, IsInjective
  <2> QED BY <1>1, <1>9, <2>1, <2>2
<1> HIDE DEF inj, E
<1>10. inj \in Injection(0..Lh - 1, E)
  <2>1. DOMAIN inj = 0..Lh - 1 /\ inj = [k \in 0..Lh - 1 |-> inj[k]]
    BY DEF inj
  <2>2. inj \in [0..Lh - 1 -> E]
    BY <1>8, <2>1
  <2> QED BY <1>9, <2>2 DEF Injection, IsInjective
<1>11. /\ IsFiniteSet(E) /\ IsFiniteSet(O) /\ Cardinality(O) \in Nat /\ Cardinality(E) \in Nat
       /\ Cardinality(E) = L - Cardinality(O)
  <2>1. O \subseteq Reads /\ E \subseteq Reads /\ E = Reads \ O /\ Reads \cap O = O
    BY DEF E
  <2>2. IsFiniteSet(O) /\ IsFiniteSet(E)
    BY <1>0, <2>1, FS_Subset
  <2>3. Cardinality(O) \in Nat /\ Cardinality(E) \in Nat
    BY <2>2, FS_CardinalityType
  <2>4. Cardinality(E) = Cardinality(Reads) - Cardinality(O)
    <3> HIDE DEF O
    <3>1. Cardinality(Reads \ O) = Cardinality(Reads) - Cardinality(Reads \cap O)
      BY <1>0, FS_Difference
    <3> QED BY <2>1, <3>1
  <2> QED BY <1>0, <2>2, <2>3, <2>4
<1>12. Cardinality(0..Lh - 1) = Lh
  BY <1>1, FS_Interval
<1>13. Lh <= Cardinality(E)
  BY <1>10, <1>11, <1>12, FS_Injection
<1> QED BY <1>1, <1>11, <1>13 DEF ReadBefore

\* Neither side of what is returned has more than half of the values.
LEMMA HeapInvMedian == HeapInv => MedianIsMiddle
<1> SUFFICES ASSUME HeapInv, pc = "done", NEW s \in Sides PROVE ReadBefore(s) <= L \div 2
  BY DEF MedianIsMiddle
<1>1. L \in Nat /\ Lh \in Nat /\ Lh = (L \div 2) + 1 /\ L + 1 <= 2 * Lh
  BY HeapSize DEF HeapInv, Lh
<1>2. CASE s = side
  <2>1. ReadBefore(side) < Lh
    BY HeapBoundsItsSide
  <2>2. IsFiniteSet({x \in Reads : Before(s, x[1], median)})
    BY FS_Subset DEF HeapInv
  <2>3. ReadBefore(s) \in Nat
    BY <2>2, FS_CardinalityType DEF ReadBefore
  <2> QED BY <1>1, <1>2, <2>1, <2>3
<1>3. CASE s # side
  BY <1>1, <1>3, HeapBoundsOtherSide
<1> QED BY <1>2, <1>3

\* The heaps keep what may still become the median, in order, for any values and
\* any length that the code allows.
THEOREM HeapTheorem == Spec => []HeapsHoldOuter
BY HeapInvInit, HeapInvStep, HeapInvHolds, PTL DEF Spec

\* heapMedian3() returns a median.
THEOREM MedianTheorem == Spec => []MedianIsMiddle
BY HeapInvInit, HeapInvStep, HeapInvMedian, PTL DEF Spec
=============================================================================
