----------------------------- MODULE HeapMedian -----------------------------
(***************************************************************************)
(* heapMedian3<L>() (signal_processor.h): the median of L values in one    *)
(* pass.  The first value is the candidate; smaller values go to a heap on *)
(* the left of it, the others to one on the right.  The heap that is full  *)
(* first then takes part in the choice of the median, and the other is not *)
(* looked at again.                                                        *)
(*                                                                         *)
(* The code is written out twice, once for each side, with the comparisons *)
(* turned round: Before(s, x, y) is that comparison.  A value is chosen    *)
(* when it is read; each iteration of a loop is a step.                    *)
(***************************************************************************)
EXTENDS Integers, FiniteSets

CONSTANTS Lengths,  \* values of the template parameter L to consider
          Values,   \* the values in the array
          Unset     \* what the heaps hold before anything is stored there

\* heapMedian3<L>() reads left[2], which exists from L = 4 on, and counts in
\* unsigned chars.
ASSUME ConstantsAssumption ==
    /\ Lengths \subseteq 4..255
    /\ Values \subseteq Int /\ Unset \notin Values

VARIABLES L,       \* the template parameter
          read,    \* p - a: values read
          median,
          heap,    \* heap[s][k], k > 0: left[k], right[k]; 0 is the median's place
          n,       \* nLeft, nRight
          side,    \* the side being worked on
          val,     \* the value being inserted
          child,   \* the free place while a value moves through a heap
          pc,
          seen     \* how often each value has been read

vars == <<L, read, median, heap, n, side, val, child, pc, seen>>

Sides == {"left", "right"}
Lh == (L \div 2) + 1
Places == 1..Lh - 1

\* On the left a bigger value is nearer to the median, on the right a smaller.
Before(s, x, y) == IF s = "left" THEN x < y ELSE x > y

Parent(k) == (k - 1) \div 2

Init ==
    /\ L \in Lengths
    /\ median \in Values
    /\ read = 1
    /\ heap = [s \in Sides |-> [k \in Places |-> Unset]]
    /\ n = [s \in Sides |-> 1]
    /\ side = "left" /\ val = median /\ child = 0
    /\ pc = "fill"
    /\ seen = [v \in Values |-> IF v = median THEN 1 ELSE 0]

See(v) == read' = read + 1 /\ seen' = [seen EXCEPT ![v] = @ + 1]

-----------------------------------------------------------------------------
(* While neither heap is full *)

\* The next value is appended to the left heap if it is smaller than the
\* median, and else to the right one.
Append(v) ==
    /\ pc = "fill"
    /\ See(v)
    /\ side' = IF v < median THEN "left" ELSE "right"
    /\ val' = v
    /\ child' = n[side']
    /\ n' = [n EXCEPT ![side'] = @ + 1]
    /\ pc' = "up"
    /\ UNCHANGED <<L, median, heap>>

\* Faulty variant: a value stays where it is appended.
GoesUpNever == FALSE

GoesUp == Parent(child) # 0 /\ Before(side, heap[side][Parent(child)], val)

MoveUp ==
    /\ pc = "up" /\ GoesUp
    /\ heap' = [heap EXCEPT ![side][child] = heap[side][Parent(child)]]
    /\ child' = Parent(child)
    /\ UNCHANGED <<L, read, median, n, side, val, pc, seen>>

Full(s) == n[s] = Lh

StayUp ==
    /\ pc = "up" /\ ~GoesUp
    /\ heap' = [heap EXCEPT ![side][child] = val]
    /\ pc' = IF Full(side) THEN "drain" ELSE "fill"
    /\ UNCHANGED <<L, read, median, n, side, val, child, seen>>

-----------------------------------------------------------------------------
(* The remaining values, when the heap of `side' is full *)

\* Faulty variant: the first child, without a look at its sibling.
NearerFirst(k) == k

\* k or its sibling k + 1, whichever is nearer to the median.
Nearer(k) ==
    IF k + 1 \in Places /\ Before(side, heap[side][k], heap[side][k + 1])
    THEN k + 1 ELSE k

\* The value is on the other side of the median, or equal to it.
Skip(v) ==
    /\ pc = "drain" /\ read < L
    /\ ~Before(side, v, median)
    /\ See(v)
    /\ UNCHANGED <<L, median, heap, n, side, val, child, pc>>

\* The value is on this side and none in the heap is nearer: the new median.
Take(v) ==
    /\ pc = "drain" /\ read < L
    /\ Before(side, v, median)
    /\ ~Before(side, v, heap[side][Nearer(1)])
    /\ See(v)
    /\ median' = v
    /\ UNCHANGED <<L, heap, n, side, val, child, pc>>

\* The top of the heap becomes the median, and the value replaces it.
Replace(v) ==
    /\ pc = "drain" /\ read < L
    /\ Before(side, v, median)
    /\ Before(side, v, heap[side][Nearer(1)])
    /\ See(v)
    /\ median' = heap[side][Nearer(1)]
    /\ val' = v /\ child' = Nearer(1)
    /\ pc' = "down"
    /\ UNCHANGED <<L, heap, n, side>>

\* The child of the free place that moves into it, if the value does not.
Below == Nearer(2 * child + 1)
GoesDown == 2 * child + 1 < Lh /\ Before(side, val, heap[side][Below])

MoveDown ==
    /\ pc = "down" /\ GoesDown
    /\ heap' = [heap EXCEPT ![side][child] = heap[side][Below]]
    /\ child' = Below
    /\ UNCHANGED <<L, read, median, n, side, val, pc, seen>>

StayDown ==
    /\ pc = "down" /\ ~GoesDown
    /\ heap' = [heap EXCEPT ![side][child] = val]
    /\ pc' = "drain"
    /\ UNCHANGED <<L, read, median, n, side, val, child, seen>>

Return ==
    /\ pc = "drain" /\ read = L
    /\ pc' = "done"
    /\ UNCHANGED <<L, read, median, heap, n, side, val, child, seen>>

ReadNext == \E v \in Values : Append(v) \/ Skip(v) \/ Take(v) \/ Replace(v)
Next == ReadNext \/ MoveUp \/ StayUp \/ MoveDown \/ StayDown \/ Return

Spec == Init /\ [][Next]_vars

-----------------------------------------------------------------------------
(* Properties *)

\* Every variable keeps its type: no value behind the array is read and no
\* place behind a heap is used.
TypeOK ==
    /\ L \in Lengths
    /\ read \in 1..L
    /\ median \in Values /\ val \in Values
    /\ heap \in [Sides -> [Places -> Values \cup {Unset}]]
    /\ n \in [Sides -> 1..Lh]
    /\ side \in Sides
    /\ child \in 0..Lh - 1
    /\ pc \in {"fill", "up", "drain", "down", "done"}
    /\ seen \in [Values -> 0..L]

Held(s) == 1..n[s] - 1
Copies(s, v) == Cardinality({k \in Held(s) : heap[s][k] = v})

\* No value is nearer to the median than its parent in the heap.
Ordered(s) ==
    \A k \in Held(s) : Parent(k) # 0 => ~Before(s, heap[s][Parent(k)], heap[s][k])

\* The heap holds what is further out than the median, all of it, and may hold
\* copies of the median.
HoldsOuter(s) ==
    \A v \in Values :
        /\ Before(s, v, median) => Copies(s, v) = seen[v]
        /\ Before(s, median, v) => Copies(s, v) = 0

\* Whenever a value has been dealt with, the heaps that still count are ordered
\* and hold exactly the outer values read so far: after the first heap is full
\* that is the one that decides.
HeapsHoldOuter ==
    pc \in {"fill", "drain"} =>
        \A s \in IF pc = "fill" THEN Sides ELSE {side} : Ordered(s) /\ HoldsOuter(s)

\* The values read, told apart by counting the equal ones.
Reads == {x \in Values \X (1..L) : x[2] <= seen[x[1]]}

\* Number of values read that are further out on side s than the median.
ReadBefore(s) == Cardinality({x \in Reads : Before(s, x[1], median)})

\* What heapMedian3() returns has at most half of the values on either side.
MedianIsMiddle ==
    pc = "done" => \A s \in Sides : ReadBefore(s) <= L \div 2

=============================================================================
