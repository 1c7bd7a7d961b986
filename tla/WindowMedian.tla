---------------------------- MODULE WindowMedian ----------------------------
(***************************************************************************)
(* medianfilter() and medianfilterCausal() (signal_buffer.cpp): the median *)
(* of five samples around each sample of a signal.  The signal is extended *)
(* by two mirrored samples at each end; three rounds of a selection sort   *)
(* then bring the median of a window to its middle.  The causal function   *)
(* calls the same filter and differs for a single sample only.             *)
(*                                                                         *)
(* Each round is a step, the search for its minimum included.  The filter  *)
(* reads the extension and writes `result', or the signal itself when      *)
(* result is NULL, so that it never reads what it has written.             *)
(***************************************************************************)
EXTENDS Integers, FiniteSets

CONSTANTS Sizes,    \* values of the argument N to consider
          Samples,  \* the values of samples
          Nothing   \* what an array holds before anything is stored there

ASSUME FilterAssumption == Sizes \subseteq Nat \ {0} /\ Samples \subseteq Int

VARIABLES N,
          signal,     \* the signal as it was passed
          extension,
          result,     \* the array that is written
          i,          \* the sample whose window is sorted
          j,          \* rounds done
          window,
          at          \* where the filter is

filterVars == <<N, signal, extension, result, i, j, window, at>>

Cells == 0..4

\* The place in the signal that is copied to place k of the extension.
Source(n, k) ==
    CASE k < 2 -> 1 - k
      [] k \in 2..n + 1 -> k - 2
      [] OTHER -> n - 1 - (k - (n + 2))

Extend(s, n) == [k \in 0..n + 3 |-> s[Source(n, k)]]

\* The five samples around sample k of the signal.
Picked(k) == [c \in Cells |-> extension[k + c]]

FilterInit ==
    /\ N \in Sizes
    /\ signal \in [0..N - 1 -> Samples]
    /\ extension = Nothing
    /\ result = [k \in 0..N - 1 |-> Nothing]
    /\ i = 0 /\ j = 0
    /\ window = Nothing
    /\ at = "call"

\* A single sample is its own median.
CallSingle ==
    /\ at = "call" /\ N = 1
    /\ result' = signal
    /\ at' = "returned"
    /\ UNCHANGED <<N, signal, extension, i, j, window>>

CallExtends ==
    /\ at = "call" /\ N > 1
    /\ extension' = Extend(signal, N)
    /\ at' = "pick"
    /\ UNCHANGED <<N, signal, result, i, j, window>>

Pick ==
    /\ at = "pick" /\ i < N
    /\ window' = Picked(i)
    /\ j' = 0
    /\ at' = "sort"
    /\ UNCHANGED <<N, signal, extension, result, i>>

\* The first place from f on that holds the least value.
Least(w, f) ==
    CHOOSE k \in f..4 :
        /\ \A c \in f..4 : w[k] <= w[c]
        /\ \A c \in f..k - 1 : w[k] < w[c]

Swapped(w, a, b) == [w EXCEPT ![a] = w[b], ![b] = w[a]]

\* Faulty variant: two rounds.
RoundsTooFew == 2

\* "Order floats (only half of them)"
Rounds == 3

SortRound ==
    /\ at = "sort" /\ j < Rounds
    /\ window' = Swapped(window, j, Least(window, j))
    /\ j' = j + 1
    /\ UNCHANGED <<N, signal, extension, result, i, at>>

Store ==
    /\ at = "sort" /\ j = Rounds
    /\ result' = [result EXCEPT ![i] = window[2]]
    /\ i' = i + 1
    /\ at' = "pick"
    /\ UNCHANGED <<N, signal, extension, j, window>>

FilterReturns ==
    /\ at = "pick" /\ i = N
    /\ at' = "returned"
    /\ UNCHANGED <<N, signal, extension, result, i, j, window>>

FilterNext ==
    CallSingle \/ CallExtends \/ Pick \/ SortRound \/ Store \/ FilterReturns

FilterSpec == FilterInit /\ [][FilterNext]_filterVars

-----------------------------------------------------------------------------
(* Properties *)

\* The signal continued beyond its ends by reflection.
Reflected(k) ==
    CASE k < 0 -> signal[-k - 1]
      [] k \in 0..N - 1 -> signal[k]
      [] OTHER -> signal[(2 * N) - 1 - k]

\* The median of the five reflected samples around k is one of them, and no
\* more than two of them are smaller and no more than two are greater.
IsMedian(v, k) ==
    /\ \E c \in Cells : Reflected(k - 2 + c) = v
    /\ Cardinality({c \in Cells : Reflected(k - 2 + c) < v}) <= 2
    /\ Cardinality({c \in Cells : Reflected(k - 2 + c) > v}) <= 2

\* Each sample that medianfilter() has written is the median of its window in
\* the reflected signal, whatever is still to be sorted and also where the
\* window hangs over an end of the signal; on return all have been written.
ResultIsMedian ==
    /\ N > 1 => \A k \in 0..i - 1 : IsMedian(result[k], k)
    /\ at = "returned" => IF N = 1 THEN result = signal ELSE i = N
=============================================================================
