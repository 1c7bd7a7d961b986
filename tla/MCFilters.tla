----------------------------- MODULE MCFilters -----------------------------
(* Instance of HeapMedian and WindowMedian for TLC.  A behaviour is one of     *)
(* either filter; the other one rests.                                        *)
EXTENDS HeapMedian, WindowMedian

\* Odd and even lengths; with 15 values the heaps have three levels.  There are
\* fewer values than places, so that equal values are frequent.
MCLengths == {4, 5, 8, 9, 15}

\* A single sample, windows that hang over both ends, and those that do not.
MCSizes == 1..6

HeapRests ==
    /\ Init /\ L = 4 /\ median = 1
FilterRests ==
    /\ N = 1 /\ signal = [k \in {0} |-> 1] /\ result = signal
    /\ extension = Nothing /\ i = 0 /\ j = 0 /\ window = Nothing
    /\ at = "returned"

MCInit == (Init /\ FilterRests) \/ (HeapRests /\ FilterInit)

MCNext ==
    \/ at = "returned" /\ N = 1 /\ Next /\ UNCHANGED filterVars
    \/ read = 1 /\ L = 4 /\ FilterNext /\ UNCHANGED vars

MCSpec == MCInit /\ [][MCNext]_<<vars, filterVars>>
=============================================================================
