-------------------------- MODULE MCObserverCommit --------------------------
(* ObserverCommit on a small instance: two buffers, an interval of two short *)
(* or one long block, an unsigned long twice as wide as a uint32_t.          *)
EXTENDS ObserverCommit

MCBlockSizes == {1, 2}
=============================================================================
