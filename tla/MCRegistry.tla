----------------------------- MODULE MCRegistry -----------------------------
(* Registry on small sets of buffers, observers and requests. *)
EXTENDS Registry, TLC

CONSTANTS b1, b2, b3

MCNumChannels == [b \in Buffers |-> IF b = b1 THEN 1 ELSE 2]
Symmetry == Permutations(Requests)
=============================================================================
