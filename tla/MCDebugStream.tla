--------------------------- MODULE MCDebugStream ---------------------------
(* Instance of DebugStream for TLC: two buffers, indices of three bits.       *)
EXTENDS DebugStream
=============================================================================
