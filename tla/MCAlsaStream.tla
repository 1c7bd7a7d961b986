---------------------------- MODULE MCAlsaStream ----------------------------
(* AlsaStream with latencies of a few frames. *)
EXTENDS AlsaStream

MCPeriods == 1..3
=============================================================================
