---------------------------- MODULE MCJackPorts ----------------------------
(* Instance of JackPorts for TLC: two physical ports, a port of another       *)
(* program and one of this program, which may play as well.                   *)
EXTENDS JackPorts
=============================================================================
