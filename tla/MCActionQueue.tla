--------------------------- MODULE MCActionQueue ---------------------------
(* ActionQueue on a small instance: one client calls twice, so that a signal *)
(* or an action left over from its first call can meet its second one.       *)
EXTENDS ActionQueue

CONSTANTS c1, c2, p1

MCClients == {c1, c2}
MCPausers == {p1}
MCMaxOps  == [t \in MCClients \cup MCPausers |-> IF t = c1 THEN 2 ELSE 1]
=============================================================================
