-------------------------- MODULE MCCommandClient --------------------------
(* Two commands and a heartbeat ping. *)
EXTENDS CommandClient

CONSTANTS c1, c2, p1
MCCommands == {c1, c2}
MCPings == {p1}
=============================================================================
