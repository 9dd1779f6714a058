------------------------------ MODULE MCChannel ------------------------------
(* Four payloads: one larger than the gap between the two marks, and ones  *)
(* that fit several times under them (the code has 64 KiB and 32 KiB); two *)
(* commands and a ping that overlap; and an interval of five ticks, with a *)
(* timeout below it, one just below it and one above it.                   *)
EXTENDS Channel, TLC

CONSTANTS m1, m2, m3, m4, c1, c2, p1

MCMsgs == {m1, m2, m3, m4}
MCSize == (m1 :> 3) @@ (m2 :> 1) @@ (m3 :> 2) @@ (m4 :> 1)
MCCommands == {c1, c2}
MCPings == {p1}
MCTimeouts == {2, 4, 6}
=============================================================================
