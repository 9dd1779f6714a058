---------------------------- MODULE MCHeartbeat ----------------------------
(* One tick is a second, and every timeout exceeds the interval. *)
EXTENDS Heartbeat

LongTimeouts == {18}
=============================================================================
