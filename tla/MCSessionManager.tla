-------------------------- MODULE MCSessionManager --------------------------
(* Instances of SessionManager: one tick is a minute. *)
EXTENDS SessionManager, TLC

CONSTANTS c1, c2
MCCalls == {c1, c2}
MCSymmetry == Permutations(MCCalls)
=============================================================================
