------------------------------ MODULE MCPairing -----------------------------
(* Two phones and room for one device, two calls of the popup at a time.   *)
EXTENDS Pairing, TLC

CONSTANTS k1, k2, c1, c2
MCKeys == {k1, k2}
MCCalls == {c1, c2}
MCSymmetry == Permutations(MCKeys) \cup Permutations(MCCalls)
=============================================================================
