-------------------------- MODULE MCContentScripts --------------------------
(* One domain and two requests that overlap.                               *)
EXTENDS ContentScripts

CONSTANTS d1, r1, r2
MCDomains == {d1}
MCRequests == {r1, r2}
=============================================================================
