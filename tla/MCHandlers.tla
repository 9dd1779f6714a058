---------------------------- MODULE MCHandlers ----------------------------
(* Five assertions that may be sent again, for a cache of four; two        *)
(* auth.html tabs; one phone, one document and one popup; one domain, two  *)
(* requests that overlap; two headers at once, a bundled key and one       *)
(* manifest.                                                               *)
EXTENDS BackgroundHandlers

CONSTANTS t1, t2, a1, a2, a3, a4, a5, d1, r1, r2, h1, h2
MCTabs == {t1, t2}
MCTuples == {a1, a2, a3, a4, a5}
MCDomains == {d1}
MCRequests == {r1, r2}
MCHeaders == {h1, h2}
=============================================================================
