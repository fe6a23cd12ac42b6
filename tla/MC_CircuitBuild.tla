--------------------------- MODULE MC_CircuitBuild ---------------------------
(* Two relays and paths of up to three hops: enough for one-hop, empty,   *)
(* and multi-hop paths that repeat or reorder relays.                      *)
EXTENDS CircuitBuild

CONSTANTS r1, r2, fb

MCRelays == {r1, r2}
=============================================================================
