--------------------------- MODULE MC_Ed25519Batch ---------------------------
(* Two keys and two texts: a signature can be genuine, made by another    *)
(* key, or made for another text; batches of up to three mix them.       *)
EXTENDS Ed25519Batch

CONSTANTS k1, k2, d1, d2

MCKeys == {k1, k2}
MCTexts == {d1, d2}
=============================================================================
