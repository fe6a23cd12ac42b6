-------------------------- MODULE MC_FlowControl --------------------------
(* Circuit parameters scaled down to maximum 6, increment 2 (three         *)
(* SENDMEs per full window, as ten for (1000, 100)), two tag values.       *)
EXTENDS FlowControl

CONSTANTS t1, t2, none

MCTags == {t1, t2}
=============================================================================
