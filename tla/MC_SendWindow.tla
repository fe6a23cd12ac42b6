--------------------------- MODULE MC_SendWindow ---------------------------
(* A circuit send window scaled down: maximum 6, increment 2, so three     *)
(* tags fit in the queue, as ten do for (1000, 100).  Two tag values let   *)
(* a wrong tag be told from the right one.                                  *)
EXTENDS SendWindow

CONSTANTS t1, t2, none

MCTags == {t1, t2}
=============================================================================
