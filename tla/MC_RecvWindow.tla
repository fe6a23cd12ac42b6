---------------------------- MODULE MC_RecvWindow ----------------------------
(* The circuit parameters of CircParams, with bulk decrements of up to    *)
(* three cells.                                                            *)
EXTENDS RecvWindow
=============================================================================
