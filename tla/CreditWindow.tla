---------------------------- MODULE CreditWindow ----------------------------
(***************************************************************************)
(* What a SENDME send window promises, with no tags, locks or wake-ups:   *)
(* the sender has at most Max cells in flight that no SENDME has yet       *)
(* acknowledged; each cell sent takes one unit of credit, and each SENDME  *)
(* accepted acknowledges exactly Inc cells, which must have been sent.     *)
(* SendWindow (sendme.rs) implements it with unacked = Max - window.       *)
(***************************************************************************)
EXTENDS Naturals

CONSTANTS
  Max,        \* P::maximum()
  Inc,        \* P::increment()
  InitWindow  \* the credit the window starts with

VARIABLE
  unacked     \* cells sent and not yet acknowledged by a SENDME

(* A window created with InitWindow credit behaves as if Max - InitWindow *)
(* cells were already in flight.                                           *)
Init == unacked = Max - InitWindow

(* take() returns: one more cell may go out, never past Max in flight.     *)
Send ==
  /\ unacked < Max
  /\ unacked' = unacked + 1

(* put() accepts a SENDME: Inc cells in flight are acknowledged.           *)
Ack ==
  /\ unacked >= Inc
  /\ unacked' = unacked - Inc

Next == Send \/ Ack

Spec == Init /\ [][Next]_unacked
=============================================================================
