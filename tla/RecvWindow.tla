----------------------------- MODULE RecvWindow -----------------------------
(***************************************************************************)
(* The receiving half of SENDME flow control: RecvWindow<P> in            *)
(* src/tor-proto/src/circuit/sendme.rs.  A single u16 counter owned by the *)
(* receiving task, so no operation interleaves with another.               *)
(*                                                                         *)
(* The standalone specification puts the window behind its caller, the     *)
(* cell dispatcher (not under src/, modelled from spec.md 4.3.2): for each *)
(* data cell it calls take(); a None tears the circuit down; a Some(true)  *)
(* makes it send a SENDME and then call put().  Cells may also be counted  *)
(* in bulk with decrement_n().  The peer sends any number of cells.        *)
(***************************************************************************)
EXTENDS Naturals

CONSTANTS
  Max,        \* P::maximum()
  Inc,        \* P::increment()
  InitWindow, \* the window passed to RecvWindow::new()
  MaxBulk     \* largest n given to decrement_n() in the runs

U16Max == 65535

ASSUME RecvParamsAssumption ==
  /\ Inc \in Nat \ {0}
  /\ Max \in Nat
  /\ Max % Inc = 0
  /\ Max + Inc <= U16Max
  /\ InitWindow \in 0 .. Max
  /\ MaxBulk \in Nat \ {0}

VARIABLES
  window,  \* RecvWindow.window
  open     \* the circuit has not been torn down by a window violation

vars == <<window, open>>

TypeOK == window \in Nat /\ window <= U16Max /\ open \in BOOLEAN

Init == window = InitWindow /\ open = TRUE

(* take(): window.checked_sub(1) is Some.                                  *)
CanTake == window > 0

(* Variant of SendmeDue testing the window before the decrement.          *)
SendmeDueEarly == window % Inc = 0

(* The value of take() when it succeeds: the new window is a multiple of  *)
(* the increment, so a SENDME is due.                                      *)
SendmeDue == (window - 1) % Inc = 0

(* put(): window.checked_add(increment).unwrap(); a None would panic.      *)
CanPut(w) == w + Inc <= U16Max

(* put() on the window value w.                                            *)
Put(w) == w + Inc

-----------------------------------------------------------------------------
(* The dispatcher receives one data cell: take(); on Some(true) send a     *)
(* SENDME and put(); on None close the circuit.  A panic of put()'s unwrap *)
(* ends the task and with it the circuit.                                  *)
ReceiveCell ==
  /\ open
  /\ IF CanTake /\ SendmeDue /\ CanPut(window - 1)
       THEN window' = Put(window - 1)
       ELSE window' = IF CanTake THEN window - 1 ELSE window
  /\ open' = (CanTake /\ (SendmeDue => CanPut(window - 1)))

(* decrement_n(n): checked_sub(n); an Err closes the circuit.              *)
DecrementN(n) ==
  /\ open
  /\ window' = IF window >= n THEN window - n ELSE window
  /\ open' = (window >= n)

Next ==
  \/ ReceiveCell
  \/ \E n \in 1 .. MaxBulk : DecrementN(n)

Spec == Init /\ [][Next]_vars

-----------------------------------------------------------------------------
(* The receive window never exceeds P::maximum(), whatever cells arrive   *)
(* and however they are counted: put() is only called when take() found   *)
(* the new window a multiple of the increment, so the checked_add in      *)
(* put() never overflows and its unwrap() never panics.                    *)
RecvWithinMax == window <= Max
=============================================================================
