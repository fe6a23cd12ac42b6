------------------------- MODULE RecvWindowProofs -------------------------
(***************************************************************************)
(* Proofs about RecvWindow for every value of the constants satisfying    *)
(* RecvParamsAssumption: the window stays a u16 and never exceeds         *)
(* P::maximum(), so RecvWindow::put()'s unwrap() cannot panic.             *)
(***************************************************************************)
EXTENDS RecvWindow, TLAPS

(* The linear part of the assumption.                                      *)
LEMMA RecvParams ==
  /\ U16Max \in Nat
  /\ Inc \in Nat \ {0}
  /\ Max \in Nat
  /\ Max + Inc <= U16Max
  /\ InitWindow \in 0 .. Max
  /\ MaxBulk \in Nat \ {0}
BY RecvParamsAssumption DEF U16Max

USE RecvParams

(* The arithmetic behind take() and put(): a window w - 1 below Max that  *)
(* is a multiple of Inc is at most Max - Inc, because Max is a multiple   *)
(* of Inc as well.                                                         *)
LEMMA RefillWithinMax ==
  ASSUME NEW w \in Nat, w >= 1, w <= Max, (w - 1) % Inc = 0
  PROVE  (w - 1) + Inc <= Max
<1> USE RecvParamsAssumption
<1> DEFINE k == (w - 1) \div Inc
           m == Max \div Inc
<1>1. w - 1 = k * Inc /\ k \in Nat
  BY SMT
<1>2. Max = m * Inc /\ m \in Nat
  BY SMT
<1>3. k * Inc < m * Inc
  BY <1>1, <1>2, SMT
<1>4. k + 1 <= m
  BY <1>1, <1>2, <1>3, SMT
<1>5. (k + 1) * Inc <= m * Inc
  BY <1>4, SMT
<1>6. QED
  BY <1>1, <1>2, <1>5, SMT

(* The inductive invariant: the type, and the bound.                       *)
Inv == TypeOK /\ RecvWithinMax

(* The receive window never exceeds P::maximum() (RecvWithinMax, checked   *)
(* by the recvwindow run), whatever cells arrive and however they are      *)
(* counted by take() and decrement_n().                                    *)
THEOREM RecvWithinMaxInvariant == Spec => []RecvWithinMax
<1>1. Init => Inv
  BY DEF Init, Inv, TypeOK, RecvWithinMax
<1>2. Inv /\ [Next]_vars => Inv'
  <2> SUFFICES ASSUME Inv, [Next]_vars PROVE Inv'
    OBVIOUS
  <2>1. window \in Nat /\ window <= Max /\ open \in BOOLEAN
    BY DEF Inv, TypeOK, RecvWithinMax
  <2>2. CASE ReceiveCell
    <3>1. CASE CanTake /\ SendmeDue /\ CanPut(window - 1)
      <4>1. window' = (window - 1) + Inc
        BY <2>2, <3>1 DEF ReceiveCell, Put
      <4>2. (window - 1) + Inc <= Max
        BY <2>1, <3>1, RefillWithinMax DEF CanTake, SendmeDue
      <4>3. open' \in BOOLEAN
        BY <2>2 DEF ReceiveCell
      <4>4. QED
        BY <2>1, <4>1, <4>2, <4>3 DEF Inv, TypeOK, RecvWithinMax
    <3>2. CASE ~(CanTake /\ SendmeDue /\ CanPut(window - 1))
      <4>1. window' = IF CanTake THEN window - 1 ELSE window
        BY <2>2, <3>2 DEF ReceiveCell
      <4>2. window' \in Nat /\ window' <= window
        BY <2>1, <4>1 DEF CanTake
      <4>3. open' \in BOOLEAN
        BY <2>2 DEF ReceiveCell
      <4>4. QED
        BY <2>1, <4>2, <4>3 DEF Inv, TypeOK, RecvWithinMax
    <3>3. QED
      BY <3>1, <3>2
  <2>3. ASSUME NEW n \in 1 .. MaxBulk, DecrementN(n) PROVE Inv'
    <3>1. window' \in Nat /\ window' <= window /\ open' \in BOOLEAN
      BY <2>1, <2>3 DEF DecrementN
    <3>2. QED
      BY <2>1, <3>1 DEF Inv, TypeOK, RecvWithinMax
  <2>4. CASE UNCHANGED vars
    BY <2>4 DEF vars, Inv, TypeOK, RecvWithinMax
  <2>5. QED
    BY <2>2, <2>3, <2>4 DEF Next
<1>3. Inv => RecvWithinMax
  BY DEF Inv
<1>4. QED
  BY <1>1, <1>2, <1>3, PTL DEF Spec
=============================================================================
