------------------------- MODULE SendWindowProofs -------------------------
(***************************************************************************)
(* Proofs about SendWindow for every value of the constants satisfying    *)
(* ParamsAssumption (which the real parameters (1000, 100) and (500, 50)   *)
(* do): the type invariant, and the credit bound                           *)
(*    window + Inc * Len(tags) <= Max                                      *)
(* which holds against an arbitrary peer and with cancelled take()s.       *)
(***************************************************************************)
EXTENDS SendWindow, TLAPS

(* The linear part of the assumption; the divisibility Max % Inc = 0 is   *)
(* cited only where the arithmetic of tag boundaries needs it.             *)
LEMMA Params ==
  /\ U16Max \in Nat
  /\ Inc \in Nat \ {0}
  /\ Max \in Nat
  /\ Max + Inc <= U16Max
  /\ InitWindow \in 0 .. Max
  /\ Tags # {}
  /\ NoTag \notin Tags
BY ParamsAssumption DEF U16Max

USE Params

(* Each step of the module keeps the variables in their types.             *)
THEOREM TypeCorrect == Spec => []TypeOK
<1>1. Init => TypeOK
  <2> SUFFICES ASSUME Init PROVE TypeOK
    OBVIOUS
  <2>1. window \in Nat /\ window <= U16Max
    BY DEF Init
  <2>2. tags \in Seq(Tags)
    BY DEF Init
  <2>5. unblock \in BOOLEAN /\ pc \in PC
    BY DEF Init, PC
  <2>3. ptag \in Tags
    BY DEF Init
  <2>4. QED
    BY <2>1, <2>2, <2>3, <2>5 DEF TypeOK
<1>2. TypeOK /\ [Next]_vars => TypeOK'
  <2> SUFFICES ASSUME TypeOK, [Next]_vars PROVE TypeOK'
    OBVIOUS
  <2>1. ASSUME NEW t \in Tags, BeginTake(t) PROVE TypeOK'
    BY <2>1 DEF BeginTake, TypeOK, PC
  <2>2. CASE TakeSend
    <3>1. window' \in Nat /\ window' <= U16Max
      BY <2>2 DEF TakeSend, TypeOK
    <3>2. tags' \in Seq(Tags)
      BY <2>2 DEF TakeSend, TypeOK
    <3>3. QED
      BY <2>2, <3>1, <3>2 DEF TakeSend, TypeOK, PC
  <2>3. CASE TakePark
    BY <2>3 DEF TakePark, TypeOK, PC
  <2>4. CASE TakeAssertFail
    BY <2>4 DEF TakeAssertFail, TypeOK, PC
  <2>5. CASE Cancel
    BY <2>5 DEF Cancel, TypeOK, PC
  <2>6. ASSUME NEW t \in Tags \cup {NoTag}, Put(t) PROVE TypeOK'
    <3>1. tags' \in Seq(Tags)
      BY <2>6 DEF Put, PopFront, TypeOK
    <3>2. window' \in Nat /\ window' <= U16Max
      BY <2>6 DEF Put, TypeOK
    <3>3. unblock' \in BOOLEAN /\ pc' \in PC /\ ptag' \in Tags
      BY <2>6 DEF Put, TypeOK, PC
    <3>4. QED
      BY <3>1, <3>2, <3>3 DEF TypeOK
  <2>7. CASE UNCHANGED vars
    BY <2>7 DEF vars, TypeOK
  <2>8. QED
    BY <2>1, <2>2, <2>3, <2>4, <2>5, <2>6, <2>7 DEF Next
<1>3. QED
  BY <1>1, <1>2, PTL DEF Spec

(* The arithmetic behind take(): if w + Inc * n <= Max and the new window *)
(* w - 1 is a multiple of Inc, then recording one more tag keeps the       *)
(* bound, because Max is a multiple of Inc as well.                       *)
LEMMA TagAtBoundary ==
  ASSUME NEW w \in Nat, NEW n \in Nat, w >= 1,
         w + Inc * n <= Max, (w - 1) % Inc = 0
  PROVE  (w - 1) + Inc * (n + 1) <= Max
<1> USE ParamsAssumption
<1> DEFINE k == (w - 1) \div Inc
           m == Max \div Inc
<1>1. w - 1 = k * Inc /\ k \in Nat
  BY SMT
<1>2. Max = m * Inc /\ m \in Nat
  BY SMT
<1>3. (k + n) * Inc < m * Inc
  BY <1>1, <1>2, SMT
<1>4. k + n + 1 <= m
  BY <1>1, <1>2, <1>3, SMT
<1>5. (k + n + 1) * Inc <= m * Inc
  BY <1>1, <1>2, <1>4, SMT
<1>6. QED
  BY <1>1, <1>2, <1>5, SMT

(* The credit bound is inductive relative to the type invariant.          *)
THEOREM CreditBoundInvariant == Spec => []CreditBound
<1>1. Init => CreditBound
  BY DEF Init, CreditBound
<1>2. TypeOK /\ CreditBound /\ [Next]_vars => CreditBound'
  <2> SUFFICES ASSUME TypeOK, CreditBound, [Next]_vars PROVE CreditBound'
    OBVIOUS
  <2>1. ASSUME NEW t \in Tags, BeginTake(t) PROVE CreditBound'
    BY <2>1 DEF BeginTake, CreditBound
  <2>2. CASE TakeSend
    <3>1. CASE (window - 1) % Inc = 0
      <4>1. (window - 1) + Inc * (Len(tags) + 1) <= Max
        <5>1. window \in Nat /\ window >= 1 /\ Len(tags) \in Nat
          BY <2>2 DEF TakeSend, TypeOK
        <5>2. window + Inc * Len(tags) <= Max
          BY DEF CreditBound
        <5>3. QED
          BY <3>1, <5>1, <5>2, TagAtBoundary
      <4>2. QED
        BY <2>2, <3>1, <4>1 DEF TakeSend, TypeOK, CreditBound
    <3>2. CASE (window - 1) % Inc # 0
      BY <2>2, <3>2 DEF TakeSend, TypeOK, CreditBound
    <3>3. QED
      BY <3>1, <3>2
  <2>3. CASE TakePark
    BY <2>3 DEF TakePark, CreditBound
  <2>4. CASE TakeAssertFail
    BY <2>4 DEF TakeAssertFail, CreditBound
  <2>5. CASE Cancel
    BY <2>5 DEF Cancel, CreditBound
  <2>6. ASSUME NEW t \in Tags \cup {NoTag}, Put(t) PROVE CreditBound'
    <3>1. CASE Accepts(t) /\ window + Inc <= U16Max
      <4>1. tags # <<>> /\ tags' = Tail(tags) /\ window' = window + Inc
        BY <2>6, <3>1 DEF Put, Accepts, PopFront
      <4>2. Len(tags') = Len(tags) - 1 /\ Len(tags) >= 1
        BY <4>1 DEF TypeOK
      <4>3. QED
        BY <4>1, <4>2 DEF TypeOK, CreditBound
    <3>2. CASE ~(Accepts(t) /\ window + Inc <= U16Max)
      <4>1. window' = window /\ Len(tags') <= Len(tags)
        BY <2>6, <3>2 DEF Put, PopFront, TypeOK
      <4>2. QED
        BY <4>1 DEF TypeOK, CreditBound
    <3>3. QED
      BY <3>1, <3>2
  <2>7. CASE UNCHANGED vars
    BY <2>7 DEF vars, CreditBound
  <2>8. QED
    BY <2>1, <2>2, <2>3, <2>4, <2>5, <2>6, <2>7 DEF Next
<1>3. QED
  BY <1>1, <1>2, TypeCorrect, PTL DEF Spec

(* No lost wake-up (NoLostWakeup, checked by the sendwindow run): a        *)
(* producer parked in take() always has its one-shot sender in unblock    *)
(* and an empty window.  It is inductive on its own: only take() parks,    *)
(* installing the sender at window 0, and the put() that adds credit also *)
(* fires the sender and readies the producer in the same critical section.*)
THEOREM NoLostWakeupInvariant == Spec => []NoLostWakeup
<1>1. Init => NoLostWakeup
  BY DEF Init, NoLostWakeup
<1>2. NoLostWakeup /\ [Next]_vars => NoLostWakeup'
  <2> SUFFICES ASSUME NoLostWakeup, [Next]_vars PROVE NoLostWakeup'
    OBVIOUS
  <2>1. ASSUME NEW t \in Tags, BeginTake(t) PROVE NoLostWakeup'
    BY <2>1 DEF BeginTake, NoLostWakeup
  <2>2. CASE TakeSend
    BY <2>2 DEF TakeSend, NoLostWakeup
  <2>3. CASE TakePark
    BY <2>3 DEF TakePark, NoLostWakeup
  <2>4. CASE TakeAssertFail
    BY <2>4 DEF TakeAssertFail, NoLostWakeup
  <2>5. CASE Cancel
    BY <2>5 DEF Cancel, NoLostWakeup
  <2>6. ASSUME NEW t \in Tags \cup {NoTag}, Put(t) PROVE NoLostWakeup'
    <3>1. CASE Accepts(t) /\ window + Inc <= U16Max
      <4>1. pc' # "parked"
        BY <2>6, <3>1 DEF Put
      <4>2. QED
        BY <4>1 DEF NoLostWakeup
    <3>2. CASE ~(Accepts(t) /\ window + Inc <= U16Max)
      BY <2>6, <3>2 DEF Put, NoLostWakeup
    <3>3. QED
      BY <3>1, <3>2
  <2>7. CASE UNCHANGED vars
    BY <2>7 DEF vars, NoLostWakeup
  <2>8. QED
    BY <2>1, <2>2, <2>3, <2>4, <2>5, <2>6, <2>7 DEF Next
<1>3. QED
  BY <1>1, <1>2, PTL DEF Spec

(* SendWindow implements CreditWindow (AbstractSpec, checked by the        *)
(* sendwindow run) under unacked = Max - window.  A returning take() is a  *)
(* Send because its window was positive; an accepted put() that adds      *)
(* credit is an Ack because a tag was queued, so by the credit bound at    *)
(* least Inc cells are unacknowledged; every other step keeps the window.  *)
THEOREM Refinement == Spec => AbstractSpec
<1> DEFINE Inv == TypeOK /\ CreditBound
<1>1. Spec => []Inv
  BY TypeCorrect, CreditBoundInvariant, PTL
<1>2. Init => Abs!Init
  BY DEF Init, Abs!Init
<1>3. Inv /\ [Next]_vars => [Abs!Next]_(Max - window)
  <2> SUFFICES ASSUME Inv, [Next]_vars PROVE [Abs!Next]_(Max - window)
    OBVIOUS
  <2>1. window \in Nat /\ Len(tags) \in Nat /\ window + Inc * Len(tags) <= Max
    BY DEF TypeOK, CreditBound
  <2>2. window <= Max
    BY <2>1
  <2>3. ASSUME NEW t \in Tags, BeginTake(t) PROVE window' = window
    BY <2>3 DEF BeginTake
  <2>4. CASE TakeSend
    <3>1. window > 0 /\ window' = window - 1
      BY <2>4 DEF TakeSend
    <3>2. Abs!Send
      BY <2>1, <2>2, <3>1 DEF Abs!Send
    <3>3. QED
      BY <3>2 DEF Abs!Next
  <2>5. CASE TakePark \/ TakeAssertFail \/ Cancel
    BY <2>5 DEF TakePark, TakeAssertFail, Cancel
  <2>6. ASSUME NEW t \in Tags \cup {NoTag}, Put(t) PROVE [Abs!Next]_(Max - window)
    <3>1. CASE Accepts(t) /\ window + Inc <= U16Max
      <4>1. tags # <<>> /\ window' = window + Inc
        BY <2>6, <3>1 DEF Put, Accepts
      <4>2. Len(tags) >= 1
        BY <4>1 DEF TypeOK
      <4>3. Max - window >= Inc
        BY <2>1, <4>2
      <4>4. Abs!Ack
        BY <2>1, <4>1, <4>3 DEF Abs!Ack
      <4>5. QED
        BY <4>4 DEF Abs!Next
    <3>2. CASE ~(Accepts(t) /\ window + Inc <= U16Max)
      BY <2>6, <3>2 DEF Put
    <3>3. QED
      BY <3>1, <3>2
  <2>7. CASE UNCHANGED vars
    BY <2>7 DEF vars
  <2>8. QED
    BY <2>3, <2>4, <2>5, <2>6, <2>7 DEF Next
<1>4. QED
  BY <1>1, <1>2, <1>3, PTL DEF Spec, AbstractSpec, Abs!Spec
=============================================================================
