------------------------ MODULE FlowControlProofs ------------------------
(***************************************************************************)
(* Proofs about FlowControl for every value of the constants satisfying    *)
(* ParamsAssumption: between a correct sender and a correct peer no        *)
(* protocol error ever closes the circuit, the credit is conserved, and   *)
(* the sender's queue of recorded tags agrees with the SENDMEs and the     *)
(* boundary cells in flight.                                               *)
(***************************************************************************)
EXTENDS FlowControl, FiniteSetTheorems, TLAPS

(* The number of multiples of the increment in 0 .. x - 1, for x \in Nat: *)
(* the SENDME boundaries a window passes on its way down from x to 0.      *)
MultiplesBelow(x) == (x + Inc - 1) \div Inc

(* The linear part of the assumption; the divisibility is cited only     *)
(* where the arithmetic of boundaries needs it.                           *)
LEMMA FlowParams ==
  /\ SW!U16Max \in Nat
  /\ Inc \in Nat \ {0}
  /\ Max \in Nat
  /\ Max + Inc <= SW!U16Max
  /\ InitWindow \in 0 .. Max
  /\ NoTag \notin Tags
BY FlowParamsAssumption DEF SW!U16Max

USE FlowParams

(* The boundary count is a natural number.                                 *)
LEMMA MultiplesNat ==
  ASSUME NEW x \in Nat
  PROVE  MultiplesBelow(x) \in Nat
BY SMT DEF MultiplesBelow

(* One step down from x + 1 to x passes a boundary iff x is a multiple.    *)
LEMMA MultiplesStep ==
  ASSUME NEW x \in Nat
  PROVE  MultiplesBelow(x + 1)
           = MultiplesBelow(x) + (IF x % Inc = 0 THEN 1 ELSE 0)
<1> DEFINE q == x \div Inc
           r == x % Inc
<1>1. x = q * Inc + r /\ q \in Nat /\ r \in 0 .. Inc - 1
  BY SMT
<1>2. CASE r = 0
  <2>1. MultiplesBelow(x + 1) = q + 1
    BY <1>1, <1>2, SMT DEF MultiplesBelow
  <2>2. MultiplesBelow(x) = q
    BY <1>1, <1>2, SMT DEF MultiplesBelow
  <2>3. QED
    BY <1>2, <2>1, <2>2
<1>3. CASE r # 0
  <2>1. MultiplesBelow(x + 1) = q + 1
    BY <1>1, <1>3, SMT DEF MultiplesBelow
  <2>2. MultiplesBelow(x) = q + 1
    BY <1>1, <1>3, SMT DEF MultiplesBelow
  <2>3. QED
    BY <1>3, <2>1, <2>2
<1>4. QED
  BY <1>2, <1>3

(* A whole increment of window holds exactly one boundary.                 *)
LEMMA MultiplesShift ==
  ASSUME NEW x \in Nat
  PROVE  MultiplesBelow(x + Inc) = MultiplesBelow(x) + 1
BY SMT DEF MultiplesBelow

(* The count only grows with the window.                                   *)
LEMMA MultiplesMono ==
  ASSUME NEW x \in Nat, NEW y \in Nat, x <= y
  PROVE  MultiplesBelow(x) <= MultiplesBelow(y)
BY SMT DEF MultiplesBelow

(* The number of multiples of Inc among r - i .. r - 1.                   *)
Count(r, i) == MultiplesBelow(r) - MultiplesBelow(r - i)

(* The number of boundary cells among the first i cells in flight, in     *)
(* closed form: the peer's window passes rwindow - 1, ..., rwindow - i.    *)
BoundaryCount(i) == Count(rwindow, i)

(* The peer's window never exceeds P::maximum().                          *)
RecvBound == rwindow <= Max

(* Tag agreement with the boundaries counted in closed form.               *)
TagCount == Len(tags) = Len(back) + BoundaryCount(Len(fwd))

BackTags == \A i \in 1 .. Len(back) : back[i] \in {tags[i], NoTag}

FwdTags ==
  \A i \in 1 .. Len(fwd) :
    Boundary(i) => fwd[i] = tags[Len(back) + BoundaryCount(i)]

(* The inductive invariant.  NoProtocolError alone is not inductive: a     *)
(* SENDME is accepted only if a tag is queued, matches it and the window   *)
(* has room, and the peer can take a cell only if its window is positive. *)
(* So it carries the credit conservation, the sender's credit bound, the  *)
(* peer's bound, and tag agreement with the boundaries counted in closed  *)
(* form.                                                                   *)
IInv ==
  /\ TypeOK
  /\ NoProtocolError
  /\ CreditConserved
  /\ SW!CreditBound
  /\ RecvBound
  /\ TagCount
  /\ BackTags
  /\ FwdTags

(* The closed form counts the boundaries TagsAgree counts.                 *)
CountsAgree == \A i \in 0 .. Len(fwd) : BoundaryCount(i) = BoundariesUpTo(i)

-----------------------------------------------------------------------------
(* The facts about the boundary count the steps need: for i <= n <= r,     *)
(* the count of the first i cells is a natural number, at most that of    *)
(* the first n, and at least one when the i-th cell is a boundary.        *)
LEMMA CountFacts ==
  ASSUME NEW r \in Nat, NEW n \in Nat, NEW i \in Nat, i <= n, n <= r
  PROVE  /\ Count(r, i) \in Nat
         /\ Count(r, i) <= Count(r, n)
         /\ (i >= 1 /\ (r - i) % Inc = 0) => Count(r, i) >= 1
<1>1. MultiplesBelow(r - i) <= MultiplesBelow(r)
  BY MultiplesMono
<1>2. MultiplesBelow(r - n) <= MultiplesBelow(r - i)
  BY MultiplesMono
<1>3. ASSUME i >= 1, (r - i) % Inc = 0
      PROVE  MultiplesBelow(r) - MultiplesBelow(r - i) >= 1
  <2>1. MultiplesBelow(r - i + 1) = MultiplesBelow(r - i) + 1
    BY <1>3, MultiplesStep
  <2>2. MultiplesBelow(r - i + 1) <= MultiplesBelow(r)
    BY <1>3, MultiplesMono
  <2>3. QED
    BY <2>1, <2>2, MultiplesNat
<1>4. QED
  BY <1>1, <1>2, <1>3, MultiplesNat DEF Count

(* The count of a prefix no longer than the window is a natural number.  *)
LEMMA CountNat ==
  ASSUME NEW r \in Nat, NEW i \in Nat, i <= r
  PROVE  Count(r, i) \in Nat
BY CountFacts

(* Counting one cell more adds one iff that cell is a boundary.            *)
LEMMA CountStep ==
  ASSUME NEW r \in Nat, NEW n \in Nat, n + 1 <= r
  PROVE  Count(r, n + 1)
           = Count(r, n) + (IF (r - (n + 1)) % Inc = 0 THEN 1 ELSE 0)
<1> DEFINE x == r - (n + 1)
<1>1. x \in Nat /\ x + 1 = r - n
  BY SMT
<1>2. MultiplesBelow(x + 1)
        = MultiplesBelow(x) + (IF x % Inc = 0 THEN 1 ELSE 0)
  BY <1>1, MultiplesStep
<1>3. MultiplesBelow(r - n)
        = MultiplesBelow(x) + (IF x % Inc = 0 THEN 1 ELSE 0)
  BY <1>1, <1>2
<1> HIDE DEF x
<1>4. QED
  BY <1>1, <1>3, MultiplesNat DEF Count

(* After the peer takes the oldest cell, the count of the next i cells     *)
(* from the lowered window is the old count of i + 1 cells, less one if    *)
(* the cell taken was a boundary.                                          *)
LEMMA CountDown ==
  ASSUME NEW r \in Nat, NEW i \in Nat, i + 1 <= r
  PROVE  Count(r, i + 1)
           = Count(r - 1, i) + (IF (r - 1) % Inc = 0 THEN 1 ELSE 0)
<1>1. r - 1 \in Nat /\ (r - 1) + 1 = r /\ r - (i + 1) = (r - 1) - i
  BY SMT
<1>2. MultiplesBelow(r)
        = MultiplesBelow(r - 1) + (IF (r - 1) % Inc = 0 THEN 1 ELSE 0)
  BY <1>1, MultiplesStep
<1>3. QED
  BY <1>1, <1>2, MultiplesNat DEF Count

(* Refilling the window by a whole increment does not move the count.     *)
LEMMA CountRefill ==
  ASSUME NEW r \in Nat, NEW i \in Nat, i <= r
  PROVE  Count(r + Inc, i) = Count(r, i)
<1>1. r - i \in Nat /\ (r + Inc) - i = (r - i) + Inc
  BY SMT
<1>2. MultiplesBelow(r + Inc) = MultiplesBelow(r) + 1
  BY MultiplesShift
<1>3. MultiplesBelow((r - i) + Inc) = MultiplesBelow(r - i) + 1
  BY <1>1, MultiplesShift
<1>4. QED
  BY <1>1, <1>2, <1>3, MultiplesNat DEF Count

(* An index past a prefix of length b, by at least one and at most c, is *)
(* within a sequence of length b + c.                                      *)
LEMMA IndexInRange ==
  ASSUME NEW b \in Nat, NEW c \in Nat, NEW x \in Nat, NEW m,
         m = b + c, x >= 1, x <= c
  PROVE  b + x \in 1 .. m
BY SMT

(* Residues modulo the increment ignore whole increments.                  *)
LEMMA ModShift ==
  ASSUME NEW a \in Nat, NEW k \in Nat
  PROVE  (a + Inc * k) % Inc = a % Inc
<1> DEFINE q == a \div Inc
           r == a % Inc
<1>1. a = q * Inc + r /\ q \in Nat /\ r \in 0 .. Inc - 1
  BY SMT
<1>2. a + Inc * k = (q + k) * Inc + r /\ q + k \in Nat
  BY <1>1, SMT
<1>3. ((q + k) * Inc + r) % Inc = r
  <2> DEFINE m == q + k
  <2>1. m \in Nat /\ r \in 0 .. Inc - 1
    BY <1>1, <1>2
  <2> HIDE DEF m
  <2>2. (m * Inc + r) % Inc = r
    BY <2>1, SMT
  <2>3. QED
    BY <2>2 DEF m
<1>4. QED
  BY <1>2, <1>3

(* A whole increment added leaves the residue as it was.                   *)
LEMMA ModInc ==
  ASSUME NEW a \in Nat
  PROVE  (a + Inc) % Inc = a % Inc
<1>1. (a + Inc * 1) % Inc = a % Inc
  BY ModShift
<1>2. a + Inc * 1 = a + Inc
  BY SMT
<1>3. QED
  BY <1>1, <1>2

(* The arithmetic behind take() recording a tag: if w + Inc * m <= Max and *)
(* the new window w - 1 is a multiple of Inc, recording one more tag keeps *)
(* the bound, because Max is a multiple of Inc as well.                   *)
LEMMA CreditAtBoundary ==
  ASSUME NEW w \in Nat, NEW m \in Nat, w >= 1,
         w + Inc * m <= Max, (w - 1) % Inc = 0
  PROVE  (w - 1) + Inc * (m + 1) <= Max
<1> USE FlowParamsAssumption
<1> DEFINE k == (w - 1) \div Inc
           c == Max \div Inc
<1>1. w - 1 = k * Inc /\ k \in Nat
  BY SMT
<1>2. Max = c * Inc /\ c \in Nat
  BY SMT
<1>3. (k + m) * Inc < c * Inc
  BY <1>1, <1>2, SMT
<1>4. k + m + 1 <= c
  BY <1>1, <1>2, <1>3, SMT
<1>5. (k + m + 1) * Inc <= c * Inc
  BY <1>1, <1>2, <1>4, SMT
<1>6. QED
  BY <1>1, <1>2, <1>5, SMT

-----------------------------------------------------------------------------
(* The initial state: nothing in flight, no tag recorded, both windows at  *)
(* InitWindow.                                                             *)
LEMMA InitIInv == Init => IInv
<1> SUFFICES ASSUME Init PROVE IInv
  OBVIOUS
<1>1. TypeOK
  <2>1. SW!TypeOK
    <3>1. window \in Nat /\ window <= SW!U16Max
      BY DEF Init, SW!Init
    <3>2. tags \in Seq(Tags) /\ ptag \in Tags
      BY DEF Init, SW!Init
    <3>3. unblock \in BOOLEAN /\ pc \in SW!PC
      BY DEF Init, SW!Init, SW!PC
    <3>4. QED
      BY <3>1, <3>2, <3>3 DEF SW!TypeOK
  <2>2. fwd \in Seq(Tags) /\ back \in Seq(Tags \cup {NoTag})
    BY DEF Init
  <2>3. rwindow \in Nat /\ rwindow <= SW!U16Max
    BY DEF Init
  <2>4. proto \in {"ok", "recv_underflow", "bad_sendme"}
    BY DEF Init
  <2>5. QED
    BY <2>1, <2>2, <2>3, <2>4 DEF TypeOK
<1>2. NoProtocolError /\ CreditConserved /\ SW!CreditBound /\ RecvBound
  BY DEF Init, SW!Init, NoProtocolError, CreditConserved, SW!CreditBound,
         RecvBound
<1>3. TagCount
  <2>1. Count(rwindow, 0) = 0
    BY MultiplesNat DEF Init, Count
  <2>2. Len(tags) = 0 /\ Len(back) = 0 /\ Len(fwd) = 0
    BY DEF Init, SW!Init
  <2>3. QED
    BY <2>1, <2>2 DEF TagCount, BoundaryCount
<1>4. BackTags /\ FwdTags
  BY DEF Init, SW!Init, BackTags, FwdTags
<1>5. QED
  BY <1>1, <1>2, <1>3, <1>4 DEF IInv

(* The steps of the sender's task that do not send leave the invariant    *)
(* alone: they touch only the task's phase, its tag and unblock.           *)
LEMMA QuietStepIInv ==
  ASSUME IInv,
         UNCHANGED <<window, tags, fwd, back, rwindow, proto>>,
         pc' \in SW!PC, ptag' \in Tags, unblock' \in BOOLEAN
  PROVE  IInv'
<1>1. TypeOK'
  BY DEF IInv, TypeOK, SW!TypeOK
<1>2. (NoProtocolError /\ CreditConserved /\ SW!CreditBound /\ RecvBound)'
  BY DEF IInv, NoProtocolError, CreditConserved, SW!CreditBound, RecvBound
<1>3. (TagCount /\ BackTags /\ FwdTags)'
  BY DEF IInv, TagCount, BackTags, FwdTags, BoundaryCount, Boundary
<1>4. QED
  BY <1>1, <1>2, <1>3 DEF IInv

LEMMA NextIInv == IInv /\ [Next]_vars => IInv'
<1> SUFFICES ASSUME IInv, [Next]_vars PROVE IInv'
  OBVIOUS
<1>1. /\ window \in Nat /\ rwindow \in Nat
      /\ Len(fwd) \in Nat /\ Len(back) \in Nat /\ Len(tags) \in Nat
      /\ rwindow = window + Len(fwd) + Inc * Len(back)
      /\ window + Inc * Len(tags) <= Max
      /\ rwindow <= Max
      /\ proto = "ok"
      /\ Inc * Len(back) \in Nat /\ Inc * Len(tags) \in Nat
      /\ Len(fwd) <= rwindow
  <2>1. /\ window \in Nat /\ rwindow \in Nat
        /\ Len(fwd) \in Nat /\ Len(back) \in Nat /\ Len(tags) \in Nat
        /\ rwindow = window + Len(fwd) + Inc * Len(back)
        /\ window + Inc * Len(tags) <= Max
        /\ rwindow <= Max
        /\ proto = "ok"
    BY DEF IInv, TypeOK, SW!TypeOK, CreditConserved, SW!CreditBound,
           RecvBound, NoProtocolError
  <2>2. Inc * Len(back) \in Nat /\ Inc * Len(tags) \in Nat
    BY <2>1, SMT
  <2>3. Len(fwd) <= rwindow
    BY <2>1, <2>2, SMT
  <2>4. QED
    BY <2>1, <2>2, <2>3
<1>5. /\ window \in Nat /\ rwindow \in Nat
      /\ Len(fwd) \in Nat /\ Len(back) \in Nat /\ Len(tags) \in Nat
      /\ Len(fwd) <= rwindow
  BY <1>1
(* The count facts at the current state, for every prefix of the cells in *)
(* flight.                                                                 *)
<1>0. \A i \in 0 .. Len(fwd) :
        /\ BoundaryCount(i) \in Nat
        /\ BoundaryCount(i) <= BoundaryCount(Len(fwd))
        /\ (i >= 1 /\ Boundary(i)) => BoundaryCount(i) >= 1
  <2> TAKE i \in 0 .. Len(fwd)
  <2>1. i \in Nat /\ i <= Len(fwd)
    BY <1>1, SMT
  <2>2. QED
    BY <1>1, <2>1, CountFacts, Zenon DEF BoundaryCount, Boundary
<1>2. ASSUME NEW t \in Tags, BeginSend(t) PROVE IInv'
  <2>1. UNCHANGED <<window, tags, unblock, fwd, back, rwindow, proto>>
    BY <1>2 DEF BeginSend, SW!BeginTake, peerVars
  <2>2. pc' \in SW!PC /\ ptag' \in Tags
    BY <1>2 DEF BeginSend, SW!BeginTake, SW!PC
  <2>3. unblock' \in BOOLEAN
    BY <2>1 DEF IInv, TypeOK, SW!TypeOK
  <2>4. QED
    BY <2>1, <2>2, <2>3, QuietStepIInv
<1>3. CASE Park
  <2>1. UNCHANGED <<window, tags, fwd, back, rwindow, proto>>
        /\ pc' \in SW!PC /\ ptag' \in Tags /\ unblock' \in BOOLEAN
    BY <1>3 DEF Park, SW!TakePark, peerVars, SW!PC, IInv, TypeOK, SW!TypeOK
  <2>2. QED
    BY <2>1, QuietStepIInv
<1>4. CASE SendCell
  <2>1. /\ window > 0 /\ window' = window - 1
        /\ tags' = IF (window - 1) % Inc = 0 THEN Append(tags, ptag) ELSE tags
        /\ fwd' = Append(fwd, ptag)
        /\ UNCHANGED <<back, rwindow, proto, ptag, unblock>>
        /\ pc' = "idle"
    BY <1>4 DEF SendCell, SW!TakeSend
  <2>2. /\ ptag \in Tags /\ tags \in Seq(Tags) /\ fwd \in Seq(Tags)
        /\ back \in Seq(Tags \cup {NoTag})
    BY DEF IInv, TypeOK, SW!TypeOK
  <2>3. /\ Len(fwd') = Len(fwd) + 1 /\ fwd'[Len(fwd) + 1] = ptag
        /\ \A i \in 1 .. Len(fwd) : fwd'[i] = fwd[i]
    BY <2>1, <2>2
  <2>4. window - 1 \in Nat /\ window >= 1 /\ Len(fwd) + 1 <= rwindow
        /\ rwindow - (Len(fwd) + 1) = (window - 1) + Inc * Len(back)
    <3>1. window > 0
      BY <2>1
    <3>2. QED
      BY <1>1, <3>1, SMT
  <2>5. (rwindow - (Len(fwd) + 1)) % Inc = (window - 1) % Inc
    <3>1. ((window - 1) + Inc * Len(back)) % Inc = (window - 1) % Inc
      BY <1>1, <2>4, ModShift, Zenon
    <3>2. QED
      BY <2>4, <3>1, Zenon
  <2>6. BoundaryCount(Len(fwd) + 1)
          = BoundaryCount(Len(fwd))
            + (IF (window - 1) % Inc = 0 THEN 1 ELSE 0)
    <3>1. Count(rwindow, Len(fwd) + 1)
            = Count(rwindow, Len(fwd))
              + (IF (rwindow - (Len(fwd) + 1)) % Inc = 0 THEN 1 ELSE 0)
      BY <1>1, <2>4, CountStep
    <3>2. QED
      BY <2>5, <3>1, Zenon DEF BoundaryCount
  <2>7. TypeOK'
    <3>1. window' \in Nat /\ window' <= SW!U16Max
      BY <1>1, <2>1 DEF IInv, TypeOK, SW!TypeOK
    <3>2. tags' \in Seq(Tags) /\ fwd' \in Seq(Tags)
      BY <2>1, <2>2
    <3>3. pc' \in SW!PC
      BY <2>1 DEF SW!PC
    <3>4. QED
      BY <2>1, <3>1, <3>2, <3>3 DEF IInv, TypeOK, SW!TypeOK
  <2>8. (NoProtocolError /\ CreditConserved /\ RecvBound)'
    BY <1>1, <2>1, <2>3 DEF NoProtocolError, CreditConserved, RecvBound
  <2>9. CASE (window - 1) % Inc = 0
    <3>1. tags' = Append(tags, ptag) /\ Len(tags') = Len(tags) + 1
      BY <2>1, <2>2, <2>9
    <3>2. BoundaryCount(Len(fwd) + 1) = BoundaryCount(Len(fwd)) + 1
      BY <2>6, <2>9
    <3>3. SW!CreditBound'
      <4>1. (window - 1) + Inc * (Len(tags) + 1) <= Max
        BY <1>1, <2>4, <2>9, CreditAtBoundary, Zenon
      <4>2. QED
        BY <2>1, <3>1, <4>1 DEF SW!CreditBound
    <3>4. TagCount'
      <4>1. Count(rwindow', Len(fwd')) = BoundaryCount(Len(fwd) + 1)
        BY <2>1, <2>3 DEF BoundaryCount
      <4>2. Len(tags) = Len(back) + BoundaryCount(Len(fwd))
        BY DEF IInv, TagCount
      <4>3. BoundaryCount(Len(fwd)) \in Nat
        BY <1>0, <1>1
      <4>4. Len(tags') = Len(back') + BoundaryCount(Len(fwd) + 1)
        BY <1>1, <2>1, <3>1, <3>2, <4>2, <4>3
      <4>5. QED
        BY <4>1, <4>4 DEF TagCount, BoundaryCount
    <3>5. BackTags'
      <4> SUFFICES ASSUME NEW i \in 1 .. Len(back')
                   PROVE  back'[i] \in {tags'[i], NoTag}
        BY DEF BackTags
      <4>1. i \in 1 .. Len(tags)
        <5>1. Len(tags) = Len(back) + BoundaryCount(Len(fwd))
          BY DEF IInv, TagCount
        <5>2. BoundaryCount(Len(fwd)) \in Nat
          BY <1>0, <1>1
        <5>3. QED
          BY <1>1, <2>1, <5>1, <5>2
      <4>2. tags'[i] = tags[i]
        BY <2>2, <3>1, <4>1
      <4>3. back[i] \in {tags[i], NoTag}
        BY <2>1, <4>1 DEF IInv, BackTags
      <4>4. QED
        BY <2>1, <4>2, <4>3, Zenon
    <3>6. FwdTags'
      <4> SUFFICES ASSUME NEW i \in 1 .. Len(fwd'), Boundary(i)'
                   PROVE  fwd'[i] = tags'[Len(back') + BoundaryCount(i)']
        BY DEF FwdTags
      <4>0. /\ i \in 1 .. Len(fwd) + 1 /\ Len(back') = Len(back)
            /\ BoundaryCount(i)' = BoundaryCount(i)
        BY <2>1, <2>3 DEF BoundaryCount
      <4>1. CASE i <= Len(fwd)
        <5>1. Boundary(i)
          BY <2>1 DEF Boundary
        <5>2. fwd[i] = tags[Len(back) + BoundaryCount(i)]
          BY <4>0, <4>1, <5>1 DEF IInv, FwdTags
        <5>3. Len(back) + BoundaryCount(i) \in 1 .. Len(tags)
          <6>1. i \in 0 .. Len(fwd) /\ i >= 1
            BY <1>1, <4>0, <4>1
          <6>2. /\ BoundaryCount(i) \in Nat
                /\ BoundaryCount(i) <= BoundaryCount(Len(fwd))
                /\ BoundaryCount(i) >= 1
            BY <1>0, <5>1, <6>1
          <6>3. Len(tags) = Len(back) + BoundaryCount(Len(fwd))
            BY DEF IInv, TagCount
          <6>4. BoundaryCount(Len(fwd)) \in Nat
            BY <1>0, <1>1
          <6>5. QED
            BY <1>5, <6>2, <6>3, <6>4, IndexInRange, Zenon
        <5>4. QED
          BY <2>2, <2>3, <3>1, <4>0, <4>1, <5>2, <5>3
      <4>2. CASE i = Len(fwd) + 1
        <5>1. Len(back) + BoundaryCount(i) = Len(tags) + 1
          <6>1. Len(tags) = Len(back) + BoundaryCount(Len(fwd))
            BY DEF IInv, TagCount
          <6>2. BoundaryCount(Len(fwd)) \in Nat
            BY <1>0, <1>1
          <6>3. QED
            BY <1>1, <3>2, <4>2, <6>1, <6>2
        <5>2. QED
          BY <2>2, <2>3, <3>1, <4>0, <4>2, <5>1
      <4>3. QED
        BY <4>0, <4>1, <4>2
    <3>7. QED
      BY <2>7, <2>8, <3>3, <3>4, <3>5, <3>6 DEF IInv
  <2>10. CASE (window - 1) % Inc # 0
    <3>1. tags' = tags
      BY <2>1, <2>10
    <3>2. BoundaryCount(Len(fwd) + 1) = BoundaryCount(Len(fwd))
      <4>1. (IF (window - 1) % Inc = 0 THEN 1 ELSE 0) = 0
        BY <2>10
      <4>2. BoundaryCount(Len(fwd)) \in Nat
        BY <1>0, <1>1
      <4>3. QED
        BY <2>6, <4>1, <4>2
    <3>3. SW!CreditBound'
      BY <1>1, <2>1, <3>1 DEF SW!CreditBound
    <3>4. TagCount'
      BY <2>1, <2>3, <3>1, <3>2 DEF IInv, TagCount, BoundaryCount
    <3>5. BackTags'
      BY <2>1, <3>1 DEF IInv, BackTags
    <3>6. FwdTags'
      <4> SUFFICES ASSUME NEW i \in 1 .. Len(fwd'), Boundary(i)'
                   PROVE  fwd'[i] = tags'[Len(back') + BoundaryCount(i)']
        BY DEF FwdTags
      <4>0. /\ i \in 1 .. Len(fwd) + 1 /\ Len(back') = Len(back)
            /\ BoundaryCount(i)' = BoundaryCount(i)
        BY <2>1, <2>3 DEF BoundaryCount
      <4>1. i # Len(fwd) + 1
        BY <2>1, <2>5, <2>10 DEF Boundary
      <4>2. i \in 1 .. Len(fwd) /\ Boundary(i)
        BY <1>1, <2>1, <4>0, <4>1 DEF Boundary
      <4>3. QED
        BY <2>3, <3>1, <4>0, <4>2 DEF IInv, FwdTags
    <3>7. QED
      BY <2>7, <2>8, <3>3, <3>4, <3>5, <3>6 DEF IInv
  <2>11. QED
    BY <2>9, <2>10
<1>6. CASE PeerReceive
  <2>1. /\ fwd # <<>> /\ fwd' = Tail(fwd)
        /\ UNCHANGED <<window, tags, unblock, pc, ptag>>
    BY <1>6 DEF PeerReceive
  <2>2. /\ fwd \in Seq(Tags) /\ back \in Seq(Tags \cup {NoTag})
        /\ tags \in Seq(Tags)
    BY DEF IInv, TypeOK, SW!TypeOK
  <2>3. /\ Len(fwd) >= 1 /\ Len(fwd') = Len(fwd) - 1 /\ fwd' \in Seq(Tags)
        /\ \A i \in 1 .. Len(fwd) - 1 : fwd'[i] = fwd[i + 1]
    BY <2>1, <2>2
  <2>4. /\ rwindow >= 1 /\ rwindow - 1 \in Nat /\ Len(fwd) - 1 \in Nat
        /\ Len(fwd) - 1 <= rwindow - 1 /\ rwindow > 0
    <3>1. Len(fwd) >= 1
      BY <2>3
    <3>2. QED
      BY <1>5, <3>1
  <2>5. RW!CanTake
    BY <2>4 DEF RW!CanTake
  (* The cell taken is the i + 1-th of the old queue: its boundary test    *)
  (* reads the same window value.                                          *)
  <2>6. \A i \in 0 .. Len(fwd) - 1 :
          /\ i \in Nat /\ i + 1 <= rwindow /\ i <= rwindow - 1
          /\ rwindow - (i + 1) = (rwindow - 1) - i
          /\ (rwindow - 1) - i \in Nat
    BY <1>5, <2>3, <2>4
  <2>7. CASE ~RW!SendmeDue
    <3>1. rwindow' = rwindow - 1 /\ UNCHANGED <<back, proto>>
      BY <1>6, <2>5, <2>7 DEF PeerReceive
    <3>2. (IF (rwindow - 1) % Inc = 0 THEN 1 ELSE 0) = 0
      BY <2>7 DEF RW!SendmeDue
    <3>3. \A i \in 0 .. Len(fwd) - 1 :
            Count(rwindow - 1, i) = Count(rwindow, i + 1)
      <4> TAKE i \in 0 .. Len(fwd) - 1
      <4>0. i \in Nat /\ i + 1 <= rwindow /\ i <= rwindow - 1
        BY <1>5, <2>4
      <4>1. Count(rwindow, i + 1)
              = Count(rwindow - 1, i) + (IF (rwindow - 1) % Inc = 0 THEN 1 ELSE 0)
        BY <1>5, <4>0, CountDown
      <4>2. Count(rwindow - 1, i) \in Nat
        BY <2>4, <4>0, CountNat
      <4>3. QED
        BY <3>2, <4>1, <4>2
    <3>4. TypeOK'
      <4>1. rwindow' \in Nat /\ rwindow' <= SW!U16Max
        BY <1>1, <2>4, <3>1
      <4>2. QED
        BY <2>1, <2>3, <3>1, <4>1 DEF IInv, TypeOK, SW!TypeOK
    <3>5. (NoProtocolError /\ CreditConserved /\ SW!CreditBound /\ RecvBound)'
      BY <1>1, <2>1, <2>3, <3>1
         DEF NoProtocolError, CreditConserved, SW!CreditBound, RecvBound
    <3>6. TagCount'
      <4>1. Count(rwindow', Len(fwd')) = Count(rwindow, Len(fwd))
        <5>1. Len(fwd) - 1 \in 0 .. Len(fwd) - 1 /\ Len(fwd) - 1 + 1 = Len(fwd)
          BY <1>5, <2>3
        <5>2. QED
          BY <2>3, <3>1, <3>3, <5>1
      <4>2. QED
        BY <2>1, <3>1, <4>1 DEF IInv, TagCount, BoundaryCount
    <3>7. BackTags'
      BY <2>1, <3>1 DEF IInv, BackTags
    <3>8. FwdTags'
      <4> SUFFICES ASSUME NEW i \in 1 .. Len(fwd'), Boundary(i)'
                   PROVE  fwd'[i] = tags'[Len(back') + BoundaryCount(i)']
        BY DEF FwdTags
      <4>1. i \in 1 .. Len(fwd) - 1 /\ i + 1 \in 1 .. Len(fwd)
        BY <1>5, <2>3
      <4>2. Boundary(i + 1)
        <5>1. ((rwindow - 1) - i) % Inc = 0
          BY <3>1 DEF Boundary
        <5>2. QED
          BY <2>6, <4>1, <5>1 DEF Boundary
      <4>3. fwd[i + 1] = tags[Len(back) + BoundaryCount(i + 1)]
        BY <4>1, <4>2 DEF IInv, FwdTags
      <4>4. BoundaryCount(i)' = BoundaryCount(i + 1)
        BY <1>5, <3>1, <3>3, <4>1 DEF BoundaryCount
      <4>5. QED
        BY <2>1, <2>3, <3>1, <4>1, <4>3, <4>4
    <3>9. QED
      BY <3>4, <3>5, <3>6, <3>7, <3>8 DEF IInv
  <2>8. CASE RW!SendmeDue
    <3>1. /\ rwindow' = (rwindow - 1) + Inc /\ proto' = proto
          /\ \E st \in {Head(fwd), NoTag} : back' = Append(back, st)
      BY <1>6, <2>5, <2>8 DEF PeerReceive, RW!Put
    <3>2. PICK st \in {Head(fwd), NoTag} : back' = Append(back, st)
      BY <3>1
    <3>0. rwindow' = (rwindow - 1) + Inc
      BY <3>1
    <3>3. (rwindow - 1) % Inc = 0
      BY <2>8 DEF RW!SendmeDue
    <3>4. (rwindow - 1) + Inc <= Max
      <4>0. rwindow + Inc * 0 <= Max /\ 0 \in Nat /\ rwindow >= 1
        BY <1>5, <1>1, <2>4
      <4>1. (rwindow - 1) + Inc * (0 + 1) <= Max
        BY <1>5, <4>0, <3>3, CreditAtBoundary
      <4>2. QED
        BY <2>4, <4>1
    <3>5. \A i \in 0 .. Len(fwd) - 1 :
            Count((rwindow - 1) + Inc, i) + 1 = Count(rwindow, i + 1)
      <4> TAKE i \in 0 .. Len(fwd) - 1
      <4>0. i \in Nat /\ i + 1 <= rwindow /\ i <= rwindow - 1
        BY <1>5, <2>4
      <4>1. Count(rwindow, i + 1)
              = Count(rwindow - 1, i) + (IF (rwindow - 1) % Inc = 0 THEN 1 ELSE 0)
        BY <1>5, <4>0, CountDown
      <4>2. Count((rwindow - 1) + Inc, i) = Count(rwindow - 1, i)
        BY <2>4, <4>0, CountRefill
      <4>3. Count(rwindow - 1, i) \in Nat
        BY <2>4, <4>0, CountNat
      <4>4. QED
        BY <3>3, <4>1, <4>2, <4>3
    <3>6. /\ Len(back') = Len(back) + 1 /\ back'[Len(back) + 1] = st
          /\ \A i \in 1 .. Len(back) : back'[i] = back[i]
      BY <2>2, <3>2
    <3>7. Head(fwd) = tags[Len(back) + 1]
      <4>1. Boundary(1)
        BY <3>3 DEF Boundary
      <4>2. fwd[1] = tags[Len(back) + BoundaryCount(1)]
        BY <2>3, <4>1 DEF IInv, FwdTags
      <4>3. BoundaryCount(1) = 1
        <5>0. 0 \in Nat /\ 0 + 1 <= rwindow
          BY <1>5, <2>4
        <5>1. Count(rwindow, 0 + 1)
                = Count(rwindow - 1, 0) + (IF (rwindow - 1) % Inc = 0 THEN 1 ELSE 0)
          BY <1>5, <5>0, CountDown
        <5>2. Count(rwindow - 1, 0) = 0
          BY <2>4, MultiplesNat DEF Count
        <5>3. QED
          BY <3>3, <5>1, <5>2 DEF BoundaryCount
      <4>4. QED
        BY <2>1, <2>2, <4>2, <4>3
    <3>8. TypeOK'
      <4>1. rwindow' \in Nat /\ rwindow' <= SW!U16Max
        BY <2>4, <3>1, <3>4
      <4>2. back' \in Seq(Tags \cup {NoTag})
        <5>1. st \in Tags \cup {NoTag}
          BY <2>1, <2>2, <3>2
        <5>2. QED
          BY <2>2, <3>2, <5>1
      <4>3. QED
        BY <2>1, <2>3, <3>1, <4>1, <4>2 DEF IInv, TypeOK, SW!TypeOK
    <3>9. (NoProtocolError /\ CreditConserved /\ SW!CreditBound /\ RecvBound)'
      <4>1. Inc * (Len(back) + 1) = Inc * Len(back) + Inc
        BY <1>5, SMT
      <4>2. QED
        BY <1>1, <2>1, <2>3, <3>1, <3>4, <3>6, <4>1
           DEF NoProtocolError, CreditConserved, SW!CreditBound, RecvBound
    <3>10. TagCount'
      <4>1. Count(rwindow', Len(fwd')) + 1 = Count(rwindow, Len(fwd))
        <5>1. Len(fwd) - 1 \in 0 .. Len(fwd) - 1 /\ Len(fwd) - 1 + 1 = Len(fwd)
          BY <1>5, <2>3
        <5>2. QED
          BY <2>3, <3>1, <3>5, <5>1
      <4>2. Count(rwindow', Len(fwd')) \in Nat
        <5>1. Count((rwindow - 1) + Inc, Len(fwd) - 1) = Count(rwindow - 1, Len(fwd) - 1)
          BY <2>4, CountRefill
        <5>2. Count(rwindow - 1, Len(fwd) - 1) \in Nat
          BY <2>4, CountNat
        <5>3. QED
          BY <2>3, <3>1, <5>1, <5>2
      <4>3. QED
        BY <1>5, <2>1, <3>6, <4>1, <4>2 DEF IInv, TagCount, BoundaryCount
    <3>11. BackTags'
      <4> SUFFICES ASSUME NEW i \in 1 .. Len(back')
                   PROVE  back'[i] \in {tags'[i], NoTag}
        BY DEF BackTags
      <4>1. CASE i <= Len(back)
        BY <1>5, <2>1, <3>6, <4>1 DEF IInv, BackTags
      <4>2. CASE i = Len(back) + 1
        BY <2>1, <3>2, <3>6, <3>7, <4>2
      <4>3. QED
        BY <1>5, <3>6, <4>1, <4>2
    <3>12. FwdTags'
      <4> SUFFICES ASSUME NEW i \in 1 .. Len(fwd'), Boundary(i)'
                   PROVE  fwd'[i] = tags'[Len(back') + BoundaryCount(i)']
        BY DEF FwdTags
      <4>1. i \in 1 .. Len(fwd) - 1 /\ i + 1 \in 1 .. Len(fwd) /\ i - 1 + 1 = i
        BY <1>5, <2>3
      <4>2. Boundary(i + 1)
        <5>1. (((rwindow - 1) - i) + Inc) % Inc = 0
          <6>0. (rwindow' - i) % Inc = 0
            BY DEF Boundary
          <6>1. (rwindow - 1) + Inc - i = ((rwindow - 1) - i) + Inc
            BY <1>5, <2>4, <4>1
          <6>2. rwindow' - i = ((rwindow - 1) - i) + Inc
            BY <1>5, <3>0, <4>1
          <6>3. QED
            BY <6>0, <6>2
        <5>0. (rwindow - 1) - i \in Nat
          BY <1>5, <2>4, <4>1
        <5>2. ((rwindow - 1) - i) % Inc = 0
          BY <5>0, <5>1, ModInc
        <5>3. QED
          BY <2>6, <4>1, <5>2 DEF Boundary
      <4>3. fwd[i + 1] = tags[Len(back) + BoundaryCount(i + 1)]
        BY <4>1, <4>2 DEF IInv, FwdTags
      <4>4. Len(back') + BoundaryCount(i)' = Len(back) + BoundaryCount(i + 1)
        <5>1. Count((rwindow - 1) + Inc, i) + 1 = Count(rwindow, i + 1)
          <6>1. i \in 0 .. Len(fwd) - 1
            BY <1>5, <4>1
          <6>2. QED
            BY <3>5, <6>1
        <5>2. BoundaryCount(i)' = Count((rwindow - 1) + Inc, i)
          BY <3>1 DEF BoundaryCount
        <5>3. Count((rwindow - 1) + Inc, i) \in Nat
          <6>1. i \in Nat /\ i <= (rwindow - 1) + Inc /\ (rwindow - 1) + Inc \in Nat
            BY <1>5, <2>4, <4>1
          <6>2. QED
            BY <6>1, CountNat
        <5>4. QED
          BY <1>5, <3>6, <5>1, <5>2, <5>3 DEF BoundaryCount
      <4>5. QED
        BY <2>1, <2>3, <4>1, <4>3, <4>4
    <3>13. QED
      BY <3>8, <3>9, <3>10, <3>11, <3>12 DEF IInv
  <2>9. QED
    BY <2>7, <2>8
<1>7. CASE ReceiveSendme
  <2>1. /\ back # <<>> /\ SW!Put(Head(back)) /\ back' = Tail(back)
        /\ proto' = IF SW!Accepts(Head(back)) /\ window + Inc <= SW!U16Max
                      THEN "ok" ELSE "bad_sendme"
        /\ UNCHANGED <<fwd, rwindow>>
    BY <1>7 DEF ReceiveSendme
  <2>2. /\ fwd \in Seq(Tags) /\ back \in Seq(Tags \cup {NoTag})
        /\ tags \in Seq(Tags) /\ pc \in SW!PC /\ unblock \in BOOLEAN
    BY DEF IInv, TypeOK, SW!TypeOK
  <2>3. /\ Len(back) >= 1 /\ Head(back) = back[1]
        /\ Len(back') = Len(back) - 1 /\ back' \in Seq(Tags \cup {NoTag})
        /\ \A i \in 1 .. Len(back) - 1 : back'[i] = back[i + 1]
    BY <2>1, <2>2
  <2>4. BoundaryCount(Len(fwd)) \in Nat
    BY <1>0, <1>5
  <2>5. Len(tags) = Len(back) + BoundaryCount(Len(fwd))
    BY DEF IInv, TagCount
  <2>6. Len(tags) >= 1
    BY <1>5, <2>3, <2>4, <2>5
  (* The SENDME is accepted: a tag is queued and the SENDME echoes it or  *)
  (* carries none.                                                         *)
  <2>7. SW!Accepts(Head(back))
    <3>1. back[1] \in {tags[1], NoTag}
      BY <2>3 DEF IInv, BackTags
    <3>2. tags # <<>> /\ Head(tags) = tags[1]
      BY <2>2, <2>6
    <3>3. QED
      BY <2>3, <3>1, <3>2 DEF SW!Accepts
  (* The window has room for the increment: by the credit bound the       *)
  (* queued tag leaves at least Inc of Max unused.                         *)
  <2>8. window + Inc <= SW!U16Max /\ window + Inc \in Nat
    <3>1. Inc * Len(tags) >= Inc
      BY <1>5, <2>6, SMT
    <3>2. QED
      BY <1>1, <3>1
  <2>9. /\ tags' = Tail(tags) /\ window' = window + Inc
        /\ unblock' = FALSE /\ pc' = IF pc = "parked" THEN "ready" ELSE pc
        /\ ptag' = ptag /\ proto' = "ok"
    BY <2>1, <2>7, <2>8 DEF SW!Put, SW!PopFront
  <2>10. /\ Len(tags') = Len(tags) - 1 /\ tags' \in Seq(Tags)
         /\ \A i \in 1 .. Len(tags) - 1 : tags'[i] = tags[i + 1]
    BY <2>2, <2>6, <2>9
  <2>11. TypeOK'
    <3>1. pc' \in SW!PC /\ unblock' \in BOOLEAN
      BY <2>2, <2>9 DEF SW!PC
    <3>2. QED
      BY <2>1, <2>3, <2>8, <2>9, <2>10, <3>1 DEF IInv, TypeOK, SW!TypeOK
  <2>12. (NoProtocolError /\ CreditConserved /\ SW!CreditBound /\ RecvBound)'
    <3>1. /\ Inc * (Len(back) - 1) = Inc * Len(back) - Inc
          /\ Inc * (Len(tags) - 1) = Inc * Len(tags) - Inc
      BY <1>5, SMT
    <3>2. QED
      BY <1>1, <2>1, <2>3, <2>9, <2>10, <3>1
         DEF NoProtocolError, CreditConserved, SW!CreditBound, RecvBound
  <2>13. TagCount'
    BY <1>5, <2>1, <2>3, <2>4, <2>5, <2>10 DEF TagCount, BoundaryCount
  <2>14. BackTags'
    <3> SUFFICES ASSUME NEW i \in 1 .. Len(back')
                 PROVE  back'[i] \in {tags'[i], NoTag}
      BY DEF BackTags
    <3>1. i \in 1 .. Len(back) - 1 /\ i + 1 \in 1 .. Len(back)
          /\ i \in 1 .. Len(tags) - 1
      BY <1>5, <2>3, <2>4, <2>5
    <3>2. back[i + 1] \in {tags[i + 1], NoTag}
      BY <3>1 DEF IInv, BackTags
    <3>3. QED
      BY <2>3, <2>10, <3>1, <3>2
  <2>15. FwdTags'
    <3> SUFFICES ASSUME NEW i \in 1 .. Len(fwd'), Boundary(i)'
                 PROVE  fwd'[i] = tags'[Len(back') + BoundaryCount(i)']
      BY DEF FwdTags
    <3>1. i \in 1 .. Len(fwd) /\ Boundary(i) /\ BoundaryCount(i)' = BoundaryCount(i)
      BY <2>1 DEF Boundary, BoundaryCount
    <3>2. fwd[i] = tags[Len(back) + BoundaryCount(i)]
      BY <3>1 DEF IInv, FwdTags
    <3>3. /\ BoundaryCount(i) \in Nat /\ BoundaryCount(i) >= 1
          /\ BoundaryCount(i) <= BoundaryCount(Len(fwd))
      <4>1. i \in 0 .. Len(fwd) /\ i >= 1
        BY <1>5, <3>1
      <4>2. QED
        BY <1>0, <3>1, <4>1
    <3>4. /\ Len(back') + BoundaryCount(i) \in 1 .. Len(tags) - 1
          /\ Len(back') + BoundaryCount(i) + 1 = Len(back) + BoundaryCount(i)
      BY <1>5, <2>3, <2>4, <2>5, <3>3
    <3>5. QED
      BY <2>1, <2>10, <3>1, <3>2, <3>4
  <2>16. QED
    BY <2>11, <2>12, <2>13, <2>14, <2>15 DEF IInv
<1>9. CASE UNCHANGED vars
  BY <1>9, QuietStepIInv DEF vars, IInv, TypeOK, SW!TypeOK
<1>10. QED
  BY <1>2, <1>3, <1>4, <1>6, <1>7, <1>9 DEF Next

-----------------------------------------------------------------------------
(* The boundary cells among the first i in flight, for a peer window r.    *)
BoundarySet(r, i) == {j \in 1 .. i : (r - j) % Inc = 0}

(* A set of boundary cells is finite.                                      *)
LEMMA BoundarySetFinite ==
  ASSUME NEW r \in Nat, NEW i \in Nat
  PROVE  IsFiniteSet(BoundarySet(r, i)) /\ Cardinality(BoundarySet(r, i)) \in Nat
<1>1. IsFiniteSet(1 .. i)
  BY FS_Interval
<1>2. BoundarySet(r, i) \in SUBSET (1 .. i)
  BY DEF BoundarySet
<1>3. IsFiniteSet(BoundarySet(r, i))
  BY <1>1, <1>2, FS_Subset
<1>4. QED
  BY <1>3, FS_CardinalityType

(* One cell more adds itself to the boundary set iff it is a boundary.     *)
LEMMA BoundarySetStep ==
  ASSUME NEW r \in Nat, NEW n \in Nat
  PROVE  Cardinality(BoundarySet(r, n + 1))
           = Cardinality(BoundarySet(r, n))
             + (IF (r - (n + 1)) % Inc = 0 THEN 1 ELSE 0)
<1>1. IsFiniteSet(BoundarySet(r, n)) /\ Cardinality(BoundarySet(r, n)) \in Nat
  BY BoundarySetFinite
<1>2. n + 1 \notin BoundarySet(r, n)
  BY SMT DEF BoundarySet
<1>3. CASE (r - (n + 1)) % Inc = 0
  <2>1. BoundarySet(r, n + 1) = BoundarySet(r, n) \cup {n + 1}
    BY <1>3, SMT DEF BoundarySet
  <2>2. QED
    BY <1>1, <1>2, <1>3, <2>1, FS_AddElement
<1>4. CASE (r - (n + 1)) % Inc # 0
  <2>1. BoundarySet(r, n + 1) = BoundarySet(r, n)
    BY <1>4, SMT DEF BoundarySet
  <2>2. QED
    BY <1>1, <1>4, <2>1
<1>5. QED
  BY <1>3, <1>4

(* After the peer takes the oldest cell and lowers its window, the         *)
(* boundary cells among the next i are those among the old first i + 1,   *)
(* shifted down by one, less the cell taken if it was a boundary.          *)
LEMMA BoundarySetDown ==
  ASSUME NEW r \in Nat, NEW i \in Nat, r >= 1
  PROVE  Cardinality(BoundarySet(r, i + 1))
           = Cardinality(BoundarySet(r - 1, i))
             + (IF (r - 1) % Inc = 0 THEN 1 ELSE 0)
<1> DEFINE S == BoundarySet(r - 1, i)
           U == BoundarySet(r, i + 1)
           T == U \ {1}
           f == [j \in S |-> j + 1]
<1>1. r - 1 \in Nat
  BY SMT
<1>2. IsFiniteSet(S) /\ Cardinality(S) \in Nat
      /\ IsFiniteSet(U) /\ Cardinality(U) \in Nat
  <2>1. IsFiniteSet(S) /\ Cardinality(S) \in Nat
    BY <1>1, BoundarySetFinite
  <2>2. i + 1 \in Nat
    BY SMT
  <2>3. IsFiniteSet(U) /\ Cardinality(U) \in Nat
    BY <2>2, BoundarySetFinite
  <2>4. QED
    BY <2>1, <2>3
<1>3. f \in Bijection(S, T)
  <2>1. \A j \in S : j + 1 \in T
    BY SMT DEF BoundarySet
  <2>2. \A t \in T : t - 1 \in S /\ t - 1 + 1 = t
    BY SMT DEF BoundarySet
  <2>3. f \in [S -> T]
    BY <2>1
  <2>4. \A a, b \in S : f[a] = f[b] => a = b
    BY SMT DEF BoundarySet
  <2>5. \A t \in T : \E j \in S : f[j] = t
    BY <2>2
  <2>6. QED
    BY <2>3, <2>4, <2>5 DEF Bijection, Injection, Surjection, IsInjective
<1>4. Cardinality(T) = Cardinality(S)
  BY <1>2, <1>3, FS_Bijection DEF ExistsBijection
<1>5. Cardinality(T) = IF 1 \in U THEN Cardinality(U) - 1 ELSE Cardinality(U)
  BY <1>2, FS_RemoveElement
<1>6. 1 \in U <=> (r - 1) % Inc = 0
  BY SMT DEF BoundarySet
<1> HIDE DEF S, U, T
<1>7. CASE (r - 1) % Inc = 0
  <2>1. Cardinality(S) = Cardinality(U) - 1
    BY <1>4, <1>5, <1>6, <1>7
  <2>2. Cardinality(U) = Cardinality(S) + 1
    BY <1>2, <2>1, SMT
  <2>3. QED
    BY <1>7, <2>2, Zenon DEF S, U
<1>8. CASE (r - 1) % Inc # 0
  <2>1. Cardinality(S) = Cardinality(U)
    BY <1>4, <1>5, <1>6, <1>8
  <2>2. Cardinality(U) = Cardinality(S) + 0
    BY <1>2, <2>1, SMT
  <2>3. QED
    BY <1>8, <2>2, Zenon DEF S, U
<1>9. QED
  BY <1>7, <1>8

(* Refilling the window by a whole increment leaves the boundary set of a *)
(* prefix no longer than the window as it was.                             *)
LEMMA BoundarySetRefill ==
  ASSUME NEW r \in Nat, NEW i \in Nat, i <= r
  PROVE  BoundarySet(r + Inc, i) = BoundarySet(r, i)
<1>1. \A j \in 1 .. i : (r + Inc - j) % Inc = (r - j) % Inc
  <2> TAKE j \in 1 .. i
  <2>1. r - j \in Nat /\ r + Inc - j = (r - j) + Inc
    BY SMT
  <2>2. QED
    BY <2>1, ModInc
<1>2. QED
  BY <1>1 DEF BoundarySet

(* The closed form agrees with the boundary sets of all prefixes up to n.  *)
CountsAgreeAt(r, n) ==
  \A i \in 0 .. n : Count(r, i) = Cardinality(BoundarySet(r, i))

(* Nothing in flight: both counts are zero.                                *)
LEMMA AgreeEmpty ==
  ASSUME NEW r \in Nat
  PROVE  CountsAgreeAt(r, 0)
<1>1. Count(r, 0) = 0
  BY MultiplesNat, SMT DEF Count
<1>2. BoundarySet(r, 0) = {}
  BY SMT DEF BoundarySet
<1>3. QED
  BY <1>1, <1>2, FS_EmptySet DEF CountsAgreeAt

(* take() sends one more cell: the agreement extends to the longer prefix. *)
LEMMA AgreeAppend ==
  ASSUME NEW r \in Nat, NEW n \in Nat, n + 1 <= r, CountsAgreeAt(r, n)
  PROVE  CountsAgreeAt(r, n + 1)
<1> SUFFICES ASSUME NEW i \in 0 .. n + 1
             PROVE  Count(r, i) = Cardinality(BoundarySet(r, i))
  BY DEF CountsAgreeAt
<1>1. CASE i \in 0 .. n
  BY <1>1 DEF CountsAgreeAt
<1>2. CASE i = n + 1
  <2>1. Count(r, n + 1)
          = Count(r, n) + (IF (r - (n + 1)) % Inc = 0 THEN 1 ELSE 0)
    BY CountStep
  <2>2. Cardinality(BoundarySet(r, n + 1))
          = Cardinality(BoundarySet(r, n))
            + (IF (r - (n + 1)) % Inc = 0 THEN 1 ELSE 0)
    BY BoundarySetStep
  <2>3. Count(r, n) = Cardinality(BoundarySet(r, n))
    BY SMT DEF CountsAgreeAt
  <2>4. QED
    BY <1>2, <2>1, <2>2, <2>3
<1>3. QED
  BY <1>1, <1>2, SMT

(* The peer takes the oldest cell and lowers its window by one: the        *)
(* agreement carries over to the remaining cells.                          *)
LEMMA AgreeDown ==
  ASSUME NEW r \in Nat, NEW n \in Nat, r >= 1, n >= 1, n <= r,
         CountsAgreeAt(r, n)
  PROVE  CountsAgreeAt(r - 1, n - 1)
<1> SUFFICES ASSUME NEW i \in 0 .. n - 1
             PROVE  Count(r - 1, i) = Cardinality(BoundarySet(r - 1, i))
  BY DEF CountsAgreeAt
<1>1. i \in Nat /\ i + 1 <= r /\ i + 1 \in 0 .. n /\ r - 1 \in Nat
  BY SMT
<1> DEFINE k == IF (r - 1) % Inc = 0 THEN 1 ELSE 0
<1>2. k \in Nat
  OBVIOUS
<1>3. Count(r, i + 1) = Count(r - 1, i) + k
  BY <1>1, CountDown
<1>4. Cardinality(BoundarySet(r, i + 1))
        = Cardinality(BoundarySet(r - 1, i)) + k
  BY <1>1, BoundarySetDown
<1>5. Count(r, i + 1) = Cardinality(BoundarySet(r, i + 1))
  BY <1>1 DEF CountsAgreeAt
<1>6. Count(r - 1, i) \in Nat /\ Cardinality(BoundarySet(r - 1, i)) \in Nat
  <2>1. i <= r - 1
    BY <1>1, SMT
  <2>2. Count(r - 1, i) \in Nat
    BY <1>1, <2>1, CountNat
  <2>3. QED
    BY <1>1, <2>2, BoundarySetFinite
<1> HIDE DEF k
<1>7. QED
  BY <1>2, <1>3, <1>4, <1>5, <1>6, SMT

(* The peer's put() refills its window by a whole increment: the counts    *)
(* of the prefixes no longer than the window do not move.                 *)
LEMMA AgreeRefill ==
  ASSUME NEW r \in Nat, NEW n \in Nat, n <= r, CountsAgreeAt(r, n)
  PROVE  CountsAgreeAt(r + Inc, n)
<1> SUFFICES ASSUME NEW i \in 0 .. n
             PROVE  Count(r + Inc, i) = Cardinality(BoundarySet(r + Inc, i))
  BY DEF CountsAgreeAt
<1>1. i \in Nat /\ i <= r
  BY SMT
<1>2. Count(r + Inc, i) = Count(r, i)
  BY <1>1, CountRefill
<1>3. BoundarySet(r + Inc, i) = BoundarySet(r, i)
  BY <1>1, BoundarySetRefill
<1>4. QED
  BY <1>2, <1>3 DEF CountsAgreeAt

(* A shorter prefix agrees too.                                            *)
LEMMA AgreeShorter ==
  ASSUME NEW r, NEW n \in Nat, NEW m \in Nat, m <= n, CountsAgreeAt(r, n)
  PROVE  CountsAgreeAt(r, m)
BY SMT DEF CountsAgreeAt

(* The arithmetic the invariant gives about the cells in flight: no more   *)
(* of them than the peer's window, and as many as it minus the sender's    *)
(* window and Inc per SENDME in flight.                                    *)
LEMMA IInvLinear ==
  ASSUME IInv
  PROVE  /\ window \in Nat /\ rwindow \in Nat /\ Len(fwd) \in Nat
         /\ Len(fwd) <= rwindow
         /\ window > 0 => Len(fwd) + 1 <= rwindow
<1>1. /\ window \in Nat /\ rwindow \in Nat
      /\ Len(fwd) \in Nat /\ Len(back) \in Nat
      /\ rwindow = window + Len(fwd) + Inc * Len(back)
  BY DEF IInv, TypeOK, SW!TypeOK, CreditConserved
<1>2. Inc * Len(back) \in Nat
  BY <1>1, SMT
<1>3. QED
  BY <1>1, <1>2, SMT

(* CountsAgree holds initially.                                            *)
LEMMA InitCounts == Init => CountsAgree
<1> SUFFICES ASSUME Init PROVE CountsAgree
  OBVIOUS
<1>1. rwindow \in Nat /\ Len(fwd) = 0
  BY DEF Init
<1>2. CountsAgreeAt(rwindow, 0)
  BY <1>1, AgreeEmpty
<1>3. QED
  BY <1>1, <1>2 DEF CountsAgree, CountsAgreeAt, BoundaryCount,
                    BoundariesUpTo, Boundary, BoundarySet

(* Every step keeps the closed form equal to the boundary sets.            *)
LEMMA NextCounts == IInv /\ CountsAgree /\ [Next]_vars => CountsAgree'
<1> SUFFICES ASSUME IInv, CountsAgree, [Next]_vars PROVE CountsAgree'
  OBVIOUS
<1>1. CountsAgreeAt(rwindow, Len(fwd))
  BY DEF CountsAgree, CountsAgreeAt, BoundaryCount, BoundariesUpTo,
         Boundary, BoundarySet
<1> SUFFICES CountsAgreeAt(rwindow', Len(fwd'))
  BY DEF CountsAgree, CountsAgreeAt, BoundaryCount, BoundariesUpTo,
         Boundary, BoundarySet
<1>2. /\ window \in Nat /\ rwindow \in Nat /\ Len(fwd) \in Nat
      /\ Len(fwd) <= rwindow
      /\ window > 0 => Len(fwd) + 1 <= rwindow
  BY IInvLinear
<1>3. fwd \in Seq(Tags) /\ ptag \in Tags
  BY DEF IInv, TypeOK, SW!TypeOK
<1>4. CASE UNCHANGED <<fwd, rwindow>>
  BY <1>1, <1>4
<1>5. CASE SendCell
  <2>1. window > 0 /\ fwd' = Append(fwd, ptag) /\ rwindow' = rwindow
    BY <1>5 DEF SendCell, SW!TakeSend
  <2>2. Len(fwd') = Len(fwd) + 1 /\ Len(fwd) + 1 <= rwindow
    BY <1>2, <1>3, <2>1
  <2>3. QED
    BY <1>1, <1>2, <2>1, <2>2, AgreeAppend
<1>6. CASE PeerReceive
  <2>1. fwd # <<>> /\ fwd' = Tail(fwd)
    BY <1>6 DEF PeerReceive
  <2>2. Len(fwd) >= 1 /\ Len(fwd') = Len(fwd) - 1 /\ Len(fwd) - 1 \in Nat
    BY <1>3, <2>1
  <2>3. CASE ~RW!CanTake
    <3>1. rwindow' = rwindow
      BY <1>6, <2>3 DEF PeerReceive
    <3>2. Len(fwd) - 1 <= Len(fwd)
      BY <1>2, SMT
    <3>3. QED
      BY <1>1, <1>2, <2>2, <3>1, <3>2, AgreeShorter
  <2>4. CASE RW!CanTake
    <3>1. rwindow >= 1
      BY <1>2, <2>4 DEF RW!CanTake
    <3>2. CountsAgreeAt(rwindow - 1, Len(fwd) - 1)
      BY <1>1, <1>2, <2>2, <3>1, AgreeDown
    <3>3. CASE ~RW!SendmeDue
      <4>1. rwindow' = rwindow - 1
        BY <1>6, <2>4, <3>3 DEF PeerReceive
      <4>2. QED
        BY <2>2, <3>2, <4>1
    <3>4. CASE RW!SendmeDue
      <4>1. rwindow' = (rwindow - 1) + Inc
        BY <1>6, <2>4, <3>4 DEF PeerReceive, RW!Put
      <4>2. rwindow - 1 \in Nat /\ Len(fwd) - 1 <= rwindow - 1
        BY <1>2, <3>1, SMT
      <4>3. CountsAgreeAt((rwindow - 1) + Inc, Len(fwd) - 1)
        BY <2>2, <3>2, <4>2, AgreeRefill
      <4>4. QED
        BY <2>2, <4>1, <4>3
    <3>5. QED
      BY <3>3, <3>4
  <2>5. QED
    BY <2>3, <2>4
<1>7. QED
  <2>1. ASSUME NEW t \in Tags, BeginSend(t) PROVE UNCHANGED <<fwd, rwindow>>
    BY <2>1 DEF BeginSend, peerVars
  <2>2. Park => UNCHANGED <<fwd, rwindow>>
    BY DEF Park, peerVars
  <2>3. ReceiveSendme => UNCHANGED <<fwd, rwindow>>
    BY DEF ReceiveSendme
  <2>4. UNCHANGED vars => UNCHANGED <<fwd, rwindow>>
    BY DEF vars
  <2>5. QED
    BY <1>4, <1>5, <1>6, <2>1, <2>2, <2>3, <2>4 DEF Next

-----------------------------------------------------------------------------
(* The inductive invariant holds in every reachable state of the sender's  *)
(* window, the peer's receive window and the two channels between them.    *)
THEOREM IInvInvariant == Spec => []IInv
<1>1. Init => IInv
  BY InitIInv
<1>2. IInv /\ [Next]_vars => IInv'
  BY NextIInv
<1>3. QED
  BY <1>1, <1>2, PTL DEF Spec

(* Type correctness of the composition: the sender's window and the peer's *)
(* receive window stay u16 values and the channels hold tags (TypeOK).     *)
THEOREM TypeCorrect == Spec => []TypeOK
<1>1. IInv => TypeOK
  BY DEF IInv
<1>2. QED
  BY <1>1, IInvInvariant, PTL

(* For every Max a multiple of Inc with Max + Inc within u16, a correct    *)
(* sender (SendWindow take()/put()) and a correct peer (RecvWindow take()  *)
(* and put()) never meet a protocol error: the peer's receive window never *)
(* underflows and every SENDME the sender gets matches its oldest tag      *)
(* (NoProtocolError).                                                      *)
THEOREM NoProtocolErrorInvariant == Spec => []NoProtocolError
<1>1. IInv => NoProtocolError
  BY DEF IInv
<1>2. QED
  BY <1>1, IInvInvariant, PTL

(* Credit is conserved between the two ends: the sender's window plus the  *)
(* cells in flight plus Inc per SENDME in flight is the peer's receive     *)
(* window, in every reachable state (CreditConserved).                     *)
THEOREM CreditConservedInvariant == Spec => []CreditConserved
<1>1. IInv => CreditConserved
  BY DEF IInv
<1>2. QED
  BY <1>1, IInvInvariant, PTL

(* Tag agreement between the two ends (TagsAgree): the sender's queue of   *)
(* recorded tags (SendWindow's tags) is, in order, the tags of the         *)
(* SENDMEs in flight followed by those of the in-flight cells at which the *)
(* peer's RecvWindow will be due, so every SENDME a correct peer sends is  *)
(* accepted by put(), for every value of the constants.                    *)
THEOREM TagsAgreeInvariant == Spec => []TagsAgree
<1>1. Init => IInv /\ CountsAgree
  BY InitIInv, InitCounts
<1>2. IInv /\ CountsAgree /\ [Next]_vars => (IInv /\ CountsAgree)'
  BY NextIInv, NextCounts
<1>3. IInv /\ CountsAgree => TagsAgree
  <2> SUFFICES ASSUME IInv, CountsAgree PROVE TagsAgree
    OBVIOUS
  <2>1. Len(fwd) \in 0 .. Len(fwd)
    BY IInvLinear, SMT
  <2>2. Len(tags) = Len(back) + BoundariesUpTo(Len(fwd))
    BY <2>1 DEF IInv, TagCount, CountsAgree
  <2>3. \A i \in 1 .. Len(fwd) :
          Boundary(i) => fwd[i] = tags[Len(back) + BoundariesUpTo(i)]
    <3> TAKE i \in 1 .. Len(fwd)
    <3>1. i \in 0 .. Len(fwd)
      BY IInvLinear, SMT
    <3>2. QED
      BY <3>1 DEF IInv, FwdTags, CountsAgree
  <2>4. QED
    BY <2>2, <2>3 DEF IInv, BackTags, TagsAgree
<1>4. QED
  BY <1>1, <1>2, <1>3, PTL DEF Spec
=============================================================================
