------------------------ MODULE Ed25519BatchProofs ------------------------
(***************************************************************************)
(* Proofs about Ed25519Batch for batches of every length: validate_batch() *)
(* agrees with checking each signature on its own with is_valid().         *)
(***************************************************************************)
EXTENDS Ed25519Batch, TLAPS

(* A batch length is zero, one, or more: the three arms of validate_batch().*)
LEMMA LengthCases ==
  ASSUME NEW n \in Nat
  PROVE  /\ n = 0 \/ n = 1 \/ n > 1
         /\ n > 1 => n # 0 /\ n # 1
OBVIOUS

(* validate_batch() computes the conjunction of is_valid() over the batch:*)
(* the empty batch is valid, a single one goes through is_valid(), and the *)
(* parallel vectors built for verify_batch() have equal lengths and hold,  *)
(* at each index, the text, signature and key of the same member.          *)
LEMMA ValidateBatchCorrect ==
  ASSUME NEW sigs \in Seq(Validatables)
  PROVE  ValidateBatch(sigs) = \A i \in 1 .. Len(sigs) : IsValid(sigs[i])
<1>0. Len(sigs) \in Nat
  OBVIOUS
<1>1. CASE Len(sigs) = 0
  BY <1>1 DEF ValidateBatch
<1>2. CASE Len(sigs) = 1
  <2>1. 1 .. Len(sigs) = {1}
    BY <1>2
  <2>2. ValidateBatch(sigs) = IsValid(sigs[1])
    BY <1>2 DEF ValidateBatch
  <2>3. QED
    BY <2>1, <2>2 DEF IsValid, Verify
<1>3. CASE Len(sigs) > 1
  <2> DEFINE msgs == [i \in 1 .. Len(sigs) |-> sigs[i].text]
             sgs == [i \in 1 .. Len(sigs) |-> sigs[i].sig]
             pks == [i \in 1 .. Len(sigs) |-> sigs[i].key]
  <2>1. Len(msgs) = Len(sigs) /\ Len(sgs) = Len(sigs) /\ Len(pks) = Len(sigs)
    OBVIOUS
  <2>2. \A i \in 1 .. Len(sigs) :
          Verify(pks[i], msgs[i], sgs[i]) = IsValid(sigs[i])
    BY DEF IsValid, Verify
  <2>3. ValidateBatch(sigs) = VerifyBatch(msgs, sgs, pks)
    <3>1. Len(sigs) # 0 /\ Len(sigs) # 1
      BY <1>0, <1>3, LengthCases, Zenon
    <3>2. QED
      BY <3>1, Zenon DEF ValidateBatch
  <2>4. QED
    BY <2>1, <2>2, <2>3 DEF VerifyBatch, IsValid, Verify
<1>4. Len(sigs) = 0 \/ Len(sigs) = 1 \/ Len(sigs) > 1
  BY <1>0, LengthCases
<1>5. QED
  BY <1>1, <1>2, <1>3, <1>4, Zenon

(* The inductive invariant: the type, and the agreement.                   *)
Inv == TypeOK /\ BatchAgreesWithSingle

(* Whatever signatures a parser collects, the answer validate_batch()     *)
(* gives (BatchAgreesWithSingle, checked by the ed25519batch run) is true  *)
(* iff each of them is valid on its own, and it stays the answer for the   *)
(* batch because nothing is added after the call.                          *)
THEOREM BatchAgreesWithSingleInvariant == Spec => []BatchAgreesWithSingle
<1>1. Init => Inv
  <2> SUFFICES ASSUME Init PROVE Inv
    OBVIOUS
  <2>1. TypeOK
    <3>1. batch \in Seq(Validatables) /\ Len(batch) <= MaxSigs
      BY BatchAssumption DEF Init
    <3>2. checked \in BOOLEAN /\ verdict \in BOOLEAN
      BY DEF Init
    <3>3. QED
      BY <3>1, <3>2 DEF TypeOK
  <2>2. BatchAgreesWithSingle
    BY DEF Init, BatchAgreesWithSingle
  <2>3. QED
    BY <2>1, <2>2 DEF Inv
<1>2. Inv /\ [Next]_vars => Inv'
  <2> SUFFICES ASSUME Inv, [Next]_vars PROVE Inv'
    OBVIOUS
  <2>1. ASSUME NEW v \in Validatables, Add(v) PROVE Inv'
    <3>1. TypeOK'
      <4>1. batch' \in Seq(Validatables) /\ Len(batch') <= MaxSigs
        BY <2>1, BatchAssumption DEF Add, Inv, TypeOK
      <4>2. checked' \in BOOLEAN /\ verdict' \in BOOLEAN
        BY <2>1 DEF Add, Inv, TypeOK
      <4>3. QED
        BY <4>1, <4>2 DEF TypeOK
    <3>2. ~checked'
      BY <2>1 DEF Add
    <3>3. QED
      BY <3>1, <3>2 DEF Inv, BatchAgreesWithSingle
  <2>2. CASE Validate
    <3>2. verdict' = \A i \in 1 .. Len(batch') : IsValid(batch'[i])
      BY <2>2, ValidateBatchCorrect DEF Validate, Inv, TypeOK
    <3>1. TypeOK'
      BY <2>2, <3>2 DEF Validate, Inv, TypeOK
    <3>3. QED
      BY <3>1, <3>2 DEF Inv, BatchAgreesWithSingle
  <2>3. CASE UNCHANGED vars
    BY <2>3 DEF vars, Inv, TypeOK, BatchAgreesWithSingle
  <2>4. QED
    BY <2>1, <2>2, <2>3 DEF Next
<1>3. Inv => BatchAgreesWithSingle
  BY DEF Inv
<1>4. QED
  BY <1>1, <1>2, <1>3, PTL DEF Spec
=============================================================================
