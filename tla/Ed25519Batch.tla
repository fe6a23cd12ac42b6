---------------------------- MODULE Ed25519Batch ----------------------------
(***************************************************************************)
(* Signature validation of src/tor-llcrypto/src/pk/ed25519.rs: a           *)
(* ValidatableEd25519Signature bundles a key, a signature and the signed   *)
(* text; validate_batch() checks a list of them, through is_valid() for    *)
(* one and through ed25519_dalek::verify_batch on parallel vectors of      *)
(* messages, signatures and keys for more.                                 *)
(*                                                                         *)
(* A signature is abstracted to the key and text it was made with (a       *)
(* forger's is made with another key or for another text).  Verification  *)
(* (ed25519-dalek, not under src/) is modelled from spec.md 4.2: a         *)
(* signature verifies under a key and a text iff it was made with them,    *)
(* and the batch verifier accepts iff every triple verifies.               *)
(***************************************************************************)
EXTENDS Naturals, Sequences

CONSTANTS
  Keys,     \* Ed25519 public keys
  Texts,    \* documents that may be signed
  MaxSigs   \* the longest batch of a run

ASSUME BatchAssumption == MaxSigs \in Nat \ {0} /\ Keys # {} /\ Texts # {}

(* Signature values: the key and text each was made with.                  *)
Signatures == [key : Keys, text : Texts]

(* ValidatableEd25519Signature::new(key, sig, text).                       *)
Validatables == [key : Keys, sig : Signatures, text : Texts]

(* PublicKey::verify(text, sig).is_ok().                                   *)
Verify(pk, msg, sig) == sig.key = pk /\ sig.text = msg

(* is_valid(): self.key.verify(&self.entire_text_of_signed_thing, &self.sig) *)
IsValid(v) == Verify(v.key, v.text, v.sig)

(* ed25519_dalek::verify_batch(&msgs, &sigs, &pks).is_ok().                *)
VerifyBatch(msgs, sigs, pks) ==
  /\ Len(msgs) = Len(sigs) /\ Len(sigs) = Len(pks)
  /\ \A i \in 1 .. Len(sigs) : Verify(pks[i], msgs[i], sigs[i])

(* Variant of ValidateBatch in which a single signature is accepted        *)
(* without verification.                                                   *)
ValidateBatchTrustOne(sigs) ==
  IF Len(sigs) <= 1 THEN TRUE
  ELSE VerifyBatch([i \in 1 .. Len(sigs) |-> sigs[i].text],
                   [i \in 1 .. Len(sigs) |-> sigs[i].sig],
                   [i \in 1 .. Len(sigs) |-> sigs[i].key])

(* validate_batch(sigs): true for none, is_valid() for one, otherwise the *)
(* loop over as_parts() pushes each sig, pk and msg onto ed_sigs, ed_pks   *)
(* and ed_msgs, which go to verify_batch.                                  *)
ValidateBatch(sigs) ==
  IF Len(sigs) = 0 THEN TRUE
  ELSE IF Len(sigs) = 1 THEN IsValid(sigs[1])
  ELSE VerifyBatch([i \in 1 .. Len(sigs) |-> sigs[i].text],
                   [i \in 1 .. Len(sigs) |-> sigs[i].sig],
                   [i \in 1 .. Len(sigs) |-> sigs[i].key])

VARIABLES
  batch,    \* the signatures collected for one validate_batch() call
  checked,  \* validate_batch() has been called
  verdict   \* what it returned

vars == <<batch, checked, verdict>>

TypeOK ==
  /\ batch \in Seq(Validatables) /\ Len(batch) <= MaxSigs
  /\ checked \in BOOLEAN /\ verdict \in BOOLEAN

Init == batch = <<>> /\ checked = FALSE /\ verdict = FALSE

(* A document parser adds a ValidatableEd25519Signature for later checks. *)
Add(v) ==
  /\ ~checked /\ Len(batch) < MaxSigs
  /\ batch' = Append(batch, v)
  /\ UNCHANGED <<checked, verdict>>

(* validate_batch(&batch).                                                 *)
Validate ==
  /\ ~checked
  /\ checked' = TRUE
  /\ verdict' = ValidateBatch(batch)
  /\ UNCHANGED batch

Next == (\E v \in Validatables : Add(v)) \/ Validate

Spec == Init /\ [][Next]_vars

-----------------------------------------------------------------------------
(* validate_batch() returns true iff every signature of the batch is      *)
(* valid on its own (spec.md 4.2: never accept a batch with an invalid    *)
(* member, never reject one without), for every batch length.             *)
BatchAgreesWithSingle ==
  checked => (verdict = \A i \in 1 .. Len(batch) : IsValid(batch[i]))
=============================================================================
