---------------------------- MODULE CodecProofs ----------------------------
(***************************************************************************)
(* Proofs about Codec for every byte base, every bound on the items of a   *)
(* message and every set of items that are values of impls.rs' types.    *)
(* The first part shows that a parse never panics and that the Reader's   *)
(* cursor stays within its bytes (IInv).  The second shows the round trip *)
(* of spec.md section 8: the message is the concatenation of the items'   *)
(* encodings, each take_from of a type an item may be read as returns the *)
(* value written and moves past its bytes or fails on bad input, so the   *)
(* values read are the values written (RInv).  It rests on the facts of   *)
(* CodecLemmas about the recursive definitions of Codec.                  *)
(***************************************************************************)
EXTENDS CodecLemmas

(* The byte strings of the model.                                          *)
ByteSeqs == Seq(0 .. Base - 1)

(* The types TakeFrom has an arm for.                                      *)
ReadableTypes ==
  IntTypes \cup ArrayTypes \cup
  {"ipv4", "ipv6", "x25519", "ed25519", "sig", "rsa", "ga", "mac"}

(* A take_from outcome that the parse can survive: Ok or Err, never a      *)
(* panic, with the cursor moved forward and not past the end.              *)
Sound(r) ==
  /\ r.res \in {"ok", "err"}
  /\ r.adv \in Nat
  /\ off + r.adv <= Len(rbuf)

(* The inductive invariant.                                                *)
IInv ==
  /\ phase \in {"write", "read", "done", "err"}
  /\ sched \in Seq(Writes)
  /\ wbuf \in ByteSeqs
  /\ rbuf \in ByteSeqs
  /\ off \in Nat /\ off <= Len(rbuf)
  /\ \E S : got \in Seq(S)
  /\ phase = "write" => got = <<>> /\ off = 0
  /\ phase = "read" => Len(got) < Len(sched)

-----------------------------------------------------------------------------
(* Reader::take(n) on a cursor within the bytes: either the n bytes fit   *)
(* and are exactly n bytes long, or the take fails without moving.         *)
LEMMA TakeBytes ==
  ASSUME NEW n \in Nat, off \in Nat, rbuf \in ByteSeqs, off <= Len(rbuf)
  PROVE  /\ Fits(n) => Len(Bytes(n)) = n /\ off + n <= Len(rbuf)
         /\ off + 0 <= Len(rbuf)
<1>1. ASSUME Fits(n) PROVE Len(Bytes(n)) = n
  <2>1. \A i \in off + 1 .. off + n : rbuf[i] \in 0 .. Base - 1
    <3>1. \A i \in 1 .. Len(rbuf) : rbuf[i] \in 0 .. Base - 1
      BY BaseNat DEF ByteSeqs
    <3>2. off + 1 .. off + n \subseteq 1 .. Len(rbuf)
      BY <1>1 DEF Fits
    <3>3. QED
      BY <3>1, <3>2
  <2>2. Len(SubSeq(rbuf, off + 1, off + n)) = IF off + 1 <= off + n THEN n ELSE 0
    BY <2>1, SubSeqProperties
  <2>3. QED
    BY <2>2 DEF Bytes
<1>2. QED
  BY <1>1 DEF Fits

(* The Reader's cursor is within the bytes it was given.                   *)
CursorOK == off \in Nat /\ rbuf \in ByteSeqs /\ off <= Len(rbuf)

(* A take of w bytes that fails without moving when they do not fit: the   *)
(* shape of every fixed-width take_from in impls.rs.                       *)
LEMMA FitOrFail ==
  ASSUME CursorOK, NEW w \in Nat, NEW v
  PROVE  Sound(IF Fits(w) THEN Ok(v, w) ELSE Fail(0))
BY DEF CursorOK, Sound, Fits, Ok, Fail

(* The keys and signatures of ed25519: the bytes are consumed whether or  *)
(* not they decode, and the error is an Err.                              *)
LEMMA FitThenCheck ==
  ASSUME CursorOK, NEW w \in Nat, NEW v, NEW P
  PROVE  Sound(IF ~Fits(w) THEN Fail(0) ELSE IF P THEN Ok(v, w) ELSE Fail(w))
BY DEF CursorOK, Sound, Fits, Ok, Fail

(* RSAIdentity::take_from: take(RSA_ID_LEN) returns exactly RSA_ID_LEN    *)
(* bytes, so the expect() on from_bytes never panics.                      *)
LEMMA RSAIdentitySound ==
  ASSUME CursorOK
  PROVE  Sound(TakeRSAIdentity)
<1>1. RsaIdLen \in Nat
  BY DEF RsaIdLen
<1>2. Fits(RsaIdLen) => Len(Bytes(RsaIdLen)) = RsaIdLen /\ off + RsaIdLen <= Len(rbuf)
  BY <1>1, TakeBytes DEF CursorOK
<1>3. QED
  BY <1>1, <1>2 DEF CursorOK, Sound, TakeRSAIdentity, Ok, Fail

(* GenericArray<T, N>::take_from with w-byte elements: the elements that  *)
(* fit are consumed, and never more bytes than remain.                     *)
LEMMA GenericArraySound ==
  ASSUME CursorOK, NEW n \in Nat, NEW w \in {1, 2}
  PROVE  Sound(TakeGenericArray(n, w))
<1> DEFINE k == (Len(rbuf) - off) \div w
<1>1. Len(rbuf) - off \in Nat
  BY DEF CursorOK, ByteSeqs
<1>2. k \in Nat /\ k * w <= Len(rbuf) - off
  BY <1>1, SMT
<1>3. n <= k => n * w <= k * w
  BY <1>2, SMT
<1>4. QED
  BY <1>1, <1>2, <1>3, SMT DEF CursorOK, Sound, TakeGenericArray, Ok, Fail

(* Reader::take_from::<T>() for every type impls.rs reads: Ok or Err,     *)
(* never a panic, the cursor kept within the bytes.                        *)
LEMMA TakeFromSound ==
  ASSUME CursorOK, NEW t \in ReadableTypes, NEW n \in Nat
  PROVE  Sound(TakeFrom(t, n))
<1> USE DEF IntTypes, IntWidth, ArrayTypes, ArrayLen
<1>1. CASE t \in IntTypes
  <2>1. TakeFrom(t, n) = TakeInt(IntWidth[t]) /\ IntWidth[t] \in Nat
    BY <1>1 DEF TakeFrom
  <2>2. QED
    BY <2>1, FitOrFail DEF TakeInt
<1>2. CASE t = "ipv4"
  <2>1. TakeFrom(t, n) = TakeAddr(4)
    BY <1>2 DEF TakeFrom
  <2>2. QED
    BY <2>1, FitOrFail DEF TakeAddr
<1>3. CASE t = "ipv6"
  <2>1. TakeFrom(t, n) = TakeAddr(16)
    BY <1>3 DEF TakeFrom
  <2>2. QED
    BY <2>1, FitOrFail DEF TakeAddr
<1>4. CASE t \in ArrayTypes
  <2>1. TakeFrom(t, n) = TakeArray(ArrayLen[t]) /\ ArrayLen[t] \in Nat
    BY <1>4 DEF TakeFrom
  <2>2. QED
    BY <2>1, FitOrFail DEF TakeArray
<1>5. CASE t = "x25519"
  <2>1. TakeFrom(t, n) = TakeCurve25519
    BY <1>5 DEF TakeFrom
  <2>2. QED
    BY <2>1, FitOrFail DEF TakeCurve25519
<1>6. CASE t = "ed25519"
  <2>1. TakeFrom(t, n) = TakeEd25519
    BY <1>6 DEF TakeFrom
  <2>2. QED
    BY <2>1, FitThenCheck DEF TakeEd25519
<1>7. CASE t = "sig"
  <2>1. TakeFrom(t, n) = TakeSignature
    BY <1>7 DEF TakeFrom
  <2>2. QED
    BY <2>1, FitThenCheck DEF TakeSignature
<1>8. CASE t = "rsa"
  <2>1. TakeFrom(t, n) = TakeRSAIdentity
    BY <1>8 DEF TakeFrom
  <2>2. QED
    BY <2>1, RSAIdentitySound
<1>9. CASE t = "ga"
  <2>1. TakeFrom(t, n) = TakeGenericArray(n, 2)
    BY <1>9 DEF TakeFrom, ElemWidth
  <2>2. QED
    BY <2>1, GenericArraySound
<1>10. CASE t = "mac"
  <2>1. TakeFrom(t, n) = TakeGenericArray(n, 1)
    BY <1>10 DEF TakeFrom, TakeMacResult, ElemWidth
  <2>2. QED
    BY <2>1, GenericArraySound
<1>11. QED
  BY <1>1, <1>2, <1>3, <1>4, <1>5, <1>6, <1>7, <1>8, <1>9, <1>10
     DEF ReadableTypes

(* Every type the parser may read an item written as has a take_from.     *)
LEMMA ReadTypesReadable ==
  ASSUME NEW it, it.ty \in ItemTypes
  PROVE  ReadTypes(it) \subseteq ReadableTypes
BY DEF ReadTypes, ItemTypes, ReadableTypes, IntTypes, IntWidth, ArrayTypes,
       ArrayLen

-----------------------------------------------------------------------------
(* The initial state: nothing written, delivered or read.                  *)
LEMMA InitIInv == Init => IInv
<1> SUFFICES ASSUME Init PROVE IInv
  OBVIOUS
<1>1. got \in Seq({})
  BY DEF Init
<1>2. QED
  BY <1>1, BaseNat DEF Init, IInv, ByteSeqs

(* Writeable::write_onto appends the item's encoding to the Vec<u8>.      *)
LEMMA WriteIInv ==
  ASSUME IInv, NEW it \in Writes, Write(it)
  PROVE  IInv'
<1>1. Encode(it) \in ByteSeqs /\ wbuf \in ByteSeqs
  BY WritesAssumption DEF IInv, ByteSeqs
<1>2. wbuf' \in ByteSeqs
  BY <1>1, ConcatProperties DEF Write, ByteSeqs
<1>3. sched' \in Seq(Writes)
  BY DEF Write, IInv
<1>4. QED
  BY <1>2, <1>3 DEF Write, IInv

(* The message, whole or truncated, is handed to a Reader at offset 0.     *)
LEMMA DeliverIInv ==
  ASSUME IInv, NEW k \in 0 .. Len(wbuf), Deliver(k)
  PROVE  IInv'
<1>1. \A i \in 1 .. k : wbuf[i] \in 0 .. Base - 1
  BY BaseNat DEF IInv, ByteSeqs
<1>2. rbuf' \in ByteSeqs
  BY <1>1, SubSeqProperties DEF Deliver, ByteSeqs
<1>3. got = <<>> /\ off = 0 /\ sched # <<>> /\ sched \in Seq(Writes)
  BY DEF Deliver, IInv
<1>4. Len(got) < Len(sched)
  BY <1>3
<1>5. QED
  BY <1>2, <1>3, <1>4 DEF Deliver, IInv

(* The parser reads the next item as one of the types it may be read as. *)
LEMMA ReadIInv ==
  ASSUME IInv, phase = "read",
         NEW t \in ReadTypes(sched[Len(got) + 1]), Read(t)
  PROVE  IInv'
<1> DEFINE it == sched[Len(got) + 1]
           n == IF it.ty \in {"ga", "mac"} THEN Len(it.val) ELSE 0
           r == TakeFrom(t, n)
<1>1. Len(got) + 1 \in 1 .. Len(sched) /\ sched \in Seq(Writes)
  BY DEF IInv
<1>2. it \in Writes
  BY <1>1
<1>3. t \in ReadableTypes
  BY <1>2, WritesAssumption, ReadTypesReadable
<1>4. n \in Nat
  BY <1>2, WritesAssumption
<1>5. CursorOK
  BY DEF IInv, CursorOK
<1>6. Sound(r)
  BY <1>3, <1>4, <1>5, TakeFromSound
<1>7. /\ off' = off + r.adv /\ UNCHANGED <<sched, wbuf, rbuf>>
      /\ IF r.res = "ok"
           THEN /\ got' = Append(got, r.val)
                /\ phase' = IF Len(got) + 1 = Len(sched) THEN "done" ELSE "read"
           ELSE phase' = r.res /\ UNCHANGED got
  BY DEF Read
<1>8. off' \in Nat /\ off' <= Len(rbuf')
  BY <1>5, <1>6, <1>7 DEF Sound, CursorOK
<1>9. PICK S : got \in Seq(S)
  BY DEF IInv
<1>10. CASE r.res = "ok"
  <2>1. got' \in Seq(S \cup {r.val}) /\ Len(got') = Len(got) + 1
    BY <1>7, <1>9, <1>10
  <2>2. phase' \in {"done", "read"}
    BY <1>7, <1>10
  <2>3. phase' = "read" => Len(got') < Len(sched')
    BY <1>1, <1>7, <1>10, <2>1
  <2>4. QED
    BY <1>7, <1>8, <2>1, <2>2, <2>3 DEF IInv
<1>11. CASE r.res # "ok"
  <2>1. phase' = "err" /\ got' = got
    BY <1>6, <1>7, <1>11 DEF Sound
  <2>2. QED
    BY <1>7, <1>8, <1>9, <2>1 DEF IInv
<1>12. QED
  BY <1>10, <1>11

(* Every step keeps the inductive invariant.                               *)
LEMMA NextIInv == IInv /\ [Next]_vars => IInv'
<1> SUFFICES ASSUME IInv, [Next]_vars PROVE IInv'
  OBVIOUS
<1>1. CASE \E it \in Writes : Write(it)
  BY <1>1, WriteIInv
<1>2. CASE \E k \in 0 .. Len(wbuf) : Deliver(k)
  BY <1>2, DeliverIInv
<1>3. CASE phase = "read" /\ \E t \in ReadTypes(sched[Len(got) + 1]) : Read(t)
  BY <1>3, ReadIInv
<1>4. CASE UNCHANGED vars
  BY <1>4 DEF vars, IInv
<1>5. QED
  BY <1>1, <1>2, <1>3, <1>4 DEF Next

-----------------------------------------------------------------------------
(* The rest of this module shows that the values read are the values      *)
(* written.  The message is the concatenation of the items' encodings, so *)
(* at a cursor that has consumed the first n items the next item's bytes  *)
(* follow; each take_from of a type the item may be read as then returns  *)
(* the item's value and moves past its bytes, or fails because the bytes  *)
(* were cut off or do not decode as a key or a signature.                 *)

(* s is a prefix of t.                                                      *)
PrefixOf(s, t) == Len(s) <= Len(t) /\ \A i \in 1 .. Len(s) : s[i] = t[i]

(* The encodings of the first m items of a schedule s, and the bytes they  *)
(* are written as.                                                         *)
Enc(s, m) == [i \in 1 .. m |-> Encode(s[i])]
Written(s, m) == Concat(Enc(s, m))

(* The bytes of item it follow the cursor in the message.                  *)
AtCursor(it) ==
  /\ off + Len(Encode(it)) <= Len(wbuf)
  /\ \A j \in 1 .. Len(Encode(it)) : wbuf[off + j] = Encode(it)[j]

(* The state in which the parser reads item it: the cursor within the     *)
(* bytes handed to the Reader, which are a prefix of the message, and the  *)
(* item's bytes at the cursor.                                             *)
ReadCtx(it) ==
  /\ CursorOK /\ wbuf \in ByteSeqs /\ PrefixOf(rbuf, wbuf)
  /\ it \in Writes /\ AtCursor(it)

(* A parse may fail only on bad input: the message was cut short, or the  *)
(* bytes of an item read as an Ed25519 key or signature do not decode.    *)
BadInput(it, t) ==
  \/ Len(rbuf) < Len(wbuf)
  \/ t = "ed25519" /\ Encode(it) \notin ValidPoints
  \/ t = "sig" /\ Encode(it) \notin ValidSigs

(* The outcome r of reading item it as type t is right: Ok with the value *)
(* written and the cursor past the item's bytes, or an error on bad input *)
(* that leaves the cursor within the item's bytes.                        *)
ReadsBack(it, t, r) ==
  /\ r.res = "ok" => r.val = Expected(it) /\ r.adv = Len(Encode(it))
  /\ r.res # "ok" => BadInput(it, t) /\ r.adv \in 0 .. Len(Encode(it))

(* Reader::take(m) of the first m bytes of the item at the cursor returns *)
(* those bytes; if the item's bytes do not all fit, the message was cut.  *)
LEMMA PieceBytes ==
  ASSUME NEW it, ReadCtx(it), Encode(it) \in ByteSeqs
  PROVE  /\ \A m \in 0 .. Len(Encode(it)) :
              Fits(m) => /\ Bytes(m) \in ByteSeqs /\ Len(Bytes(m)) = m
                         /\ \A j \in 1 .. m : Bytes(m)[j] = Encode(it)[j]
                         /\ \A j \in 1 .. m : rbuf[off + j] = Encode(it)[j]
         /\ Fits(Len(Encode(it))) => Bytes(Len(Encode(it))) = Encode(it)
         /\ ~Fits(Len(Encode(it))) => Len(rbuf) < Len(wbuf)
<1> DEFINE E == Encode(it)
<1>1. off \in Nat /\ rbuf \in ByteSeqs /\ off <= Len(rbuf) /\ Len(E) \in Nat
  BY DEF ReadCtx, CursorOK
<1>2. ASSUME NEW m \in 0 .. Len(E), Fits(m)
      PROVE  /\ Bytes(m) \in ByteSeqs /\ Len(Bytes(m)) = m
             /\ \A j \in 1 .. m : Bytes(m)[j] = E[j]
             /\ \A j \in 1 .. m : rbuf[off + j] = E[j]
  <2>1. off + m <= Len(rbuf)
    BY <1>2 DEF Fits
  <2>2. \A i \in off + 1 .. off + m : rbuf[i] \in 0 .. Base - 1
    BY <1>1, <2>1, BaseNat DEF ByteSeqs
  <2>3. /\ Bytes(m) \in ByteSeqs /\ Len(Bytes(m)) = m
        /\ \A j \in 1 .. m : Bytes(m)[j] = rbuf[off + j]
    <3>1. /\ SubSeq(rbuf, off + 1, off + m) \in Seq(0 .. Base - 1)
          /\ Len(SubSeq(rbuf, off + 1, off + m)) =
               IF off + 1 <= off + m THEN (off + m) - (off + 1) + 1 ELSE 0
          /\ \A i \in 1 .. (off + m) - (off + 1) + 1 :
               SubSeq(rbuf, off + 1, off + m)[i] = rbuf[(off + 1) + i - 1]
      BY <1>1, <2>2, SubSeqProperties
    <3>2. /\ (IF off + 1 <= off + m THEN (off + m) - (off + 1) + 1 ELSE 0) = m
          /\ (off + m) - (off + 1) + 1 = m
          /\ \A i \in 1 .. m : (off + 1) + i - 1 = off + i
      BY <1>1
    <3>3. QED
      BY <3>1, <3>2 DEF Bytes, ByteSeqs
  <2>4. \A j \in 1 .. m : rbuf[off + j] = wbuf[off + j]
    BY <1>1, <2>1 DEF ReadCtx, PrefixOf
  <2>5. \A j \in 1 .. m : wbuf[off + j] = E[j]
    BY <1>1 DEF ReadCtx, AtCursor
  <2>6. QED
    BY <2>3, <2>4, <2>5
<1>3. Fits(Len(E)) => Bytes(Len(E)) = E
  <2>1. SUFFICES ASSUME Fits(Len(E)) PROVE Bytes(Len(E)) = E
    OBVIOUS
  <2>2. Len(E) \in 0 .. Len(E)
    BY <1>1
  <2>3. /\ Bytes(Len(E)) \in ByteSeqs /\ Len(Bytes(Len(E))) = Len(E)
        /\ \A j \in 1 .. Len(E) : Bytes(Len(E))[j] = E[j]
    BY <1>2, <2>1, <2>2
  <2>4. QED
    BY <2>3, SeqEqual DEF ByteSeqs
<1>4. ~Fits(Len(E)) => Len(rbuf) < Len(wbuf)
  BY <1>1 DEF ReadCtx, AtCursor, Fits
<1>5. QED
  BY <1>2, <1>3, <1>4

(* The types an item may be read as: its own, or one with the same bytes. *)
LEMMA ReadTypeCases ==
  ASSUME NEW it, it.ty \in ItemTypes, NEW t \in ReadTypes(it)
  PROVE  \/ t = it.ty
         \/ t \in {"ed25519", "x25519"} /\ it.ty = "arr32"
         \/ t = "rsa" /\ it.ty = "arr20"
         \/ t = "arr20" /\ it.ty = "rsa"
         \/ t \in {"arr32", "x25519"} /\ it.ty = "secret"
         \/ it.ty = "zeros" /\ t \in ArrayTypes /\ ArrayLen[t] = it.val
<1>1. CASE it.ty = "arr32"
  BY <1>1 DEF ReadTypes
<1>2. CASE it.ty \in {"arr20", "rsa"}
  BY <1>2 DEF ReadTypes
<1>3. CASE it.ty = "secret"
  BY <1>3 DEF ReadTypes
<1>4. CASE it.ty = "zeros"
  BY <1>4 DEF ReadTypes
<1>5. CASE it.ty \notin {"arr32", "arr20", "rsa", "secret", "zeros"}
  BY <1>5 DEF ReadTypes
<1>6. QED
  BY <1>1, <1>2, <1>3, <1>4, <1>5

(* An item read as a fixed-size byte type has that type's size, and its   *)
(* value is its bytes.                                                     *)
LEMMA OctetRead ==
  ASSUME NEW it \in Writes, NEW t \in ReadTypes(it), t \in DOMAIN OctetLen
  PROVE  /\ Encode(it) \in ByteSeqs
         /\ Len(Encode(it)) = OctetLen[t]
         /\ Expected(it) = Encode(it)
<1> USE DEF OctetLen, ArrayTypes, ArrayLen, RsaIdLen
<1>1. /\ it.ty \in ItemTypes /\ Encode(it) \in ByteSeqs
      /\ it.ty \in DOMAIN OctetLen => Len(it.val) = OctetLen[it.ty]
      /\ it.ty = "zeros" => it.val \in Nat
  BY WritesAssumption DEF ByteSeqs
<1>2. CASE it.ty = "zeros"
  <2>1. t \in ArrayTypes /\ ArrayLen[t] = it.val /\ it.val \in Nat
    BY <1>1, <1>2, ReadTypeCases
  <2>2. Encode(it) = Zeros(it.val) /\ Expected(it) = Zeros(it.val)
    BY <1>2 DEF Encode, Expected, IntTypes, IntWidth
  <2>3. Len(Zeros(it.val)) = it.val
    BY <2>1, FnIsSeq DEF Zeros
  <2>4. QED
    BY <1>1, <2>1, <2>2, <2>3
<1>3. CASE it.ty # "zeros"
  <2>1. it.ty \in DOMAIN OctetLen /\ OctetLen[it.ty] = OctetLen[t]
    BY <1>1, <1>3, ReadTypeCases
  <2>2. Encode(it) = it.val /\ Expected(it) = it.val
    BY <1>3, <2>1 DEF Encode, Expected, IntTypes, IntWidth
  <2>3. QED
    BY <1>1, <2>1, <2>2
<1>4. QED
  BY <1>2, <1>3

(* Facts about an item written and the fixed-width types it may be read   *)
(* as, from WritesAssumption.                                              *)
LEMMA ItemFacts ==
  ASSUME NEW it \in Writes
  PROVE  /\ it.ty \in ItemTypes /\ Encode(it) \in ByteSeqs
         /\ it.ty \in IntTypes =>
              it.val \in Nat /\ Quotients(it.val, IntWidth[it.ty])[IntWidth[it.ty]] = 0
         /\ it.ty \in {"ga", "mac"} => it.val \in Seq(Nat)
         /\ it.ty = "ga" =>
              \A i \in DOMAIN it.val : Quotients(it.val[i], 2)[2] = 0
BY WritesAssumption DEF ByteSeqs, ElemWidth

(* impl_u!: take_uN reads back the value write_uN wrote.                   *)
LEMMA ReadInt ==
  ASSUME NEW it, ReadCtx(it), NEW t \in ReadTypes(it), t \in IntTypes, NEW n
  PROVE  ReadsBack(it, t, TakeFrom(t, n))
<1> DEFINE w == IntWidth[t]
           v == it.val
<1> USE DEF IntTypes, IntWidth, ArrayTypes, ArrayLen
<1>1. it \in Writes
  BY DEF ReadCtx
<1>2. it.ty = t
  BY <1>1, ItemFacts, ReadTypeCases DEF IntTypes, IntWidth, ArrayTypes, ArrayLen
<1>3. w \in Nat /\ v \in Nat /\ Quotients(v, w)[w] = 0
  BY <1>1, <1>2, ItemFacts DEF IntTypes, IntWidth
<1>4. Encode(it) = BE(v, w) /\ Expected(it) = v
  BY <1>2 DEF Encode, Expected, IntTypes
<1>5. Encode(it) \in ByteSeqs /\ Len(Encode(it)) = w
  BY <1>3, <1>4, BEBytes DEF ByteSeqs
<1>6. TakeFrom(t, n) = TakeInt(w)
  BY DEF TakeFrom
<1>7. CASE Fits(w)
  <2>1. Bytes(w) = Encode(it)
    BY <1>5, <1>7, PieceBytes
  <2>2. TakeFrom(t, n) = Ok(v, w)
    BY <1>3, <1>4, <1>6, <1>7, <2>1, FromBEOfBE DEF TakeInt
  <2>3. QED
    BY <1>4, <1>5, <2>2 DEF ReadsBack, Ok
<1>8. CASE ~Fits(w)
  <2>1. Len(rbuf) < Len(wbuf)
    BY <1>1, <1>5, <1>8, PieceBytes DEF ItemFacts
  <2>2. TakeFrom(t, n) = Fail(0)
    BY <1>6, <1>8 DEF TakeInt
  <2>3. QED
    BY <1>3, <1>5, <2>1, <2>2 DEF ReadsBack, Fail, BadInput
<1>9. QED
  BY <1>7, <1>8

(* impl_array!, the addresses, the keys and RSAIdentity: take_from of a   *)
(* fixed-size byte type gives back the bytes written, unless the message  *)
(* was cut short or they are not a valid Ed25519 point or signature.      *)
LEMMA ReadOctets ==
  ASSUME NEW it, ReadCtx(it), NEW t \in ReadTypes(it), t \in DOMAIN OctetLen,
         NEW n
  PROVE  ReadsBack(it, t, TakeFrom(t, n))
<1> DEFINE L == OctetLen[t]
           E == Encode(it)
<1> USE DEF IntTypes, IntWidth, ArrayTypes, ArrayLen, OctetLen, RsaIdLen
<1>1. it \in Writes
  BY DEF ReadCtx
<1>2. E \in ByteSeqs /\ Len(E) = L /\ Expected(it) = E
  BY <1>1, OctetRead
<1>3. t \in ArrayTypes \cup {"ipv4", "ipv6", "x25519", "ed25519", "sig", "rsa"}
  BY <1>1, ItemFacts, ReadTypesReadable DEF ReadableTypes
<1>4. CASE ~Fits(L)
  <2>1. Len(rbuf) < Len(wbuf)
    BY <1>2, <1>4, PieceBytes
  <2>2. TakeFrom(t, n) = Fail(0)
    <3>1. CASE t \in ArrayTypes
      BY <1>4, <3>1 DEF TakeFrom, TakeArray
    <3>2. CASE t \in {"ipv4", "ipv6"}
      BY <1>4, <3>2 DEF TakeFrom, TakeAddr
    <3>3. CASE t = "x25519"
      BY <1>4, <3>3 DEF TakeFrom, TakeCurve25519
    <3>4. CASE t = "ed25519"
      BY <1>4, <3>4 DEF TakeFrom, TakeEd25519
    <3>5. CASE t = "sig"
      BY <1>4, <3>5 DEF TakeFrom, TakeSignature
    <3>6. CASE t = "rsa"
      BY <1>4, <3>6 DEF TakeFrom, TakeRSAIdentity
    <3>7. QED
      BY <1>3, <3>1, <3>2, <3>3, <3>4, <3>5, <3>6
  <2>3. QED
    BY <1>2, <2>1, <2>2 DEF ReadsBack, BadInput, ByteSeqs, Fail
<1>5. CASE Fits(L)
  <2>1. Bytes(L) = E /\ Len(Bytes(L)) = L
    BY <1>2, <1>5, PieceBytes
  <2>2. CASE t \in {"ipv4", "ipv6"}
    <3>1. TakeFrom(t, n) = Ok(BE(FromBE(Bytes(L)), L), L)
      BY <1>5, <2>2 DEF TakeFrom, TakeAddr
    <3>2. BE(FromBE(E), Len(E)) = E
      BY <1>2, BEOfFromBE DEF ByteSeqs
    <3>3. QED
      BY <1>2, <2>1, <3>1, <3>2 DEF ReadsBack, Ok
  <2>3. CASE t \in ArrayTypes \cup {"x25519", "rsa"}
    <3>1. TakeFrom(t, n) = Ok(Bytes(L), L)
      <4>1. CASE t \in ArrayTypes
        BY <1>5, <4>1 DEF TakeFrom, TakeArray
      <4>2. CASE t = "x25519"
        BY <1>5, <4>2 DEF TakeFrom, TakeCurve25519
      <4>3. CASE t = "rsa"
        BY <1>5, <2>1, <4>3 DEF TakeFrom, TakeRSAIdentity
      <4>4. QED
        BY <2>3, <4>1, <4>2, <4>3
    <3>2. QED
      BY <1>2, <2>1, <3>1 DEF ReadsBack, Ok
  <2>4. CASE t = "ed25519"
    <3>1. TakeFrom(t, n) = IF E \in ValidPoints THEN Ok(E, L) ELSE Fail(32)
      BY <1>5, <2>1, <2>4 DEF TakeFrom, TakeEd25519
    <3>2. QED
      BY <1>2, <2>4, <3>1 DEF ReadsBack, Ok, Fail, BadInput
  <2>5. CASE t = "sig"
    <3>1. TakeFrom(t, n) = IF E \in ValidSigs THEN Ok(E, L) ELSE Fail(64)
      BY <1>5, <2>1, <2>5 DEF TakeFrom, TakeSignature
    <3>2. QED
      BY <1>2, <2>5, <3>1 DEF ReadsBack, Ok, Fail, BadInput
  <2>6. QED
    BY <1>3, <2>2, <2>3, <2>4, <2>5
<1>6. QED
  BY <1>4, <1>5

(* Integer facts of the element loop of GenericArray::take_from: k whole   *)
(* elements of w bytes fit in the x bytes left, and no more.               *)
LEMMA DivBounds ==
  ASSUME NEW x \in Nat, NEW w \in Nat \ {0}, NEW n \in Nat
  PROVE  /\ (x \div w) \in Nat
         /\ (x \div w) >= n => n * w <= x
         /\ (x \div w) < n => x < n * w
BY SMT

(* The i-th of n elements of w bytes spans bytes (i-1)*w+1 .. i*w.        *)
LEMMA SliceArith ==
  ASSUME NEW n \in Nat, NEW w \in Nat \ {0}, NEW i \in 1 .. n
  PROVE  /\ (i - 1) * w + 1 \in Nat /\ i * w \in Nat
         /\ 1 <= (i - 1) * w + 1 /\ (i - 1) * w + 1 <= i * w
         /\ i * w <= n * w /\ i * w - ((i - 1) * w + 1) + 1 = w
BY SMT

(* k whole elements, fewer than n, of w bytes are at most n of them.      *)
LEMMA FewerElems ==
  ASSUME NEW k \in Nat, NEW n \in Nat, NEW w \in Nat, k < n
  PROVE  k * w \in 0 .. n * w
BY SMT

(* GenericArray<T, N>::take_from() that fails has consumed only the whole *)
(* elements that fit before the one that did not: at most N of them.      *)
LEMMA GAAdvance ==
  ASSUME CursorOK, NEW n \in Nat, NEW w \in Nat \ {0}
  PROVE  TakeGenericArray(n, w).res # "ok" =>
           TakeGenericArray(n, w).adv \in 0 .. n * w
<1> DEFINE k == (Len(rbuf) - off) \div w
<1>1. Len(rbuf) - off \in Nat
  BY DEF CursorOK, ByteSeqs
<1>2. k \in Nat
  BY <1>1, DivBounds
<1>3. k < n => k * w \in 0 .. n * w
  BY <1>2, FewerElems
<1>4. TakeGenericArray(n, w).res # "ok" => k < n /\ TakeGenericArray(n, w).adv = k * w
  BY <1>2 DEF TakeGenericArray, Ok, Fail
<1>5. QED
  BY <1>3, <1>4

(* GenericArray<T, N>::take_from() of N elements of w bytes reads the     *)
(* elements from the bytes written, unless the message was cut short.      *)
LEMMA GenericRead ==
  ASSUME NEW it, ReadCtx(it), Encode(it) \in ByteSeqs,
         NEW n \in Nat, NEW w \in Nat \ {0}, Len(Encode(it)) = n * w
  PROVE  /\ TakeGenericArray(n, w).res = "ok" =>
              TakeGenericArray(n, w) =
                Ok([i \in 1 .. n |->
                      FromBE(SubSeq(Encode(it), (i - 1) * w + 1, i * w))], n * w)
         /\ TakeGenericArray(n, w).res # "ok" => Len(rbuf) < Len(wbuf)
<1> DEFINE E == Encode(it)
           k == (Len(rbuf) - off) \div w
<1>1. /\ off \in Nat /\ rbuf \in ByteSeqs /\ Len(rbuf) \in Nat
      /\ Len(rbuf) - off \in Nat /\ Len(E) \in Nat
      /\ off + Len(E) <= Len(wbuf)
  BY DEF ReadCtx, CursorOK, AtCursor, ByteSeqs
<1>2. CASE k >= n
  <2>1. Fits(Len(E))
    <3>1. k >= n => n * w <= Len(rbuf) - off
      BY <1>1, DivBounds
    <3>2. QED
      BY <1>1, <1>2, <3>1 DEF Fits
  <2>2. \A j \in 1 .. Len(E) : rbuf[off + j] = E[j]
    <3>1. Len(E) \in 0 .. Len(E)
      BY <1>1
    <3>2. QED
      BY <1>1, <2>1, <3>1, PieceBytes
  <2>3. ASSUME NEW i \in 1 .. n
        PROVE  SubSeq(rbuf, off + (i - 1) * w + 1, off + i * w) =
               SubSeq(E, (i - 1) * w + 1, i * w)
    <3>0. PICK a \in Nat, b \in Nat :
            /\ a = (i - 1) * w + 1 /\ b = i * w
            /\ 1 <= a /\ a <= b /\ b <= n * w /\ b - a + 1 = w
      BY SliceArith, Zenon
    <3> DEFINE R == SubSeq(rbuf, off + a, off + b)
               T == SubSeq(E, a, b)
    <3>1. /\ a \in Nat /\ b \in Nat
          /\ 1 <= a /\ a <= b /\ b <= Len(E) /\ b - a + 1 = w /\ off + b <= Len(rbuf)
      BY <1>1, <2>1, <3>0 DEF Fits
    <3>2. \A j \in off + a .. off + b : rbuf[j] \in 0 .. Base - 1
      <4> SUFFICES ASSUME NEW j \in off + a .. off + b
                   PROVE  rbuf[j] \in 0 .. Base - 1
        OBVIOUS
      <4>1. j \in 1 .. Len(rbuf)
        BY <1>1, <3>1
      <4>2. QED
        BY <4>1, <1>1, ElementOfSeq DEF ByteSeqs
    <3>3. \A j \in a .. b : E[j] \in 0 .. Base - 1
      <4> SUFFICES ASSUME NEW j \in a .. b PROVE E[j] \in 0 .. Base - 1
        OBVIOUS
      <4>1. j \in 1 .. Len(E)
        BY <1>1, <3>1
      <4>2. QED
        BY <4>1, ElementOfSeq DEF ByteSeqs
    <3>4. /\ R \in Seq(0 .. Base - 1) /\ Len(R) = w
          /\ \A j \in 1 .. w : R[j] = rbuf[off + a + j - 1]
      <4>1. /\ R \in Seq(0 .. Base - 1)
            /\ Len(R) = IF off + a <= off + b THEN (off + b) - (off + a) + 1 ELSE 0
            /\ \A j \in 1 .. (off + b) - (off + a) + 1 : R[j] = rbuf[(off + a) + j - 1]
        BY <3>1, <3>2, <1>1, SubSeqProperties
      <4>2. QED
        BY <4>1, <3>1, <1>1
    <3>5. /\ T \in Seq(0 .. Base - 1) /\ Len(T) = w
          /\ \A j \in 1 .. w : T[j] = E[a + j - 1]
      <4>1. /\ T \in Seq(0 .. Base - 1)
            /\ Len(T) = IF a <= b THEN b - a + 1 ELSE 0
            /\ \A j \in 1 .. b - a + 1 : T[j] = E[a + j - 1]
        BY <3>1, <3>3, SubSeqProperties
      <4>2. QED
        BY <4>1, <3>1
    <3>6. \A j \in 1 .. w : R[j] = T[j]
      <4> SUFFICES ASSUME NEW j \in 1 .. w PROVE R[j] = T[j]
        OBVIOUS
      <4>1. a + j - 1 \in 1 .. Len(E) /\ off + a + j - 1 = off + (a + j - 1)
        BY <3>1, <1>1
      <4>2. QED
        BY <2>2, <3>4, <3>5, <4>1
    <3>7. R = T
      BY <3>4, <3>5, <3>6, SeqEqual
    <3>8. /\ off + a = off + (i - 1) * w + 1 /\ off + b = off + i * w
          /\ a = (i - 1) * w + 1 /\ b = i * w
      BY <1>1, <3>0
    <3>9. QED
      BY <3>7, <3>8, Zenon
  <2>4. TakeGenericArray(n, w) =
          Ok([i \in 1 .. n |-> FromBE(SubSeq(E, (i - 1) * w + 1, i * w))], n * w)
    BY <1>2, <2>3 DEF TakeGenericArray
  <2>5. QED
    BY <2>4 DEF Ok
<1>3. CASE ~(k >= n)
  <2>1. Len(rbuf) < Len(wbuf)
    <3>1. k < n => Len(rbuf) - off < n * w
      BY <1>1, DivBounds
    <3>2. QED
      BY <1>1, <1>3, <3>1
  <2>2. TakeGenericArray(n, w).res = "err"
    BY <1>3 DEF TakeGenericArray, Fail
  <2>3. QED
    BY <2>1, <2>2
<1>4. QED
  BY <1>2, <1>3

(* The i-th 2-byte slice of a GenericArray<u16, N>'s bytes is the          *)
(* big-endian encoding of its i-th element.                                *)
LEMMA GASlice ==
  ASSUME NEW vals \in Seq(Nat),
         \A i \in DOMAIN vals : Quotients(vals[i], 2)[2] = 0
  PROVE  LET E == Concat([i \in 1 .. Len(vals) |-> BE(vals[i], 2)])
         IN  /\ E \in ByteSeqs /\ Len(E) = Len(vals) * 2
             /\ \A i \in 1 .. Len(vals) :
                  FromBE(SubSeq(E, (i - 1) * 2 + 1, i * 2)) = vals[i]
<1> DEFINE n == Len(vals)
           P == [i \in 1 .. n |-> BE(vals[i], 2)]
           E == Concat(P)
<1>1. n \in Nat /\ DOMAIN vals = 1 .. n
  OBVIOUS
<1>2. \A i \in 1 .. n : P[i] \in Seq(0 .. Base - 1) /\ Len(P[i]) = 2
  <2> SUFFICES ASSUME NEW i \in 1 .. n
               PROVE  P[i] \in Seq(0 .. Base - 1) /\ Len(P[i]) = 2
    OBVIOUS
  <2>1. vals[i] \in Nat /\ 2 \in Nat /\ P[i] = BE(vals[i], 2)
    BY <1>1, ElementOfSeq
  <2>2. QED
    BY <2>1, BEBytes
<1>3. P \in Seq(Seq(0 .. Base - 1)) /\ Len(P) = n
  <2>1. P \in [1 .. n -> Seq(0 .. Base - 1)]
    BY <1>2
  <2>2. QED
    BY <1>1, <2>1, FnIsSeq
<1>4. /\ Len(E) = 2 * n
      /\ \A i \in 1 .. n, j \in 1 .. 2 : E[2 * (i - 1) + j] = P[i][j]
  <2>1. \A i \in 1 .. Len(P) : Len(P[i]) = 2
    BY <1>2, <1>3
  <2>2. /\ Len(E) = 2 * Len(P)
        /\ \A i \in 1 .. Len(P), j \in 1 .. 2 : E[2 * (i - 1) + j] = P[i][j]
    BY <1>3, <2>1, ConcatPairs
  <2>3. QED
    BY <1>3, <2>2
<1>5. E \in ByteSeqs
  BY <1>3, ConcatSeq DEF ByteSeqs
<1>6. ASSUME NEW i \in 1 .. n
      PROVE  FromBE(SubSeq(E, (i - 1) * 2 + 1, i * 2)) = vals[i]
  <2>0. PICK a \in Nat, b \in Nat :
          /\ a = (i - 1) * 2 + 1 /\ b = i * 2
          /\ 1 <= a /\ b = a + 1 /\ b <= Len(E)
          /\ \A j \in 1 .. 2 : a + j - 1 = 2 * (i - 1) + j
    <3>1. Len(E) = 2 * n /\ i \in 1 .. n /\ n \in Nat
      BY <1>1, <1>4
    <3>2. /\ (i - 1) * 2 + 1 \in Nat /\ i * 2 \in Nat
          /\ 1 <= (i - 1) * 2 + 1 /\ i * 2 = ((i - 1) * 2 + 1) + 1 /\ i * 2 <= Len(E)
          /\ \A j \in 1 .. 2 : ((i - 1) * 2 + 1) + j - 1 = 2 * (i - 1) + j
      BY <3>1
    <3>3. QED
      BY <3>2, Zenon
  <2> DEFINE T == SubSeq(E, a, b)
  <2>1. \A j \in a .. b : E[j] \in 0 .. Base - 1
    <3> SUFFICES ASSUME NEW j \in a .. b PROVE E[j] \in 0 .. Base - 1
      OBVIOUS
    <3>1. j \in 1 .. Len(E)
      BY <1>1, <1>4, <2>0
    <3>2. QED
      BY <1>5, <3>1, ElementOfSeq DEF ByteSeqs
  <2>2. /\ T \in Seq(0 .. Base - 1)
        /\ Len(T) = IF a <= b THEN b - a + 1 ELSE 0
        /\ \A j \in 1 .. b - a + 1 : T[j] = E[a + j - 1]
    BY <2>1, SubSeqProperties
  <2>3. Len(T) = 2 /\ \A j \in 1 .. 2 : T[j] = E[2 * (i - 1) + j]
    BY <2>0, <2>2
  <2>4. T = P[i]
    <3>1. P[i] \in Seq(0 .. Base - 1) /\ Len(P[i]) = 2
      BY <1>2
    <3>2. \A j \in 1 .. 2 : T[j] = P[i][j]
      BY <1>4, <2>3
    <3>3. T \in Seq(0 .. Base - 1) /\ Len(T) = Len(P[i])
      BY <2>2, <2>3, <3>1
    <3>4. QED
      BY <3>1, <3>2, <3>3, SeqEqual
  <2>5. vals[i] \in Nat /\ Quotients(vals[i], 2)[2] = 0
    BY <1>1
  <2>6. FromBE(T) = vals[i]
    BY <2>4, <2>5, FromBEOfBE
  <2>7. QED
    BY <2>0, <2>6, Zenon
<1>7. QED
  BY <1>1, <1>4, <1>5, <1>6

(* The i-th 1-byte slice of a MacResult's bytes is read as its i-th byte.  *)
LEMMA MacSlice ==
  ASSUME NEW E \in ByteSeqs
  PROVE  \A i \in 1 .. Len(E) : FromBE(SubSeq(E, (i - 1) * 1 + 1, i * 1)) = E[i]
<1> SUFFICES ASSUME NEW i \in 1 .. Len(E)
             PROVE  FromBE(SubSeq(E, (i - 1) * 1 + 1, i * 1)) = E[i]
  OBVIOUS
<1>1. (i - 1) * 1 + 1 = i /\ i * 1 = i /\ i \in Int
  OBVIOUS
<1>2. E[i] \in 0 .. Base - 1
  BY ElementOfSeq DEF ByteSeqs
<1>3. SubSeq(E, i, i) = <<E[i]>>
  <2>1. \A j \in i .. i : E[j] \in 0 .. Base - 1
    BY <1>2
  <2>2. /\ SubSeq(E, i, i) \in Seq(0 .. Base - 1)
        /\ Len(SubSeq(E, i, i)) = IF i <= i THEN i - i + 1 ELSE 0
        /\ \A j \in 1 .. i - i + 1 : SubSeq(E, i, i)[j] = E[i + j - 1]
    BY <1>1, <2>1, SubSeqProperties
  <2>3. <<E[i]>> \in Seq(0 .. Base - 1) /\ Len(<<E[i]>>) = 1 /\ <<E[i]>>[1] = E[i]
    BY <1>2
  <2>4. Len(SubSeq(E, i, i)) = 1 /\ SubSeq(E, i, i)[1] = E[i]
    <3>1. i <= i /\ i - i + 1 = 1 /\ i + 1 - 1 = i
      OBVIOUS
    <3>2. QED
      BY <2>2, <3>1
  <2>5. \A j \in 1 .. 1 : SubSeq(E, i, i)[j] = <<E[i]>>[j]
    BY <2>3, <2>4
  <2>6. QED
    BY <2>2, <2>3, <2>4, <2>5, SeqEqual
<1>4. E[i] \in Nat
  BY <1>2, BaseNat
<1>5. QED
  BY <1>1, <1>3, <1>4, FromBESingle

(* GenericArray<u16, N>::take_from() reads back the elements written.      *)
LEMMA ReadGA ==
  ASSUME NEW it, ReadCtx(it), NEW t \in ReadTypes(it), t = "ga"
  PROVE  ReadsBack(it, t, TakeFrom(t, Len(it.val)))
<1> DEFINE vals == it.val
           n == Len(vals)
           E == Encode(it)
<1> USE DEF IntTypes, IntWidth, ArrayTypes, ArrayLen
<1>1. it \in Writes
  BY DEF ReadCtx
<1>2. it.ty = "ga"
  BY <1>1, ItemFacts, ReadTypeCases
<1>3. vals \in Seq(Nat) /\ \A i \in DOMAIN vals : Quotients(vals[i], 2)[2] = 0
  BY <1>1, <1>2, ItemFacts
<1>4. E = Concat([i \in 1 .. n |-> BE(vals[i], 2)]) /\ Expected(it) = vals
  <2>1. DOMAIN vals = 1 .. n
    BY <1>3
  <2>2. QED
    BY <1>2, <2>1 DEF Encode, Expected, ElemWidth
<1>5. /\ E \in ByteSeqs /\ Len(E) = n * 2 /\ n \in Nat
      /\ \A i \in 1 .. n : FromBE(SubSeq(E, (i - 1) * 2 + 1, i * 2)) = vals[i]
  <2>1. LET C == Concat([i \in 1 .. Len(vals) |-> BE(vals[i], 2)])
        IN  /\ C \in ByteSeqs /\ Len(C) = Len(vals) * 2
            /\ \A i \in 1 .. Len(vals) :
                 FromBE(SubSeq(C, (i - 1) * 2 + 1, i * 2)) = vals[i]
    BY <1>3, GASlice
  <2>2. Len(vals) \in Nat
    BY <1>3
  <2>3. QED
    BY <1>4, <2>1, <2>2, Zenon
<1>6. [i \in 1 .. n |-> FromBE(SubSeq(E, (i - 1) * 2 + 1, i * 2))] = vals
  <2> DEFINE f == [i \in 1 .. n |-> FromBE(SubSeq(E, (i - 1) * 2 + 1, i * 2))]
  <2>1. \A i \in 1 .. n : f[i] = vals[i] /\ vals[i] \in Nat
    BY <1>3, <1>5
  <2>2. f \in [1 .. n -> Nat]
    BY <2>1
  <2>3. f \in Seq(Nat) /\ Len(f) = n
    BY <1>5, <2>2, FnIsSeq
  <2>4. QED
    BY <1>3, <2>1, <2>3, SeqEqual
<1>7. TakeFrom(t, n) = TakeGenericArray(n, 2)
  BY DEF TakeFrom, ElemWidth
<1>8. /\ TakeGenericArray(n, 2).res = "ok" =>
           TakeGenericArray(n, 2) = Ok(vals, n * 2)
      /\ TakeGenericArray(n, 2).res # "ok" => Len(rbuf) < Len(wbuf)
  <2>1. 2 \in Nat \ {0}
    OBVIOUS
  <2>2. /\ TakeGenericArray(n, 2).res = "ok" =>
             TakeGenericArray(n, 2) =
               Ok([i \in 1 .. n |-> FromBE(SubSeq(E, (i - 1) * 2 + 1, i * 2))], n * 2)
        /\ TakeGenericArray(n, 2).res # "ok" => Len(rbuf) < Len(wbuf)
    BY <1>5, <2>1, GenericRead
  <2>3. QED
    BY <1>6, <2>2, Zenon
<1>9. TakeGenericArray(n, 2).res # "ok" =>
        TakeGenericArray(n, 2).adv \in 0 .. n * 2
  BY <1>5, GAAdvance DEF ReadCtx
<1>10. QED
  BY <1>4, <1>5, <1>7, <1>8, <1>9 DEF ReadsBack, Ok, BadInput

(* MacResult<N>::take_from() reads back the N bytes written.               *)
LEMMA ReadMac ==
  ASSUME NEW it, ReadCtx(it), NEW t \in ReadTypes(it), t = "mac"
  PROVE  ReadsBack(it, t, TakeFrom(t, Len(it.val)))
<1> DEFINE E == Encode(it)
           n == Len(E)
<1> USE DEF IntTypes, IntWidth, ArrayTypes, ArrayLen
<1>1. it \in Writes
  BY DEF ReadCtx
<1>2. it.ty = "mac"
  BY <1>1, ItemFacts, ReadTypeCases
<1>3. E = it.val /\ Expected(it) = it.val /\ E \in ByteSeqs
  BY <1>1, <1>2, ItemFacts DEF Encode, Expected
<1>4. /\ n \in Nat /\ Len(E) = n * 1
      /\ \A i \in 1 .. n : FromBE(SubSeq(E, (i - 1) * 1 + 1, i * 1)) = E[i]
  <2>1. n \in Nat /\ n = n * 1
    BY <1>3 DEF ByteSeqs
  <2>2. QED
    BY <1>3, <2>1, MacSlice
<1>5. [i \in 1 .. n |-> FromBE(SubSeq(E, (i - 1) * 1 + 1, i * 1))] = E
  <2> DEFINE f == [i \in 1 .. n |-> FromBE(SubSeq(E, (i - 1) * 1 + 1, i * 1))]
  <2>1. \A i \in 1 .. n : f[i] = E[i] /\ E[i] \in 0 .. Base - 1
    BY <1>3, <1>4, ElementOfSeq DEF ByteSeqs
  <2>2. f \in [1 .. n -> 0 .. Base - 1]
    BY <2>1
  <2>3. f \in Seq(0 .. Base - 1) /\ Len(f) = n
    BY <1>4, <2>2, FnIsSeq
  <2>4. QED
    BY <1>3, <2>1, <2>3, SeqEqual DEF ByteSeqs
<1>6. TakeFrom(t, n) = TakeGenericArray(n, 1)
  BY DEF TakeFrom, TakeMacResult, ElemWidth
<1>7. /\ TakeGenericArray(n, 1).res = "ok" =>
           TakeGenericArray(n, 1) = Ok(E, n * 1)
      /\ TakeGenericArray(n, 1).res # "ok" => Len(rbuf) < Len(wbuf)
  <2>1. 1 \in Nat \ {0}
    OBVIOUS
  <2>2. /\ TakeGenericArray(n, 1).res = "ok" =>
             TakeGenericArray(n, 1) =
               Ok([i \in 1 .. n |-> FromBE(SubSeq(E, (i - 1) * 1 + 1, i * 1))], n * 1)
        /\ TakeGenericArray(n, 1).res # "ok" => Len(rbuf) < Len(wbuf)
    BY <1>3, <1>4, <2>1, GenericRead
  <2>3. QED
    BY <1>5, <2>2, Zenon
<1>8. TakeGenericArray(n, 1).res # "ok" =>
        TakeGenericArray(n, 1).adv \in 0 .. n * 1
  BY <1>4, GAAdvance DEF ReadCtx
<1>9. QED
  BY <1>3, <1>4, <1>6, <1>7, <1>8 DEF ReadsBack, Ok, BadInput

-----------------------------------------------------------------------------
(* The bytes of the first m items of a schedule: none for no item, and    *)
(* one more item appends its encoding.                                     *)
LEMMA WrittenFacts ==
  ASSUME NEW s \in Seq(Writes)
  PROVE  /\ Written(s, 0) = <<>>
         /\ \A m \in 0 .. Len(s) : Written(s, m) \in ByteSeqs
         /\ \A m \in 0 .. Len(s) - 1 :
              Written(s, m + 1) = Written(s, m) \o Encode(s[m + 1])
<1>1. \A i \in 1 .. Len(s) : Encode(s[i]) \in ByteSeqs
  BY WritesAssumption DEF ByteSeqs
<1>2. ASSUME NEW m \in 0 .. Len(s)
      PROVE  Enc(s, m) \in Seq(ByteSeqs) /\ Len(Enc(s, m)) = m
  <2>1. Enc(s, m) \in [1 .. m -> ByteSeqs]
    BY <1>1 DEF Enc
  <2>2. QED
    BY <2>1, FnIsSeq
<1>3. Written(s, 0) = <<>>
  <2>1. Enc(s, 0) = <<>>
    BY DEF Enc
  <2>2. QED
    BY <2>1, ConcatEmpty DEF Written
<1>4. \A m \in 0 .. Len(s) : Written(s, m) \in ByteSeqs
  BY <1>2, ConcatSeq DEF Written, ByteSeqs
<1>5. ASSUME NEW m \in 0 .. Len(s) - 1
      PROVE  Written(s, m + 1) = Written(s, m) \o Encode(s[m + 1])
  <2>1. m + 1 \in 1 .. Len(s) /\ m \in 0 .. Len(s)
    OBVIOUS
  <2>2. Enc(s, m + 1) = Append(Enc(s, m), Encode(s[m + 1]))
    <3>1. Encode(s[m + 1]) \in ByteSeqs
      BY <1>1, <2>1
    <3>2. /\ Append(Enc(s, m), Encode(s[m + 1])) \in Seq(ByteSeqs)
          /\ Len(Append(Enc(s, m), Encode(s[m + 1]))) = m + 1
          /\ \A i \in 1 .. m : Append(Enc(s, m), Encode(s[m + 1]))[i] = Enc(s, m)[i]
          /\ Append(Enc(s, m), Encode(s[m + 1]))[m + 1] = Encode(s[m + 1])
      BY <1>2, <2>1, <3>1, AppendProperties
    <3>3. Enc(s, m + 1) \in Seq(ByteSeqs) /\ Len(Enc(s, m + 1)) = m + 1
      BY <1>2, <2>1
    <3>4. \A i \in 1 .. m + 1 :
            Enc(s, m + 1)[i] = Append(Enc(s, m), Encode(s[m + 1]))[i]
      BY <3>2 DEF Enc
    <3>5. QED
      BY <3>2, <3>3, <3>4, SeqEqual
  <2>3. QED
    BY <1>1, <1>2, <2>1, <2>2, ConcatAppend DEF Written, ByteSeqs
<1>6. QED
  BY <1>3, <1>4, <1>5

(* Reader::take_from::<T>() of every type the next item may be read as   *)
(* returns the item's value and moves past its bytes, or fails on bad     *)
(* input.                                                                  *)
LEMMA ReadOutcome ==
  ASSUME NEW it, ReadCtx(it), NEW t \in ReadTypes(it)
  PROVE  ReadsBack(it, t,
                   TakeFrom(t, IF it.ty \in {"ga", "mac"} THEN Len(it.val) ELSE 0))
<1> DEFINE n == IF it.ty \in {"ga", "mac"} THEN Len(it.val) ELSE 0
<1>1. it \in Writes
  BY DEF ReadCtx
<1>2. t \in IntTypes \cup DOMAIN OctetLen \cup {"ga", "mac"}
  BY <1>1, ItemFacts, ReadTypesReadable
  DEF ReadableTypes, OctetLen, ArrayTypes, ArrayLen
<1>3. CASE t \in IntTypes
  BY <1>3, ReadInt
<1>4. CASE t \in DOMAIN OctetLen
  BY <1>4, ReadOctets
<1>5. CASE t = "ga"
  <2>1. it.ty = "ga"
    BY <1>1, <1>5, ItemFacts, ReadTypeCases DEF ArrayTypes, ArrayLen
  <2>2. n = Len(it.val)
    BY <2>1
  <2>3. QED
    BY <1>5, <2>2, ReadGA
<1>6. CASE t = "mac"
  <2>1. it.ty = "mac"
    BY <1>1, <1>6, ItemFacts, ReadTypeCases DEF ArrayTypes, ArrayLen
  <2>2. n = Len(it.val)
    BY <2>1
  <2>3. QED
    BY <1>6, <2>2, ReadMac
<1>7. QED
  BY <1>2, <1>3, <1>4, <1>5, <1>6

(* Facts about prefixes.                                                   *)
LEMMA PrefixFacts ==
  ASSUME NEW S, NEW a \in Seq(S), NEW b \in Seq(S), NEW c \in Seq(S)
  PROVE  /\ PrefixOf(a, b) /\ PrefixOf(b, c) => PrefixOf(a, c)
         /\ PrefixOf(a, a \o b)
         /\ PrefixOf(a, a)
<1>1. PrefixOf(a, b) /\ PrefixOf(b, c) => PrefixOf(a, c)
  BY DEF PrefixOf
<1>2. PrefixOf(a, a \o b)
  <2>1. /\ Len(a \o b) = Len(a) + Len(b)
        /\ \A i \in 1 .. Len(a) + Len(b) :
             (a \o b)[i] = IF i <= Len(a) THEN a[i] ELSE b[i - Len(a)]
    BY ConcatProperties
  <2>2. QED
    BY <2>1 DEF PrefixOf
<1>3. QED
  BY <1>1, <1>2 DEF PrefixOf

-----------------------------------------------------------------------------
(* The inductive invariant of the round trip.  RoundTrip is not inductive *)
(* as it stands: that the next item read comes back rests on the message  *)
(* being the items' encodings in order (each Write appends one), on the   *)
(* Reader's bytes being a prefix of it, and on the cursor sitting at the  *)
(* end of the encodings of the items read; FailsOnlyOnBadInput rests on   *)
(* the failed take being the last one recorded, of the item after those   *)
(* read.                                                                   *)
RInv ==
  /\ IInv
  /\ \E S : rtys \in Seq(S)
  /\ \A m \in 0 .. Len(sched) : PrefixOf(Written(sched, m), wbuf)
  /\ wbuf = Written(sched, Len(sched))
  /\ PrefixOf(rbuf, wbuf)
  /\ Len(got) <= Len(sched)
  /\ phase # "err" =>
       /\ Len(rtys) = Len(got)
       /\ \A i \in 1 .. Len(got) : got[i] = Expected(sched[i])
       /\ off = Len(Written(sched, Len(got)))
  /\ phase = "done" => Len(got) = Len(sched)
  /\ phase = "err" =>
       /\ Len(rtys) = Len(got) + 1 /\ Len(got) < Len(sched)
       /\ BadInput(sched[Len(rtys)], rtys[Len(rtys)])

(* Nothing written, delivered or read.                                     *)
LEMMA InitRInv == Init => RInv
<1> SUFFICES ASSUME Init PROVE RInv
  OBVIOUS
<1>1. IInv
  BY InitIInv
<1>2. sched \in Seq(Writes) /\ Len(sched) = 0 /\ rtys \in Seq({})
  BY DEF Init
<1>3. Written(sched, 0) = <<>>
  BY <1>2, WrittenFacts
<1>4. QED
  BY <1>1, <1>2, <1>3 DEF Init, RInv, PrefixOf

(* Reader::from_slice over the message, whole or cut after k bytes.        *)
LEMMA DeliverRInv ==
  ASSUME RInv, NEW k \in 0 .. Len(wbuf), Deliver(k)
  PROVE  RInv'
<1>1. IInv'
  BY DeliverIInv DEF RInv
<1>2. phase = "write" /\ phase' = "read"
      /\ UNCHANGED <<sched, wbuf, off, rtys, got>>
  BY DEF Deliver
<1>3. got = <<>> /\ off = 0 /\ wbuf \in ByteSeqs
  BY <1>2 DEF RInv, IInv
<1>4. PrefixOf(rbuf', wbuf')
  <2>1. \A i \in 1 .. k : wbuf[i] \in 0 .. Base - 1
    BY <1>3, BaseNat DEF ByteSeqs
  <2>2. /\ Len(SubSeq(wbuf, 1, k)) = IF 1 <= k THEN k - 1 + 1 ELSE 0
        /\ \A i \in 1 .. k - 1 + 1 : SubSeq(wbuf, 1, k)[i] = wbuf[1 + i - 1]
    BY <2>1, SubSeqProperties
  <2>3. QED
    BY <1>2, <2>2 DEF Deliver, PrefixOf
<1>5. QED
  BY <1>1, <1>2, <1>3, <1>4 DEF RInv

(* Writeable::write_onto() of one more item appends its encoding.          *)
LEMMA WriteRInv ==
  ASSUME RInv, NEW it \in Writes, Write(it)
  PROVE  RInv'
<1> DEFINE N == Len(sched)
<1>1. IInv'
  BY WriteIInv DEF RInv
<1>2. /\ phase = "write" /\ sched' = Append(sched, it)
      /\ wbuf' = wbuf \o Encode(it)
      /\ UNCHANGED <<rbuf, off, rtys, got, phase>>
  BY DEF Write
<1>3. /\ sched \in Seq(Writes) /\ sched' \in Seq(Writes) /\ Len(sched') = N + 1
      /\ \A i \in 1 .. N : sched'[i] = sched[i]
      /\ sched'[N + 1] = it
  BY <1>2 DEF RInv, IInv
<1>4. \A m \in 0 .. N : Written(sched', m) = Written(sched, m)
  <2> SUFFICES ASSUME NEW m \in 0 .. N
               PROVE  Written(sched', m) = Written(sched, m)
    OBVIOUS
  <2>1. Enc(sched', m) = Enc(sched, m)
    BY <1>3 DEF Enc
  <2>2. QED
    BY <2>1 DEF Written
<1>5. /\ wbuf = Written(sched, N) /\ wbuf \in ByteSeqs
      /\ Encode(it) \in ByteSeqs
      /\ \A m \in 0 .. N : Written(sched, m) \in ByteSeqs
      /\ \A m \in 0 .. N : PrefixOf(Written(sched, m), wbuf)
  BY <1>3, WrittenFacts, WritesAssumption DEF RInv, IInv, ByteSeqs
<1>6. wbuf' = Written(sched', N + 1)
  <2>1. N \in 0 .. Len(sched') - 1
    BY <1>3
  <2>2. Written(sched', N + 1) = Written(sched', N) \o Encode(sched'[N + 1])
    BY <1>3, <2>1, WrittenFacts
  <2>3. Written(sched', N) = wbuf /\ sched'[N + 1] = it
    <3>1. N \in 0 .. N
      BY <1>3
    <3>2. QED
      BY <1>3, <1>4, <1>5, <3>1
  <2>4. QED
    BY <1>2, <2>2, <2>3
<1>7. PrefixOf(wbuf, wbuf')
  BY <1>2, <1>5, PrefixFacts DEF ByteSeqs
<1>8. wbuf' \in ByteSeqs
  BY <1>2, <1>5, ConcatProperties DEF ByteSeqs
<1>9. \A m \in 0 .. N + 1 : PrefixOf(Written(sched', m), wbuf')
  <2> SUFFICES ASSUME NEW m \in 0 .. N + 1
               PROVE  PrefixOf(Written(sched', m), wbuf')
    OBVIOUS
  <2>1. CASE m = N + 1
    BY <1>6, <1>8, <2>1, PrefixFacts DEF ByteSeqs
  <2>2. CASE m \in 0 .. N
    BY <1>4, <1>5, <1>7, <1>8, <2>2, PrefixFacts DEF ByteSeqs
  <2>3. QED
    BY <2>1, <2>2
<1>10. PrefixOf(rbuf', wbuf')
  <2>1. rbuf \in ByteSeqs /\ PrefixOf(rbuf, wbuf)
    BY DEF RInv, IInv
  <2>2. PrefixOf(rbuf, wbuf')
    <3>1. PrefixOf(rbuf, wbuf) /\ PrefixOf(wbuf, wbuf') => PrefixOf(rbuf, wbuf')
      BY <1>5, <1>8, <2>1, PrefixFacts DEF ByteSeqs
    <3>2. QED
      BY <1>7, <2>1, <3>1
  <2>3. QED
    BY <1>2, <2>2
<1>11. /\ got = <<>> /\ rtys' = rtys /\ Len(rtys) = 0 /\ off = 0
       /\ off' = Len(Written(sched', Len(got')))
  <2>1. got = <<>> /\ off = 0 /\ Len(rtys) = Len(got)
    BY <1>2 DEF RInv, IInv
  <2>2. Written(sched', 0) = <<>>
    BY <1>3, WrittenFacts
  <2>3. QED
    BY <1>2, <2>1, <2>2
<1>12. QED
  BY <1>1, <1>2, <1>3, <1>6, <1>9, <1>10, <1>11 DEF RInv

(* The second part of a concatenation follows the first.                  *)
LEMMA ConcatRight ==
  ASSUME NEW S, NEW a \in Seq(S), NEW b \in Seq(S)
  PROVE  /\ Len(a \o b) = Len(a) + Len(b)
         /\ \A j \in 1 .. Len(b) : (a \o b)[Len(a) + j] = b[j]
<1>1. /\ Len(a \o b) = Len(a) + Len(b)
      /\ \A i \in 1 .. Len(a) + Len(b) :
           (a \o b)[i] = IF i <= Len(a) THEN a[i] ELSE b[i - Len(a)]
  BY ConcatProperties
<1>2. ASSUME NEW j \in 1 .. Len(b) PROVE (a \o b)[Len(a) + j] = b[j]
  <2>1. Len(a) + j \in 1 .. Len(a) + Len(b) /\ ~(Len(a) + j <= Len(a))
        /\ Len(a) + j - Len(a) = j
    OBVIOUS
  <2>2. QED
    BY <1>1, <2>1
<1>3. QED
  BY <1>1, <1>2

(* At the cursor of a parse that has not failed lies the next item's     *)
(* bytes, so reading it as any type it may be read as reads it back.     *)
LEMMA ReadBack ==
  ASSUME RInv, phase = "read",
         NEW t \in ReadTypes(sched[Len(got) + 1])
  PROVE  ReadsBack(sched[Len(got) + 1], t,
                   TakeFrom(t, IF sched[Len(got) + 1].ty \in {"ga", "mac"}
                                 THEN Len(sched[Len(got) + 1].val) ELSE 0))
<1> DEFINE n == Len(got)
           it == sched[n + 1]
           E == Encode(it)
           k == IF it.ty \in {"ga", "mac"} THEN Len(it.val) ELSE 0
           r == TakeFrom(t, k)
<1>1. /\ sched \in Seq(Writes) /\ n \in Nat /\ n + 1 \in 1 .. Len(sched)
      /\ it \in Writes /\ E \in ByteSeqs
      /\ Len(rtys) = n /\ off = Len(Written(sched, n))
      /\ \A i \in 1 .. n : got[i] = Expected(sched[i])
      /\ PrefixOf(Written(sched, n + 1), wbuf) /\ PrefixOf(rbuf, wbuf)
      /\ wbuf = Written(sched, Len(sched))
      /\ CursorOK /\ wbuf \in ByteSeqs
  BY WritesAssumption DEF RInv, IInv, CursorOK, ByteSeqs
<1>2. AtCursor(it)
  <2>1. /\ Written(sched, n) \in ByteSeqs
        /\ Written(sched, n + 1) = Written(sched, n) \o E
    <3>1. n \in 0 .. Len(sched) /\ n \in 0 .. Len(sched) - 1
      BY <1>1
    <3>2. QED
      BY <1>1, <3>1, WrittenFacts
  <2>2. /\ Len(Written(sched, n + 1)) = off + Len(E)
        /\ \A j \in 1 .. Len(E) : Written(sched, n + 1)[off + j] = E[j]
    BY <1>1, <2>1, ConcatRight DEF ByteSeqs
  <2>4. off + Len(E) <= Len(wbuf)
    BY <1>1, <2>2 DEF PrefixOf
  <2>5. ASSUME NEW j \in 1 .. Len(E) PROVE wbuf[off + j] = E[j]
    <3>1. off + j \in 1 .. Len(Written(sched, n + 1))
      BY <1>1, <2>2 DEF CursorOK
    <3>2. wbuf[off + j] = Written(sched, n + 1)[off + j]
      BY <1>1, <3>1 DEF PrefixOf
    <3>3. QED
      BY <2>2, <3>2
  <2>6. QED
    BY <2>4, <2>5 DEF AtCursor
<1>3. ReadCtx(it)
  BY <1>1, <1>2 DEF ReadCtx
<1>4. ReadsBack(it, t, r)
  BY <1>3, ReadOutcome
<1>5. QED
  BY <1>4

(* The parser's take_from of the next item: the bytes at the cursor are    *)
(* the item's encoding, so the take returns its value and the cursor      *)
(* moves to the end of the next encoding, or the parse fails on bad input. *)
LEMMA ReadRInv ==
  ASSUME RInv, phase = "read",
         NEW t \in ReadTypes(sched[Len(got) + 1]), Read(t)
  PROVE  RInv'
<1> DEFINE n == Len(got)
           it == sched[n + 1]
           E == Encode(it)
           k == IF it.ty \in {"ga", "mac"} THEN Len(it.val) ELSE 0
           r == TakeFrom(t, k)
<1>1. IInv'
  BY ReadIInv DEF RInv
<1>2. /\ off' = off + r.adv /\ rtys' = Append(rtys, t)
      /\ UNCHANGED <<sched, wbuf, rbuf>>
      /\ IF r.res = "ok"
           THEN /\ got' = Append(got, r.val)
                /\ phase' = IF n + 1 = Len(sched) THEN "done" ELSE "read"
           ELSE phase' = r.res /\ UNCHANGED got
  BY DEF Read
<1>3. /\ sched \in Seq(Writes) /\ n \in Nat /\ n + 1 \in 1 .. Len(sched)
      /\ it \in Writes /\ E \in ByteSeqs
      /\ Len(rtys) = n /\ off = Len(Written(sched, n))
      /\ \A i \in 1 .. n : got[i] = Expected(sched[i])
      /\ PrefixOf(Written(sched, n + 1), wbuf) /\ PrefixOf(rbuf, wbuf)
      /\ wbuf = Written(sched, Len(sched))
      /\ CursorOK /\ wbuf \in ByteSeqs
  BY WritesAssumption DEF RInv, IInv, CursorOK, ByteSeqs
<1>4. PICK S : rtys \in Seq(S)
  BY DEF RInv
<1>5. PICK G : got \in Seq(G)
  BY DEF RInv, IInv
<1>8. ReadsBack(it, t, r)
  BY ReadBack
<1>9. r.res \in {"ok", "err"}
  <2>1. t \in ReadableTypes /\ k \in Nat
    BY <1>3, WritesAssumption, ReadTypesReadable
  <2>2. QED
    BY <1>3, <2>1, TakeFromSound DEF Sound
<1>10. rtys' \in Seq(S \cup {t}) /\ Len(rtys') = n + 1 /\ rtys'[n + 1] = t
  BY <1>2, <1>3, <1>4
<1>11. CASE r.res = "ok"
  <2>1. r.val = Expected(it) /\ r.adv = Len(E)
    BY <1>8, <1>11 DEF ReadsBack
  <2>2. /\ got' = Append(got, Expected(it))
        /\ phase' = IF n + 1 = Len(sched) THEN "done" ELSE "read"
    BY <1>2, <1>11, <2>1
  <2>3. /\ Len(got') = n + 1
        /\ \A i \in 1 .. n + 1 : got'[i] = Expected(sched[i])
    BY <1>3, <1>5, <2>2
  <2>4. off' = Len(Written(sched, n + 1))
    <3>1. /\ Written(sched, n) \in ByteSeqs
          /\ Written(sched, n + 1) = Written(sched, n) \o E
      <4>1. n \in 0 .. Len(sched) /\ n \in 0 .. Len(sched) - 1
        BY <1>3
      <4>2. QED
        BY <1>3, <4>1, WrittenFacts
    <3>2. Len(Written(sched, n + 1)) = off + Len(E)
      BY <1>3, <3>1, ConcatProperties DEF ByteSeqs
    <3>3. QED
      BY <1>2, <2>1, <3>2
  <2>5. QED
    BY <1>1, <1>2, <1>3, <1>10, <2>2, <2>3, <2>4 DEF RInv
<1>12. CASE r.res # "ok"
  <2>1. phase' = "err" /\ got' = got
    BY <1>2, <1>9, <1>12
  <2>2. BadInput(it, t)
    BY <1>8, <1>12 DEF ReadsBack
  <2>3. BadInput(sched[Len(rtys)], rtys[Len(rtys)])'
    BY <1>2, <1>10, <2>2 DEF BadInput
  <2>4. n < Len(sched)
    BY <1>3
  <2>5. QED
    BY <1>1, <1>2, <1>3, <1>10, <2>1, <2>3, <2>4 DEF RInv
<1>13. QED
  BY <1>11, <1>12

(* Every step keeps the inductive invariant of the round trip; a parse    *)
(* that has finished or failed takes no more steps.                        *)
LEMMA NextRInv == RInv /\ [Next]_vars => RInv'
<1> SUFFICES ASSUME RInv, [Next]_vars PROVE RInv'
  OBVIOUS
<1>1. CASE \E it \in Writes : Write(it)
  BY <1>1, WriteRInv
<1>2. CASE \E k \in 0 .. Len(wbuf) : Deliver(k)
  BY <1>2, DeliverRInv
<1>3. CASE phase = "read" /\ \E t \in ReadTypes(sched[Len(got) + 1]) : Read(t)
  BY <1>3, ReadRInv
<1>4. CASE UNCHANGED vars
  BY <1>4, Zenon DEF vars, RInv, IInv, BadInput
<1>5. QED
  BY <1>1, <1>2, <1>3, <1>4 DEF Next

(* RoundTrip (spec.md section 8): for every item of every type impls.rs   *)
(* writes and reads, every schedule of writes and every truncation of the *)
(* message, while the parse has not failed the values take_from returns   *)
(* are the values write_onto wrote, in order, the Reader's cursor sits at *)
(* the end of their encodings, and a finished parse consumed every byte.  *)
THEOREM RoundTripInvariant == Spec => []RoundTrip
<1>1. Init => RInv
  BY InitRInv
<1>2. RInv /\ [Next]_vars => RInv'
  BY NextRInv
<1>3. RInv => RoundTrip
  <2> SUFFICES ASSUME RInv PROVE RoundTrip
    OBVIOUS
  <2>1. off <= Len(rbuf)
    BY DEF RInv, IInv
  <2>2. phase # "err" =>
          /\ \A i \in 1 .. Len(got) : got[i] = Expected(sched[i])
          /\ off = Len(Concat([i \in 1 .. Len(got) |-> Encode(sched[i])]))
    BY DEF RInv, Written, Enc
  <2>3. phase = "done" => off = Len(rbuf)
    <3> SUFFICES ASSUME phase = "done" PROVE off = Len(rbuf)
      OBVIOUS
    <3>1. off = Len(wbuf)
      BY DEF RInv
    <3>2. Len(rbuf) <= Len(wbuf)
      BY DEF RInv, PrefixOf
    <3>3. QED
      BY <2>1, <3>1, <3>2 DEF RInv, IInv
  <2>4. QED
    BY <2>1, <2>2, <2>3 DEF RoundTrip
<1>4. QED
  BY <1>1, <1>2, <1>3, PTL DEF Spec

(* FailsOnlyOnBadInput: for every item set and every schedule, no parse   *)
(* panics (RSAIdentity::take_from's expect() cannot fire), and a parse     *)
(* fails only when the message was truncated or the item read as an       *)
(* Ed25519 key or signature holds bytes that do not decode as one.        *)
THEOREM FailsOnlyOnBadInputInvariant == Spec => []FailsOnlyOnBadInput
<1>1. Init => RInv
  BY InitRInv
<1>2. RInv /\ [Next]_vars => RInv'
  BY NextRInv
<1>3. RInv => FailsOnlyOnBadInput
  BY DEF RInv, IInv, BadInput, FailsOnlyOnBadInput
<1>4. QED
  BY <1>1, <1>2, <1>3, PTL DEF Spec
=============================================================================
