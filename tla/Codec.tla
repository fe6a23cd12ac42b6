------------------------------- MODULE Codec -------------------------------
(***************************************************************************)
(* The Writeable / Readable implementations of src/tor-bytes/src/impls.rs *)
(* over a Vec<u8> writer and a Reader cursor.  A message is written item   *)
(* by item, handed to a reader whole or truncated (as a peer may send it), *)
(* and read back item by item with the same types; a 32-byte array may be *)
(* read back as an Ed25519 or a Curve25519 key, and a 20-byte one as an   *)
(* RSA identity, as a parser does with bytes off the wire.                 *)
(*                                                                         *)
(* Writer::write_uN and Reader::take / take_uN are in tor-bytes' writer.rs *)
(* and reader.rs (not under src/) and are modelled from spec.md 4.1: fixed *)
(* width big-endian, and take(n) fails with "truncated" without moving the *)
(* cursor.  PublicKey::from_bytes (ed25519-dalek) accepts the byte strings *)
(* of the constant ValidPoints, Signature::from_bytes those of ValidSigs;  *)
(* RSAIdentity::from_bytes (tor-llcrypto's rsa.rs) accepts a slice iff it *)
(* is RSA_ID_LEN bytes long.                                               *)
(***************************************************************************)
EXTENDS Naturals, Sequences

CONSTANTS
  Base,         \* values of a byte: 256
  Writes,       \* the items a run may write
  ValidPoints,  \* 32-byte strings that decode as Ed25519 points
  ValidSigs,    \* 64-byte strings that decode as Ed25519 signatures
  MaxItems      \* items in one message

ASSUME CodecAssumption == Base \in Nat \ {0} /\ MaxItems \in Nat \ {0}

IntWidth == [u8 |-> 1, u16 |-> 2, u32 |-> 4, u64 |-> 8, u128 |-> 16]
ArrayLen == [arr16 |-> 16, arr20 |-> 20, arr32 |-> 32]
IntTypes == DOMAIN IntWidth
ArrayTypes == DOMAIN ArrayLen

(* The elements of a GenericArray<u16, N> are two bytes each, those of    *)
(* the GenericArray<u8, N> inside a MacResult<N> one.                      *)
ElemWidth == [ga |-> 2, mac |-> 1]

(* RSA_ID_LEN: an RSA identity is a 20-byte SHA-1 digest.                  *)
RsaIdLen == 20

(* The quotients of v by Base^0 ... Base^w, each digit shifted off the   *)
(* last: v fits in w bytes iff the last one is 0.                           *)
Quotients(v, w) ==
  LET q[k \in 0 .. w] == IF k = 0 THEN v ELSE q[k - 1] \div Base
  IN  q

(* Big-endian, fixed width: the w base-Base digits of v, most significant *)
(* first (Writer::write_u16 ... write_u128).                                *)
BE(v, w) == [i \in 1 .. w |-> Quotients(v, w)[w - i] % Base]

(* The value of big-endian digits (Reader::take_u16 ... take_u128).        *)
FromBE(s) ==
  LET val[k \in 0 .. Len(s)] == IF k = 0 THEN 0 ELSE val[k - 1] * Base + s[k]
  IN  val[Len(s)]

(* The concatenation of a sequence of byte strings, and the sequences of  *)
(* at most n elements (SequencesExt's FlattenSeq and BoundedSeq, kept here *)
(* so that the proofs about this module need no recursive operator).      *)
Concat(ss) ==
  LET c[k \in 0 .. Len(ss)] == IF k = 0 THEN <<>> ELSE c[k - 1] \o ss[k]
  IN  c[Len(ss)]

SeqUpTo(S, n) == UNION {[1 .. m -> S] : m \in 0 .. n}

(* Vec<u8>::write_zeros(n): resize with n zero bytes.                      *)
Zeros(n) == [i \in 1 .. n |-> 0]

(* The bytes write_onto() appends for an item: impl_u! calls write_uN;    *)
(* addresses, byte arrays, keys, signatures, shared secrets, RSA          *)
(* identities and MAC codes write_all their octets; a GenericArray writes *)
(* its elements in order; "zeros" is a write_zeros(n).                     *)
Encode(it) ==
  CASE it.ty \in IntTypes -> BE(it.val, IntWidth[it.ty])
    [] it.ty \in {"ipv4", "ipv6", "ed25519", "x25519", "sig", "secret", "rsa",
                  "mac"} \cup ArrayTypes -> it.val
    [] it.ty = "ga" -> Concat([i \in DOMAIN it.val |-> BE(it.val[i], ElemWidth.ga)])
    [] it.ty = "zeros" -> Zeros(it.val)

(* The types the reader may parse an item as: its own; an array of 32     *)
(* bytes also as either kind of key, one of 20 as an RSA identity and the  *)
(* other way round; a shared secret as bytes or a Curve25519 key; zeros as *)
(* an array of that length.                                                *)
ReadTypes(it) ==
  CASE it.ty = "arr32" -> {"arr32", "ed25519", "x25519"}
    [] it.ty \in {"arr20", "rsa"} -> {"arr20", "rsa"}
    [] it.ty = "secret" -> {"arr32", "x25519"}
    [] it.ty = "zeros" -> {t \in ArrayTypes : ArrayLen[t] = it.val}
    [] OTHER -> {it.ty}

(* The value a correct read of the item gives back.                        *)
Expected(it) == IF it.ty = "zeros" THEN Zeros(it.val) ELSE it.val

(* The item types of impls.rs that a message may hold.                    *)
ItemTypes ==
  IntTypes \cup ArrayTypes \cup
  {"ipv4", "ipv6", "ed25519", "x25519", "sig", "secret", "rsa", "mac", "ga",
   "zeros"}

(* The octets of the fixed-size byte types: [u8; 4] and [u8; 16] of the   *)
(* addresses, 32-byte keys and shared secrets, 64-byte signatures, the     *)
(* RSA_ID_LEN bytes of an RSA identity and the arrays.                    *)
OctetLen ==
  [ipv4 |-> 4, ipv6 |-> 16, ed25519 |-> 32, x25519 |-> 32, secret |-> 32,
   sig |-> 64, rsa |-> RsaIdLen, arr16 |-> 16, arr20 |-> 20, arr32 |-> 32]

(* The items written are values of those Rust types: each encodes to a     *)
(* byte string; a uN fits in its N/8 bytes and each u16 of a GenericArray  *)
(* in two; a fixed-size byte type has its size; the elements of a          *)
(* GenericArray or a MacResult form a sequence; write_zeros takes a count. *)
ASSUME WritesAssumption ==
  \A w \in Writes :
    /\ w.ty \in ItemTypes
    /\ Encode(w) \in Seq(0 .. Base - 1)
    /\ w.ty \in IntTypes =>
         w.val \in Nat /\ Quotients(w.val, IntWidth[w.ty])[IntWidth[w.ty]] = 0
    /\ w.ty \in DOMAIN OctetLen => Len(w.val) = OctetLen[w.ty]
    /\ w.ty \in {"ga", "mac"} => w.val \in Seq(Nat)
    /\ w.ty = "ga" =>
         \A i \in DOMAIN w.val : Quotients(w.val[i], ElemWidth.ga)[ElemWidth.ga] = 0
    /\ w.ty = "zeros" => w.val \in Nat

VARIABLES
  sched,   \* the items written, in order
  wbuf,    \* the Vec<u8> written
  rbuf,    \* the bytes handed to the Reader
  off,     \* the Reader's cursor
  rtys,    \* the types read so far (the last one may have failed)
  got,     \* the values read
  phase    \* "write", "read", "done", "err" or "panic"

vars == <<sched, wbuf, rbuf, off, rtys, got, phase>>

TypeOK ==
  /\ sched \in SeqUpTo(Writes, MaxItems)
  /\ wbuf \in Seq(0 .. Base - 1) /\ rbuf \in Seq(0 .. Base - 1)
  /\ off \in Nat
  /\ rtys \in Seq(STRING) /\ got \in Seq(UNION {{Expected(w)} : w \in Writes})
  /\ phase \in {"write", "read", "done", "err", "panic"}

Init ==
  /\ sched = <<>> /\ wbuf = <<>> /\ rbuf = <<>> /\ off = 0
  /\ rtys = <<>> /\ got = <<>> /\ phase = "write"

-----------------------------------------------------------------------------
(* Reader::take(n): the next n bytes, or "truncated" with the cursor left *)
(* where it was.                                                           *)
Fits(n) == off + n <= Len(rbuf)
Bytes(n) == SubSeq(rbuf, off + 1, off + n)

(* The outcome of a take_from: Ok, Err or a panic, the value, and how far *)
(* the cursor moved.                                                       *)
Ok(v, n) == [res |-> "ok", val |-> v, adv |-> n]
Fail(n) == [res |-> "err", val |-> <<>>, adv |-> n]
Panic == [res |-> "panic", val |-> <<>>, adv |-> 0]

(* impl_u!: T::take_from(b) is b.take_uN().                                *)
TakeInt(w) == IF Fits(w) THEN Ok(FromBE(Bytes(w)), w) ELSE Fail(0)

(* Ipv4Addr: take_u32()?.into(); Ipv6Addr: take_u128()?.into(), i.e. the  *)
(* big-endian octets of the integer.                                       *)
TakeAddr(w) == IF Fits(w) THEN Ok(BE(FromBE(Bytes(w)), w), w) ELSE Fail(0)

(* [u8; N]: r.take(N) and copy; Curve25519 PublicKey: take(32) and into(). *)
TakeArray(n) == IF Fits(n) THEN Ok(Bytes(n), n) ELSE Fail(0)

(* Ed25519 PublicKey: take(32)?, then from_bytes, mapping its error to     *)
(* BadMessage; the 32 bytes are consumed either way.                       *)
TakeEd25519 ==
  IF ~Fits(32) THEN Fail(0)
  ELSE IF Bytes(32) \in ValidPoints THEN Ok(Bytes(32), 32) ELSE Fail(32)

(* Ed25519 Signature: take(64)?, then from_bytes, its error mapped to      *)
(* BadMessage after the 64 bytes are consumed.                             *)
TakeSignature ==
  IF ~Fits(64) THEN Fail(0)
  ELSE IF Bytes(64) \in ValidSigs THEN Ok(Bytes(64), 64) ELSE Fail(64)

(* Curve25519 PublicKey: take(32)? and into(); every 32 bytes are a key.   *)
TakeCurve25519 == IF Fits(32) THEN Ok(Bytes(32), 32) ELSE Fail(0)

(* Variant of TakeRSAIdentity that takes one byte too few.                 *)
TakeRSAIdentityShort ==
  IF ~Fits(RsaIdLen - 1) THEN Fail(0)
  ELSE IF Len(Bytes(RsaIdLen - 1)) = RsaIdLen
         THEN Ok(Bytes(RsaIdLen - 1), RsaIdLen - 1) ELSE Panic

(* RSAIdentity: take(RSA_ID_LEN)?, then from_bytes(m).expect(..), which   *)
(* panics unless m is RSA_ID_LEN bytes long.                               *)
TakeRSAIdentity ==
  IF ~Fits(RsaIdLen) THEN Fail(0)
  ELSE IF Len(Bytes(RsaIdLen)) = RsaIdLen
         THEN Ok(Bytes(RsaIdLen), RsaIdLen) ELSE Panic

(* Variant of TakeGenericArray whose loop runs one element short.          *)
TakeGenericArrayShort(n, w) ==
  LET k == (Len(rbuf) - off) \div w
  IN  IF k >= n - 1
        THEN Ok([i \in 1 .. n - 1 |->
                   FromBE(SubSeq(rbuf, off + (i - 1) * w + 1, off + i * w))],
                (n - 1) * w)
        ELSE Fail(k * w)

(* GenericArray<T, N> of w-byte elements: N times T::take_from(b)?; an     *)
(* element that does not fit returns the error with the elements before   *)
(* it already consumed.                                                    *)
TakeGenericArray(n, w) ==
  LET k == (Len(rbuf) - off) \div w
  IN  IF k >= n
        THEN Ok([i \in 1 .. n |->
                   FromBE(SubSeq(rbuf, off + (i - 1) * w + 1, off + i * w))],
                n * w)
        ELSE Fail(k * w)

(* MacResult<N>: GenericArray::<u8, N>::take_from(b)? and MacResult::new.  *)
TakeMacResult(n) == TakeGenericArray(n, ElemWidth.mac)

(* Reader::take_from::<T>() for the type t; n is the element count of a   *)
(* GenericArray or a MacResult.                                            *)
TakeFrom(t, n) ==
  CASE t \in IntTypes -> TakeInt(IntWidth[t])
    [] t = "ipv4" -> TakeAddr(4)
    [] t = "ipv6" -> TakeAddr(16)
    [] t \in ArrayTypes -> TakeArray(ArrayLen[t])
    [] t = "x25519" -> TakeCurve25519
    [] t = "ed25519" -> TakeEd25519
    [] t = "sig" -> TakeSignature
    [] t = "rsa" -> TakeRSAIdentity
    [] t = "ga" -> TakeGenericArray(n, ElemWidth.ga)
    [] t = "mac" -> TakeMacResult(n)

-----------------------------------------------------------------------------
(* Writeable::write_onto(&item, &mut vec).                                *)
Write(it) ==
  /\ phase = "write"
  /\ Len(sched) < MaxItems
  /\ sched' = Append(sched, it)
  /\ wbuf' = wbuf \o Encode(it)
  /\ UNCHANGED <<rbuf, off, rtys, got, phase>>

(* The message reaches a Reader::from_slice, whole or cut after k bytes.   *)
Deliver(k) ==
  /\ phase = "write" /\ sched # <<>>
  /\ rbuf' = SubSeq(wbuf, 1, k)
  /\ phase' = "read"
  /\ UNCHANGED <<sched, wbuf, off, rtys, got>>

(* The parser reads the next item as type t with take_from; an error ends *)
(* the parse (callers propagate it with ?), and so does a panic.           *)
Read(t) ==
  LET it == sched[Len(got) + 1]
      r == TakeFrom(t, IF it.ty \in {"ga", "mac"} THEN Len(it.val) ELSE 0)
  IN  /\ phase = "read"
      /\ off' = off + r.adv
      /\ rtys' = Append(rtys, t)
      /\ IF r.res = "ok"
           THEN /\ got' = Append(got, r.val)
                /\ phase' = IF Len(got) + 1 = Len(sched) THEN "done" ELSE "read"
           ELSE phase' = r.res /\ UNCHANGED got
      /\ UNCHANGED <<sched, wbuf, rbuf>>

Next ==
  \/ \E it \in Writes : Write(it)
  \/ \E k \in 0 .. Len(wbuf) : Deliver(k)
  \/ phase = "read" /\ \E t \in ReadTypes(sched[Len(got) + 1]) : Read(t)

Spec == Init /\ [][Next]_vars

-----------------------------------------------------------------------------
(* Round trip (spec.md section 8): while the parse has not failed, the    *)
(* values read are the values written, in order, and the cursor sits at   *)
(* the end of their encodings; a finished parse consumed the whole        *)
(* message.                                                                *)
RoundTrip ==
  LET n == Len(got) IN
  /\ off <= Len(rbuf)
  /\ phase # "err" =>
       /\ \A i \in 1 .. n : got[i] = Expected(sched[i])
       /\ off = Len(Concat([i \in 1 .. n |-> Encode(sched[i])]))
  /\ phase = "done" => off = Len(rbuf)

(* A parse never panics (the expect() in RSAIdentity::take_from), and it  *)
(* fails only on bad input: the message was truncated, or an item read as *)
(* an Ed25519 key or signature does not decode as one.                     *)
FailsOnlyOnBadInput ==
  /\ phase # "panic"
  /\ phase = "err" =>
       \/ Len(rbuf) < Len(wbuf)
       \/ /\ rtys[Len(rtys)] = "ed25519"
          /\ Encode(sched[Len(rtys)]) \notin ValidPoints
       \/ /\ rtys[Len(rtys)] = "sig"
          /\ Encode(sched[Len(rtys)]) \notin ValidSigs
=============================================================================
