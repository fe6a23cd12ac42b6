---------------------------- MODULE CodecLemmas ----------------------------
(***************************************************************************)
(* Lemmas about the operators Codec is built from: Concat, the quotients  *)
(* behind BE, and FromBE.  Each is defined by a recursive function over   *)
(* 0 .. n; such a definition is a CHOOSE, so each section first shows     *)
(* that a function satisfying the recursion exists (by extending one for  *)
(* 0 .. n-1), and then reasons about it.  Every fact for all k in 0 .. n  *)
(* is shown by a least counterexample: the set of k where it fails is a   *)
(* set of naturals, has a least element if it is not empty (WFMin on the  *)
(* well-founded <), and the recursion at that element gives the          *)
(* contradiction.                                                          *)
(***************************************************************************)
EXTENDS Codec, SequenceTheorems, WellFoundedInduction, TLAPS

(* Every non-empty set of naturals has a least element.                    *)
LEMMA NatLeast ==
  ASSUME NEW T \in SUBSET Nat, T # {}
  PROVE  \E m \in T : \A k \in T : m <= k
<1>1. \E x \in T : \A y \in T : ~(<<y, x>> \in OpToRel(<, Nat))
  BY NatLessThanWellFounded, WFMin
<1>2. \A x, y \in Nat : <<y, x>> \in OpToRel(<, Nat) <=> y < x
  BY DEF OpToRel
<1>3. PICK x \in T : \A y \in T : ~(<<y, x>> \in OpToRel(<, Nat))
  BY <1>1
<1>4. \A y \in T : ~(y < x)
  BY <1>2, <1>3
<1>5. QED
  BY <1>4

-----------------------------------------------------------------------------
(* Concat: g is the function of prefixes of ss over 0 .. n.                *)
ConcatRec(ss, n, g) ==
  g = [k \in 0 .. n |-> IF k = 0 THEN <<>> ELSE g[k - 1] \o ss[k]]

(* The function Concat's LET defines.                                      *)
ConcatFn(ss) ==
  CHOOSE c : c = [k \in 0 .. Len(ss) |-> IF k = 0 THEN <<>> ELSE c[k - 1] \o ss[k]]

(* Concat is the last value of the function ConcatFn.                     *)
LEMMA ConcatIsFn ==
  ASSUME NEW ss
  PROVE  Concat(ss) = ConcatFn(ss)[Len(ss)]
BY DEF Concat, ConcatFn

(* The function of prefixes exists over 0 .. Len(ss).                      *)
LEMMA ConcatFnExists ==
  ASSUME NEW ss, Len(ss) \in Nat
  PROVE  \E g : ConcatRec(ss, Len(ss), g)
<1> DEFINE L == Len(ss)
           T == {n \in 0 .. L : ~\E g : ConcatRec(ss, n, g)}
<1> SUFFICES T = {}
  <2>1. L \in 0 .. L
    OBVIOUS
  <2>2. QED
    BY <2>1
<1>1. SUFFICES ASSUME T # {} PROVE FALSE
  OBVIOUS
<1>2. PICK m \in T : \A k \in T : m <= k
  <2>1. T \in SUBSET Nat
    OBVIOUS
  <2>2. QED
    BY <1>1, <2>1, NatLeast
<1>3. CASE m = 0
  <2>1. ConcatRec(ss, 0, [k \in 0 .. 0 |-> <<>>])
    BY DEF ConcatRec
  <2>2. QED
    BY <2>1, <1>3
<1>4. CASE m # 0
  <2>1. m - 1 \in 0 .. L /\ m - 1 \notin T
    BY <1>2, <1>4
  <2>2. PICK g : ConcatRec(ss, m - 1, g)
    BY <2>1
  <2> DEFINE h == [k \in 0 .. m |-> IF k < m THEN g[k] ELSE g[m - 1] \o ss[m]]
  <2>3. ConcatRec(ss, m, h)
    BY <2>2, <1>4 DEF ConcatRec
  <2>4. QED
    BY <2>3, <1>2
<1>5. QED
  BY <1>3, <1>4

(* ConcatFn satisfies the recursion of Concat.                            *)
LEMMA ConcatFnDef ==
  ASSUME NEW ss, Len(ss) \in Nat
  PROVE  ConcatRec(ss, Len(ss), ConcatFn(ss))
BY ConcatFnExists DEF ConcatFn, ConcatRec

(* Concat(<<>>) is empty.                                                  *)
LEMMA ConcatEmpty == Concat(<<>>) = <<>>
<1>1. ConcatRec(<<>>, 0, ConcatFn(<<>>))
  BY ConcatFnDef
<1>2. QED
  BY <1>1, ConcatIsFn DEF ConcatRec

(* Concat of ss with x appended is Concat(ss) followed by x.               *)
LEMMA ConcatAppend ==
  ASSUME NEW S, NEW ss \in Seq(Seq(S)), NEW x \in Seq(S)
  PROVE  Concat(Append(ss, x)) = Concat(ss) \o x
<1> DEFINE L == Len(ss)
           c1 == ConcatFn(ss)
           c2 == ConcatFn(Append(ss, x))
<1>1. Len(Append(ss, x)) = L + 1 /\ L \in Nat
  OBVIOUS
<1>2. ConcatRec(ss, L, c1) /\ ConcatRec(Append(ss, x), L + 1, c2)
  <2>1. ConcatRec(ss, L, c1)
    BY ConcatFnDef
  <2>2. ConcatRec(Append(ss, x), Len(Append(ss, x)), c2)
    <3>1. Len(Append(ss, x)) \in Nat
      BY <1>1
    <3>2. QED
      BY <3>1, ConcatFnDef
  <2>3. QED
    BY <1>1, <2>1, <2>2
<1> DEFINE T == {n \in 0 .. L : c2[n] # c1[n]}
<1>3. T = {}
  <2>1. SUFFICES ASSUME T # {} PROVE FALSE
    OBVIOUS
  <2>2. PICK m \in T : \A k \in T : m <= k
    <3>1. T \in SUBSET Nat
      OBVIOUS
    <3>2. QED
      BY <2>1, <3>1, NatLeast
  <2>3. CASE m = 0
    BY <1>2, <2>3 DEF ConcatRec
  <2>4. CASE m # 0
    <3>1. m - 1 \in 0 .. L /\ m - 1 \notin T
      BY <2>2, <2>4
    <3>2. c2[m - 1] = c1[m - 1]
      BY <3>1
    <3>3. m \in 1 .. L /\ m \in 0 .. L + 1 /\ Append(ss, x)[m] = ss[m]
      BY <2>4
    <3>4. c2[m] = c2[m - 1] \o Append(ss, x)[m] /\ c1[m] = c1[m - 1] \o ss[m]
      BY <1>2, <3>3 DEF ConcatRec
    <3>5. QED
      BY <3>2, <3>3, <3>4
  <2>5. QED
    BY <2>3, <2>4
<1>4. c2[L + 1] = c2[L] \o x
  <2>1. Append(ss, x)[L + 1] = x /\ L + 1 # 0 /\ L + 1 \in 0 .. L + 1
    BY <1>1
  <2>2. c2[L + 1] = c2[(L + 1) - 1] \o Append(ss, x)[L + 1]
    BY <1>2, <2>1 DEF ConcatRec
  <2>3. (L + 1) - 1 = L
    BY <1>1
  <2>4. QED
    BY <2>1, <2>2, <2>3
<1>5. c2[L] = c1[L]
  BY <1>3
<1>6. QED
  BY <1>1, <1>4, <1>5, ConcatIsFn

(* The concatenation of sequences over S is a sequence over S.             *)
LEMMA ConcatSeq ==
  ASSUME NEW S, NEW ss \in Seq(Seq(S))
  PROVE  Concat(ss) \in Seq(S)
<1> DEFINE L == Len(ss)
           c == ConcatFn(ss)
           T == {n \in 0 .. L : c[n] \notin Seq(S)}
<1>1. ConcatRec(ss, L, c)
  BY ConcatFnDef
<1>2. T = {}
  <2>1. SUFFICES ASSUME T # {} PROVE FALSE
    OBVIOUS
  <2>2. PICK m \in T : \A k \in T : m <= k
    <3>1. T \in SUBSET Nat
      OBVIOUS
    <3>2. QED
      BY <2>1, <3>1, NatLeast
  <2>3. CASE m = 0
    BY <1>1, <2>3 DEF ConcatRec
  <2>4. CASE m # 0
    <3>1. m - 1 \in 0 .. L /\ m - 1 \notin T /\ m \in 1 .. L /\ m \in 0 .. L
      BY <2>2, <2>4
    <3>2. c[m] = c[m - 1] \o ss[m]
      BY <1>1, <2>4, <3>1 DEF ConcatRec
    <3>3. c[m - 1] \in Seq(S) /\ ss[m] \in Seq(S)
      BY <3>1
    <3>4. QED
      BY <2>2, <3>2, <3>3, ConcatProperties
  <2>5. QED
    BY <2>3, <2>4
<1>3. L \in 0 .. L
  OBVIOUS
<1>4. QED
  BY <1>2, <1>3, ConcatIsFn

(* The concatenation of two-byte pieces: 2 * Len(ss) long, with byte j of *)
(* piece i at 2 * (i - 1) + j (GenericArray<u16, N>::write_onto).          *)
LEMMA ConcatPairs ==
  ASSUME NEW S, NEW ss \in Seq(Seq(S)), \A i \in 1 .. Len(ss) : Len(ss[i]) = 2
  PROVE  /\ Len(Concat(ss)) = 2 * Len(ss)
         /\ \A i \in 1 .. Len(ss), j \in 1 .. 2 :
              Concat(ss)[2 * (i - 1) + j] = ss[i][j]
<1> DEFINE L == Len(ss)
           c == ConcatFn(ss)
           P(k) == /\ c[k] \in Seq(S) /\ Len(c[k]) = 2 * k
                   /\ \A i \in 1 .. k, j \in 1 .. 2 : c[k][2 * (i - 1) + j] = ss[i][j]
           T == {n \in 0 .. L : ~P(n)}
<1>1. ConcatRec(ss, L, c)
  BY ConcatFnDef
<1>2. T = {}
  <2>1. SUFFICES ASSUME T # {} PROVE FALSE
    OBVIOUS
  <2>2. PICK m \in T : \A k \in T : m <= k
    <3>1. T \in SUBSET Nat
      OBVIOUS
    <3>2. QED
      BY <2>1, <3>1, NatLeast
  <2>3. CASE m = 0
    <3>1. c[0] = <<>>
      BY <1>1 DEF ConcatRec
    <3>2. P(0)
      BY <3>1
    <3>3. QED
      BY <2>2, <2>3, <3>2
  <2>4. CASE m # 0
    <3>1. m - 1 \in 0 .. L /\ m - 1 \notin T /\ m \in 1 .. L /\ m \in 0 .. L
      BY <2>2, <2>4
    <3>2. c[m] = c[m - 1] \o ss[m]
      BY <1>1, <2>4, <3>1 DEF ConcatRec
    <3>3. c[m - 1] \in Seq(S) /\ Len(c[m - 1]) = 2 * (m - 1)
      BY <3>1
    <3>9. \A i \in 1 .. m - 1, j \in 1 .. 2 : c[m - 1][2 * (i - 1) + j] = ss[i][j]
      BY <3>1
    <3>4. ss[m] \in Seq(S) /\ Len(ss[m]) = 2 /\ m \in Nat
      BY <3>1
    <3>5. c[m] \in Seq(S) /\ Len(c[m]) = 2 * m
      <4>1. /\ c[m - 1] \o ss[m] \in Seq(S)
            /\ Len(c[m - 1] \o ss[m]) = Len(c[m - 1]) + Len(ss[m])
        BY <3>3, <3>4, ConcatProperties
      <4>2. QED
        BY <3>2, <3>3, <3>4, <4>1
    <3>6. ASSUME NEW i \in 1 .. m, NEW j \in 1 .. 2
          PROVE  c[m][2 * (i - 1) + j] = ss[i][j]
      <4> DEFINE p == 2 * (i - 1) + j
      <4>0. /\ p \in 1 .. Len(c[m - 1]) + Len(ss[m])
            /\ c[m][p] = IF p <= Len(c[m - 1]) THEN c[m - 1][p]
                          ELSE ss[m][p - Len(c[m - 1])]
        <5>1. p \in 1 .. Len(c[m - 1]) + Len(ss[m])
          BY <3>3, <3>4
        <5>2. \A k \in 1 .. Len(c[m - 1]) + Len(ss[m]) :
                (c[m - 1] \o ss[m])[k] = IF k <= Len(c[m - 1]) THEN c[m - 1][k]
                                         ELSE ss[m][k - Len(c[m - 1])]
          BY <3>3, <3>4, ConcatProperties
        <5>3. QED
          BY <3>2, <5>1, <5>2
      <4>1. CASE i < m
        <5>1. p <= Len(c[m - 1]) /\ i \in 1 .. m - 1
          BY <3>3, <3>4, <4>1
        <5>2. QED
          BY <3>9, <4>0, <5>1
      <4>2. CASE i = m
        <5>1. ~(p <= Len(c[m - 1])) /\ p - Len(c[m - 1]) = j
          BY <3>3, <3>4, <4>2
        <5>2. QED
          BY <4>0, <4>2, <5>1
      <4>3. QED
        BY <4>1, <4>2
    <3>7. P(m)
      BY <3>5, <3>6
    <3>8. QED
      BY <2>2, <3>7
  <2>5. QED
    BY <2>3, <2>4
<1>3. L \in 0 .. L /\ P(L)
  BY <1>2
<1>4. QED
  BY <1>3, ConcatIsFn

-----------------------------------------------------------------------------
(* A byte has at least one value.                                          *)
LEMMA BaseNat == Base \in Nat \ {0}
BY CodecAssumption

(* Quotients: g is the function of quotients of v over 0 .. n.             *)
QuotRec(v, n, g) ==
  g = [k \in 0 .. n |-> IF k = 0 THEN v ELSE g[k - 1] \div Base]

(* A function satisfying the recursion of Quotients exists.              *)
LEMMA QuotExists ==
  ASSUME NEW v, NEW w \in Nat
  PROVE  \E g : QuotRec(v, w, g)
<1> DEFINE T == {n \in 0 .. w : ~\E g : QuotRec(v, n, g)}
<1> SUFFICES T = {}
  <2>1. w \in 0 .. w
    OBVIOUS
  <2>2. QED
    BY <2>1
<1>1. SUFFICES ASSUME T # {} PROVE FALSE
  OBVIOUS
<1>2. PICK m \in T : \A k \in T : m <= k
  <2>1. T \in SUBSET Nat
    OBVIOUS
  <2>2. QED
    BY <1>1, <2>1, NatLeast
<1>3. CASE m = 0
  <2>1. QuotRec(v, 0, [k \in 0 .. 0 |-> v])
    BY DEF QuotRec
  <2>2. QED
    BY <2>1, <1>3
<1>4. CASE m # 0
  <2>1. m - 1 \in 0 .. w /\ m - 1 \notin T
    BY <1>2, <1>4
  <2>2. PICK g : QuotRec(v, m - 1, g)
    BY <2>1
  <2> DEFINE h == [k \in 0 .. m |-> IF k < m THEN g[k] ELSE g[m - 1] \div Base]
  <2>3. QuotRec(v, m, h)
    <3>1. ASSUME NEW k \in 0 .. m
          PROVE  h[k] = IF k = 0 THEN v ELSE h[k - 1] \div Base
      <4>1. CASE k < m
        <5>1. k \in 0 .. m - 1 /\ (k # 0 => k - 1 \in 0 .. m - 1 /\ k - 1 < m)
          BY <4>1
        <5>2. g[k] = IF k = 0 THEN v ELSE g[k - 1] \div Base
          BY <2>2, <5>1 DEF QuotRec
        <5>3. QED
          BY <4>1, <5>1, <5>2
      <4>2. CASE k = m
        <5>1. m - 1 \in 0 .. m /\ m - 1 < m /\ ~(m < m)
          BY <1>4
        <5>2. QED
          BY <1>4, <4>2, <5>1
      <4>3. QED
        BY <4>1, <4>2
    <3>2. QED
      BY <3>1 DEF QuotRec
  <2>4. QED
    BY <2>3, <1>2
<1>5. QED
  BY <1>3, <1>4

(* Quotients(v, w) satisfies its recursion, and its values are naturals.  *)
LEMMA QuotDef ==
  ASSUME NEW v \in Nat, NEW w \in Nat
  PROVE  /\ QuotRec(v, w, Quotients(v, w))
         /\ \A k \in 0 .. w : Quotients(v, w)[k] \in Nat
<1> DEFINE q == Quotients(v, w)
<1>1. QuotRec(v, w, q)
  BY QuotExists, Zenon DEF Quotients, QuotRec
<1> DEFINE T == {n \in 0 .. w : q[n] \notin Nat}
<1>2. T = {}
  <2>1. SUFFICES ASSUME T # {} PROVE FALSE
    OBVIOUS
  <2>2. PICK m \in T : \A k \in T : m <= k
    <3>1. T \in SUBSET Nat
      OBVIOUS
    <3>2. QED
      BY <2>1, <3>1, NatLeast
  <2>3. CASE m = 0
    BY <1>1, <2>2, <2>3 DEF QuotRec
  <2>4. CASE m # 0
    <3>1. m - 1 \in 0 .. w /\ m - 1 \notin T /\ m \in 0 .. w
      BY <2>2, <2>4
    <3>2. q[m] = q[m - 1] \div Base
      BY <1>1, <2>4, <3>1 DEF QuotRec
    <3>3. QED
      BY <2>2, <3>1, <3>2, BaseNat
  <2>5. QED
    BY <2>3, <2>4
<1>3. QED
  BY <1>1, <1>2

(* FromBE: g is the function of values of the prefixes of s over 0 .. n.   *)
FromBERec(s, n, g) ==
  g = [k \in 0 .. n |-> IF k = 0 THEN 0 ELSE g[k - 1] * Base + s[k]]

(* The function FromBE's LET defines.                                      *)
FromBEFn(s) ==
  CHOOSE val : val = [k \in 0 .. Len(s) |-> IF k = 0 THEN 0 ELSE val[k - 1] * Base + s[k]]

(* FromBE is the last value of the function FromBEFn.                    *)
LEMMA FromBEIsFn ==
  ASSUME NEW s
  PROVE  FromBE(s) = FromBEFn(s)[Len(s)]
BY DEF FromBE, FromBEFn

(* A function satisfying the recursion of FromBE exists.                  *)
LEMMA FromBEExists ==
  ASSUME NEW s, NEW w \in Nat
  PROVE  \E g : FromBERec(s, w, g)
<1> DEFINE T == {n \in 0 .. w : ~\E g : FromBERec(s, n, g)}
<1> SUFFICES T = {}
  <2>1. w \in 0 .. w
    OBVIOUS
  <2>2. QED
    BY <2>1
<1>1. SUFFICES ASSUME T # {} PROVE FALSE
  OBVIOUS
<1>2. PICK m \in T : \A k \in T : m <= k
  <2>1. T \in SUBSET Nat
    OBVIOUS
  <2>2. QED
    BY <1>1, <2>1, NatLeast
<1>3. CASE m = 0
  <2>1. FromBERec(s, 0, [k \in 0 .. 0 |-> 0])
    BY DEF FromBERec
  <2>2. QED
    BY <2>1, <1>3
<1>4. CASE m # 0
  <2>1. m - 1 \in 0 .. w /\ m - 1 \notin T
    BY <1>2, <1>4
  <2>2. PICK g : FromBERec(s, m - 1, g)
    BY <2>1
  <2> DEFINE h == [k \in 0 .. m |-> IF k < m THEN g[k] ELSE g[m - 1] * Base + s[m]]
  <2>3. FromBERec(s, m, h)
    <3>1. ASSUME NEW k \in 0 .. m
          PROVE  h[k] = IF k = 0 THEN 0 ELSE h[k - 1] * Base + s[k]
      <4>1. CASE k < m
        <5>1. k \in 0 .. m - 1 /\ (k # 0 => k - 1 \in 0 .. m - 1 /\ k - 1 < m)
          BY <4>1
        <5>2. g[k] = IF k = 0 THEN 0 ELSE g[k - 1] * Base + s[k]
          BY <2>2, <5>1 DEF FromBERec
        <5>3. QED
          BY <4>1, <5>1, <5>2
      <4>2. CASE k = m
        <5>1. m - 1 \in 0 .. m /\ m - 1 < m /\ ~(m < m)
          BY <1>4
        <5>2. QED
          BY <1>4, <4>2, <5>1
      <4>3. QED
        BY <4>1, <4>2
    <3>2. QED
      BY <3>1 DEF FromBERec
  <2>4. QED
    BY <2>3, <1>2
<1>5. QED
  BY <1>3, <1>4

(* The values of the prefixes of a sequence of naturals are naturals.      *)
LEMMA FromBEDef ==
  ASSUME NEW s \in Seq(Nat)
  PROVE  /\ FromBERec(s, Len(s), FromBEFn(s))
         /\ \A k \in 0 .. Len(s) : FromBEFn(s)[k] \in Nat
<1> DEFINE f == FromBEFn(s)
           L == Len(s)
<1>0. L \in Nat
  OBVIOUS
<1>1. FromBERec(s, L, f)
  BY <1>0, FromBEExists DEF FromBEFn, FromBERec
<1> DEFINE T == {n \in 0 .. L : f[n] \notin Nat}
<1>2. T = {}
  <2>1. SUFFICES ASSUME T # {} PROVE FALSE
    OBVIOUS
  <2>2. PICK m \in T : \A k \in T : m <= k
    <3>1. T \in SUBSET Nat
      OBVIOUS
    <3>2. QED
      BY <2>1, <3>1, NatLeast
  <2>3. CASE m = 0
    BY <1>1, <2>2, <2>3 DEF FromBERec
  <2>4. CASE m # 0
    <3>1. m - 1 \in 0 .. L /\ m - 1 \notin T /\ m \in 0 .. L /\ m \in 1 .. L
      BY <2>2, <2>4
    <3>2. f[m] = f[m - 1] * Base + s[m]
      BY <1>1, <2>4, <3>1 DEF FromBERec
    <3>3. s[m] \in Nat /\ f[m - 1] \in Nat
      BY <3>1
    <3>4. QED
      BY <2>2, <3>2, <3>3, BaseNat
  <2>5. QED
    BY <2>3, <2>4
<1>3. QED
  BY <1>1, <1>2

-----------------------------------------------------------------------------
(* Euclidean division by the base.                                         *)
LEMMA DivMod ==
  ASSUME NEW x \in Nat
  PROVE  (x \div Base) * Base + (x % Base) = x
BY BaseNat

(* Quotient and remainder of a*Base + r, for a digit r.                    *)
LEMMA DivModUnique ==
  ASSUME NEW a \in Nat, NEW r \in 0 .. Base - 1
  PROVE  (a * Base + r) \div Base = a /\ (a * Base + r) % Base = r
BY BaseNat

(* A function on 1 .. w is a sequence of length w.                        *)
LEMMA FnIsSeq ==
  ASSUME NEW S, NEW w \in Nat, NEW s \in [1 .. w -> S]
  PROVE  s \in Seq(S) /\ Len(s) = w
<1>1. s \in Seq(S)
  BY SeqDef
<1>2. Len(s) \in Nat /\ DOMAIN s = 1 .. Len(s)
  BY <1>1, LenProperties
<1>3. 1 .. Len(s) = 1 .. w
  BY <1>2
<1>4. QED
  BY <1>1, <1>2, <1>3

(* BE(v, w) is w bytes.                                                    *)
LEMMA BEBytes ==
  ASSUME NEW v \in Nat, NEW w \in Nat
  PROVE  BE(v, w) \in Seq(0 .. Base - 1) /\ Len(BE(v, w)) = w
<1>1. \A i \in 1 .. w : Quotients(v, w)[w - i] % Base \in 0 .. Base - 1
  <2>1. SUFFICES ASSUME NEW i \in 1 .. w
                 PROVE  Quotients(v, w)[w - i] % Base \in 0 .. Base - 1
    OBVIOUS
  <2>2. w - i \in 0 .. w
    OBVIOUS
  <2>3. Quotients(v, w)[w - i] \in Nat
    BY <2>2, QuotDef
  <2>4. QED
    BY <2>3, BaseNat
<1>2. BE(v, w) \in [1 .. w -> 0 .. Base - 1]
  BY <1>1 DEF BE
<1>3. QED
  BY <1>2, FnIsSeq

(* Reading back the w bytes of write_uN: take_uN gives the value written, *)
(* if it fits in w bytes.                                                  *)
LEMMA FromBEOfBE ==
  ASSUME NEW v \in Nat, NEW w \in Nat, Quotients(v, w)[w] = 0
  PROVE  FromBE(BE(v, w)) = v
<1> DEFINE s == BE(v, w)
           q == Quotients(v, w)
           f == FromBEFn(s)
<1>1. s \in Seq(0 .. Base - 1) /\ Len(s) = w
  BY BEBytes
<1>2. s \in Seq(Nat)
  BY <1>1, BaseNat
<1>3. FromBERec(s, w, f)
  BY <1>1, <1>2, FromBEDef
<1>4. QuotRec(v, w, q) /\ \A k \in 0 .. w : q[k] \in Nat
  BY QuotDef
<1> DEFINE T == {k \in 0 .. w : f[k] # q[w - k]}
<1>5. T = {}
  <2>1. SUFFICES ASSUME T # {} PROVE FALSE
    OBVIOUS
  <2>2. PICK m \in T : \A k \in T : m <= k
    <3>1. T \in SUBSET Nat
      OBVIOUS
    <3>2. QED
      BY <2>1, <3>1, NatLeast
  <2>3. CASE m = 0
    <3>1. f[0] = 0 /\ w - 0 = w
      BY <1>3 DEF FromBERec
    <3>2. QED
      BY <2>2, <2>3, <3>1
  <2>4. CASE m # 0
    <3>1. m - 1 \in 0 .. w /\ m - 1 \notin T /\ m \in 1 .. w /\ m \in 0 .. w
      BY <2>2, <2>4
    <3>2. f[m] = f[m - 1] * Base + s[m]
      BY <1>3, <2>4, <3>1 DEF FromBERec
    <3>3. f[m - 1] = q[w - (m - 1)]
      BY <3>1
    <3>4. w - (m - 1) \in 1 .. w /\ w - (m - 1) - 1 = w - m /\ w - m \in 0 .. w
      BY <3>1
    <3>5. q[w - (m - 1)] = q[w - m] \div Base
      BY <1>4, <3>4 DEF QuotRec
    <3>6. s[m] = q[w - m] % Base
      BY <3>1 DEF BE
    <3>7. q[w - m] \in Nat
      BY <1>4, <3>4
    <3>8. f[m] = (q[w - m] \div Base) * Base + (q[w - m] % Base)
      BY <3>2, <3>3, <3>5, <3>6
    <3>9. f[m] = q[w - m]
      BY <3>7, <3>8, DivMod
    <3>10. QED
      BY <2>2, <3>9
  <2>5. QED
    BY <2>3, <2>4
<1>6. w \in 0 .. w /\ w - w = 0 /\ 0 \in 0 .. w
  OBVIOUS
<1>7. f[w] = q[0]
  BY <1>5, <1>6
<1>9. q[0] = v
  BY <1>4, <1>6 DEF QuotRec
<1>8. QED
  BY <1>1, <1>7, <1>9, FromBEIsFn

(* Reading w octets as a big-endian integer and converting it back to     *)
(* octets (Ipv4Addr and Ipv6Addr) gives the octets read.                   *)
LEMMA BEOfFromBE ==
  ASSUME NEW s \in Seq(0 .. Base - 1)
  PROVE  BE(FromBE(s), Len(s)) = s
<1> DEFINE w == Len(s)
           f == FromBEFn(s)
           v == f[w]
           q == Quotients(v, w)
<1>1. s \in Seq(Nat) /\ w \in Nat
  BY BaseNat
<1>2. FromBERec(s, w, f)
  BY <1>1, FromBEDef
<1>9. \A k \in 0 .. w : f[k] \in Nat
  BY <1>1, FromBEDef
<1>10. \A k \in 1 .. w : s[k] \in 0 .. Base - 1
  BY BaseNat
<1>3. v \in Nat
  BY <1>1, <1>9
<1>4. QuotRec(v, w, q)
  BY <1>1, <1>3, QuotDef
<1> DEFINE T == {k \in 0 .. w : q[k] # f[w - k]}
<1>5. T = {}
  <2>1. SUFFICES ASSUME T # {} PROVE FALSE
    OBVIOUS
  <2>2. PICK m \in T : \A k \in T : m <= k
    <3>1. T \in SUBSET Nat
      OBVIOUS
    <3>2. QED
      BY <2>1, <3>1, NatLeast
  <2>3. CASE m = 0
    <3>1. q[0] = v /\ w - 0 = w
      BY <1>1, <1>4 DEF QuotRec
    <3>2. QED
      BY <2>2, <2>3, <3>1
  <2>4. CASE m # 0
    <3>1. m - 1 \in 0 .. w /\ m - 1 \notin T /\ m \in 1 .. w /\ m \in 0 .. w
      BY <1>1, <2>2, <2>4
    <3>2. q[m] = q[m - 1] \div Base
      BY <1>4, <2>4, <3>1 DEF QuotRec
    <3>3. q[m - 1] = f[w - (m - 1)]
      BY <3>1
    <3>4. /\ w - (m - 1) \in 1 .. w /\ w - (m - 1) \in 0 .. w /\ w - (m - 1) # 0
          /\ w - (m - 1) - 1 = w - m /\ w - m \in 0 .. w
      BY <1>1, <3>1
    <3>11. f[w - (m - 1)] = f[w - (m - 1) - 1] * Base + s[w - (m - 1)]
      BY <1>2, <3>4 DEF FromBERec
    <3>5. f[w - (m - 1)] = f[w - m] * Base + s[w - (m - 1)]
      BY <3>4, <3>11
    <3>6. f[w - m] \in Nat /\ s[w - (m - 1)] \in 0 .. Base - 1
      BY <1>9, <1>10, <3>4
    <3>7. q[m] = f[w - m]
      BY <3>2, <3>3, <3>5, <3>6, DivModUnique
    <3>8. QED
      BY <2>2, <3>7
  <2>5. QED
    BY <2>3, <2>4
<1>6. ASSUME NEW i \in 1 .. w
      PROVE  BE(v, w)[i] = s[i]
  <2>1. w - i \in 0 .. w /\ w - (w - i) = i /\ i - 1 \in 0 .. w /\ i \in 0 .. w
    BY <1>1
  <2>2. BE(v, w)[i] = q[w - i] % Base
    BY DEF BE
  <2>3. q[w - i] = f[i]
    BY <1>5, <2>1
  <2>4. f[i] = f[i - 1] * Base + s[i]
    BY <1>2, <2>1 DEF FromBERec
  <2>5. f[i - 1] \in Nat /\ s[i] \in 0 .. Base - 1
    BY <1>9, <1>10, <2>1
  <2>6. QED
    BY <2>2, <2>3, <2>4, <2>5, DivModUnique
<1>7. BE(v, w) \in Seq(0 .. Base - 1) /\ Len(BE(v, w)) = w
  BY <1>1, <1>3, BEBytes
<1>8. BE(v, w) = s
  BY <1>6, <1>7, SeqEqual
<1>11. FromBE(s) = v
  BY FromBEIsFn
<1>12. QED
  BY <1>8, <1>11

(* A single byte read as a u8 is that byte (MacResult's elements).         *)
LEMMA FromBESingle ==
  ASSUME NEW b \in Nat
  PROVE  FromBE(<<b>>) = b
<1>1. <<b>> \in Seq(Nat) /\ Len(<<b>>) = 1
  OBVIOUS
<1>2. FromBERec(<<b>>, 1, FromBEFn(<<b>>))
  BY <1>1, FromBEDef
<1>3. FromBEFn(<<b>>)[1] = FromBEFn(<<b>>)[1 - 1] * Base + <<b>>[1]
  BY <1>2 DEF FromBERec
<1>4. FromBEFn(<<b>>)[0] = 0
  BY <1>2 DEF FromBERec
<1>5. FromBEFn(<<b>>)[1] = b
  BY <1>3, <1>4, BaseNat
<1>6. QED
  BY <1>1, <1>5, FromBEIsFn
=============================================================================
