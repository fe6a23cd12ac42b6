--------------------------- MODULE ExitPathProofs ---------------------------
(***************************************************************************)
(* Proofs about ExitPath for every set of relays, ports and exit policies, *)
(* every directory and every builder: each path pick_path() can return is  *)
(* valid.  The argument follows the three nested choices of pick_path():   *)
(* the exit, the middle outside the exit's family, the entry outside both. *)
(***************************************************************************)
EXTENDS ExitPath, TLAPS

(* The conditions PathValid puts on the hops h of a returned path.         *)
ValidHops(b, d, h) ==
  /\ \A i, j \in 1 .. 3 : i # j => h[i] # h[j]
  /\ \A i, j \in 1 .. 3 : i # j => ~InSameFamily(d, h[i], h[j])
  /\ b.kind = "WantsPorts" => SupportsAll(d, b.ports, h[3])
  /\ b.kind = "ChosenExit" => h[3] = b.exit

(* Relay::in_same_family() is symmetric, and every relay is in its own    *)
(* family.                                                                 *)
LEMMA FamilySymmetric ==
  ASSUME NEW d, NEW a, NEW b
  PROVE  /\ InSameFamily(d, a, b) <=> InSameFamily(d, b, a)
         /\ InSameFamily(d, a, a)
<1>1. {a, b} = {b, a}
  OBVIOUS
<1>2. QED
  BY <1>1 DEF InSameFamily

(* Three relays, no two of one family, are pairwise distinct and stay     *)
(* apart in every order.                                                   *)
LEMMA ThreeApart ==
  ASSUME NEW d, NEW g, NEW m, NEW e,
         ~InSameFamily(d, m, e), ~InSameFamily(d, g, m), ~InSameFamily(d, g, e)
  PROVE  LET h == <<g, m, e>> IN
         /\ \A i, j \in 1 .. 3 : i # j => h[i] # h[j]
         /\ \A i, j \in 1 .. 3 : i # j => ~InSameFamily(d, h[i], h[j])
<1> DEFINE h == <<g, m, e>>
<1>1. ~InSameFamily(d, e, m) /\ ~InSameFamily(d, m, g) /\ ~InSameFamily(d, e, g)
  BY FamilySymmetric
<1>2. \A i, j \in 1 .. 3 : i # j => ~InSameFamily(d, h[i], h[j])
  <2> SUFFICES ASSUME NEW i \in 1 .. 3, NEW j \in 1 .. 3, i # j
               PROVE  ~InSameFamily(d, h[i], h[j])
    OBVIOUS
  <2>1. (i = 1 /\ j = 2) \/ (i = 1 /\ j = 3) \/ (i = 2 /\ j = 1)
        \/ (i = 2 /\ j = 3) \/ (i = 3 /\ j = 1) \/ (i = 3 /\ j = 2)
    OBVIOUS
  <2>2. QED
    BY <1>1, <2>1
<1>3. \A i, j \in 1 .. 3 : i # j => h[i] # h[j]
  BY <1>2, FamilySymmetric
<1>4. QED
  BY <1>2, <1>3

(* Every path pick_path() may return for a builder and a directory has    *)
(* three distinct relays of distinct families and the exit the builder    *)
(* asks for: the middle is picked outside the exit's family, the entry     *)
(* outside both, and the exit among the candidates of pick_exit().         *)
LEMMA PickPathValid ==
  ASSUME NEW b, NEW d, NEW p \in PickPath(b, d), p.kind = "Path"
  PROVE  ValidHops(b, d, p.hops)
<1>1. d # Fallbacks /\ ExitCandidates(b, d) # {}
  BY DEF PickPath, Err
<1>2. PICK e \in ExitCandidates(b, d) :
        p \in IF MiddleCandidates(d, e) = {} THEN {Err("NoMiddle")}
              ELSE UNION {
                IF EntryCandidates(d, m, e) = {} THEN {Err("NoEntry")}
                ELSE {[kind |-> "Path", hops |-> <<g, m, e>>] :
                        g \in EntryCandidates(d, m, e)}
                : m \in MiddleCandidates(d, e)}
  BY <1>1 DEF PickPath
<1>3. MiddleCandidates(d, e) # {}
  BY <1>2 DEF Err
<1>4. PICK m \in MiddleCandidates(d, e) :
        p \in IF EntryCandidates(d, m, e) = {} THEN {Err("NoEntry")}
              ELSE {[kind |-> "Path", hops |-> <<g, m, e>>] :
                      g \in EntryCandidates(d, m, e)}
  BY <1>2, <1>3
<1>5. EntryCandidates(d, m, e) # {}
  BY <1>4 DEF Err
<1>6. PICK g \in EntryCandidates(d, m, e) :
        p = [kind |-> "Path", hops |-> <<g, m, e>>]
  BY <1>4, <1>5
<1>7. /\ ~InSameFamily(d, m, e) /\ ~InSameFamily(d, g, m)
      /\ ~InSameFamily(d, g, e)
  BY <1>4, <1>6 DEF MiddleCandidates, EntryCandidates
<1>8. b.kind = "WantsPorts" => SupportsAll(d, b.ports, e)
  BY <1>2 DEF ExitCandidates
<1>9. b.kind = "ChosenExit" => e = b.exit
  BY <1>2 DEF ExitCandidates
<1>10. QED
  BY <1>6, <1>7, <1>8, <1>9, ThreeApart DEF ValidHops

(* The result is either not yet computed or one pick_path() can return.   *)
IInv == result = Err("None") \/ result \in PickPath(builder, dirinfo)

(* PathValid: every path pick_path() returns, for every directory, every   *)
(* builder of from_target_ports() or from_chosen_exit() and every random   *)
(* choice, has three pairwise distinct relays, no two in one family, and  *)
(* an exit that allows every wanted port or is the chosen exit.           *)
THEOREM PathValidInvariant == Spec => []PathValid
<1>1. Init => IInv
  BY DEF Init, IInv
<1>2. IInv /\ [Next]_vars => IInv'
  BY DEF IInv, Next, Pick, vars
<1>3. IInv => PathValid
  <2> SUFFICES ASSUME IInv, result.kind = "Path"
               PROVE  ValidHops(builder, dirinfo, result.hops)
    BY DEF PathValid, ValidHops
  <2>1. result \in PickPath(builder, dirinfo)
    BY DEF IInv, Err
  <2>2. QED
    BY <2>1, PickPathValid
<1>4. QED
  BY <1>1, <1>2, <1>3, PTL DEF Spec
=============================================================================
