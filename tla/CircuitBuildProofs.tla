------------------------- MODULE CircuitBuildProofs -------------------------
(***************************************************************************)
(* Proofs about CircuitBuild for every set of relays and every bound on    *)
(* the path length: a handshake of build_circuit() only ever awaits an     *)
(* answer while the reactor spawned for its circuit runs on an open        *)
(* channel, whatever the channel, the relays' answers and the caller do.   *)
(***************************************************************************)
EXTENDS CircuitBuild, TLAPS

(* The inductive invariant.  HandshakeAnswerable alone is not inductive:  *)
(* a handshake is sent only while build_circuit() is at the handshakes     *)
(* with its channel not closed, and it needs that then the channel is     *)
(* open and the reactor running.  That holds because new_circ() succeeds  *)
(* only on an open channel and the reactor is spawned in the same step,   *)
(* and the channel closes only together with the reactor's end; and no    *)
(* handshake is outstanding before the circuit exists.                    *)
IInv ==
  /\ pc \in {"get_channel", "new_circ"} => req = "none"
  /\ pc = "handshake" => chan \in {"open", "closed"}
  /\ pc = "handshake" /\ chan = "open" => reactor = "running"
  /\ HandshakeAnswerable

-----------------------------------------------------------------------------
(* The initial state: no channel, no reactor, nothing sent.                *)
LEMMA InitIInv == Init => IInv
BY DEF Init, IInv, HandshakeAnswerable

(* Every step of build_circuit(), the reactor, the channel and the caller *)
(* keeps the inductive invariant.                                          *)
LEMMA NextIInv == IInv /\ [Next]_vars => IInv'
<1> SUFFICES ASSUME IInv, [Next]_vars PROVE IInv'
  OBVIOUS
<1>1. CASE GetChannel
  <2>1. pc' \in {"new_circ", "done"} /\ UNCHANGED <<reactor, req>>
    BY <1>1 DEF GetChannel, Return
  <2>2. req = "none"
    BY <1>1 DEF GetChannel, IInv
  <2>3. QED
    BY <2>1, <2>2 DEF IInv, HandshakeAnswerable
<1>2. CASE NewCirc
  <2>1. req = "none" /\ UNCHANGED <<req, chan>>
    BY <1>2 DEF NewCirc, IInv
  <2>2. pc' = "handshake" => chan = "open" /\ reactor' = "running"
    BY <1>2 DEF NewCirc, Return
  <2>3. pc' \in {"handshake", "done"}
    BY <1>2 DEF NewCirc, Return
  <2>4. QED
    BY <2>1, <2>2, <2>3 DEF IInv, HandshakeAnswerable
<1>3. CASE SendHandshake
  <2>1. pc = "handshake" /\ req = "none" /\ UNCHANGED <<chan, reactor>>
    BY <1>3 DEF SendHandshake
  <2>2. req' = "sent" => chan # "closed" /\ pc' = "handshake"
    BY <1>3, <2>1 DEF SendHandshake, Return
  <2>3. pc' \in {"handshake", "done"}
    BY <1>3 DEF SendHandshake, Return
  <2>4. req' \in {"none", "sent"}
    BY <1>3 DEF SendHandshake
  <2>5. QED
    BY <2>1, <2>2, <2>3, <2>4 DEF IInv, HandshakeAnswerable
<1>4. CASE ReactorDeliver
  <2>1. req' \in {"ok", "fail"} /\ UNCHANGED <<pc, chan, reactor>>
    BY <1>4 DEF ReactorDeliver
  <2>2. req = "sent"
    BY <1>4 DEF ReactorDeliver
  <2>3. QED
    BY <2>1, <2>2 DEF IInv, HandshakeAnswerable
<1>5. CASE FinishHandshake
  <2>1. pc = "handshake" /\ req' = "none" /\ UNCHANGED <<chan, reactor>>
    BY <1>5 DEF FinishHandshake
  <2>2. pc' \in {"handshake", "done"}
    BY <1>5 DEF FinishHandshake, Return
  <2>3. QED
    BY <2>1, <2>2 DEF IInv, HandshakeAnswerable
<1>6. CASE ChannelClose
  <2>1. chan' = "closed" /\ UNCHANGED pc
    BY <1>6 DEF ChannelClose
  <2>2. req' # "sent" /\ (req = "none" => req' = "none")
    BY <1>6 DEF ChannelClose
  <2>3. QED
    BY <2>1, <2>2 DEF IInv, HandshakeAnswerable
<1>7. CASE Drop
  <2>1. pc' = "dropped" /\ UNCHANGED <<chan, reactor, req>>
    BY <1>7 DEF Drop
  <2>2. QED
    BY <2>1 DEF IInv, HandshakeAnswerable
<1>8. CASE UNCHANGED vars
  BY <1>8 DEF vars, IInv, HandshakeAnswerable
<1>9. QED
  BY <1>1, <1>2, <1>3, <1>4, <1>5, <1>6, <1>7, <1>8 DEF Next

(* HandshakeAnswerable: for every path and bound, whenever a handshake of *)
(* build_circuit() awaits its answer, the circuit reactor spawned after   *)
(* new_circ() is running on an open channel, so the await has a task that *)
(* can complete it; when the channel closes the handshake fails instead.  *)
THEOREM HandshakeAnswerableInvariant == Spec => []HandshakeAnswerable
<1>1. Init => IInv
  BY InitIInv
<1>2. IInv /\ [Next]_vars => IInv'
  BY NextIInv
<1>3. IInv => HandshakeAnswerable
  BY DEF IInv
<1>4. QED
  BY <1>1, <1>2, <1>3, PTL DEF Spec
=============================================================================
