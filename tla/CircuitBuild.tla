---------------------------- MODULE CircuitBuild ----------------------------
(***************************************************************************)
(* TorPath::build_circuit() of src/tor-circmgr/src/path.rs: get a channel *)
(* to the first hop, open a pending circuit on it, spawn the circuit's     *)
(* reactor as a detached task, then run the first-hop handshake and one    *)
(* extend_ntor() per further hop, in order.                                *)
(*                                                                         *)
(* Every handshake sends a cell and awaits the answer, which only the      *)
(* reactor delivers (it reads the channel).  The channel may close at any  *)
(* time; the reactor then ends and a handshake waiting on it fails.  The   *)
(* caller may drop the build_circuit() future at any await point.  The     *)
(* outcomes of get_or_launch(), new_circ() and the relays' answers are     *)
(* chosen nondeterministically (ChanMgr, Channel and the handshakes are    *)
(* not under src/; modelled from spec.md 4.4.2).                           *)
(***************************************************************************)
EXTENDS Naturals, Sequences

CONSTANTS
  Relays,    \* the relays a path may name
  Fallback,  \* the FallbackDir of a FallbackOneHop path
  MaxHops    \* the longest multi-hop path of a run

ASSUME BuildAssumption == MaxHops \in Nat \ {0} /\ Fallback \notin Relays

(* Sequences of at most n elements of S (SequencesExt's BoundedSeq, kept  *)
(* here so that the proofs about this module need no recursive operator). *)
SeqUpTo(S, n) == UNION {[1 .. m -> S] : m \in 0 .. n}

(* s is a prefix of t (SequencesExt's IsPrefix, likewise).                 *)
Prefix(s, t) == Len(s) <= Len(t) /\ \A i \in 1 .. Len(s) : s[i] = t[i]

(* TorPath: OneHop(relay), FallbackOneHop(fallback) or Path(Vec<Relay>).  *)
TorPaths ==
  [kind : {"OneHop"}, relay : Relays] \cup
  [kind : {"FallbackOneHop"}] \cup
  [kind : {"Path"}, hops : SeqUpTo(Relays, MaxHops)]

(* The hops a finished circuit must have: the path's relays in order; a   *)
(* one-hop circuit to the relay or to the fallback.                        *)
Hops(p) ==
  CASE p.kind = "OneHop" -> <<p.relay>>
    [] p.kind = "FallbackOneHop" -> <<Fallback>>
    [] p.kind = "Path" -> p.hops

VARIABLES
  path,     \* self
  pc,       \* where build_circuit() is
  circ,     \* the hops the circuit has been built through
  chan,     \* the channel to the first hop
  reactor,  \* the circuit reactor task
  req,      \* the handshake waiting for its answer
  result    \* what build_circuit() returned

vars == <<path, pc, circ, chan, reactor, req, result>>

PCs == {"get_channel", "new_circ", "handshake", "done", "dropped"}
Results == {"none", "ok", "NoRelays", "ChanErr", "CircErr"}

TypeOK ==
  /\ path \in TorPaths
  /\ pc \in PCs
  /\ circ \in SeqUpTo(Relays \cup {Fallback}, MaxHops)
  /\ chan \in {"none", "open", "closed"}
  /\ reactor \in {"none", "running", "ended"}
  /\ req \in {"none", "sent", "ok", "fail"}
  /\ result \in Results

Init ==
  /\ path \in TorPaths
  /\ pc = "get_channel"
  /\ circ = <<>>
  /\ chan = "none"
  /\ reactor = "none"
  /\ req = "none"
  /\ result = "none"

Return(r) == pc' = "done" /\ result' = r

-----------------------------------------------------------------------------
(* get_channel(): first_hop() fails on an empty Path; otherwise           *)
(* chanmgr.get_or_launch(first_hop) returns an open channel or an error.  *)
GetChannel ==
  /\ pc = "get_channel"
  /\ \/ /\ path.kind = "Path" /\ path.hops = <<>>
        /\ Return("NoRelays")
        /\ UNCHANGED chan
     \/ /\ ~(path.kind = "Path" /\ path.hops = <<>>)
        /\ \/ chan' = "open" /\ pc' = "new_circ" /\ UNCHANGED result
           \/ Return("ChanErr") /\ UNCHANGED chan
  /\ UNCHANGED <<path, circ, reactor, req>>

(* Variant of NewCirc that leaves the reactor unspawned.                   *)
NewCircNoSpawn ==
  /\ pc = "new_circ"
  /\ \/ chan = "open" /\ pc' = "handshake" /\ UNCHANGED result
     \/ Return("CircErr")
  /\ UNCHANGED <<path, circ, chan, reactor, req>>

(* chan.new_circ(rng).await: on success the reactor is spawned at once     *)
(* (no await between them), on a closed channel or an error it returns.   *)
NewCirc ==
  /\ pc = "new_circ"
  /\ \/ /\ chan = "open"
        /\ reactor' = "running"
        /\ pc' = "handshake"
        /\ UNCHANGED result
     \/ Return("CircErr") /\ UNCHANGED reactor
  /\ UNCHANGED <<path, circ, chan, req>>

(* The target of the next handshake: the first hop, then p[1..] in order. *)
NextHop == Hops(path)[Len(circ) + 1]

(* create_firsthop_fast / create_firsthop_ntor(&p[0]) / extend_ntor(hop): *)
(* when every hop is built return Ok(circ); on a closed channel the send   *)
(* fails; otherwise the cell goes out and the handshake awaits its answer. *)
SendHandshake ==
  /\ pc = "handshake" /\ req = "none"
  /\ IF Len(circ) = Len(Hops(path))
       THEN Return("ok") /\ UNCHANGED req
     ELSE IF chan = "closed"
       THEN Return("CircErr") /\ UNCHANGED req
     ELSE req' = "sent" /\ UNCHANGED <<pc, result>>
  /\ UNCHANGED <<path, circ, chan, reactor>>

(* The reactor reads the relay's answer (CREATED/EXTENDED or a failure)   *)
(* and hands it to the waiting handshake.                                  *)
ReactorDeliver ==
  /\ reactor = "running" /\ req = "sent"
  /\ req' \in {"ok", "fail"}
  /\ UNCHANGED <<path, pc, circ, chan, reactor, result>>

(* The handshake's await returns: the hop is added, or the error is       *)
(* propagated with ?.                                                      *)
FinishHandshake ==
  /\ pc = "handshake"
  /\ \/ req = "ok" /\ circ' = Append(circ, NextHop) /\ UNCHANGED <<pc, result>>
     \/ req = "fail" /\ Return("CircErr") /\ UNCHANGED circ
  /\ req' = "none"
  /\ UNCHANGED <<path, chan, reactor>>

(* The channel closes; the reactor ends, dropping the answer senders of   *)
(* the handshake it served.                                                *)
ChannelClose ==
  /\ chan = "open"
  /\ chan' = "closed"
  /\ reactor' = IF reactor = "running" THEN "ended" ELSE reactor
  /\ req' = IF req = "sent" THEN "fail" ELSE req
  /\ UNCHANGED <<path, pc, circ, result>>

(* The caller drops the build_circuit() future at an await point; the     *)
(* detached reactor keeps running.                                         *)
Drop ==
  /\ pc \in {"get_channel", "new_circ", "handshake"}
  /\ pc' = "dropped"
  /\ UNCHANGED <<path, circ, chan, reactor, req, result>>

Next ==
  \/ GetChannel \/ NewCirc \/ SendHandshake \/ ReactorDeliver
  \/ FinishHandshake \/ ChannelClose \/ Drop

Spec == Init /\ [][Next]_vars

-----------------------------------------------------------------------------
(* Every handshake that awaits its answer has someone to answer it: the   *)
(* reactor was spawned (path.rs:65-69, before the first handshake) and is  *)
(* running on an open channel, because closing the channel ends the       *)
(* reactor and fails the waiting handshake in the same step.  Without the *)
(* spawn, or with a send on a closed channel, the await never completes.  *)
HandshakeAnswerable == req = "sent" => reactor = "running" /\ chan = "open"
=============================================================================
