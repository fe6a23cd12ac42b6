---------------------------- MODULE FlowControl ----------------------------
(***************************************************************************)
(* One direction of SENDME flow control end to end: a sender task gated   *)
(* by a SendWindow, the circuit carrying its data cells in order to a peer *)
(* whose dispatcher counts them with a RecvWindow, and the SENDMEs the     *)
(* peer sends back, which the sender's dispatcher hands to put().          *)
(*                                                                         *)
(* The peer follows the same window rules as RecvWindow; each SENDME it    *)
(* sends echoes the tag of the cell that made it due, or carries no tag    *)
(* (a peer without authenticated SENDMEs).  A circuit is reliable and in   *)
(* order, so both directions are FIFO sequences.  A protocol error on      *)
(* either side (window underflow at the peer, a rejected SENDME at the     *)
(* sender) tears the circuit down and ends the behaviour.                  *)
(*                                                                         *)
(* The sender never abandons a take() here; cancellation is the subject of *)
(* the SendWindow runs.                                                    *)
(***************************************************************************)
EXTENDS Naturals, Sequences, FiniteSets

CONSTANTS Max, Inc, InitWindow, Tags, NoTag

VARIABLES
  window, tags, unblock, pc, ptag,  \* the sender's SendWindow and task
  fwd,      \* data cells in flight to the peer, each carrying its tag
  back,     \* SENDMEs in flight to the sender, each with a tag or NoTag
  rwindow,  \* the peer's RecvWindow.window
  proto     \* "ok", or the protocol error that closed the circuit

vars == <<window, tags, unblock, pc, ptag, fwd, back, rwindow, proto>>
peerVars == <<fwd, back, rwindow, proto>>

SW == INSTANCE SendWindow

(* The parameters of the sender's window, which the peer's shares.         *)
ASSUME FlowParamsAssumption ==
  /\ Inc \in Nat \ {0}
  /\ Max \in Nat
  /\ Max % Inc = 0
  /\ Max + Inc <= SW!U16Max
  /\ InitWindow \in 0 .. Max
  /\ Tags # {}
  /\ NoTag \notin Tags
RW == INSTANCE RecvWindow WITH window <- rwindow, open <- TRUE, MaxBulk <- 1

TypeOK ==
  /\ SW!TypeOK
  /\ fwd \in Seq(Tags)
  /\ back \in Seq(Tags \cup {NoTag})
  /\ rwindow \in Nat /\ rwindow <= SW!U16Max
  /\ proto \in {"ok", "recv_underflow", "bad_sendme"}

Init ==
  /\ SW!Init
  /\ fwd = <<>>
  /\ back = <<>>
  /\ rwindow = InitWindow
  /\ proto = "ok"

-----------------------------------------------------------------------------
(* The application asks to send a data cell; t is the tag the crypto      *)
(* layer computed for it.                                                  *)
BeginSend(t) ==
  /\ proto = "ok"
  /\ SW!BeginTake(t)
  /\ UNCHANGED peerVars

(* take() returns: the cell is transmitted.                                *)
SendCell ==
  /\ proto = "ok"
  /\ SW!TakeSend
  /\ fwd' = Append(fwd, ptag)
  /\ UNCHANGED <<back, rwindow, proto>>

(* take() finds the window empty and parks.                                *)
Park ==
  /\ proto = "ok"
  /\ SW!TakePark
  /\ UNCHANGED peerVars

(* The peer's dispatcher takes the next data cell: RecvWindow take(); on  *)
(* Some(true) it sends a SENDME (tagged with the cell's tag, or untagged)  *)
(* and calls put(); on None it closes the circuit.                         *)
PeerReceive ==
  /\ proto = "ok"
  /\ fwd # <<>>
  /\ fwd' = Tail(fwd)
  /\ UNCHANGED <<window, tags, unblock, pc, ptag>>
  /\ \/ /\ ~RW!CanTake
        /\ proto' = "recv_underflow"
        /\ UNCHANGED <<back, rwindow>>
     \/ /\ RW!CanTake /\ ~RW!SendmeDue
        /\ rwindow' = rwindow - 1
        /\ UNCHANGED <<back, proto>>
     \/ /\ RW!CanTake /\ RW!SendmeDue
        /\ rwindow' = RW!Put(rwindow - 1)
        /\ \E st \in {Head(fwd), NoTag} : back' = Append(back, st)
        /\ UNCHANGED proto

(* The sender's dispatcher hands the next SENDME to put(); a None closes   *)
(* the circuit with a protocol error.                                      *)
ReceiveSendme ==
  /\ proto = "ok"
  /\ back # <<>>
  /\ SW!Put(Head(back))
  /\ back' = Tail(back)
  /\ proto' = IF SW!Accepts(Head(back)) /\ window + Inc <= SW!U16Max
                THEN "ok" ELSE "bad_sendme"
  /\ UNCHANGED <<fwd, rwindow>>

Next ==
  \/ \E t \in Tags : BeginSend(t)
  \/ SendCell
  \/ Park
  \/ PeerReceive
  \/ ReceiveSendme

(* The executor polls every woken task, and each dispatcher keeps reading  *)
(* while its channel has cells; the application need never send.          *)
Fairness ==
  /\ WF_vars(SendCell)
  /\ WF_vars(Park)
  /\ WF_vars(PeerReceive)
  /\ WF_vars(ReceiveSendme)

Spec == Init /\ [][Next]_vars /\ Fairness

-----------------------------------------------------------------------------
(* No protocol error between two correct ends: the sender never sends a   *)
(* cell the peer's receive window has no room for, and every SENDME the    *)
(* peer sends matches the oldest tag the sender recorded.                  *)
NoProtocolError == proto = "ok"

(* The peer is at a SENDME boundary after receiving the i-th in-flight    *)
(* cell (put() keeps the window's residue modulo the increment).           *)
Boundary(i) == (rwindow - i) % Inc = 0

(* Number of boundary cells among the first i cells in flight.            *)
BoundariesUpTo(i) == Cardinality({j \in 1 .. i : Boundary(j)})

(* Tag agreement: the sender's queue of recorded tags is, in order, the    *)
(* tags of the SENDMEs in flight followed by those of the in-flight cells *)
(* that will make the peer send a SENDME; and every tagged SENDME in flight *)
(* echoes its recorded tag.                                                *)
TagsAgree ==
  /\ Len(tags) = Len(back) + BoundariesUpTo(Len(fwd))
  /\ \A i \in 1 .. Len(back) : back[i] \in {tags[i], NoTag}
  /\ \A i \in 1 .. Len(fwd) :
       Boundary(i) => fwd[i] = tags[Len(back) + BoundariesUpTo(i)]

(* Conservation of credit: the sender's window, the cells in flight and    *)
(* the credit carried by SENDMEs in flight add up to the peer's window.    *)
CreditConserved == window + Len(fwd) + Inc * Len(back) = rwindow

(* Every take() returns: a producer that enters take() is eventually done  *)
(* with it, because the peer's SENDMEs keep refilling the window.          *)
TakeReturns == pc = "ready" ~> pc = "idle"
=============================================================================
