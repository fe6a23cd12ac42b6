----------------------------- MODULE SendWindow -----------------------------
(***************************************************************************)
(* The sending half of Tor's SENDME flow control, as implemented by        *)
(* SendWindow<P, T> in src/tor-proto/src/circuit/sendme.rs.               *)
(*                                                                         *)
(* The interior SendWindowInner { window, tags, unblock } lives behind an  *)
(* asynchronous mutex; every critical section of take() and put() is one   *)
(* atomic step here.  The only step that is not atomic is the wait on the  *)
(* one-shot receiver after take() found the window empty: the producer is  *)
(* then "parked", the lock is released, and put() may run.                 *)
(*                                                                         *)
(* One producer task calls take() (callers serialise sends on a window);   *)
(* it may abandon (drop) its take() future at any await point.  The peer   *)
(* is arbitrary: put() is called with any tag, or none, at any time, since *)
(* SENDMEs come off the network.                                           *)
(***************************************************************************)
EXTENDS Naturals, Sequences

CONSTANTS
  Max,        \* P::maximum(): 1000 for circuits, 500 for streams
  Inc,        \* P::increment(): 100 for circuits, 50 for streams
  InitWindow, \* the window passed to SendWindow::new()
  Tags,       \* values of the tag type T (CircTag, or the unit NoTag)
  NoTag       \* Option::None, the absent tag of an untagged SENDME

\* The window is a u16.
U16Max == 65535

(* WindowParams: CircParams for circuits, StreamParams for streams.        *)
CircParams == [maximum |-> 1000, increment |-> 100]
StreamParams == [maximum |-> 500, increment |-> 50]

ASSUME ParamsAssumption ==
  /\ Inc \in Nat \ {0}
  /\ Max \in Nat
  /\ Max % Inc = 0
  /\ Max + Inc <= U16Max
  /\ InitWindow \in 0 .. Max
  /\ Tags # {}
  /\ NoTag \notin Tags

VARIABLES
  window,   \* SendWindowInner.window
  tags,     \* SendWindowInner.tags, front of the VecDeque first
  unblock,  \* SendWindowInner.unblock is Some(sender)
  pc,       \* where the producer task is in take()
  ptag      \* the tag argument of the producer's current take()

vars == <<window, tags, unblock, pc, ptag>>

(* idle: not in take(); ready: about to lock and test the window;          *)
(* parked: awaiting the one-shot; panicked: the assert in take() fired.    *)
PC == {"idle", "ready", "parked", "panicked"}

TypeOK ==
  /\ window \in Nat /\ window <= U16Max
  /\ tags \in Seq(Tags)
  /\ unblock \in BOOLEAN
  /\ pc \in PC
  /\ ptag \in Tags

\* SendWindow::new(window)
Init ==
  /\ window = InitWindow
  /\ tags = <<>>
  /\ unblock = FALSE
  /\ pc = "idle"
  /\ ptag \in Tags

-----------------------------------------------------------------------------
(* take(&tag): the producer enters take() and waits for the lock.          *)
BeginTake(t) ==
  /\ pc = "idle"
  /\ pc' = "ready"
  /\ ptag' = t
  /\ UNCHANGED <<window, tags, unblock>>

(* Variant of TakeSend without the checked_sub guard.                      *)
TakeSendUnchecked ==
  /\ pc = "ready"
  /\ window' = window - 1
  /\ tags' = IF (window - 1) % Inc = 0 THEN Append(tags, ptag) ELSE tags
  /\ pc' = "idle"
  /\ UNCHANGED <<unblock, ptag>>

(* Variant of TakeSend testing the window before the decrement.            *)
TakeSendEarlyTag ==
  /\ pc = "ready"
  /\ window > 0
  /\ window' = window - 1
  /\ tags' = IF window % Inc = 0 THEN Append(tags, ptag) ELSE tags
  /\ pc' = "idle"
  /\ UNCHANGED <<unblock, ptag>>

(* take(), lock held, window.checked_sub(1) is Some: decrement, record the *)
(* tag when the new window is a multiple of the increment, return.         *)
TakeSend ==
  /\ pc = "ready"
  /\ window > 0
  /\ window' = window - 1
  /\ tags' = IF (window - 1) % Inc = 0 THEN Append(tags, ptag) ELSE tags
  /\ pc' = "idle"
  /\ UNCHANGED <<unblock, ptag>>

(* take(), lock held, window is zero and unblock is None: install a fresh  *)
(* one-shot sender, release the lock, wait on the receiver.                *)
TakePark ==
  /\ pc = "ready"
  /\ window = 0
  /\ ~unblock
  /\ unblock' = TRUE
  /\ pc' = "parked"
  /\ UNCHANGED <<window, tags, ptag>>

(* take(), lock held, window is zero and unblock is already Some: the      *)
(* replace() stores the new sender, then assert!(old.is_none()) panics;    *)
(* unwinding drops the lock guard and the new receiver.                    *)
TakeAssertFail ==
  /\ pc = "ready"
  /\ window = 0
  /\ unblock
  /\ unblock' = TRUE
  /\ pc' = "panicked"
  /\ UNCHANGED <<window, tags, ptag>>

(* The caller drops its take() future at an await point (lock or one-shot).*)
(* A sender left in unblock now has no receiver.                           *)
Cancel ==
  /\ pc \in {"ready", "parked"}
  /\ pc' = "idle"
  /\ UNCHANGED <<window, tags, unblock, ptag>>

-----------------------------------------------------------------------------
(* Variant of Accepts that takes an untagged SENDME even when no tag is    *)
(* queued, i.e. when no SENDME is due.                                     *)
AcceptsAny(t) == t = NoTag \/ (tags # <<>> /\ Head(tags) = t)

(* Variant of Accepts without the untagged fallback arm.                   *)
AcceptsStrict(t) == tags # <<>> /\ Head(tags) = t

(* The SENDME match of put(): the front tag, popped unconditionally, must  *)
(* equal the provided one, or no tag was provided.                         *)
Accepts(t) == tags # <<>> /\ (t = NoTag \/ Head(tags) = t)

PopFront(s) == IF s = <<>> THEN s ELSE Tail(s)

(* Variant of Put that never fires the unblock sender.                     *)
PutNoWake(t) ==
  /\ tags' = PopFront(tags)
  /\ IF Accepts(t) /\ window + Inc <= U16Max
       THEN /\ window' = window + Inc
            /\ UNCHANGED <<unblock, pc>>
       ELSE UNCHANGED <<window, unblock, pc>>
  /\ UNCHANGED ptag

(* Variant of Put in which an untagged SENDME does not pop the queue.      *)
PutNoPopUntagged(t) ==
  /\ tags' = IF t = NoTag THEN tags ELSE PopFront(tags)
  /\ IF Accepts(t) /\ window + Inc <= U16Max
       THEN /\ window' = window + Inc
            /\ unblock' = FALSE
            /\ pc' = IF pc = "parked" THEN "ready" ELSE pc
       ELSE UNCHANGED <<window, unblock, pc>>
  /\ UNCHANGED ptag

(* Variant of Put in which an untagged SENDME adds no credit.              *)
PutNoCreditUntagged(t) ==
  /\ tags' = PopFront(tags)
  /\ IF Accepts(t) /\ t # NoTag /\ window + Inc <= U16Max
       THEN /\ window' = window + Inc
            /\ unblock' = FALSE
            /\ pc' = IF pc = "parked" THEN "ready" ELSE pc
       ELSE UNCHANGED <<window, unblock, pc>>
  /\ UNCHANGED ptag

(* put(tag): pop the front tag; on a match add the increment unless the    *)
(* u16 would overflow (checked_add(..)?), then fire and clear unblock,     *)
(* which readies a parked producer.  A mismatch returns None.              *)
Put(t) ==
  /\ tags' = PopFront(tags)
  /\ IF Accepts(t) /\ window + Inc <= U16Max
       THEN /\ window' = window + Inc
            /\ unblock' = FALSE
            /\ pc' = IF pc = "parked" THEN "ready" ELSE pc
       ELSE UNCHANGED <<window, unblock, pc>>
  /\ UNCHANGED ptag

Next ==
  \/ \E t \in Tags : BeginTake(t)
  \/ TakeSend
  \/ TakePark
  \/ TakeAssertFail
  \/ Cancel
  \/ \E t \in Tags \cup {NoTag} : Put(t)

Spec == Init /\ [][Next]_vars

-----------------------------------------------------------------------------
(* Credit bound: the credit still spendable (window) plus the credit that  *)
(* the recorded tags can still return (Inc each) never exceeds P::maximum, *)
(* whatever SENDMEs the peer sends.  It is what keeps window <= maximum    *)
(* although take() and put() never consult P::maximum(), and what rules    *)
(* out the u16 overflow branch of put().                                   *)
CreditBound == window + Inc * Len(tags) <= Max

(* No lost wake-up: a producer parked on the one-shot has its sender in    *)
(* unblock and the window really is empty; once put() adds credit the     *)
(* producer is no longer parked.                                           *)
NoLostWakeup == pc = "parked" => (unblock /\ window = 0)

(* The assert!(old.is_none()) in take() never fires.                       *)
NoAssertPanic == pc # "panicked"

(* A put() that rejects its SENDME leaves the tag queue as it was (spec    *)
(* section 8 and end-to-end scenario 4 of spec.md).                        *)
RejectedPutKeepsTags ==
  [][\A t \in Tags \cup {NoTag} : (Put(t) /\ ~Accepts(t)) => tags' = tags]_vars

(* The credit promise of CreditWindow under unacked = Max - window.        *)
Abs == INSTANCE CreditWindow WITH unacked <- Max - window

(* SendWindow implements CreditWindow: every take() that returns sends one *)
(* cell with fewer than Max unacknowledged, and every put() that adds      *)
(* credit acknowledges Inc cells that were really sent, whatever the peer  *)
(* sends and however take() is cancelled; every other step (parking,      *)
(* rejected or overflowing put(), the assert) leaves the credit alone.     *)
AbstractSpec == Abs!Spec
=============================================================================
