# TLA+ models of the arti circuit core

This directory holds TLA+ models of the client core described in `spec.md`.
It has TLC configurations that model-check them on small instances, and
TLAPS proofs of their main invariants for every value of the constants.
The code modelled is:

| Source | Lines | What it is |
|---|---|---|
| `src/tor-proto/src/circuit/sendme.rs` | 277 | SENDME flow control: `SendWindow`, `RecvWindow` |
| `src/tor-circmgr/src/path.rs` | 85 | `TorPath`, `first_hop`, `get_channel`, `build_circuit` |
| `src/tor-circmgr/src/path/exitpath.rs` | 164 | `ExitPathBuilder::pick_exit`, `pick_path` |
| `src/tor-bytes/src/impls.rs` | 251 | `Writeable` / `Readable` for integers, addresses, arrays, keys, signatures, RSA identities, MACs |
| `src/tor-llcrypto/src/pk/ed25519.rs` | 158 | `ValidatableEd25519Signature`, `validate_batch`, `Ed25519Identity` |

## The system and how its parts interact

A client asks `ExitPathBuilder::pick_path` for a three-hop path. It picks an
exit, then a middle relay outside the exit's family, then an entry outside
both families. `TorPath::build_circuit` then works through these steps:

1. It gets a channel to the first hop from the channel manager.
2. It opens a pending circuit on that channel.
3. It spawns the circuit's reactor as a detached task.
4. It runs the first-hop handshake.
5. It runs one `extend_ntor` per further hop.

Every handshake waits for an answer, and only the reactor delivers it.

On a live circuit, data cells are gated by flow-control windows:

- The sender calls `SendWindow::take` before each data cell. At every
  increment boundary it records the cell's tag. When the window is empty it
  parks on a one-shot channel.
- The peer counts the cells it receives with `RecvWindow::take`. When a SENDME
  is due, it sends one and calls `RecvWindow::put`.
- The sender's dispatcher hands each SENDME to `SendWindow::put`. This checks
  the SENDME against the oldest recorded tag, adds the increment and wakes a
  parked sender.

Every protocol message is built and parsed with the codec primitives of
`impls.rs`. Signed documents are checked with `validate_batch`.

`SendWindow`'s interior is the only state shared between tasks. It sits
behind an asynchronous mutex, and the lock is released before parking. Every
other component is owned by one task or is pure.

## Modules

Each module is one component. Its state is its VARIABLES, and each
operation of the code is one action. Each `MC_*.tla` module gives the
constants for TLC, and each `*.cfg` names what a run checks. A definition
whose name ends in a variant suffix (`TakeSendUnchecked`, `PutNoWake`,
`NewCircNoSpawn`, ...) is a deliberately broken copy of the definition that
follows it. These copies exist to show that the properties can fail; the
specifications never use them.

### `SendWindow.tla`: `SendWindow<P, T>` (sendme.rs 112-212)

**State.** The variables are:

- `window`: a u16.
- `tags`: the `VecDeque`, front first.
- `unblock`: whether the slot holds a sender.
- `pc`: where the producer task is in `take()`. Its values are idle, ready
  to lock, parked on the one-shot, or panicked.
- `ptag`: the tag the producer is sending.

The constants are `Max` and `Inc` (`P::maximum()`, `P::increment()`),
`InitWindow` (the argument of `new()`), `Tags` and `NoTag`. `CircParams`
and `StreamParams` are the two real parameter pairs, (1000, 100) and
(500, 50).

**Actions.** Each critical section under the lock is one atomic step:

- `BeginTake(t)`: the producer enters `take()`.
- `TakeSend`: `checked_sub` succeeds. The window is decremented, and the tag
  is recorded when the new window is a multiple of `Inc`.
- `TakePark`: the window is 0 and the slot is empty. A sender is installed
  and the producer parks.
- `TakeAssertFail`: the window is 0 and the slot is full, so
  `assert!(old.is_none())` fires.
- `Cancel`: the caller drops the `take()` future at either await point.
- `Put(t)`: `pop_front`, the tag match, `checked_add(..)?`, then firing and
  clearing `unblock`, which readies a parked producer.

The SENDME source is arbitrary: `put()` is called with any tag, or none, at
any time.

**Refinement.** `Abs == INSTANCE CreditWindow WITH unacked <- Max - window`
maps the window to the number of cells sent and not yet acknowledged.
`AbstractSpec == Abs!Spec` is checked as a property by the window runs.

### `CreditWindow.tla`: what a send window promises

This is the abstract specification, with one variable, `unacked`, the
cells in flight that no SENDME has acknowledged. `Send` needs
`unacked < Max` and adds one. `Ack` needs `unacked >= Inc` and subtracts
`Inc`. There are no tags, locks or wake-ups. `SendWindow` implements it:
a returning `take()` is a `Send`, an accepted `put()` that adds credit is
an `Ack`, and every other step (parking, cancelling, the assert, a rejected
or overflowing `put()`) leaves `unacked` alone.

### `RecvWindow.tla`: `RecvWindow<P>` (sendme.rs 214-268)

**State.** The variables are the u16 `window` and `open`, which is true
until a window violation closes the circuit.

**Actions.**

- `ReceiveCell` is the dispatcher's whole handling of a data cell:
  - `take()`;
  - on `Some(true)`, a SENDME and `put()`, whose `unwrap()` panic also ends
    the circuit;
  - on `None`, closing the circuit.
- `DecrementN(n)` is `decrement_n`.

### `FlowControl.tla`: both windows end to end

This module composes `SendWindow` (through `INSTANCE`) with a peer that
follows `RecvWindow` (through `INSTANCE ... WITH window <- rwindow`). The
two are connected by FIFO sequences: `fwd` holds the tagged data cells and
`back` holds the SENDMEs.

**Actions.**

- `BeginSend`, `SendCell` and `Park` are `take()`.
- `PeerReceive` is `RecvWindow::take` and `put`. The peer echoes the tag of
  the cell that made the SENDME due, or sends no tag at all (the
  unauthenticated fallback).
- `ReceiveSendme` is `SendWindow::put`. A rejected SENDME closes the circuit
  with `proto = "bad_sendme"`. A receive-window underflow closes it with
  `"recv_underflow"`.

### `ExitPath.tla`: `ExitPathBuilder` (exitpath.rs 8-76)

The builders are the values of the two constructors, `FromTargetPorts`
and `FromChosenExit`. `pick_path` makes no await, so it is one step, `Pick`. That step goes from
the builder and the `DirInfo` to one of the results `PickPath(b, di)` can
give. `pick_relay`'s weighted sampling becomes the set of relays it may
return, since every weight is positive. The three filters
(`ExitCandidates`, `MiddleCandidates`, `EntryCandidates`) are the code's
closures. The initial states are every builder and every directory over
four relays, with any mutual family declarations and any exit policies.

### `CircuitBuild.tla`: `TorPath::build_circuit` (path.rs 19-85)

The module defines `SeqUpTo` for itself, the same as `SequencesExt`'s
`BoundedSeq`. `SequencesExt` declares recursive operators, which the
proofs cannot reach.

**State.** The variables are:

- `path`;
- `pc`;
- `circ`, the hops built so far;
- `chan`, the channel;
- `reactor`;
- `req`, a handshake waiting for its answer;
- `result`.

**Actions.**

- `GetChannel` is `first_hop` and `get_or_launch`.
- `NewCirc` is `new_circ` together with the reactor spawn that follows it
  with no await in between.
- `SendHandshake` and `FinishHandshake` are one handshake: the first hop,
  then each `extend_ntor`.
- `ReactorDeliver`, `ChannelClose` and `Drop` model the environment: the
  reactor answering, the channel closing and ending the reactor, and the
  caller dropping the future at an await.

`HandshakeAnswerable` says that a handshake awaiting its answer always
has the circuit reactor running on an open channel, so some task can
complete the await. It rests on three things:

- the spawn that follows `new_circ` with no await in between;
- the send failing on a closed channel;
- the channel's close ending the reactor and failing the waiting
  handshake in the same step.

A build that skips the spawn (`NewCircNoSpawn`) breaks it.

Whether the relay ever answers is not something the code controls. No
await in `build_circuit` has a timeout, so a silent relay leaves it
pending forever. The model therefore claims no liveness for
`build_circuit`.

### `Codec.tla`: `impls.rs`

A message of up to two items is built from these actions:

- `Write(it)`: `write_onto` into a `Vec<u8>`.
- `Deliver(k)`: handing the reader the message whole, or cut after any
  number of bytes.
- `Read(t)`: `take_from` for the item's type.

A 32-byte array may be read back as either kind of key, a 20-byte array as
an RSA identity and the other way round, a shared secret as bytes or a
Curve25519 key, and a `write_zeros(16)` as a `[u8; 16]`. A `take_from`
ends in `Ok`, an `Err` (the parse stops with `phase = "err"`) or a panic
(`phase = "panic"`). The `Take*` operators are the `Readable` impls:

- `TakeInt`: `impl_u!`.
- `TakeAddr`: the address impls, `take_u32()?.into()` and
  `take_u128()?.into()`.
- `TakeArray`: `[u8; N]`.
- `TakeCurve25519`: `take(32)` and `into()`.
- `TakeEd25519`: `take(32)` then `from_bytes`, mapping its error to
  `BadMessage`.
- `TakeSignature`: `take(64)` then `Signature::from_bytes`, likewise. The
  constant `ValidSigs` holds the encodings it accepts.
- `TakeRSAIdentity`: `take(RSA_ID_LEN)` then `from_bytes(..).expect(..)`,
  which panics unless the slice is 20 bytes long.
- `TakeGenericArray(n, w)`: the loop with `?` over `w`-byte elements, which
  returns the error after consuming the elements that did fit.
  `TakeMacResult` is this loop over bytes.

`Encode` is the `Writeable` impls. Big-endian encoding (`BE`) takes the
`w` low digits of `v`, read off the successive quotients of `v` by the
base (`Quotients`, a recursive function on digit positions); decoding
(`FromBE`) is a recursive function on the digits. `Concat` is the same as
`SequencesExt`'s `FlattenSeq`, and `SeqUpTo` the same as its
`BoundedSeq`; the module defines them itself so that it can be proved
about. Bytes range over `0..255`.


`WritesAssumption` asks that the items written are values of the
modelled types:

- each encodes to a byte string;
- an integer fits its width (`Quotients(v, w)[w] = 0`, i.e. `v < 256^w`),
  as a value of `u8 .. u128` does;
- the fixed-size byte types have their sizes (`OctetLen`: 4 and 16 octets
  for the addresses, 32 for the keys, the shared secret and `[u8; 32]`,
  64 for a signature, 20 for an RSA identity);
- the elements of a `GenericArray<u16, N>` fit in 16 bits.

The MC module's items satisfy it.

### `Ed25519Batch.tla`: `validate_batch` (ed25519.rs 93-158)

A signature is abstracted to the key and text it was made with. `Add`
builds a batch of up to three `ValidatableEd25519Signature`s: genuine, made
by another key, or made for another text. `Validate` is `validate_batch`,
with its empty, single and batch branches and the three parallel vectors.

## Runs

| Run | Checks | Expect | What it shows |
|---|---|---|---|
| `sendwindow` | `TypeOK`, `CreditBound`, `NoLostWakeup`, `AbstractSpec` | pass | Against any SENDMEs and with cancelled `take()`s, `window + Inc*Len(tags) <= Max`, a parked producer always has a sender in `unblock` and an empty window, and the window implements `CreditWindow`. |
| `streamsendwindow` | `CreditBound`, `NoLostWakeup`, `AbstractSpec` | pass | The same at the real stream parameters (500, 50), with the unit tag type of `StreamSendWindow`. |
| `sw_cancel_panic` | `NoAssertPanic` | violation | A cancelled parked `take()` followed by a retry on an empty window panics at the assert (finding 1). |
| `sw_reject_pops` | `RejectedPutKeepsTags` | violation | A rejected `put()` consumes the oldest tag (finding 2). |
| `flowcontrol` | `TypeOK`, `NoProtocolError`, `TagsAgree`, `CreditConserved`, `TakeReturns` | pass | Two correct ends never raise a protocol error. The sender's tag queue is exactly the SENDMEs in flight followed by the boundary cells in flight. Window, cells in flight and SENDME credit add up to the peer's window. Every `take()` returns. |
| `recvwindow` | `RecvWithinMax` | pass | With the real circuit parameters (1000, 100) and bulk decrements, the receive window never exceeds 1000, so `put()`'s `unwrap()` never panics. |
| `exitpath` | `PathValid` | pass | Every result `pick_path` can give, on every directory of four relays, is three distinct relays with no two in one family and an exit that is suitable or chosen. |
| `circuitbuild` | `HandshakeAnswerable` | pass | Whatever the channel, the relays' answers and the caller do, every handshake that awaits an answer has the circuit reactor running on an open channel to deliver it. |
| `codec` | `RoundTrip`, `FailsOnlyOnBadInput` | pass | For any two items of the supported types, written and read back, the reads give the written values and consume exactly the message. A read never panics, and fails only on truncation, a non-point Ed25519 key or a non-canonical signature. |
| `ed25519batch` | `BatchAgreesWithSingle` | pass | `validate_batch` accepts iff every signature is valid alone, for batches of 0 to 3. |

Every property of a passing run has a mutant in `PROJECT.json`: a plausible
bug in a mapped definition that makes TLC report the property violated.

**Bounds.**

- **Windows.** The window models use `Max = 6`, `Inc = 2` and
  `InitWindow = 6`, with two tags. That gives three SENDME boundaries, a
  window that empties, parks and refills, and tags that can mismatch. The
  arithmetic only depends on `Max` being a multiple of `Inc`, which holds
  for the real parameters, and the proofs cover every such pair.
  `recvwindow` uses the real circuit parameters and `streamsendwindow` the
  real stream parameters.
- **Paths.** Four relays are one more than a path needs, so that the choice
  of exit and middle matters. Every family relation and every policy over
  two ports is enumerated.
- **Codec.** Each wire form has one value whose bytes differ from their
  neighbours, so a swapped or shifted byte changes the value read. The
  all-zero array is not an Ed25519 point, as scenario 6 of `spec.md`
  requires. The IPv4 address has a first octet below 128 so that its u32
  fits TLC's integers. Signatures have one canonical and one
  non-canonical encoding (last byte with its high bits set).

**Deadlock checking.** It is off only where the code really stops: a built
circuit, a parsed message, a validated batch, a picked path, or a circuit
closed on a window violation. It stays on for the window runs. There it
shows little about a stuck `take()`, because the environment can always
deliver a SENDME (`Put` is always enabled). A stuck `take()` is what
`NoLostWakeup` and, end to end, `TakeReturns` are about.

## Fairness

**`FlowControl`** assumes weak fairness of `SendCell`, `Park`,
`PeerReceive` and `ReceiveSendme`. The executor polls every woken task. A
dispatcher keeps reading while its channel has cells, and a producer that
holds the lock finishes its critical section. `BeginSend` has no fairness,
because the application need never send.

**`CircuitBuild`** assumes no fairness and states no liveness property.
A relay's answer is not guaranteed to arrive: the handshakes have no
timeout. Weak fairness of `ReactorDeliver` would therefore claim more
than the code does.

## Proofs

TLAPS checks these results for every value of the constants that satisfies
the module's `ASSUME`.

**`SendWindowProofs.tla`**

- `TypeCorrect`: `Spec => []TypeOK`.
- `CreditBoundInvariant`: `Spec => []CreditBound`.
- `NoLostWakeupInvariant`: `Spec => []NoLostWakeup`.
- `Refinement`: `Spec => AbstractSpec`, i.e. `SendWindow` implements
  `CreditWindow` under `unacked = Max - window`.

The bound `window + Inc * Len(tags) <= Max` is inductive relative to
`TypeOK`; no further strengthening is needed. `TakeSend` is the only step
that can raise the left side. When the new window is a multiple of `Inc`,
the lemma `TagAtBoundary` shows that one more tag keeps the bound. It uses
`Max % Inc = 0`: the new window `w - 1` and `Max` are both multiples of
`Inc`, so `w - 1 + Inc*(n+1) <= Max` follows from `w + Inc*n <= Max`.

`Put` never raises the left side. It either pops a tag and adds `Inc`, or
keeps the window while possibly popping. This is why the bound holds
against an arbitrary peer, and why the overflow branch of `checked_add` is
unreachable from a window created at or below `Max`.

`NoLostWakeup` is inductive on its own. Only `TakePark` makes the producer
parked, and it installs the sender at window 0. The `Put` that adds credit
clears the slot and readies the producer in the same step.

`Refinement` follows the standard pattern. The invariant is
`TypeOK /\ CreditBound`, from the two theorems above. The initial states
map to `unacked = Max - InitWindow`. Under the invariant every step maps to
a `CreditWindow` step or a stutter:

- `TakeSend` needs `window > 0`, so `unacked < Max` (by the bound,
  `window <= Max`).
- An accepted `Put` pops a tag, so `Len(tags) >= 1`, and the bound gives
  `window <= Max - Inc`, which is `unacked >= Inc`.

**`RecvWindowProofs.tla`**

- `RecvWithinMaxInvariant`: `Spec => []RecvWithinMax`.

The inductive invariant is `TypeOK /\ RecvWithinMax`. The lemma
`RefillWithinMax` is the same divisibility argument: a window
`w - 1 < Max` that is a multiple of `Inc` is at most `Max - Inc`.

**`Ed25519BatchProofs.tla`**

- `BatchAgreesWithSingleInvariant`: `Spec => []BatchAgreesWithSingle`, for
  batches of every length.

The lemma `ValidateBatchCorrect` shows that `ValidateBatch(s)` equals the
conjunction of `IsValid` over `s`. It splits on the three branches: the
parallel vectors have the batch's length and hold, at each index, the
text, signature and key of the same member. The inductive invariant is
`TypeOK /\ BatchAgreesWithSingle`, since nothing is added after the call.
The module uses `Seq` and `Len` rather than `SequencesExt`, which declares
recursive operators that the prover cannot handle.

**`FlowControlProofs.tla`**

- `TypeCorrect`: `Spec => []TypeOK`.
- `NoProtocolErrorInvariant`: `Spec => []NoProtocolError`.
- `CreditConservedInvariant`: `Spec => []CreditConserved`.
- `TagsAgreeInvariant`: `Spec => []TagsAgree`.

All four rest on `FlowParamsAssumption`, which is `SendWindow`'s
assumption restated in `FlowControl`: `Max` is a multiple of `Inc`, and
`Max + Inc` fits a u16.

`NoProtocolError` alone is not inductive. A SENDME is accepted only if a
tag is queued, the SENDME matches it, and the window has room. The peer
can take a cell only if its window is positive. The inductive invariant
`IInv` therefore carries these conjuncts:

- `TypeOK` and `NoProtocolError`;
- `CreditConserved`: `window + Len(fwd) + Inc * Len(back) = rwindow`;
- the sender's `CreditBound`;
- `rwindow <= Max`;
- tag agreement, with the boundary cells counted in closed form.

The closed form is `Count(r, i) = MultiplesBelow(r) - MultiplesBelow(r - i)`,
the number of multiples of `Inc` in `r - i .. r - 1`. Cardinalities do not
mix well with the arithmetic the steps need, so `IInv` uses this form
instead. Four lemmas cover how the count moves:

- `CountStep`: one more cell in flight;
- `CountDown`: the peer takes a cell and lowers its window;
- `CountRefill`: the peer's `put()` adds `Inc`;
- `CountFacts`: bounds on the count.

With them, each action preserves each conjunct:

- `SendCell` appends a tag exactly when the new window is a multiple of
  `Inc`, which by conservation is exactly when the cell is a boundary.
- `PeerReceive` sends a SENDME with the head cell's tag exactly when that
  cell was a boundary.
- `ReceiveSendme` pops one tag for one SENDME.

`TagsAgree` states the count as `Cardinality({j \in 1..i : Boundary(j)})`.
The invariant `CountsAgree` equates this with the closed form for every
prefix of the cells in flight. Proving that equality directly would need
induction over `i`, so it is carried along `IInv` instead. Each step
changes it in a way that needs no induction:

- `SendCell` adds one element (`BoundarySetStep`, via `FS_AddElement`).
- `PeerReceive` removes cell 1 and shifts the rest down by one
  (`BoundarySetDown`, via a bijection and `FS_Bijection`).
- A refill leaves the set alone (`BoundarySetRefill`).

**`ExitPathProofs.tla`**

- `PathValidInvariant`: `Spec => []PathValid`, for every set of relays,
  ports and policies.

The lemma `PickPathValid` follows the nesting of `PickPath`. It picks the
exit, the middle and the entry, and uses the candidate filters and the
symmetry of `in_same_family` (`FamilySymmetric`, `ThreeApart`). The
inductive invariant says that the result is either not yet computed or a
member of `PickPath(builder, dirinfo)`.

**`CircuitBuildProofs.tla`**

- `HandshakeAnswerableInvariant`: `Spec => []HandshakeAnswerable`, for
  every set of relays and path bound.

The inductive invariant adds these conjuncts to `HandshakeAnswerable`:

- no handshake is outstanding before the circuit exists;
- at the handshakes, the channel is open or closed;
- at the handshakes with an open channel, the reactor runs.

A handshake is sent only at the handshakes on a channel that is not
closed. These conjuncts give it a running reactor and an open channel.
TLC checked the invariant on the `circuitbuild` run before it was proved.

**`CodecLemmas.tla`**

Lemmas about the recursive definitions of `Codec`, for every input:

- `ConcatAppend`: `Concat(Append(ss, x)) = Concat(ss) \o x`.
- `ConcatPairs`: the bytes of pieces of two bytes each sit at
  `2*(i-1)+j`.
- `FromBEOfBE`: `FromBE(BE(v, w)) = v` when `v` fits in `w` digits.
- `BEOfFromBE`: `BE(FromBE(s), Len(s)) = s` for every byte string `s`.

A definition `f[k \in 0..n] == ...` is a `CHOOSE` of a function
satisfying the recursion. So each section first shows that such a
function exists, by extending one for `0..m-1` to `0..m`. It then shows
each fact for all `k` by a least counterexample. The `k` where the fact
fails form a set of naturals. `NatLeast` (from `WFMin` on the
well-founded `<` of `WellFoundedInduction`) gives it a least element if it
is not empty. The recursion at that element then contradicts its being
least. No theorem with an operator parameter is needed, so the provers
check every step.

**`CodecProofs.tla`**

- `RoundTripInvariant`: `Spec => []RoundTrip`.
- `FailsOnlyOnBadInputInvariant`: `Spec => []FailsOnlyOnBadInput`.

Both hold for every byte base, every bound on the items, and every set of
`Writes` that satisfies `WritesAssumption`.

The argument has two layers.

The first layer is the invariant `IInv`: the buffers are byte strings,
the cursor stays within `rbuf`, nothing has been read in the write phase,
and an item remains while reading. `TakeFromSound` goes through the arms
of `TakeFrom`; each one gives `Ok` or `Err`, never a panic, and moves the
cursor forward by at most the bytes left. `RSAIdentitySound` shows the
panic cannot happen: when `take(20)` succeeds its bytes are exactly 20
long, so `from_bytes(..).expect(..)` does not fire.

The second layer is `RInv`. `RoundTrip` is not inductive as it stands: a
read returns the value written only if the item's bytes are at the
cursor. `RInv` adds these conjuncts:

- the message is `Written(sched, Len(sched))`, the concatenation of the
  items' encodings, and every `Written(sched, m)` is a prefix of it;
- the reader's bytes are a prefix of the message;
- while the parse has not failed, one type is recorded per item read, the
  values read are the values written, and the cursor is at the end of
  the encodings of the items read;
- a finished parse read every item;
- a failed parse recorded one more type than values, and that last take
  had bad input (`BadInput`).

TLC checked `RInv` as an invariant of the `codec` run before it was
proved.

`ReadOutcome` is the core. An item whose bytes are at the cursor
(`ReadCtx`) is read as any of its `ReadTypes`. The take then returns the
item's value and moves past its bytes, or it fails with the message cut
short or with bytes that are not a valid key or signature, having moved
the cursor no further than the item's bytes (`ReadsBack`). For a
`GenericArray` that fails, `GAAdvance` bounds the elements consumed by
`N`.
It has one lemma per group of arms:

- `ReadInt`: from `FromBEOfBE`.
- `ReadOctets`: the addresses (from `BEOfFromBE`), the arrays and the
  keys.
- `ReadGA` and `ReadMac`: through `GenericRead`, the element loop, with
  `GASlice` (`ConcatPairs` and `FromBEOfBE`) and `MacSlice`.

`WriteRInv` uses `ConcatAppend` through `WrittenFacts`. `ReadBack` shows
that `RInv` puts the next item at the cursor, so `ReadOutcome` applies to
every read.

**What stays with TLC.**

- Liveness (`TakeReturns`), because TLAPS does not handle
  `ENABLED` or fairness.
- The refinement at the real stream parameters (the proof covers it).

## Findings

1. **Assert after cancellation (sendme.rs:167).** `take()` asserts that
   `unblock` was empty when it installs a sender. A `take()` dropped while
   parked leaves its sender behind, so the next `take()` on an empty window
   panics. `spec.md` section 5 requires tolerating exactly this.
2. **Rejected `put()` pops a tag (sendme.rs:193).** `pop_front` runs before
   the match, so a SENDME with a wrong tag still consumes the oldest tag.
   `spec.md` section 8 and scenario 4 say the queue is unchanged.

## Not modelled

- **`msg_counts_towards_windows`.** A pure predicate that both ends apply
  to the same cell, so no change to it can make them disagree; every
  modelled cell is a Data cell.
- **`Ed25519Identity`.** Byte wrapping, constant-time equality and
  formatting: no state, and only data conversions.
- **Constant-time comparison** of tags and identities: its timing is not
  a state property.
- **External code.** The channel manager, the channels, the ntor handshakes
  and the directory are the environment of `CircuitBuild` and `ExitPath`.
  The Reader/Writer integer helpers and ed25519-dalek are modelled from
  `spec.md` and marked `spec_modelled` in `PROJECT.json`.
- **Callers of `decrement_n`.** They are not under `src/`. `decrement_n`
  returns `Result<()>` and, per `spec.md` 4.3.2, is a bulk decrement with
  no SENDME duty of its own; the model checks only that it keeps the
  window within bounds (`RecvWithinMax`).
