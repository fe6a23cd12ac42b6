CONSTANTS
  r1 = r1
  r2 = r2
  fb = fb
  Relays <- MCRelays
  Fallback <- fb
  MaxHops = 3
SPECIFICATION Spec
\* build_circuit() returns or is dropped: a finished build is a final state.
CHECK_DEADLOCK FALSE
INVARIANTS
  HandshakeAnswerable
