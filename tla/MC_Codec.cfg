CONSTANTS
  Base = 256
  MaxItems = 2
  Writes <- MCWrites
  ValidPoints <- MCValidPoints
  ValidSigs <- MCValidSigs
SPECIFICATION Spec
\* A parse that has finished or failed is a final state.
CHECK_DEADLOCK FALSE
INVARIANTS
  RoundTrip
  FailsOnlyOnBadInput
