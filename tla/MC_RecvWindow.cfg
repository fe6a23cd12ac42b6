CONSTANTS
  Max = 1000
  Inc = 100
  InitWindow = 1000
  MaxBulk = 3
SPECIFICATION Spec
\* A circuit closed on a window violation receives nothing more.
CHECK_DEADLOCK FALSE
INVARIANT
  RecvWithinMax
