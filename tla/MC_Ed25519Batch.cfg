CONSTANTS
  k1 = k1
  k2 = k2
  d1 = d1
  d2 = d2
  Keys <- MCKeys
  Texts <- MCTexts
  MaxSigs = 3
SPECIFICATION Spec
\* A batch that has been validated is a final state.
CHECK_DEADLOCK FALSE
INVARIANT
  BatchAgreesWithSingle
