CONSTANTS
  unit = unit
  none = none
  Max <- MCMax
  Inc <- MCInc
  InitWindow <- MCMax
  Tags <- MCTags
  NoTag <- none
SPECIFICATION Spec
INVARIANTS
  CreditBound
  NoLostWakeup
PROPERTY
  AbstractSpec
