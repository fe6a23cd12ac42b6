CONSTANTS
  Max = 6
  Inc = 2
  InitWindow = 6
  t1 = t1
  t2 = t2
  none = none
  Tags <- MCTags
  NoTag <- none
SPECIFICATION Spec
INVARIANTS
  TypeOK
  CreditBound
  NoLostWakeup
PROPERTY
  AbstractSpec
