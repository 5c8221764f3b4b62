INIT ResidualInit
NEXT ResidualNext
CONSTANTS
  AttackNodes = {1, 2, 3}
  MaxTreeDepth = 3
  Scale = 4
  Attempts = 1
  MaxGross = 5
  RetentionGbp = 1
  CoverGbp = 1
  Multiplier = 4
INVARIANTS
  DifferenceIsControlEffects
CHECK_DEADLOCK FALSE
