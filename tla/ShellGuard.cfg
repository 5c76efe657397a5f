\* One loop, then another: the second is expanded twice as deep.
SPECIFICATION Spec
CONSTANTS
  none = none
  ALIAS_MAX = 2
  MaxDepth = 8
  CountMax = 2
  LowMax = 9
  AliasName <- MCAliasName
  Value <- MCValue
  Typed <- MCTyped
INVARIANTS GuardBoundsRecursion
CHECK_DEADLOCK FALSE
