\* Two expansions at most, so that a chain of three aliases is too long until a
\* loop has lowered run_depth.
SPECIFICATION FairSpec
CONSTANTS
  none = none
  ALIAS_MAX = 3
  MaxDepth = 1
  CountMax = 2
  LowMax = 2
  AliasName <- MCAliasName
  Value <- MCValue
  Typed <- MCTyped
INVARIANTS TypeOK LineRunsAsWritten SimpleLinesRunAsWritten GuardNeverEarly
PROPERTIES EveryLineEnds
