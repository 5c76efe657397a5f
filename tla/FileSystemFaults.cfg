\* A disk that may fail or lose power in any save.
SPECIFICATION Spec
CONSTANTS
  none = none
  NoSnapshot = none
  MaxNodes = 5
  MaxChildren = 3
  MaxPwdDepth = 3
  Name <- MCFewNames
  SlashName <- MCSlashName
  Path <- MCPath
  DiskFaults = TRUE
INVARIANTS TypeOK TreeIsWellFormed SavedTreeIsWellFormed
