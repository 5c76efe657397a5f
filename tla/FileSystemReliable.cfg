\* A disk that never fails, against the tree of FsTree.
SPECIFICATION Spec
CONSTANTS
  none = none
  NoSnapshot = none
  MaxNodes = 5
  MaxChildren = 3
  MaxPwdDepth = 2
  Name <- MCName
  SlashName <- MCSlashName
  Path <- MCPath
  DiskFaults = FALSE
INVARIANTS PwdLeadsBack
PROPERTIES ImplementsTree DirectoriesStay ListingChangesAreSaved
