\* Five drives: with timeouts and without power failures, with both, with errors
\* that last (twice), with lost writes.
SPECIFICATION Spec
CONSTANTS
  SectorCount <- MCSectorCount
  Image <- MCImage
  Blank <- MCBlank
  DefaultFs <- MCDefaultFs
  Checksum <- MCChecksum
  Toggled <- MCToggled
  Chosen <- MCChosen
  FaultModel <- MCFaultModel
INVARIANTS NoTornImage AcceptedIsRecent SavedIsDurable
           SavedMeansLoadable SavelistAgrees
PROPERTY KeepsCopies
