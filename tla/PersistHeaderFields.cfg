\* One transfer may time out.
SPECIFICATION Spec
CONSTANTS
  SectorCount <- MCSectorCount
  Image <- MCImage
  Blank <- MCBlank
  DefaultFs <- MCDefaultFs
  Checksum <- MCChecksum
  Toggled <- MCToggled
  Chosen <- MCChosen
  FaultModel <- MCTimeout
PROPERTY HeaderFieldsPreserved
