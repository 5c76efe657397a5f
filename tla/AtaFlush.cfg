\* A strict drive that never fails.
SPECIFICATION Spec
CONSTANTS
  MaxLba = 2
  MaxCount = 2
  Data = {"a", "b"}
  NoData = none
  Setting <- MCStrict
INVARIANT OkWriteIsFlushed
