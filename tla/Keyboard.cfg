\* A letter, and an arrow with the shifts the keyboard fakes around it.
SPECIFICATION FairSpec
CONSTANTS
  none = none
  BUF = 3
  Keys = {"a", "up"}
  NumLock = TRUE
  WireMax = 4
INVARIANTS OldestIsSafe
PROPERTIES ImplementsQueue TypesWhatWasTyped EveryKeyIsRead
