\* A prompt drive with late answers, and a strict one.
SPECIFICATION Spec
CONSTANTS
  MaxLba = 2
  MaxCount = 2
  Data = {"a", "b"}
  NoData = none
  Setting <- MCSetting
INVARIANTS TypeOK OkReadIsExact OkWriteIsStored
PROPERTIES WritesStayInside ErrorsLast EveryCallReturns
