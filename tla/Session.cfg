SPECIFICATION Spec
CONSTANTS
  VgaCols = 2
  VgaRows = 3
  VbeCols = 3
  VbeRows = 3
  UserInk <- MCUserInk
  LineMax = 3
  HistoryMax = 2
  HistNBound = 3
  Letters <- MCLetters
  CommandNames <- MCCommandNames
  Prompt <- MCPrompt
  HasCard = {TRUE, FALSE}
  Windows = 2
  Start <- MCStart
  Step = 2
  Right = 6
  Bottom = 6
  QueueBound = 2
  VisitBound = 1
  ShellLetters = {"1"}
INVARIANTS LineIsShown NothingBehindCursor LineEndsInZeros WindowsStayReachable DisplayIsCurrent
