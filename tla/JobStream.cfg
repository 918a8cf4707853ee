SPECIFICATION FairSpec
CONSTANTS
  Jobs = {j1, j2}
  None = None
  Buffer = 2
  MaxLines = 2
  MaxFaults = 2
INVARIANTS
  TypeOK
  ShownFinishIsTrue
  LinesComplete
PROPERTY
  FinishIsSeen
CHECK_DEADLOCK FALSE
