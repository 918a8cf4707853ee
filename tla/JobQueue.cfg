CONSTANTS
  Workers = {w1, w2}
  Keys = {k1}
  NoKey = NoKey
  MaxJobs = 3
  MaxStarts = 2
  MaxFaults = 1
SPECIFICATION FairSpec
INVARIANTS TypeOK LockExclusion KeyOrder RunningIsExecuted VerdictTrue NoNeedlessRepeat
PROPERTIES ImplementsQueue Progress
CHECK_DEADLOCK FALSE
