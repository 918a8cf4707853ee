SPECIFICATION FairSpec
CONSTANTS
  Clients = {u1}
  c1 = c1  c2 = c2  b1 = b1  b2 = b2
  Confs = {c1}
  Branches = {b1}
  Branch <- BranchOf
  DomainKey = DomainKey  IdKey = IdKey  UserKey = UserKey  NoKey = NoKey
  Outside = {"webmail", "owner"}
  MaxJobs = 2
  MaxRestarts = 1
  MaxFaults = 0
PROPERTY DeleteEnds
CHECK_DEADLOCK FALSE
