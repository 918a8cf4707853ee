SPECIFICATION Spec
CONSTANTS
  Clients = {u1}
  c1 = c1  c2 = c2  b1 = b1  b2 = b2
  Confs = {c1, c2}
  Branches = {b1, b2}
  Branch <- BranchOf
  DomainKey = DomainKey  IdKey = IdKey  UserKey = UserKey  NoKey = NoKey
  Outside = {"webmail", "owner"}
  MaxJobs = 3
  MaxRestarts = 0
  MaxFaults = 0
INVARIANT GoneHasNoFiles
CHECK_DEADLOCK FALSE
