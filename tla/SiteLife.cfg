SPECIFICATION Spec
CONSTANTS
  Clients = {u1, u2}
  c1 = c1  c2 = c2  b1 = b1  b2 = b2
  Confs = {c1, c2}
  Branches = {b1, b2}
  Branch <- BranchOf
  DomainKey = DomainKey  IdKey = IdKey  UserKey = UserKey  NoKey = NoKey
  Outside = {}
  MaxJobs = 3
  MaxRestarts = 1
  MaxFaults = 1
SYMMETRY Symmetry
INVARIANTS TypeOK GoneHasNoFiles RestMatches 
CONSTRAINT Within
ACTION_CONSTRAINT DaemonsFirst
CHECK_DEADLOCK FALSE
