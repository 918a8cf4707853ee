CONSTANTS
  r1 = r1
  r2 = r2
  f1 = f1
  f2 = f2
  f3 = f3
  Requests = {r1, r2}
  Files = {f1, f2}
  Versions = {v1, v2, bad}
  Broken = {bad}
  Absent = Absent
  Keep = Keep
  Owns <- OwnsAll
  Serial = TRUE
  MaxCrashes = 1
  MaxFaults = 1
SPECIFICATION Spec
SYMMETRY SerialSymmetry
INVARIANTS TypeOK LoadedValid
CHECK_DEADLOCK FALSE
