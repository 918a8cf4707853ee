CONSTANTS
  r1 = r1
  r2 = r2
  f1 = f1
  f2 = f2
  f3 = f3
  Requests = {r1, r2}
  Files = {f1, f2, f3}
  Versions = {v1, bad}
  Broken = {bad}
  Absent = Absent
  Keep = Keep
  Owns <- OwnsApart
  Serial = FALSE
  MaxCrashes = 1
  MaxFaults = 1
SPECIFICATION Spec
SYMMETRY OverlapSymmetry
INVARIANT RestIsValid
PROPERTIES BrokenIsAnothers AllOrNothing ImplementsSets
CHECK_DEADLOCK FALSE
