SPECIFICATION FairSpec
CONSTANTS
  Subjects = {s1, s2}
  None = None
  MaxOps = 2
  MaxCalls = 2
INVARIANTS
  TypeOK
  StraysAreRereads
PROPERTIES
  TypedIsKept
  PollingHeals
