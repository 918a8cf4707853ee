SPECIFICATION FairSpec
CONSTANTS
  Headers <- SomeHeaders
  MaxVisits = 2
  MaxDemos = 2
  MaxCalls = 2
  MaxRevived = 1
INVARIANTS
  TypeOK
  LanguageSettles
PROPERTIES
  PageComes
  OrphanStops
CHECK_DEADLOCK FALSE
