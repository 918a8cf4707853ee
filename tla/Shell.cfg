SPECIFICATION FairSpec
CONSTANTS
  u1 = u1  u2 = u2
  Tabs = {t1, t2}
  Users = {u1, u2}
  WithCode <- OneWithCode
  Nobody = Nobody
  MaxSessions = 2
  MaxCalls = 2
  MaxEvents = 1
INVARIANTS
  TypeOK
  ShownIsActing
  
PROPERTY ScreenComes
