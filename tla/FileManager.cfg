SPECIFICATION FairSpec
CONSTANTS
  Dirs = {d1, d2}
  Names = {a}
  Texts = {t1, t2}
  None = None
  MaxReads = 2
  MaxOps = 2
INVARIANTS
  TypeOK
  EditorKeepsPlace
  CleanMeansStored
PROPERTIES
  LossIsAsked
  EditorComes
