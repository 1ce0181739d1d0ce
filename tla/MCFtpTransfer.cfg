CONSTANTS
  Slab = 3
  Sizes <- MCSizes
  Window = 7
SPECIFICATION Spec
INVARIANTS
  TypeOK
  OnlyFileBytes
  CopyIsWhole
  SenderSurvives
PROPERTY Ends
CHECK_DEADLOCK FALSE
