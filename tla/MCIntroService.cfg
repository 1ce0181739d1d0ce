CONSTANTS
  Ip = {1, 2, 3}
  Introducer = 1
  Octet <- MCOctet
  NULL = NULL
  MaxWalks = 2
  MaxChanges = 3
  MaxLost = 1
SPECIFICATION Spec
INVARIANTS
  TypeOK
  OnlyOverlapCrashes
  CleanRoundsRepair
PROPERTY Settles
CHECK_DEADLOCK FALSE
