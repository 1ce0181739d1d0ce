CONSTANTS
  N = 3
  Octet <- MCOctet
  File = {f}
  Letter <- MCLetter
  EndReads = {TRUE, FALSE}
  User = {2}
  Command = {"put", "get", "ls", "delete"}
  Introducer = 1
  Version = {1, 2}
  Before = {}
  Mortal = {1, 2, 3}
  MaxCrashes = 1
  MaxRestarts = 1
  MaxMistakes = 1
  MaxLost = 1
  Throwing = {2}
  Watching = {1, 2, 3}
  Mistaken <- MCNone
  NONE = NONE
SPECIFICATION Spec
INVARIANTS
  TypeOK
  NoLoss
CHECK_DEADLOCK FALSE
