CONSTANTS
  N = 5
  Octet <- MCOctet
  File = {f}
  Letter <- MCLetter5
  EndReads = {TRUE}
  User = {}
  Command = {}
  Introducer = 1
  Version = {1}
  Before = {f}
  Mortal = {4, 5}
  MaxCrashes = 2
  MaxRestarts = 0
  MaxMistakes = 0
  MaxLost = 0
  Throwing = {}
  Watching = {1, 2, 3, 4, 5}
  Mistaken <- MCNone
  NONE = NONE
SPECIFICATION Spec
INVARIANT NoLoss
PROPERTY KeptWhereRequired
CHECK_DEADLOCK FALSE
