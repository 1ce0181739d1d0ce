CONSTANTS
  N = 6
  Octet <- MCOctet
  File = {f}
  Letter <- MCLetter6
  EndReads = {TRUE}
  User = {}
  Command = {}
  Introducer = 1
  Version = {1}
  Before = {f}
  Mortal = {5}
  MaxCrashes = 1
  MaxRestarts = 0
  MaxMistakes = 0
  MaxLost = 0
  Throwing = {}
  Watching = {6}
  Mistaken <- MCNone
  NONE = NONE
SPECIFICATION Spec
INVARIANT NoLoss
CHECK_DEADLOCK FALSE
