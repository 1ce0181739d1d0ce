CONSTANTS
  N = 4
  Octet <- MCOctet
  File = {f}
  Letter <- MCLetter
  EndReads = {TRUE}
  User = {}
  Command = {}
  Introducer = 1
  Version = {1}
  Before = {f}
  Mortal = {}
  MaxCrashes = 0
  MaxRestarts = 0
  MaxMistakes = 1
  MaxLost = 1
  Throwing = {1, 2, 3, 4}
  Watching = {1, 2, 3, 4}
  Mistaken <- MCMistaken
  NONE = NONE
SPECIFICATION Spec
INVARIANTS
  NoLoss
  RemovesOnlySurplus
CHECK_DEADLOCK FALSE
