CONSTANTS
  N = 3
  Octet <- MCOctet
  File = {f}
  Letter <- MCLetter
  EndReads = {TRUE}
  User = {2, 3}
  Command = {"put"}
  Introducer = 1
  Version = {1, 2}
  Before = {}
  Mortal = {}
  MaxCrashes = 0
  MaxRestarts = 0
  MaxMistakes = 0
  MaxLost = 0
  Throwing = {}
  Watching = {1, 2, 3}
  Mistaken <- MCNone
  NONE = NONE
SPECIFICATION Spec
INVARIANT ReplicasAgree
CHECK_DEADLOCK FALSE
