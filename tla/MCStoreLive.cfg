CONSTANTS
  N = 5
  Octet <- MCOctet
  File = {f}
  Letter <- MCLetter5
  EndReads = {TRUE}
  User = {}
  Command = {}
  Introducer = 1
  Version = {1}
  Before = {f}
  Mortal = {1}
  MaxCrashes = 1
  MaxRestarts = 0
  MaxMistakes = 0
  MaxLost = 0
  Throwing = {}
  Watching = {5}
  Mistaken <- MCNone
  NONE = NONE
SPECIFICATION FairSpec
PROPERTY Settles
