CONSTANTS
  Node = {2, 3, 4}
  Introducer = 1
  Ring <- MCRing
  Given <- MCGiven
  EndReads = {TRUE, FALSE}
  Second = 2
  Mortal = {4}
  MaxCrashes = 1
  Lossy <- MCLossy
  MaxLost = 4
  MaxFlight = 3
SPECIFICATION Spec
INVARIANTS
  TypeOK
  NoHastySuspicion
PROPERTIES
  Acquainted
  Noticed
  Heals
