CONSTANTS
  Ip = {1, 2, 3, 4, 5, 6, 7, 8}
  Introducer = 1
  Octet <- MCOctet
  NULL = NULL
SPECIFICATION Spec
INVARIANTS
  TypeOK
  RingOK
  WatchedByNeighbours
  GossipSurvivesTwoFailures
PROPERTIES
  ImplementsOrder
  JoinsSeparate
