CONSTANTS
  N = 5
  Octet <- MCOctet
  File = {"l", "A"}
  Letter <- MCLetter
  Client = {u, v}
  Window = 2
  MaxTime = 2
  EndReads = {TRUE, FALSE}
  NONE = NONE
SPECIFICATION Spec
INVARIANTS
  TypeOK
  EnoughReplicas
  TwoLiveNodesServe
PROPERTY UnaskedOnlyAfterConfirmed
