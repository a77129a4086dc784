\* Fairness; no symmetry, which liveness checking does not allow.
SPECIFICATION FairSpec
CONSTANTS
  Component = {c1, c2}
  Key = {k1}
  MaxMessage = 1
  MaxMatch = 1
  NoRequest = NoRequest
CHECK_DEADLOCK FALSE
PROPERTIES
  OwnerExitAnswered
