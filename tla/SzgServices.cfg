\* Two connections, one service: who waits for what.
\* Fairness, hence no symmetry, which liveness checking does not allow.
SPECIFICATION FairSpec
CONSTANTS
  Component = {c1, c2}
  Service = {s1}
  Network = {n1}
  Block <- OnePort
  Size = {1}
  MaxMatch = 1
  NoRequest = NoRequest
  NoOffer = NoOffer
CHECK_DEADLOCK FALSE
INVARIANTS
  TypeOK
  ServiceTablesAgree
  RequestsAccounted
PROPERTIES
  ReleaseAnnounced
