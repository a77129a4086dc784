\* Two connections observe and kill each other and themselves.  Fairness,
\* hence no symmetry, which liveness checking does not allow.
SPECIFICATION FairSpec
CONSTANTS
  Component = {c1, c2}
  MaxMatch = 2
  NoRequest = NoRequest
CHECK_DEADLOCK FALSE
INVARIANTS
  TypeOK
  WatchTablesAgree
  RequestsAccounted
PROPERTIES
  ExitAnnounced
