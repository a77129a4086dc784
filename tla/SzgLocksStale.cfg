\* A record of a removed component is still handled.
SPECIFICATION Spec
CONSTANTS
  Component = {c1, c2}
  LockName = {l1}
  MaxMatch = 1
  NoRequest = NoRequest
  NoOwner = NoOwner
SYMMETRY Symmetry
CHECK_DEADLOCK FALSE
INVARIANTS
  LocksOfConnectedOnly
