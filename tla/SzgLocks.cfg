\* Two connections compete for one lock.  Fairness, hence no symmetry, which
\* liveness checking does not allow.
SPECIFICATION FairSpec
CONSTANTS
  Component = {c1, c2}
  LockName = {l1}
  MaxMatch = 1
  NoRequest = NoRequest
  NoOwner = NoOwner
CHECK_DEADLOCK FALSE
INVARIANTS
  TypeOK
  LockTablesAgree
  OnlyHeldLocksAwaited
  NotificationsAccounted
  HoldersOwn
PROPERTIES
  RemovalReleasesAll
  ImplementsLockService
  HolderExitAnnounced
