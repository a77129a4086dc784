SPECIFICATION FairSpec
CONSTANTS
  Client = {c1, c2}
CONSTRAINT OneLeaves
CHECK_DEADLOCK FALSE
INVARIANTS
  TypeOK
  ActiveAreConnected
PROPERTIES
  ImplementsBarrierService
  OneLastRecord
  SyncReturns
  JoinCompletes
