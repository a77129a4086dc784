\* A client leaves at a bad moment, and the others wait for ever.
SPECIFICATION FairSpec
CONSTANTS
  Client = {c1, c2}
CONSTRAINT OneLeaves
CHECK_DEADLOCK FALSE
PROPERTIES
  SyncAlwaysReturns
