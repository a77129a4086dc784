\* The server is killed while a client waits to be activated.
SPECIFICATION FairSpec
CONSTANTS
  Client = {c1}
  MaxRecord = 1
  SendLimit = 0
  MaxLife = 2
CHECK_DEADLOCK FALSE
PROPERTIES
  Reconnects
