\* Two clients, and one that is alone when the server is killed and comes back.
SPECIFICATION FairSpec
CONSTANTS
  Client = {c1, c2}
  MaxRecord = 2
  SendLimit = 0
  MaxLife = 2
CONSTRAINTS
  Together
  Noticed
  SecondLife
CHECK_DEADLOCK FALSE
INVARIANTS
  TypeOK
  ReplicaFollows
PROPERTIES
  DisplaysAgree
  RecordsDrawn
  ProducerResumes
  DisconnectCompletes
