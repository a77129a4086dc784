\* Three connections, one message, one key.
SPECIFICATION Spec
CONSTANTS
  Component = {c1, c2, c3}
  Key = {k1}
  MaxMessage = 1
  MaxMatch = 1
  NoRequest = NoRequest
SYMMETRY Symmetry
CONSTRAINT Calm
CHECK_DEADLOCK FALSE
INVARIANTS
  TypeOK
  TablesAgree
  OneCustodian
  ResponsesAccounted
PROPERTIES
  TradeSettled
  ImplementsMessageService
