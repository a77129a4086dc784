\* Two connections and two services compete for the ports of two blocks.
SPECIFICATION Spec
CONSTANTS
  Component = {c1, c2}
  Service = {s1, s2}
  Network = {n1}
  Block <- Resized
  Size = {1, 2}
  MaxMatch = 0
  NoRequest = NoRequest
  NoOffer = NoOffer
SYMMETRY Symmetry
CONSTRAINTS
  Calm
  RetriesServed
CHECK_DEADLOCK FALSE
INVARIANTS
  PortsInOnePlace
PROPERTIES
  RetryMovesOn
