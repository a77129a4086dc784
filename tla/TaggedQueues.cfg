\* Two threads, two matches, up to two records for a match.
SPECIFICATION FairSpec
CONSTANTS
  Caller = {t1, t2}
  MaxMatch = 2
  MaxAnswer = 2
  MaxMessage = 1
  NoCaller = NoCaller
CONSTRAINT Calm
CHECK_DEADLOCK FALSE
INVARIANTS
  TypeOK
  Rendezvous
PROPERTIES
  NobodyStranded
