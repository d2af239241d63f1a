SPECIFICATION FairSpec
CONSTANTS
  Instances = {i1, i2}
  CommandLines <- Lines
  Overlap = FALSE
  FlakyAccept = {i2}
  Restricted = {i1}
  Nil = Nil
  Clients = {c1, c2}
  Shells = {c2}
  MaxCalls = 2
INVARIANTS
  TypeOK
  ExitClean
  AsAsked
  NeverInUse
  Reachable
PROPERTIES
  Settles
  QueriesEnd
CHECK_DEADLOCK FALSE
