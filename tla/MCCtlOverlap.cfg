SPECIFICATION Spec
CONSTANTS
  Instances = {i1, i2}
  CommandLines <- Good
  Overlap = TRUE
  FlakyAccept = {}
  Restricted = {}
  Nil = Nil
  Clients = {c1}
  Shells = {}
  MaxCalls = 1
INVARIANT
  OnlyStaleRemoved
CHECK_DEADLOCK FALSE
