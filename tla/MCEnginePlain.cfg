SPECIFICATION UpToNamesSpec
CONSTANTS
  a = a
  b = b
  bc = bc
  NumPorts = 3
  VIDs = {0}
  Unicast = {a, b}
  Group = {bc}
  Nil = Nil
  Time = {0}
  Ageings <- Flush
  MaxFrames = 2
  FailingPorts = {}
  Stoppers = {}
  Cfg <- PlainCfg
  Frames <- PlainFrames
INVARIANT
  CopiesAccounted
PROPERTIES
  ForwardReturns
  ImplementsLearningSwitch
