SPECIFICATION FairSpec
CONSTANTS
  a = a
  b = b
  bc = bc
  NumPorts = 2
  VIDs = {0}
  Unicast = {a, b}
  Group = {bc}
  Nil = Nil
  Time = {0}
  Ageings = {0}
  MaxFrames = 2
  FailingPorts = {0}
  Stoppers = {s1, s2}
  Cfg <- PlainCfg
  Frames <- StopFrames
INVARIANTS
  NoUseAfterClose
  StopReturnsClean
PROPERTIES
  StopIsFinal
  StopTerminates
