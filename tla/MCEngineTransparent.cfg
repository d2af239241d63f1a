SPECIFICATION Spec
CONSTANTS
  a = a
  b = b
  bc = bc
  NumPorts = 2
  VIDs = {0, 1}
  Unicast = {a, b}
  Group = {bc}
  Nil = Nil
  Time = {0}
  Ageings = {0}
  MaxFrames = 2
  FailingPorts = {}
  Stoppers = {}
  Cfg <- PlainCfg
  Frames <- TaggedFrames
INVARIANT
  PlainTransparent
