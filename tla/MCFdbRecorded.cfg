SPECIFICATION ForwardSpec
CONSTANTS
  NumPorts = 2
  VIDs = {0}
  Unicast = {m1}
  Group = {}
  Nil = Nil
  Time = {0, 2}
  Ageings = {1}
  Cfg <- MCCfg
INVARIANT
  LearnRecorded
