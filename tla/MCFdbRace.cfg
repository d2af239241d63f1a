SPECIFICATION Spec
CONSTANTS
  NumPorts = 2
  VIDs = {0}
  Unicast = {m1}
  Group = {}
  Nil = Nil
  Time = {0}
  Ageings = {0}
  Cfg <- MCCfg
INVARIANT
  NoDataRace
