SPECIFICATION Spec
CONSTANTS
  NumPorts = 2
  VIDs = {0}
  Unicast = {m1}
  Group = {}
  Nil = Nil
  Time = {0, 2}
  Ageings = {0, 1}
  Cfg <- MCCfg
INVARIANTS
  TypeOK
  MoveWins
  NoStaleHit
  NoSilentHit
  HitWasCurrent
VIEW View
