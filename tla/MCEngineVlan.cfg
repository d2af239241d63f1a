SPECIFICATION Spec
CONSTANTS
  a = a
  b = b
  bc = bc
  NumPorts = 3
  VIDs = {0, 1, 2, 3}
  Unicast = {a, b}
  Group = {bc}
  Nil = Nil
  Time = {0}
  Ageings = {0}
  MaxFrames = 3
  FailingPorts = {}
  Stoppers = {}
  Cfg <- VlanCfg
  Frames <- VlanFrames
INVARIANTS
  TypeOK
  FdbScoped
  VlanIsolation
  CopiesAccounted
PROPERTY
  ImplementsLearningSwitch
