SPECIFICATION FairSpec
CONSTANTS
  NumHosts = 2
  Switches = {"bridge", "goswitch"}
  MaxJobs = 2
  MaxSends = 1
  MaxStrays = 1
  Stuck = {0, 1}
INVARIANTS
  TypeOK
  TornDown
  NoReadAfterClose
  NoEcho
PROPERTY
  TestEnds
CHECK_DEADLOCK FALSE
