SPECIFICATION ThroughputSpec
CONSTANTS
  NumHosts = 2
  Switches = {"bridge", "goswitch"}
  MaxJobs = 1
  MaxSends = 1
  MaxStrays = 0
  Stuck = {}
INVARIANT
  WarmupExcluded
CHECK_DEADLOCK FALSE
