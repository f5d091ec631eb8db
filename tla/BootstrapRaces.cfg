\* Two bootstraps of a mapping with two items, two calls in flight, two faults and two commands.
SPECIFICATION FairSpec
CONSTANTS
  MaxJobs = 2
  Item = {i1, i2}
  LiveItem = {i1}
  Caller = {c1, c2}
  MaxFaults = 2
  MaxCommands = 2
CHECK_DEADLOCK FALSE
INVARIANTS TypeOK ActiveIsImported BootstrapHasJob
PROPERTY BootstrapEnds
