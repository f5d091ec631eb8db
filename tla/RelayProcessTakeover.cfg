\* Two processes with the real durations in units of five seconds, two faults and two stalls.
SPECIFICATION FairSpec
CONSTANTS
  Process = {p1, p2}
  NoProcess = NoProcess
  LeaseTime = 6
  RenewTime = 2
  WaitTime = 7
  MaxDelay = 3
  MaxFaults = 2
  MaxStalls = 2
INVARIANTS TypeOK ActiveHoldsLease
PROPERTY Takeover
