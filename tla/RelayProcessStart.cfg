\* A renewal fails while the process is starting.
SPECIFICATION FairSpec
CONSTANTS
  Process = {p1}
  NoProcess = NoProcess
  LeaseTime = 6
  RenewTime = 2
  WaitTime = 7
  MaxDelay = 3
  MaxFaults = 1
  MaxStalls = 0
PROPERTY LossStopsWork
