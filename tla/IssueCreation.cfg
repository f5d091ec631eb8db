SPECIFICATION FairSpec
CONSTANTS
  MaxText = 2
  MaxIssues = 3
  MaxAttempts = 2
  MaxActs = 2
  MaxFaults = 1
  MaxRuns = 1
  MaxInAll = 2
CHECK_DEADLOCK FALSE
INVARIANTS TypeOK DuplicatesHaveCauses NoEcho UserBodyStays CopyMatchesBody
PROPERTIES ThreadsGetIssues
