SPECIFICATION Spec
CONSTANTS
  MaxActs = 2
  MaxHumanActs = 1
  MaxIdles = 1
  MaxRuns = 1
  MaxFaults = 1
  MaxInAll = 2
  MaxTime = 1
  MaxEvidence = 2
  MaxEvents = 6
CHECK_DEADLOCK FALSE
INVARIANTS TypeOK OnlyPeopleChangeIssue LinkMatchesIssue ThreadMatchesIssue
