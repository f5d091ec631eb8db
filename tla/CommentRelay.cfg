\* A short and two long texts, three versions, a fault, a reconciliation.
SPECIFICATION FairSpec
CONSTANTS
  MaxText = 2
  Long = {2}
  MaxVersion = 3
  MaxMessages = 6
  MaxFaults = 1
  MaxRuns = 1
CHECK_DEADLOCK FALSE
INVARIANTS TypeOK WholeWhenSettled DuplicatesPerInterruption ArchivedAgain
PROPERTIES Follows
