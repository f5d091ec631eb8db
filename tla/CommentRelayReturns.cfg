\* The comment goes from a text to another and back; nothing fails.
SPECIFICATION FairSpec
CONSTANTS
  MaxText = 2
  Long = {2}
  MaxVersion = 3
  MaxMessages = 6
  MaxFaults = 0
  MaxRuns = 0
CHECK_DEADLOCK FALSE
PROPERTIES FollowsReturns
