SPECIFICATION Spec
CONSTANTS
  Label = {1, 2, 3}
  MaxWord = 3
  LongWord = {3}
  MaxTags = 3
  MaxActs = 2
  MaxModerators = 1
  MaxStarts = 2
  MaxFaults = 1
  MaxInAll = 2
CHECK_DEADLOCK FALSE
INVARIANTS TypeOK TagsSettle
PROPERTIES TagsStay ReadTagsStay
