\* A message with or without an attachment, two revisions, a fault, two acts of users.
SPECIFICATION FairSpec
CONSTANTS
  MaxRevision = 2
  MaxComments = 3
  MaxFaults = 1
  MaxEdits = 2
CHECK_DEADLOCK FALSE
INVARIANTS TypeOK OneCopyPerInterruption EchoesAreOrphans UserEditsStay ConflictHasCause
PROPERTIES NeverOlder Settles
