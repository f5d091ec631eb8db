\* A message that reopens its issue beside an event of another mapping, under fairness: two workers.
SPECIFICATION FairSpec
CONSTANTS
  Event <- MixedEvent
  Operation <- ReopenOperation
  Partition = {"thread", "link", "other"}
  Mapping = {"feedback", "support"}
  Worker = {w1, w2}
  NoPartition = NoPartition
  NoMapping = NoMapping
  NoWorker = NoWorker
  NoJob = NoJob
  PartitionOf <- MixedPartition
  MappingOf <- MixedMapping
  KindOf <- ReopenKind
  PlanOf <- MixedPlan
  DependsOn <- ReopenDepends
  Submitted <- MixedEvent
  Backlog <- NoBacklog
  MaxAttempts = 1
  MaxFaults = 1
  MaxCommands = 1
INVARIANTS PrerequisitesFirst IntentRecorded IntentInOrder
PROPERTY Progress
