\* The sync that makes the thread fails after making it: one worker.
SPECIFICATION FairSpec
CONSTANTS
  Event <- ThreadEvent
  Operation <- ThreadOperation
  Partition = {"link"}
  Mapping = {"feedback"}
  Worker = {w1}
  NoPartition = NoPartition
  NoMapping = NoMapping
  NoWorker = NoWorker
  NoJob = NoJob
  PartitionOf <- ThreadPartition
  MappingOf <- ThreadMapping
  KindOf <- ThreadKind
  PlanOf <- ThreadPlan
  DependsOn <- ThreadDepends
  Submitted <- ThreadSubmitted
  Backlog <- ThreadBacklog
  MaxAttempts = 2
  MaxFaults = 0
  MaxCommands = 0
PROPERTY WaitersAreRevived
