\* A link without a thread, two workers, one fault and one operator command.
SPECIFICATION Spec
CONSTANTS
  Event <- ThreadEvent
  Operation <- ThreadOperation
  Partition = {"link"}
  Mapping = {"feedback"}
  Worker = {w1, w2}
  NoPartition = NoPartition
  NoMapping = NoMapping
  NoWorker = NoWorker
  NoJob = NoJob
  PartitionOf <- ThreadPartition
  MappingOf <- ThreadMapping
  KindOf <- ThreadKind
  PlanOf <- ThreadPlan
  DependsOn <- ThreadDepends
  Submitted <- ThreadSubmitted
  Backlog <- ThreadBacklog
  MaxAttempts = 2
  MaxFaults = 1
  MaxCommands = 1
SYMMETRY Symmetry
INVARIANTS TypeOK InPartitionOrder
PROPERTY ImplementsContract
