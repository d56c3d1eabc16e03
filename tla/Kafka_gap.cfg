SPECIFICATION Spec
CHECK_DEADLOCK FALSE
CONSTANTS
  Partition = {"p0"}
  PartitionOf <- OnePartition
  CommitEvery = 3
  Within <- BackInTime
  Backlog = 3
INVARIANTS NothingLost
