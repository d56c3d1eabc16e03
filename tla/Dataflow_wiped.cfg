SPECIFICATION Spec
CHECK_DEADLOCK FALSE
CONSTANTS
  Workers <- Both
  MapTasks <- TwoMaps
  ReduceTasks <- OneReduce
  Url = {"a", "b"}
  Split <- Blocks
  PartitionOf <- ToOne
  Within <- OneDeath
  Backlog = 1
INVARIANTS OutputExact
