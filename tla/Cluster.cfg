SPECIFICATION Spec
CHECK_DEADLOCK FALSE
CONSTANTS
  Partition = {"p0"}
  PartitionOf <- OnePartition
  CommitEvery = 2
  LogWithin <- KafkaBound
  LogBacklog = 3
  Key = {"a"}
  LeadersWithin <- LeadersBound
  LeadersBacklog = 3
  Ring <- ThreeNodes
  RingWithin <- RingBound
  RingBacklog = 3
  MessageId = {1, 2}
  DeliveryLimit = 3
  QueueWithin <- RabbitBound
  QueueBacklog = 3
  ChannelWithin <- RedisBound
  ChannelBacklog = 9
  PagePosts <- ThreePosts
  PageWithin <- PageBound
  PageBacklog = 9
INVARIANTS
  KafkaSound MessagesAccounted TokenInTurn LeadersConverge KeysPlaced PageAccounted
  MapReduceSound DataflowExact
