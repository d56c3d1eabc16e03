------------------------------ MODULE Cluster -------------------------------
(***************************************************************************)
(* Labs whose nodes send messages over the engine, one at a time: a page   *)
(* of src/src/ui/App.tsx makes a simulation of its own, so a behaviour is  *)
(* one of one lab.  Here are the labs whose properties ClusterProofs       *)
(* proves for any of their constants; MCCluster adds the others.           *)
(***************************************************************************)
EXTENDS Integers, Sequences

CONSTANTS
  Partition, PartitionOf(_), CommitEvery,   \* of the log: see Kafka
  LogWithin(_, _), LogBacklog,
  Key,                                      \* of the leaders: see MultiLeader
  LeadersWithin(_, _), LeadersBacklog,
  Ring, RingWithin(_, _), RingBacklog,      \* of the tokens: see PingPong
  MessageId, DeliveryLimit,                 \* of the queue: see Rabbit
  QueueWithin(_, _), QueueBacklog,
  ChannelWithin(_, _), ChannelBacklog,      \* of the channel: see Redis
  PagePosts, PageWithin(_, _), PageBacklog  \* of the page: see Api

ASSUME RingAssumption ==
  /\ Ring # <<>> /\ Ring \in Seq({Ring[i] : i \in DOMAIN Ring})
  /\ \A i, j \in DOMAIN Ring : Ring[i] = Ring[j] => i = j
ASSUME LimitAssumption == DeliveryLimit \in Nat \ {0}
ASSUME PostsAssumption ==
  LET posts == {PagePosts[i] : i \in DOMAIN PagePosts}
  IN /\ PagePosts # <<>> /\ PagePosts \in Seq(posts) /\ posts \cap {"user", "q", "rpc"} = {}
     /\ \A i, j \in DOMAIN PagePosts : PagePosts[i] = PagePosts[j] => i = j

VARIABLES lab, state, net, env, hist

Kafka == INSTANCE Kafka WITH Within <- LogWithin, Backlog <- LogBacklog
MultiLeader == INSTANCE MultiLeader WITH Within <- LeadersWithin, Backlog <- LeadersBacklog
PingPong == INSTANCE PingPong WITH Within <- RingWithin, Backlog <- RingBacklog
Rabbit == INSTANCE Rabbit WITH Id <- MessageId, Within <- QueueWithin, Backlog <- QueueBacklog
Redis == INSTANCE Redis WITH Id <- MessageId, Within <- ChannelWithin, Backlog <- ChannelBacklog
Api == INSTANCE Api WITH PostIds <- PagePosts, Within <- PageWithin, Backlog <- PageBacklog

LabInit ==
  \/ lab = "kafka" /\ Kafka!Init
  \/ lab = "multi-leader" /\ MultiLeader!Init
  \/ lab = "ping-pong" /\ PingPong!Init
  \/ lab = "rabbit" /\ Rabbit!Init
  \/ lab = "redis" /\ Redis!Init
  \/ lab = "api" /\ Api!Init

LabNext ==
  /\ UNCHANGED lab
  /\ \/ lab = "kafka" /\ Kafka!Next
     \/ lab = "multi-leader" /\ MultiLeader!Next
     \/ lab = "ping-pong" /\ PingPong!Next
     \/ lab = "rabbit" /\ Rabbit!Next
     \/ lab = "redis" /\ Redis!Next
     \/ lab = "api" /\ Api!Next

LabSpec == LabInit /\ [][LabNext]_<<lab, state, net, env, hist>>

-----------------------------------------------------------------------------
(* Properties, each that of its lab with its types.                        *)

(* The commit of a partition never passes a message nobody has processed   *)
(* (kafkalog.ts:118-163).                                                  *)
KafkaSound == lab = "kafka" => Kafka!KafkaSound

(* Leaders that have heard of the same writes have the same data, and what *)
(* they call discarded was concurrent (multileader.ts:80-119).             *)
LeadersConverge == lab = "multi-leader" => MultiLeader!LeadersConverge

(* The queue holds, has delivered or has buried every message; the channel *)
(* knows exactly what it lost (rabbitqueue.ts:76-110, redispubsub.ts:37).  *)
MessagesAccounted ==
  /\ lab = "rabbit" => Rabbit!TypeOK /\ Rabbit!HeldOrDone
  /\ lab = "redis" => Redis!TypeOK /\ Redis!LostExact

(* Tokens go round one by one, and the newest is sent until it is passed   *)
(* on (pingpong.ts:56-72).                                                 *)
TokenInTurn ==
  lab = "ping-pong" => PingPong!TypeOK /\ PingPong!InTurn /\ PingPong!KeepsTrying

(* A page counts each answer or its timeout, once, and never waits without *)
(* a timeout to come (rest.ts:60-86).                                      *)
PageAccounted ==
  lab = "api" => Api!TypeOK /\ Api!EachPostOnce /\ Api!AllOrNothing /\ Api!WaitIsTimed
=============================================================================
