------------------------------ MODULE MCCluster ------------------------------
(***************************************************************************)
(* The labs whose nodes send messages over the engine, but for those with  *)
(* a module of their own: those of Cluster, the ring of the hashes,        *)
(* the page of the API lab and the two engines of the batch lab.  A        *)
(* behaviour is one of one lab, with the bounds of that lab.               *)
(***************************************************************************)
EXTENDS Cluster

Faults(e) == e.drops + e.dups + e.kills + e.late

(* Brokers.  One partition, whose log a kill makes a consumer read again;  *)
(* two messages that are delivered up to three times; two that are not     *)
(* kept at all.                                                            *)
KafkaBound(e, h) ==
  /\ e.kills <= 1 /\ e.late + e.drops + e.dups + e.revives = 0
  /\ h.produced <= 3 /\ h.moves <= 1
OnePartition(id) == "p0"

RabbitBound(e, h) == Faults(e) <= 1 /\ e.revives <= 1
RedisBound(e, h) == Faults(e) <= 2 /\ e.dups = 0 /\ e.revives <= 1

(* A ring of three and four tokens; two leaders and three writes to a key; *)
(* a ring of hashes with two members of three, two keys and two changes.   *)
ThreeNodes == <<"A", "B", "C">>
RingBound(e, h) == Faults(e) + e.revives <= 2 /\ h.passed <= 4 /\ h.retransmitted <= 3

LeadersBound(e, h) == Faults(e) + e.revives <= 2 /\ h.now <= 2 /\ h.writes <= 3

HashBound(e, h) == e.revives = 0 /\ Faults(e) + h.changes <= 2
Positions(n) == CASE n = "A" -> {2, 7} [] n = "B" -> {4} [] n = "C" -> {5, 9}
Position(k) == CASE k = "k0" -> 3 [] k = "k1" -> 8
HashRing == INSTANCE HashRing WITH
  Pool <- {"A", "B", "C"}, InitialMembers <- {"A", "B"}, Key <- {"k0", "k1"},
  Vnodes <- Positions, KeyPos <- Position, Within <- HashBound, Backlog <- 9

(* A page of three posts. *)
PageBound(e, h) == Faults(e) <= 2 /\ e.dups = 0 /\ e.revives <= 1 /\ h.changes <= 2
ThreePosts == <<"p0", "p1", "p2">>

(* A job of two maps and a reduce, for two workers.                        *)
(* The first worker dies at most once a job and comes back; a heartbeat    *)
(* each before and after.                                                  *)
Deaths(e, h) ==
  /\ e.revives <= 1 /\ e.kills <= h.jobs /\ h.jobs <= 1
  /\ e.drops + e.dups + e.late = 0 /\ h.pings <= h.jobs + e.revives

MapReduceBound(e, h) ==
  Deaths(e, h) /\ e.falls["W2"] = 0 /\ h.retries <= e.kills /\ h.retries + h.pings <= 2
MapReduce == INSTANCE MapReduce WITH
  Workers <- <<"W1", "W2">>, MapTasks <- <<"m0", "m1">>, ReduceTasks <- <<"r0">>, Records <- 1,
  Within <- MapReduceBound, Backlog <- 1

(* The second worker, which runs the second map, dies here; or nobody dies *)
(* and a message overtakes those before it on its link.                    *)
DataflowBound(e, h) ==
  /\ h.stalls = 0
  /\ \/ Deaths(e, h) /\ e.falls["W1"] = 0
     \/ e.drops + e.dups + e.kills = 0 /\ e.late <= 2 /\ h.jobs <= 1 /\ h.pings <= 1
Urls(m) == CASE m = "m0" -> <<"a", "b">> [] m = "m1" -> <<"a">>
Reduce(u) == "r0"
Dataflow == INSTANCE Dataflow WITH
  Workers <- <<"W1", "W2">>, MapTasks <- <<"m0", "m1">>, ReduceTasks <- <<"r0">>,
  Url <- {"a", "b"}, Split <- Urls, PartitionOf <- Reduce,
  Within <- DataflowBound, Backlog <- 1

-----------------------------------------------------------------------------
Init ==
  \/ LabInit
  \/ lab = "hash-ring" /\ HashRing!Init
  \/ lab = "mapreduce" /\ MapReduce!Init
  \/ lab = "dataflow" /\ Dataflow!Init

Next ==
  \/ LabNext
  \/ /\ UNCHANGED lab
     /\ \/ lab = "hash-ring" /\ HashRing!Next
        \/ lab = "mapreduce" /\ MapReduce!Next
        \/ lab = "dataflow" /\ Dataflow!Next

Spec == Init /\ [][Next]_<<lab, state, net, env, hist>>

-----------------------------------------------------------------------------
(* Properties, each that of its lab with its types.                        *)

(* A key is in one place, in the end that of its owner                     *)
(* (hashring.ts:103-128).                                                  *)
KeysPlaced == lab = "hash-ring" => HashRing!TypeOK /\ HashRing!OnePlace /\ HashRing!AtOwner

(* The output has every reduce once, made of every map, and what the       *)
(* tracker believes of a live worker is so (batch.ts:244-287, 335-481).    *)
MapReduceSound ==
  lab = "mapreduce" => MapReduce!TypeOK /\ MapReduce!OutputOnce /\ MapReduce!PictureRight

(* The streams of a dataflow attempt are counted exactly once              *)
(* (batch.ts:387-405, 487-550, 612-644).                                   *)
DataflowExact == lab = "dataflow" => Dataflow!TypeOK /\ Dataflow!OutputExactUnwiped
=============================================================================
