------------------------------ MODULE MCKafka -------------------------------
(* A consumer is killed and comes back before its session is over. *)
EXTENDS Kafka

OnePartition(id) == "p0"

(* One message is lost at the dead consumer, three more are committed. *)
BackInTime(e, h) ==
  /\ e.kills <= 1 /\ e.revives <= 1 /\ e.late + e.drops + e.dups = 0
  /\ h.produced <= 4 /\ h.moves = 0
=============================================================================
