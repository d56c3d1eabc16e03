--------------------------- MODULE MCReplication ----------------------------
(* Instances of Replication: a leader and two followers, as in the lab.    *)
EXTENDS Replication

CONSTANTS L, F1, F2, K

Fits(used, writes_, reads_, kills_, losses_, dups_) ==
  /\ used.writes <= writes_ /\ used.reads <= reads_ /\ used.kills <= kills_
  /\ used.losses <= losses_ /\ used.dups <= dups_

(* Two writes in any order, with one copy late; a write and a read; a      *)
(* write with a follower or the leader down and a message lost.            *)
Budgets(used) ==
  \/ Fits(used, 2, 0, 0, 0, 1)
  \/ Fits(used, 1, 1, 0, 0, 0) \/ Fits(used, 1, 0, 1, 1, 0)
=============================================================================
