----------------------------- MODULE MCDataflow -----------------------------
(* The second worker, which runs the second map, dies and comes back. *)
EXTENDS Dataflow

OneDeath(e, h) ==
  /\ e.falls["W1"] = 0 /\ e.revives <= 1 /\ e.kills <= h.jobs /\ h.jobs <= 1
  /\ e.drops + e.dups + e.late = 0 /\ h.pings <= h.jobs + e.revives /\ h.stalls = 0

Both == <<"W1", "W2">>
TwoMaps == <<"m0", "m1">>
OneReduce == <<"r0">>
Blocks(m) == CASE m = "m0" -> <<"a", "b">> [] m = "m1" -> <<"a">>
ToOne(u) == "r0"
=============================================================================
