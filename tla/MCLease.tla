------------------------------ MODULE MCLease -------------------------------
(***************************************************************************)
(* Instances of Lease for TLC: two workers, as in LEASE_TOPOLOGY.          *)
(***************************************************************************)
EXTENDS Lease

CONSTANTS W1, W2, L, S

Total(f) == f["drop"] + f["duplicate"] + f["gc-pause"] + f["clock-skew"]
              + f["kill-node"] + f["fencing"]

Only(kinds, f) == \A k \in Fault \ kinds : f[k] = 0

(* One fault of any kind, or two of those that work together: a pause, a   *)
(* late copy and fencing against stale writes; a kill and a copy against   *)
(* the lock.                                                               *)
AnyFault(f) ==
  \/ Total(f) <= 1
  \/ Total(f) = 2 /\ Only({"gc-pause", "duplicate", "fencing"}, f)
  \/ Total(f) = 2 /\ Only({"kill-node", "duplicate"}, f)

OnePause(f) == Total(f) = 1 /\ Only({"gc-pause"}, f)

=============================================================================
