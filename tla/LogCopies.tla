----------------------------- MODULE LogCopies ------------------------------
(***************************************************************************)
(* What leader-follower replication promises: one log that only grows,     *)
(* followers that hold a prefix of it and only go forward, and an          *)
(* acknowledgement that, in sync mode, means every follower has the write. *)
(***************************************************************************)
EXTENDS Integers, Sequences

CONSTANT Follower

VARIABLES
  sync,      \* is an acknowledgement a promise?
  primary,   \* the log
  copy,      \* copy[f]: what follower f holds of it
  acked      \* the positions acknowledged

vars == <<sync, primary, copy, acked>>

Init ==
  /\ sync \in BOOLEAN
  /\ primary = <<>> /\ copy = [f \in Follower |-> <<>>] /\ acked = {}

(* One more entry, whatever it is. *)
Write ==
  /\ Len(primary') = Len(primary) + 1
  /\ SubSeq(primary', 1, Len(primary)) = primary
  /\ acked' = IF sync THEN acked ELSE acked \cup {Len(primary) + 1}
  /\ UNCHANGED <<sync, copy>>

Copy(f, n) ==
  /\ Len(copy[f]) <= n /\ n <= Len(primary)
  /\ copy' = [copy EXCEPT ![f] = SubSeq(primary, 1, n)]
  /\ UNCHANGED <<sync, primary, acked>>

Confirm(s) ==
  /\ \A f \in Follower : s <= Len(copy[f])
  /\ acked' = acked \cup {s}
  /\ UNCHANGED <<sync, primary, copy>>

Next ==
  \/ Write
  \/ \E f \in Follower : \E n \in 0..Len(primary) : Copy(f, n)
  \/ \E s \in 1..Len(primary) : Confirm(s)

Spec == Init /\ [][Next]_vars
=============================================================================
