--------------------------- MODULE MCRaftHistory ----------------------------
(***************************************************************************)
(* Raft with the history of RaftHistory kept in two variables, to check    *)
(* HistoryInv on an instance.  A leader's log is history as it is written, *)
(* and what a server has taken is what it acknowledged or, leading, wrote. *)
(* HistoryInv holds of some history in every state: the view leaves the    *)
(* history out, and a state is checked with the one it is first met with.  *)
(***************************************************************************)
EXTENDS RaftHistory, MCRaft, FiniteSetsExt

CONSTANT Terms   \* the terms of the budgets

VARIABLES led, taken

Leaders(t) == {n \in Server : role'[n] = "leader" /\ term'[n] = t}

(* How far the answers of s in its present term say it has got. *)
Answered(s) ==
  {m.matchIndex : m \in {x \in net' : /\ x.kind = "append-resp" /\ x.ok
                                      /\ x.from = s /\ x.term = term'[s]}}

Recorded ==
  /\ led' = [t \in Terms |-> IF Leaders(t) = {} THEN led[t]
                             ELSE log'[CHOOSE n \in Leaders(t) : TRUE]]
  /\ taken' = [s \in Server |-> [taken[s] EXCEPT ![term'[s]] =
                 Max({@} \cup Answered(s) \cup {Len(log'[n]) : n \in {s} \cap Leaders(term'[s])})]]

HistoryInit ==
  /\ Init
  /\ led = [t \in Terms |-> <<>>] /\ taken = [s \in Server |-> [t \in Terms |-> 0]]

HistorySpec == HistoryInit /\ [][Next /\ Recorded]_<<vars, led, taken>>

HistoryHolds == HistoryInv(led, taken)
=============================================================================
