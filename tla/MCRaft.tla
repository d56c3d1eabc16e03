------------------------------- MODULE MCRaft -------------------------------
(* Model checking Raft: what a behaviour may use of each bound.            *)
EXTENDS Raft

CONSTANTS n1, n2, n3

(* Five budgets, each small enough to check and each with a hazard of its  *)
(* own: contention for every vote of two terms; a leader replaced while    *)
(* each takes a write; two writes of one leader; a heartbeat beside a      *)
(* write; a write with a kill, a revive and a duplicate.                   *)
Budget(elections, writes, kills_, beats_, dups_) ==
  [elections |-> elections, writes |-> writes, kills |-> kills_,
   beats |-> beats_, dups |-> dups_]

Budgets ==
  { Budget({n1, n2} \X {1, 2}, {}, 0, 0, 0),
    Budget({<<n1, 1>>, <<n2, 2>>}, {<<n1, 1>>, <<n2, 1>>}, 0, 0, 0),
    Budget({<<n1, 1>>}, {<<n1, 1>>, <<n1, 2>>}, 0, 0, 0),
    Budget({<<n1, 1>>}, {<<n1, 1>>}, 0, 1, 0),
    Budget({<<n1, 1>>}, {<<n1, 1>>}, 1, 0, 1) }

Fits(used, b) ==
  /\ used.kills <= b.kills /\ used.beats <= b.beats /\ used.dups <= b.dups
  /\ used.elections \subseteq b.elections
  /\ \A n \in Server : used.writes[n] = 0 \/ <<n, used.writes[n]>> \in b.writes

WithinBudget(used) == \E b \in Budgets : Fits(used, b)

(* The elections that may still start, now or later. *)
ToCome ==
  LET used == Used IN UNION {b.elections : b \in {x \in Budgets : Fits(used, x)}}

(* No election of `later' starts in a later term than that of n. *)
Last(n, later) == \A e \in later : e[2] <= term[n]

(* Messages a receiver would ignore now and, terms being monotonic, for    *)
(* ever, or answer with one: they tell two states apart that behave alike. *)
Ignored(m, later) ==
  \/ /\ m.kind = "vote"
     /\ \/ m.term < term[m.to]
        \/ m.term = term[m.to] /\ (~m.granted \/ role[m.to] # "candidate")
  \/ /\ m.kind = "append-resp"
     /\ \/ m.term < term[m.to]
        \/ m.term = term[m.to] /\ role[m.to] = "follower"
  \/ /\ m.kind = "req-vote" /\ m.term < term[m.to]
     /\ Last(m.to, later) /\ term[m.from] = term[m.to]
  \/ /\ m.kind = "append" /\ m.term < term[m.to]
     /\ Last(m.to, later) /\ term[m.from] = term[m.to]
     /\ <<m.from, term[m.to]>> \notin later

(* The ghosts stay in the view: properties read them. *)
View ==
  LET later == ToCome
  IN <<electionVars, logVars, leaderVars, faultVars, timerVars, dups,
       {m \in net : ~Ignored(m, later)}>>
=============================================================================
