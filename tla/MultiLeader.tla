---------------------------- MODULE MultiLeader ----------------------------
(***************************************************************************)
(* Two leaders that take writes and tell each other, the last one winning: *)
(* src/src/modules/multileader.ts.  A write is told by its timestamp and   *)
(* its origin, so values are left out.                                     *)
(***************************************************************************)
EXTENDS Integers, Sequences

CONSTANTS
  Key,
  Within(_, _), Backlog    \* bounds: see Simulation; hist has the clock and counts writes

VARIABLES state, net, env, hist

Leaders == {"DC1", "DC2"}
Peer(n) == CHOOSE p \in Leaders : p # n

INSTANCE Simulation WITH Node <- Leaders, Killable <- Leaders

vars == <<state, net, env, hist>>

NoWrite == [ts |-> 0, origin |-> "none"]

(* hist: what each leader knew of the past when it made a write, and what  *)
(* it knows now.                                                           *)
Init ==
  /\ state = [n \in Leaders |-> [data |-> [k \in Key |-> NoWrite], acked |-> {}, discarded |-> {}]]
  /\ net = NoEvents /\ env = Calm
  /\ hist = [now |-> 0, writes |-> 0, past |-> [w \in {} |-> {}], known |-> [n \in Leaders |-> {}]]

Rank(origin) == IF origin = "DC2" THEN 2 ELSE 1    \* as strings compare

(* Without the comparison of origins. *)
WinsLater(a, b) == a.ts >= b.ts

Wins(a, b) == a.ts > b.ts \/ (a.ts = b.ts /\ Rank(a.origin) > Rank(b.origin))

Larger(a, b) == IF a > b THEN a ELSE b

(* The write that n makes now: the clock, or just after what n has.        *)
Made(n, k) == [ts |-> Larger(hist.now, state[n].data[k].ts + 1), origin |-> n]

OnWrite(n, k) ==
  LET w == Made(n, k)
  IN Out([state EXCEPT ![n].data[k] = w, ![n].acked = @ \cup {<<k, w>>}],
         <<<<Peer(n), [kind |-> "update", key |-> k, write |-> w]>>>>, <<>>)

(* What loses against a write of the same origin is late, not lost.        *)
OnUpdate(from, n, m) ==
  LET cur == state[n].data[m.key]
  IN CASE cur = NoWrite \/ Wins(m.write, cur) ->
            Quiet([state EXCEPT ![n].data[m.key] = m.write])
       [] ~(cur = NoWrite \/ Wins(m.write, cur)) /\ cur.origin = m.write.origin -> Quiet(state)
       [] OTHER -> Quiet([state EXCEPT ![n].discarded = @ \cup {<<m.key, m.write, cur>>}])

Write ==
  \E n \in Leaders, k \in Key :
    LET id == <<k, Made(n, k)>>
    IN /\ hist' = [hist EXCEPT !.writes = @ + 1,
                    !.past = [w \in DOMAIN @ \cup {id} |-> IF w = id THEN hist.known[n] ELSE @[w]],
                    !.known[n] = @ \cup {id}]
       /\ Within(env, hist')
       /\ External(n, OnWrite(n, k))

(* The leader that gets an update knows it and its past from now on. *)
Update ==
  \E l \in Links : \E i \in DOMAIN net.links[l] :
    LET m == net.links[l][i]  id == <<m.key, m.write>>
    IN /\ Arrive(l, i, OnUpdate)
       /\ hist' = [hist EXCEPT !.known[l[2]] = @ \cup {id} \cup hist.past[id]]

Tick ==
  /\ hist' = [hist EXCEPT !.now = @ + 1]
  /\ Within(env, hist')
  /\ UNCHANGED <<state, net, env>>

Next == Write \/ Update \/ Tick \/ Fault

Spec == Init /\ [][Next]_vars

-----------------------------------------------------------------------------
(* Properties.                                                             *)

(* A leader never has a write before the other one made it. *)
TypeOK ==
  \A n \in Leaders, k \in Key :
    state[n].data[k] = NoWrite \/ <<k, state[n].data[k]>> \in hist.known[n]

(* With nothing lost and nothing on its way the leaders have the same,     *)
(* whatever the order of arrivals, however many copies, and although       *)
(* timestamps tie (multileader.ts:31-33, 80-119).                          *)
Converged ==
  env.lost = 0 /\ NothingComes => \A k \in Key : state["DC1"].data[k] = state["DC2"].data[k]

(* A write recorded as discarded was one the winner did not know about:    *)
(* the losing concurrent write (multileader.ts:10-11).  That holds while   *)
(* updates arrive in order and once.                                       *)
DiscardsConcurrent ==
  \A n \in Leaders : \A d \in state[n].discarded : <<d[1], d[2]>> \notin hist.past[<<d[1], d[3]>>]

DiscardsExact == env.late + env.dups = 0 => DiscardsConcurrent

(* Leaders that have heard of the same writes have the same data, and what *)
(* they call discarded was concurrent (multileader.ts:80-119).             *)
LeadersConverge == TypeOK /\ Converged /\ DiscardsExact
=============================================================================
