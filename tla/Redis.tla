------------------------------- MODULE Redis --------------------------------
(***************************************************************************)
(* Fan-out of the chapter 11 lab, src/src/modules/redispubsub.ts: every    *)
(* published id is pushed to every subscriber, once, and never again.      *)
(***************************************************************************)
EXTENDS Integers, Sequences, FiniteSets, FiniteSetsExt

CONSTANTS
  Id,              \* of the messages, which the lab never uses twice
  Within(_, _), Backlog     \* bound: see Simulation

VARIABLES state, net, env, hist

Consumer == {"C1", "C2"}

INSTANCE Simulation WITH Node <- {"P", "B"} \cup Consumer, Killable <- {"B"} \cup Consumer

vars == <<state, net, env, hist>>

Init ==
  /\ state = [published |-> {}, processed |-> [c \in Consumer |-> <<>>]]
  /\ net = NoEvents /\ env = Calm
  /\ hist = [produced |-> {}]

Notify(c, id) == <<c, [kind |-> "notify", id |-> id]>>

OnPublish(from, n, m) ==
  Out([state EXCEPT !.published = @ \cup {m.id}], <<Notify("C1", m.id), Notify("C2", m.id)>>, <<>>)

OnNotify(from, n, m) == Quiet([state EXCEPT !.processed[n] = Append(@, m.id)])

Produce ==
  \E id \in Id \ hist.produced :
    /\ hist' = [produced |-> hist.produced \cup {id}]
    /\ Within(env, hist')
    /\ External("P", Out(state, <<<<"B", [kind |-> "publish", id |-> id]>>>>, <<>>))

Next ==
  \/ Produce
  \/ Receive("publish", OnPublish) /\ UNCHANGED hist
  \/ Receive("notify", OnNotify) /\ UNCHANGED hist
  \/ Fault

Spec == Init /\ [][Next]_vars

-----------------------------------------------------------------------------
(* Properties.                                                             *)

TypeOK ==
  /\ state.published \subseteq hist.produced
  /\ \A c \in Consumer : Range(state.processed[c]) \subseteq state.published

(* redisTriple's `lost': the ids each subscriber has not seen. *)
Lost ==
  MapThenSumSet(LAMBDA c : Cardinality(state.published \ Range(state.processed[c])), Consumer)

(* At most once, and the count is exact: without copies made by the        *)
(* network a subscriber sees an id once, and what the lab counts as lost,  *)
(* with the ids that never reached the broker, is what is on its way or    *)
(* was lost on it - never more, never less - whoever died, came back or    *)
(* was overtaken (redispubsub.ts:37-53, 101-122).                          *)
LostExact ==
  env.dups = 0 =>
    /\ \A c \in Consumer : IsInjective(state.processed[c])
    /\ Lost + Cardinality(hist.produced \ state.published) = OnTheWay + env.lost
=============================================================================
