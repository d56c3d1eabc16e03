------------------------------ MODULE HashRing ------------------------------
(***************************************************************************)
(* The consistent-hash ring, src/src/modules/hashring.ts: every node has a *)
(* view of the membership, stores keys, and hands over those that another  *)
(* node owns in a new view.  The hash is a constant: where the virtual     *)
(* nodes of a node and a key lie on the ring.                              *)
(***************************************************************************)
EXTENDS Integers, Sequences, FiniteSets, FiniteSetsExt, SequencesExt

CONSTANTS
  Pool, InitialMembers, Key,
  Vnodes(_), KeyPos(_),    \* positions: of a node, a set of its own; of a key
  Within(_, _), Backlog    \* bounds: see Simulation; hist has the keys put and
                           \* counts the changes

VARIABLES state, net, env, hist

INSTANCE Simulation WITH Node <- Pool, Killable <- Pool

vars == <<state, net, env, hist>>

Init ==
  /\ state = [n \in Pool |-> [members |-> InitialMembers, changeSeq |-> 0, keys |-> {}]]
  /\ net = NoEvents /\ env = Calm
  /\ hist = [put |-> {}, changes |-> 0, raced |-> FALSE]

-----------------------------------------------------------------------------
BuildRing(members) == UNION {{[pos |-> p, node |-> n] : p \in Vnodes(n)} : n \in members}

(* The first virtual node clockwise from the key, past the end the first.  *)
OwnerOf(members, k) ==
  LET ring  == BuildRing(members)
      after == {v \in ring : v.pos >= KeyPos(k)}
      Lowest(vs) == CHOOSE v \in vs : \A u \in vs : v.pos <= u.pos
  IN IF after # {} THEN Lowest(after).node ELSE Lowest(ring).node

StoreKeys(s, n, keys) == [s EXCEPT ![n].keys = @ \cup keys]

(* A view that is stale or a copy. *)
Stale(s, n, seq) == seq <= s[n].changeSeq

(* What is handed over is kept as well. *)
ApplyMembershipKeepsAll(s, n, members, seq) ==
  LET Owned(o) == {k \in s[n].keys : OwnerOf(members, k) = o}
      others == SetToSeq({o \in members : o # n /\ Owned(o) # {}})
  IN IF Stale(s, n, seq) THEN Quiet(s)
     ELSE Out([s EXCEPT ![n] = [@ EXCEPT !.members = members, !.changeSeq = seq]],
              [i \in DOMAIN others |-> <<others[i], [kind |-> "handoff", keys |-> Owned(others[i])]>>],
              <<>>)

(* A newer view: keep what is owned in it, hand over the rest.             *)
ApplyMembership(s, n, members, seq) ==
  LET Owned(o) == {k \in s[n].keys : OwnerOf(members, k) = o}
      others == SetToSeq({o \in members : o # n /\ Owned(o) # {}})
      kept == IF n \in members THEN Owned(n) ELSE {}
  IN IF Stale(s, n, seq) THEN Quiet(s)
     ELSE Out([s EXCEPT ![n] = [members |-> members, changeSeq |-> seq, keys |-> kept]],
              [i \in DOMAIN others |-> <<others[i], [kind |-> "handoff", keys |-> Owned(others[i])]>>],
              <<>>)

OnPut(n, k) ==
  LET owner == OwnerOf(state[n].members, k)
  IN IF owner = n THEN Quiet(StoreKeys(state, n, {k}))
     ELSE Out(state, <<<<owner, [kind |-> "store", key |-> k]>>>>, <<>>)

(* A change: the coordinator applies the view and tells everybody.         *)
OnChange(n, members) ==
  LET seq == state[n].changeSeq + 1
      o == ApplyMembership(state, n, members, seq)
      to == SetToSeq(Pool \ {n})
  IN Out(o.state,
         o.sends \o [i \in DOMAIN to |->
                       <<to[i], [kind |-> "membership", members |-> members, seq |-> seq]>>], <<>>)

(* addNode and removeNode, those that are not ignored. *)
Changes(n) ==
  LET members == state[n].members
  IN {members \cup {x} : x \in Pool \ members}
       \cup {members \ {x} : x \in {y \in members : Cardinality(members) > 1}}

OnStore(from, n, m) == Quiet(StoreKeys(state, n, {m.key}))
OnHandoff(from, n, m) == Quiet(StoreKeys(state, n, m.keys))
OnMembership(from, n, m) == ApplyMembership(state, n, m.members, m.seq)

-----------------------------------------------------------------------------
Settling == \E l \in Links : \E m \in InFlight(l) : m.kind \in {"membership", "handoff"}

Put ==
  \E n \in Pool, k \in Key \ hist.put :
    /\ hist' = [hist EXCEPT !.put = @ \cup {k}, !.raced = @ \/ Settling]
    /\ External(n, OnPut(n, k))

Change ==
  \E n \in Pool : \E members \in Changes(n) :
    /\ hist' = [hist EXCEPT !.changes = @ + 1, !.raced = @ \/ OnTheWay > 0]
    /\ Within(env, hist')
    /\ External(n, OnChange(n, members))

Next ==
  \/ Put \/ Change
  \/ Receive("store", OnStore) /\ UNCHANGED hist
  \/ Receive("handoff", OnHandoff) /\ UNCHANGED hist
  \/ Receive("membership", OnMembership) /\ UNCHANGED hist
  \/ Fault

Spec == Init /\ [][Next]_vars

-----------------------------------------------------------------------------
(* Properties.                                                             *)

TypeOK ==
  \A n \in Pool :
    /\ state[n].members \subseteq Pool /\ state[n].members # {}
    /\ state[n].keys \subseteq hist.put /\ state[n].changeSeq \in 0..hist.changes

Carried(m) == IF m.kind = "store" THEN {m.key} ELSE IF m.kind = "handoff" THEN m.keys ELSE {}

(* Nodes that hold k and messages that carry it. *)
Places(k) ==
  Cardinality({n \in Pool : k \in state[n].keys})
    + MapThenSumSet(LAMBDA l : Len(SelectSeq(net.links[l], LAMBDA m : k \in Carried(m))), Links)

(* While the network loses nothing and makes no copies, a key that was put *)
(* is in one place at any moment: with a node or on its way to one.  So it *)
(* is when changes by several coordinators overtake one another and nodes  *)
(* have different views (hashring.ts:103-128).                             *)
OnePlace == env.lost = 0 /\ env.dups = 0 => \A k \in hist.put : Places(k) = 1

(* And where the ring says, once all is quiet, if no operation was begun   *)
(* while a change was under way (hashring.property.test.ts:49).            *)
AtOwner ==
  env.lost = 0 /\ ~hist.raced /\ OnTheWay = 0 =>
    \A m, n \in Pool :
      /\ state[m].members = state[n].members
      /\ \A k \in state[n].keys : OwnerOf(state[n].members, k) = n
=============================================================================
