----------------------------- MODULE Simulation -----------------------------
(***************************************************************************)
(* What the engine does for a module of nodes that send messages and set   *)
(* timers: src/src/engine/sim.ts over network.ts, without the clock.       *)
(*                                                                         *)
(* A handler of a node is an operator that gives what it leaves behind, as *)
(* a reducer does: the state, what is sent and the timers set.  Receive,   *)
(* Fire and External make an action of one.  A link keeps its messages in  *)
(* the order of sending; taking one that is not the first is a fault that  *)
(* counts, as are losses, copies and kills.  A timer may fire at any time  *)
(* after it is set.                                                        *)
(***************************************************************************)
EXTENDS Integers, Sequences, FiniteSetsExt, Functions

CONSTANTS
  Node, Killable,   \* the nodes; those that may be killed and revived
  Within(_, _),     \* bound: the faults (env) and inputs (hist) of a behaviour
  Backlog           \* bound: timers wait while more messages are on their way

VARIABLES state, net, env, hist

Links == Node \X Node

(* Nothing queued, nobody dead. *)
NoEvents == [links |-> [l \in Links |-> <<>>], timers |-> [t \in {} |-> 0]]
Calm == [dead |-> {}, falls |-> [n \in Node |-> 0], kills |-> 0, revives |-> 0,
         drops |-> 0, dups |-> 0, late |-> 0, lost |-> 0]

NothingComes == \A l \in Links : net.links[l] = <<>>

OnTheWay == MapThenSumSet(LAMBDA l : Len(net.links[l]), Links)

(* What a handler leaves: messages are <<to, payload>>.                    *)
Out(s, sends, timers) == [state |-> s, sends |-> sends, timers |-> timers]
Quiet(s) == Out(s, <<>>, <<>>)

WithoutTimer(timers, t) ==
  IF timers[t] > 1 THEN [timers EXCEPT ![t] = @ - 1]
  ELSE [x \in DOMAIN timers \ {t} |-> timers[x]]

(* applyEffect, for every effect in order. *)
WithMessages(links, n, sends) ==
  LET after[k \in 0..Len(sends)] ==
        IF k = 0 THEN links
        ELSE [after[k - 1] EXCEPT ![<<n, sends[k][1]>>] = Append(@, sends[k][2])]
  IN after[Len(sends)]

WithTimers(timers, n, set) ==
  [t \in DOMAIN timers \cup {<<n, set[k]>> : k \in DOMAIN set} |->
     (IF t \in DOMAIN timers THEN timers[t] ELSE 0) + Cardinality({k \in DOMAIN set : <<n, set[k]>> = t})]

Queued(queue, n, out) ==
  [links  |-> WithMessages(queue.links, n, out.sends),
   timers |-> WithTimers(queue.timers, n, out.timers)]

Happens(n, out, queue) ==
  /\ state' = out.state
  /\ net' = Queued(queue, n, out)

(* A link without its i-th message. *)
AllBut(s, i) == SubSeq(s, 1, i - 1) \o SubSeq(s, i + 1, Len(s))

Taken(l, i) == [net EXCEPT !.links[l] = AllBut(@, i)]

(* The i-th message of a link arrives; a timer of a live node comes due.   *)
MessageDue(l, i) ==
  /\ l[2] \notin env.dead
  /\ env' = IF i = 1 THEN env ELSE [env EXCEPT !.late = @ + 1]
  /\ Within(env', hist)

TimerDue(t) == t[1] \notin env.dead /\ OnTheWay <= Backlog /\ UNCHANGED env

Arrive(l, i, Handler(_, _, _)) ==
  MessageDue(l, i) /\ Happens(l[2], Handler(l[1], l[2], net.links[l][i]), Taken(l, i))

Receive(kind, Handler(_, _, _)) ==
  \E l \in Links : \E i \in DOMAIN net.links[l] :
    net.links[l][i].kind = kind /\ Arrive(l, i, Handler)

Fire(kind, Handler(_, _)) ==
  \E t \in DOMAIN net.timers :
    /\ t[2].kind = kind /\ TimerDue(t)
    /\ Happens(t[1], Handler(t[1], t[2]), [net EXCEPT !.timers = WithoutTimer(@, t)])

External(n, out) ==
  /\ n \notin env.dead
  /\ Happens(n, out, net)
  /\ UNCHANGED env

(* Faults.  What comes due at a dead node is gone.                         *)
Kill(n) ==
  /\ n \notin env.dead
  /\ env' = [env EXCEPT !.dead = @ \cup {n}, !.kills = @ + 1, !.falls[n] = @ + 1]
  /\ Within(env', hist)
  /\ UNCHANGED net

Revive(n) ==
  /\ n \in env.dead
  /\ env' = [env EXCEPT !.dead = @ \ {n}, !.revives = @ + 1] /\ Within(env', hist)
  /\ UNCHANGED net

Drop(l, i) ==
  /\ env' = [env EXCEPT !.drops = @ + 1, !.lost = @ + 1] /\ Within(env', hist)
  /\ net' = Taken(l, i)

Duplicate(l, i) ==
  /\ env' = [env EXCEPT !.dups = @ + 1] /\ Within(env', hist)
  /\ net' = [net EXCEPT !.links[l] = Append(@, @[i])]

MessageToDead(l) ==
  /\ l[2] \in env.dead /\ net.links[l] # <<>>
  /\ net' = Taken(l, 1)
  /\ env' = [env EXCEPT !.lost = @ + 1]

TimerOfDead(t) ==
  /\ t[1] \in env.dead
  /\ net' = [net EXCEPT !.timers = WithoutTimer(@, t)]
  /\ UNCHANGED env

Fault ==
  /\ \/ \E n \in Killable : Kill(n) \/ Revive(n)
     \/ \E l \in Links : \E i \in DOMAIN net.links[l] : Drop(l, i) \/ Duplicate(l, i)
     \/ \E l \in Links : MessageToDead(l)
     \/ \E t \in DOMAIN net.timers : TimerOfDead(t)
  /\ UNCHANGED <<state, hist>>

InFlight(l) == Range(net.links[l])
=============================================================================
