------------------------------- MODULE Rabbit -------------------------------
(***************************************************************************)
(* The queue of the chapter 11 lab, src/src/modules/rabbitqueue.ts: a      *)
(* message is held until its consumer acknowledges it, redelivered to the  *)
(* other one when that takes too long, and given up after DeliveryLimit    *)
(* attempts.                                                               *)
(***************************************************************************)
EXTENDS Integers, Sequences, FiniteSets

CONSTANTS
  Id,              \* of the messages, which the lab never uses twice
  DeliveryLimit,
  Within(_, _), Backlog     \* bound: see Simulation

VARIABLES state, net, env, hist

Consumers == <<"C1", "C2">>
Consumer  == {"C1", "C2"}
Other(c) == CHOOSE d \in Consumer : d # c

INSTANCE Simulation WITH Node <- {"P", "B"} \cup Consumer, Killable <- {"B"} \cup Consumer

vars == <<state, net, env, hist>>

Init ==
  /\ state = [unacked |-> [i \in {} |-> "C1"], deadLetter |-> {}, rr |-> 1,
              delivery |-> [i \in Id |-> 0], produced |-> {},
              processed |-> [c \in Consumer |-> {}]]
  /\ net = NoEvents /\ env = Calm
  /\ hist = [produced |-> {}]

-----------------------------------------------------------------------------
CheckAck(id) == [kind |-> "checkAck", id |-> id]

With(unacked, id, consumer) ==
  [i \in DOMAIN unacked \cup {id} |-> IF i = id THEN consumer ELSE unacked[i]]
Without(unacked, id) == [i \in DOMAIN unacked \ {id} |-> unacked[i]]

(* The message is held for its consumer, and a timer looks after it.       *)
Dispatch(s, id, consumer) ==
  Out([s EXCEPT !.unacked = With(@, id, consumer)],
      <<<<consumer, [kind |-> "deliver", id |-> id]>>>>, <<CheckAck(id)>>)

OnPublish(from, n, m) ==
  Dispatch([state EXCEPT !.produced = @ \cup {m.id}, !.rr = (@ % Len(Consumers)) + 1],
           m.id, Consumers[state.rr])

OnDeliver(from, n, m) ==
  Out([state EXCEPT !.processed[n] = @ \cup {m.id}],
      <<<<"B", [kind |-> "ack", id |-> m.id]>>>>, <<>>)

OnAck(from, n, m) == Quiet([state EXCEPT !.unacked = Without(@, m.id)])

(* A message given up is dropped. *)
OnCheckAckDropping(n, t) ==
  LET id == t.id
      attempts == state.delivery[id] + 1
      s == [state EXCEPT !.delivery[id] = attempts]
  IN CASE id \notin DOMAIN state.unacked -> Quiet(state)
       [] id \in DOMAIN state.unacked /\ attempts >= DeliveryLimit ->
            Quiet([s EXCEPT !.unacked = Without(@, id)])
       [] OTHER -> Dispatch(s, id, Other(state.unacked[id]))

OnCheckAck(n, t) ==
  LET id == t.id
      attempts == state.delivery[id] + 1
      s == [state EXCEPT !.delivery[id] = attempts]
  IN CASE id \notin DOMAIN state.unacked -> Quiet(state)
       [] id \in DOMAIN state.unacked /\ attempts >= DeliveryLimit ->
            Quiet([s EXCEPT !.unacked = Without(@, id), !.deadLetter = @ \cup {id}])
       [] OTHER -> Dispatch(s, id, Other(state.unacked[id]))

Produce ==
  \E id \in Id \ hist.produced :
    /\ hist' = [produced |-> hist.produced \cup {id}]
    /\ Within(env, hist')
    /\ External("P", Out(state, <<<<"B", [kind |-> "publish", id |-> id]>>>>, <<>>))

Next ==
  \/ Produce
  \/ Receive("publish", OnPublish) /\ UNCHANGED hist
  \/ Receive("deliver", OnDeliver) /\ UNCHANGED hist
  \/ Receive("ack", OnAck) /\ UNCHANGED hist
  \/ Fire("checkAck", OnCheckAck) /\ UNCHANGED hist
  \/ Fault

Spec == Init /\ [][Next]_vars

-----------------------------------------------------------------------------
(* Properties.                                                             *)

TypeOK ==
  /\ DOMAIN state.unacked \cup state.deadLetter \subseteq state.produced
  /\ state.rr \in DOMAIN Consumers
  /\ \A i \in Id : state.delivery[i] \in Nat

Processed == UNION {state.processed[c] : c \in Consumer}

(* rabbitTriple's `lost' is 0: a message is processed, or held, or in the *)
(* dead letters.  Without copies made by the network it is attempted at    *)
(* most DeliveryLimit times, and then in the dead letters and not held any *)
(* more; and one that is held has exactly one timer to look after it,      *)
(* which may only be missing when the broker was down.  Acks may be lost   *)
(* or late, and redeliveries cross them (rabbitqueue.ts:76-110, 204-217).  *)
HeldOrDone ==
  /\ state.produced \subseteq Processed \cup DOMAIN state.unacked \cup state.deadLetter
  /\ env.dups = 0 =>
       \A id \in state.produced :
         /\ state.delivery[id] <= DeliveryLimit
         /\ id \in state.deadLetter => state.delivery[id] = DeliveryLimit
         /\ id \in DOMAIN state.unacked =>
              /\ id \notin state.deadLetter
              /\ \/ /\ <<"B", CheckAck(id)>> \in DOMAIN net.timers
                    /\ net.timers[<<"B", CheckAck(id)>>] = 1
                 \/ env.kills > 0
=============================================================================
