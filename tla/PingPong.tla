------------------------------ MODULE PingPong ------------------------------
(***************************************************************************)
(* The token ring of the engine demo, src/src/modules/pingpong.ts: a node  *)
(* passes on a token once, and sends its last one again and again until it *)
(* is superseded.                                                          *)
(***************************************************************************)
EXTENDS Integers, Sequences, SequencesExt

CONSTANTS
  Ring,                    \* the nodes in their order; the first one starts
  Within(_, _), Backlog    \* bounds: see Simulation; hist counts the tokens passed
                           \* on and the retransmissions

VARIABLES state, net, env, hist

INSTANCE Simulation WITH Node <- Range(Ring), Killable <- Range(Ring)

vars == <<state, net, env, hist>>

None == -1
Starter == Ring[1]
NextOf(n) == LET i == CHOOSE i \in DOMAIN Ring : Ring[i] = n IN Ring[(i % Len(Ring)) + 1]

Token(token) == [kind |-> "token", token |-> token]
Retransmit(token) == [kind |-> "retransmit", token |-> token]

(* sendToken: the state it leaves, a message and a timer. *)
SendToken(s, n, token) ==
  Out([s EXCEPT ![n].pendingToken = token],
      <<<<NextOf(n), Token(token)>>>>, <<Retransmit(token)>>)

Idle == [lastDelivered |-> 0, pendingToken |-> None]

Init ==
  LET o == SendToken([n \in Range(Ring) |-> Idle], Starter, 1)
  IN /\ state = o.state /\ net = Queued(NoEvents, Starter, o) /\ env = Calm
     /\ hist = [passed |-> 0, retransmitted |-> 0]

(* A duplicate, which says that the sender still waits, ends the waiting   *)
(* of the receiver.                                                        *)
OnTokenForgetting(from, n, m) ==
  IF m.token <= state[n].lastDelivered THEN Quiet([state EXCEPT ![n].pendingToken = None])
  ELSE SendToken([state EXCEPT ![n].lastDelivered = m.token], n, m.token + 1)

OnToken(from, n, m) ==
  IF m.token <= state[n].lastDelivered THEN Quiet(state)
  ELSE SendToken([state EXCEPT ![n].lastDelivered = m.token], n, m.token + 1)

OnRetransmit(n, t) ==
  IF state[n].pendingToken # t.token THEN Quiet(state)
  ELSE Out(state, <<<<NextOf(n), Token(t.token)>>>>, <<t>>)

PassOn ==
  /\ Receive("token", OnToken)
  /\ hist' = IF state' = state THEN hist ELSE [hist EXCEPT !.passed = @ + 1]
  /\ Within(env, hist')

SendAgain ==
  /\ hist' = [hist EXCEPT !.retransmitted = @ + 1]
  /\ Within(env, hist')
  /\ Fire("retransmit", OnRetransmit)

Next == PassOn \/ SendAgain \/ Fault

Spec == Init /\ [][Next]_vars

-----------------------------------------------------------------------------
(* Properties.                                                             *)

TypeOK ==
  \A n \in Range(Ring) :
    state[n].lastDelivered \in Nat /\ state[n].pendingToken \in Nat \cup {None}

(* Tokens are passed on in turn, none skipped and none twice, whatever is  *)
(* lost, copied, late or killed: a node has delivered the token after the  *)
(* one its predecessor delivered last, or the one a round before that, and *)
(* only tokens of its own (pingpong.ts:56-60).                             *)
InTurn ==
  \A i \in 2..Len(Ring) :
    LET mine   == state[Ring[i]].lastDelivered
        before == state[Ring[i - 1]].lastDelivered
    IN \/ mine = 0 /\ before \in {0, i - 2}
       \/ /\ mine \in {before + 1, before + 1 - Len(Ring)}
          /\ mine % Len(Ring) = i - 1

Newest == 1 + Max({state[n].lastDelivered : n \in Range(Ring)})

(* The token after the last one delivered is never given up: the node that *)
(* sent it has the timer that sends it again, until a kill lets that timer *)
(* come due at a dead node (pingpong.ts:61-71).                            *)
KeepsTrying ==
  env.kills = 0 =>
    \E n \in Range(Ring) :
      state[n].pendingToken = Newest /\ <<n, Retransmit(Newest)>> \in DOMAIN net.timers
=============================================================================
