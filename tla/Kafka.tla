------------------------------- MODULE Kafka --------------------------------
(***************************************************************************)
(* The partitioned log of the chapter 11 lab, src/src/modules/kafkalog.ts: *)
(* a broker pushes each partition to the consumer it is assigned to, and   *)
(* commits how far that consumer has come every CommitEvery acks.          *)
(***************************************************************************)
EXTENDS Integers, Sequences

CONSTANTS
  Partition, PartitionOf(_),   \* of an id, which is a number
  CommitEvery,
  Within(_, _), Backlog                 \* bound: see Simulation; hist counts the ids
                               \* produced and the partitions moved

VARIABLES state, net, env, hist

Consumers == {"C1", "C2"}
Other(c) == CHOOSE d \in Consumers : d # c

INSTANCE Simulation WITH Node <- {"P", "B"} \cup Consumers, Killable <- Consumers

vars == <<state, net, env, hist>>

Zero == [p \in Partition |-> 0]

Init ==
  /\ state = [log |-> [p \in Partition |-> <<>>],
              assignment |-> [p \in Partition |-> IF p = "p0" THEN "C1" ELSE "C2"],
              delivered |-> Zero, fetched |-> Zero, committed |-> Zero, sinceCommit |-> Zero,
              stalled |-> [p \in Partition |-> FALSE],
              processed |-> [c \in Consumers |-> {}]]
  /\ net = NoEvents /\ env = Calm
  /\ hist = [produced |-> 0, moves |-> 0]

-----------------------------------------------------------------------------
(* Offsets count from 0, as in the code. *)
Offsets(from, to) == [i \in 1..(to - from) |-> from + i - 1]

Deliver(log, p, offset)  == [kind |-> "deliver", p |-> p, offset |-> offset, id |-> log[offset + 1]]
SessionCheck(p, offset)  == [kind |-> "sessionCheck", p |-> p, offset |-> offset]

(* A push of the offsets of a partition, each with its timer.              *)
DeliverRange(s, p, from, to, consumer) ==
  LET at == Offsets(from, to)
  IN Out(s, [i \in DOMAIN at |-> <<consumer, Deliver(s.log[p], p, at[i])>>],
            [i \in DOMAIN at |-> SessionCheck(p, at[i])])

OnPublish(from, n, m) ==
  LET p == PartitionOf(m.id)
      s == [state EXCEPT !.log[p] = Append(@, m.id), !.delivered[p] = Len(state.log[p]) + 1,
                         !.stalled[p] = FALSE]
  IN DeliverRange(s, p, state.delivered[p], s.delivered[p], state.assignment[p])

OnDeliver(from, n, m) ==
  Out([state EXCEPT !.processed[n] = @ \cup {m.id}],
      <<<<"B", [kind |-> "fetched", p |-> m.p, offset |-> m.offset]>>>>, <<>>)

Largest(a, b) == IF a > b THEN a ELSE b

(* What was pushed is committed. *)
OnFetchedCommitsPushed(from, n, m) ==
  LET fetched == Largest(state.fetched[m.p], m.offset + 1)
      commit  == state.sinceCommit[m.p] + 1 >= CommitEvery
      s == [state EXCEPT !.fetched[m.p] = fetched,
                         !.sinceCommit[m.p] = IF commit THEN 0 ELSE @ + 1,
                         !.committed[m.p] = IF commit THEN state.delivered[m.p] ELSE @,
                         !.stalled[m.p] = @ /\ ~commit]
  IN Quiet(IF from = state.assignment[m.p] THEN s ELSE state)

(* The ack of a consumer that lost the partition is ignored.               *)
OnFetched(from, n, m) ==
  LET fetched == Largest(state.fetched[m.p], m.offset + 1)
      commit  == state.sinceCommit[m.p] + 1 >= CommitEvery
      s == [state EXCEPT !.fetched[m.p] = fetched,
                         !.sinceCommit[m.p] = IF commit THEN 0 ELSE @ + 1,
                         !.committed[m.p] = IF commit THEN fetched ELSE @,
                         !.stalled[m.p] = @ /\ ~commit]
  IN Quiet(IF from = state.assignment[m.p] THEN s ELSE state)

(* No ack in time: the other consumer gets the partition, from the commit. *)
OnSessionCheck(n, t) ==
  LET p == t.p
      c == Other(state.assignment[p])
      s == [state EXCEPT !.assignment[p] = c, !.fetched[p] = state.committed[p],
                         !.sinceCommit[p] = 0, !.stalled[p] = TRUE]
  IN IF state.stalled[p] \/ state.fetched[p] > t.offset THEN Quiet(state)
     ELSE DeliverRange(s, p, state.committed[p], state.delivered[p], c)

Produce ==
  /\ hist' = [hist EXCEPT !.produced = @ + 1]
  /\ Within(env, hist')
  /\ External("P", Out(state, <<<<"B", [kind |-> "publish", id |-> hist'.produced]>>>>, <<>>))

CheckSession ==
  /\ Fire("sessionCheck", OnSessionCheck)
  /\ hist' = IF state'.assignment = state.assignment THEN hist ELSE [hist EXCEPT !.moves = @ + 1]
  /\ Within(env, hist')

Next ==
  \/ Produce
  \/ Receive("publish", OnPublish) /\ UNCHANGED hist
  \/ Receive("deliver", OnDeliver) /\ UNCHANGED hist
  \/ Receive("fetched", OnFetched) /\ UNCHANGED hist
  \/ CheckSession
  \/ Fault

Spec == Init /\ [][Next]_vars

-----------------------------------------------------------------------------
(* Properties.                                                             *)

TypeOK ==
  \A p \in Partition :
    /\ state.assignment[p] \in Consumers /\ state.stalled[p] \in BOOLEAN
    /\ state.sinceCommit[p] \in 0..CommitEvery - 1
    /\ state.delivered[p] = Len(state.log[p])
    /\ state.committed[p] <= state.fetched[p] /\ state.fetched[p] <= state.delivered[p]

Processed == UNION {state.processed[c] : c \in Consumers}

(* Every offset below the commit was processed by somebody: a replay,      *)
(* which starts at the commit, can then leave nothing out.                 *)
CommittedProcessed ==
  \A p \in Partition : \A o \in 0..state.committed[p] - 1 : state.log[p][o + 1] \in Processed

(* It holds while links keep their order, lose nothing and nobody comes    *)
(* back: consumers die, partitions move to and fro, acks of a past         *)
(* assignment arrive in a later one, and the commit still never passes     *)
(* what was processed (kafkalog.ts:118-163).                               *)
CommitSound == env.late + env.drops + env.revives = 0 => CommittedProcessed

(* The commit of a partition never passes a message nobody has processed   *)
(* (kafkalog.ts:118-163).                                                  *)
KafkaSound == TypeOK /\ CommitSound

(* What kafkalog.ts:14 and 236-241 say: nothing is lost, what is not yet   *)
(* processed is still to come.  A message below the commit is not sent     *)
(* again by a replay.                                                      *)
NothingLost ==
  \A p \in Partition : \A o \in 0..state.committed[p] - 1 :
    \/ state.log[p][o + 1] \in Processed
    \/ \E c \in Consumers : \E m \in InFlight(<<"B", c>>) :
         m.kind = "deliver" /\ m.p = p /\ m.offset = o
=============================================================================
