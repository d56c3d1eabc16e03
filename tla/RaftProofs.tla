----------------------------- MODULE RaftProofs -----------------------------
(***************************************************************************)
(* Proofs about Raft for every set of servers, every majority and every    *)
(* bound: the variables keep their types, no term has two winners, and,    *)
(* since some history explains every state, logs and writes are kept.      *)
(***************************************************************************)
EXTENDS RaftHistory, NatLemmas, SequenceTheorems

(* Two sets of servers of MAJORITY members each have one in common. *)
LEMMA MajoritiesMeet ==
  ASSUME NEW Q \in SUBSET Server, NEW R \in SUBSET Server,
         Cardinality(Q) >= MAJORITY, Cardinality(R) >= MAJORITY
  PROVE  Q \cap R # {}
<1>1. IsFiniteSet(Q) /\ IsFiniteSet(R) /\ IsFiniteSet(Server)
  BY ServerAssumption, FS_Subset
<1>2. Cardinality(Q \cup R) <= Cardinality(Server)
  BY <1>1, FS_Subset
<1>3. Cardinality(Q \cup R) = Cardinality(Q) + Cardinality(R) - Cardinality(Q \cap R)
  BY <1>1, FS_Union
<1>4. SUFFICES ASSUME Q \cap R = {} PROVE FALSE
  OBVIOUS
<1>5. Cardinality(Q \cap R) = 0
  BY <1>4, FS_EmptySet
<1>6. /\ Cardinality(Q) \in Nat /\ Cardinality(R) \in Nat
      /\ Cardinality(Server) \in Nat /\ Cardinality(Q \cup R) \in Nat
  BY <1>1, FS_CardinalityType, FS_Union
<1> QED
  BY <1>2, <1>3, <1>5, <1>6, MajorityAssumption


-----------------------------------------------------------------------------
(* Why elections are safe: a granted vote in flight or counted was cast,   *)
(* and every winner had a majority of votes cast for it.                   *)
VotesCast ==
  /\ \A m \in net : m.kind = "vote" /\ m.granted => <<m.term, m.from, m.to>> \in ballots
  /\ \A n \in Server : \A v \in votes[n] : <<term[n], v, n>> \in ballots

WinnersElected ==
  \A w \in won : \E Q \in SUBSET Server :
    /\ Cardinality(Q) >= MAJORITY
    /\ \A v \in Q : <<w[1], v, w[2]>> \in ballots

(* Why the indexes stay in the log: an append that n sent in term t, or an *)
(* acknowledgement of one, speaks of an index n holds while it still leads *)
(* that term; n cannot stand in a term it has already led.                 *)
SentAsLeader(n, t, i) ==
  /\ t <= term[n]
  /\ t = term[n] => /\ role[n] # "candidate"
                    /\ role[n] = "leader" => i <= Len(log[n])

IndexesHeld ==
  \A m \in net :
    /\ m.kind = "append" => SentAsLeader(m.from, m.term, m.prevIndex + Len(m.entries))
    /\ m.kind = "append-resp" /\ m.ok => SentAsLeader(m.to, m.term, m.matchIndex)

NotToSelf == \A m \in net : m.from # m.to

IInv ==
  /\ TypeOK /\ NextWithinLog /\ IndexesHeld /\ NotToSelf
  /\ OneVotePerTerm /\ VotesCast /\ WinnersElected

-----------------------------------------------------------------------------
(* What the helpers return. *)

LEMMA EntryType ==
  ASSUME NEW l \in Seq(Entry), NEW i \in 1..Len(l)
  PROVE  l[i].term \in Nat /\ l[i].seq \in Seqs
<1>1. l[i] \in Entry
  BY ElementOfSeq
<1> QED
  BY <1>1 DEF Entry

LEMMA LastTermType ==
  ASSUME NEW l \in Seq(Entry) PROVE LastTerm(l) \in Nat
<1>1. Len(l) \in Nat
  OBVIOUS
<1>2. Len(l) # 0 => Len(l) \in 1..Len(l)
  BY <1>1
<1> QED
  BY <1>2, EntryType DEF LastTerm

(* An append for an index inside the log carries the rest of the log. *)
LEMMA AppendForType ==
  ASSUME TypeOK, NEW n \in Server, NEW to \in Server, NEW l \in Seq(Entry),
         NEW i \in Nat \ {0}, i <= Len(l) + 1
  PROVE  /\ AppendFor(n, l, i, to) \in Messages
         /\ AppendFor(n, l, i, to).kind = "append"
         /\ AppendFor(n, l, i, to).from = n
         /\ AppendFor(n, l, i, to).term = term[n]
         /\ AppendFor(n, l, i, to).prevIndex + Len(AppendFor(n, l, i, to).entries) = Len(l)
<1> DEFINE e == SubSeq(l, i, Len(l))
<1>1. e \in Seq(Entry) /\ Len(e) = Len(l) - i + 1
  OBVIOUS
<1>2. i - 1 \in Nat /\ (i - 1 > 0 => l[i - 1].term \in Nat)
  <2>1. i - 1 > 0 => i - 1 \in 1..Len(l)
    OBVIOUS
  <2> QED
    BY <2>1, EntryType
<1>3. term[n] \in Nat /\ commitIndex[n] \in Nat
  BY DEF TypeOK
<1> HIDE DEF e
<1>4. AppendFor(n, l, i, to) =
        [kind |-> "append", from |-> n, to |-> to, term |-> term[n],
         prevIndex |-> i - 1, prevTerm |-> IF i - 1 > 0 THEN l[i - 1].term ELSE 0,
         entries |-> e, leaderCommit |-> commitIndex[n]]
  BY DEF AppendFor, e
<1> QED
  BY <1>1, <1>2, <1>3, <1>4 DEF Messages

(* Merging entries into a log that matches them at prevIndex gives a log   *)
(* that holds at least them.                                               *)
LEMMA MergedType ==
  ASSUME NEW l \in Seq(Entry), NEW entries \in Seq(Entry), NEW prev \in Nat,
         prev <= Len(l)
  PROVE  Merged(l, prev, entries) \in Seq(Entry)
<1> DEFINE agree(i) == /\ i <= Len(entries) /\ prev + i <= Len(l)
                       /\ l[prev + i].term = entries[i].term
           conflicts == {i \in 1..Len(entries) : ~agree(i)}
           first == CHOOSE i \in conflicts : \A j \in conflicts : i <= j
<1>1. CASE conflicts = {}
  BY <1>1 DEF Merged
<1>2. CASE conflicts # {}
  <2>1. conflicts \subseteq Nat
    OBVIOUS
  <2>2. \E i \in conflicts : \A j \in conflicts : i <= j
    BY <1>2, <2>1, LeastExists
  <2>3. first \in conflicts /\ \A j \in conflicts : first <= j
    BY <2>2
  <2>4. prev + first - 1 <= Len(l)
    <3> HIDE DEF first
    <3>1. CASE first = 1
      BY <3>1
    <3>2. CASE first # 1
      <4>1. first \in 1..Len(entries)
        BY <2>3
      <4>2. first - 1 \in 1..Len(entries)
        BY <3>2, <4>1
      <4>3. first - 1 \notin conflicts
        <5> HIDE DEF conflicts
        <5>1. first - 1 \in conflicts => first <= first - 1
          BY <2>3
        <5>2. ~(first <= first - 1)
          BY <4>1
        <5> QED BY <5>1, <5>2
      <4>4. agree(first - 1)
        BY <4>2, <4>3
      <4>5. prev + (first - 1) <= Len(l)
        BY <4>4
      <4> QED BY <4>1, <4>5
    <3> QED BY <3>1, <3>2
  <2>5. Merged(l, prev, entries) =
          SubSeq(l, 1, prev + first - 1) \o SubSeq(entries, first, Len(entries))
    BY <1>2 DEF Merged
  <2>6. first \in 1..Len(entries)
    BY <2>3
  <2> HIDE DEF first
  <2>7. SubSeq(l, 1, prev + first - 1) \in Seq(Entry) /\ SubSeq(entries, first, Len(entries)) \in Seq(Entry)
    BY <2>4, <2>6
  <2> QED BY <2>5, <2>7
<1> QED BY <1>1, <1>2

(* The entries of a committed index are there, so the register is one. *)
LEMMA AppliedType ==
  ASSUME TypeOK, NEW n \in Server, NEW l \in Seq(Entry), NEW c \in Nat,
         c > commitIndex[n] => c <= Len(l)
  PROVE  Applied(n, l, c) \in Seqs \cup {Nil}
<1>1. commitIndex[n] \in Nat /\ kv[n] \in Seqs \cup {Nil}
  BY DEF TypeOK
<1>2. c > commitIndex[n] => c \in 1..Len(l)
  BY <1>1
<1> QED
  BY <1>1, <1>2, EntryType DEF Applied

LEMMA SettleType ==
  ASSUME TypeOK, NEW n \in Server, NEW l, NEW c
  PROVE  Settle(n, l, c) \in Seq(Row)
<1> DEFINE h == history[n]
<1>1. h \in Seq(Row)
  BY DEF TypeOK
<1>2. Settle(n, l, c) = [k \in DOMAIN h |-> Settle(n, l, c)[k]] 
  BY DEF Settle
<1>3. ASSUME NEW k \in DOMAIN h PROVE Settle(n, l, c)[k] \in Row
  <2>1. h[k] \in Row
    BY <1>1, ElementOfSeq
  <2>2. [h[k] EXCEPT !.outcome = "ok"] \in Row /\ [h[k] EXCEPT !.outcome = "lost"] \in Row
    BY <2>1 DEF Row
  <2> QED
    BY <2>1, <2>2 DEF Settle
<1>4. DOMAIN h = 1..Len(h) /\ Len(h) \in Nat
  BY <1>1
<1>5. Settle(n, l, c) \in [1..Len(h) -> Row]
  BY <1>2, <1>3, <1>4
<1> QED
  BY <1>4, <1>5, IsASeq

LEMMA CommitAfterType ==
  ASSUME TypeOK, NEW n \in Server, NEW matched
  PROVE  /\ CommitAfter(n, matched) \in Nat
         /\ CommitAfter(n, matched) > commitIndex[n] => CommitAfter(n, matched) <= Len(log[n])
<1> DEFINE decided == {idx \in commitIndex[n] + 1 .. Len(log[n]) :
                         /\ log[n][idx].term = term[n]
                         /\ Replicas(n, matched, idx) >= MAJORITY}
           last == CHOOSE idx \in decided : \A j \in decided : j <= idx
<1>1. commitIndex[n] \in Nat /\ Len(log[n]) \in Nat
  BY DEF TypeOK
<1>2. CASE decided = {}
  BY <1>1, <1>2 DEF CommitAfter
<1>3. CASE decided # {}
  <2>1. decided \in SUBSET Nat /\ \A x \in decided : x <= Len(log[n])
    BY <1>1
  <2>2. \E idx \in decided : \A j \in decided : j <= idx
    BY <1>1, <1>3, <2>1, GreatestExists
  <2>3. last \in decided
    BY <2>2
  <2>4. CommitAfter(n, matched) = last
    BY <1>3 DEF CommitAfter
  <2> HIDE DEF last
  <2> QED
    BY <1>1, <2>3, <2>4
<1> QED
  BY <1>2, <1>3

(* What a message of each kind carries. *)
LEMMA MessageType ==
  ASSUME NEW m \in Messages
  PROVE  /\ m.from \in Server /\ m.to \in Server /\ m.term \in Nat
         /\ m.kind = "req-vote" => m.lastLogIndex \in Nat /\ m.lastLogTerm \in Nat
         /\ m.kind = "vote" => m.granted \in BOOLEAN
         /\ m.kind = "append" => /\ m.prevIndex \in Nat /\ m.prevTerm \in Nat
                                 /\ m.entries \in Seq(Entry) /\ m.leaderCommit \in Nat
         /\ m.kind = "append-resp" => m.ok \in BOOLEAN /\ m.matchIndex \in Nat
BY DEF Messages

(* What adoptTerm leaves is of the right type. *)
LEMMA AdoptTermType ==
  ASSUME TypeOK, NEW n \in Server, NEW m \in Messages
  PROVE  /\ TermAfter(n, m) \in Nat
         /\ RoleAfter(n, m) \in {"follower", "candidate", "leader"}
         /\ VotedAfter(n, m) \in Server \cup {Nil}
         /\ VotesAfter(n, m) \in SUBSET Server
BY MessageType DEF TypeOK, TermAfter, RoleAfter, VotedAfter, VotesAfter

LEMMA BroadcastType ==
  ASSUME TypeOK, NEW n \in Server, NEW l \in Seq(Entry), NEW nextOf \in [Server -> Nat \ {0}],
         \A q \in Peers(n) : nextOf[q] <= Len(l) + 1
  PROVE  BroadcastAppends(n, l, nextOf) \subseteq Messages
<1>1. ASSUME NEW q \in Peers(n) PROVE AppendFor(n, l, nextOf[q], q) \in Messages
  BY <1>1, AppendForType DEF Peers
<1> QED
  BY <1>1 DEF BroadcastAppends

THEOREM InitType == Init => TypeOK
BY EmptySeq DEF Init, TypeOK

LEMMA TypeTimers ==
  ASSUME TypeOK, NextWithinLog, NEW n \in Server, UNCHANGED dups,
         StartElection(n) \/ ElectionTimerIgnored(n) \/ Heartbeat(n) \/ TimerLost(n)
  PROVE  TypeOK'
<1>1. CASE StartElection(n)
  <2> DEFINE new == {[kind |-> "req-vote", from |-> n, to |-> q, term |-> term[n] + 1,
                      lastLogIndex |-> Len(log[n]), lastLogTerm |-> LastTerm(log[n])]
                      : q \in Peers(n)}
  <2>1. log[n] \in Seq(Entry) /\ term[n] + 1 \in Nat
    BY DEF TypeOK
  <2>2. LastTerm(log[n]) \in Nat /\ Len(log[n]) \in Nat
    BY <2>1, LastTermType
  <2>3. new \subseteq Messages
    BY <2>1, <2>2 DEF Messages, Peers
  <2>4. net' \subseteq Messages
    BY <1>1, <2>3 DEF StartElection, TypeOK
  <2>5. ballots' \subseteq Nat \X Server \X Server
    BY <1>1, <2>1 DEF StartElection, TypeOK
  <2>6. /\ role' \in [Server -> {"follower", "candidate", "leader"}]
        /\ term' \in [Server -> Nat]
        /\ votedFor' \in [Server -> Server \cup {Nil}]
        /\ votes' \in [Server -> SUBSET Server]
    BY <1>1, <2>1 DEF StartElection, TypeOK
  <2> QED
    BY <1>1, <2>4, <2>5, <2>6
    DEF StartElection, TypeOK, logVars, leaderVars, faultVars, timerVars
<1>2. CASE ElectionTimerIgnored(n)
  BY <1>2 DEF ElectionTimerIgnored, TypeOK, electionVars, ghostVars, logVars, leaderVars, faultVars
<1>3. CASE Heartbeat(n)
  <2>1. CASE role[n] = "leader"
    <3>1. log[n] \in Seq(Entry) /\ next[n] \in [Server -> Nat \ {0}]
      BY DEF TypeOK
    <3>2. \A q \in Peers(n) : next[n][q] <= Len(log[n]) + 1
      BY <2>1 DEF NextWithinLog
    <3>3. BroadcastAppends(n, log[n], next[n]) \subseteq Messages
      BY <3>1, <3>2, BroadcastType
    <3>4. net' \subseteq Messages /\ beats' \in Nat /\ heartbeatTimer' = heartbeatTimer
      BY <1>3, <2>1, <3>3 DEF Heartbeat, TypeOK
    <3> QED
      BY <1>3, <3>4 DEF Heartbeat, TypeOK, electionVars, ghostVars, logVars, leaderVars, faultVars
  <2>2. CASE role[n] # "leader"
    BY <1>3, <2>2 DEF Heartbeat, TypeOK, electionVars, ghostVars, logVars, leaderVars, faultVars
  <2> QED
    BY <2>1, <2>2
<1>4. CASE TimerLost(n)
  BY <1>4 DEF TimerLost, TypeOK, electionVars, ghostVars, logVars, leaderVars, faultVars
<1> QED
  BY <1>1, <1>2, <1>3, <1>4

LEMMA TypeReqVote ==
  ASSUME TypeOK, NEW n \in Server, NEW m \in net, NEW rest \in SUBSET net, dups' \in Nat,
         HandleReqVote(n, m, rest)
  PROVE  TypeOK'
<1>1. m \in Messages /\ rest \subseteq Messages
  BY DEF TypeOK
<1>2. /\ m.from \in Server /\ m.term \in Nat
      /\ TermAfter(n, m) \in Nat /\ Granted(n, m) \in BOOLEAN
      /\ RoleAfter(n, m) \in {"follower", "candidate", "leader"}
      /\ VotedAfter(n, m) \in Server \cup {Nil}
      /\ VotesAfter(n, m) \in SUBSET Server
  BY <1>1, AdoptTermType, MessageType DEF Granted
<1>3. [kind |-> "vote", from |-> n, to |-> m.from,
       term |-> TermAfter(n, m), granted |-> Granted(n, m)] \in Messages
  BY <1>2 DEF Messages
<1>4. net' \subseteq Messages
  BY <1>1, <1>3 DEF HandleReqVote
<1>5. /\ role' \in [Server -> {"follower", "candidate", "leader"}]
      /\ term' \in [Server -> Nat]
      /\ votedFor' \in [Server -> Server \cup {Nil}]
      /\ votes' \in [Server -> SUBSET Server]
  BY <1>2 DEF HandleReqVote, TypeOK, AdoptTermExceptRole
<1>6. <<m.term, n, m.from>> \in Nat \X Server \X Server
  BY <1>2
<1>7. /\ ballots' \subseteq Nat \X Server \X Server
      /\ electionTimer' \subseteq Server
  BY <1>6 DEF HandleReqVote, TypeOK
<1> QED
  BY <1>4, <1>5, <1>7 DEF HandleReqVote, TypeOK, logVars, leaderVars, faultVars

LEMMA TypeVote ==
  ASSUME TypeOK, NEW n \in Server, NEW m \in net, NEW rest \in SUBSET net, dups' \in Nat,
         HandleVote(n, m, rest)
  PROVE  TypeOK'
<1>1. m \in Messages /\ rest \subseteq Messages
  BY DEF TypeOK
<1>2. votes' \in [Server -> SUBSET Server]
  <2>1. m.from \in Server /\ votes \in [Server -> SUBSET Server]
    BY <1>1, MessageType DEF TypeOK
  <2>2. votes' = [votes EXCEPT ![n] = votes[n] \cup {m.from}]
    BY DEF HandleVote
  <2> QED
    BY <2>1, <2>2
<1>3. CASE BecomeLeader(n, rest)
  <2>1. log[n] \in Seq(Entry) /\ Len(log[n]) + 1 \in Nat \ {0} /\ term[n] \in Nat
    BY DEF TypeOK
  <2> DEFINE start == [q \in Server |-> Len(log[n]) + 1]
  <2>2. start \in [Server -> Nat \ {0}] /\ \A q \in Peers(n) : start[q] <= Len(log[n]) + 1
    BY <2>1 DEF Peers
  <2>3. BroadcastAppends(n, log[n], start) \subseteq Messages
    BY <2>1, <2>2, BroadcastType
  <2>4. net' \subseteq Messages /\ next' \in [Server -> [Server -> Nat \ {0}]]
    BY <1>1, <1>3, <2>2, <2>3 DEF BecomeLeader, TypeOK
  <2>5. /\ won' \subseteq Nat \X Server
        /\ role' \in [Server -> {"follower", "candidate", "leader"}]
        /\ match' \in [Server -> [Server -> Nat]] /\ heartbeatTimer' \subseteq Server
    BY <1>3, <2>1 DEF BecomeLeader, TypeOK
  <2> QED
    BY <1>2, <2>4, <2>5 DEF HandleVote, TypeOK, logVars, faultVars
<1>4. CASE net' = rest /\ UNCHANGED <<role, leaderVars, heartbeatTimer, won>>
  BY <1>1, <1>2, <1>4 DEF HandleVote, TypeOK, logVars, leaderVars, faultVars
<1> QED
  BY <1>3, <1>4 DEF HandleVote

LEMMA TypeHigherResponse ==
  ASSUME TypeOK, NEW n \in Server, NEW m \in net, NEW rest \in SUBSET net, dups' \in Nat,
         HandleHigherResponse(n, m, rest)
  PROVE  TypeOK'
<1>1. m \in Messages /\ rest \subseteq Messages
  BY DEF TypeOK
<1>2. /\ term' \in [Server -> Nat]
      /\ votes' \in [Server -> SUBSET Server]
  BY <1>1, AdoptTermType DEF HandleHigherResponse, TypeOK, AdoptTermExceptRole
<1> QED
  BY <1>1, <1>2 DEF HandleHigherResponse, TypeOK, ghostVars, logVars, leaderVars, faultVars

LEMMA TypeAppend ==
  ASSUME TypeOK, NEW n \in Server, NEW m \in net, NEW rest \in SUBSET net, dups' \in Nat,
         RefuseAppend(n, m, rest) \/ HandleAppend(n, m, rest)
  PROVE  TypeOK'
<1>1. m \in Messages /\ rest \subseteq Messages /\ m.from \in Server
  BY MessageType DEF TypeOK
<1>2. ASSUME NEW ok \in BOOLEAN, NEW i \in Nat PROVE AppendResp(n, m, ok, i) \in Messages
  BY <1>1, AdoptTermType DEF AppendResp, Messages
<1>3. CASE RefuseAppend(n, m, rest)
  <2>1. net' \subseteq Messages
    BY <1>1, <1>2, <1>3 DEF RefuseAppend
  <2> QED
    BY <1>3, <2>1
    DEF RefuseAppend, TypeOK, electionVars, ghostVars, logVars, leaderVars, faultVars, timerVars
<1>4. CASE HandleAppend(n, m, rest)
  <2>1. m.kind = "append"
    BY <1>4 DEF HandleAppend, Receives
  <2>2. /\ m.prevIndex \in Nat /\ m.entries \in Seq(Entry) /\ m.leaderCommit \in Nat
        /\ m.prevIndex + Len(m.entries) \in Nat
    BY <1>1, <2>1, MessageType
  <2>3. /\ role' \in [Server -> {"follower", "candidate", "leader"}]
        /\ term' \in [Server -> Nat]
        /\ votedFor' \in [Server -> Server \cup {Nil}]
        /\ votes' \in [Server -> SUBSET Server]
        /\ electionTimer' \subseteq Server
        /\ ballots' \subseteq Nat \X Server \X Server /\ won' \subseteq Nat \X Server
        /\ next' \in [Server -> [Server -> Nat \ {0}]]
        /\ match' \in [Server -> [Server -> Nat]]
        /\ heartbeatTimer' \subseteq Server /\ beats' \in Nat
        /\ dead' \subseteq Server /\ kills' \in Nat
    BY <1>1, <1>4, AdoptTermType
    DEF HandleAppend, TypeOK, AdoptTermExceptRole, ghostVars, leaderVars, faultVars
  <2>4. CASE PrevOk(log[n], m)
    <3> DEFINE l == Merged(log[n], m.prevIndex, m.entries)
               commit == IF m.leaderCommit > commitIndex[n]
                         THEN Min2(m.leaderCommit, Len(l)) ELSE commitIndex[n]
    <3>1. log[n] \in Seq(Entry) /\ Len(log[n]) \in Nat /\ commitIndex[n] \in Nat
      BY DEF TypeOK
    <3>2. m.prevIndex <= Len(log[n])
      BY <2>2, <2>4, <3>1 DEF PrevOk
    <3>3. l \in Seq(Entry)
      BY <2>2, <3>1, <3>2, MergedType
    <3> HIDE DEF l
    <3>4. Len(l) \in Nat
      BY <3>3
    <3>5. commit \in Nat /\ (commit > commitIndex[n] => commit <= Len(l))
      BY <2>2, <3>1, <3>4 DEF Min2
    <3> HIDE DEF commit
    <3>6. Applied(n, l, commit) \in Seqs \cup {Nil}
      BY <3>3, <3>5, AppliedType
    <3>7. Settle(n, l, commit) \in Seq(Row)
      BY SettleType
    <3>8. AppendResp(n, m, TRUE, m.prevIndex + Len(m.entries)) \in Messages
      BY <1>2, <2>2
    <3>9. /\ log' = [log EXCEPT ![n] = l]
          /\ commitIndex' = [commitIndex EXCEPT ![n] = commit]
          /\ kv' = [kv EXCEPT ![n] = Applied(n, l, commit)]
          /\ history' = [history EXCEPT ![n] = Settle(n, l, commit)]
          /\ net' = rest \cup {AppendResp(n, m, TRUE, m.prevIndex + Len(m.entries))}
      BY <1>4, <2>4 DEF HandleAppend, l, commit
    <3>10. /\ log' \in [Server -> Seq(Entry)]
           /\ commitIndex' \in [Server -> Nat]
           /\ kv' \in [Server -> Seqs \cup {Nil}]
           /\ history' \in [Server -> Seq(Row)]
           /\ net' \subseteq Messages
      BY <1>1, <3>3, <3>5, <3>6, <3>7, <3>8, <3>9 DEF TypeOK
    <3> QED
      BY <2>3, <3>10 DEF TypeOK
  <2>5. CASE ~PrevOk(log[n], m)
    <3>1. net' = rest \cup {AppendResp(n, m, FALSE, 0)} /\ UNCHANGED logVars
      BY <1>4, <2>5 DEF HandleAppend
    <3>2. AppendResp(n, m, FALSE, 0) \in Messages
      BY <1>2
    <3> QED
      BY <1>1, <2>3, <3>1, <3>2 DEF TypeOK, logVars
  <2> QED
    BY <2>4, <2>5
<1> QED
  BY <1>3, <1>4

LEMMA TypeAppendOk ==
  ASSUME TypeOK, NEW n \in Server, NEW m \in net, NEW rest \in SUBSET net, dups' \in Nat,
         HandleAppendOk(n, m, rest)
  PROVE  TypeOK'
<1> DEFINE matched == [match[n] EXCEPT ![m.from] = Max2(@, m.matchIndex)]
           commit  == CommitAfter(n, matched)
<1>1. m \in Messages /\ rest \subseteq Messages /\ m.from \in Server /\ m.matchIndex \in Nat
  BY MessageType DEF TypeOK, HandleAppendOk, Receives
<1>2. match[n] \in [Server -> Nat] /\ commitIndex[n] \in Nat /\ log[n] \in Seq(Entry)
  BY DEF TypeOK
<1>3. matched \in [Server -> Nat]
  BY <1>1, <1>2 DEF Max2
<1>4. /\ match' = [match EXCEPT ![n] = matched]
      /\ next' = [next EXCEPT ![n][m.from] = matched[m.from] + 1]
      /\ commitIndex' = [commitIndex EXCEPT ![n] = commit]
      /\ kv' = [kv EXCEPT ![n] = Applied(n, log[n], commit)]
      /\ history' = [history EXCEPT ![n] = Settle(n, log[n], commit)]
  BY DEF HandleAppendOk
<1> HIDE DEF matched
<1>5. commit \in Nat /\ (commit > commitIndex[n] => commit <= Len(log[n]))
  BY CommitAfterType
<1> HIDE DEF commit
<1>6. Applied(n, log[n], commit) \in Seqs \cup {Nil} /\ Settle(n, log[n], commit) \in Seq(Row)
  BY <1>2, <1>5, AppliedType, SettleType
<1>7. matched[m.from] + 1 \in Nat \ {0}
  BY <1>1, <1>3
<1>8. /\ match' \in [Server -> [Server -> Nat]]
      /\ next' \in [Server -> [Server -> Nat \ {0}]]
      /\ commitIndex' \in [Server -> Nat]
      /\ kv' \in [Server -> Seqs \cup {Nil}]
      /\ history' \in [Server -> Seq(Row)]
  BY <1>1, <1>3, <1>4, <1>5, <1>6, <1>7 DEF TypeOK
<1> QED
  BY <1>1, <1>8
  DEF HandleAppendOk, TypeOK, electionVars, ghostVars, faultVars, timerVars

LEMMA TypeAppendRefused ==
  ASSUME TypeOK, NextWithinLog, NEW n \in Server, NEW m \in net, NEW rest \in SUBSET net,
         dups' \in Nat, NotToSelf, HandleAppendRefused(n, m, rest)
  PROVE  TypeOK'
<1> DEFINE back == Max2(1, next[n][m.from] - 1)
<1>1. m \in Messages /\ rest \subseteq Messages /\ m.from \in Server
  BY MessageType DEF TypeOK
<1>2. log[n] \in Seq(Entry) /\ Len(log[n]) \in Nat /\ next[n][m.from] \in Nat \ {0}
  <2>1. next[n] \in [Server -> Nat \ {0}] /\ log[n] \in Seq(Entry)
    BY DEF TypeOK
  <2> QED
    BY <1>1, <2>1
<1>3. next[n][m.from] <= Len(log[n]) + 1
  BY <1>1 DEF HandleAppendRefused, NextWithinLog, Peers, NotToSelf, Receives
<1>4. back \in Nat \ {0} /\ back <= Len(log[n]) + 1
  BY <1>2, <1>3 DEF Max2
<1>5. /\ next' = [next EXCEPT ![n][m.from] = back]
      /\ net' = rest \cup {AppendFor(n, log[n], back, m.from)}
  BY DEF HandleAppendRefused
<1> HIDE DEF back
<1>6. AppendFor(n, log[n], back, m.from) \in Messages
  BY <1>1, <1>2, <1>4, AppendForType
<1>7. net' \subseteq Messages /\ next' \in [Server -> [Server -> Nat \ {0}]]
  BY <1>1, <1>4, <1>5, <1>6 DEF TypeOK
<1> QED
  BY <1>7
  DEF HandleAppendRefused, TypeOK, electionVars, ghostVars, logVars, faultVars, timerVars

LEMMA TypeClientWrite ==
  ASSUME TypeOK, NextWithinLog, NEW n \in Server, UNCHANGED dups, ClientWrite(n)
  PROVE  TypeOK'
<1> DEFINE e == [term |-> term[n], seq |-> <<n, Len(history[n]) + 1>>]
           l == Append(log[n], e)
           row == [index |-> Len(l), outcome |-> "pending"]
<1>1. /\ log[n] \in Seq(Entry) /\ term[n] \in Nat /\ history[n] \in Seq(Row)
      /\ Len(history[n]) + 1 \in Nat /\ next[n] \in [Server -> Nat \ {0}]
  BY DEF TypeOK
<1>2. e \in Entry
  BY <1>1 DEF Entry, Seqs
<1>3. /\ log' = [log EXCEPT ![n] = l]
      /\ history' = [history EXCEPT ![n] = Append(@, row)]
      /\ net' = net \cup BroadcastAppends(n, l, next[n])
  BY DEF ClientWrite
<1> HIDE DEF e
<1>4. l \in Seq(Entry) /\ Len(l) = Len(log[n]) + 1 /\ Len(log[n]) \in Nat
  BY <1>1, <1>2
<1> HIDE DEF l
<1>5. row \in Row
  BY <1>4 DEF Row
<1> HIDE DEF row
<1>6. \A q \in Peers(n) : next[n][q] <= Len(l) + 1
  <2>1. \A q \in Peers(n) : next[n][q] <= Len(log[n]) + 1 /\ next[n][q] \in Nat
    BY <1>1 DEF ClientWrite, NextWithinLog, Peers
  <2> QED
    BY <1>4, <2>1
<1>7. BroadcastAppends(n, l, next[n]) \subseteq Messages
  BY <1>1, <1>4, <1>6, BroadcastType
<1>8. /\ log' \in [Server -> Seq(Entry)]
      /\ history' \in [Server -> Seq(Row)]
      /\ net' \subseteq Messages
  BY <1>1, <1>3, <1>4, <1>5, <1>7 DEF TypeOK
<1> QED
  BY <1>8 DEF ClientWrite, TypeOK, electionVars, ghostVars, leaderVars, faultVars, timerVars

LEMMA TypeFaults ==
  ASSUME TypeOK, NEW n \in Server, UNCHANGED dups, Kill(n) \/ Revive(n)
  PROVE  TypeOK'
<1>1. dead' \subseteq Server /\ kills' \in Nat
  BY DEF Kill, Revive, TypeOK
<1> QED
  BY <1>1 DEF Kill, Revive, TypeOK, electionVars, ghostVars, logVars, leaderVars, timerVars

LEMMA TypeHandle ==
  ASSUME IInv, NEW n \in Server, NEW m \in net, NEW rest \in SUBSET net, dups' \in Nat,
         Handle(n, m, rest)
  PROVE  TypeOK'
BY TypeReqVote, TypeVote, TypeHigherResponse, TypeAppend, TypeAppendOk, TypeAppendRefused
DEF IInv, Handle

-----------------------------------------------------------------------------
(* Indexes.  What a step may do to a server: its term grows, or in the     *)
(* same term it neither stands again nor takes from the log it leads.      *)
Progress(n) ==
  \/ term'[n] > term[n]
  \/ /\ term'[n] = term[n]
     /\ role'[n] = "candidate" => role[n] = "candidate"
     /\ role'[n] = "leader" =>
          \/ role[n] = "candidate"
          \/ role[n] = "leader" /\ Len(log'[n]) >= Len(log[n])

(* SentAsLeader after the step, of a term and an index before it. *)
SentAsLeaderNext(n, t, i) ==
  /\ t <= term'[n]
  /\ t = term'[n] => /\ role'[n] # "candidate"
                     /\ role'[n] = "leader" => i <= Len(log'[n])

LEMMA SentAsLeaderKept ==
  ASSUME TypeOK, NEW n \in Server, NEW t \in Nat, NEW i \in Nat,
         Progress(n), TypeOK', SentAsLeader(n, t, i)
  PROVE  SentAsLeaderNext(n, t, i)
<1>1. term[n] \in Nat /\ term'[n] \in Nat /\ Len(log[n]) \in Nat /\ Len(log'[n]) \in Nat
  BY SMTT(30) DEF TypeOK
<1> QED
  BY <1>1 DEF SentAsLeader, SentAsLeaderNext, Progress

LEMMA ClientWriteLength ==
  ASSUME IInv, NEW n \in Server, ClientWrite(n), NEW q \in Server
  PROVE  Len(log'[q]) = IF q = n THEN Len(log[n]) + 1 ELSE Len(log[q])
<1> DEFINE e == [term |-> term[n], seq |-> <<n, Len(history[n]) + 1>>]
<1>1. log \in [Server -> Seq(Entry)] /\ log' = [log EXCEPT ![n] = Append(log[n], e)]
  BY DEF IInv, TypeOK, ClientWrite
<1> HIDE DEF e
<1>2. e \in {e} \cup Entry /\ log[n] \in Seq({e} \cup Entry)
  BY <1>1, SeqMonotonic
<1>3. Len(Append(log[n], e)) = Len(log[n]) + 1
  BY <1>2
<1> QED
  BY <1>1, <1>3

LEMMA ProgressLocal ==
  ASSUME IInv, NEW n \in Server, NEW q \in Server,
         Timer(n) \/ ClientWrite(n) \/ Kill(n) \/ Revive(n)
  PROVE  Progress(q)
<1>1. /\ term \in [Server -> Nat] /\ log \in [Server -> Seq(Entry)]
      /\ role \in [Server -> {"follower", "candidate", "leader"}]
      /\ Len(log[q]) \in Nat /\ term[q] \in Nat
  BY SMTT(30) DEF IInv, TypeOK
<1>2. CASE StartElection(n)
  BY <1>1, <1>2 DEF StartElection, Progress, logVars
<1>3. CASE ElectionTimerIgnored(n) \/ Heartbeat(n) \/ TimerLost(n) \/ Kill(n) \/ Revive(n)
  <2>1. UNCHANGED <<term, role, log>>
    BY <1>3 DEF ElectionTimerIgnored, Heartbeat, TimerLost, Kill, Revive, electionVars, logVars
  <2> QED
    BY <1>1, <2>1 DEF Progress
<1>4. CASE ClientWrite(n)
  <2>1. UNCHANGED <<term, role>>
    BY <1>4 DEF ClientWrite, electionVars
  <2>2. Len(log'[q]) >= Len(log[q])
    BY <1>1, <1>4, ClientWriteLength
  <2> QED
    BY <1>1, <2>1, <2>2 DEF Progress
<1> QED
  BY <1>2, <1>3, <1>4 DEF Timer

LEMMA ProgressHandle ==
  ASSUME IInv, NEW n \in Server, NEW m \in net, NEW rest \in SUBSET net, NEW q \in Server,
         Handle(n, m, rest)
  PROVE  Progress(q)
<1>1. /\ term \in [Server -> Nat] /\ log \in [Server -> Seq(Entry)]
      /\ role \in [Server -> {"follower", "candidate", "leader"}]
      /\ Len(log[q]) \in Nat /\ term[q] \in Nat /\ m \in Messages
  BY SMTT(30) DEF IInv, TypeOK
<1>0. m.term \in Nat
  BY <1>1, MessageType
<1>2. CASE HandleReqVote(n, m, rest)
  <2>1. UNCHANGED log /\ term' = [term EXCEPT ![n] = TermAfter(n, m)]
        /\ role' = [role EXCEPT ![n] = RoleAfter(n, m)]
    BY <1>2 DEF HandleReqVote, AdoptTermExceptRole, logVars
  <2> QED
    BY <1>0, <1>1, <2>1 DEF Progress, TermAfter, RoleAfter, Higher
<1>3. CASE HandleVote(n, m, rest)
  <2>1. UNCHANGED <<log, term>> /\ role[n] = "candidate"
        /\ (role' = role \/ role' = [role EXCEPT ![n] = "leader"])
    BY <1>3 DEF HandleVote, logVars, BecomeLeader
  <2> QED
    BY <1>1, <2>1 DEF Progress
<1>4. CASE RefuseAppend(n, m, rest) \/ HandleAppendOk(n, m, rest)
           \/ HandleAppendRefused(n, m, rest)
  <2>1. UNCHANGED <<log, term, role>>
    BY <1>4 DEF RefuseAppend, HandleAppendOk, HandleAppendRefused, electionVars, logVars
  <2> QED
    BY <1>1, <2>1 DEF Progress
<1>5. CASE HandleAppend(n, m, rest) \/ HandleHigherResponse(n, m, rest)
  <2>1. term' = [term EXCEPT ![n] = TermAfter(n, m)] /\ role' = [role EXCEPT ![n] = "follower"]
    BY <1>5 DEF HandleAppend, HandleHigherResponse, AdoptTermExceptRole
  <2>2. q # n => log'[q] = log[q]
    BY <1>1, <1>5 DEF HandleAppend, HandleHigherResponse, logVars
  <2> QED
    BY <1>0, <1>1, <2>1, <2>2 DEF Progress, TermAfter, Higher
<1> QED
  BY <1>2, <1>3, <1>4, <1>5 DEF Handle

(* What a step may add to the network. *)
SentBy(n, m) ==
  /\ m.from = n /\ m.to # n
  /\ m.kind = "append" => SentAsLeaderNext(n, m.term, m.prevIndex + Len(m.entries))
  /\ m.kind = "append-resp" /\ m.ok => SentAsLeaderNext(m.to, m.term, m.matchIndex)

LEMMA AppendSentBy ==
  ASSUME IInv, NEW n \in Server, NEW q \in Peers(n), NEW l \in Seq(Entry),
         NEW i \in Nat \ {0}, i <= Len(l) + 1,
         term'[n] = term[n], role'[n] = "leader", Len(log'[n]) = Len(l)
  PROVE  SentBy(n, AppendFor(n, l, i, q))
<1> DEFINE m == AppendFor(n, l, i, q)
<1>1. /\ m.from = n /\ m.term = term[n] /\ m.kind = "append"
      /\ m.prevIndex + Len(m.entries) = Len(l)
  BY AppendForType DEF IInv, Peers
<1>2. m.to # n
  BY DEF AppendFor, Peers, m
<1>3. term[n] \in Nat /\ Len(l) \in Nat
  BY DEF IInv, TypeOK
<1> HIDE DEF m
<1>4. SentAsLeaderNext(n, m.term, m.prevIndex + Len(m.entries))
  BY <1>1, <1>3 DEF SentAsLeaderNext
<1>5. SentBy(n, m)
  BY <1>1, <1>2, <1>4 DEF SentBy
<1> QED
  BY <1>5 DEF m

LEMMA BroadcastSentBy ==
  ASSUME IInv, NEW n \in Server, NEW l \in Seq(Entry), NEW nextOf \in [Server -> Nat \ {0}],
         \A q \in Peers(n) : nextOf[q] <= Len(l) + 1,
         term'[n] = term[n], role'[n] = "leader", Len(log'[n]) = Len(l)
  PROVE  \A m \in BroadcastAppends(n, l, nextOf) : SentBy(n, m)
<1>1. ASSUME NEW q \in Peers(n) PROVE SentBy(n, AppendFor(n, l, nextOf[q], q))
  BY AppendSentBy DEF Peers
<1> QED
  BY <1>1 DEF BroadcastAppends

LEMMA SentLocal ==
  ASSUME IInv, NEW n \in Server, Timer(n) \/ ClientWrite(n) \/ Kill(n) \/ Revive(n)
  PROVE  \A m \in net' : m \in net \/ SentBy(n, m)
<1>1. /\ log[n] \in Seq(Entry) /\ next[n] \in [Server -> Nat \ {0}]
      /\ Len(log[n]) \in Nat
  BY DEF IInv, TypeOK
<1>2. CASE StartElection(n)
  <2>1. ASSUME NEW m \in net', m \notin net PROVE SentBy(n, m)
    <3>1. m.kind = "req-vote" /\ m.from = n /\ m.to \in Peers(n)
      BY <1>2, <2>1 DEF StartElection
    <3> QED
      BY <3>1 DEF SentBy, Peers
  <2> QED BY <2>1
<1>3. CASE Heartbeat(n)
  <2>1. CASE role[n] = "leader"
    <3>1. \A q \in Peers(n) : next[n][q] <= Len(log[n]) + 1
      BY <2>1 DEF IInv, NextWithinLog
    <3>2. term'[n] = term[n] /\ role'[n] = "leader" /\ Len(log'[n]) = Len(log[n])
      BY <1>3, <2>1 DEF Heartbeat, electionVars, logVars
    <3>3. \A m \in BroadcastAppends(n, log[n], next[n]) : SentBy(n, m)
      BY <1>1, <3>1, <3>2, BroadcastSentBy
    <3>4. net' = net \cup BroadcastAppends(n, log[n], next[n])
      BY <1>3, <2>1 DEF Heartbeat
    <3> QED
      BY <3>3, <3>4
  <2>2. CASE role[n] # "leader"
    BY <1>3, <2>2 DEF Heartbeat
  <2> QED BY <2>1, <2>2
<1>4. CASE ElectionTimerIgnored(n) \/ TimerLost(n) \/ Kill(n) \/ Revive(n)
  BY <1>4 DEF ElectionTimerIgnored, TimerLost, Kill, Revive
<1>5. CASE ClientWrite(n)
  <2> DEFINE l == Append(log[n], [term |-> term[n], seq |-> <<n, Len(history[n]) + 1>>])
  <2>1. [term |-> term[n], seq |-> <<n, Len(history[n]) + 1>>] \in Entry
    <3>1. term[n] \in Nat /\ Len(history[n]) + 1 \in Nat
      BY DEF IInv, TypeOK
    <3> QED
      BY <3>1 DEF Entry, Seqs
  <2>2. l \in Seq(Entry)
    BY <1>1, <2>1
  <2>3. net' = net \cup BroadcastAppends(n, l, next[n]) /\ log' = [log EXCEPT ![n] = l]
    BY <1>5 DEF ClientWrite
  <2> HIDE DEF l
  <2>4. log'[n] = l /\ Len(l) = Len(log[n]) + 1
    BY <1>5, <2>3, ClientWriteLength DEF IInv, TypeOK
  <2>5. \A q \in Peers(n) : next[n][q] <= Len(l) + 1
    <3>1. \A q \in Peers(n) : next[n][q] <= Len(log[n]) + 1 /\ next[n][q] \in Nat
      BY <1>1, <1>5 DEF ClientWrite, IInv, NextWithinLog, Peers
    <3> QED BY <1>1, <2>4, <3>1
  <2>6. term'[n] = term[n] /\ role'[n] = "leader"
    BY <1>5 DEF ClientWrite, electionVars
  <2>7. \A m \in BroadcastAppends(n, l, next[n]) : SentBy(n, m)
    BY <1>1, <2>2, <2>4, <2>5, <2>6, BroadcastSentBy
  <2> QED
    BY <2>3, <2>7
<1> QED
  BY <1>2, <1>3, <1>4, <1>5 DEF Timer

(* An append is answered once, whether its entries were taken or not. *)
LEMMA AppendAnswer ==
  ASSUME NEW n, NEW m, NEW rest, HandleAppend(n, m, rest)
  PROVE  \/ net' = rest \cup {AppendResp(n, m, TRUE, m.prevIndex + Len(m.entries))}
         \/ net' = rest \cup {AppendResp(n, m, FALSE, 0)}
<1>1. CASE PrevOk(log[n], m)
  BY <1>1 DEF HandleAppend
<1>2. CASE ~PrevOk(log[n], m)
  BY <1>2 DEF HandleAppend
<1> QED BY <1>1, <1>2

LEMMA SentHandle ==
  ASSUME IInv, NEW n \in Server, NEW m \in net, NEW rest \in SUBSET net,
         Handle(n, m, rest), TypeOK'
  PROVE  \A x \in net' : x \in net \/ SentBy(n, x)
<1>1. /\ log[n] \in Seq(Entry) /\ next[n] \in [Server -> Nat \ {0}]
      /\ Len(log[n]) \in Nat /\ m \in Messages /\ m.from # m.to /\ term[n] \in Nat
  BY DEF IInv, TypeOK, NotToSelf
<1>2. m.from \in Server /\ m.term \in Nat
  BY <1>1, MessageType
<1>3. CASE HandleReqVote(n, m, rest)
  <2>1. ASSUME NEW x \in net', x \notin net PROVE SentBy(n, x)
    <3>1. x.kind = "vote" /\ x.from = n /\ x.to = m.from /\ m.to = n
      BY <1>3, <2>1 DEF HandleReqVote, Receives
    <3> QED
      BY <1>1, <3>1 DEF SentBy
  <2> QED BY <2>1
<1>4. CASE HandleVote(n, m, rest)
  <2>1. CASE BecomeLeader(n, rest)
    <3> DEFINE start == [q \in Server |-> Len(log[n]) + 1]
    <3>1. start \in [Server -> Nat \ {0}] /\ \A q \in Peers(n) : start[q] <= Len(log[n]) + 1
      BY <1>1 DEF Peers
    <3>2. term'[n] = term[n] /\ role'[n] = "leader" /\ Len(log'[n]) = Len(log[n])
      BY <1>4, <2>1 DEF HandleVote, BecomeLeader, logVars, IInv, TypeOK
    <3>3. \A x \in BroadcastAppends(n, log[n], start) : SentBy(n, x)
      BY <1>1, <3>1, <3>2, BroadcastSentBy
    <3> QED
      BY <2>1, <3>3 DEF BecomeLeader
  <2>2. CASE net' = rest
    BY <2>2
  <2> QED
    BY <1>4, <2>1, <2>2 DEF HandleVote
<1>5. CASE RefuseAppend(n, m, rest)
  <2>1. ASSUME NEW x \in net', x \notin net PROVE SentBy(n, x)
    <3>1. x = AppendResp(n, m, FALSE, 0) /\ m.to = n
      BY <1>5, <2>1 DEF RefuseAppend, Receives
    <3> QED
      BY <1>1, <3>1 DEF SentBy, AppendResp
  <2> QED BY <2>1
<1>6. CASE HandleAppend(n, m, rest)
  <2>1. m.kind = "append" /\ m.to = n /\ m.term >= term[n]
    BY <1>6 DEF HandleAppend, Receives
  <2>2. m.prevIndex + Len(m.entries) \in Nat /\ TermAfter(n, m) = m.term
    BY <1>1, <1>2, <2>1, MessageType DEF TermAfter, Higher
  <2>3. SentAsLeader(m.from, m.term, m.prevIndex + Len(m.entries))
    BY <2>1 DEF IInv, IndexesHeld
  <2>4. Progress(m.from)
    BY <1>2, <1>6, ProgressHandle DEF Handle
  <2>5. SentAsLeaderNext(m.from, m.term, m.prevIndex + Len(m.entries))
    BY <1>2, <2>2, <2>3, <2>4, SentAsLeaderKept DEF IInv
  <2>6. SentBy(n, AppendResp(n, m, TRUE, m.prevIndex + Len(m.entries)))
    BY <1>1, <2>1, <2>2, <2>5 DEF SentBy, AppendResp
  <2>7. SentBy(n, AppendResp(n, m, FALSE, 0))
    BY <1>1, <2>1 DEF SentBy, AppendResp
  <2>8. \/ net' = rest \cup {AppendResp(n, m, TRUE, m.prevIndex + Len(m.entries))}
        \/ net' = rest \cup {AppendResp(n, m, FALSE, 0)}
    BY <1>6, AppendAnswer
  <2> QED
    BY <2>6, <2>7, <2>8
<1>7. CASE HandleAppendOk(n, m, rest) \/ HandleHigherResponse(n, m, rest)
  BY <1>7 DEF HandleAppendOk, HandleHigherResponse
<1>8. CASE HandleAppendRefused(n, m, rest)
  <2> DEFINE back == Max2(1, next[n][m.from] - 1)
  <2>1. m.from \in Peers(n) /\ role[n] = "leader"
    BY <1>1, <1>2, <1>8 DEF HandleAppendRefused, Receives, Peers
  <2>2. next[n][m.from] \in Nat \ {0} /\ next[n][m.from] <= Len(log[n]) + 1
    BY <1>1, <1>2, <2>1 DEF IInv, NextWithinLog
  <2>3. back \in Nat \ {0} /\ back <= Len(log[n]) + 1
    <3>1. Len(log[n]) \in Nat
      BY <1>1 DEF IInv, TypeOK
    <3> QED BY <2>2, <3>1 DEF Max2
  <2>4. net' = rest \cup {AppendFor(n, log[n], back, m.from)}
    BY <1>8 DEF HandleAppendRefused
  <2>5. term'[n] = term[n] /\ role'[n] = "leader" /\ Len(log'[n]) = Len(log[n])
    BY <1>8 DEF HandleAppendRefused, electionVars, logVars
  <2> HIDE DEF back
  <2>6. SentBy(n, AppendFor(n, log[n], back, m.from))
    BY <1>1, <2>1, <2>3, <2>5, AppendSentBy
  <2> QED
    BY <2>4, <2>6
<1> QED
  BY <1>3, <1>4, <1>5, <1>6, <1>7, <1>8 DEF Handle

(* Messages sent speak of what their leader holds, whoever moves. *)
LEMMA IndexesKept ==
  ASSUME IInv, TypeOK', NEW n \in Server, \A q \in Server : Progress(q),
         \A m \in net' : m \in net \/ SentBy(n, m)
  PROVE  IndexesHeld' /\ NotToSelf'
<1>1. ASSUME NEW m \in net, m.kind = "append"
      PROVE  SentAsLeaderNext(m.from, m.term, m.prevIndex + Len(m.entries))
  <2>0. m \in Messages
    BY DEF IInv, TypeOK
  <2>1. m.from \in Server /\ m.term \in Nat /\ m.prevIndex + Len(m.entries) \in Nat
    BY <1>1, <2>0, MessageType
  <2> QED
    BY <1>1, <2>1, SentAsLeaderKept DEF IInv, IndexesHeld
<1>2. ASSUME NEW m \in net, m.kind = "append-resp", m.ok
      PROVE  SentAsLeaderNext(m.to, m.term, m.matchIndex)
  <2>0. m \in Messages
    BY DEF IInv, TypeOK
  <2>1. m.to \in Server /\ m.term \in Nat /\ m.matchIndex \in Nat
    BY <1>2, <2>0, MessageType
  <2> QED
    BY <1>2, <2>1, SentAsLeaderKept DEF IInv, IndexesHeld
<1>3. ASSUME NEW m \in net'
      PROVE  /\ m.kind = "append" => SentAsLeaderNext(m.from, m.term, m.prevIndex + Len(m.entries))
             /\ m.kind = "append-resp" /\ m.ok => SentAsLeaderNext(m.to, m.term, m.matchIndex)
             /\ m.from # m.to
  BY <1>1, <1>2, <1>3 DEF SentBy, IInv, NotToSelf
<1> QED
  BY <1>3 DEF IndexesHeld, NotToSelf, SentAsLeader, SentAsLeaderNext

LEMMA NextWithinLocal ==
  ASSUME IInv, NEW n \in Server, Timer(n) \/ ClientWrite(n) \/ Kill(n) \/ Revive(n)
  PROVE  NextWithinLog'
<1>1. \A q \in Server : Len(log[q]) \in Nat /\ next[q] \in [Server -> Nat \ {0}]
                        /\ match[q] \in [Server -> Nat]
  BY SMTT(30) DEF IInv, TypeOK
<1>2. CASE StartElection(n)
  BY <1>2 DEF StartElection, IInv, TypeOK, NextWithinLog, logVars, leaderVars
<1>3. CASE ElectionTimerIgnored(n) \/ Heartbeat(n) \/ TimerLost(n) \/ Kill(n) \/ Revive(n)
  <2>1. UNCHANGED <<role, log, next, match>>
    BY <1>3 DEF ElectionTimerIgnored, Heartbeat, TimerLost, Kill, Revive,
                electionVars, logVars, leaderVars
  <2> QED
    BY <2>1 DEF IInv, NextWithinLog
<1>4. CASE ClientWrite(n)
  <2>1. UNCHANGED <<role, next, match>>
    BY <1>4 DEF ClientWrite, electionVars, leaderVars
  <2>2. \A q \in Server : Len(log'[q]) >= Len(log[q]) /\ Len(log'[q]) \in Nat
    BY <1>1, <1>4, ClientWriteLength
  <2>3. ASSUME NEW q \in Server, role'[q] = "leader", NEW z \in Peers(q)
        PROVE  match'[q][z] <= Len(log'[q]) /\ next'[q][z] <= Len(log'[q]) + 1
    <3>1. match[q][z] <= Len(log[q]) /\ next[q][z] <= Len(log[q]) + 1
      BY <2>1, <2>3 DEF IInv, NextWithinLog
    <3>2. match[q][z] \in Nat /\ next[q][z] \in Nat
      BY <1>1 DEF Peers
    <3> QED
      BY <1>1, <2>1, <2>2, <3>1, <3>2, SMTT(30)
  <2> QED
    BY <2>3 DEF NextWithinLog
<1> QED
  BY <1>2, <1>3, <1>4 DEF Timer

LEMMA NextWithinHandle ==
  ASSUME IInv, NEW n \in Server, NEW m \in net, NEW rest \in SUBSET net,
         Handle(n, m, rest), TypeOK'
  PROVE  NextWithinLog'
<1>1. /\ \A q \in Server : Len(log[q]) \in Nat /\ next[q] \in [Server -> Nat \ {0}]
                           /\ match[q] \in [Server -> Nat]
      /\ role \in [Server -> {"follower", "candidate", "leader"}]
      /\ next \in [Server -> [Server -> Nat \ {0}]]
      /\ match \in [Server -> [Server -> Nat]]
      /\ log \in [Server -> Seq(Entry)]
      /\ m \in Messages
  <2>1. TypeOK
    BY DEF IInv
  <2>2. /\ role \in [Server -> {"follower", "candidate", "leader"}]
        /\ next \in [Server -> [Server -> Nat \ {0}]]
        /\ match \in [Server -> [Server -> Nat]]
        /\ log \in [Server -> Seq(Entry)]
        /\ m \in Messages
    BY <2>1 DEF TypeOK
  <2>3. \A q \in Server : Len(log[q]) \in Nat
    BY <2>2
  <2> QED
    BY <2>2, <2>3
<1>2. m.from \in Server /\ m.term \in Nat
  BY <1>1, MessageType
<1>3. CASE \/ HandleReqVote(n, m, rest) \/ RefuseAppend(n, m, rest)
           \/ HandleHigherResponse(n, m, rest) \/ HandleAppend(n, m, rest)
  <2>1. UNCHANGED <<next, match>>
    BY <1>3 DEF HandleReqVote, RefuseAppend, HandleAppend, HandleHigherResponse, leaderVars
  <2>2. \A q \in Server : role'[q] = "leader" => role[q] = "leader" /\ log'[q] = log[q]
    <3>1. CASE HandleReqVote(n, m, rest)
      BY <1>1, <3>1 DEF HandleReqVote, RoleAfter, logVars
    <3>2. CASE RefuseAppend(n, m, rest)
      BY <3>2 DEF RefuseAppend, electionVars, logVars
    <3>3. CASE HandleHigherResponse(n, m, rest)
      BY <1>1, <3>3 DEF HandleHigherResponse, logVars
    <3>4. CASE HandleAppend(n, m, rest)
      <4>1. role'[n] = "follower" /\ \A q \in Server \ {n} : role'[q] = role[q]
        BY <1>1, <3>4 DEF HandleAppend
      <4>2. \A q \in Server \ {n} : log'[q] = log[q]
        BY <1>1, <3>4 DEF HandleAppend, logVars
      <4> QED
        BY <4>1, <4>2
    <3> QED
      BY <1>3, <3>1, <3>2, <3>3, <3>4
  <2> QED
    BY <2>1, <2>2 DEF IInv, NextWithinLog
<1>4. CASE HandleVote(n, m, rest)
  <2>1. CASE BecomeLeader(n, rest)
    <3>1. /\ role' = [role EXCEPT ![n] = "leader"] /\ log' = log
          /\ next' = [next EXCEPT ![n] = [q \in Server |-> Len(log[n]) + 1]]
          /\ match' = [match EXCEPT ![n] = [q \in Server |-> 0]]
      BY <1>4, <2>1 DEF HandleVote, BecomeLeader, logVars
    <3>2. \A z \in Peers(n) : match'[n][z] = 0 /\ next'[n][z] = Len(log[n]) + 1
      BY <1>1, <3>1 DEF Peers
    <3>3. \A q \in Server \ {n} : match'[q] = match[q] /\ next'[q] = next[q] /\ role'[q] = role[q]
      BY <1>1, <3>1
    <3>4. \A z \in Peers(n) : match'[n][z] <= Len(log'[n]) /\ next'[n][z] <= Len(log'[n]) + 1
      <4>1. Len(log'[n]) = Len(log[n]) /\ Len(log[n]) \in Nat
        BY <1>1, <3>1
      <4> QED
        BY <3>2, <4>1
    <3>5. \A q \in Server \ {n} : role'[q] = "leader" =>
            \A z \in Peers(q) : match'[q][z] <= Len(log'[q]) /\ next'[q][z] <= Len(log'[q]) + 1
      BY <3>1, <3>3 DEF IInv, NextWithinLog
    <3> QED
      BY <3>4, <3>5 DEF NextWithinLog
  <2>2. CASE UNCHANGED <<role, leaderVars>>
    BY <1>4, <2>2 DEF HandleVote, leaderVars, logVars, IInv, NextWithinLog
  <2> QED
    BY <1>4, <2>1, <2>2 DEF HandleVote
<1>5. CASE HandleAppendOk(n, m, rest)
  <2> DEFINE matched == [match[n] EXCEPT ![m.from] = Max2(@, m.matchIndex)]
  <2>1. m.kind = "append-resp" /\ m.to = n /\ m.ok /\ m.term = term[n] /\ role[n] = "leader"
        /\ m.from \in Peers(n)
    BY <1>2, <1>5 DEF HandleAppendOk, Receives, IInv, NotToSelf, Peers
  <2>2. m.matchIndex <= Len(log[n])
    BY <2>1 DEF IInv, IndexesHeld, SentAsLeader
  <2>3. m.matchIndex \in Nat
    BY <1>1, <2>1, MessageType
  <2>4. \A z \in Peers(n) : match[n][z] <= Len(log[n]) /\ next[n][z] <= Len(log[n]) + 1
    BY <2>1 DEF IInv, NextWithinLog
  <2>5. \A z \in Peers(n) : matched[z] <= Len(log[n]) /\ matched[z] \in Nat
    BY <1>1, <2>2, <2>3, <2>4 DEF Max2, Peers
  <2>6. UNCHANGED <<role, log>> /\ match' = [match EXCEPT ![n] = matched]
        /\ next' = [next EXCEPT ![n][m.from] = matched[m.from] + 1]
    BY <1>5 DEF HandleAppendOk, electionVars
  <2> HIDE DEF matched
  <2>7. \A z \in Peers(n) : match'[n][z] <= Len(log[n]) /\ next'[n][z] <= Len(log[n]) + 1
    <3>1. match'[n] = matched /\ next'[n] = [next[n] EXCEPT ![m.from] = matched[m.from] + 1]
      BY <1>1, <2>6
    <3>2. \A z \in Peers(n) : next'[n][z] = IF z = m.from THEN matched[z] + 1 ELSE next[n][z]
      BY <1>1, <3>1 DEF Peers
    <3> QED
      BY <1>1, <2>4, <2>5, <3>1, <3>2
  <2>8. \A q \in Server \ {n} : match'[q] = match[q] /\ next'[q] = next[q]
    BY <1>1, <2>6
  <2> QED
    BY <2>6, <2>7, <2>8 DEF IInv, NextWithinLog
<1>6. CASE HandleAppendRefused(n, m, rest)
  <2> DEFINE back == Max2(1, next[n][m.from] - 1)
  <2>1. role[n] = "leader" /\ m.from \in Peers(n)
    BY <1>2, <1>6 DEF HandleAppendRefused, Receives, IInv, NotToSelf, Peers
  <2>2. \A z \in Peers(n) : match[n][z] <= Len(log[n]) /\ next[n][z] <= Len(log[n]) + 1
    BY <2>1 DEF IInv, NextWithinLog
  <2>3. next[n][m.from] \in Nat \ {0}
    BY <1>1, <1>2
  <2>4. back <= Len(log[n]) + 1
    BY <1>1, <2>1, <2>2, <2>3 DEF Max2
  <2>5. UNCHANGED <<role, log, match>> /\ next' = [next EXCEPT ![n][m.from] = back]
    BY <1>6 DEF HandleAppendRefused, electionVars, logVars
  <2> HIDE DEF back
  <2>6. \A z \in Peers(n) : next'[n][z] <= Len(log[n]) + 1
    BY <1>1, <2>1, <2>2, <2>4, <2>5 DEF Peers
  <2>7. \A q \in Server \ {n} : next'[q] = next[q]
    BY <1>1, <2>5
  <2> QED
    BY <2>2, <2>5, <2>6, <2>7 DEF IInv, NextWithinLog
<1> QED
  BY <1>3, <1>4, <1>5, <1>6 DEF Handle

-----------------------------------------------------------------------------
(* Elections. *)
ElectionInv == OneVotePerTerm /\ VotesCast /\ WinnersElected

(* A step that neither moves the election state nor sends a vote. *)
LEMMA ElectionStutter ==
  ASSUME ElectionInv, UNCHANGED <<term, votedFor, votes, ballots, won>>,
         \A m \in net' : m \in net \/ m.kind # "vote"
  PROVE  ElectionInv'
<1>1. OneVotePerTerm'
  BY DEF ElectionInv, OneVotePerTerm
<1>2. VotesCast'
  BY DEF ElectionInv, VotesCast
<1>3. WinnersElected'
  BY DEF ElectionInv, WinnersElected
<1> QED
  BY <1>1, <1>2, <1>3 DEF ElectionInv

(* A step in which n casts at most one ballot, in a term it had not voted  *)
(* in; votes counted and sent are ballots; no winner is new.               *)
LEMMA BallotCast ==
  ASSUME IInv, NEW n \in Server, NEW t \in Nat, NEW v \in Server \cup {Nil},
         NEW V \in SUBSET Server,
         term' = [term EXCEPT ![n] = t], votedFor' = [votedFor EXCEPT ![n] = v],
         votes' = [votes EXCEPT ![n] = V], won' = won,
         \/ ballots' = ballots
         \/ v # Nil /\ ballots' = ballots \cup {<<t, n, v>>},
         t > term[n] \/ (t = term[n] /\ votedFor[n] \in {Nil, v}),
         V = {} \/ (t = term[n] /\ V = votes[n]) \/ (V = {n} /\ <<t, n, n>> \in ballots'),
         \A m \in net' : m.kind = "vote" /\ m.granted => m \in net \/ <<m.term, m.from, m.to>> \in ballots'
  PROVE  ElectionInv'
<1>1. /\ term \in [Server -> Nat] /\ votedFor \in [Server -> Server \cup {Nil}]
      /\ votes \in [Server -> SUBSET Server] /\ ballots \subseteq Nat \X Server \X Server
      /\ Nil \notin Server /\ term[n] \in Nat
  BY ServerAssumption DEF IInv, TypeOK
<1>2. ballots \subseteq ballots'
  OBVIOUS
<1>3. ASSUME NEW b \in ballots
      PROVE  /\ b[1] \in Nat /\ b[2] \in Server /\ b[3] \in Server
             /\ b[1] <= term[b[2]] /\ (b[1] = term[b[2]] => votedFor[b[2]] = b[3])
             /\ \A c \in ballots : b[1] = c[1] /\ b[2] = c[2] => b[3] = c[3]
  <2>1. b \in Nat \X Server \X Server
    BY <1>1
  <2> QED
    BY <2>1 DEF IInv, OneVotePerTerm
<1>4. ASSUME NEW b \in ballots, b[2] = n, b[1] = t PROVE v = b[3]
  BY <1>1, <1>3, <1>4
<1>5. ASSUME NEW b \in ballots
      PROVE  b[1] <= term'[b[2]] /\ (b[1] = term'[b[2]] => votedFor'[b[2]] = b[3])
  <2>1. CASE b[2] = n
    <3>1. b[1] <= term[n] /\ b[1] \in Nat
      BY <1>3, <2>1
    <3>2. term'[n] = t /\ votedFor'[n] = v
      BY <1>1
    <3>3. b[1] <= t
      BY <1>1, <3>1
    <3> QED
      BY <1>4, <2>1, <3>2, <3>3
  <2>2. CASE b[2] # n
    BY <1>1, <1>3, <2>2
  <2> QED BY <2>1, <2>2
<1>6. OneVotePerTerm'
  <2>1. CASE ballots' = ballots
    BY <1>3, <1>5, <2>1 DEF OneVotePerTerm
  <2>2. CASE v # Nil /\ ballots' = ballots \cup {<<t, n, v>>}
    <3> DEFINE nb == <<t, n, v>>
    <3>1. nb[1] = t /\ nb[2] = n /\ nb[3] = v
      OBVIOUS
    <3>2. nb[1] <= term'[nb[2]] /\ votedFor'[nb[2]] = nb[3]
      BY <1>1, <3>1
    <3>3. \A c \in ballots : nb[1] = c[1] /\ nb[2] = c[2] => nb[3] = c[3]
      BY <1>4, <3>1
    <3> HIDE DEF nb
    <3>4. ballots' = ballots \cup {nb}
      BY <2>2 DEF nb
    <3> QED
      BY <1>3, <1>5, <3>2, <3>3, <3>4 DEF OneVotePerTerm
  <2> QED
    BY <2>1, <2>2
<1>7. VotesCast'
  <2>1. \A m \in net' : m.kind = "vote" /\ m.granted => <<m.term, m.from, m.to>> \in ballots'
    BY <1>2 DEF IInv, VotesCast
  <2>2. \A x \in votes'[n] : <<term'[n], x, n>> \in ballots'
    <3>1. votes'[n] = V /\ term'[n] = t
      BY <1>1
    <3>2. \A x \in votes[n] : <<term[n], x, n>> \in ballots
      BY DEF IInv, VotesCast
    <3> QED
      BY <1>2, <3>1, <3>2
  <2>3. \A q \in Server \ {n} : \A x \in votes'[q] : <<term'[q], x, q>> \in ballots'
    <3>1. \A q \in Server \ {n} : votes'[q] = votes[q] /\ term'[q] = term[q]
      BY <1>1
    <3> QED
      BY <1>2, <3>1 DEF IInv, VotesCast
  <2> QED
    BY <2>1, <2>2, <2>3 DEF VotesCast
<1>8. WinnersElected'
  BY <1>2 DEF IInv, WinnersElected
<1> QED
  BY <1>6, <1>7, <1>8 DEF ElectionInv

LEMMA ElectionLocal ==
  ASSUME IInv, NEW n \in Server, Timer(n) \/ ClientWrite(n) \/ Kill(n) \/ Revive(n)
  PROVE  ElectionInv'
<1>0. ElectionInv
  BY DEF IInv, ElectionInv
<1>1. CASE StartElection(n)
  <2>1. term[n] \in Nat /\ term[n] + 1 \in Nat /\ term[n] + 1 > term[n] /\ n # Nil
    BY ServerAssumption DEF IInv, TypeOK
  <2>2. ASSUME NEW m \in net', m.kind = "vote" PROVE m \in net
    BY <1>1, <2>2 DEF StartElection
  <2>3. /\ term' = [term EXCEPT ![n] = term[n] + 1]
        /\ votedFor' = [votedFor EXCEPT ![n] = n]
        /\ votes' = [votes EXCEPT ![n] = {n}]
        /\ ballots' = ballots \cup {<<term[n] + 1, n, n>>} /\ won' = won
    BY <1>1 DEF StartElection
  <2> DEFINE t == term[n] + 1
             V == {n}
  <2>4. t \in Nat /\ V \in SUBSET Server /\ n \in Server \cup {Nil} /\ t > term[n]
        /\ V = {n} /\ <<t, n, n>> \in ballots'
    BY <2>1, <2>3
  <2>5. /\ term' = [term EXCEPT ![n] = t] /\ votes' = [votes EXCEPT ![n] = V]
        /\ ballots' = ballots \cup {<<t, n, n>>}
    BY <2>3
  <2> HIDE DEF t, V
  <2> QED
    BY <2>1, <2>2, <2>3, <2>4, <2>5, BallotCast
<1>2. CASE ElectionTimerIgnored(n) \/ Heartbeat(n) \/ TimerLost(n) \/ ClientWrite(n)
           \/ Kill(n) \/ Revive(n)
  <2>1. UNCHANGED <<term, votedFor, votes, ballots, won>>
    BY <1>2 DEF ElectionTimerIgnored, Heartbeat, TimerLost, ClientWrite, Kill, Revive,
                electionVars, ghostVars
  <2>2. \A m \in net' : m \in net \/ m.kind # "vote"
    <3>1. net' = net \/ \E l : net' = net \cup BroadcastAppends(n, l, next[n])
      BY <1>2 DEF ElectionTimerIgnored, Heartbeat, TimerLost, ClientWrite, Kill, Revive
    <3> QED
      BY <3>1 DEF BroadcastAppends, AppendFor
  <2> QED
    BY <1>0, <2>1, <2>2, ElectionStutter
<1> QED
  BY <1>1, <1>2 DEF Timer

LEMMA ElectionHandle ==
  ASSUME IInv, NEW n \in Server, NEW m \in net, NEW rest \in SUBSET net,
         Handle(n, m, rest)
  PROVE  ElectionInv'
<1>0. ElectionInv
  BY DEF IInv, ElectionInv
<1> DEFINE t == TermAfter(n, m)
           v == VotedAfter(n, m)
           V == VotesAfter(n, m)
<1>1. TypeOK /\ m \in Messages
  BY DEF IInv, TypeOK
<1>2. m.from \in Server /\ m.term \in Nat /\ term[n] \in Nat /\ m.from # Nil
  BY <1>1, MessageType, ServerAssumption DEF TypeOK
<1>3. t \in Nat /\ v \in Server \cup {Nil} /\ V \in SUBSET Server
  BY <1>1, AdoptTermType
<1>4. \/ t > term[n] /\ v = Nil /\ V = {}
      \/ t = term[n] /\ v = votedFor[n] /\ V = votes[n]
  BY <1>2 DEF TermAfter, VotedAfter, VotesAfter, Higher
<1> HIDE DEF t, v, V
<1>5. CASE HandleReqVote(n, m, rest)
  <2>1. /\ term' = [term EXCEPT ![n] = t] /\ votes' = [votes EXCEPT ![n] = V] /\ won' = won
    BY <1>5 DEF HandleReqVote, AdoptTermExceptRole, t, V
  <2>2. CASE Granted(n, m)
    <3>1. m.term = t /\ v \in {Nil, m.from}
      BY <2>2 DEF Granted, t, v
    <3>2. votedFor' = [votedFor EXCEPT ![n] = m.from] /\ ballots' = ballots \cup {<<t, n, m.from>>}
      BY <1>5, <2>2, <3>1 DEF HandleReqVote
    <3>3. ASSUME NEW x \in net', x.kind = "vote", x \notin net
          PROVE  <<x.term, x.from, x.to>> \in ballots'
      <4>1. x.term = t /\ x.from = n /\ x.to = m.from
        BY <1>5, <3>3 DEF HandleReqVote, t
      <4> QED
        BY <3>2, <4>1
    <3>4. t > term[n] \/ (t = term[n] /\ votedFor[n] \in {Nil, m.from})
      BY <1>4, <3>1
    <3>5. V = {} \/ (t = term[n] /\ V = votes[n])
      BY <1>4
    <3> QED
      BY <1>2, <1>3, <2>1, <3>2, <3>3, <3>4, <3>5, BallotCast
  <2>3. CASE ~Granted(n, m)
    <3>1. votedFor' = [votedFor EXCEPT ![n] = v] /\ ballots' = ballots
      BY <1>5, <2>3 DEF HandleReqVote, v
    <3>2. ASSUME NEW x \in net', x.kind = "vote", x.granted PROVE x \in net
      BY <1>5, <2>3, <3>2 DEF HandleReqVote
    <3>3. t > term[n] \/ (t = term[n] /\ votedFor[n] \in {Nil, v})
      BY <1>4
    <3>4. V = {} \/ (t = term[n] /\ V = votes[n])
      BY <1>4
    <3> QED
      BY <1>3, <2>1, <3>1, <3>2, <3>3, <3>4, BallotCast
  <2> QED BY <2>2, <2>3
<1>6. CASE HandleAppend(n, m, rest) \/ HandleHigherResponse(n, m, rest)
  <2>1. /\ term' = [term EXCEPT ![n] = t] /\ votes' = [votes EXCEPT ![n] = V]
        /\ ballots' = ballots /\ won' = won
    BY <1>6 DEF HandleAppend, HandleHigherResponse, AdoptTermExceptRole, ghostVars, t, V
  <2>2. votedFor' = [votedFor EXCEPT ![n] = v]
    BY <1>6 DEF HandleAppend, HandleHigherResponse, VotedAfter, v
  <2>3. ASSUME NEW x \in net', x.kind = "vote" PROVE x \in net
    <3>1. CASE HandleHigherResponse(n, m, rest)
      BY <3>1 DEF HandleHigherResponse
    <3>2. CASE HandleAppend(n, m, rest)
      <4>1. PICK r : net' = rest \cup {r} /\ r.kind = "append-resp"
        <5>1. /\ AppendResp(n, m, TRUE, m.prevIndex + Len(m.entries)).kind = "append-resp"
              /\ AppendResp(n, m, FALSE, 0).kind = "append-resp"
          BY DEF AppendResp
        <5> QED
          BY <3>2, <5>1, AppendAnswer
      <4> QED
        BY <2>3, <4>1
    <3> QED BY <1>6, <3>1, <3>2
  <2>4. t > term[n] \/ (t = term[n] /\ votedFor[n] \in {Nil, v})
    BY <1>4
  <2>5. V = {} \/ (t = term[n] /\ V = votes[n])
    BY <1>4
  <2> QED
    BY <1>3, <2>1, <2>2, <2>3, <2>4, <2>5, BallotCast
<1>7. CASE RefuseAppend(n, m, rest) \/ HandleAppendOk(n, m, rest)
           \/ HandleAppendRefused(n, m, rest)
  <2>1. UNCHANGED <<term, votedFor, votes, ballots, won>>
    BY <1>7 DEF RefuseAppend, HandleAppendOk, HandleAppendRefused, electionVars, ghostVars
  <2>2. \A x \in net' : x \in net \/ x.kind # "vote"
    BY <1>7 DEF RefuseAppend, HandleAppendOk, HandleAppendRefused, AppendFor, AppendResp
  <2> QED
    BY <1>0, <2>1, <2>2, ElectionStutter
<1>8. CASE HandleVote(n, m, rest)
  <2>1. /\ term' = term /\ votedFor' = votedFor /\ ballots' = ballots
        /\ votes' = [votes EXCEPT ![n] = @ \cup {m.from}]
        /\ m.kind = "vote" /\ m.granted /\ m.to = n /\ m.term = term[n] /\ m.from \notin votes[n]
    BY <1>8 DEF HandleVote, Receives
  <2>2. votes \in [Server -> SUBSET Server]
    BY <1>1 DEF TypeOK
  <2>3. OneVotePerTerm'
    BY <2>1 DEF IInv, OneVotePerTerm
  <2>4. <<term[n], m.from, n>> \in ballots
    BY <2>1 DEF IInv, VotesCast
  <2>5. \A x \in votes'[n] : <<term[n], x, n>> \in ballots
    BY <2>1, <2>2, <2>4 DEF IInv, VotesCast
  <2>6. \A x \in net' : x \in net \/ x.kind # "vote"
    BY <1>8 DEF HandleVote, BecomeLeader, BroadcastAppends, AppendFor
  <2>7. VotesCast'
    BY <2>1, <2>2, <2>5, <2>6 DEF IInv, VotesCast
  <2>8. WinnersElected'
    <3>1. CASE won' = won
      BY <2>1, <3>1 DEF IInv, WinnersElected
    <3>2. CASE Cardinality(votes[n]) + 1 >= MAJORITY /\ won' = won \cup {<<term[n], n>>}
      <4> DEFINE Q == votes[n] \cup {m.from}
      <4>1. votes[n] \in SUBSET Server /\ Q \in SUBSET Server /\ IsFiniteSet(votes[n])
        BY <1>2, <2>2, ServerAssumption, FS_Subset
      <4>2. Cardinality(Q) = Cardinality(votes[n]) + 1
        BY <2>1, <4>1, FS_AddElement
      <4>3. Cardinality(Q) >= MAJORITY /\ \A x \in Q : <<term[n], x, n>> \in ballots
        BY <2>1, <2>2, <2>5, <3>2, <4>2
      <4> DEFINE w == <<term[n], n>>
      <4>4. w[1] = term[n] /\ w[2] = n
        OBVIOUS
      <4> HIDE DEF Q, w
      <4>5. \E R \in SUBSET Server : /\ Cardinality(R) >= MAJORITY
                                     /\ \A x \in R : <<w[1], x, w[2]>> \in ballots
        BY <4>1, <4>3, <4>4
      <4>6. won' = won \cup {w}
        BY <3>2 DEF w
      <4> QED
        BY <2>1, <4>5, <4>6 DEF IInv, WinnersElected
    <3> QED
      BY <1>8, <3>1, <3>2 DEF HandleVote, BecomeLeader
  <2> QED
    BY <2>3, <2>7, <2>8 DEF ElectionInv
<1> QED
  BY <1>5, <1>6, <1>7, <1>8 DEF Handle

-----------------------------------------------------------------------------
(* The theorems. *)

LEMMA InitIInv == Init => IInv
<1> SUFFICES ASSUME Init PROVE IInv
  OBVIOUS
<1>1. TypeOK
  BY InitType
<1>2. NextWithinLog /\ IndexesHeld /\ NotToSelf
  BY DEF Init, NextWithinLog, IndexesHeld, NotToSelf
<1>3. OneVotePerTerm /\ VotesCast /\ WinnersElected
  BY DEF Init, OneVotePerTerm, VotesCast, WinnersElected
<1> QED
  BY <1>1, <1>2, <1>3 DEF IInv

LEMMA StepIInv ==
  ASSUME IInv, Next PROVE IInv'
<1> PICK n \in Server :
      \/ (Timer(n) \/ ClientWrite(n) \/ Kill(n) \/ Revive(n)) /\ UNCHANGED dups
      \/ \E m \in net : Deliver(n, m)
  BY DEF Next
<1>1. CASE (Timer(n) \/ ClientWrite(n) \/ Kill(n) \/ Revive(n)) /\ UNCHANGED dups
  <2>1. TypeOK'
    BY <1>1, TypeTimers, TypeClientWrite, TypeFaults DEF IInv, Timer
  <2>2. IndexesHeld' /\ NotToSelf'
    BY <1>1, <2>1, ProgressLocal, SentLocal, IndexesKept
  <2> QED
    BY <1>1, <2>1, <2>2, NextWithinLocal, ElectionLocal DEF IInv, ElectionInv
<1>2. ASSUME NEW m \in net, Deliver(n, m) PROVE IInv'
  <2>1. PICK rest \in SUBSET net : Handle(n, m, rest) /\ dups' \in Nat
    <3>1. dups \in Nat
      BY DEF IInv, TypeOK
    <3> QED
      BY <1>2, <3>1 DEF Deliver
  <2>2. TypeOK'
    BY <2>1, TypeHandle
  <2>3. IndexesHeld' /\ NotToSelf'
    BY <2>1, <2>2, ProgressHandle, SentHandle, IndexesKept
  <2> QED
    BY <2>1, <2>2, <2>3, NextWithinHandle, ElectionHandle DEF IInv, ElectionInv
<1> QED
  BY <1>1, <1>2

LEMMA Invariance == Spec => []IInv
<1>1. IInv /\ UNCHANGED vars => IInv'
  BY DEF vars, electionVars, ghostVars, logVars, leaderVars, faultVars, timerVars, IInv,
         TypeOK, NextWithinLog, IndexesHeld, SentAsLeader, NotToSelf, OneVotePerTerm,
         VotesCast, WinnersElected
<1> QED
  BY <1>1, InitIInv, StepIInv, PTL DEF Spec

(* Every reachable state has the types RaftState declares. *)
THEOREM TypeCorrect == Spec => []TypeOK
BY Invariance, PTL DEF IInv

(* The leader's index arithmetic never leaves its log. *)
THEOREM IndexesCorrect == Spec => []NextWithinLog
BY Invariance, PTL DEF IInv

(* A server votes once a term, whatever is lost, repeated or reordered. *)
THEOREM VotesCorrect == Spec => []OneVotePerTerm
BY Invariance, PTL DEF IInv

(* Two winners of a term share a voter, which voted once. *)
LEMMA WinnersAgree == IInv => ElectionSafety
<1> SUFFICES ASSUME IInv, NEW a \in won, NEW b \in won, a[1] = b[1] PROVE a[2] = b[2]
  BY DEF ElectionSafety
<1>1. PICK Q \in SUBSET Server : /\ Cardinality(Q) >= MAJORITY
                                 /\ \A v \in Q : <<a[1], v, a[2]>> \in ballots
  BY DEF IInv, WinnersElected
<1>2. PICK R \in SUBSET Server : /\ Cardinality(R) >= MAJORITY
                                 /\ \A v \in R : <<b[1], v, b[2]>> \in ballots
  BY DEF IInv, WinnersElected
<1>3. PICK v \in Q \cap R : TRUE
  BY <1>1, <1>2, MajoritiesMeet
<1> DEFINE x == <<a[1], v, a[2]>>
           y == <<b[1], v, b[2]>>
<1>4. /\ x[1] = a[1] /\ x[2] = v /\ x[3] = a[2]
      /\ y[1] = b[1] /\ y[2] = v /\ y[3] = b[2]
  OBVIOUS
<1>5. x \in ballots /\ y \in ballots
  BY <1>1, <1>2, <1>3
<1> HIDE DEF x, y
<1> QED
  BY <1>4, <1>5 DEF IInv, OneVotePerTerm

(* No server votes twice in a term, and no term is ever won by two.        *)
THEOREM ElectionCorrect == Spec => []ElectionsSound
<1>1. IInv => ElectionsSound
  BY WinnersAgree DEF IInv, ElectionsSound
<1> QED
  BY <1>1, Invariance, PTL

-----------------------------------------------------------------------------
(* HistoryInv is inductive: with the right history it holds at first and   *)
(* after every step of Raft.  Every action advances the history, so        *)
(* HistoryInv always holds of some history; LogSafety, WritesKept and      *)
(* CommittedKept follow.                                                   *)

(* What a history is. *)
Leds   == [Nat -> Seq(Entry)]
Takens == [Server -> [Nat -> Nat]]

(* The types one server's state and history have. *)
LEMMA ServerType ==
  ASSUME TypeOK, NEW s \in Server
  PROVE  /\ role[s] \in {"follower", "candidate", "leader"}
         /\ term[s] \in Nat /\ log[s] \in Seq(Entry) /\ Len(log[s]) \in Nat
         /\ commitIndex[s] \in Nat
<1>1. log[s] \in Seq(Entry)
  BY DEF TypeOK
<1> QED
  BY <1>1 DEF TypeOK

LEMMA ServerTypeNext ==
  ASSUME TypeOK', NEW s \in Server
  PROVE  /\ role'[s] \in {"follower", "candidate", "leader"}
         /\ term'[s] \in Nat /\ log'[s] \in Seq(Entry) /\ Len(log'[s]) \in Nat
         /\ commitIndex'[s] \in Nat
<1>1. log'[s] \in Seq(Entry)
  BY DEF TypeOK
<1> QED
  BY <1>1 DEF TypeOK

LEMMA LedType ==
  ASSUME NEW led \in Leds, NEW t \in Nat PROVE led[t] \in Seq(Entry) /\ Len(led[t]) \in Nat
<1>1. led[t] \in Seq(Entry)
  BY DEF Leds
<1> QED
  BY <1>1

LEMMA TakenType ==
  ASSUME NEW taken \in Takens, NEW s \in Server, NEW t \in Nat PROVE taken[s][t] \in Nat
BY DEF Takens

-----------------------------------------------------------------------------
(* Agreement of two logs. *)

LEMMA AgreeSame ==
  ASSUME NEW a \in Seq(Entry), NEW i \in Nat, i <= Len(a)
  PROVE  Agree(a, a, i)
BY DEF Agree

LEMMA AgreeBack ==
  ASSUME NEW a, NEW b, NEW i, Agree(a, b, i) PROVE Agree(b, a, i)
BY DEF Agree

LEMMA AgreeOn ==
  ASSUME NEW a, NEW b, NEW c, NEW i, Agree(a, b, i), Agree(b, c, i) PROVE Agree(a, c, i)
BY DEF Agree

LEMMA AgreeLess ==
  ASSUME NEW a \in Seq(Entry), NEW b \in Seq(Entry), NEW i \in Nat, NEW j \in Nat,
         j <= i, Agree(a, b, i)
  PROVE  Agree(a, b, j)
<1>1. Len(a) \in Nat /\ Len(b) \in Nat /\ 1..j \subseteq 1..i
  OBVIOUS
<1> QED
  BY <1>1 DEF Agree

(* What agrees with a log agrees with all that the log grows into. *)
LEMMA AgreeGrown ==
  ASSUME NEW a \in Seq(Entry), NEW b \in Seq(Entry), NEW c \in Seq(Entry), NEW i \in Nat,
         Agree(a, b, i), Agree(b, c, Len(b))
  PROVE  Agree(a, c, i)
<1>1. i <= Len(b) /\ Len(b) \in Nat
  BY DEF Agree
<1>2. Agree(b, c, i)
  BY <1>1, AgreeLess
<1> QED
  BY <1>2, AgreeOn

LEMMA AgreeEntry ==
  ASSUME NEW a \in Seq(Entry), NEW b \in Seq(Entry), NEW i \in Nat, Agree(a, b, i),
         NEW j \in 1..i
  PROVE  a[j] = b[j] /\ j \in 1..Len(a) /\ j \in 1..Len(b)
BY DEF Agree

(* Two written logs with entries of one term at one index agree up to it. *)
LEMMA WrittenMatch ==
  ASSUME NEW led \in Leds, NEW a \in Seq(Entry), NEW b \in Seq(Entry), NEW u \in Nat, NEW w \in Nat,
         Written(a, led, u), Written(b, led, w),
         NEW i \in 1..Len(a), i \in 1..Len(b), a[i].term = b[i].term
  PROVE  Agree(a, b, i)
<1>1. Agree(a, led[a[i].term], i) /\ Agree(b, led[a[i].term], i)
  BY DEF Written
<1> QED
  BY <1>1, AgreeBack, AgreeOn

(* What agrees with a written log is written. *)
LEMMA WrittenAgree ==
  ASSUME NEW led \in Leds, NEW a \in Seq(Entry), NEW b \in Seq(Entry), NEW u \in Nat,
         Written(b, led, u), Agree(a, b, Len(a))
  PROVE  Written(a, led, u)
<1> SUFFICES ASSUME NEW i \in 1..Len(a)
             PROVE  a[i].term <= u /\ Agree(a, led[a[i].term], i)
  BY DEF Written
<1>1. a[i] = b[i] /\ i \in 1..Len(b) /\ i \in Nat /\ Len(a) \in Nat /\ i <= Len(a)
  BY AgreeEntry
<1>2. Agree(a, b, i)
  BY <1>1, AgreeLess
<1>3. b[i].term <= u /\ Agree(b, led[b[i].term], i)
  BY <1>1 DEF Written
<1> QED
  BY <1>1, <1>2, <1>3, AgreeOn

-----------------------------------------------------------------------------
(* What Merged makes of a log l that has prev entries: l itself when it    *)
(* holds the entries, else l cut at the first one it does not hold.        *)
Held(l, prev, entries, j) == prev + j <= Len(l) /\ l[prev + j].term = entries[j].term

Cut(l, prev, entries, r, f) ==
  /\ \A j \in 1..(f - 1) : Held(l, prev, entries, j)
  /\ ~Held(l, prev, entries, f)
  /\ Len(r) = prev + Len(entries)
  /\ \A j \in 1..(prev + f - 1) : r[j] = l[j]
  /\ \A j \in f..Len(entries) : r[prev + j] = entries[j]

LEMMA MergedShape ==
  ASSUME NEW l \in Seq(Entry), NEW entries \in Seq(Entry), NEW prev \in Nat, prev <= Len(l)
  PROVE  \/ /\ Merged(l, prev, entries) = l
            /\ \A j \in 1..Len(entries) : Held(l, prev, entries, j)
         \/ \E f \in 1..Len(entries) : Cut(l, prev, entries, Merged(l, prev, entries), f)
<1> DEFINE agree(i) == /\ i <= Len(entries) /\ prev + i <= Len(l)
                       /\ l[prev + i].term = entries[i].term
           conflicts == {i \in 1..Len(entries) : ~agree(i)}
           f == CHOOSE i \in conflicts : \A j \in conflicts : i <= j
<1>1. \A i \in 1..Len(entries) : agree(i) <=> Held(l, prev, entries, i)
  BY DEF Held
<1>2. CASE conflicts = {}
  <2>1. \A i \in 1..Len(entries) : agree(i)
    BY <1>2
  <2> QED
    BY <1>1, <1>2, <2>1 DEF Merged
<1>3. CASE conflicts # {}
  <2>1. conflicts \in SUBSET Nat
    OBVIOUS
  <2>2. \E i \in conflicts : \A j \in conflicts : i <= j
    BY <1>3, <2>1, LeastExists
  <2>3. f \in conflicts /\ \A j \in conflicts : f <= j
    BY <2>2
  <2>4. Merged(l, prev, entries) =
          SubSeq(l, 1, prev + f - 1) \o SubSeq(entries, f, Len(entries))
    BY <1>3 DEF Merged
  <2> HIDE DEF f
  <2>5. f \in 1..Len(entries) /\ ~agree(f)
    BY <2>3
  <2>6. ~Held(l, prev, entries, f)
    BY <1>1, <2>5
  <2>7. ASSUME NEW j \in 1..(f - 1) PROVE Held(l, prev, entries, j)
    <3>1. j \in 1..Len(entries) /\ ~(f <= j)
      BY <2>5
    <3>2. j \notin conflicts
      BY <2>3, <3>1
    <3> QED
      BY <1>1, <3>1, <3>2
  <2> HIDE DEF conflicts, agree
  <2>8. prev + f - 1 <= Len(l)
    <3>1. CASE f = 1
      BY <3>1
    <3>2. CASE f # 1
      <4>1. f - 1 \in 1..(f - 1)
        BY <2>5, <3>2
      <4>2. prev + (f - 1) <= Len(l)
        BY <2>7, <4>1 DEF Held
      <4> QED BY <2>5, <4>2
    <3> QED BY <3>1, <3>2
  <2> DEFINE x == SubSeq(l, 1, prev + f - 1)
             y == SubSeq(entries, f, Len(entries))
  <2>9. /\ x \in Seq(Entry) /\ Len(x) = prev + f - 1
        /\ \A j \in 1..(prev + f - 1) : x[j] = l[j]
    BY <2>5, <2>8
  <2>10. /\ y \in Seq(Entry) /\ Len(y) = Len(entries) - f + 1
         /\ \A j \in 1..(Len(entries) - f + 1) : y[j] = entries[f + j - 1]
    BY <2>5
  <2> DEFINE r == Merged(l, prev, entries)
  <2>11. r = x \o y
    BY <2>4
  <2> HIDE DEF x, y, r
  <2>20. /\ Len(r) = Len(x) + Len(y)
          /\ \A i \in 1..(Len(x) + Len(y)) : r[i] = IF i <= Len(x) THEN x[i] ELSE y[i - Len(x)]
    BY <2>9, <2>10, <2>11, ConcatProperties
  <2>12. Len(r) = prev + Len(entries)
    BY <2>5, <2>9, <2>10, <2>20
  <2>13. ASSUME NEW j \in 1..(prev + f - 1) PROVE r[j] = l[j]
    <3>1. j \in 1..(Len(x) + Len(y)) /\ j <= Len(x)
      BY <2>5, <2>9, <2>10
    <3> QED
      BY <2>9, <2>20, <3>1
  <2>14. ASSUME NEW j \in f..Len(entries) PROVE r[prev + j] = entries[j]
    <3>1. /\ prev + j \in 1..(Len(x) + Len(y)) /\ ~(prev + j <= Len(x))
          /\ prev + j - Len(x) = j - f + 1
      BY <2>5, <2>9, <2>10
    <3>2. r[prev + j] = y[j - f + 1]
      BY <2>20, <3>1
    <3>3. j - f + 1 \in 1..(Len(entries) - f + 1) /\ f + (j - f + 1) - 1 = j
      BY <2>5
    <3> QED
      BY <2>10, <3>2, <3>3
  <2>15. Cut(l, prev, entries, r, f)
    BY <2>6, <2>7, <2>12, <2>13, <2>14 DEF Cut
  <2> QED
    BY <2>5, <2>15 DEF r
<1> QED
  BY <1>2, <1>3

(* An append carries a stretch of the log tl of its leader. *)
Carries(tl, prev, entries) ==
  /\ prev + Len(entries) <= Len(tl)
  /\ \A j \in 1..Len(entries) : entries[j] = tl[prev + j]

(* What a log shares with the leader's is not cut. *)
LEMMA MergedKeeps ==
  ASSUME NEW l \in Seq(Entry), NEW entries \in Seq(Entry), NEW prev \in Nat, prev <= Len(l),
         NEW tl \in Seq(Entry), Carries(tl, prev, entries),
         NEW b \in Seq(Entry), NEW c \in Nat, Agree(l, b, c), Agree(tl, b, c)
  PROVE  Agree(Merged(l, prev, entries), b, c)
<1> DEFINE r == Merged(l, prev, entries)
<1> HIDE DEF r
<1>1. CASE r = l
  BY <1>1 DEF r
<1>2. ASSUME NEW f \in 1..Len(entries), Cut(l, prev, entries, r, f)
      PROVE  Agree(r, b, c)
  <2>1. Len(l) \in Nat /\ Len(entries) \in Nat /\ Len(tl) \in Nat /\ Len(b) \in Nat
    OBVIOUS
  <2>2. c <= prev + f - 1
    <3> SUFFICES ASSUME prev + f <= c PROVE FALSE
      BY <2>1
    <3>1. prev + f \in 1..c
      BY <2>1
    <3>2. l[prev + f] = tl[prev + f] /\ prev + f <= Len(l)
      BY <2>1, <3>1 DEF Agree
    <3>3. entries[f] = tl[prev + f]
      BY DEF Carries
    <3> QED
      BY <1>2, <3>2, <3>3 DEF Cut, Held
  <2>3. c <= Len(r) /\ c <= Len(b)
    BY <1>2, <2>1, <2>2 DEF Cut, Agree
  <2>4. ASSUME NEW j \in 1..c PROVE r[j] = b[j]
    <3>1. j \in 1..(prev + f - 1)
      BY <2>1, <2>2
    <3> QED
      BY <1>2, <3>1 DEF Cut, Agree
  <2> QED
    BY <2>3, <2>4 DEF Agree
<1>3. r = l \/ \E f \in 1..Len(entries) : Cut(l, prev, entries, r, f)
  BY MergedShape DEF r
<1> QED
  BY <1>1, <1>2, <1>3 DEF r

(* What the append carried is there, and all that is before it. *)
LEMMA MergedTakes ==
  ASSUME NEW led \in Leds, NEW u \in Nat, NEW t \in Nat,
         NEW l \in Seq(Entry), NEW entries \in Seq(Entry), NEW prev \in Nat, prev <= Len(l),
         NEW tl \in Seq(Entry), Carries(tl, prev, entries),
         Written(l, led, u), Written(tl, led, t),
         prev > 0 => l[prev].term = tl[prev].term
  PROVE  Agree(Merged(l, prev, entries), tl, prev + Len(entries))
<1> DEFINE r == Merged(l, prev, entries)
<1> HIDE DEF r
<1>0. Len(l) \in Nat /\ Len(entries) \in Nat /\ Len(tl) \in Nat /\ prev + Len(entries) <= Len(tl)
  BY DEF Carries
<1>1. Agree(l, tl, prev)
  <2>1. CASE prev = 0
    BY <1>0, <2>1 DEF Agree
  <2>2. CASE prev > 0
    <3>1. prev \in 1..Len(l) /\ prev \in 1..Len(tl)
      BY <1>0, <2>2
    <3> QED
      BY <2>2, <3>1, WrittenMatch
  <2> QED BY <2>1, <2>2
<1>2. ASSUME NEW j \in 1..Len(entries), Held(l, prev, entries, j) PROVE Agree(l, tl, prev + j)
  <2>1. prev + j \in 1..Len(l) /\ prev + j \in 1..Len(tl)
    BY <1>0, <1>2 DEF Held
  <2>2. l[prev + j].term = tl[prev + j].term
    BY <1>2 DEF Held, Carries
  <2> QED
    BY <2>1, <2>2, WrittenMatch
<1>3. CASE r = l /\ \A j \in 1..Len(entries) : Held(l, prev, entries, j)
  <2>1. CASE Len(entries) = 0
    BY <1>0, <1>1, <1>3, <2>1 DEF r
  <2>2. CASE Len(entries) # 0
    <3>1. Len(entries) \in 1..Len(entries)
      BY <1>0, <2>2
    <3> QED
      BY <1>2, <1>3, <3>1 DEF r
  <2> QED BY <2>1, <2>2
<1>4. ASSUME NEW f \in 1..Len(entries), Cut(l, prev, entries, r, f)
      PROVE  Agree(r, tl, prev + Len(entries))
  <2>1. Agree(l, tl, prev + f - 1)
    <3>1. CASE f = 1
      BY <1>1, <3>1
    <3>2. CASE f # 1
      <4>1. f - 1 \in 1..(f - 1) /\ f - 1 \in 1..Len(entries) /\ prev + (f - 1) = prev + f - 1
        BY <1>0, <3>2
      <4>2. Held(l, prev, entries, f - 1)
        BY <1>4, <4>1 DEF Cut
      <4> QED
        BY <1>2, <4>1, <4>2
    <3> QED BY <3>1, <3>2
  <2>2. Len(r) = prev + Len(entries)
    BY <1>4 DEF Cut
  <2>3. ASSUME NEW j \in 1..(prev + Len(entries)) PROVE r[j] = tl[j]
    <3>1. CASE j <= prev + f - 1
      <4>1. j \in 1..(prev + f - 1)
        BY <1>0, <3>1
      <4> QED
        BY <1>4, <2>1, <4>1 DEF Cut, Agree
    <3>2. CASE ~(j <= prev + f - 1)
      <4>1. j - prev \in f..Len(entries) /\ prev + (j - prev) = j /\ j - prev \in 1..Len(entries)
        BY <1>0, <3>2
      <4>2. r[prev + (j - prev)] = entries[j - prev]
        BY <1>4, <4>1 DEF Cut
      <4>3. entries[j - prev] = tl[prev + (j - prev)]
        BY <4>1 DEF Carries
      <4> QED
        BY <4>1, <4>2, <4>3
    <3> QED BY <3>1, <3>2
  <2> QED
    BY <1>0, <2>2, <2>3 DEF Agree
<1>5. \/ r = l /\ \A j \in 1..Len(entries) : Held(l, prev, entries, j)
      \/ \E f \in 1..Len(entries) : Cut(l, prev, entries, r, f)
  BY MergedShape DEF r
<1> QED
  BY <1>3, <1>4, <1>5 DEF r

(* The log is the old one, or the leader's as far as the append went. *)
LEMMA MergedEither ==
  ASSUME NEW led \in Leds, NEW u \in Nat, NEW t \in Nat,
         NEW l \in Seq(Entry), NEW entries \in Seq(Entry), NEW prev \in Nat, prev <= Len(l),
         NEW tl \in Seq(Entry), Carries(tl, prev, entries),
         Written(l, led, u), Written(tl, led, t),
         prev > 0 => l[prev].term = tl[prev].term
  PROVE  LET r == Merged(l, prev, entries) IN
         r = l \/ Agree(r, tl, Len(r))
<1> DEFINE r == Merged(l, prev, entries)
<1>1. Agree(r, tl, prev + Len(entries))
  BY MergedTakes
<1>2. r = l \/ \E f \in 1..Len(entries) : Cut(l, prev, entries, r, f)
  BY MergedShape
<1> HIDE DEF r
<1>3. r = l \/ Len(r) = prev + Len(entries)
  BY <1>2 DEF Cut
<1> QED
  BY <1>1, <1>3 DEF r

-----------------------------------------------------------------------------
(* How history goes on in a step: the logs of leaders grow, and a server   *)
(* takes more only from the leader of its term.                            *)
Grows(led, led2) == \A t \in Nat : Agree(led[t], led2[t], Len(led[t]))

TakesMore(taken, taken2) ==
  \A s \in Server, t \in Nat :
    /\ taken[s][t] <= taken2[s][t]
    /\ taken2[s][t] # taken[s][t] => term'[s] = t

Onward == won \subseteq won' /\ \A s \in Server : term[s] <= term'[s]

LEMMA GrowsSame == ASSUME NEW led \in Leds PROVE Grows(led, led)
<1>1. ASSUME NEW t \in Nat PROVE Agree(led[t], led[t], Len(led[t]))
  <2>1. led[t] \in Seq(Entry)
    BY DEF Leds
  <2> QED BY <2>1, AgreeSame
<1> QED
  BY <1>1 DEF Grows

LEMMA TakesSame == ASSUME NEW taken \in Takens, TypeOK PROVE TakesMore(taken, taken)
BY DEF TakesMore, Takens

LEMMA WonStays ==
  ASSUME NEW t, Onward, Won(t) PROVE Won(t)'
BY DEF Won, Onward

LEMMA WrittenStays ==
  ASSUME NEW led \in Leds, NEW led2 \in Leds, Grows(led, led2),
         NEW l \in Seq(Entry), NEW u \in Nat, NEW w \in Nat, u <= w, Written(l, led, u)
  PROVE  Written(l, led2, w)
<1> SUFFICES ASSUME NEW i \in 1..Len(l)
             PROVE  l[i].term <= w /\ Agree(l, led2[l[i].term], i)
  BY DEF Written
<1>1. l[i].term \in Nat
  BY EntryType
<1> DEFINE t == l[i].term
<1>2. t <= u /\ Agree(l, led[t], i)
  BY DEF Written
<1>3. led[t] \in Seq(Entry) /\ led2[t] \in Seq(Entry) /\ Agree(led[t], led2[t], Len(led[t]))
  BY <1>1 DEF Leds, Grows
<1> HIDE DEF t
<1>4. Agree(l, led2[t], i)
  BY <1>2, <1>3, AgreeGrown
<1>5. t <= w
  BY <1>1, <1>2 DEF t
<1> QED
  BY <1>4, <1>5 DEF t

(* Entries come from winners. *)
LEMMA WrittenWon ==
  ASSUME NEW led \in Leds, LogsWritten(led), NEW l \in Seq(Entry), NEW u \in Nat,
         Written(l, led, u), NEW i \in 1..Len(l)
  PROVE  l[i].term \in Nat /\ Won(l[i].term)
<1> DEFINE t == l[i].term
<1>1. t \in Nat
  BY EntryType
<1>2. Agree(l, led[t], i) /\ led[t] \in Seq(Entry)
  BY <1>1 DEF Written, Leds
<1>3. Len(led[t]) # 0
  BY <1>2 DEF Agree
<1>4. led[t] # <<>>
  BY <1>3
<1>5. Won(t)
  BY <1>1, <1>4 DEF LogsWritten, Leds
<1> QED
  BY <1>1, <1>5

LEMMA ChosenStays ==
  ASSUME NEW taken \in Takens, NEW taken2 \in Takens, TakesMore(taken, taken2),
         NEW t \in Nat, NEW i \in Nat, Chosen(taken, t, i)
  PROVE  Chosen(taken2, t, i)
<1>1. PICK Q \in SUBSET Server : Cardinality(Q) >= MAJORITY /\ \A s \in Q : taken[s][t] >= i
  BY DEF Chosen
<1>2. ASSUME NEW s \in Q PROVE taken2[s][t] >= i
  <2>1. taken[s][t] \in Nat /\ taken2[s][t] \in Nat /\ taken[s][t] <= taken2[s][t] /\ taken[s][t] >= i
    BY <1>1 DEF Takens, TakesMore
  <2> QED BY <2>1
<1> QED
  BY <1>1, <1>2 DEF Chosen

LEMMA ChosenChoosable ==
  ASSUME NEW taken, NEW t, NEW i, Chosen(taken, t, i)
  PROVE  Choosable(taken, t, i)
BY DEF Chosen, Choosable

LEMMA ChoosableBefore ==
  ASSUME TypeOK, TypeOK', NEW taken \in Takens, NEW taken2 \in Takens,
         TakesMore(taken, taken2), Onward,
         NEW t \in Nat, NEW i \in Nat, Choosable(taken2, t, i)'
  PROVE  Choosable(taken, t, i)
<1>1. PICK Q \in SUBSET Server :
        Cardinality(Q) >= MAJORITY /\ \A s \in Q : taken2[s][t] >= i \/ term'[s] <= t
  BY DEF Choosable
<1>2. ASSUME NEW s \in Q PROVE taken[s][t] >= i \/ term[s] <= t
  <2>1. /\ taken[s][t] \in Nat /\ taken2[s][t] \in Nat
        /\ taken2[s][t] # taken[s][t] => term'[s] = t
        /\ taken2[s][t] >= i \/ term'[s] <= t
        /\ term[s] <= term'[s]
    BY <1>1 DEF Takens, TakesMore, Onward
  <2>2. term[s] \in Nat /\ term'[s] \in Nat
    BY DEF TypeOK
  <2> QED BY <2>1, <2>2
<1> QED
  BY <1>1, <1>2 DEF Choosable

LEMMA MayCommitBefore ==
  ASSUME TypeOK, TypeOK', NEW led \in Leds, NEW led2 \in Leds, Grows(led, led2),
         NEW taken \in Takens, NEW taken2 \in Takens, TakesMore(taken, taken2), Onward,
         NEW t \in Nat, NEW i \in 1..Len(led[t]), MayCommit(led2, taken2, t, i)'
  PROVE  MayCommit(led, taken, t, i)
<1>1. led[t] \in Seq(Entry) /\ led2[t] \in Seq(Entry) /\ i \in Nat
  BY DEF Leds
<1>2. led[t][i] = led2[t][i]
  BY <1>1 DEF Grows, Agree
<1>3. Choosable(taken, t, i)
  BY <1>1, ChoosableBefore DEF MayCommit
<1>4. led2[t][i].term = t
  BY DEF MayCommit
<1> QED
  BY <1>2, <1>3, <1>4 DEF MayCommit

LEMMA DecidedStays ==
  ASSUME NEW led \in Leds, NEW led2 \in Leds, Grows(led, led2),
         NEW taken \in Takens, NEW taken2 \in Takens, TakesMore(taken, taken2),
         NEW l \in Seq(Entry), NEW l2 \in Seq(Entry), NEW u \in Nat, NEW w \in Nat, u <= w,
         NEW c \in Nat, Decided(led, taken, l, u, c), Agree(l, l2, c)
  PROVE  Decided(led2, taken2, l2, w, c)
<1>1. CASE c = 0
  BY <1>1 DEF Decided
<1>2. ASSUME NEW t \in Nat, NEW i \in 1..Len(led[t]), t <= u, c <= i,
             led[t][i].term = t, Chosen(taken, t, i), Agree(l, led[t], c)
      PROVE  Decided(led2, taken2, l2, w, c)
  <2>1. led[t] \in Seq(Entry) /\ led2[t] \in Seq(Entry) /\ Agree(led[t], led2[t], Len(led[t]))
    BY DEF Leds, Grows
  <2>2. i \in 1..Len(led2[t]) /\ led2[t][i] = led[t][i]
    BY <2>1 DEF Agree
  <2>3. Chosen(taken2, t, i)
    BY <1>2, ChosenStays
  <2>4. Agree(l2, led2[t], c)
    BY <1>2, <2>1, AgreeBack, AgreeOn, AgreeGrown
  <2>5. t <= w /\ t \in DOMAIN led2
    BY <1>2 DEF Leds
  <2> QED
    BY <1>2, <2>2, <2>3, <2>4, <2>5 DEF Decided
<1>3. DOMAIN led = Nat
  BY DEF Leds
<1> QED
  BY <1>1, <1>2, <1>3 DEF Decided

-----------------------------------------------------------------------------
(* What the invariant tells of one state. *)

(* A log that ends no earlier than an entry that may commit holds it. *)
LEMMA UpToKeeps ==
  ASSUME NEW led \in Leds, NEW taken \in Takens, LogsWritten(led), LeadersKeep(led, taken),
         NEW l \in Seq(Entry), NEW u \in Nat, Written(l, led, u),
         NEW t \in Nat, NEW i \in 1..Len(led[t]), MayCommit(led, taken, t, i),
         UpTo(LastTerm(l), Len(l), t, i)
  PROVE  Agree(l, led[t], i)
<1> DEFINE k == Len(l)
           w == LastTerm(l)
<1>0. led[t] \in Seq(Entry) /\ Len(led[t]) \in Nat
  BY DEF Leds
<1>1. led[t] \in Seq(Entry) /\ i \in Nat /\ i # 0 /\ k \in Nat
  BY <1>0
<1>2. k # 0
  BY <1>1 DEF UpTo, LastTerm
<1>3. k \in 1..Len(l) /\ w = l[k].term /\ w \in Nat
  BY <1>1, <1>2, EntryType DEF LastTerm
<1>4. Won(w) /\ Agree(l, led[w], k) /\ led[w] \in Seq(Entry)
  BY <1>3, WrittenWon DEF Written, Leds
<1> HIDE DEF k, w
<1>5. CASE w = t
  <2>1. k >= i
    BY <1>5, <1>1, <1>3 DEF UpTo, k, w
  <2> QED
    BY <1>1, <1>4, <1>5, <2>1, AgreeLess
<1>6. CASE w > t
  <2>1. Agree(led[w], led[t], i)
    BY <1>3, <1>4, <1>6 DEF LeadersKeep, Leds
  <2>2. k >= i
    <3> SUFFICES ASSUME k < i PROVE FALSE
      BY <1>1
    <3>1. k \in 1..i
      BY <1>1, <1>3
    <3>2. l[k] = led[w][k] /\ led[w][k] = led[t][k] /\ k \in 1..Len(led[t])
      BY <1>3, <1>4, <2>1, <3>1 DEF Agree, k
    <3>3. led[t][k].term <= t
      BY <3>2 DEF LogsWritten, Written, Leds
    <3> QED
      BY <1>3, <1>6, <3>2, <3>3
  <2>3. Agree(l, led[w], i)
    BY <1>1, <1>4, <2>2, AgreeLess
  <2> QED
    BY <2>1, <2>3, AgreeOn
<1>7. w = t \/ w > t
  BY <1>3 DEF UpTo, k, w
<1> QED
  BY <1>5, <1>6, <1>7

(* A log that holds an entry ends no earlier. *)
LEMMA HoldsUpTo ==
  ASSUME NEW led \in Leds, LogsWritten(led),
         NEW l \in Seq(Entry), NEW u \in Nat, Written(l, led, u),
         NEW t \in Nat, NEW i \in 1..Len(led[t]), led[t][i].term = t, Agree(l, led[t], i)
  PROVE  UpTo(LastTerm(l), Len(l), t, i)
<1> DEFINE k == Len(l)
           w == LastTerm(l)
<1>0. led[t] \in Seq(Entry) /\ Len(led[t]) \in Nat
  BY DEF Leds
<1>1. led[t] \in Seq(Entry) /\ i \in Nat /\ i # 0 /\ k \in Nat /\ i <= k
  BY <1>0 DEF Agree
<1>2. k \in 1..Len(l) /\ w = l[k].term /\ w \in Nat
  BY <1>1, EntryType DEF LastTerm
<1>3. Agree(l, led[w], k)
  BY <1>2 DEF Written
<1>4. i \in 1..k /\ i \in 1..i
  BY <1>1
<1>5. l[i] = led[w][i] /\ i \in 1..Len(led[w]) /\ l[i] = led[t][i]
  BY <1>1, <1>3, <1>4 DEF Agree
<1>6. led[w][i].term <= w
  BY <1>2, <1>5 DEF LogsWritten, Written, Leds
<1>7. t <= w
  BY <1>5, <1>6
<1> QED
  BY <1>1, <1>2, <1>7 DEF UpTo

-----------------------------------------------------------------------------
(* What every step of Raft makes of history.  A server that stands did not *)
(* change its log in the step; ...                                         *)
CandidatesStay ==
  \A s \in Server : term'[s] = term[s] /\ role'[s] = "candidate" =>
    role[s] = "candidate" /\ log'[s] = log[s]

(* ... a log that changes stays written, and keeps what may commit; ...    *)
LogNext(led, taken, led2, taken2, s) ==
  \/ log'[s] = log[s] /\ taken2[s] = taken[s]
  \/ /\ Written(log'[s], led2, term'[s])
     /\ Agree(log'[s], led2[term'[s]], taken2[s][term'[s]])
     /\ \A t \in Nat : \A i \in 1..taken[s][t] :
          MayCommit(led, taken, t, i) => Agree(log'[s], led[t], i)

LedNext(led, led2, t) == led2[t] = led[t] \/ (Won(t)' /\ Written(led2[t], led2, t))

(* ... who wins starts with what may commit; ...                           *)
WonNext(led, taken, led2, w) ==
  \/ w \in won
  \/ /\ w[1] = term'[w[2]] /\ role'[w[2]] = "leader"
     /\ \A t \in Nat : \A i \in 1..Len(led[t]) :
          t < w[1] /\ MayCommit(led, taken, t, i) => Agree(led2[w[1]], led[t], i)
     /\ \A t \in Nat : t < w[1] => led2[t] = led[t]

LeaderNext(led, taken, led2, taken2, s) ==
  \/ /\ role[s] = "leader" /\ term'[s] = term[s] /\ log'[s] = log[s] /\ match'[s] = match[s]
     /\ led2[term[s]] = led[term[s]] /\ taken2[s] = taken[s]
  \/ /\ <<term'[s], s>> \in won' /\ led2[term'[s]] = log'[s]
     /\ taken2[s][term'[s]] = Len(log'[s])
     /\ \A p \in Peers(s) : match'[s][p] <= taken2[p][term'[s]]

(* ... and what commits was chosen.                                        *)
CommitNext(led2, taken2, s) ==
  /\ commitIndex[s] <= commitIndex'[s]
  /\ Agree(log[s], log'[s], commitIndex[s])
  /\ \/ commitIndex'[s] = commitIndex[s]
     \/ Decided(led2, taken2, log'[s], term'[s], commitIndex'[s])

Advance(led, taken, led2, taken2) ==
  /\ Onward /\ Grows(led, led2) /\ TakesMore(taken, taken2) /\ CandidatesStay
  /\ \A s \in Server : LogNext(led, taken, led2, taken2, s)
  /\ \A t \in Nat : LedNext(led, led2, t)
  /\ \A w \in won' : WonNext(led, taken, led2, w)
  /\ \A s \in Server : role'[s] = "leader" => LeaderNext(led, taken, led2, taken2, s)
  /\ \A m \in net' : m \in net \/ MessageSound(led2, taken2, m)'
  /\ \A b \in ballots' : b \in ballots \/ VoterSound(led2, taken2, b)'
  /\ \A s \in Server : CommitNext(led2, taken2, s)

-----------------------------------------------------------------------------
(* Whatever advances history keeps the invariant: one lemma per conjunct.  *)

LEMMA LogsWrittenNext ==
  ASSUME TypeOK, TypeOK', NEW led \in Leds, NEW led2 \in Leds, NEW taken \in Takens,
         NEW taken2 \in Takens, LogsWritten(led), Advance(led, taken, led2, taken2)
  PROVE  LogsWritten(led2)'
<1>0. Onward /\ Grows(led, led2) /\ DOMAIN led = Nat /\ DOMAIN led2 = Nat
  BY DEF Advance, Leds
<1>1. ASSUME NEW s \in Server PROVE Written(log'[s], led2, term'[s])
  <2>1. /\ log[s] \in Seq(Entry) /\ term[s] \in Nat /\ term'[s] \in Nat /\ term[s] <= term'[s]
        /\ Written(log[s], led, term[s])
    BY <1>0 DEF TypeOK, LogsWritten, Onward
  <2>2. Written(log[s], led2, term'[s])
    BY <1>0, <2>1, WrittenStays
  <2>3. LogNext(led, taken, led2, taken2, s)
    BY DEF Advance
  <2> QED
    BY <2>2, <2>3 DEF LogNext
<1>2. ASSUME NEW t \in Nat PROVE Written(led2[t], led2, t) /\ (led2[t] # <<>> => Won(t)')
  <2>1. led[t] \in Seq(Entry) /\ Written(led[t], led, t) /\ (led[t] # <<>> => Won(t))
    BY <1>0 DEF LogsWritten, Leds
  <2>2. Written(led[t], led2, t) /\ (led[t] # <<>> => Won(t)')
    BY <1>0, <2>1, WrittenStays, WonStays
  <2>3. LedNext(led, led2, t)
    BY DEF Advance
  <2> QED
    BY <2>2, <2>3 DEF LedNext
<1> QED
  BY <1>0, <1>1, <1>2 DEF LogsWritten

LEMMA TakenHeldNext ==
  ASSUME TypeOK, TypeOK', NEW led \in Leds, NEW led2 \in Leds, NEW taken \in Takens,
         NEW taken2 \in Takens, TakenHeld(led, taken), Advance(led, taken, led2, taken2)
  PROVE  TakenHeld(led2, taken2)'
<1>0. Onward /\ Grows(led, led2) /\ TakesMore(taken, taken2) /\ DOMAIN led = Nat /\ DOMAIN led2 = Nat
  BY DEF Advance, Leds
<1>1. ASSUME NEW s \in Server, NEW t \in Nat
      PROVE  /\ taken2[s][t] <= Len(led2[t])
             /\ term'[s] < t => taken2[s][t] = 0
             /\ term'[s] = t => Agree(log'[s], led2[t], taken2[s][t])
  <2>1. /\ log[s] \in Seq(Entry) /\ log'[s] \in Seq(Entry) /\ term[s] \in Nat /\ term'[s] \in Nat
        /\ term[s] <= term'[s]
    BY <1>0 DEF TypeOK, Onward
  <2>2. /\ led[t] \in Seq(Entry) /\ led2[t] \in Seq(Entry) /\ Agree(led[t], led2[t], Len(led[t]))
        /\ taken[s][t] \in Nat /\ taken2[s][t] \in Nat
    BY <1>0 DEF Leds, Takens, Grows
  <2>3. /\ taken[s][t] <= Len(led[t])
        /\ term[s] < t => taken[s][t] = 0
        /\ term[s] = t => Agree(log[s], led[t], taken[s][t])
    BY <1>0 DEF TakenHeld
  <2>4. Len(led[t]) \in Nat /\ Len(led2[t]) \in Nat /\ Len(led[t]) <= Len(led2[t])
    BY <2>2 DEF Agree
  <2>5. taken2[s][t] # taken[s][t] => term'[s] = t
    BY <1>0 DEF TakesMore
  <2>6. LogNext(led, taken, led2, taken2, s)
    BY DEF Advance
  <2>7. CASE Agree(log'[s], led2[term'[s]], taken2[s][term'[s]])
    <3>1. term'[s] = t => taken2[s][t] <= Len(led2[t])
      BY <2>7 DEF Agree
    <3> QED
      BY <2>1, <2>2, <2>3, <2>4, <2>5, <2>7, <3>1
  <2>8. CASE log'[s] = log[s] /\ taken2[s] = taken[s]
    <3>1. term[s] = t => Agree(log[s], led2[t], taken[s][t])
      BY <2>1, <2>2, <2>3, AgreeGrown
    <3>2. term[s] < t => Agree(log[s], led2[t], taken[s][t])
      BY <2>1, <2>2, <2>3 DEF Agree
    <3> QED
      BY <2>1, <2>2, <2>3, <2>4, <2>8, <3>1, <3>2
  <2> QED
    BY <2>6, <2>7, <2>8 DEF LogNext
<1> QED
  BY <1>0, <1>1 DEF TakenHeld

LEMMA LeadersLeadNext ==
  ASSUME TypeOK, TypeOK', NEW led \in Leds, NEW led2 \in Leds, NEW taken \in Takens,
         NEW taken2 \in Takens, LeadersLead(led, taken), Advance(led, taken, led2, taken2)
  PROVE  LeadersLead(led2, taken2)'
<1>0. Onward /\ TakesMore(taken, taken2) /\ CandidatesStay
  BY DEF Advance
<1>1. ASSUME NEW w \in won'
      PROVE  w[1] <= term'[w[2]] /\ (w[1] = term'[w[2]] => role'[w[2]] # "candidate")
  <2>1. WonNext(led, taken, led2, w)
    BY DEF Advance
  <2>2. w \in Nat \X Server
    BY DEF TypeOK
  <2>3. w[1] \in Nat /\ w[2] \in Server /\ term[w[2]] \in Nat /\ term'[w[2]] \in Nat
    BY <2>2 DEF TypeOK
  <2>4. CASE w \in won
    <3>1. w[1] <= term[w[2]] /\ (w[1] = term[w[2]] => role[w[2]] # "candidate")
      BY <2>4 DEF LeadersLead
    <3>2. term[w[2]] <= term'[w[2]]
      BY <1>0, <2>3 DEF Onward
    <3>3. w[1] = term'[w[2]] => term'[w[2]] = term[w[2]] /\ w[1] = term[w[2]]
      BY <2>3, <3>1, <3>2
    <3> QED
      BY <1>0, <2>3, <3>1, <3>2, <3>3 DEF CandidatesStay
  <2>5. CASE w[1] = term'[w[2]] /\ role'[w[2]] = "leader"
    BY <2>3, <2>5
  <2> QED
    BY <2>1, <2>4, <2>5 DEF WonNext
<1>2. ASSUME NEW s \in Server, role'[s] = "leader"
      PROVE  /\ <<term'[s], s>> \in won' /\ led2[term'[s]] = log'[s]
             /\ taken2[s][term'[s]] = Len(log'[s])
             /\ \A p \in Peers(s) : match'[s][p] <= taken2[p][term'[s]]
  <2>1. LeaderNext(led, taken, led2, taken2, s)
    BY <1>2 DEF Advance
  <2>2. CASE /\ role[s] = "leader" /\ term'[s] = term[s] /\ log'[s] = log[s]
             /\ match'[s] = match[s]
             /\ led2[term[s]] = led[term[s]] /\ taken2[s] = taken[s]
    <3>1. /\ <<term[s], s>> \in won /\ led[term[s]] = log[s]
          /\ taken[s][term[s]] = Len(log[s])
          /\ \A p \in Peers(s) : match[s][p] <= taken[p][term[s]]
      BY <2>2 DEF LeadersLead
    <3>2. won \subseteq won'
      BY <1>0 DEF Onward
    <3>3. ASSUME NEW p \in Peers(s) PROVE match'[s][p] <= taken2[p][term'[s]]
      <4>1. p \in Server /\ term[s] \in Nat
        BY DEF Peers, TypeOK
      <4>2. taken[p][term[s]] <= taken2[p][term[s]]
        BY <1>0, <4>1 DEF TakesMore
      <4>3. match[s][p] \in Nat
        BY <4>1 DEF TypeOK
      <4>4. taken[p][term[s]] \in Nat /\ taken2[p][term[s]] \in Nat
        BY <4>1 DEF Takens
      <4> QED
        BY <2>2, <3>1, <4>2, <4>3, <4>4
    <3> QED
      BY <2>2, <3>1, <3>2, <3>3
  <2> QED
    BY <2>1, <2>2 DEF LeaderNext
<1> QED
  BY <1>1, <1>2 DEF LeadersLead

LEMMA MessageStays ==
  ASSUME TypeOK, TypeOK', NEW led \in Leds, NEW led2 \in Leds, NEW taken \in Takens,
         NEW taken2 \in Takens, Advance(led, taken, led2, taken2),
         NEW m \in net, MessageSound(led, taken, m)
  PROVE  MessageSound(led2, taken2, m)'
<1>0. Onward /\ Grows(led, led2) /\ TakesMore(taken, taken2) /\ CandidatesStay
  BY DEF Advance
<1>1. m \in Messages
  BY DEF TypeOK
<1>2. m.from \in Server /\ m.term \in Nat
  BY <1>1, MessageType
<1>3. ASSUME m.kind = "append" PROVE AppendSound(led2, taken2, m)'
  <2> DEFINE l == led[m.term]
             l2 == led2[m.term]
  <2>1. l \in Seq(Entry) /\ l2 \in Seq(Entry) /\ Agree(l, l2, Len(l))
    BY <1>0, <1>2 DEF Leds, Grows
  <2>2. /\ m.prevIndex \in Nat /\ m.entries \in Seq(Entry) /\ m.leaderCommit \in Nat
        /\ Len(m.entries) \in Nat /\ Len(l) \in Nat /\ Len(l2) \in Nat
    BY <1>1, <1>3, <2>1, MessageType
  <2>3. /\ Won(m.term) /\ m.prevIndex + Len(m.entries) <= Len(l)
        /\ \A j \in 1..Len(m.entries) : m.entries[j] = l[m.prevIndex + j]
        /\ m.prevIndex > 0 => m.prevTerm = l[m.prevIndex].term
        /\ m.leaderCommit <= m.prevIndex + Len(m.entries)
        /\ Decided(led, taken, l, m.term, m.leaderCommit)
    BY <1>3 DEF MessageSound, AppendSound
  <2> HIDE DEF l, l2
  <2>4. \A j \in 1..Len(l) : l[j] = l2[j]
    BY <2>1 DEF Agree
  <2>5. Len(l) <= Len(l2)
    BY <2>1 DEF Agree
  <2>6. m.prevIndex + Len(m.entries) <= Len(l2)
    BY <2>2, <2>3, <2>5
  <2>7. ASSUME NEW j \in 1..Len(m.entries) PROVE m.entries[j] = l2[m.prevIndex + j]
    <3>1. m.prevIndex + j \in 1..Len(l)
      BY <2>2, <2>3
    <3> QED
      BY <2>3, <2>4, <3>1
  <2>8. m.prevIndex > 0 => m.prevTerm = l2[m.prevIndex].term
    <3>1. m.prevIndex > 0 => m.prevIndex \in 1..Len(l)
      BY <2>2, <2>3
    <3> QED
      BY <2>3, <2>4, <3>1
  <2>9. Agree(l, l2, m.leaderCommit)
    <3>1. m.leaderCommit <= Len(l)
      BY <2>2, <2>3
    <3> QED
      BY <2>1, <2>2, <3>1, AgreeLess
  <2>10. Decided(led2, taken2, l2, m.term, m.leaderCommit)
    <3>1. m.term <= m.term
      BY <1>2
    <3> QED
      BY <1>0, <1>2, <2>1, <2>2, <2>3, <2>9, <3>1, DecidedStays
  <2>11. Won(m.term)'
    BY <1>0, <2>3, WonStays
  <2> QED
    BY <2>3, <2>6, <2>7, <2>8, <2>10, <2>11 DEF AppendSound, l2
<1>4. ASSUME m.kind = "append-resp", m.ok PROVE m.matchIndex <= taken2[m.from][m.term]
  <2>1. m.matchIndex \in Nat
    BY <1>1, <1>4, MessageType
  <2>2. m.matchIndex <= taken[m.from][m.term]
    BY <1>4 DEF MessageSound
  <2>3. /\ taken[m.from][m.term] <= taken2[m.from][m.term]
        /\ taken[m.from][m.term] \in Nat /\ taken2[m.from][m.term] \in Nat
    BY <1>0, <1>2 DEF TakesMore, Takens
  <2> QED
    BY <2>1, <2>2, <2>3
<1>5. ASSUME m.kind = "req-vote" PROVE RequestSound(m)'
  <2>1. /\ m.term <= term[m.from]
        /\ m.term = term[m.from] /\ role[m.from] = "candidate" =>
             m.lastLogIndex = Len(log[m.from]) /\ m.lastLogTerm = LastTerm(log[m.from])
    BY <1>5 DEF MessageSound, RequestSound
  <2>2. term[m.from] \in Nat /\ term'[m.from] \in Nat /\ term[m.from] <= term'[m.from]
    BY <1>0, <1>2 DEF TypeOK, Onward
  <2>3. m.term <= term'[m.from]
    BY <1>2, <2>1, <2>2
  <2>4. m.term = term'[m.from] => term'[m.from] = term[m.from] /\ m.term = term[m.from]
    BY <1>2, <2>1, <2>2
  <2>5. m.term = term'[m.from] /\ role'[m.from] = "candidate" =>
          role[m.from] = "candidate" /\ log'[m.from] = log[m.from]
    BY <1>0, <1>2, <2>4 DEF CandidatesStay
  <2>6. m.term = term'[m.from] /\ role'[m.from] = "candidate" =>
          m.lastLogIndex = Len(log'[m.from]) /\ m.lastLogTerm = LastTerm(log'[m.from])
    BY <2>1, <2>4, <2>5
  <2> QED
    BY <2>3, <2>6 DEF RequestSound
<1> QED
  BY <1>3, <1>4, <1>5 DEF MessageSound

LEMMA MessagesSoundNext ==
  ASSUME TypeOK, TypeOK', NEW led \in Leds, NEW led2 \in Leds, NEW taken \in Takens,
         NEW taken2 \in Takens, MessagesSound(led, taken), Advance(led, taken, led2, taken2)
  PROVE  MessagesSound(led2, taken2)'
<1>1. ASSUME NEW m \in net' PROVE MessageSound(led2, taken2, m)'
  <2>1. CASE m \in net
    BY <2>1, MessageStays DEF MessagesSound
  <2>2. CASE m \notin net
    BY <2>2 DEF Advance
  <2> QED BY <2>1, <2>2
<1> QED
  BY <1>1 DEF MessagesSound

(* Once a later term is won, nothing more of an older one can be chosen:   *)
(* the winner's voters have left that term.                                *)
LEMMA Barred ==
  ASSUME IInv, TypeOK', NEW led \in Leds, NEW taken \in Takens, NEW taken2 \in Takens,
         TakenHeld(led, taken), TakesMore(taken, taken2), Onward,
         NEW t \in Nat, NEW u \in Nat, t < u, Won(u),
         NEW i \in Nat, Len(led[t]) < i
  PROVE  ~Choosable(taken2, t, i)'
<1> SUFFICES ASSUME Choosable(taken2, t, i)' PROVE FALSE
  OBVIOUS
<1>1. PICK Q \in SUBSET Server :
        Cardinality(Q) >= MAJORITY /\ \A s \in Q : taken2[s][t] >= i \/ term'[s] <= t
  BY DEF Choosable
<1>2. PICK x \in Server : <<u, x>> \in won
  BY DEF Won
<1> DEFINE w == <<u, x>>
<1>3. w[1] = u /\ w[2] = x
  OBVIOUS
<1> HIDE DEF w
<1>4. PICK R \in SUBSET Server : /\ Cardinality(R) >= MAJORITY
                                 /\ \A v \in R : <<u, v, x>> \in ballots
  BY <1>2, <1>3 DEF IInv, WinnersElected, w
<1>5. PICK v \in Q \cap R : TRUE
  BY <1>1, <1>4, MajoritiesMeet
<1> DEFINE b == <<u, v, x>>
<1>6. b[1] = u /\ b[2] = v /\ b \in ballots
  BY <1>4, <1>5
<1> HIDE DEF b
<1>7. u <= term[v]
  BY <1>6 DEF IInv, OneVotePerTerm
<1>8. /\ v \in Server /\ term[v] \in Nat /\ term'[v] \in Nat /\ term[v] <= term'[v]
      /\ taken[v][t] \in Nat /\ taken2[v][t] \in Nat /\ Len(led[t]) \in Nat
      /\ DOMAIN led = Nat
  BY <1>5, ServerType, ServerTypeNext, TakenType, LedType DEF IInv, Onward, Leds
<1>9. taken2[v][t] >= i
  BY <1>1, <1>5, <1>7, <1>8
<1>10. taken2[v][t] = taken[v][t]
  BY <1>7, <1>8 DEF TakesMore
<1>11. taken[v][t] <= Len(led[t])
  BY <1>8 DEF TakenHeld
<1> QED
  BY <1>8, <1>9, <1>10, <1>11

LEMMA LeadersKeepNext ==
  ASSUME IInv, TypeOK', NEW led \in Leds, NEW led2 \in Leds, NEW taken \in Takens,
         NEW taken2 \in Takens, TakenHeld(led, taken), LeadersKeep(led, taken),
         Advance(led, taken, led2, taken2)
  PROVE  LeadersKeep(led2, taken2)'
<1>0. /\ Onward /\ Grows(led, led2) /\ TakesMore(taken, taken2) /\ TypeOK
      /\ DOMAIN led = Nat /\ DOMAIN led2 = Nat
  BY DEF Advance, IInv, Leds
<1>1. ASSUME NEW t \in Nat, NEW u \in Nat, NEW i \in 1..Len(led2[t]), t < u, Won(u)',
             MayCommit(led2, taken2, t, i)'
      PROVE  Agree(led2[u], led2[t], i)
  <2>1. /\ led[t] \in Seq(Entry) /\ led2[t] \in Seq(Entry) /\ Agree(led[t], led2[t], Len(led[t]))
        /\ led[u] \in Seq(Entry) /\ led2[u] \in Seq(Entry) /\ Agree(led[u], led2[u], Len(led[u]))
    BY <1>0 DEF Leds, Grows
  <2>2. i \in Nat /\ i # 0 /\ Len(led[t]) \in Nat
    BY <2>1
  <2>3. PICK x \in Server : <<u, x>> \in won'
    BY <1>1 DEF Won
  <2> DEFINE w == <<u, x>>
  <2>4. w[1] = u /\ w[2] = x
    OBVIOUS
  <2>5. WonNext(led, taken, led2, w)
    BY <2>3 DEF Advance
  <2> HIDE DEF w
  <2>6. CASE w \in won
    <3>1. Won(u)
      BY <2>6 DEF Won, w
    <3>2. Choosable(taken2, t, i)'
      BY <1>1 DEF MayCommit
    <3>3. i \in 1..Len(led[t])
      BY <1>0, <1>1, <2>2, <3>1, <3>2, Barred
    <3>4. MayCommit(led, taken, t, i)
      BY <1>0, <1>1, <3>3, MayCommitBefore
    <3>5. Agree(led[u], led[t], i)
      BY <1>0, <1>1, <3>1, <3>3, <3>4 DEF LeadersKeep
    <3>6. Agree(led[u], led2[t], i)
      BY <2>1, <2>2, <3>5, AgreeGrown
    <3>7. Agree(led2[t], led[u], i)
      BY <3>6, AgreeBack
    <3> QED
      BY <2>1, <2>2, <3>7, AgreeGrown, AgreeBack
  <2>7. CASE w \notin won
    <3>1. /\ led2[t] = led[t]
          /\ \A k \in 1..Len(led[t]) : MayCommit(led, taken, t, k) => Agree(led2[u], led[t], k)
      BY <1>1, <2>4, <2>5, <2>7 DEF WonNext
    <3>2. MayCommit(led, taken, t, i)
      BY <1>0, <1>1, <3>1, MayCommitBefore
    <3> QED
      BY <1>1, <3>1, <3>2
  <2> QED BY <2>6, <2>7
<1> QED
  BY <1>0, <1>1 DEF LeadersKeep

LEMMA ServersKeepNext ==
  ASSUME TypeOK, TypeOK', NEW led \in Leds, NEW led2 \in Leds, NEW taken \in Takens,
         NEW taken2 \in Takens, TakenHeld(led, taken), ServersKeep(led, taken),
         Advance(led, taken, led2, taken2)
  PROVE  ServersKeep(led2, taken2)'
<1>0. /\ Onward /\ Grows(led, led2) /\ TakesMore(taken, taken2)
      /\ DOMAIN led = Nat /\ DOMAIN led2 = Nat
  BY DEF Advance, Leds
<1>1. ASSUME NEW s \in Server, NEW t \in Nat, NEW i \in 1..taken2[s][t],
             MayCommit(led2, taken2, t, i)'
      PROVE  Agree(log'[s], led2[t], i)
  <2>1. /\ led[t] \in Seq(Entry) /\ led2[t] \in Seq(Entry) /\ Agree(led[t], led2[t], Len(led[t]))
        /\ taken[s][t] \in Nat /\ taken2[s][t] \in Nat
        /\ log[s] \in Seq(Entry) /\ log'[s] \in Seq(Entry)
    BY <1>0, ServerType, ServerTypeNext, TakenType, LedType DEF Grows
  <2>2. i \in Nat /\ i # 0 /\ Len(led[t]) \in Nat /\ taken[s][t] <= Len(led[t])
    BY <1>0, <2>1 DEF TakenHeld
  <2>3. LogNext(led, taken, led2, taken2, s)
    BY DEF Advance
  <2>4. CASE i <= taken[s][t]
    <3>1. i \in 1..taken[s][t] /\ i \in 1..Len(led[t])
      BY <2>1, <2>2, <2>4
    <3>2. MayCommit(led, taken, t, i)
      BY <1>0, <1>1, <3>1, MayCommitBefore
    <3>3. Agree(log[s], led[t], i)
      BY <1>0, <3>1, <3>2 DEF ServersKeep
    <3>4. Agree(log'[s], led[t], i)
      BY <2>3, <3>1, <3>2, <3>3 DEF LogNext
    <3> QED
      BY <2>1, <2>2, <3>4, AgreeGrown
  <2>5. CASE ~(i <= taken[s][t])
    <3>1. taken2[s][t] # taken[s][t]
      BY <2>1, <2>2, <2>5
    <3>2. term'[s] = t
      BY <1>0, <3>1 DEF TakesMore
    <3>3. Agree(log'[s], led2[t], taken2[s][t])
      BY <2>3, <3>1, <3>2 DEF LogNext
    <3> QED
      BY <2>1, <2>2, <3>3, AgreeLess
  <2> QED BY <2>4, <2>5
<1> QED
  BY <1>0, <1>1 DEF ServersKeep

LEMMA VotersKeepNext ==
  ASSUME IInv, TypeOK', NEW led \in Leds, NEW led2 \in Leds, NEW taken \in Takens,
         NEW taken2 \in Takens, TakenHeld(led, taken), VotersKeep(led, taken),
         Advance(led, taken, led2, taken2)
  PROVE  VotersKeep(led2, taken2)'
<1>0. /\ Onward /\ Grows(led, led2) /\ TakesMore(taken, taken2) /\ CandidatesStay /\ TypeOK
      /\ DOMAIN led = Nat /\ DOMAIN led2 = Nat
  BY DEF Advance, IInv, Leds
<1>1. ASSUME NEW b \in ballots PROVE VoterSound(led2, taken2, b)'
  <2> DEFINE v == b[2]
             c == b[3]
             u == b[1]
  <2>1. u \in Nat /\ v \in Server /\ c \in Server
    <3>1. b \in Nat \X Server \X Server
      BY <1>0 DEF TypeOK
    <3> QED BY <3>1
  <2>2. u <= term[v]
    BY DEF IInv, OneVotePerTerm
  <2>3. /\ u <= term[c]
        /\ u = term[c] /\ role[c] = "candidate" =>
             \A t \in Nat : \A i \in 1..taken[v][t] :
               t < u /\ MayCommit(led, taken, t, i) => UpTo(LastTerm(log[c]), Len(log[c]), t, i)
    BY <1>0 DEF VotersKeep, VoterSound
  <2> HIDE DEF u, v, c
  <2>4. /\ term[v] \in Nat /\ term'[v] \in Nat /\ term[v] <= term'[v]
        /\ term[c] \in Nat /\ term'[c] \in Nat /\ term[c] <= term'[c]
    BY <1>0, <2>1 DEF TypeOK, Onward
  <2>5. u <= term'[c]
    BY <2>1, <2>3, <2>4
  <2>6. ASSUME u = term'[c], role'[c] = "candidate",
               NEW t \in Nat, NEW i \in 1..taken2[v][t], t < u, MayCommit(led2, taken2, t, i)'
        PROVE  UpTo(LastTerm(log'[c]), Len(log'[c]), t, i)
    <3>1. term'[c] = term[c] /\ u = term[c]
      BY <2>1, <2>3, <2>4, <2>6
    <3>2. role[c] = "candidate" /\ log'[c] = log[c]
      BY <1>0, <2>1, <2>6, <3>1 DEF CandidatesStay
    <3>3. taken2[v][t] = taken[v][t]
      BY <1>0, <2>1, <2>2, <2>4, <2>6 DEF TakesMore
    <3>4. taken[v][t] <= Len(led[t]) /\ taken[v][t] \in Nat /\ led[t] \in Seq(Entry)
      BY <1>0, <2>1 DEF TakenHeld, Leds, Takens
    <3>5. i \in 1..taken[v][t] /\ i \in 1..Len(led[t])
      BY <3>3, <3>4
    <3>6. MayCommit(led, taken, t, i)
      BY <1>0, <2>6, <3>5, MayCommitBefore
    <3> QED
      BY <2>3, <2>6, <3>1, <3>2, <3>5, <3>6
  <2> QED
    BY <1>0, <2>5, <2>6 DEF VoterSound, u, v, c
<1>2. ASSUME NEW b \in ballots' PROVE VoterSound(led2, taken2, b)'
  BY <1>1 DEF Advance
<1> QED
  BY <1>2 DEF VotersKeep

LEMMA CommitsChosenNext ==
  ASSUME TypeOK, TypeOK', NEW led \in Leds, NEW led2 \in Leds, NEW taken \in Takens,
         NEW taken2 \in Takens, CommitsChosen(led, taken), Advance(led, taken, led2, taken2)
  PROVE  CommitsChosen(led2, taken2)'
<1>0. Onward /\ Grows(led, led2) /\ TakesMore(taken, taken2)
  BY DEF Advance
<1>1. ASSUME NEW s \in Server
      PROVE  Decided(led2, taken2, log'[s], term'[s], commitIndex'[s])
  <2>1. /\ log[s] \in Seq(Entry) /\ log'[s] \in Seq(Entry) /\ term[s] \in Nat /\ term'[s] \in Nat
        /\ term[s] <= term'[s] /\ commitIndex[s] \in Nat
    BY <1>0 DEF TypeOK, Onward
  <2>2. Decided(led, taken, log[s], term[s], commitIndex[s])
    BY DEF CommitsChosen
  <2>3. CommitNext(led2, taken2, s)
    BY DEF Advance
  <2>4. Decided(led2, taken2, log'[s], term'[s], commitIndex[s])
    BY <1>0, <2>1, <2>2, <2>3, DecidedStays DEF CommitNext
  <2> QED
    BY <2>3, <2>4 DEF CommitNext
<1> QED
  BY <1>1 DEF CommitsChosen

LEMMA AdvanceKeeps ==
  ASSUME IInv, TypeOK', NEW led \in Leds, NEW led2 \in Leds, NEW taken \in Takens,
         NEW taken2 \in Takens, HistoryInv(led, taken), Advance(led, taken, led2, taken2)
  PROVE  HistoryInv(led2, taken2)'
<1>1. TypeOK
  BY DEF IInv
<1> QED
  BY <1>1, LogsWrittenNext, LeadersLeadNext, TakenHeldNext, MessagesSoundNext, LeadersKeepNext,
     ServersKeepNext, VotersKeepNext, CommitsChosenNext
  DEF HistoryInv

-----------------------------------------------------------------------------
(* Every action advances history; most leave it as it is. *)

Calm(taken, s) ==
  /\ log'[s] = log[s] /\ term[s] <= term'[s]
  /\ term'[s] = term[s] /\ role'[s] = "candidate" => role[s] = "candidate"
  /\ role'[s] = "leader" =>
       /\ role[s] = "leader" /\ term'[s] = term[s]
       /\ \A p \in Peers(s) : match'[s][p] <= taken[p][term[s]]

LEMMA DecidedWithin ==
  ASSUME NEW led \in Leds, NEW taken, NEW l \in Seq(Entry), NEW u, NEW c \in Nat,
         Decided(led, taken, l, u, c)
  PROVE  c <= Len(l)
BY DEF Decided, Agree

LEMMA CalmAdvances ==
  ASSUME TypeOK, TypeOK', NEW led \in Leds, NEW taken \in Takens, HistoryInv(led, taken),
         won' = won, \A s \in Server : Calm(taken, s),
         \A m \in net' : m \in net \/ MessageSound(led, taken, m)',
         \A b \in ballots' : b \in ballots \/ VoterSound(led, taken, b)',
         \A s \in Server :
           \/ commitIndex'[s] = commitIndex[s]
           \/ /\ commitIndex[s] <= commitIndex'[s]
              /\ Decided(led, taken, log[s], term[s], commitIndex'[s]) /\ term'[s] = term[s]
  PROVE  Advance(led, taken, led, taken)
<1>1. Onward /\ CandidatesStay
  BY DEF Onward, CandidatesStay, Calm
<1>2. Grows(led, led) /\ TakesMore(taken, taken)
  BY GrowsSame, TakesSame
<1>3. \A s \in Server : LogNext(led, taken, led, taken, s)
  BY DEF LogNext, Calm
<1>4. /\ \A t \in Nat : LedNext(led, led, t)
      /\ \A w \in won' : WonNext(led, taken, led, w)
  BY DEF LedNext, WonNext
<1>5. ASSUME NEW s \in Server, role'[s] = "leader" PROVE LeaderNext(led, taken, led, taken, s)
  BY <1>5 DEF Calm, LeaderNext, HistoryInv, LeadersLead
<1>6. ASSUME NEW s \in Server PROVE CommitNext(led, taken, s)
  <2>1. Decided(led, taken, log[s], term[s], commitIndex[s])
    BY DEF HistoryInv, CommitsChosen
  <2>2. log[s] \in Seq(Entry) /\ commitIndex[s] \in Nat /\ commitIndex'[s] \in Nat
    BY ServerType, ServerTypeNext
  <2>3. Agree(log[s], log'[s], commitIndex[s])
    BY <2>1, <2>2, DecidedWithin, AgreeSame DEF Calm
  <2> QED
    BY <2>2, <2>3 DEF CommitNext, Calm
<1> QED
  BY <1>1, <1>2, <1>3, <1>4, <1>5, <1>6 DEF Advance

(* An append carries what its leader has and knows. *)
LEMMA AppendForSound ==
  ASSUME TypeOK, NEW n \in Server, NEW q \in Server, NEW l \in Seq(Entry),
         NEW i \in Nat \ {0}, i <= Len(l) + 1,
         NEW led \in Leds, NEW taken \in Takens, led[term[n]] = l, NEW t, t = term[n], Won(t)',
         Decided(led, taken, l, term[n], commitIndex[n]),
         NEW m, m = AppendFor(n, l, i, q)
  PROVE  MessageSound(led, taken, m)'
<1> DEFINE e == SubSeq(l, i, Len(l))
<1>1. Len(l) \in Nat /\ commitIndex[n] \in Nat /\ term[n] \in Nat
  BY ServerType
<1>2. /\ e \in Seq(Entry) /\ Len(e) = Len(l) - i + 1
      /\ \A j \in 1..(Len(l) - i + 1) : e[j] = l[i + j - 1]
  BY <1>1
<1> HIDE DEF e
<1>3. m = [kind |-> "append", from |-> n, to |-> q, term |-> term[n],
           prevIndex |-> i - 1, prevTerm |-> IF i - 1 > 0 THEN l[i - 1].term ELSE 0,
           entries |-> e, leaderCommit |-> commitIndex[n]]
  BY DEF AppendFor, e
<1>4. /\ m.kind = "append" /\ m.term = term[n] /\ m.entries = e /\ m.prevIndex = i - 1
      /\ m.leaderCommit = commitIndex[n] /\ (m.prevIndex > 0 => m.prevTerm = l[m.prevIndex].term)
  BY <1>3
<1>5. m.prevIndex + Len(m.entries) = Len(l)
  BY <1>1, <1>2, <1>4
<1>6. commitIndex[n] <= Len(l)
  BY <1>1, DecidedWithin
<1>7. ASSUME NEW j \in 1..Len(m.entries) PROVE m.entries[j] = l[m.prevIndex + j]
  <2>1. j \in 1..(Len(l) - i + 1) /\ (i - 1) + j = i + j - 1
    BY <1>1, <1>2, <1>4
  <2> QED
    BY <1>2, <1>4, <2>1
<1>8. Won(m.term)' /\ led[m.term] = l /\ Decided(led, taken, l, m.term, m.leaderCommit)
  <2>1. Won(m.term)'
    BY <1>4 DEF Won
  <2> QED
    BY <1>4, <2>1
<1>9. m.prevIndex + Len(m.entries) <= Len(l) /\ m.leaderCommit <= m.prevIndex + Len(m.entries)
  BY <1>1, <1>4, <1>5, <1>6
<1>10. AppendSound(led, taken, m)'
  BY <1>4, <1>7, <1>8, <1>9 DEF AppendSound
<1> QED
  BY <1>4, <1>10 DEF MessageSound

LEMMA BroadcastSound ==
  ASSUME TypeOK, NEW n \in Server, NEW l \in Seq(Entry), NEW nextOf \in [Server -> Nat \ {0}],
         \A q \in Peers(n) : nextOf[q] <= Len(l) + 1,
         NEW led \in Leds, NEW taken \in Takens, led[term[n]] = l, NEW t, t = term[n], Won(t)',
         Decided(led, taken, l, term[n], commitIndex[n]),
         NEW m \in BroadcastAppends(n, l, nextOf)
  PROVE  MessageSound(led, taken, m)'
<1>1. PICK q \in Peers(n) : m = AppendFor(n, l, nextOf[q], q)
  BY DEF BroadcastAppends
<1>2. q \in Server /\ nextOf[q] \in Nat \ {0} /\ nextOf[q] <= Len(l) + 1
  BY DEF Peers
<1> QED
  BY <1>1, <1>2, AppendForSound

(* Votes and refusals tell nothing of the logs. *)
LEMMA SilentSound ==
  ASSUME NEW m, m.kind = "vote" \/ (m.kind = "append-resp" /\ ~m.ok), NEW led, NEW taken
  PROVE  MessageSound(led, taken, m)'
BY DEF MessageSound

LEMMA QuietAdvances ==
  ASSUME IInv, TypeOK', NEW led \in Leds, NEW taken \in Takens, HistoryInv(led, taken),
         NEW n \in Server,
         ElectionTimerIgnored(n) \/ TimerLost(n) \/ Kill(n) \/ Revive(n) \/ Heartbeat(n)
  PROVE  Advance(led, taken, led, taken)
<1>1. UNCHANGED <<role, term, log, won, ballots, match, commitIndex>>
  BY DEF ElectionTimerIgnored, TimerLost, Kill, Revive, Heartbeat,
         electionVars, ghostVars, logVars, leaderVars
<1>2. TypeOK
  BY DEF IInv
<1>3. ASSUME NEW s \in Server PROVE Calm(taken, s)
  <2>1. term[s] \in Nat
    BY <1>2, ServerType
  <2>2. role[s] = "leader" => \A p \in Peers(s) : match[s][p] <= taken[p][term[s]]
    BY DEF HistoryInv, LeadersLead
  <2> QED
    BY <1>1, <2>1, <2>2 DEF Calm
<1>4. ASSUME NEW m \in net', m \notin net PROVE MessageSound(led, taken, m)'
  <2>1. role[n] = "leader" /\ net' = net \cup BroadcastAppends(n, log[n], next[n])
    BY <1>4 DEF ElectionTimerIgnored, TimerLost, Kill, Revive, Heartbeat
  <2>2. /\ log[n] \in Seq(Entry) /\ next[n] \in [Server -> Nat \ {0}]
        /\ \A q \in Peers(n) : next[n][q] <= Len(log[n]) + 1
    BY <2>1 DEF IInv, TypeOK, NextWithinLog
  <2>3. <<term[n], n>> \in won /\ led[term[n]] = log[n]
    BY <2>1 DEF HistoryInv, LeadersLead
  <2>4. \E t : t = term[n] /\ Won(t)'
    BY <1>1, <2>3 DEF Won
  <2>5. Decided(led, taken, log[n], term[n], commitIndex[n])
    BY DEF HistoryInv, CommitsChosen
  <2> QED
    BY <1>2, <1>4, <2>1, <2>2, <2>3, <2>4, <2>5, BroadcastSound
<1> QED
  BY <1>1, <1>2, <1>3, <1>4, CalmAdvances

(* A server's log ends no earlier than what it took and may still commit.  *)
LEMMA VoterHolds ==
  ASSUME TypeOK, NEW led \in Leds, NEW taken \in Takens, HistoryInv(led, taken),
         NEW n \in Server, NEW t \in Nat, NEW i \in 1..taken[n][t], MayCommit(led, taken, t, i)
  PROVE  UpTo(LastTerm(log[n]), Len(log[n]), t, i)
<1>1. DOMAIN led = Nat
  BY DEF Leds
<1>2. Agree(log[n], led[t], i)
  BY <1>1 DEF HistoryInv, ServersKeep
<1>3. log[n] \in Seq(Entry) /\ term[n] \in Nat /\ Written(log[n], led, term[n])
  BY ServerType DEF HistoryInv, LogsWritten
<1>4. taken[n][t] <= Len(led[t]) /\ taken[n][t] \in Nat /\ Len(led[t]) \in Nat
  BY <1>1, TakenType, LedType DEF HistoryInv, TakenHeld
<1>5. i \in 1..Len(led[t]) /\ led[t][i].term = t
  BY <1>4 DEF MayCommit
<1> QED
  BY <1>2, <1>3, <1>5, HoldsUpTo DEF HistoryInv

LEMMA StartAdvances ==
  ASSUME IInv, TypeOK', NEW led \in Leds, NEW taken \in Takens, HistoryInv(led, taken),
         NEW n \in Server, StartElection(n)
  PROVE  Advance(led, taken, led, taken)
<1>1. /\ UNCHANGED <<log, won, match, commitIndex>>
      /\ role' = [role EXCEPT ![n] = "candidate"] /\ term' = [term EXCEPT ![n] = @ + 1]
      /\ ballots' = ballots \cup {<<term[n] + 1, n, n>>}
  BY DEF StartElection, logVars, leaderVars
<1>2. TypeOK /\ role \in [Server -> {"follower", "candidate", "leader"}] /\ term \in [Server -> Nat]
  BY DEF IInv, TypeOK
<1>3. ASSUME NEW s \in Server PROVE Calm(taken, s)
  <2>1. role[s] = "leader" => \A p \in Peers(s) : match[s][p] <= taken[p][term[s]]
    BY DEF HistoryInv, LeadersLead
  <2>2. CASE s = n
    BY <1>1, <1>2, <2>2 DEF Calm
  <2>3. CASE s # n
    BY <1>1, <1>2, <2>1, <2>3 DEF Calm
  <2> QED BY <2>2, <2>3
<1>4. Onward
  BY <1>1, <1>3 DEF Onward, Calm
<1>5. ASSUME NEW m \in net', m \notin net PROVE MessageSound(led, taken, m)'
  <2>1. /\ m.kind = "req-vote" /\ m.from = n /\ m.term = term[n] + 1
        /\ m.lastLogIndex = Len(log[n]) /\ m.lastLogTerm = LastTerm(log[n])
    BY <1>5 DEF StartElection
  <2>2. m.term <= term'[m.from] /\ log'[m.from] = log[n]
    BY <1>1, <1>2, <2>1
  <2> QED
    BY <2>1, <2>2 DEF MessageSound, RequestSound
<1>6. ASSUME NEW b \in ballots', b \notin ballots PROVE VoterSound(led, taken, b)'
  <2>1. b[1] = term[n] + 1 /\ b[2] = n /\ b[3] = n
    BY <1>1, <1>6
  <2>2. b[1] <= term'[n] /\ log'[n] = log[n]
    BY <1>1, <1>2, <2>1
  <2>3. ASSUME NEW t \in Nat, NEW i \in 1..taken[n][t], MayCommit(led, taken, t, i)'
        PROVE  UpTo(LastTerm(log'[n]), Len(log'[n]), t, i)
    <3>1. taken[n][t] <= Len(led[t]) /\ taken[n][t] \in Nat /\ Len(led[t]) \in Nat
      BY <1>2, TakenType, LedType DEF HistoryInv, TakenHeld, Leds
    <3>2. i \in 1..Len(led[t])
      BY <3>1
    <3>3. MayCommit(led, taken, t, i)
      BY <1>2, <1>4, <2>3, <3>2, GrowsSame, TakesSame, MayCommitBefore
    <3> QED
      BY <1>2, <2>2, <3>3, VoterHolds
  <2> QED
    BY <2>1, <2>2, <2>3 DEF VoterSound, Leds
<1> QED
  BY <1>1, <1>2, <1>3, <1>5, <1>6, CalmAdvances

LEMMA ReqVoteAdvances ==
  ASSUME IInv, TypeOK', NEW led \in Leds, NEW taken \in Takens, HistoryInv(led, taken),
         NEW n \in Server, NEW m \in net, NEW rest \in SUBSET net, HandleReqVote(n, m, rest)
  PROVE  Advance(led, taken, led, taken)
<1>1. /\ UNCHANGED <<log, won, match, commitIndex>>
      /\ role' = [role EXCEPT ![n] = RoleAfter(n, m)]
      /\ term' = [term EXCEPT ![n] = TermAfter(n, m)]
      /\ ballots' = IF Granted(n, m) THEN ballots \cup {<<m.term, n, m.from>>} ELSE ballots
      /\ m.kind = "req-vote" /\ m.to = n
  BY DEF HandleReqVote, Receives, AdoptTermExceptRole, logVars, leaderVars
<1>2. TypeOK /\ role \in [Server -> {"follower", "candidate", "leader"}] /\ term \in [Server -> Nat]
  BY DEF IInv, TypeOK
<1>3. /\ m.from \in Server /\ m.from # n /\ m.term \in Nat
      /\ m.lastLogIndex \in Nat /\ m.lastLogTerm \in Nat
  BY <1>1, <1>2, MessageType DEF TypeOK, IInv, NotToSelf
<1>4. ASSUME NEW s \in Server PROVE Calm(taken, s)
  <2>1. role[s] = "leader" => \A p \in Peers(s) : match[s][p] <= taken[p][term[s]]
    BY DEF HistoryInv, LeadersLead
  <2>2. CASE s = n
    <3>1. CASE m.term > term[n]
      BY <1>1, <1>2, <1>3, <2>2, <3>1 DEF Calm, RoleAfter, TermAfter, Higher
    <3>2. CASE ~(m.term > term[n])
      BY <1>1, <1>2, <1>3, <2>1, <2>2, <3>2 DEF Calm, RoleAfter, TermAfter, Higher
    <3> QED BY <3>1, <3>2
  <2>3. CASE s # n
    BY <1>1, <1>2, <2>1, <2>3 DEF Calm
  <2> QED BY <2>2, <2>3
<1>5. Onward
  BY <1>1, <1>4 DEF Onward, Calm
<1>6. ASSUME NEW x \in net', x \notin net PROVE MessageSound(led, taken, x)'
  <2>1. x.kind = "vote"
    BY <1>6 DEF HandleReqVote
  <2> QED
    BY <2>1, SilentSound
<1>7. ASSUME NEW b \in ballots', b \notin ballots PROVE VoterSound(led, taken, b)'
  <2> DEFINE c == m.from
  <2>1. b[1] = m.term /\ b[2] = n /\ b[3] = c /\ UpToDate(n, m)
    BY <1>1, <1>7 DEF Granted
  <2>2. /\ m.term <= term[c]
        /\ m.term = term[c] /\ role[c] = "candidate" =>
             m.lastLogIndex = Len(log[c]) /\ m.lastLogTerm = LastTerm(log[c])
    BY <1>1 DEF HistoryInv, MessagesSound, MessageSound, RequestSound
  <2>3. role'[c] = role[c] /\ term'[c] = term[c] /\ log'[c] = log[c]
    BY <1>1, <1>2, <1>3
  <2> HIDE DEF c
  <2>4. ASSUME NEW t \in Nat, NEW i \in 1..taken[n][t], MayCommit(led, taken, t, i)'
        PROVE  UpTo(m.lastLogTerm, m.lastLogIndex, t, i)
    <3>1. taken[n][t] <= Len(led[t]) /\ taken[n][t] \in Nat /\ Len(led[t]) \in Nat
      BY <1>2, TakenType, LedType DEF HistoryInv, TakenHeld, Leds
    <3>2. i \in 1..Len(led[t]) /\ i \in Nat
      BY <3>1
    <3>3. MayCommit(led, taken, t, i)
      BY <1>2, <1>5, <2>4, <3>2, GrowsSame, TakesSame, MayCommitBefore
    <3>4. UpTo(LastTerm(log[n]), Len(log[n]), t, i)
      BY <1>2, <3>3, VoterHolds
    <3>5. LastTerm(log[n]) \in Nat /\ Len(log[n]) \in Nat
      BY <1>2, ServerType, LastTermType
    <3> QED
      BY <1>3, <2>1, <3>2, <3>4, <3>5 DEF UpTo, UpToDate
  <2> QED
    BY <2>1, <2>2, <2>3, <2>4 DEF VoterSound, Leds
<1> QED
  BY <1>1, <1>2, <1>4, <1>6, <1>7, CalmAdvances

(* Messages that change no log, no vote and no commit index. *)
LEMMA StaleAdvances ==
  ASSUME IInv, TypeOK', NEW led \in Leds, NEW taken \in Takens, HistoryInv(led, taken),
         NEW n \in Server, NEW m \in net, NEW rest \in SUBSET net,
         \/ RefuseAppend(n, m, rest) \/ HandleAppendRefused(n, m, rest)
         \/ HandleHigherResponse(n, m, rest)
  PROVE  Advance(led, taken, led, taken)
<1>1. /\ UNCHANGED <<log, won, match, commitIndex, ballots>>
      /\ \/ UNCHANGED <<role, term>>
         \/ /\ role' = [role EXCEPT ![n] = "follower"]
            /\ term' = [term EXCEPT ![n] = m.term] /\ m.term > term[n]
  <2>1. CASE RefuseAppend(n, m, rest) \/ HandleAppendRefused(n, m, rest)
    BY <2>1 DEF RefuseAppend, HandleAppendRefused, electionVars, ghostVars, logVars, leaderVars
  <2>2. CASE HandleHigherResponse(n, m, rest)
    BY <2>2 DEF HandleHigherResponse, AdoptTermExceptRole, TermAfter, Higher,
                ghostVars, logVars, leaderVars
  <2> QED BY <2>1, <2>2
<1>2. TypeOK /\ role \in [Server -> {"follower", "candidate", "leader"}] /\ term \in [Server -> Nat]
  BY DEF IInv, TypeOK
<1>3. m.from \in Server /\ m.from # m.to /\ m.term \in Nat
  BY <1>1, <1>2, MessageType DEF TypeOK, IInv, NotToSelf
<1>4. ASSUME NEW s \in Server PROVE Calm(taken, s)
  <2>1. role[s] = "leader" => \A p \in Peers(s) : match[s][p] <= taken[p][term[s]]
    BY DEF HistoryInv, LeadersLead
  <2>2. CASE UNCHANGED <<role, term>>
    BY <1>1, <1>2, <2>1, <2>2 DEF Calm
  <2>3. CASE /\ role' = [role EXCEPT ![n] = "follower"]
             /\ term' = [term EXCEPT ![n] = m.term] /\ m.term > term[n]
    BY <1>1, <1>2, <1>3, <2>1, <2>3 DEF Calm
  <2> QED BY <1>1, <2>2, <2>3
<1>5. ASSUME NEW x \in net', x \notin net PROVE MessageSound(led, taken, x)'
  <2>1. CASE RefuseAppend(n, m, rest)
    <3>1. x = AppendResp(n, m, FALSE, 0)
      BY <1>5, <2>1 DEF RefuseAppend
    <3>2. x.kind = "append-resp" /\ ~x.ok
      BY <3>1 DEF AppendResp
    <3> QED
      BY <3>2, SilentSound
  <2>2. CASE HandleAppendRefused(n, m, rest)
    <3> DEFINE back == Max2(1, next[n][m.from] - 1)
    <3>1. m.from \in Peers(n) /\ role[n] = "leader"
      BY <1>3, <2>2 DEF HandleAppendRefused, Receives, Peers
    <3>8. log[n] \in Seq(Entry) /\ Len(log[n]) \in Nat
      BY <1>2, ServerType
    <3>9. next[n][m.from] \in Nat \ {0}
      BY <1>2, <1>3 DEF TypeOK
    <3>10. next[n][m.from] <= Len(log[n]) + 1
      BY <3>1 DEF IInv, NextWithinLog
    <3>2. /\ next[n][m.from] \in Nat \ {0} /\ next[n][m.from] <= Len(log[n]) + 1
          /\ log[n] \in Seq(Entry) /\ Len(log[n]) \in Nat
      BY <3>8, <3>9, <3>10
    <3>3. back \in Nat \ {0} /\ back <= Len(log[n]) + 1
      BY <3>2 DEF Max2
    <3>4. x = AppendFor(n, log[n], back, m.from)
      BY <1>5, <2>2 DEF HandleAppendRefused
    <3> HIDE DEF back
    <3>5. <<term[n], n>> \in won /\ led[term[n]] = log[n]
      BY <3>1 DEF HistoryInv, LeadersLead
    <3>6. \E t : t = term[n] /\ Won(t)'
      BY <1>1, <3>5 DEF Won
    <3>7. Decided(led, taken, log[n], term[n], commitIndex[n])
      BY DEF HistoryInv, CommitsChosen
    <3> QED
      BY <1>2, <1>3, <3>2, <3>3, <3>4, <3>5, <3>6, <3>7, AppendForSound
  <2>3. CASE HandleHigherResponse(n, m, rest)
    BY <1>5, <2>3 DEF HandleHigherResponse
  <2> QED BY <2>1, <2>2, <2>3
<1> QED
  BY <1>1, <1>2, <1>4, <1>5, CalmAdvances

(* What a leader counts as held by a majority was taken by one. *)
LEMMA CountedChosen ==
  ASSUME TypeOK, NEW led \in Leds, NEW taken \in Takens, HistoryInv(led, taken),
         NEW n \in Server, role[n] = "leader", NEW matched \in [Server -> Nat],
         \A p \in Peers(n) : matched[p] <= taken[p][term[n]],
         CommitAfter(n, matched) # commitIndex[n]
  PROVE  /\ commitIndex[n] <= CommitAfter(n, matched)
         /\ Decided(led, taken, log[n], term[n], CommitAfter(n, matched))
<1> DEFINE decided == {idx \in commitIndex[n] + 1 .. Len(log[n]) :
                         /\ log[n][idx].term = term[n]
                         /\ Replicas(n, matched, idx) >= MAJORITY}
           c == CommitAfter(n, matched)
<1>1. commitIndex[n] \in Nat /\ Len(log[n]) \in Nat /\ term[n] \in Nat /\ log[n] \in Seq(Entry)
  BY ServerType
<1>2. c \in decided
  <2>1. decided # {} /\ c = CHOOSE idx \in decided : \A j \in decided : j <= idx
    BY DEF CommitAfter
  <2>2. decided \in SUBSET Nat /\ \A x \in decided : x <= Len(log[n])
    BY <1>1
  <2>3. \E idx \in decided : \A j \in decided : j <= idx
    BY <1>1, <2>1, <2>2, GreatestExists
  <2> QED
    BY <2>1, <2>3
<1>3. /\ c \in commitIndex[n] + 1 .. Len(log[n]) /\ log[n][c].term = term[n]
      /\ Replicas(n, matched, c) >= MAJORITY
  BY <1>2
<1> HIDE DEF c, decided
<1> DEFINE P == {p \in Peers(n) : matched[p] >= c}
           Q == P \cup {n}
<1>4. Q \in SUBSET Server /\ IsFiniteSet(P) /\ n \notin P
  BY ServerAssumption, FS_Subset DEF Peers
<1>5. Cardinality(Q) = Cardinality(P) + 1 /\ Cardinality(P) \in Nat
  BY <1>4, FS_AddElement, FS_CardinalityType
<1>6. Replicas(n, matched, c) = 1 + Cardinality(P)
  BY DEF Replicas
<1>7. led[term[n]] = log[n] /\ taken[n][term[n]] = Len(log[n])
  BY DEF HistoryInv, LeadersLead
<1>8. ASSUME NEW s \in Q PROVE taken[s][term[n]] >= c
  <2>1. CASE s = n
    BY <1>1, <1>3, <1>7, <2>1
  <2>2. CASE s \in P
    <3>1. s \in Peers(n) /\ s \in Server /\ matched[s] >= c /\ matched[s] \in Nat
      BY <2>2 DEF Peers
    <3> QED
      BY <1>1, <1>3, <3>1, TakenType
  <2> QED BY <2>1, <2>2
<1> HIDE DEF Q, P
<1>9. Cardinality(Q) >= MAJORITY
  BY <1>3, <1>5, <1>6, MajorityAssumption
<1>10. Chosen(taken, term[n], c)
  BY <1>4, <1>8, <1>9 DEF Chosen
<1>14. DOMAIN led = Nat
  BY DEF Leds
<1>11. c \in 1..Len(led[term[n]]) /\ c <= c /\ term[n] \in DOMAIN led /\ c <= Len(log[n])
       /\ c \in Nat /\ commitIndex[n] <= c /\ term[n] <= term[n]
  BY <1>1, <1>3, <1>7, <1>14
<1>12. Agree(log[n], led[term[n]], c)
  BY <1>1, <1>7, <1>11, AgreeSame
<1>13. Decided(led, taken, log[n], term[n], c)
  BY <1>3, <1>7, <1>10, <1>11, <1>12 DEF Decided
<1> QED
  BY <1>11, <1>13 DEF c

LEMMA AppendOkAdvances ==
  ASSUME IInv, TypeOK', NEW led \in Leds, NEW taken \in Takens, HistoryInv(led, taken),
         NEW n \in Server, NEW m \in net, NEW rest \in SUBSET net, HandleAppendOk(n, m, rest)
  PROVE  Advance(led, taken, led, taken)
<1> DEFINE matched == [match[n] EXCEPT ![m.from] = Max2(@, m.matchIndex)]
           commit == CommitAfter(n, matched)
<1>1. /\ UNCHANGED <<role, term, log, won, ballots>>
      /\ match' = [match EXCEPT ![n] = matched]
      /\ commitIndex' = [commitIndex EXCEPT ![n] = commit]
      /\ net' = rest /\ role[n] = "leader" /\ m.term = term[n]
      /\ m.kind = "append-resp" /\ m.ok
  BY DEF HandleAppendOk, Receives, electionVars, ghostVars
<1>2. TypeOK /\ match \in [Server -> [Server -> Nat]] /\ commitIndex \in [Server -> Nat]
  BY DEF IInv, TypeOK
<1>3. m.from \in Server /\ m.matchIndex \in Nat /\ m.term \in Nat
  BY <1>1, <1>2, MessageType DEF TypeOK
<1>4. matched \in [Server -> Nat]
  BY <1>2, <1>3 DEF Max2
<1>5. \A s \in Server : role[s] = "leader" => \A p \in Peers(s) : match[s][p] <= taken[p][term[s]]
  BY DEF HistoryInv, LeadersLead
<1>6. m.matchIndex <= taken[m.from][m.term]
  BY <1>1 DEF HistoryInv, MessagesSound, MessageSound
<1>7. ASSUME NEW p \in Peers(n) PROVE matched[p] <= taken[p][term[n]]
  <2>1. match[n][p] <= taken[p][term[n]] /\ p \in Server
    BY <1>1, <1>5 DEF Peers
  <2>2. matched[p] = match[n][p] \/ (p = m.from /\ matched[p] = m.matchIndex)
    BY <1>2, <1>3, <2>1 DEF Max2
  <2> QED
    BY <1>1, <1>6, <2>1, <2>2
<1> HIDE DEF matched
<1>8. ASSUME NEW s \in Server PROVE Calm(taken, s)
  <2>1. term[s] \in Nat
    BY <1>2, ServerType
  <2>2. match'[s] = IF s = n THEN matched ELSE match[s]
    BY <1>1, <1>2
  <2> QED
    BY <1>1, <1>5, <1>7, <2>1, <2>2 DEF Calm
<1>9. ASSUME NEW s \in Server
      PROVE  \/ commitIndex'[s] = commitIndex[s]
             \/ /\ commitIndex[s] <= commitIndex'[s]
                /\ Decided(led, taken, log[s], term[s], commitIndex'[s]) /\ term'[s] = term[s]
  <2>1. commitIndex'[s] = IF s = n THEN commit ELSE commitIndex[s]
    BY <1>1, <1>2
  <2>2. CASE s = n /\ commit # commitIndex[n]
    BY <1>1, <1>2, <1>4, <1>7, <2>1, <2>2, CountedChosen
  <2>3. CASE ~(s = n /\ commit # commitIndex[n])
    BY <2>1, <2>3
  <2> QED BY <2>2, <2>3
<1> QED
  BY <1>1, <1>2, <1>8, <1>9, CalmAdvances

-----------------------------------------------------------------------------
(* The actions that make history: a leader's log is set, a server takes.   *)

LEMMA LedSet ==
  ASSUME NEW led \in Leds, NEW t \in Nat, NEW l \in Seq(Entry), Agree(led[t], l, Len(led[t]))
  PROVE  \E led2 \in Leds :
         /\ Grows(led, led2) /\ led2[t] = l
         /\ \A u \in Nat : u # t => led2[u] = led[u]
<1> DEFINE led2 == [led EXCEPT ![t] = l]
<1>1. led2 \in Leds /\ led2[t] = l /\ \A u \in Nat : u # t => led2[u] = led[u]
  BY DEF Leds
<1> HIDE DEF led2
<1>2. ASSUME NEW u \in Nat PROVE Agree(led[u], led2[u], Len(led[u]))
  <2>1. CASE u = t
    BY <1>1, <2>1
  <2>2. CASE u # t
    BY <1>1, <2>2, LedType, AgreeSame
  <2> QED BY <2>1, <2>2
<1>3. Grows(led, led2)
  BY <1>2 DEF Grows
<1> QED
  BY <1>1, <1>3

LEMMA TakenSet ==
  ASSUME NEW taken \in Takens, NEW n \in Server, NEW t \in Nat, NEW c \in Nat,
         taken[n][t] <= c, term'[n] = t
  PROVE  \E taken2 \in Takens :
         /\ TakesMore(taken, taken2) /\ taken2[n][t] = c
         /\ \A s \in Server : s # n => taken2[s] = taken[s]
         /\ \A u \in Nat : u # t => taken2[n][u] = taken[n][u]
<1> DEFINE taken2 == [taken EXCEPT ![n] = [@ EXCEPT ![t] = c]]
<1>1. /\ taken2 \in Takens /\ taken2[n][t] = c
      /\ \A s \in Server : s # n => taken2[s] = taken[s]
      /\ \A u \in Nat : u # t => taken2[n][u] = taken[n][u]
  BY DEF Takens
<1> HIDE DEF taken2
<1>2. ASSUME NEW s \in Server, NEW u \in Nat
      PROVE  taken[s][u] <= taken2[s][u] /\ (taken2[s][u] # taken[s][u] => term'[s] = u)
  <2>1. taken[s][u] \in Nat
    BY TakenType
  <2>2. CASE s = n /\ u = t
    BY <1>1, <2>2
  <2>3. CASE ~(s = n /\ u = t)
    BY <1>1, <2>1, <2>3
  <2> QED BY <2>2, <2>3
<1>3. TakesMore(taken, taken2)
  BY <1>2 DEF TakesMore
<1> QED
  BY <1>1, <1>3

(* A vote that does not yet make a leader. *)
LEMMA VoteCountedAdvances ==
  ASSUME IInv, TypeOK', NEW led \in Leds, NEW taken \in Takens, HistoryInv(led, taken),
         NEW n \in Server, NEW m \in net, NEW rest \in SUBSET net,
         HandleVote(n, m, rest), ~(Cardinality(votes[n]) + 1 >= MAJORITY)
  PROVE  Advance(led, taken, led, taken)
<1>1. UNCHANGED <<role, term, log, won, match, commitIndex, ballots>> /\ net' = rest
  BY DEF HandleVote, logVars, leaderVars
<1>2. TypeOK
  BY DEF IInv
<1>3. ASSUME NEW s \in Server PROVE Calm(taken, s)
  <2>1. role[s] = "leader" => \A p \in Peers(s) : match[s][p] <= taken[p][term[s]]
    BY DEF HistoryInv, LeadersLead
  <2>2. term[s] \in Nat
    BY <1>2, ServerType
  <2> QED
    BY <1>1, <2>1, <2>2 DEF Calm
<1> QED
  BY <1>1, <1>2, <1>3, CalmAdvances

(* A candidate with a majority of votes has every entry that may commit: a *)
(* server that took the entry, or still could, is among its voters.        *)
LEMMA WinnerHolds ==
  ASSUME IInv, NEW led \in Leds, NEW taken \in Takens, HistoryInv(led, taken),
         NEW n \in Server, role[n] = "candidate",
         NEW R \in SUBSET Server, Cardinality(R) >= MAJORITY,
         \A v \in R : <<term[n], v, n>> \in ballots,
         NEW t \in Nat, NEW i \in 1..Len(led[t]), t < term[n], MayCommit(led, taken, t, i)
  PROVE  Agree(log[n], led[t], i)
<1>1. TypeOK /\ log[n] \in Seq(Entry) /\ term[n] \in Nat /\ Written(log[n], led, term[n])
  BY ServerType DEF IInv, HistoryInv, LogsWritten
<1>2. PICK Q \in SUBSET Server :
        Cardinality(Q) >= MAJORITY /\ \A s \in Q : taken[s][t] >= i \/ term[s] <= t
  BY DEF MayCommit, Choosable
<1>3. PICK v \in Q \cap R : TRUE
  BY <1>2, MajoritiesMeet
<1> DEFINE b == <<term[n], v, n>>
<1>4. b[1] = term[n] /\ b[2] = v /\ b[3] = n /\ b \in ballots
  BY <1>3
<1> HIDE DEF b
<1>5. term[n] <= term[v]
  BY <1>4 DEF IInv, OneVotePerTerm
<1>6. /\ v \in Server /\ term[v] \in Nat /\ taken[v][t] \in Nat
      /\ Len(led[t]) \in Nat /\ DOMAIN led = Nat
  BY <1>1, <1>3, ServerType, TakenType, LedType DEF Leds
<1>7. i \in 1..taken[v][t]
  BY <1>1, <1>2, <1>3, <1>5, <1>6
<1>8. VoterSound(led, taken, b)
  BY <1>4 DEF HistoryInv, VotersKeep
<1>9. UpTo(LastTerm(log[n]), Len(log[n]), t, i)
  BY <1>4, <1>6, <1>7, <1>8 DEF VoterSound
<1> QED
  BY <1>1, <1>9, UpToKeeps DEF HistoryInv

LEMMA VotesMajority ==
  ASSUME IInv, NEW n \in Server, NEW m \in net, NEW rest, HandleVote(n, m, rest),
         Cardinality(votes[n]) + 1 >= MAJORITY
  PROVE  \E R \in SUBSET Server : /\ Cardinality(R) >= MAJORITY
                                  /\ \A v \in R : <<term[n], v, n>> \in ballots
<1>1. /\ m.kind = "vote" /\ m.to = n /\ m.term = term[n] /\ m.granted
      /\ m.from \notin votes[n] /\ m.from \in Server
  BY MessageType DEF HandleVote, Receives, IInv, TypeOK
<1> DEFINE R == votes[n] \cup {m.from}
<1>2. votes[n] \in SUBSET Server /\ IsFiniteSet(votes[n])
  BY ServerAssumption, FS_Subset DEF IInv, TypeOK
<1>3. Cardinality(R) = Cardinality(votes[n]) + 1
  BY <1>1, <1>2, FS_AddElement
<1>4. \A v \in R : <<term[n], v, n>> \in ballots
  BY <1>1 DEF IInv, VotesCast
<1> QED
  BY <1>1, <1>2, <1>3, <1>4

(* Nobody had led the term before its winner did. *)
LEMMA FirstToWin ==
  ASSUME IInv', NEW led \in Leds, NEW taken \in Takens, HistoryInv(led, taken), TypeOK,
         NEW n \in Server, role[n] = "candidate", won' = won \cup {<<term[n], n>>}
  PROVE  ~Won(term[n]) /\ led[term[n]] = <<>> /\ \A s \in Server : taken[s][term[n]] = 0
<1>1. term[n] \in Nat /\ DOMAIN led = Nat
  BY ServerType DEF Leds
<1>2. ASSUME NEW x \in Server, <<term[n], x>> \in won PROVE FALSE
  <2> DEFINE a == <<term[n], x>>
             b == <<term[n], n>>
  <2>1. a[1] = b[1] /\ a[2] = x /\ b[2] = n /\ b[1] = term[n]
    OBVIOUS
  <2>2. a \in won /\ a \in won' /\ b \in won'
    BY <1>2
  <2> HIDE DEF a, b
  <2>5. ElectionSafety'
    BY WinnersAgree, PTL
  <2>3. a[2] = b[2]
    BY <2>1, <2>2, <2>5 DEF ElectionSafety
  <2>4. a[1] = term[a[2]] => role[a[2]] # "candidate"
    BY <2>2 DEF HistoryInv, LeadersLead
  <2> QED
    BY <2>1, <2>3, <2>4
<1>3. ~Won(term[n])
  BY <1>2 DEF Won
<1>4. led[term[n]] = <<>>
  BY <1>1, <1>3 DEF HistoryInv, LogsWritten
<1>5. ASSUME NEW s \in Server PROVE taken[s][term[n]] = 0
  <2>1. taken[s][term[n]] <= Len(led[term[n]]) /\ taken[s][term[n]] \in Nat
    BY <1>1, TakenType DEF HistoryInv, TakenHeld
  <2> QED
    BY <1>4, <2>1
<1> QED
  BY <1>3, <1>4, <1>5

LEMMA WinAdvances ==
  ASSUME IInv, IInv', NEW led \in Leds, NEW taken \in Takens, HistoryInv(led, taken),
         NEW n \in Server, NEW m \in net, NEW rest \in SUBSET net,
         HandleVote(n, m, rest), Cardinality(votes[n]) + 1 >= MAJORITY
  PROVE  \E led2 \in Leds, taken2 \in Takens : Advance(led, taken, led2, taken2)
<1> DEFINE t == term[n]
           l == log[n]
           start == [q \in Server |-> Len(l) + 1]
<1>1. /\ UNCHANGED <<term, log, commitIndex, ballots>>
      /\ role[n] = "candidate" /\ role' = [role EXCEPT ![n] = "leader"]
      /\ match' = [match EXCEPT ![n] = [p \in Server |-> 0]]
      /\ net' = rest \cup BroadcastAppends(n, l, start)
      /\ won' = won \cup {<<t, n>>}
  BY DEF HandleVote, BecomeLeader, logVars, leaderVars
<1>2. /\ TypeOK /\ TypeOK' /\ role \in [Server -> {"follower", "candidate", "leader"}]
      /\ match \in [Server -> [Server -> Nat]]
  BY DEF IInv, TypeOK
<1>3. t \in Nat /\ l \in Seq(Entry) /\ Len(l) \in Nat /\ commitIndex[n] \in Nat
  BY <1>2, ServerType
<1>4. ~Won(t) /\ led[t] = <<>> /\ \A s \in Server : taken[s][t] = 0
  BY <1>1, <1>2, FirstToWin
<1>5. Agree(led[t], l, Len(led[t]))
  BY <1>3, <1>4 DEF Agree
<1>6. term'[n] = t
  BY <1>1
<1> HIDE DEF t, l
<1>7. PICK led2 \in Leds : /\ Grows(led, led2) /\ led2[t] = l
                            /\ \A u \in Nat : u # t => led2[u] = led[u]
  BY <1>3, <1>5, LedSet
<1>8. PICK taken2 \in Takens : /\ TakesMore(taken, taken2) /\ taken2[n][t] = Len(l)
                                /\ \A s \in Server : s # n => taken2[s] = taken[s]
  <2>1. taken[n][t] <= Len(l)
    BY <1>3, <1>4
  <2> QED
    BY <1>3, <1>6, <2>1, TakenSet
<1>9. Onward /\ CandidatesStay
  <2>1. \A s \in Server : term[s] \in Nat
    BY <1>2, ServerType
  <2> QED
    BY <1>1, <1>2, <2>1 DEF Onward, CandidatesStay
<1>10. Written(l, led2, t)
  <2>1. Written(l, led, t)
    BY DEF HistoryInv, LogsWritten, l, t
  <2> QED
    BY <1>3, <1>7, <2>1, WrittenStays
<1>11. ASSUME NEW s \in Server PROVE LogNext(led, taken, led2, taken2, s)
  <2>1. CASE s # n
    BY <1>1, <1>8, <2>1 DEF LogNext
  <2>2. CASE s = n
    <3>1. Agree(l, led2[t], taken2[n][t])
      BY <1>3, <1>7, <1>8, AgreeSame
    <3>2. \A u \in Nat : \A i \in 1..taken[n][u] : MayCommit(led, taken, u, i) => Agree(l, led[u], i)
      BY DEF HistoryInv, ServersKeep, Leds, l
    <3>3. log'[n] = l /\ term'[n] = t
      BY <1>1 DEF l, t
    <3> QED
      BY <1>10, <2>2, <3>1, <3>2, <3>3 DEF LogNext
  <2> QED BY <2>1, <2>2
<1>12. ASSUME NEW u \in Nat PROVE LedNext(led, led2, u)
  <2>1. CASE u # t
    BY <1>7, <2>1 DEF LedNext
  <2>2. CASE u = t
    <3>1. Won(u)'
      BY <1>1, <2>2 DEF Won
    <3> QED
      BY <1>7, <1>10, <2>2, <3>1 DEF LedNext
  <2> QED BY <2>1, <2>2
<1>13. ASSUME NEW w \in won' PROVE WonNext(led, taken, led2, w)
  <2>1. CASE w \in won
    BY <2>1 DEF WonNext
  <2>2. CASE w \notin won
    <3>1. w[1] = t /\ w[2] = n
      BY <1>1, <2>2
    <3>2. w[1] = term'[w[2]] /\ role'[w[2]] = "leader"
      BY <1>1, <1>2, <1>6, <3>1
    <3>3. PICK R \in SUBSET Server : /\ Cardinality(R) >= MAJORITY
                                     /\ \A v \in R : <<term[n], v, n>> \in ballots
      BY VotesMajority
    <3>4. ASSUME NEW u \in Nat, NEW i \in 1..Len(led[u]), u < w[1], MayCommit(led, taken, u, i)
          PROVE  Agree(led2[w[1]], led[u], i)
      <4>1. Agree(log[n], led[u], i)
        BY <1>1, <3>1, <3>3, <3>4, WinnerHolds DEF t
      <4> QED
        BY <1>7, <3>1, <4>1 DEF l
    <3>5. ASSUME NEW u \in Nat, u < w[1] PROVE led2[u] = led[u]
      BY <1>3, <1>7, <3>1, <3>5
    <3> QED
      BY <3>2, <3>4, <3>5 DEF WonNext
  <2> QED BY <2>1, <2>2
<1>14. ASSUME NEW s \in Server, role'[s] = "leader" PROVE LeaderNext(led, taken, led2, taken2, s)
  <2>1. CASE s # n
    <3>1. role[s] = "leader" /\ match'[s] = match[s]
      BY <1>1, <1>2, <1>14, <2>1
    <3>2. <<term[s], s>> \in won /\ term[s] \in Nat
      BY <1>2, <3>1, ServerType DEF HistoryInv, LeadersLead
    <3>3. term[s] # t
      BY <1>4, <3>2 DEF Won
    <3> QED
      BY <1>1, <1>7, <1>8, <2>1, <3>1, <3>2, <3>3 DEF LeaderNext
  <2>2. CASE s = n
    <3>1. ASSUME NEW p \in Peers(n) PROVE match'[n][p] <= taken2[p][t]
      <4>1. p \in Server
        BY DEF Peers
      <4>2. taken2[p][t] \in Nat /\ match'[n][p] = 0
        BY <1>1, <1>2, <1>3, <1>8, <4>1, TakenType
      <4> QED BY <4>2
    <3>2. term'[n] = t /\ log'[n] = l
      BY <1>1 DEF t, l
    <3>3. <<term'[n], n>> \in won'
      BY <1>1, <3>2
    <3> QED
      BY <1>7, <1>8, <2>2, <3>1, <3>2, <3>3 DEF LeaderNext
  <2> QED BY <2>1, <2>2
<1>15. \A s \in Server : Decided(led, taken, log[s], term[s], commitIndex[s])
  BY DEF HistoryInv, CommitsChosen
<1>16. ASSUME NEW s \in Server PROVE Agree(log[s], log[s], commitIndex[s])
  BY <1>2, <1>15, ServerType, DecidedWithin, AgreeSame
<1>17. ASSUME NEW x \in net', x \notin net PROVE MessageSound(led2, taken2, x)'
  <2>1. start \in [Server -> Nat \ {0}] /\ \A q \in Peers(n) : start[q] <= Len(l) + 1
    BY <1>3 DEF Peers
  <2>2. x \in BroadcastAppends(n, l, start)
    BY <1>1, <1>17
  <2> HIDE DEF start
  <2>3. \E u : u = term[n] /\ Won(u)'
    BY <1>1 DEF Won, t
  <2>4. Decided(led2, taken2, log[n], term[n], commitIndex[n])
    <3>1. term[n] <= term[n] /\ term[n] \in Nat /\ log[n] \in Seq(Entry)
      BY <1>3 DEF t, l
    <3> QED
      BY <1>3, <1>7, <1>8, <1>15, <1>16, <3>1, DecidedStays
  <2>5. led2[term[n]] = log[n] /\ log[n] \in Seq(Entry)
    BY <1>3, <1>7 DEF t, l
  <2>6. x \in BroadcastAppends(n, log[n], start) /\ \A q \in Peers(n) : start[q] <= Len(log[n]) + 1
    BY <2>1, <2>2 DEF l
  <2> QED
    BY <1>2, <2>1, <2>3, <2>4, <2>5, <2>6, BroadcastSound
<1>18. ASSUME NEW s \in Server PROVE CommitNext(led2, taken2, s)
  <2>1. commitIndex[s] \in Nat
    BY <1>2, ServerType
  <2> QED
    BY <1>1, <1>16, <2>1 DEF CommitNext
<1>19. Advance(led, taken, led2, taken2)
  BY <1>1, <1>7, <1>8, <1>9, <1>11, <1>12, <1>13, <1>14, <1>17, <1>18 DEF Advance
<1> QED
  BY <1>7, <1>8, <1>19

(* A log that its leader extends in its own term stays written. *)
LEMMA WrittenExtended ==
  ASSUME NEW led \in Leds, NEW l \in Seq(Entry), NEW l2 \in Seq(Entry), NEW t \in Nat,
         Written(l, led, t), Len(l2) = Len(l) + 1, Agree(l, l2, Len(l)),
         l2[Len(l2)].term = t, led[t] = l2
  PROVE  Written(l2, led, t)
<1> SUFFICES ASSUME NEW i \in 1..Len(l2)
             PROVE  l2[i].term <= t /\ Agree(l2, led[l2[i].term], i)
  BY DEF Written
<1>1. Len(l) \in Nat /\ Len(l2) \in Nat /\ i \in Nat
  OBVIOUS
<1>2. CASE i <= Len(l)
  <2>1. i \in 1..Len(l)
    BY <1>1, <1>2
  <2>2. l[i] = l2[i] /\ Agree(l2, l, i)
    BY <1>1, <1>2, <2>1, AgreeLess, AgreeBack DEF Agree
  <2>3. l[i].term <= t /\ Agree(l, led[l[i].term], i)
    BY <2>1 DEF Written
  <2> QED
    BY <2>2, <2>3, AgreeOn
<1>3. CASE ~(i <= Len(l))
  <2>1. i = Len(l2) /\ l2[i].term = t
    BY <1>1, <1>3
  <2>2. Agree(l2, l2, i)
    BY <1>1, <2>1, AgreeSame
  <2> QED
    BY <2>1, <2>2
<1> QED BY <1>2, <1>3

LEMMA ClientAdvances ==
  ASSUME IInv, IInv', NEW led \in Leds, NEW taken \in Takens, HistoryInv(led, taken),
         NEW n \in Server, ClientWrite(n)
  PROVE  \E led2 \in Leds, taken2 \in Takens : Advance(led, taken, led2, taken2)
<1> DEFINE t == term[n]
           l == log[n]
           e == [term |-> t, seq |-> <<n, Len(history[n]) + 1>>]
           l2 == Append(l, e)
<1>1. /\ UNCHANGED <<role, term, won, match, commitIndex, ballots>>
      /\ role[n] = "leader" /\ log' = [log EXCEPT ![n] = l2]
      /\ net' = net \cup BroadcastAppends(n, l2, next[n])
  BY DEF ClientWrite, electionVars, ghostVars, leaderVars
<1>2. /\ TypeOK /\ TypeOK' /\ log \in [Server -> Seq(Entry)]
      /\ next[n] \in [Server -> Nat \ {0}] /\ Len(history[n]) + 1 \in Nat
  <2>1. TypeOK /\ TypeOK'
    BY DEF IInv
  <2>2. log \in [Server -> Seq(Entry)] /\ next[n] \in [Server -> Nat \ {0}]
    BY <2>1 DEF TypeOK
  <2>3. history[n] \in Seq(Row)
    BY <2>1 DEF TypeOK
  <2> QED
    BY <2>1, <2>2, <2>3
<1>3. t \in Nat /\ l \in Seq(Entry) /\ Len(l) \in Nat /\ commitIndex[n] \in Nat
  BY <1>2, ServerType
<1>4. e \in Entry /\ e.term = t
  BY <1>2, <1>3 DEF Entry, Seqs
<1>5. /\ <<t, n>> \in won /\ led[t] = l /\ taken[n][t] = Len(l)
      /\ \A p \in Peers(n) : match[n][p] <= taken[p][t]
  BY <1>1 DEF HistoryInv, LeadersLead
<1>6. /\ \A q \in Peers(n) : next[n][q] <= Len(l) + 1
      /\ Written(l, led, t)
  BY <1>1 DEF IInv, NextWithinLog, HistoryInv, LogsWritten
<1>7. term'[n] = t
  BY <1>1
<1> HIDE DEF t, l, e
<1>8. l2 \in Seq(Entry) /\ Len(l2) = Len(l) + 1 /\ Len(l2) \in Nat /\ l2[Len(l2)].term = t
  BY <1>3, <1>4
<1>9. Agree(l, l2, Len(l))
  BY <1>3, <1>4 DEF Agree
<1> HIDE DEF l2
<1>10. PICK led2 \in Leds : /\ Grows(led, led2) /\ led2[t] = l2
                            /\ \A u \in Nat : u # t => led2[u] = led[u]
  BY <1>3, <1>5, <1>8, <1>9, LedSet
<1>11. PICK taken2 \in Takens : /\ TakesMore(taken, taken2) /\ taken2[n][t] = Len(l2)
                                /\ \A s \in Server : s # n => taken2[s] = taken[s]
  <2>1. taken[n][t] <= Len(l2)
    BY <1>3, <1>5, <1>8
  <2> QED
    BY <1>3, <1>7, <1>8, <2>1, TakenSet
<1>12. Written(l2, led2, t)
  <2>1. Written(l, led2, t)
    BY <1>3, <1>6, <1>10, WrittenStays
  <2> QED
    BY <1>3, <1>8, <1>9, <1>10, <2>1, WrittenExtended
<1>13. log'[n] = l2 /\ \A s \in Server : s # n => log'[s] = log[s]
  BY <1>1, <1>2
<1>14. Onward /\ CandidatesStay
  <2>1. \A s \in Server : term[s] \in Nat
    BY <1>2, ServerType
  <2>2. \A s \in Server : role[s] = "candidate" => s # n
    BY <1>1
  <2> QED
    BY <1>1, <1>13, <2>1, <2>2 DEF Onward, CandidatesStay
<1>15. ASSUME NEW s \in Server PROVE LogNext(led, taken, led2, taken2, s)
  <2>1. CASE s # n
    BY <1>11, <1>13, <2>1 DEF LogNext
  <2>2. CASE s = n
    <3>1. Agree(l2, led2[t], taken2[n][t])
      BY <1>8, <1>10, <1>11, AgreeSame
    <3>2. ASSUME NEW u \in Nat, NEW i \in 1..taken[n][u], MayCommit(led, taken, u, i)
          PROVE  Agree(l2, led[u], i)
      <4>1. Agree(l, led[u], i)
        BY <3>2 DEF HistoryInv, ServersKeep, Leds, l
      <4>2. i \in Nat /\ led[u] \in Seq(Entry)
        BY LedType
      <4>3. Agree(led[u], l, i)
        BY <4>1, AgreeBack
      <4>4. Agree(led[u], l2, i)
        BY <1>3, <1>8, <1>9, <4>2, <4>3, AgreeGrown
      <4> QED
        BY <4>4, AgreeBack
    <3> QED
      BY <1>7, <1>12, <1>13, <2>2, <3>1, <3>2 DEF LogNext
  <2> QED BY <2>1, <2>2
<1>16. ASSUME NEW u \in Nat PROVE LedNext(led, led2, u)
  <2>1. CASE u # t
    BY <1>10, <2>1 DEF LedNext
  <2>2. CASE u = t
    <3>1. Won(u)'
      BY <1>1, <1>5, <2>2 DEF Won
    <3> QED
      BY <1>10, <1>12, <2>2, <3>1 DEF LedNext
  <2> QED BY <2>1, <2>2
<1>17. ASSUME NEW s \in Server, role'[s] = "leader" PROVE LeaderNext(led, taken, led2, taken2, s)
  <2>1. CASE s # n
    <3>1. <<term[s], s>> \in won /\ term[s] \in Nat
      BY <1>1, <1>2, <1>17, ServerType DEF HistoryInv, LeadersLead
    <3>2. term[s] # t
      <4> SUFFICES ASSUME term[s] = t PROVE FALSE
        OBVIOUS
      <4> DEFINE a == <<term[s], s>>
                 b == <<t, n>>
      <4>1. a[1] = b[1] /\ a[2] = s /\ b[2] = n /\ a \in won /\ b \in won
        BY <1>5, <3>1
      <4> HIDE DEF a, b
      <4>2. a[2] = b[2]
        BY <4>1, WinnersAgree DEF ElectionSafety
      <4> QED
        BY <2>1, <4>1, <4>2
    <3> QED
      BY <1>1, <1>10, <1>11, <1>13, <1>17, <2>1, <3>1, <3>2 DEF LeaderNext
  <2>2. CASE s = n
    <3>1. ASSUME NEW p \in Peers(n) PROVE match'[n][p] <= taken2[p][t]
      BY <1>1, <1>5, <1>11 DEF Peers
    <3> QED
      BY <1>1, <1>5, <1>7, <1>10, <1>11, <1>13, <2>2, <3>1 DEF LeaderNext
  <2> QED BY <2>1, <2>2
<1>18. \A s \in Server : Decided(led, taken, log[s], term[s], commitIndex[s])
  BY DEF HistoryInv, CommitsChosen
<1>19. ASSUME NEW s \in Server PROVE Agree(log[s], log'[s], commitIndex[s])
  <2>1. commitIndex[s] <= Len(log[s]) /\ log[s] \in Seq(Entry) /\ commitIndex[s] \in Nat
    BY <1>2, <1>18, ServerType, DecidedWithin
  <2>2. CASE s # n
    BY <1>13, <2>1, <2>2, AgreeSame
  <2>3. CASE s = n
    BY <1>3, <1>8, <1>9, <1>13, <2>1, <2>3, AgreeLess DEF l
  <2> QED BY <2>2, <2>3
<1>20. ASSUME NEW x \in net', x \notin net PROVE MessageSound(led2, taken2, x)'
  <2>1. \A q \in Peers(n) : next[n][q] <= Len(l2) + 1
    <3>1. \A q \in Peers(n) : next[n][q] \in Nat
      BY <1>2 DEF Peers
    <3> QED
      BY <1>3, <1>6, <1>8, <3>1
  <2>2. x \in BroadcastAppends(n, l2, next[n])
    BY <1>1, <1>20
  <2>3. \E u : u = term[n] /\ Won(u)'
    BY <1>1, <1>5 DEF Won, t
  <2>4. Decided(led2, taken2, l2, term[n], commitIndex[n])
    <3>1. term[n] <= term[n] /\ term[n] \in Nat /\ log[n] \in Seq(Entry)
      BY <1>3 DEF t, l
    <3>2. Agree(log[n], l2, commitIndex[n])
      BY <1>13, <1>19
    <3> QED
      BY <1>3, <1>8, <1>10, <1>11, <1>18, <3>1, <3>2, DecidedStays
  <2>5. led2[term[n]] = l2
    BY <1>10 DEF t
  <2> QED
    BY <1>2, <1>8, <2>1, <2>2, <2>3, <2>4, <2>5, BroadcastSound
<1>21. ASSUME NEW s \in Server PROVE CommitNext(led2, taken2, s)
  <2>1. commitIndex[s] \in Nat
    BY <1>2, ServerType
  <2> QED
    BY <1>1, <1>19, <2>1 DEF CommitNext
<1>22. \A w \in won' : WonNext(led, taken, led2, w)
  BY <1>1 DEF WonNext
<1>23. Advance(led, taken, led2, taken2)
  BY <1>1, <1>10, <1>11, <1>14, <1>15, <1>16, <1>17, <1>20, <1>21, <1>22 DEF Advance
<1> QED
  BY <1>23

(* An append whose previous entry matches: what it carries of the log of   *)
(* its leader, and where it fits.                                          *)
LEMMA AppendFits ==
  ASSUME TypeOK, NEW led \in Leds, NEW taken \in Takens, HistoryInv(led, taken),
         NEW n \in Server, NEW m \in net, m.kind = "append", PrevOk(log[n], m)
  PROVE  /\ m.term \in Nat /\ m.prevIndex \in Nat /\ m.entries \in Seq(Entry)
         /\ m.leaderCommit \in Nat /\ Len(m.entries) \in Nat
         /\ led[m.term] \in Seq(Entry) /\ Len(led[m.term]) \in Nat
         /\ Won(m.term) /\ Written(led[m.term], led, m.term)
         /\ Carries(led[m.term], m.prevIndex, m.entries)
         /\ m.prevIndex <= Len(log[n])
         /\ m.prevIndex > 0 => log[n][m.prevIndex].term = led[m.term][m.prevIndex].term
         /\ m.leaderCommit <= m.prevIndex + Len(m.entries)
         /\ Decided(led, taken, led[m.term], m.term, m.leaderCommit)
<1>1. m \in Messages
  BY DEF TypeOK
<1>2. /\ m.term \in Nat /\ m.prevIndex \in Nat /\ m.entries \in Seq(Entry)
      /\ m.leaderCommit \in Nat
  BY <1>1, MessageType
<1>3. Len(m.entries) \in Nat /\ Len(log[n]) \in Nat
  BY <1>2, ServerType
<1>4. led[m.term] \in Seq(Entry) /\ Len(led[m.term]) \in Nat
  BY <1>2, LedType
<1>5. AppendSound(led, taken, m)
  BY DEF HistoryInv, MessagesSound, MessageSound
<1>6. Written(led[m.term], led, m.term)
  BY <1>2 DEF HistoryInv, LogsWritten, Leds
<1>7. m.prevIndex <= Len(log[n])
  BY <1>2, <1>3 DEF PrevOk
<1>8. m.prevIndex > 0 => log[n][m.prevIndex].term = led[m.term][m.prevIndex].term
  BY <1>2, <1>5 DEF PrevOk, AppendSound
<1>9. Carries(led[m.term], m.prevIndex, m.entries)
  BY <1>5 DEF AppendSound, Carries
<1> QED
  BY <1>2, <1>3, <1>4, <1>5, <1>6, <1>7, <1>8, <1>9 DEF AppendSound

(* What may commit is not cut by an append of a leader of its term or a    *)
(* later one, which holds it too.                                          *)
LEMMA AppendKeeps ==
  ASSUME TypeOK, NEW led \in Leds, NEW taken \in Takens, HistoryInv(led, taken),
         NEW n \in Server, NEW m \in net, m.kind = "append", PrevOk(log[n], m),
         NEW t \in Nat, NEW i \in 1..Len(led[t]), t <= m.term, MayCommit(led, taken, t, i),
         NEW c \in Nat, c <= i, Agree(log[n], led[t], c)
  PROVE  Agree(Merged(log[n], m.prevIndex, m.entries), led[t], c)
<1>1. /\ m.term \in Nat /\ m.prevIndex \in Nat /\ m.entries \in Seq(Entry)
      /\ led[m.term] \in Seq(Entry) /\ Won(m.term) /\ m.prevIndex <= Len(log[n])
      /\ Carries(led[m.term], m.prevIndex, m.entries)
  BY AppendFits
<1>2. led[t] \in Seq(Entry) /\ Len(led[t]) \in Nat /\ log[n] \in Seq(Entry)
  BY LedType, ServerType
<1>3. i \in Nat /\ i <= Len(led[t])
  BY <1>2
<1>4. Agree(led[m.term], led[t], i)
  <2>1. CASE t = m.term
    BY <1>1, <1>2, <1>3, <2>1, AgreeSame
  <2>2. CASE t < m.term
    BY <1>1, <2>2 DEF HistoryInv, LeadersKeep, Leds
  <2> QED
    BY <1>1, <2>1, <2>2
<1>5. Agree(led[m.term], led[t], c)
  BY <1>1, <1>2, <1>3, <1>4, AgreeLess
<1> QED
  BY <1>1, <1>2, <1>5, MergedKeeps

(* A log that takes an append keeps what it took before, what it committed *)
(* and what may commit, and holds what the append carried.                 *)
LEMMA AppendTaken ==
  ASSUME TypeOK, NEW led \in Leds, NEW taken \in Takens, HistoryInv(led, taken),
         NEW n \in Server, NEW m \in net, m.kind = "append", PrevOk(log[n], m),
         m.term >= term[n]
  PROVE  LET r == Merged(log[n], m.prevIndex, m.entries) IN
         /\ r \in Seq(Entry) /\ Written(r, led, m.term)
         /\ Agree(r, led[m.term], m.prevIndex + Len(m.entries))
         /\ Agree(r, led[m.term], taken[n][m.term])
         /\ Agree(log[n], r, commitIndex[n])
         /\ \A t \in Nat : \A i \in 1..taken[n][t] :
              MayCommit(led, taken, t, i) => Agree(r, led[t], i)
<1> DEFINE r  == Merged(log[n], m.prevIndex, m.entries)
           tl == led[m.term]
<1>1. /\ m.term \in Nat /\ m.prevIndex \in Nat /\ m.entries \in Seq(Entry)
      /\ tl \in Seq(Entry) /\ Len(tl) \in Nat /\ m.prevIndex <= Len(log[n])
      /\ Written(tl, led, m.term) /\ Carries(tl, m.prevIndex, m.entries)
      /\ m.prevIndex > 0 => log[n][m.prevIndex].term = tl[m.prevIndex].term
  BY AppendFits
<1>2. /\ log[n] \in Seq(Entry) /\ Len(log[n]) \in Nat /\ term[n] \in Nat /\ commitIndex[n] \in Nat
      /\ DOMAIN led = Nat
  BY ServerType DEF Leds
<1>3. Written(log[n], led, term[n])
  BY DEF HistoryInv, LogsWritten
<1>4. r \in Seq(Entry)
  BY <1>1, <1>2, MergedType
<1>5. Agree(r, tl, m.prevIndex + Len(m.entries))
  BY <1>1, <1>2, <1>3, MergedTakes
<1>6. r = log[n] \/ Agree(r, tl, Len(r))
  BY <1>1, <1>2, <1>3, MergedEither
<1>7. Written(r, led, m.term)
  <2>1. CASE r = log[n]
    BY <1>1, <1>2, <1>3, <2>1, GrowsSame, WrittenStays
  <2>2. CASE Agree(r, tl, Len(r))
    BY <1>1, <1>4, <2>2, WrittenAgree
  <2> QED BY <1>6, <2>1, <2>2
<1>8. Agree(r, tl, taken[n][m.term])
  <2> DEFINE k == taken[n][m.term]
  <2>1. k \in Nat /\ k <= Len(tl) /\ (term[n] < m.term => k = 0)
        /\ (term[n] = m.term => Agree(log[n], tl, k))
    BY <1>1, <1>2, TakenType DEF HistoryInv, TakenHeld
  <2> HIDE DEF k, tl, r
  <2>2. ASSUME term[n] < m.term PROVE Agree(r, tl, k)
    <3>1. k = 0 /\ Len(r) \in Nat
      BY <1>4, <2>1, <2>2
    <3> QED
      BY <1>1, <3>1 DEF Agree
  <2>3. ASSUME term[n] = m.term PROVE Agree(r, tl, k)
    <3>1. Agree(tl, tl, k)
      BY <1>1, <2>1, AgreeSame
    <3> QED
      BY <1>1, <1>2, <2>1, <2>3, <3>1, MergedKeeps DEF r
  <2>4. term[n] < m.term \/ term[n] = m.term
    BY <1>1, <1>2
  <2> QED
    BY <2>2, <2>3, <2>4 DEF k
<1>9. Agree(log[n], r, commitIndex[n])
  <2> DEFINE c == commitIndex[n]
  <2>1. Decided(led, taken, log[n], term[n], c)
    BY DEF HistoryInv, CommitsChosen
  <2>2. CASE c = 0
    BY <1>2, <1>4, <2>2 DEF Agree
  <2>3. ASSUME NEW t \in Nat, NEW i \in 1..Len(led[t]), t <= term[n], c <= i,
               led[t][i].term = t, Chosen(taken, t, i), Agree(log[n], led[t], c)
        PROVE  Agree(log[n], r, c)
    <3>1. t <= m.term
      BY <1>1, <1>2, <2>3
    <3>2. MayCommit(led, taken, t, i)
      BY <2>3, ChosenChoosable DEF MayCommit
    <3>3. Agree(r, led[t], c)
      BY <1>2, <2>3, <3>1, <3>2, AppendKeeps
    <3> QED
      BY <2>3, <3>3, AgreeBack, AgreeOn
  <2> QED
    BY <1>2, <2>1, <2>2, <2>3 DEF Decided
<1>10. ASSUME NEW t \in Nat, NEW i \in 1..taken[n][t], MayCommit(led, taken, t, i)
       PROVE  Agree(r, led[t], i)
  <2>1. taken[n][t] \in Nat /\ Len(led[t]) \in Nat /\ taken[n][t] <= Len(led[t])
        /\ (term[n] < t => taken[n][t] = 0)
    BY <1>2, TakenType, LedType DEF HistoryInv, TakenHeld
  <2>2. i \in 1..Len(led[t]) /\ i \in Nat /\ t <= m.term /\ i <= i
    BY <1>1, <1>2, <2>1
  <2>3. Agree(log[n], led[t], i)
    BY <1>2, <1>10 DEF HistoryInv, ServersKeep
  <2> QED
    BY <1>10, <2>2, <2>3, AppendKeeps
<1> QED
  BY <1>4, <1>5, <1>7, <1>8, <1>9, <1>10

LEMMA AppendAdvances ==
  ASSUME IInv, TypeOK', NEW led \in Leds, NEW taken \in Takens, HistoryInv(led, taken),
         NEW n \in Server, NEW m \in net, NEW rest \in SUBSET net,
         HandleAppend(n, m, rest), PrevOk(log[n], m)
  PROVE  \E led2 \in Leds, taken2 \in Takens : Advance(led, taken, led2, taken2)
<1> DEFINE u == m.term
           c == m.prevIndex + Len(m.entries)
           r == Merged(log[n], m.prevIndex, m.entries)
           commit == IF m.leaderCommit > commitIndex[n]
                     THEN Min2(m.leaderCommit, Len(r)) ELSE commitIndex[n]
           k == Max2(taken[n][u], c)
<1>1. /\ UNCHANGED <<won, match, ballots>>
      /\ role' = [role EXCEPT ![n] = "follower"]
      /\ term' = [term EXCEPT ![n] = TermAfter(n, m)]
      /\ log' = [log EXCEPT ![n] = r]
      /\ commitIndex' = [commitIndex EXCEPT ![n] = commit]
      /\ net' = rest \cup {AppendResp(n, m, TRUE, c)}
      /\ m.kind = "append" /\ m.to = n /\ m.term >= term[n]
  BY DEF HandleAppend, Receives, AdoptTermExceptRole, ghostVars, leaderVars
<1>2. /\ TypeOK /\ role \in [Server -> {"follower", "candidate", "leader"}]
      /\ term \in [Server -> Nat] /\ log \in [Server -> Seq(Entry)]
      /\ commitIndex \in [Server -> Nat]
  BY DEF IInv, TypeOK
<1>3. /\ u \in Nat /\ c \in Nat /\ led[u] \in Seq(Entry) /\ Len(led[u]) \in Nat
      /\ c <= Len(led[u]) /\ m.leaderCommit \in Nat /\ m.leaderCommit <= c
      /\ Decided(led, taken, led[u], u, m.leaderCommit)
  BY <1>1, <1>2, AppendFits DEF Carries
<1>4. /\ r \in Seq(Entry) /\ Written(r, led, u) /\ Agree(r, led[u], c)
      /\ Agree(r, led[u], taken[n][u]) /\ Agree(log[n], r, commitIndex[n])
      /\ \A t \in Nat : \A i \in 1..taken[n][t] :
           MayCommit(led, taken, t, i) => Agree(r, led[t], i)
  BY <1>1, <1>2, AppendTaken
<1>5. /\ term'[n] = u /\ term[n] <= u /\ TermAfter(n, m) = u
      /\ log'[n] = r /\ commitIndex'[n] = commit
      /\ \A s \in Server : s # n => /\ term'[s] = term[s] /\ log'[s] = log[s]
                                    /\ commitIndex'[s] = commitIndex[s] /\ role'[s] = role[s]
  BY <1>1, <1>2, <1>3 DEF TermAfter, Higher
<1>6. taken[n][u] \in Nat /\ k \in Nat /\ taken[n][u] <= k /\ c <= k /\ k \in {taken[n][u], c}
  BY <1>3, TakenType DEF Max2
<1> HIDE DEF u, c, r, k
<1>7. PICK taken2 \in Takens : /\ TakesMore(taken, taken2) /\ taken2[n][u] = k
                               /\ \A s \in Server : s # n => taken2[s] = taken[s]
  BY <1>3, <1>5, <1>6, TakenSet
<1>8. Agree(r, led[u], taken2[n][u])
  BY <1>4, <1>6, <1>7
<1>9. Onward /\ CandidatesStay
  <2>1. \A s \in Server : term[s] \in Nat
    BY <1>2
  <2>2. role'[n] = "follower"
    BY <1>1, <1>2
  <2> QED
    BY <1>1, <1>5, <2>1, <2>2 DEF Onward, CandidatesStay
<1>10. ASSUME NEW s \in Server PROVE LogNext(led, taken, led, taken2, s)
  <2>1. CASE s # n
    BY <1>5, <1>7, <2>1 DEF LogNext
  <2>2. CASE s = n
    BY <1>4, <1>5, <1>8, <2>2 DEF LogNext
  <2> QED BY <2>1, <2>2
<1>11. ASSUME NEW s \in Server, role'[s] = "leader" PROVE LeaderNext(led, taken, led, taken2, s)
  <2>1. s # n
    BY <1>1, <1>2, <1>11
  <2> QED
    BY <1>1, <1>5, <1>7, <1>11, <2>1 DEF LeaderNext
<1>12. ASSUME NEW x \in net', x \notin net PROVE MessageSound(led, taken2, x)'
  <2>1. x = AppendResp(n, m, TRUE, c)
    BY <1>1, <1>12
  <2>2. x.kind = "append-resp" /\ x.from = n /\ x.term = u /\ x.matchIndex = c
    BY <1>5, <2>1 DEF AppendResp
  <2>3. x.matchIndex <= taken2[x.from][x.term]
    BY <1>6, <1>7, <2>2
  <2> QED
    BY <2>2, <2>3 DEF MessageSound
<1>13. ASSUME NEW s \in Server PROVE CommitNext(led, taken2, s)
  <2>1. log[s] \in Seq(Entry) /\ commitIndex[s] \in Nat
    BY <1>2
  <2>2. CASE s # n
    <3>1. Decided(led, taken, log[s], term[s], commitIndex[s])
      BY DEF HistoryInv, CommitsChosen
    <3>2. Agree(log[s], log'[s], commitIndex[s])
      BY <1>5, <2>1, <2>2, <3>1, DecidedWithin, AgreeSame
    <3> QED
      BY <1>5, <2>1, <2>2, <3>2 DEF CommitNext
  <2>3. CASE s = n /\ ~(m.leaderCommit > commitIndex[n])
    BY <1>4, <1>5, <2>1, <2>3 DEF CommitNext
  <2>4. CASE s = n /\ m.leaderCommit > commitIndex[n]
    <3>1. m.leaderCommit <= Len(r) /\ Len(r) \in Nat
      <4>1. c <= Len(r) /\ Len(r) \in Nat
        BY <1>4 DEF Agree
      <4> QED
        BY <1>3, <4>1
    <3>2. commit = m.leaderCommit
      BY <1>3, <2>4, <3>1 DEF Min2
    <3>3. Agree(led[u], r, m.leaderCommit)
      BY <1>3, <1>4, AgreeLess, AgreeBack
    <3>4. Decided(led, taken2, r, u, m.leaderCommit)
      <4>1. u <= u
        BY <1>3
      <4> QED
        BY <1>3, <1>4, <1>7, <3>3, <4>1, GrowsSame, DecidedStays
    <3>5. commitIndex[n] <= m.leaderCommit
      BY <1>3, <2>1, <2>4
    <3> QED
      BY <1>4, <1>5, <2>4, <3>2, <3>4, <3>5 DEF CommitNext
  <2> QED BY <2>2, <2>3, <2>4
<1>14. /\ \A t \in Nat : LedNext(led, led, t)
       /\ \A w \in won' : WonNext(led, taken, led, w)
  BY <1>1 DEF LedNext, WonNext
<1>15. Advance(led, taken, led, taken2)
  BY <1>1, <1>7, <1>9, <1>10, <1>11, <1>12, <1>13, <1>14, GrowsSame DEF Advance
<1> QED
  BY <1>7, <1>15

(* An append whose previous entry does not match changes no log. *)
LEMMA MismatchAdvances ==
  ASSUME IInv, TypeOK', NEW led \in Leds, NEW taken \in Takens, HistoryInv(led, taken),
         NEW n \in Server, NEW m \in net, NEW rest \in SUBSET net,
         HandleAppend(n, m, rest), ~PrevOk(log[n], m)
  PROVE  Advance(led, taken, led, taken)
<1>1. /\ UNCHANGED <<log, won, match, commitIndex, ballots>>
      /\ role' = [role EXCEPT ![n] = "follower"]
      /\ term' = [term EXCEPT ![n] = TermAfter(n, m)]
      /\ net' = rest \cup {AppendResp(n, m, FALSE, 0)}
      /\ m.term >= term[n]
  BY DEF HandleAppend, AdoptTermExceptRole, ghostVars, leaderVars, logVars
<1>2. /\ TypeOK /\ role \in [Server -> {"follower", "candidate", "leader"}]
      /\ term \in [Server -> Nat] /\ m.term \in Nat
  BY MessageType DEF IInv, TypeOK
<1>3. ASSUME NEW s \in Server PROVE Calm(taken, s)
  <2>1. role[s] = "leader" => \A p \in Peers(s) : match[s][p] <= taken[p][term[s]]
    BY DEF HistoryInv, LeadersLead
  <2>2. CASE s = n
    BY <1>1, <1>2, <2>2 DEF Calm, TermAfter, Higher
  <2>3. CASE s # n
    BY <1>1, <1>2, <2>1, <2>3 DEF Calm
  <2> QED BY <2>2, <2>3
<1>4. ASSUME NEW x \in net', x \notin net PROVE MessageSound(led, taken, x)'
  <2>1. x.kind = "append-resp" /\ ~x.ok
    BY <1>1, <1>4 DEF AppendResp
  <2> QED
    BY <2>1, SilentSound
<1> QED
  BY <1>1, <1>2, <1>3, <1>4, CalmAdvances

-----------------------------------------------------------------------------
(* Every step advances history, so HistoryInv always holds of some history. *)

HistoryExists == \E led \in Leds, taken \in Takens : HistoryInv(led, taken)

LEMMA StepAdvances ==
  ASSUME IInv, IInv', Next, NEW led \in Leds, NEW taken \in Takens, HistoryInv(led, taken)
  PROVE  \E led2 \in Leds, taken2 \in Takens : Advance(led, taken, led2, taken2)
<1>0. TypeOK'
  BY DEF IInv
<1> PICK n \in Server :
      \/ (Timer(n) \/ ClientWrite(n) \/ Kill(n) \/ Revive(n)) /\ UNCHANGED dups
      \/ \E m \in net : Deliver(n, m)
  BY DEF Next
<1>1. CASE StartElection(n)
  BY <1>0, <1>1, StartAdvances
<1>2. CASE ElectionTimerIgnored(n) \/ TimerLost(n) \/ Kill(n) \/ Revive(n) \/ Heartbeat(n)
  BY <1>0, <1>2, QuietAdvances
<1>3. CASE ClientWrite(n)
  BY <1>3, ClientAdvances
<1>4. ASSUME NEW m \in net, Deliver(n, m)
      PROVE  \E led2 \in Leds, taken2 \in Takens : Advance(led, taken, led2, taken2)
  <2>1. PICK rest \in SUBSET net : Handle(n, m, rest)
    BY <1>4 DEF Deliver
  <2>2. CASE HandleReqVote(n, m, rest)
    BY <1>0, <2>2, ReqVoteAdvances
  <2>3. CASE HandleVote(n, m, rest)
    BY <1>0, <2>3, VoteCountedAdvances, WinAdvances
  <2>4. CASE \/ RefuseAppend(n, m, rest) \/ HandleAppendRefused(n, m, rest)
             \/ HandleHigherResponse(n, m, rest)
    BY <1>0, <2>4, StaleAdvances
  <2>5. CASE HandleAppend(n, m, rest)
    BY <1>0, <2>5, AppendAdvances, MismatchAdvances
  <2>6. CASE HandleAppendOk(n, m, rest)
    BY <1>0, <2>6, AppendOkAdvances
  <2> QED
    BY <2>1, <2>2, <2>3, <2>4, <2>5, <2>6 DEF Handle
<1> QED
  BY <1>1, <1>2, <1>3, <1>4 DEF Timer

LEMMA StutterAdvances ==
  ASSUME IInv, IInv', UNCHANGED vars, NEW led \in Leds, NEW taken \in Takens,
         HistoryInv(led, taken)
  PROVE  Advance(led, taken, led, taken)
<1>1. UNCHANGED <<role, term, log, won, ballots, match, commitIndex, net>>
  BY DEF vars, electionVars, ghostVars, logVars, leaderVars
<1>2. TypeOK /\ TypeOK'
  BY DEF IInv
<1>3. ASSUME NEW s \in Server PROVE Calm(taken, s)
  <2>1. role[s] = "leader" => \A p \in Peers(s) : match[s][p] <= taken[p][term[s]]
    BY DEF HistoryInv, LeadersLead
  <2>2. term[s] \in Nat
    BY <1>2, ServerType
  <2> QED
    BY <1>1, <2>1, <2>2 DEF Calm
<1> QED
  BY <1>1, <1>2, <1>3, CalmAdvances

LEMMA InitHistory ==
  ASSUME Init PROVE HistoryExists
<1> DEFINE led == [t \in Nat |-> <<>>]
           taken == [s \in Server |-> [t \in Nat |-> 0]]
<1>1. led \in Leds /\ DOMAIN led = Nat /\ \A t \in Nat : led[t] = <<>>
  BY EmptySeq DEF Leds
<1>2. taken \in Takens /\ \A s \in Server, t \in Nat : taken[s][t] = 0
  BY DEF Takens
<1> HIDE DEF led, taken
<1>3. \A s \in Server : role[s] = "follower" /\ term[s] = 0 /\ log[s] = <<>> /\ commitIndex[s] = 0
  BY DEF Init
<1>4. net = {} /\ ballots = {} /\ won = {}
  BY DEF Init
<1>5. \A l2, u : Written(<<>>, l2, u)
  BY DEF Written
<1>6. LogsWritten(led) /\ LeadersLead(led, taken)
  BY <1>1, <1>3, <1>4, <1>5 DEF LogsWritten, LeadersLead
<1>7. TakenHeld(led, taken)
  BY <1>1, <1>2, <1>3 DEF TakenHeld, Agree
<1>8. MessagesSound(led, taken) /\ VotersKeep(led, taken)
  BY <1>4 DEF MessagesSound, VotersKeep
<1>9. LeadersKeep(led, taken)
  BY <1>1 DEF LeadersKeep
<1>10. ServersKeep(led, taken)
  BY <1>1, <1>2 DEF ServersKeep
<1>11. CommitsChosen(led, taken)
  BY <1>3 DEF CommitsChosen, Decided
<1> QED
  BY <1>1, <1>2, <1>6, <1>7, <1>8, <1>9, <1>10, <1>11 DEF HistoryExists, HistoryInv

LEMMA StepHistory ==
  ASSUME IInv, HistoryExists, [Next]_vars, IInv' PROVE HistoryExists'
<1>1. PICK led \in Leds, taken \in Takens : HistoryInv(led, taken)
  BY DEF HistoryExists
<1>2. PICK led2 \in Leds, taken2 \in Takens : Advance(led, taken, led2, taken2)
  BY <1>1, StepAdvances, StutterAdvances
<1>3. HistoryInv(led2, taken2)'
  BY <1>1, <1>2, AdvanceKeeps DEF IInv
<1> QED
  BY <1>3 DEF HistoryExists

(* In every reachable state there is a history of which HistoryInv holds.  *)
THEOREM HistoryCorrect == Spec => []HistoryExists
<1>1. Init => HistoryExists
  BY InitHistory
<1>2. IInv /\ HistoryExists /\ [Next]_vars /\ IInv' => HistoryExists'
  BY StepHistory
<1> QED
  BY <1>1, <1>2, Invariance, PTL DEF Spec

-----------------------------------------------------------------------------
(* What the history says of the logs. *)

LEMMA AgreePrefix ==
  ASSUME NEW a \in Seq(Entry), NEW b \in Seq(Entry), NEW i \in Nat, Agree(a, b, i)
  PROVE  SubSeq(a, 1, i) = SubSeq(b, 1, i)
<1>1. i <= Len(a) /\ i <= Len(b) /\ Len(a) \in Nat /\ Len(b) \in Nat
  BY DEF Agree
<1> DEFINE x == SubSeq(a, 1, i)
           y == SubSeq(b, 1, i)
<1>2. /\ x \in Seq(Entry) /\ Len(x) = i /\ \A j \in 1..i : x[j] = a[j]
      /\ y \in Seq(Entry) /\ Len(y) = i /\ \A j \in 1..i : y[j] = b[j]
  BY <1>1
<1>3. \A j \in 1..i : x[j] = y[j]
  BY <1>2 DEF Agree
<1> HIDE DEF x, y
<1>4. x = y
  BY <1>2, <1>3, SeqEqual
<1> QED
  BY <1>4 DEF x, y

(* Two logs that lie under chosen entries agree as far as both do. *)
LEMMA DecidedAgree ==
  ASSUME NEW led \in Leds, NEW taken \in Takens, HistoryInv(led, taken),
         NEW l1, NEW l2, NEW u1, NEW u2, NEW c1 \in Nat, NEW c2 \in Nat,
         Decided(led, taken, l1, u1, c1), Decided(led, taken, l2, u2, c2),
         NEW j \in 1..c1, j \in 1..c2
  PROVE  l1[j] = l2[j]
<1>1. DOMAIN led = Nat /\ c1 # 0 /\ c2 # 0
  BY DEF Leds
<1>2a. PICK t1 \in Nat : \E i \in 1..Len(led[t1]) :
         c1 <= i /\ led[t1][i].term = t1 /\ Chosen(taken, t1, i) /\ Agree(l1, led[t1], c1)
  BY <1>1 DEF Decided
<1>2. PICK i1 \in 1..Len(led[t1]) :
        c1 <= i1 /\ led[t1][i1].term = t1 /\ Chosen(taken, t1, i1) /\ Agree(l1, led[t1], c1)
  BY <1>2a
<1>3a. PICK t2 \in Nat : \E i \in 1..Len(led[t2]) :
         c2 <= i /\ led[t2][i].term = t2 /\ Chosen(taken, t2, i) /\ Agree(l2, led[t2], c2)
  BY <1>1 DEF Decided
<1>3. PICK i2 \in 1..Len(led[t2]) :
        c2 <= i2 /\ led[t2][i2].term = t2 /\ Chosen(taken, t2, i2) /\ Agree(l2, led[t2], c2)
  BY <1>3a
<1>4. Len(led[t1]) \in Nat /\ Len(led[t2]) \in Nat
  BY LedType
<1>5. /\ MayCommit(led, taken, t1, i1) /\ MayCommit(led, taken, t2, i2)
      /\ j \in 1..i1 /\ j \in 1..i2
  BY <1>2, <1>3, <1>4, ChosenChoosable DEF MayCommit
<1>6. Won(t1) /\ Won(t2)
  <2>1. Len(led[t1]) # 0 /\ Len(led[t2]) # 0
    BY <1>4
  <2>2. led[t1] # <<>> /\ led[t2] # <<>>
    BY <2>1
  <2> QED
    BY <1>1, <2>2 DEF HistoryInv, LogsWritten
<1>7. led[t1][j] = led[t2][j]
  <2>1. CASE t1 < t2
    <3>1. Agree(led[t2], led[t1], i1)
      BY <1>1, <1>5, <1>6, <2>1 DEF HistoryInv, LeadersKeep
    <3> QED
      BY <1>5, <3>1 DEF Agree
  <2>2. CASE t2 < t1
    <3>1. Agree(led[t1], led[t2], i2)
      BY <1>1, <1>5, <1>6, <2>2 DEF HistoryInv, LeadersKeep
    <3> QED
      BY <1>5, <3>1 DEF Agree
  <2>3. t1 < t2 \/ t2 < t1 \/ t1 = t2
    OBVIOUS
  <2> QED BY <2>1, <2>2, <2>3
<1>8. l1[j] = led[t1][j] /\ l2[j] = led[t2][j]
  BY <1>2, <1>3 DEF Agree
<1> QED
  BY <1>7, <1>8

LEMMA LogsSafe ==
  ASSUME TypeOK, HistoryExists PROVE LogSafety
<1>1. PICK led \in Leds, taken \in Takens : HistoryInv(led, taken)
  BY DEF HistoryExists
<1>2. \A s \in Server : Decided(led, taken, log[s], term[s], commitIndex[s])
  BY <1>1 DEF HistoryInv, CommitsChosen
<1>3. ASSUME NEW s \in Server
      PROVE  commitIndex[s] <= Len(log[s]) /\ commitIndex[s] \in Nat /\ Len(log[s]) \in Nat
  BY <1>2, ServerType, DecidedWithin
<1>4. LogMatching
  <2> SUFFICES ASSUME NEW a \in Server, NEW b \in Server,
                      NEW i \in 1..Min2(Len(log[a]), Len(log[b])), log[a][i].term = log[b][i].term
               PROVE  SubSeq(log[a], 1, i) = SubSeq(log[b], 1, i)
    BY DEF LogMatching
  <2>1. /\ log[a] \in Seq(Entry) /\ log[b] \in Seq(Entry) /\ term[a] \in Nat /\ term[b] \in Nat
        /\ Written(log[a], led, term[a]) /\ Written(log[b], led, term[b])
    BY <1>1, ServerType DEF HistoryInv, LogsWritten
  <2>2. i \in 1..Len(log[a]) /\ i \in 1..Len(log[b]) /\ i \in Nat
    BY <1>3 DEF Min2
  <2> QED
    BY <2>1, <2>2, WrittenMatch, AgreePrefix
<1>5. StateMachineSafety
  <2> SUFFICES ASSUME NEW a \in Server, NEW b \in Server,
                      NEW i \in 1..Min2(commitIndex[a], commitIndex[b])
               PROVE  i <= Len(log[a]) /\ i <= Len(log[b]) /\ log[a][i] = log[b][i]
    BY DEF StateMachineSafety
  <2>1. i \in 1..commitIndex[a] /\ i \in 1..commitIndex[b]
    BY <1>3 DEF Min2
  <2>2. i <= Len(log[a]) /\ i <= Len(log[b])
    BY <1>3, <2>1
  <2> QED
    BY <1>1, <1>2, <1>3, <2>1, <2>2, DecidedAgree
<1>6. LeaderCompleteness
  <2> SUFFICES ASSUME NEW n \in Server, NEW s \in Server, role[n] = "leader", term[s] <= term[n],
                      NEW i \in 1..commitIndex[s]
               PROVE  i <= Len(log[n]) /\ log[n][i] = log[s][i]
    BY DEF LeaderCompleteness
  <2>1. DOMAIN led = Nat /\ commitIndex[s] # 0 /\ term[n] \in Nat /\ term[s] \in Nat
    BY <1>3, ServerType DEF Leds
  <2>2a. PICK t \in Nat : \E j \in 1..Len(led[t]) :
           /\ t <= term[s] /\ commitIndex[s] <= j
           /\ led[t][j].term = t /\ Chosen(taken, t, j) /\ Agree(log[s], led[t], commitIndex[s])
    BY <1>2, <2>1 DEF Decided
  <2>2. PICK j \in 1..Len(led[t]) :
          /\ t <= term[s] /\ commitIndex[s] <= j
          /\ led[t][j].term = t /\ Chosen(taken, t, j) /\ Agree(log[s], led[t], commitIndex[s])
    BY <2>2a
  <2>3. <<term[n], n>> \in won /\ led[term[n]] = log[n]
    BY <1>1 DEF HistoryInv, LeadersLead
  <2>4. Won(term[n]) /\ MayCommit(led, taken, t, j)
    BY <2>2, <2>3, ChosenChoosable DEF Won, MayCommit
  <2>5. j \in Nat /\ i \in 1..j /\ j <= Len(led[t]) /\ led[t] \in Seq(Entry)
        /\ log[n] \in Seq(Entry) /\ Len(log[n]) \in Nat
    BY <1>3, <2>2, LedType, ServerType
  <2>6. Agree(log[n], led[t], j)
    <3>1. CASE t = term[n]
      BY <2>3, <2>5, <3>1, AgreeSame
    <3>2. CASE t < term[n]
      BY <1>1, <2>1, <2>3, <2>4, <3>2 DEF HistoryInv, LeadersKeep
    <3> QED
      BY <2>1, <2>2, <3>1, <3>2
  <2>7. log[n][i] = led[t][i] /\ i <= Len(log[n])
    BY <2>5, <2>6 DEF Agree
  <2>8. log[s][i] = led[t][i]
    BY <2>2 DEF Agree
  <2> QED
    BY <2>7, <2>8
<1> QED
  BY <1>4, <1>5, <1>6 DEF LogSafety

(* Logs with an entry of one term at one index are equal up to it, servers *)
(* never apply different entries, and a leader has what was committed.     *)
THEOREM LogsCorrect == Spec => []LogSafety
<1>1. IInv /\ HistoryExists => LogSafety
  BY LogsSafe DEF IInv
<1> QED
  BY <1>1, Invariance, HistoryCorrect, PTL

(* What a step does to the committed part of a log. *)
LEMMA CommitsKept ==
  ASSUME IInv, HistoryExists, [Next]_vars, IInv', NEW n \in Server
  PROVE  commitIndex[n] <= commitIndex'[n] /\ Agree(log[n], log'[n], commitIndex[n])
<1>1. PICK led \in Leds, taken \in Takens : HistoryInv(led, taken)
  BY DEF HistoryExists
<1>2. PICK led2 \in Leds, taken2 \in Takens : Advance(led, taken, led2, taken2)
  BY <1>1, StepAdvances, StutterAdvances
<1> QED
  BY <1>2 DEF Advance, CommitNext

(* No step drops, replaces or uncommits an entry already committed.        *)
THEOREM CommitsCorrect == Spec => CommittedKept
<1> DEFINE Kept(n) ==
             /\ commitIndex[n] <= commitIndex'[n]
             /\ commitIndex[n] <= Len(log'[n])
             /\ SubSeq(log[n], 1, commitIndex[n]) = SubSeq(log'[n], 1, commitIndex[n])
<1>1. ASSUME IInv, HistoryExists, [Next]_vars, IInv', NEW n \in Server PROVE Kept(n)
  <2>1. commitIndex[n] <= commitIndex'[n] /\ Agree(log[n], log'[n], commitIndex[n])
    BY <1>1, CommitsKept
  <2>2. log[n] \in Seq(Entry) /\ log'[n] \in Seq(Entry) /\ commitIndex[n] \in Nat
    BY <1>1, ServerType, ServerTypeNext DEF IInv
  <2>3. commitIndex[n] <= Len(log'[n])
    BY <2>1 DEF Agree
  <2> QED
    BY <2>1, <2>2, <2>3, AgreePrefix
<1>2. IInv /\ HistoryExists /\ [Next]_vars /\ IInv' => [\A n \in Server : Kept(n)]_vars
  BY <1>1
<1> QED
  BY <1>2, Invariance, HistoryCorrect, PTL DEF Spec, CommittedKept

-----------------------------------------------------------------------------
(* What a client sees.  A row points at an entry, never before the log.    *)
RowsPlaced == \A n \in Server : \A k \in DOMAIN history[n] : history[n][k].index >= 1

WritesInv == RegisterCurrent /\ OkWritesKept /\ RowsPlaced

(* What a step makes of the register and of the rows of s. *)
WritesNext(s) ==
  /\ \/ commitIndex'[s] = commitIndex[s] /\ kv'[s] = kv[s]
     \/ kv'[s] = Applied(s, log'[s], commitIndex'[s])
  /\ \/ history'[s] = history[s]
     \/ history'[s] = Settle(s, log'[s], commitIndex'[s])
     \/ \E i \in Nat \ {0} :
          history'[s] = Append(history[s], [index |-> i, outcome |-> "pending"])

LEMMA StepWrites ==
  ASSUME IInv, IInv', Next, NEW s \in Server PROVE WritesNext(s)
<1>0. /\ log \in [Server -> Seq(Entry)] /\ commitIndex \in [Server -> Nat]
      /\ kv \in [Server -> Seqs \cup {Nil}] /\ history \in [Server -> Seq(Row)]
  BY DEF IInv, TypeOK
<1> PICK n \in Server :
      \/ (Timer(n) \/ ClientWrite(n) \/ Kill(n) \/ Revive(n)) /\ UNCHANGED dups
      \/ \E m \in net : Deliver(n, m)
  BY DEF Next
<1>1. CASE Timer(n) \/ Kill(n) \/ Revive(n)
  <2>1. UNCHANGED logVars
    BY <1>1 DEF Timer, StartElection, ElectionTimerIgnored, TimerLost, Heartbeat, Kill, Revive
  <2> QED
    BY <2>1 DEF logVars, WritesNext
<1>2. CASE ClientWrite(n)
  <2>1. Len(log'[n]) = Len(log[n]) + 1 /\ Len(log[n]) \in Nat
    BY <1>2, ClientWriteLength, ServerType DEF IInv
  <2> DEFINE l == Append(log[n], [term |-> term[n], seq |-> <<n, Len(history[n]) + 1>>])
  <2>2. /\ log' = [log EXCEPT ![n] = l] /\ UNCHANGED <<commitIndex, kv>>
        /\ history' = [history EXCEPT ![n] = Append(@, [index |-> Len(l), outcome |-> "pending"])]
    BY <1>2 DEF ClientWrite
  <2> HIDE DEF l
  <2>3. Len(l) \in Nat \ {0}
    BY <1>0, <2>1, <2>2
  <2> QED
    BY <1>0, <2>2, <2>3 DEF WritesNext
<1>3. ASSUME NEW m \in net, Deliver(n, m) PROVE WritesNext(s)
  <2>1. PICK rest \in SUBSET net : Handle(n, m, rest)
    BY <1>3 DEF Deliver
  <2>2. CASE HandleAppend(n, m, rest) /\ PrevOk(log[n], m)
    <3> DEFINE l      == Merged(log[n], m.prevIndex, m.entries)
               commit == IF m.leaderCommit > commitIndex[n]
                         THEN Min2(m.leaderCommit, Len(l)) ELSE commitIndex[n]
    <3>1. /\ log' = [log EXCEPT ![n] = l]
          /\ commitIndex' = [commitIndex EXCEPT ![n] = commit]
          /\ kv' = [kv EXCEPT ![n] = Applied(n, l, commit)]
          /\ history' = [history EXCEPT ![n] = Settle(n, l, commit)]
      BY <2>2 DEF HandleAppend
    <3> HIDE DEF l, commit
    <3>2. CASE s = n
      BY <1>0, <3>1, <3>2 DEF WritesNext
    <3>3. CASE s # n
      BY <1>0, <3>1, <3>3 DEF WritesNext
    <3> QED BY <3>2, <3>3
  <2>3. CASE HandleAppendOk(n, m, rest)
    <3> DEFINE matched == [match[n] EXCEPT ![m.from] = Max2(@, m.matchIndex)]
               commit  == CommitAfter(n, matched)
    <3>1. /\ UNCHANGED log
          /\ commitIndex' = [commitIndex EXCEPT ![n] = commit]
          /\ kv' = [kv EXCEPT ![n] = Applied(n, log[n], commit)]
          /\ history' = [history EXCEPT ![n] = Settle(n, log[n], commit)]
      BY <2>3 DEF HandleAppendOk
    <3> HIDE DEF matched, commit
    <3>2. CASE s = n
      BY <1>0, <3>1, <3>2 DEF WritesNext
    <3>3. CASE s # n
      BY <1>0, <3>1, <3>3 DEF WritesNext
    <3> QED BY <3>2, <3>3
  <2>4. CASE \/ HandleReqVote(n, m, rest) \/ HandleVote(n, m, rest)
             \/ RefuseAppend(n, m, rest) \/ HandleAppendRefused(n, m, rest)
             \/ HandleHigherResponse(n, m, rest)
             \/ HandleAppend(n, m, rest) /\ ~PrevOk(log[n], m)
    <3>1. UNCHANGED logVars
      BY <2>4 DEF HandleReqVote, HandleVote, RefuseAppend, HandleAppendRefused,
                  HandleHigherResponse, HandleAppend
    <3> QED
      BY <3>1 DEF logVars, WritesNext
  <2> QED
    BY <2>1, <2>2, <2>3, <2>4 DEF Handle
<1> QED
  BY <1>1, <1>2, <1>3

(* A row settled ok was ok already or is committed now, and keeps its place. *)
LEMMA SettledRow ==
  ASSUME NEW s \in Server, NEW l, NEW c, history[s] \in Seq(Row), NEW k \in DOMAIN history[s]
  PROVE  /\ Settle(s, l, c)[k].index = history[s][k].index
         /\ Settle(s, l, c)[k].outcome = "ok" =>
              \/ history[s][k].outcome = "ok"
              \/ c >= history[s][k].index /\ l[history[s][k].index].seq = <<s, k>>
<1> DEFINE row  == history[s][k]
           mine == row.index <= Len(l) /\ l[row.index].seq = <<s, k>>
           new  == IF row.outcome # "pending" THEN row
                   ELSE IF mine /\ c >= row.index THEN [row EXCEPT !.outcome = "ok"]
                   ELSE IF ~mine /\ (c >= row.index \/ row.index > Len(l))
                        THEN [row EXCEPT !.outcome = "lost"]
                   ELSE row
<1>1. Settle(s, l, c)[k] = new
  BY DEF Settle
<1>2. row \in Row
  BY ElementOfSeq
<1> HIDE DEF mine
<1>3. new.index = row.index /\ (new.outcome = "ok" => row.outcome = "ok" \/ (mine /\ c >= row.index))
  BY <1>2 DEF Row
<1> HIDE DEF new, row
<1>4. mine => l[row.index].seq = <<s, k>>
  BY DEF mine
<1> QED
  BY <1>1, <1>3, <1>4 DEF row

LEMMA WritesStep ==
  ASSUME IInv, HistoryExists, IInv', Next, WritesInv PROVE WritesInv'
<1>1. ASSUME NEW s \in Server
      PROVE  /\ WritesNext(s) /\ commitIndex[s] <= commitIndex'[s]
             /\ \A j \in 1..commitIndex[s] : log'[s][j] = log[s][j]
             /\ commitIndex[s] \in Nat /\ commitIndex'[s] \in Nat
             /\ history[s] \in Seq(Row)
             /\ commitIndex[s] = 0 => kv[s] = Nil
             /\ commitIndex[s] # 0 => kv[s] = log[s][commitIndex[s]].seq
  <2>1. commitIndex[s] <= commitIndex'[s] /\ Agree(log[s], log'[s], commitIndex[s])
    BY CommitsKept
  <2>2. \A j \in 1..commitIndex[s] : log'[s][j] = log[s][j]
    BY <2>1 DEF Agree
  <2>3. commitIndex[s] \in Nat /\ commitIndex'[s] \in Nat
    BY ServerType, ServerTypeNext DEF IInv
  <2>4. history[s] \in Seq(Row)
    BY DEF IInv, TypeOK
  <2> QED
    BY <2>1, <2>2, <2>3, <2>4, StepWrites DEF WritesInv, RegisterCurrent
<1>2. ASSUME NEW s \in Server
      PROVE  IF commitIndex'[s] = 0 THEN kv'[s] = Nil ELSE kv'[s] = log'[s][commitIndex'[s]].seq
  <2>1. CASE commitIndex'[s] > commitIndex[s]
    <3>1. kv'[s] = Applied(s, log'[s], commitIndex'[s])
      BY <1>1, <2>1 DEF WritesNext
    <3> QED
      BY <1>1, <2>1, <3>1 DEF Applied
  <2>2. CASE ~(commitIndex'[s] > commitIndex[s])
    <3>1. commitIndex'[s] = commitIndex[s]
      BY <1>1, <2>2
    <3>2. kv'[s] = kv[s]
      BY <1>1, <2>2 DEF WritesNext, Applied
    <3>3. commitIndex[s] # 0 => commitIndex[s] \in 1..commitIndex[s]
      BY <1>1
    <3> QED
      BY <1>1, <3>1, <3>2, <3>3
  <2> QED BY <2>1, <2>2
<1> DEFINE Kept(s, h, l, c) == \A k \in DOMAIN h :
             /\ h[k].index >= 1
             /\ h[k].outcome = "ok" => h[k].index <= c /\ l[h[k].index].seq = <<s, k>>
<1>3. ASSUME NEW s \in Server, NEW k \in DOMAIN history[s]
      PROVE  /\ history[s][k].index >= 1 /\ history[s][k].index \in Nat
             /\ history[s][k].outcome = "ok" =>
                  /\ history[s][k].index <= commitIndex'[s]
                  /\ log'[s][history[s][k].index].seq = <<s, k>>
  <2> DEFINE i == history[s][k].index
  <2>1. history[s][k] \in Row
    BY <1>1, ElementOfSeq
  <2>2. i \in Nat /\ i >= 1
    BY <2>1 DEF Row, WritesInv, RowsPlaced
  <2>3. history[s][k].outcome = "ok" => i <= commitIndex[s] /\ log[s][i].seq = <<s, k>>
    BY DEF WritesInv, OkWritesKept
  <2> HIDE DEF i
  <2>4. i <= commitIndex[s] => i <= commitIndex'[s] /\ log'[s][i] = log[s][i]
    BY <1>1, <2>2
  <2> QED
    BY <2>2, <2>3, <2>4 DEF i
<1>4. ASSUME NEW s \in Server PROVE Kept(s, history'[s], log'[s], commitIndex'[s])
  <2>1. CASE history'[s] = history[s]
    BY <1>3, <2>1
  <2>2. CASE history'[s] = Settle(s, log'[s], commitIndex'[s])
    <3>1. DOMAIN Settle(s, log'[s], commitIndex'[s]) = DOMAIN history[s]
      BY DEF Settle
    <3>2. ASSUME NEW k \in DOMAIN history[s]
          PROVE  /\ history'[s][k].index >= 1
                 /\ history'[s][k].outcome = "ok" =>
                      /\ history'[s][k].index <= commitIndex'[s]
                      /\ log'[s][history'[s][k].index].seq = <<s, k>>
      <4>1. /\ history'[s][k].index = history[s][k].index
            /\ history'[s][k].outcome = "ok" =>
                 \/ history[s][k].outcome = "ok"
                 \/ /\ commitIndex'[s] >= history[s][k].index
                    /\ log'[s][history[s][k].index].seq = <<s, k>>
        <5>1. PICK l, c : l = log'[s] /\ c = commitIndex'[s]
          OBVIOUS
        <5>2. /\ Settle(s, l, c)[k].index = history[s][k].index
              /\ Settle(s, l, c)[k].outcome = "ok" =>
                   \/ history[s][k].outcome = "ok"
                   \/ c >= history[s][k].index /\ l[history[s][k].index].seq = <<s, k>>
          <6>1. history[s] \in Seq(Row)
            BY <1>1
          <6> QED
            BY <6>1, SettledRow, Zenon
        <5>3. history'[s] = Settle(s, l, c)
          BY <2>2, <5>1
        <5> QED
          BY <5>1, <5>2, <5>3
      <4> QED
        BY <1>1, <1>3, <4>1
    <3> QED
      BY <2>2, <3>1, <3>2
  <2>3. ASSUME NEW i \in Nat \ {0},
               history'[s] = Append(history[s], [index |-> i, outcome |-> "pending"])
        PROVE  Kept(s, history'[s], log'[s], commitIndex'[s])
    <3> DEFINE row == [index |-> i, outcome |-> "pending"]
    <3>1. row \in Row /\ row.index >= 1 /\ row.outcome # "ok"
      BY DEF Row
    <3> HIDE DEF row
    <3>2. /\ DOMAIN Append(history[s], row) = 1..(Len(history[s]) + 1)
          /\ DOMAIN history[s] = 1..Len(history[s]) /\ Len(history[s]) \in Nat
          /\ \A k \in 1..Len(history[s]) : Append(history[s], row)[k] = history[s][k]
          /\ Append(history[s], row)[Len(history[s]) + 1] = row
      BY <1>1, <3>1
    <3>3. history'[s] = Append(history[s], row)
      BY <2>3 DEF row
    <3>4. ASSUME NEW k \in DOMAIN history'[s]
          PROVE  /\ history'[s][k].index >= 1
                 /\ history'[s][k].outcome = "ok" =>
                      /\ history'[s][k].index <= commitIndex'[s]
                      /\ log'[s][history'[s][k].index].seq = <<s, k>>
      <4>1. CASE k = Len(history[s]) + 1
        BY <3>1, <3>2, <3>3, <4>1
      <4>2. CASE k # Len(history[s]) + 1
        <5>1. k \in DOMAIN history[s] /\ history'[s][k] = history[s][k]
          BY <3>2, <3>3, <4>2
        <5> QED
          BY <1>3, <5>1
      <4> QED BY <4>1, <4>2
    <3> QED
      BY <3>4
  <2> QED
    BY <1>1, <2>1, <2>2, <2>3 DEF WritesNext
<1>5. RegisterCurrent'
  BY <1>2 DEF RegisterCurrent
<1>6. OkWritesKept' /\ RowsPlaced'
  BY <1>4 DEF OkWritesKept, RowsPlaced
<1> QED
  BY <1>5, <1>6 DEF WritesInv

LEMMA InitWrites == Init => WritesInv
BY DEF Init, WritesInv, RegisterCurrent, OkWritesKept, RowsPlaced

(* The register is the last committed write, and a write reported ok stays *)
(* committed where it was.                                                 *)
THEOREM WritesCorrect == Spec => []WritesKept
<1>1. IInv /\ HistoryExists /\ [Next]_vars /\ IInv' /\ WritesInv => WritesInv'
  <2>1. WritesInv /\ UNCHANGED vars => WritesInv'
    BY DEF WritesInv, RegisterCurrent, OkWritesKept, RowsPlaced, vars, electionVars, logVars
  <2> QED
    BY <2>1, WritesStep
<1>2. WritesInv => WritesKept
  BY DEF WritesInv, WritesKept
<1> QED
  BY <1>1, <1>2, InitWrites, Invariance, HistoryCorrect, PTL DEF Spec
=============================================================================
