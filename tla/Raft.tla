-------------------------------- MODULE Raft --------------------------------
(***************************************************************************)
(* The Raft cluster of the chapter 9 lab, src/src/modules/raft.ts.         *)
(*                                                                         *)
(* One action per event the reducer handles: an election timeout, a        *)
(* heartbeat, a client write and the four messages; the engine's kill and  *)
(* revive are actions too.  A handler first adopts a higher term           *)
(* (adoptTerm) and then runs its case, all in one step, as reduce() does.  *)
(*                                                                         *)
(* `net' holds the messages sent and not delivered.  SimNetwork.plan may   *)
(* lose a message (it is never delivered), delay it (it is delivered after *)
(* later ones) and duplicate it (a delivery leaves it queued, within the    *)
(* bound); a partition or a dead receiver only loses it too.               *)
(***************************************************************************)
EXTENDS Integers, FiniteSets, Sequences

CONSTANTS
  Server,       \* RAFT_NODES
  MAJORITY,     \* votes, and replicas, that decide
  Nil,          \* votedFor: null, and the register before any write
  Within(_)     \* bound: what a behaviour may have used of elections, client
                \* writes, kills, broadcast heartbeats and duplicated deliveries

ASSUME ServerAssumption   == IsFiniteSet(Server) /\ Nil \notin Server
ASSUME MajorityAssumption == MAJORITY \in Nat /\ 2 * MAJORITY > Cardinality(Server)

VARIABLES
  role, term, votedFor, votes,   \* per server: the election state
  log, commitIndex, kv,          \* per server: the log and the applied register
  next, match,                   \* per server: what a leader knows of its peers
  history,                       \* per server: the client write rows it owns
  electionTimer, heartbeatTimer, \* servers whose current-nonce timer is queued
  dead, kills, beats,            \* killed servers; kills and heartbeats so far
  net, dups,                     \* messages in flight, duplications so far
  ballots, won                   \* ghosts: every <<term, voter, candidate>> and
                                 \* every <<term, winner>> so far

ghostVars    == <<ballots, won>>
electionVars == <<role, term, votedFor, votes, ghostVars>>
logVars      == <<log, commitIndex, kv, history>>
leaderVars   == <<next, match>>
faultVars    == <<dead, kills>>
timerVars    == <<electionTimer, heartbeatTimer, beats>>
vars == <<electionVars, logVars, leaderVars, faultVars, timerVars, net, dups>>

(* What the bound counts.  An election is known by who starts it and its   *)
(* term: the ballot its candidate casts for itself.                        *)
Used ==
  [elections |-> {<<b[3], b[1]>> : b \in {x \in ballots : x[2] = x[3]}},
   writes |-> [n \in Server |-> Len(history[n])],
   kills |-> kills, beats |-> beats, dups |-> dups]

Peers(n) == Server \ {n}

Max2(a, b) == IF a >= b THEN a ELSE b
Min2(a, b) == IF a <= b THEN a ELSE b

LastTerm(l) == IF Len(l) = 0 THEN 0 ELSE l[Len(l)].term

(* A write is known by the server that took it and its number there: the   *)
(* seq of the code.  Its value is not kept: every write is told apart.     *)
Seqs    == Server \X Nat
Entry   == [term : Nat, seq : Seqs]
Row     == [index : Nat, outcome : {"pending", "ok", "lost"}]

Init ==
  /\ role = [n \in Server |-> "follower"]
  /\ term = [n \in Server |-> 0]
  /\ votedFor = [n \in Server |-> Nil]
  /\ votes = [n \in Server |-> {}]
  /\ log = [n \in Server |-> <<>>]
  /\ commitIndex = [n \in Server |-> 0]
  /\ kv = [n \in Server |-> Nil]
  /\ next = [n \in Server |-> [p \in Server |-> 1]]
  /\ match = [n \in Server |-> [p \in Server |-> 0]]
  /\ history = [n \in Server |-> <<>>]
  /\ electionTimer = Server      \* the init event of every server arms it
  /\ heartbeatTimer = {}
  /\ dead = {} /\ kills = 0 /\ beats = 0
  /\ net = {} /\ dups = 0
  /\ ballots = {} /\ won = {}

-----------------------------------------------------------------------------
(* Helpers of the handlers.                                                *)

(* appendFor: everything from the peer's next index to the end of the log. *)
AppendFor(n, l, nextIndex, to) ==
  LET prev == nextIndex - 1
  IN [kind |-> "append", from |-> n, to |-> to, term |-> term[n],
      prevIndex |-> prev, prevTerm |-> IF prev > 0 THEN l[prev].term ELSE 0,
      entries |-> SubSeq(l, nextIndex, Len(l)),
      leaderCommit |-> commitIndex[n]]

BroadcastAppends(n, l, nextOf) == {AppendFor(n, l, nextOf[p], p) : p \in Peers(n)}

(* applyAndSettle: the register takes the last committed value, and every  *)
(* pending row whose entry is committed, replaced or truncated settles.    *)
Applied(n, l, commit) == IF commit > commitIndex[n] THEN l[commit].seq ELSE kv[n]

(* A row settled as ok once its entry is in the log, committed or not.     *)
SettledEarly(n, l, commit) ==
  [k \in DOMAIN history[n] |->
     IF history[n][k].index <= Len(l) THEN [history[n][k] EXCEPT !.outcome = "ok"]
                                      ELSE [history[n][k] EXCEPT !.outcome = "lost"]]

Settle(n, l, commit) ==
  [k \in DOMAIN history[n] |->
     LET row  == history[n][k]
         mine == row.index <= Len(l) /\ l[row.index].seq = <<n, k>>
     IN IF row.outcome # "pending" THEN row
        ELSE IF mine /\ commit >= row.index THEN [row EXCEPT !.outcome = "ok"]
        ELSE IF ~mine /\ (commit >= row.index \/ row.index > Len(l))
             THEN [row EXCEPT !.outcome = "lost"]
        ELSE row]

(* adoptTerm: what a message of a higher term makes of the receiver before *)
(* its case runs.                                                          *)
Higher(n, m)     == m.term > term[n]
TermAfter(n, m)  == IF Higher(n, m) THEN m.term ELSE term[n]
RoleAfter(n, m)  == IF Higher(n, m) THEN "follower" ELSE role[n]
VotedAfter(n, m) == IF Higher(n, m) THEN Nil ELSE votedFor[n]
VotesAfter(n, m) == IF Higher(n, m) THEN {} ELSE votes[n]

AdoptTermExceptRole(n, m) ==
  /\ term' = [term EXCEPT ![n] = TermAfter(n, m)]
  /\ votes' = [votes EXCEPT ![n] = VotesAfter(n, m)]

Receives(n, kind, m) ==
  /\ n \notin dead
  /\ m \in net /\ m.kind = kind /\ m.to = n
-----------------------------------------------------------------------------
(* Timers.  Only the timer with the current nonce matters, so a server is  *)
(* in electionTimer when that one is queued; older ones return at once.    *)

StartElection(n) ==
  /\ n \in electionTimer \ dead /\ role[n] # "leader"
  /\ Within([Used EXCEPT !.elections = @ \cup {<<n, term[n] + 1>>}])
  /\ role' = [role EXCEPT ![n] = "candidate"]
  /\ term' = [term EXCEPT ![n] = @ + 1]
  /\ votedFor' = [votedFor EXCEPT ![n] = n]
  /\ votes' = [votes EXCEPT ![n] = {n}]
  /\ net' = net \cup {[kind |-> "req-vote", from |-> n, to |-> p, term |-> term[n] + 1,
                       lastLogIndex |-> Len(log[n]), lastLogTerm |-> LastTerm(log[n])]
                      : p \in Peers(n)}
  /\ ballots' = ballots \cup {<<term[n] + 1, n, n>>}
  /\ UNCHANGED <<won, logVars, leaderVars, faultVars, timerVars>>

(* A leader's own election timer fires and is not armed again.             *)
ElectionTimerIgnored(n) ==
  /\ n \in electionTimer \ dead /\ role[n] = "leader"
  /\ electionTimer' = electionTimer \ {n}
  /\ UNCHANGED <<electionVars, logVars, leaderVars, faultVars, heartbeatTimer, beats, net>>

Heartbeat(n) ==
  /\ n \in heartbeatTimer \ dead
  /\ IF role[n] = "leader"
     THEN /\ Within([Used EXCEPT !.beats = @ + 1]) /\ beats' = beats + 1
          /\ net' = net \cup BroadcastAppends(n, log[n], next[n])
          /\ UNCHANGED heartbeatTimer
     ELSE /\ heartbeatTimer' = heartbeatTimer \ {n}
          /\ UNCHANGED <<net, beats>>
  /\ UNCHANGED <<electionVars, logVars, leaderVars, faultVars, electionTimer>>

(* A timer of a dead server is dropped when it comes due.                  *)
TimerLost(n) ==
  /\ n \in dead /\ n \in electionTimer \cup heartbeatTimer
  /\ \/ electionTimer' = electionTimer \ {n} /\ UNCHANGED heartbeatTimer
     \/ heartbeatTimer' = heartbeatTimer \ {n} /\ UNCHANGED electionTimer
  /\ UNCHANGED <<electionVars, logVars, leaderVars, faultVars, beats, net>>

-----------------------------------------------------------------------------
(* Messages.                                                               *)

(* A vote without a look at the candidate's log. *)
AnyLog(n, m) == TRUE

(* The candidate's log must be at least as up to date as the voter's, and  *)
(* the voter must not have voted for another in this term.                 *)
UpToDate(n, m) ==
  \/ m.lastLogTerm > LastTerm(log[n])
  \/ m.lastLogTerm = LastTerm(log[n]) /\ m.lastLogIndex >= Len(log[n])

Granted(n, m) ==
  /\ m.term = TermAfter(n, m)
  /\ VotedAfter(n, m) \in {Nil, m.from}
  /\ UpToDate(n, m)

HandleReqVote(n, m, rest) ==
  /\ Receives(n, "req-vote", m)
  /\ AdoptTermExceptRole(n, m)
  /\ role' = [role EXCEPT ![n] = RoleAfter(n, m)]
  /\ votedFor' = [votedFor EXCEPT ![n] =
                    IF Granted(n, m) THEN m.from ELSE VotedAfter(n, m)]
  /\ electionTimer' = IF Higher(n, m) \/ Granted(n, m)
                      THEN electionTimer \cup {n} ELSE electionTimer
  /\ net' = rest \cup {[kind |-> "vote", from |-> n, to |-> m.from,
                        term |-> TermAfter(n, m), granted |-> Granted(n, m)]}
  /\ ballots' = IF Granted(n, m) THEN ballots \cup {<<m.term, n, m.from>>} ELSE ballots
  /\ UNCHANGED <<won, logVars, leaderVars, faultVars, heartbeatTimer, beats>>

(* A new leader that offers its last entry again instead of the next one,  *)
(* also when it has none.                                                  *)
BecomeLeaderBehind(n, rest) ==
  /\ role' = [role EXCEPT ![n] = "leader"]
  /\ next' = [next EXCEPT ![n] = [p \in Server |-> Len(log[n])]]
  /\ match' = [match EXCEPT ![n] = [p \in Server |-> 0]]
  /\ net' = rest \cup BroadcastAppends(n, log[n], [p \in Server |-> Len(log[n]) + 1])
  /\ heartbeatTimer' = heartbeatTimer \cup {n}
  /\ won' = won \cup {<<term[n], n>>}

(* becomeLeader, reached inside the vote that completes the majority.      *)
BecomeLeader(n, rest) ==
  /\ role' = [role EXCEPT ![n] = "leader"]
  /\ next' = [next EXCEPT ![n] = [p \in Server |-> Len(log[n]) + 1]]
  /\ match' = [match EXCEPT ![n] = [p \in Server |-> 0]]
  /\ net' = rest \cup BroadcastAppends(n, log[n], [p \in Server |-> Len(log[n]) + 1])
  /\ heartbeatTimer' = heartbeatTimer \cup {n}
  /\ won' = won \cup {<<term[n], n>>}

(* Votes of any term counted for the present one. *)
HandleAnyVote(n, m, rest) ==
  /\ Receives(n, "vote", m)
  /\ role[n] = "candidate" /\ m.granted
  /\ m.from \notin votes[n]
  /\ votes' = [votes EXCEPT ![n] = @ \cup {m.from}]
  /\ IF Cardinality(votes[n]) + 1 >= MAJORITY
     THEN BecomeLeader(n, rest)
     ELSE net' = rest /\ UNCHANGED <<role, leaderVars, heartbeatTimer, won>>
  /\ UNCHANGED <<term, votedFor, ballots, logVars, faultVars, electionTimer, beats>>

HandleVote(n, m, rest) ==
  /\ Receives(n, "vote", m)
  /\ role[n] = "candidate" /\ m.term = term[n] /\ m.granted
  /\ m.from \notin votes[n]
  /\ votes' = [votes EXCEPT ![n] = @ \cup {m.from}]
  /\ IF Cardinality(votes[n]) + 1 >= MAJORITY
     THEN BecomeLeader(n, rest)
     ELSE net' = rest /\ UNCHANGED <<role, leaderVars, heartbeatTimer, won>>
  /\ UNCHANGED <<term, votedFor, ballots, logVars, faultVars, electionTimer, beats>>

(* A log cut at the previous index whether or not anything conflicts.      *)
Replaced(l, prevIndex, entries) == SubSeq(l, 1, prevIndex) \o entries

(* Section 5.3 of the paper: entries already held are skipped, and the log *)
(* is cut only at the first entry that conflicts.                          *)
Merged(l, prevIndex, entries) ==
  LET agree(i) == /\ i <= Len(entries) /\ prevIndex + i <= Len(l)
                  /\ l[prevIndex + i].term = entries[i].term
      conflicts == {i \in 1..Len(entries) : ~agree(i)}
  IN IF conflicts = {} THEN l
     ELSE LET i == CHOOSE i \in conflicts : \A j \in conflicts : i <= j
          IN SubSeq(l, 1, prevIndex + i - 1) \o SubSeq(entries, i, Len(entries))

PrevOk(l, m) ==
  \/ m.prevIndex = 0
  \/ m.prevIndex <= Len(l) /\ l[m.prevIndex].term = m.prevTerm

(* A follower that reports all of its log as matched. *)
WholeLogResp(n, m, ok, matched) ==
  [kind |-> "append-resp", from |-> n, to |-> m.from, term |-> TermAfter(n, m),
   ok |-> ok, matchIndex |-> IF ok THEN matched + Len(log[n]) ELSE 0]

AppendResp(n, m, ok, matched) ==
  [kind |-> "append-resp", from |-> n, to |-> m.from,
   term |-> TermAfter(n, m), ok |-> ok, matchIndex |-> matched]

(* An append of an older term is refused and changes nothing else.         *)
RefuseAppend(n, m, rest) ==
  /\ Receives(n, "append", m) /\ m.term < term[n]
  /\ net' = rest \cup {AppendResp(n, m, FALSE, 0)}
  /\ UNCHANGED <<electionVars, logVars, leaderVars, faultVars, timerVars>>

(* A valid leader for this term: candidates stand down, the timer is armed *)
(* again, and the entries are taken when the previous one matches.         *)
HandleAppend(n, m, rest) ==
  /\ Receives(n, "append", m) /\ m.term >= term[n]
  /\ AdoptTermExceptRole(n, m)
  /\ role' = [role EXCEPT ![n] = "follower"]
  /\ votedFor' = [votedFor EXCEPT ![n] = VotedAfter(n, m)]
  /\ electionTimer' = electionTimer \cup {n}
  /\ IF PrevOk(log[n], m)
     THEN LET l      == Merged(log[n], m.prevIndex, m.entries)
              commit == IF m.leaderCommit > commitIndex[n]
                        THEN Min2(m.leaderCommit, Len(l)) ELSE commitIndex[n]
          IN /\ log' = [log EXCEPT ![n] = l]
             /\ commitIndex' = [commitIndex EXCEPT ![n] = commit]
             /\ kv' = [kv EXCEPT ![n] = Applied(n, l, commit)]
             /\ history' = [history EXCEPT ![n] = Settle(n, l, commit)]
             /\ net' = rest \cup {AppendResp(n, m, TRUE, m.prevIndex + Len(m.entries))}
     ELSE /\ net' = rest \cup {AppendResp(n, m, FALSE, 0)}
          /\ UNCHANGED logVars
  /\ UNCHANGED <<ghostVars, leaderVars, faultVars, heartbeatTimer, beats>>

(* Section 5.4.2: only entries of the current term commit by counting; the *)
(* loop keeps the last index that a majority holds.                        *)
Replicas(n, matched, idx) == 1 + Cardinality({p \in Peers(n) : matched[p] >= idx})

CommitAfter(n, matched) ==
  LET decided == {idx \in commitIndex[n] + 1 .. Len(log[n]) :
                    /\ log[n][idx].term = term[n]
                    /\ Replicas(n, matched, idx) >= MAJORITY}
  IN IF decided = {} THEN commitIndex[n]
     ELSE CHOOSE idx \in decided : \A j \in decided : j <= idx

HandleAppendOk(n, m, rest) ==
  /\ Receives(n, "append-resp", m)
  /\ role[n] = "leader" /\ m.term = term[n] /\ m.ok
  /\ LET matched == [match[n] EXCEPT ![m.from] = Max2(@, m.matchIndex)]
         commit  == CommitAfter(n, matched)
     IN /\ match' = [match EXCEPT ![n] = matched]
        /\ next' = [next EXCEPT ![n][m.from] = matched[m.from] + 1]
        /\ commitIndex' = [commitIndex EXCEPT ![n] = commit]
        /\ kv' = [kv EXCEPT ![n] = Applied(n, log[n], commit)]
        /\ history' = [history EXCEPT ![n] = Settle(n, log[n], commit)]
  /\ net' = rest
  /\ UNCHANGED <<electionVars, log, faultVars, timerVars>>

(* A refusal backs the peer's next index up by one and retries at once.    *)
HandleAppendRefused(n, m, rest) ==
  /\ Receives(n, "append-resp", m)
  /\ role[n] = "leader" /\ m.term = term[n] /\ ~m.ok
  /\ LET back == Max2(1, next[n][m.from] - 1)
     IN /\ next' = [next EXCEPT ![n][m.from] = back]
        /\ net' = rest \cup {AppendFor(n, log[n], back, m.from)}
  /\ UNCHANGED <<electionVars, logVars, match, faultVars, timerVars>>

(* A response of a higher term deposes whoever asked, and its own case     *)
(* then finds no candidate or leader to serve.                             *)
HandleHigherResponse(n, m, rest) ==
  /\ Receives(n, "vote", m) \/ Receives(n, "append-resp", m)
  /\ Higher(n, m)
  /\ AdoptTermExceptRole(n, m)
  /\ role' = [role EXCEPT ![n] = "follower"]
  /\ votedFor' = [votedFor EXCEPT ![n] = Nil]
  /\ electionTimer' = electionTimer \cup {n}
  /\ net' = rest
  /\ UNCHANGED <<ghostVars, logVars, leaderVars, faultVars, heartbeatTimer, beats>>

-----------------------------------------------------------------------------
(* A client write the leader takes; elsewhere it is redirected and nothing *)
(* but a settled row is kept of it.                                        *)
ClientWrite(n) ==
  /\ n \notin dead /\ role[n] = "leader"
  /\ Within([Used EXCEPT !.writes[n] = @ + 1])
  /\ LET l == Append(log[n], [term |-> term[n], seq |-> <<n, Len(history[n]) + 1>>])
     IN /\ log' = [log EXCEPT ![n] = l]
        /\ history' = [history EXCEPT ![n] =
                         Append(@, [index |-> Len(l), outcome |-> "pending"])]
        /\ net' = net \cup BroadcastAppends(n, l, next[n])
  /\ UNCHANGED <<electionVars, commitIndex, kv, leaderVars, faultVars, timerVars>>

(* The engine's chaos actions: a killed server keeps its whole state.      *)
Kill(n) ==
  /\ n \notin dead /\ Within([Used EXCEPT !.kills = @ + 1])
  /\ dead' = dead \cup {n} /\ kills' = kills + 1
  /\ UNCHANGED <<electionVars, logVars, leaderVars, timerVars, net>>

Revive(n) ==
  /\ n \in dead
  /\ dead' = dead \ {n}
  /\ UNCHANGED <<electionVars, logVars, leaderVars, timerVars, net, kills>>

Handle(n, m, rest) ==
  \/ HandleReqVote(n, m, rest) \/ HandleVote(n, m, rest)
  \/ RefuseAppend(n, m, rest) \/ HandleAppend(n, m, rest)
  \/ HandleAppendOk(n, m, rest) \/ HandleAppendRefused(n, m, rest)
  \/ HandleHigherResponse(n, m, rest)

(* A delivery takes the message out of the queue, unless the network had   *)
(* duplicated it.                                                          *)
Deliver(n, m) ==
  \/ Handle(n, m, net \ {m}) /\ UNCHANGED dups
  \/ /\ m.to = n /\ Within([Used EXCEPT !.dups = @ + 1])
     /\ Handle(n, m, net) /\ dups' = dups + 1

Timer(n) == StartElection(n) \/ ElectionTimerIgnored(n) \/ Heartbeat(n) \/ TimerLost(n)

Next ==
  \E n \in Server :
    \/ Timer(n) /\ UNCHANGED dups
    \/ ClientWrite(n) /\ UNCHANGED dups
    \/ (Kill(n) \/ Revive(n)) /\ UNCHANGED dups
    \/ \E m \in net : Deliver(n, m)

Spec == Init /\ [][Next]_vars

-----------------------------------------------------------------------------
(* Properties.                                                             *)

Messages ==
  [kind : {"req-vote"}, from : Server, to : Server, term : Nat,
   lastLogIndex : Nat, lastLogTerm : Nat]
  \cup [kind : {"vote"}, from : Server, to : Server, term : Nat, granted : BOOLEAN]
  \cup [kind : {"append"}, from : Server, to : Server, term : Nat, prevIndex : Nat,
        prevTerm : Nat, entries : Seq(Entry), leaderCommit : Nat]
  \cup [kind : {"append-resp"}, from : Server, to : Server, term : Nat,
        ok : BOOLEAN, matchIndex : Nat]

(* Every field holds what its declaration in RaftState says.               *)
TypeOK ==
  /\ role \in [Server -> {"follower", "candidate", "leader"}]
  /\ term \in [Server -> Nat]
  /\ votedFor \in [Server -> Server \cup {Nil}]
  /\ votes \in [Server -> SUBSET Server]
  /\ log \in [Server -> Seq(Entry)]
  /\ commitIndex \in [Server -> Nat]
  /\ kv \in [Server -> Seqs \cup {Nil}]
  /\ next \in [Server -> [Server -> Nat \ {0}]]
  /\ match \in [Server -> [Server -> Nat]]
  /\ history \in [Server -> Seq(Row)]
  /\ electionTimer \subseteq Server /\ heartbeatTimer \subseteq Server
  /\ dead \subseteq Server /\ kills \in Nat /\ beats \in Nat
  /\ net \subseteq Messages /\ dups \in Nat
  /\ won \subseteq Nat \X Server /\ ballots \subseteq Nat \X Server \X Server

(* No server votes for two candidates in one term, and the vote it holds   *)
(* is the one it cast (the votedFor test of the req-vote case, which must  *)
(* survive adoptTerm, retries and duplicated requests).                    *)
OneVotePerTerm ==
  \A b \in ballots :
    /\ b[1] <= term[b[2]]
    /\ b[1] = term[b[2]] => votedFor[b[2]] = b[3]
    /\ \A c \in ballots : b[1] = c[1] /\ b[2] = c[2] => b[3] = c[3]

(* At most one server ever wins a term, over the whole run and not only at *)
(* one instant (raft.property.test.ts, "election safety").                 *)
ElectionSafety == \A a, b \in won : a[1] = b[1] => a[2] = b[2]

(* Elections are sound: votes and winners are unique, at any time. *)
ElectionsSound == OneVotePerTerm /\ ElectionSafety

(* Two logs that hold entries of the same term at the same index are equal *)
(* up to it: what lets appendFor trust prevTerm.                           *)
LogMatching ==
  \A a, b \in Server : \A i \in 1..Min2(Len(log[a]), Len(log[b])) :
    log[a][i].term = log[b][i].term => SubSeq(log[a], 1, i) = SubSeq(log[b], 1, i)

(* Applied prefixes never diverge: any two servers agree on every entry    *)
(* both have committed.                                                    *)
StateMachineSafety ==
  \A a, b \in Server : \A i \in 1..Min2(commitIndex[a], commitIndex[b]) :
    /\ i <= Len(log[a]) /\ i <= Len(log[b])
    /\ log[a][i] = log[b][i]

(* A leader holds every entry that a server committed in an older term, so *)
(* that electing it loses nothing (the vote's up-to-date test and 5.4.2).  *)
LeaderCompleteness ==
  \A n, s \in Server :
    (role[n] = "leader" /\ term[s] <= term[n]) =>
      \A i \in 1..commitIndex[s] : i <= Len(log[n]) /\ log[n][i] = log[s][i]

(* A write reported ok stays where it was committed.                       *)
OkWritesKept ==
  \A n \in Server : \A k \in DOMAIN history[n] :
    history[n][k].outcome = "ok" =>
      /\ history[n][k].index <= commitIndex[n]
      /\ log[n][history[n][k].index].seq = <<n, k>>

(* The index arithmetic of appendFor never leaves the log of a leader: its *)
(* log[prevIndex - 1] is always there to be read.                          *)
NextWithinLog ==
  \A n \in Server : role[n] = "leader" =>
    \A p \in Peers(n) : match[n][p] <= Len(log[n]) /\ next[n][p] <= Len(log[n]) + 1

(* The register is the last committed write: nothing applied was undone.   *)
RegisterCurrent ==
  \A n \in Server :
    IF commitIndex[n] = 0 THEN kv[n] = Nil ELSE kv[n] = log[n][commitIndex[n]].seq

(* A step never drops, replaces or uncommits an entry already committed.   *)
CommittedKept ==
  [][\A n \in Server :
       /\ commitIndex[n] <= commitIndex'[n]
       /\ commitIndex[n] <= Len(log'[n])
       /\ SubSeq(log[n], 1, commitIndex[n]) = SubSeq(log'[n], 1, commitIndex[n])]_vars

(* What election and replication promise together: entries of one term at  *)
(* one index are the same entry, servers never apply different ones, and   *)
(* no election loses a committed one.                                      *)
LogSafety == LogMatching /\ StateMachineSafety /\ LeaderCompleteness

(* What a client sees: the register is the last committed write, and a     *)
(* write reported ok is never taken back.                                  *)
WritesKept == RegisterCurrent /\ OkWritesKept
=============================================================================
