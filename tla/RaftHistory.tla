---------------------------- MODULE RaftHistory -----------------------------
(***************************************************************************)
(* What is always true of the logs of Raft, told with the history that no  *)
(* server keeps:                                                           *)
(*   led[t]       the log of the leader of term t, as far as it has got;   *)
(*   taken[s][t]  how far s has taken led[t] while it was in term t.       *)
(* HistoryInv relates them to the state; it holds of some history in every *)
(* reachable state.  It is the inductive invariant behind LogSafety,       *)
(* WritesKept and CommittedKept.                                           *)
(***************************************************************************)
EXTENDS Raft

(* The first i entries of both are there, and equal. *)
Agree(a, b, i) == i <= Len(a) /\ i <= Len(b) /\ \A j \in 1..i : a[j] = b[j]

Won(t) == \E n \in Server : <<t, n>> \in won

(* A majority has taken entry i from the leader of t, or still could: it   *)
(* has not gone on to a later term.                                        *)
Chosen(taken, t, i) ==
  \E Q \in SUBSET Server : Cardinality(Q) >= MAJORITY /\ \A s \in Q : taken[s][t] >= i

Choosable(taken, t, i) ==
  \E Q \in SUBSET Server :
    /\ Cardinality(Q) >= MAJORITY
    /\ \A s \in Q : taken[s][t] >= i \/ term[s] <= t

(* Entry i of the leader of t may commit by counting, now or later: only   *)
(* entries a leader wrote in its own term do.                              *)
MayCommit(led, taken, t, i) == led[t][i].term = t /\ Choosable(taken, t, i)

(* The first c entries of l lie under an entry chosen in a term up to u. *)
Decided(led, taken, l, u, c) ==
  \/ c = 0
  \/ \E t \in DOMAIN led : \E i \in 1..Len(led[t]) :
       /\ t <= u /\ c <= i
       /\ led[t][i].term = t /\ Chosen(taken, t, i) /\ Agree(l, led[t], c)

(* A log whose last entry is of term lt, at index li, is at least as up to *)
(* date as one that ends with an entry of term t at index i.               *)
UpTo(lt, li, t, i) == lt > t \/ (lt = t /\ li >= i)

-----------------------------------------------------------------------------
(* The logs.                                                               *)

(* Every entry, and all that is before it, was written by the leader of    *)
(* its term.                                                               *)
Written(l, led, u) ==
  \A i \in 1..Len(l) : l[i].term <= u /\ Agree(l, led[l[i].term], i)

LogsWritten(led) ==
  /\ \A n \in Server : Written(log[n], led, term[n])
  /\ \A t \in DOMAIN led : Written(led[t], led, t) /\ (led[t] # <<>> => Won(t))

(* A winner never stands again in its term, and leads with its own log.    *)
LeadersLead(led, taken) ==
  /\ \A w \in won : w[1] <= term[w[2]] /\ (w[1] = term[w[2]] => role[w[2]] # "candidate")
  /\ \A n \in Server : role[n] = "leader" =>
       /\ <<term[n], n>> \in won /\ led[term[n]] = log[n]
       /\ taken[n][term[n]] = Len(log[n])
       /\ \A p \in Peers(n) : match[n][p] <= taken[p][term[n]]

(* What a server has taken in its present term is still in its log.        *)
TakenHeld(led, taken) ==
  \A s \in Server, t \in DOMAIN led :
    /\ taken[s][t] <= Len(led[t])
    /\ term[s] < t => taken[s][t] = 0
    /\ term[s] = t => Agree(log[s], led[t], taken[s][t])

-----------------------------------------------------------------------------
(* The messages.                                                           *)

(* An append carries a stretch of its leader's log, and a commit index     *)
(* within it.                                                              *)
AppendSound(led, taken, m) ==
  LET l == led[m.term] IN
  /\ Won(m.term)
  /\ m.prevIndex + Len(m.entries) <= Len(l)
  /\ \A j \in 1..Len(m.entries) : m.entries[j] = l[m.prevIndex + j]
  /\ m.prevIndex > 0 => m.prevTerm = l[m.prevIndex].term
  /\ m.leaderCommit <= m.prevIndex + Len(m.entries)
  /\ Decided(led, taken, l, m.term, m.leaderCommit)

(* While its sender stands, a request tells where its log ends.            *)
RequestSound(m) ==
  /\ m.term <= term[m.from]
  /\ m.term = term[m.from] /\ role[m.from] = "candidate" =>
       m.lastLogIndex = Len(log[m.from]) /\ m.lastLogTerm = LastTerm(log[m.from])

MessageSound(led, taken, m) ==
  /\ m.kind = "append" => AppendSound(led, taken, m)
  /\ m.kind = "append-resp" /\ m.ok => m.matchIndex <= taken[m.from][m.term]
  /\ m.kind = "req-vote" => RequestSound(m)

MessagesSound(led, taken) == \A m \in net : MessageSound(led, taken, m)

-----------------------------------------------------------------------------
(* The choices.                                                            *)

(* An entry that may be chosen is in the log of every later leader ...     *)
LeadersKeep(led, taken) ==
  \A t, u \in DOMAIN led : \A i \in 1..Len(led[t]) :
    t < u /\ Won(u) /\ MayCommit(led, taken, t, i) => Agree(led[u], led[t], i)

(* ... and stays in the log of every server that took it ...               *)
ServersKeep(led, taken) ==
  \A s \in Server, t \in DOMAIN led : \A i \in 1..taken[s][t] :
    MayCommit(led, taken, t, i) => Agree(log[s], led[t], i)

(* ... so that whoever it votes for is as up to date.                      *)
VoterSound(led, taken, b) ==
  /\ b[1] <= term[b[3]]
  /\ b[1] = term[b[3]] /\ role[b[3]] = "candidate" =>
       \A t \in DOMAIN led : \A i \in 1..taken[b[2]][t] :
         t < b[1] /\ MayCommit(led, taken, t, i)
           => UpTo(LastTerm(log[b[3]]), Len(log[b[3]]), t, i)

VotersKeep(led, taken) == \A b \in ballots : VoterSound(led, taken, b)

(* What is committed was chosen. *)
CommitsChosen(led, taken) ==
  \A s \in Server : Decided(led, taken, log[s], term[s], commitIndex[s])

HistoryInv(led, taken) ==
  /\ LogsWritten(led) /\ LeadersLead(led, taken) /\ TakenHeld(led, taken)
  /\ MessagesSound(led, taken)
  /\ LeadersKeep(led, taken) /\ ServersKeep(led, taken) /\ VotersKeep(led, taken)
  /\ CommitsChosen(led, taken)
=============================================================================
