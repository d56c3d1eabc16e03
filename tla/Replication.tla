---------------------------- MODULE Replication -----------------------------
(***************************************************************************)
(* Leader-follower replication of the chapter 5 lab,                       *)
(* src/src/modules/replication.ts.                                         *)
(*                                                                         *)
(* One action per event the reducer handles, and the engine's kill, revive *)
(* and loss of messages.  A timer may fire at any time after it is armed.  *)
(* `net' holds the messages sent and not delivered; a delivery may leave a *)
(* duplicate behind.  Of virtual time only the instant of a read is kept:  *)
(* what follows it happens at its time until a step Tick, and a message    *)
(* sent meanwhile arrives later.                                           *)
(***************************************************************************)
EXTENDS Integers, Sequences, FiniteSets

CONSTANTS
  leader, Follower,   \* nodeIds[0] and the others
  Key,
  MaxWrites,          \* bound: the seqs that fairness speaks of
  Within(_)           \* bound: the writes, reads, kills, losses and duplicates
                      \* that a behaviour may have

ASSUME LeaderAssumption == leader \notin Follower

VARIABLES
  mode,          \* "async" or "sync", a parameter of the lab
  log, buffer,   \* per node: entries applied, and by seq the early ones
  nextSeq,       \* the leader's
  pending,       \* the leader's: by seq, [entry, awaiting]
  retransmits,   \* the seqs whose retransmit timer is queued
  acked, reads,  \* history: the seqs acknowledged, and the reads, each with
                 \* those acknowledged at a time not after its own
  net, sentNow,  \* messages in flight, those sent since a read of this instant
  dead, leaderKilled,    \* nodes down; was the leader ever?
  writes, kills, losses, dups   \* what the bound counts

leaderVars == <<nextSeq, pending, retransmits>>
netVars    == <<net, sentNow>>
faultVars  == <<dead, leaderKilled, kills, losses>>
vars == <<mode, log, buffer, leaderVars, acked, reads, netVars, faultVars, writes, dups>>

Node == {leader} \cup Follower

(* The value is left out: seq tells every write apart.                     *)
Entry == [seq : Nat \ {0}, key : Key]

Used ==
  [writes |-> writes, reads |-> Cardinality(reads), kills |-> kills,
   losses |-> losses, dups |-> dups]

None == [i \in {} |-> i]

Init ==
  /\ mode \in {"async", "sync"}
  /\ log = [n \in Node |-> <<>>]
  /\ buffer = [n \in Node |-> None]
  /\ nextSeq = 1 /\ pending = None /\ retransmits = {}
  /\ acked = {} /\ reads = {}
  /\ net = {} /\ sentNow = {} /\ dead = {} /\ leaderKilled = FALSE
  /\ writes = 0 /\ kills = 0 /\ losses = 0 /\ dups = 0

AppendTo(f, e) == [rep |-> "append", to |-> f, from |-> leader, entry |-> e]
AckFrom(f, s)  == [rep |-> "ack", to |-> leader, from |-> f, seq |-> s]

(* What the network may ever carry. *)
Seqs     == 1..MaxWrites
Sendable == {AppendTo(f, [seq |-> s, key |-> key]) : f \in Follower, s \in Seqs, key \in Key}
              \cup {AckFrom(f, s) : f \in Follower, s \in Seqs}

Send(rest, M) ==
  /\ net' = rest \cup M
  /\ sentNow' = IF \E r \in reads : r.now THEN sentNow \cup (M \ rest) ELSE sentNow

(* A Record: an entry put under its seq replaces the one that was there.   *)
Put(record, s, x) == [i \in DOMAIN record \cup {s} |-> IF i = s THEN x ELSE record[i]]
Without(record, S) == [i \in DOMAIN record \ S |-> record[i]]

-----------------------------------------------------------------------------
(* Clients.                                                                *)

(* data[key]?.seq ?? 0: of the entries applied, the last one of the key.   *)
LastSeq(l, key) ==
  LET at == {i \in DOMAIN l : l[i].key = key}
  IN IF at = {} THEN 0 ELSE l[CHOOSE i \in at : \A j \in at : j <= i].seq

ClientRead(n, key) ==
  /\ n \notin dead
  /\ reads' = reads \cup {[node |-> n, key |-> key, returnedSeq |-> LastSeq(log[n], key),
                           acked |-> acked, now |-> TRUE]}
  /\ Within([Used EXCEPT !.reads = Cardinality(reads')])
  /\ UNCHANGED <<mode, log, buffer, leaderVars, acked, netVars, faultVars, writes, dups>>

(* An ack of the leader's history counts for the reads of its own instant. *)
Acknowledge(s) ==
  /\ acked' = acked \cup {s}
  /\ reads' = {[r EXCEPT !.acked = IF r.now THEN @ \cup {s} ELSE @] : r \in reads}

(* A write whose seq is handed out again. *)
ClientWriteSameSeq(key) ==
  /\ leader \notin dead
  /\ Within([Used EXCEPT !.writes = @ + 1]) /\ writes' = writes + 1
  /\ LET e == [seq |-> nextSeq, key |-> key] IN
     /\ log' = [log EXCEPT ![leader] = Append(@, e)]
     /\ Send(net, {AppendTo(f, e) : f \in Follower})
  /\ UNCHANGED <<mode, leaderVars, buffer, acked, reads, faultVars, dups>>

ClientWrite(key) ==
  /\ leader \notin dead
  /\ Within([Used EXCEPT !.writes = @ + 1]) /\ writes' = writes + 1
  /\ LET e == [seq |-> nextSeq, key |-> key] IN
     /\ nextSeq' = nextSeq + 1
     /\ log' = [log EXCEPT ![leader] = Append(@, e)]
     /\ Send(net, {AppendTo(f, e) : f \in Follower})
     /\ IF mode = "async" THEN Acknowledge(e.seq) /\ UNCHANGED <<pending, retransmits>>
        ELSE /\ pending' = Put(pending, e.seq, [entry |-> e, awaiting |-> Follower])
             /\ retransmits' = retransmits \cup {e.seq}
             /\ UNCHANGED <<acked, reads>>
  /\ UNCHANGED <<mode, buffer, faultVars, dups>>

-----------------------------------------------------------------------------
(* A follower takes an entry into its buffer and applies what has no gap.  *)

(* The loop ends at the first seq that the buffer does not hold.           *)
Upto(len, b) ==
  CHOOSE k \in {len} \cup DOMAIN b :
    /\ len <= k /\ k + 1 \notin DOMAIN b
    /\ \A i \in len + 1 .. k : i \in DOMAIN b

(* An entry acknowledged although it only waits in the buffer. *)
AckEarly(e, len, last) == {e.seq} \cup (len + 1 .. last)

(* An entry already applied is acknowledged again; so is each one applied. *)
AckSeqs(e, len, last) == {s \in {e.seq} : s <= len} \cup (len + 1 .. last)

Applied(l, b, last) == [i \in 1..last |-> IF i <= Len(l) THEN l[i] ELSE b[i]]

HandleAppend(f, m, rest) ==
  /\ m.rep = "append" /\ m.to = f /\ f \in Follower
  /\ LET len  == Len(log[f])
         b    == Put(buffer[f], m.entry.seq, m.entry)
         last == Upto(len, b)
     IN /\ log' = [log EXCEPT ![f] = Applied(@, b, last)]
        /\ buffer' = [buffer EXCEPT ![f] = Without(b, len + 1 .. last)]
        /\ Send(rest, {AckFrom(f, s) : s \in {x \in AckSeqs(m.entry, len, last) :
                                             mode = "sync"}})
  /\ UNCHANGED <<mode, leaderVars, acked, reads, faultVars, writes>>

(* Any ack completes the write. *)
HandleFirstAck(m, rest) ==
  /\ m.rep = "ack" /\ net' = rest /\ UNCHANGED sentNow
  /\ IF m.seq \in DOMAIN pending
     THEN pending' = Without(pending, {m.seq}) /\ Acknowledge(m.seq)
     ELSE UNCHANGED <<pending, acked, reads>>
  /\ UNCHANGED <<mode, log, buffer, nextSeq, retransmits, faultVars, writes>>

(* The last ack awaited completes the write; one of a write completed, or  *)
(* of a follower not awaited, changes nothing.                             *)
HandleAck(m, rest) ==
  /\ m.rep = "ack" /\ net' = rest /\ UNCHANGED sentNow
  /\ LET awaiting == pending[m.seq].awaiting \ {m.from} IN
     IF m.seq \notin DOMAIN pending \/ m.from \notin pending[m.seq].awaiting
     THEN UNCHANGED <<pending, acked, reads>>
     ELSE IF awaiting = {}
          THEN pending' = Without(pending, {m.seq}) /\ Acknowledge(m.seq)
          ELSE /\ pending' = [pending EXCEPT ![m.seq].awaiting = awaiting]
               /\ UNCHANGED <<acked, reads>>
  /\ UNCHANGED <<mode, log, buffer, nextSeq, retransmits, faultVars, writes>>

(* A timer that sends once more and is not armed again. *)
RetransmitOnce(s) ==
  /\ s \in retransmits /\ leader \notin dead
  /\ Send(net, IF s \in DOMAIN pending
                THEN {AppendTo(f, pending[s].entry) : f \in pending[s].awaiting} ELSE {})
  /\ retransmits' = retransmits \ {s}
  /\ UNCHANGED <<mode, log, buffer, nextSeq, pending, acked, reads, faultVars, writes, dups>>

(* The timer of a write still pending sends again and is armed again; that *)
(* of a completed one is spent.                                            *)
Retransmit(s) ==
  /\ s \in retransmits /\ leader \notin dead
  /\ IF s \in DOMAIN pending
     THEN /\ Send(net, {AppendTo(f, pending[s].entry) : f \in pending[s].awaiting})
          /\ UNCHANGED retransmits
     ELSE UNCHANGED netVars /\ retransmits' = retransmits \ {s}
  /\ UNCHANGED <<mode, log, buffer, nextSeq, pending, acked, reads, faultVars, writes, dups>>

-----------------------------------------------------------------------------
(* The engine: what comes due at a dead node is dropped.                   *)

TimerLost(s) ==
  /\ s \in retransmits /\ leader \in dead
  /\ retransmits' = retransmits \ {s}
  /\ UNCHANGED <<mode, log, buffer, nextSeq, pending, acked, reads, netVars, faultVars, writes, dups>>

LostAtDead(m) ==
  /\ m.to \in dead /\ m \notin sentNow /\ net' = net \ {m} /\ UNCHANGED sentNow
  /\ UNCHANGED <<mode, log, buffer, leaderVars, acked, reads, faultVars, writes, dups>>

Handle(m, rest) == HandleAck(m, rest) \/ \E f \in Follower : HandleAppend(f, m, rest)

(* A delivery takes the message out of the queue, or leaves its duplicate. *)
Deliver(m) ==
  /\ m.to \notin dead /\ m \notin sentNow
  /\ \/ Handle(m, net \ {m}) /\ UNCHANGED dups
     \/ /\ Within([Used EXCEPT !.dups = @ + 1]) /\ dups' = dups + 1
        /\ Handle(m, net)

Lose(m) ==
  /\ Within([Used EXCEPT !.losses = @ + 1]) /\ losses' = losses + 1
  /\ net' = net \ {m} /\ sentNow' = sentNow \ {m}
  /\ UNCHANGED <<mode, log, buffer, leaderVars, acked, reads, dead, leaderKilled, kills, writes, dups>>

Kill(n) ==
  /\ n \notin dead
  /\ Within([Used EXCEPT !.kills = @ + 1]) /\ kills' = kills + 1
  /\ dead' = dead \cup {n} /\ leaderKilled' = (leaderKilled \/ n = leader)
  /\ UNCHANGED <<mode, log, buffer, leaderVars, acked, reads, netVars, losses, writes, dups>>

Revive(n) ==
  /\ n \in dead /\ dead' = dead \ {n}
  /\ UNCHANGED <<mode, log, buffer, leaderVars, acked, reads, netVars, leaderKilled, kills,
                 losses, writes, dups>>

(* Virtual time goes on: nothing that follows is at the time of the reads  *)
(* so far, and what was sent is on its way.                                *)
Tick ==
  /\ \E r \in reads : r.now
  /\ sentNow' = {} /\ reads' = {[r EXCEPT !.now = FALSE] : r \in reads}
  /\ UNCHANGED <<mode, log, buffer, leaderVars, acked, net, faultVars, writes, dups>>

Next ==
  \/ \E key \in Key : ClientWrite(key) \/ \E n \in Node : ClientRead(n, key)
  \/ \E m \in net : Deliver(m) \/ LostAtDead(m) \/ Lose(m)
  \/ \E s \in retransmits : Retransmit(s) \/ TimerLost(s)
  \/ Tick \/ \E n \in Node : Kill(n) \/ Revive(n)

Spec == Init /\ [][Next]_vars

(* Every event comes due: time goes on, each message arrives, and each     *)
(* timer fires (runUntil and the frames of the driver).                    *)
FairSpec ==
  /\ Spec /\ WF_vars(Tick)
  /\ \A m \in Sendable : WF_vars(m \in net /\ (Deliver(m) \/ LostAtDead(m)))
  /\ \A s \in Seqs : WF_vars(Retransmit(s) \/ TimerLost(s))

-----------------------------------------------------------------------------
(* Properties.                                                             *)

Messages ==
  [rep : {"append"}, to : Follower, from : {leader}, entry : Entry]
  \cup [rep : {"ack"}, to : {leader}, from : Follower, seq : Nat \ {0}]

(* Every variable has its type, and the leader's numbering has no gap.     *)
TypeOK ==
  /\ mode \in {"async", "sync"}
  /\ log \in [Node -> Seq(Entry)] /\ nextSeq = Len(log[leader]) + 1
  /\ buffer = [n \in Node |-> buffer[n]]
  /\ \A n \in Node : /\ buffer[n] \in [DOMAIN buffer[n] -> Entry]
                     /\ DOMAIN buffer[n] \subseteq Nat \ {0}
  /\ pending \in [DOMAIN pending -> [entry : Entry, awaiting : SUBSET Follower]]
  /\ DOMAIN pending \cup retransmits \cup acked \subseteq Nat \ {0}
  /\ \A r \in reads : r \in [node : Node, key : Key, returnedSeq : Nat,
                              acked : SUBSET Nat, now : BOOLEAN]
  /\ net \subseteq Messages /\ sentNow \subseteq net
  /\ dead \subseteq Node /\ leaderKilled \in BOOLEAN
  /\ writes \in Nat /\ kills \in Nat /\ losses \in Nat /\ dups \in Nat

(* The promise: followers hold prefixes of the leader's log and only go    *)
(* forward, and a sync write is acknowledged when all of them have it      *)
(* (comments at replication.ts:4-8, replication.property.test.ts).         *)
Promise ==
  INSTANCE LogCopies WITH
    sync <- (mode = "sync"), primary <- log[leader],
    copy <- [f \in Follower |-> log[f]]
KeepsPromise == Promise!Spec

(* detectStaleRead: a read older than a write acknowledged at its time or  *)
(* before.                                                                 *)
Stale(r) == \E s \in r.acked : s > r.returnedSeq /\ log[leader][s].key = r.key

(* In sync mode no read is stale, not even one of the very instant of the  *)
(* acknowledgement, on whatever node (the lab's claim for sync mode).      *)
SyncNeverStale == mode = "sync" => \A r \in reads : ~Stale(r)

(* The verifier never fires for a read of the leader                       *)
(* (replication.property.test.ts: "verifier never fires when all reads go  *)
(* to the leader").  It does not hold when a write follows the read at the *)
(* same virtual time: Stale takes the read for the later one.              *)
LeaderNeverStale == \A r \in reads : r.node = leader => ~Stale(r)

(* A pending write is always due to be sent again, as long as the leader   *)
(* was never down when its timer fired.                                    *)
PendingRetransmits == ~leaderKilled => DOMAIN pending \subseteq retransmits

(* Every pending write goes on being sent again, kills or not (comment at  *)
(* replication.ts:7: "unacked appends retransmit every RETRANSMIT_MS").    *)
(* It does not hold once a timer came due at the dead leader.              *)
UnackedRetransmit == leader \notin dead => DOMAIN pending \subseteq retransmits

(* Every sync write is acknowledged in the end, whatever the network loses *)
(* and repeats and whatever follower dies for a while, unless the leader   *)
(* was killed.                                                             *)
SyncCompletes ==
  <>[](dead = {} /\ ~leaderKilled) =>
    \A s \in Seqs : s \in DOMAIN pending ~> s \notin DOMAIN pending
=============================================================================
