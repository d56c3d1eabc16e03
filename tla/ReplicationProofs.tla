------------------------- MODULE ReplicationProofs --------------------------
(***************************************************************************)
(* Proofs about Replication for every set of followers and every bound:    *)
(* the variables keep their types, followers hold prefixes of the leader's *)
(* log and a sync acknowledgement means all of them hold the write, the    *)
(* algorithm implements LogCopies, and no read in sync mode is stale.      *)
(***************************************************************************)
EXTENDS Replication, NatLemmas, SequenceTheorems

(* Every entry anywhere is the leader's of that seq, so that a buffered    *)
(* one extends the prefix whatever order the copies came in.               *)
InLog(l, e) == e.seq \in 1..Len(l) /\ e = l[e.seq]

EntriesInLog ==
  /\ \A i \in 1..Len(log[leader]) : log[leader][i].seq = i
  /\ \A m \in net : m.rep = "append" => InLog(log[leader], m.entry)
  /\ \A f \in Follower : \A s \in DOMAIN buffer[f] :
       buffer[f][s].seq = s /\ InLog(log[leader], buffer[f][s])
  /\ \A s \in DOMAIN pending : pending[s].entry.seq = s /\ InLog(log[leader], pending[s].entry)

Prefixes ==
  \A f \in Follower : /\ Len(log[f]) <= Len(log[leader])
                      /\ \A i \in 1..Len(log[f]) : log[f][i] = log[leader][i]

(* An ack in flight or counted is of an entry its sender has applied.      *)
Confirmed ==
  /\ \A m \in net : m.rep = "ack" => m.seq <= Len(log[m.from])
  /\ \A s \in DOMAIN pending : \A f \in Follower \ pending[s].awaiting : s <= Len(log[f])
  /\ acked \subseteq 1..Len(log[leader])
  /\ mode = "sync" => \A s \in acked, f \in Follower : s <= Len(log[f])

IInv == TypeOK /\ EntriesInLog /\ Prefixes /\ Confirmed

(* Why reads in sync mode are fresh: whatever may still complete a write   *)
(* in the instant of a read was applied by the node read before the read.  *)
Fresh(r, s) == log[leader][s].key = r.key => s <= r.returnedSeq

Speaks(f, r) == r.node = leader \/ r.node = f

ReadsFresh ==
  mode = "sync" => \A r \in reads :
    /\ r.acked \subseteq acked /\ \A s \in r.acked : Fresh(r, s)
    /\ r.now =>
         /\ \A m \in net \ sentNow : m.rep = "ack" /\ Speaks(m.from, r) => Fresh(r, m.seq)
         /\ \A s \in DOMAIN pending : \A f \in Follower \ pending[s].awaiting :
              Speaks(f, r) => Fresh(r, s)

-----------------------------------------------------------------------------
(* What the helpers return. *)

(* The last entry of a key in a numbered log is the one of greatest seq.   *)
LEMMA LastSeqIsLast ==
  ASSUME NEW l \in Seq(Entry), NEW key, \A i \in 1..Len(l) : l[i].seq = i
  PROVE  /\ LastSeq(l, key) \in Nat
         /\ \A i \in 1..Len(l) : l[i].key = key => i <= LastSeq(l, key)
<1> DEFINE at == {i \in DOMAIN l : l[i].key = key}
           last == CHOOSE i \in at : \A j \in at : j <= i
<1>1. Len(l) \in Nat /\ DOMAIN l = 1..Len(l)
  OBVIOUS
<1>2. LastSeq(l, key) = IF at = {} THEN 0 ELSE l[last].seq
  BY DEF LastSeq
<1>3. \A i \in 1..Len(l) : l[i].key = key => i \in at
  BY <1>1
<1>4. at \in SUBSET Nat /\ \A i \in at : i \in 1..Len(l) /\ i <= Len(l)
  BY <1>1
<1> HIDE DEF at
<1>5. CASE at = {}
  BY <1>2, <1>3, <1>5
<1>6. CASE at # {}
  <2>1. \E i \in at : \A j \in at : j <= i
    BY <1>1, <1>4, <1>6, GreatestExists
  <2>2. last \in at /\ \A j \in at : j <= last
    BY <2>1
  <2>3. LastSeq(l, key) = last
    BY <1>2, <1>4, <1>6, <2>2
  <2> QED
    BY <1>3, <1>4, <2>2, <2>3
<1> QED
  BY <1>5, <1>6

(* The loop stops at a first gap, which a bounded buffer must have.        *)
LEMMA UptoIsFirstGap ==
  ASSUME NEW len \in Nat, NEW top \in Nat, len <= top,
         NEW b, DOMAIN b \subseteq 1..top
  PROVE  /\ Upto(len, b) \in len..top
         /\ Upto(len, b) + 1 \notin DOMAIN b
         /\ \A i \in len + 1 .. Upto(len, b) : i \in DOMAIN b
<1> DEFINE gaps == {k \in Nat : len <= k /\ k + 1 \notin DOMAIN b}
           Stops(k) == /\ len <= k /\ k + 1 \notin DOMAIN b
                       /\ \A i \in len + 1 .. k : i \in DOMAIN b
<1>1. top \in gaps
  BY top + 1 \notin 1..top
<1>2. gaps \in SUBSET Nat /\ gaps # {}
  BY <1>1
<1>3. PICK k \in gaps : \A j \in gaps : k <= j
  BY <1>2, LeastExists
<1>4. k \in Nat /\ len <= k /\ k + 1 \notin DOMAIN b
  OBVIOUS
<1>5. ASSUME NEW i \in len + 1 .. k PROVE i \in DOMAIN b
  <2>1. i - 1 \in Nat /\ len <= i - 1 /\ ~(k <= i - 1) /\ (i - 1) + 1 = i
    BY <1>4, <1>5
  <2>2. i - 1 \notin gaps
    BY <1>3, <2>1
  <2> QED
    BY <2>1, <2>2
<1>6. k \in {len} \cup DOMAIN b
  <2>1. k # len => k \in len + 1 .. k
    BY <1>4
  <2> QED
    BY <1>5, <2>1
<1>7. Stops(k)
  BY <1>4, <1>5
<1>8. Upto(len, b) = CHOOSE x \in {len} \cup DOMAIN b : Stops(x)
  BY DEF Upto
<1> HIDE DEF Stops
<1>9. Upto(len, b) \in {len} \cup DOMAIN b /\ Stops(Upto(len, b))
  BY <1>6, <1>7, <1>8
<1> QED
  BY <1>9 DEF Stops

LEMMA PrefixOf ==
  ASSUME NEW S, NEW l \in Seq(S), NEW n \in Nat, n <= Len(l)
  PROVE  /\ SubSeq(l, 1, n) \in Seq(S) /\ Len(SubSeq(l, 1, n)) = n
         /\ \A i \in 1..n : SubSeq(l, 1, n)[i] = l[i]
<1>1. Len(l) \in Nat
  OBVIOUS
<1>2. \A i \in 1..n : l[i] \in S
  BY <1>1, ElementOfSeq
<1>3. n - 1 + 1 = n /\ (1 <= n \/ n = 0) /\ \A i \in 1..n : 1 + i - 1 = i
  OBVIOUS
<1> QED
  BY <1>2, <1>3, SubSeqProperties

-----------------------------------------------------------------------------
(* The invariant holds at first and is kept by every step.                 *)

ReadsTyped ==
  \A r \in reads : r \in [node : Node, key : Key, returnedSeq : Nat,
                           acked : SUBSET Nat, now : BOOLEAN]

FaultsTyped ==
  /\ dead \subseteq Node /\ leaderKilled \in BOOLEAN
  /\ writes \in Nat /\ kills \in Nat /\ losses \in Nat /\ dups \in Nat

LEMMA InitIInv == Init => IInv
<1> SUFFICES ASSUME Init PROVE IInv
  OBVIOUS
<1>1. \A n \in Node : log[n] = <<>> /\ buffer[n] = None
  BY DEF Init
<1>2. leader \in Node /\ \A f \in Follower : f \in Node
  BY DEF Node
<1>3. DOMAIN None = {} /\ DOMAIN pending = {}
  BY DEF Init, None
<1>4. Len(<<>>) = 0 /\ 1..0 = {} /\ <<>> \in Seq(Entry)
  OBVIOUS
<1>5. log \in [Node -> Seq(Entry)] /\ nextSeq = Len(log[leader]) + 1
  BY <1>1, <1>2, <1>4 DEF Init
<1>6. /\ buffer = [n \in Node |-> buffer[n]]
      /\ \A n \in Node : /\ buffer[n] \in [DOMAIN buffer[n] -> Entry]
                         /\ DOMAIN buffer[n] \subseteq Nat \ {0}
  BY <1>1, <1>3 DEF Init, None
<1>7. pending \in [DOMAIN pending -> [entry : Entry, awaiting : SUBSET Follower]]
  BY <1>3 DEF Init, None
<1>8. TypeOK
  BY <1>3, <1>5, <1>6, <1>7 DEF Init, TypeOK
<1>9. EntriesInLog /\ Prefixes /\ Confirmed
  BY <1>1, <1>2, <1>3, <1>4 DEF Init, EntriesInLog, Prefixes, Confirmed
<1> QED
  BY <1>8, <1>9 DEF IInv

(* A step that leaves the logs and what is pending alone and sends nothing *)
(* keeps it.                                                               *)
LEMMA QuietStep ==
  ASSUME IInv, UNCHANGED <<mode, log, buffer, nextSeq, pending, acked>>,
         net' \subseteq net, sentNow' \subseteq net', retransmits' \subseteq retransmits,
         ReadsTyped', FaultsTyped'
  PROVE  IInv'
<1>1. TypeOK'
  BY DEF IInv, TypeOK, ReadsTyped, FaultsTyped
<1>2. EntriesInLog' /\ Prefixes' /\ Confirmed'
  BY DEF IInv, EntriesInLog, Prefixes, Confirmed, InLog
<1> QED
  BY <1>1, <1>2 DEF IInv

(* The copies of a pending entry, sent again. *)
LEMMA RetransmitStep ==
  ASSUME IInv, NEW s \in retransmits, Retransmit(s)
  PROVE  IInv'
<1>1. CASE s \notin DOMAIN pending
  <2>1. ReadsTyped' /\ FaultsTyped' /\ sentNow' \subseteq net'
    BY <1>1 DEF IInv, TypeOK, ReadsTyped, FaultsTyped, Retransmit, netVars, faultVars
  <2> QED
    BY <1>1, <2>1, QuietStep DEF Retransmit, netVars
<1>2. CASE s \in DOMAIN pending
  <2> DEFINE M == {AppendTo(f, pending[s].entry) : f \in pending[s].awaiting}
  <2>1. pending[s].entry \in Entry /\ pending[s].awaiting \subseteq Follower
    BY <1>2 DEF IInv, TypeOK
  <2>2. \A m \in M : m \in Messages /\ m.rep = "append" /\ m.entry = pending[s].entry
    BY <2>1 DEF Messages, AppendTo
  <2>3. /\ net' = net \cup M /\ sentNow' \subseteq sentNow \cup M
        /\ UNCHANGED <<mode, log, buffer, nextSeq, pending, retransmits, acked, reads,
                       faultVars, writes, dups>>
    BY <1>2 DEF Retransmit, Send
  <2> HIDE DEF M
  <2>4. TypeOK'
    BY <2>2, <2>3 DEF IInv, TypeOK, faultVars
  <2>5. InLog(log[leader], pending[s].entry)
    BY <1>2 DEF IInv, EntriesInLog
  <2>6. EntriesInLog'
    BY <2>2, <2>3, <2>5 DEF IInv, EntriesInLog, InLog
  <2>7. Prefixes' /\ Confirmed'
    BY <2>2, <2>3 DEF IInv, Prefixes, Confirmed
  <2> QED
    BY <2>4, <2>6, <2>7 DEF IInv
<1> QED
  BY <1>1, <1>2

(* A read returns the seq of an entry of the log it reads. *)
LEMMA ReadStep ==
  ASSUME IInv, NEW n \in Node, NEW key \in Key, ClientRead(n, key)
  PROVE  IInv'
<1> DEFINE r == [node |-> n, key |-> key, returnedSeq |-> LastSeq(log[n], key),
                 acked |-> acked, now |-> TRUE]
<1>1. log[n] \in Seq(Entry) /\ Len(log[n]) \in Nat /\ Len(log[leader]) \in Nat
  BY DEF IInv, TypeOK, Node
<1>2. \A i \in 1..Len(log[n]) : log[n][i].seq = i
  BY <1>1 DEF IInv, EntriesInLog, Prefixes, Node
<1>3. LastSeq(log[n], key) \in Nat
  BY <1>1, <1>2, LastSeqIsLast
<1>4. acked \subseteq Nat
  BY DEF IInv, TypeOK
<1>5. r \in [node : Node, key : Key, returnedSeq : Nat, acked : SUBSET Nat, now : BOOLEAN]
  BY <1>3, <1>4
<1>6. reads' = reads \cup {r}
  BY DEF ClientRead
<1> HIDE DEF r
<1>7. ReadsTyped'
  BY <1>5, <1>6 DEF IInv, TypeOK, ReadsTyped
<1>8. FaultsTyped' /\ sentNow' \subseteq net'
  BY DEF ClientRead, IInv, TypeOK, FaultsTyped, netVars, faultVars
<1> QED
  BY <1>7, <1>8, QuietStep DEF ClientRead, leaderVars, netVars

(* Acknowledging a seq leaves the reads typed. *)
LEMMA AcknowledgeTyped ==
  ASSUME IInv, NEW s \in Nat, Acknowledge(s)
  PROVE  ReadsTyped'
<1> SUFFICES ASSUME NEW q \in reads'
             PROVE  q \in [node : Node, key : Key, returnedSeq : Nat,
                           acked : SUBSET Nat, now : BOOLEAN]
  BY DEF ReadsTyped
<1>1. PICK r \in reads : q = [r EXCEPT !.acked = IF r.now THEN @ \cup {s} ELSE @]
  BY DEF Acknowledge
<1>2. r \in [node : Node, key : Key, returnedSeq : Nat, acked : SUBSET Nat, now : BOOLEAN]
  BY DEF IInv, TypeOK
<1> QED
  BY <1>1, <1>2

(* The steps of the engine and of the clients that send nothing. *)
LEMMA EngineStep ==
  ASSUME IInv,
         \/ \E n \in Node : Kill(n) \/ Revive(n)
         \/ Tick
         \/ \E m \in net : LostAtDead(m) \/ Lose(m)
         \/ \E s \in retransmits : TimerLost(s)
  PROVE  IInv'
<1>1. CASE \E n \in Node : Kill(n) \/ Revive(n)
  <2>1. ReadsTyped' /\ sentNow' \subseteq net'
    BY <1>1 DEF Kill, Revive, IInv, TypeOK, ReadsTyped, netVars
  <2>2. leaderKilled' \in BOOLEAN
    BY <1>1, Zenon DEF Kill, Revive, IInv, TypeOK
  <2>3. /\ dead' \subseteq Node
        /\ writes' \in Nat /\ kills' \in Nat /\ losses' \in Nat /\ dups' \in Nat
    BY <1>1 DEF Kill, Revive, IInv, TypeOK
  <2>4. FaultsTyped'
    BY <2>2, <2>3 DEF FaultsTyped
  <2> QED
    BY <1>1, <2>1, <2>4, QuietStep DEF Kill, Revive, leaderVars, netVars
<1>2. CASE Tick
  <2>1. FaultsTyped' /\ sentNow' \subseteq net'
    BY <1>2 DEF Tick, IInv, TypeOK, FaultsTyped, faultVars
  <2>2. ReadsTyped'
    <3> SUFFICES ASSUME NEW q \in reads'
                 PROVE  q \in [node : Node, key : Key, returnedSeq : Nat,
                               acked : SUBSET Nat, now : BOOLEAN]
      BY DEF ReadsTyped
    <3>1. PICK r \in reads : q = [r EXCEPT !.now = FALSE]
      BY <1>2 DEF Tick
    <3>2. r \in [node : Node, key : Key, returnedSeq : Nat, acked : SUBSET Nat, now : BOOLEAN]
      BY DEF IInv, TypeOK
    <3> QED
      BY <3>1, <3>2
  <2> QED
    BY <1>2, <2>1, <2>2, QuietStep DEF Tick, leaderVars
<1>3. CASE \E m \in net : LostAtDead(m) \/ Lose(m)
  <2>1. ReadsTyped' /\ FaultsTyped' /\ sentNow' \subseteq net'
    BY <1>3 DEF LostAtDead, Lose, IInv, TypeOK, ReadsTyped, FaultsTyped, faultVars
  <2> QED
    BY <1>3, <2>1, QuietStep DEF LostAtDead, Lose, leaderVars
<1>4. CASE \E s \in retransmits : TimerLost(s)
  <2>1. ReadsTyped' /\ FaultsTyped' /\ sentNow' \subseteq net'
    BY <1>4 DEF TimerLost, IInv, TypeOK, ReadsTyped, FaultsTyped, netVars, faultVars
  <2> QED
    BY <1>4, <2>1, QuietStep DEF TimerLost, netVars
<1> QED
  BY <1>1, <1>2, <1>3, <1>4

(* A write appends its entry to the leader's log, and to no other.         *)
LEMMA WriteGrows ==
  ASSUME IInv, NEW key \in Key, ClientWrite(key)
  PROVE  /\ log' \in [Node -> Seq(Entry)]
         /\ Len(log[leader]) \in Nat /\ Len(log'[leader]) = Len(log[leader]) + 1
         /\ \A i \in 1..Len(log[leader]) : log'[leader][i] = log[leader][i]
         /\ log'[leader][nextSeq] = [seq |-> nextSeq, key |-> key]
         /\ [seq |-> nextSeq, key |-> key] \in Entry
         /\ \A f \in Follower : log'[f] = log[f]
<1> DEFINE e == [seq |-> nextSeq, key |-> key]
<1>1. log[leader] \in Seq(Entry) /\ leader \in Node
  BY DEF IInv, TypeOK, Node
<1>2. Len(log[leader]) \in Nat /\ nextSeq = Len(log[leader]) + 1
  BY <1>1 DEF IInv, TypeOK
<1>3. e \in Entry
  BY <1>2 DEF Entry
<1>4. log' = [log EXCEPT ![leader] = Append(@, e)]
  BY DEF ClientWrite
<1> HIDE DEF e
<1>5. /\ Append(log[leader], e) \in Seq(Entry)
      /\ Len(Append(log[leader], e)) = Len(log[leader]) + 1
      /\ \A i \in 1..Len(log[leader]) : Append(log[leader], e)[i] = log[leader][i]
      /\ Append(log[leader], e)[Len(log[leader]) + 1] = e
  BY <1>1, <1>3, AppendProperties
<1>6. log'[leader] = Append(log[leader], e) /\ \A f \in Follower : log'[f] = log[f]
  BY <1>1, <1>4, LeaderAssumption DEF IInv, TypeOK, Node
<1>7. log' \in [Node -> Seq(Entry)]
  BY <1>1, <1>4, <1>5 DEF IInv, TypeOK
<1> QED
  BY <1>2, <1>3, <1>5, <1>6, <1>7 DEF e

LEMMA WriteStep ==
  ASSUME IInv, NEW key \in Key, ClientWrite(key)
  PROVE  IInv'
<1> DEFINE e == [seq |-> nextSeq, key |-> key]
           M == {AppendTo(f, e) : f \in Follower}
           p == [entry |-> e, awaiting |-> Follower]
<1>1. /\ log' \in [Node -> Seq(Entry)]
      /\ Len(log[leader]) \in Nat /\ Len(log'[leader]) = Len(log[leader]) + 1
      /\ \A i \in 1..Len(log[leader]) : log'[leader][i] = log[leader][i]
      /\ log'[leader][nextSeq] = e /\ e \in Entry
      /\ \A f \in Follower : log'[f] = log[f]
  BY WriteGrows
<1>2. nextSeq = Len(log[leader]) + 1 /\ nextSeq' = nextSeq + 1 /\ e.seq = nextSeq
  BY DEF ClientWrite, IInv, TypeOK
<1>3. \A m \in M : m \in Messages /\ m.rep = "append" /\ m.entry = e
  BY <1>1 DEF AppendTo, Messages
<1>4. net' = net \cup M /\ sentNow' \subseteq sentNow \cup M
  BY DEF ClientWrite, Send
<1>5. \/ /\ mode = "async" /\ Acknowledge(nextSeq) /\ UNCHANGED <<pending, retransmits>>
      \/ /\ mode # "async" /\ pending' = Put(pending, nextSeq, p)
         /\ retransmits' = retransmits \cup {nextSeq} /\ UNCHANGED <<acked, reads>>
  BY DEF ClientWrite
<1>6. UNCHANGED <<mode, buffer, faultVars, dups>> /\ writes' = writes + 1
  BY DEF ClientWrite
<1>7. p.entry = e /\ p.awaiting = Follower /\ p \in [entry : Entry, awaiting : SUBSET Follower]
  BY <1>1
<1>8. leader \in Node /\ \A f \in Follower : f \in Node
  BY DEF Node
<1> HIDE DEF e, M, p
<1>9. /\ DOMAIN pending' \subseteq DOMAIN pending \cup {nextSeq}
      /\ \A s \in DOMAIN pending' : pending'[s] = IF s \in DOMAIN pending /\ s # nextSeq
                                                  THEN pending[s] ELSE p
  <2>1. nextSeq \notin DOMAIN pending
    BY <1>1, <1>2 DEF IInv, EntriesInLog, InLog
  <2> QED
    BY <1>5, <2>1 DEF Put
<1>10. pending' \in [DOMAIN pending' -> [entry : Entry, awaiting : SUBSET Follower]]
  <2>1. pending' = [s \in DOMAIN pending' |-> pending'[s]]
    BY <1>5 DEF Put, IInv, TypeOK
  <2>2. \A s \in DOMAIN pending' : pending'[s] \in [entry : Entry, awaiting : SUBSET Follower]
    BY <1>7, <1>9 DEF IInv, TypeOK
  <2> QED
    BY <2>1, <2>2
<1>11. ReadsTyped'
  <2>1. nextSeq \in Nat
    BY <1>1, <1>2
  <2>2. reads' = reads => ReadsTyped'
    BY DEF IInv, TypeOK, ReadsTyped
  <2> QED
    BY <1>5, <2>1, <2>2, AcknowledgeTyped
<1>12. acked' \subseteq acked \cup {nextSeq} /\ retransmits' \subseteq retransmits \cup {nextSeq}
  BY <1>5 DEF Acknowledge
<1>13. nextSeq \in Nat \ {0} /\ nextSeq' = Len(log'[leader]) + 1
  BY <1>1, <1>2
<1>14. TypeOK'
  <2>1. log' \in [Node -> Seq(Entry)] /\ nextSeq' = Len(log'[leader]) + 1
    BY <1>1, <1>13
  <2>2. DOMAIN pending' \cup retransmits' \cup acked' \subseteq Nat \ {0}
    BY <1>9, <1>12, <1>13 DEF IInv, TypeOK
  <2>3. net' \subseteq Messages /\ sentNow' \subseteq net'
    BY <1>3, <1>4 DEF IInv, TypeOK
  <2>4. /\ dead' \subseteq Node /\ leaderKilled' \in BOOLEAN
        /\ writes' \in Nat /\ kills' \in Nat /\ losses' \in Nat /\ dups' \in Nat
    BY <1>6 DEF IInv, TypeOK, faultVars
  <2>5. /\ mode' \in {"async", "sync"} /\ buffer' = [n \in Node |-> buffer'[n]]
        /\ \A n \in Node : /\ buffer'[n] \in [DOMAIN buffer'[n] -> Entry]
                           /\ DOMAIN buffer'[n] \subseteq Nat \ {0}
    BY <1>6 DEF IInv, TypeOK
  <2> QED
    BY <1>10, <1>11, <2>1, <2>2, <2>3, <2>4, <2>5 DEF TypeOK, ReadsTyped
<1>15. \A x : InLog(log[leader], x) => InLog(log'[leader], x)
  BY <1>1 DEF InLog
<1>16. InLog(log'[leader], e)
  BY <1>1, <1>2, <1>13 DEF InLog
<1>17. EntriesInLog'
  <2>1. \A i \in 1..Len(log'[leader]) : log'[leader][i].seq = i
    <3>1. \A i \in 1..Len(log[leader]) : log'[leader][i].seq = i
      BY <1>1 DEF IInv, EntriesInLog
    <3>2. \A i \in 1..Len(log'[leader]) : i \in 1..Len(log[leader]) \/ i = nextSeq
      BY <1>1, <1>2
    <3> QED
      BY <1>1, <1>2, <3>1, <3>2
  <2>2. \A m \in net' : m.rep = "append" => InLog(log'[leader], m.entry)
    BY <1>3, <1>4, <1>15, <1>16 DEF IInv, EntriesInLog
  <2>3. \A f \in Follower : \A s \in DOMAIN buffer'[f] :
          buffer'[f][s].seq = s /\ InLog(log'[leader], buffer'[f][s])
    BY <1>6, <1>15 DEF IInv, EntriesInLog
  <2>4. \A s \in DOMAIN pending' : pending'[s].entry.seq = s /\ InLog(log'[leader], pending'[s].entry)
    BY <1>2, <1>7, <1>9, <1>15, <1>16 DEF IInv, EntriesInLog
  <2> QED
    BY <2>1, <2>2, <2>3, <2>4 DEF EntriesInLog, InLog
<1>18. Prefixes'
  <2> SUFFICES ASSUME NEW f \in Follower
               PROVE  /\ Len(log'[f]) <= Len(log'[leader])
                      /\ \A i \in 1..Len(log'[f]) : log'[f][i] = log'[leader][i]
    BY DEF Prefixes
  <2>1. Len(log[f]) \in Nat
    BY <1>8 DEF IInv, TypeOK
  <2>2. /\ log'[f] = log[f] /\ Len(log[f]) <= Len(log[leader])
        /\ \A i \in 1..Len(log[f]) : log[f][i] = log[leader][i]
    BY <1>1 DEF IInv, Prefixes
  <2>3. \A i \in 1..Len(log[f]) : i \in 1..Len(log[leader])
    BY <1>1, <2>1, <2>2
  <2>4. Len(log[f]) <= Len(log'[leader])
    BY <1>1, <2>1, <2>2
  <2> QED
    BY <1>1, <2>2, <2>3, <2>4
<1>19. Confirmed'
  <2>1. \A m \in net' : m.rep = "ack" => m.seq <= Len(log'[m.from])
    BY <1>1, <1>3, <1>4 DEF IInv, TypeOK, Confirmed, Messages
  <2>2. \A s \in DOMAIN pending' : \A f \in Follower \ pending'[s].awaiting : s <= Len(log'[f])
    BY <1>1, <1>7, <1>9 DEF IInv, Confirmed
  <2>3. acked' \subseteq 1..Len(log'[leader])
    <3>1. nextSeq \in 1..Len(log'[leader]) /\ 1..Len(log[leader]) \subseteq 1..Len(log'[leader])
      BY <1>1, <1>2
    <3> QED
      BY <1>12, <3>1 DEF IInv, Confirmed
  <2>4. mode' = "sync" => \A s \in acked', f \in Follower : s <= Len(log'[f])
    BY <1>1, <1>5, <1>6 DEF IInv, Confirmed
  <2> QED
    BY <2>1, <2>2, <2>3, <2>4 DEF Confirmed
<1> QED
  BY <1>14, <1>17, <1>18, <1>19 DEF IInv

(* A follower that takes a copy holds a longer prefix afterwards, and acks *)
(* nothing it does not hold.                                               *)
LEMMA AppendExtends ==
  ASSUME IInv, NEW f \in Follower, NEW m \in net, NEW rest, HandleAppend(f, m, rest)
  PROVE  \E last \in Len(log[f])..Len(log[leader]) :
           /\ log' = [log EXCEPT ![f] = SubSeq(log[leader], 1, last)]
           /\ buffer' = [buffer EXCEPT ![f] = Without(Put(@, m.entry.seq, m.entry),
                                                      Len(log[f]) + 1 .. last)]
           /\ Send(rest, {AckFrom(f, s) : s \in {x \in AckSeqs(m.entry, Len(log[f]), last) :
                                                   mode = "sync"}})
           /\ AckSeqs(m.entry, Len(log[f]), last) \subseteq 1..last
<1> DEFINE len  == Len(log[f])
           top  == Len(log[leader])
           b    == Put(buffer[f], m.entry.seq, m.entry)
           last == Upto(len, b)
<1>1. f \in Node /\ leader \in Node /\ f # leader
  BY LeaderAssumption DEF Node
<1>2. log[f] \in Seq(Entry) /\ log[leader] \in Seq(Entry) /\ len \in Nat /\ top \in Nat
  BY <1>1 DEF IInv, TypeOK
<1>3. len <= top /\ \A i \in 1..len : log[f][i] = log[leader][i]
  BY DEF IInv, Prefixes
<1>4. InLog(log[leader], m.entry)
  BY DEF HandleAppend, IInv, EntriesInLog
<1>5. /\ DOMAIN b = DOMAIN buffer[f] \cup {m.entry.seq}
      /\ \A s \in DOMAIN b : b[s].seq = s /\ InLog(log[leader], b[s])
  BY <1>4 DEF Put, IInv, EntriesInLog
<1>6. DOMAIN b \subseteq 1..top /\ \A s \in DOMAIN b : b[s] = log[leader][s]
  BY <1>5 DEF InLog
<1>7. m.entry.seq \in 1..top
  BY <1>4 DEF InLog
<1>8. /\ log' = [log EXCEPT ![f] = Applied(log[f], b, last)]
      /\ buffer' = [buffer EXCEPT ![f] = Without(b, len + 1 .. last)]
      /\ Send(rest, {AckFrom(f, s) : s \in {x \in AckSeqs(m.entry, len, last) : mode = "sync"}})
  BY <1>1 DEF HandleAppend, IInv, TypeOK
<1> HIDE DEF len, top, b
<1>9. last \in len..top /\ \A i \in len + 1 .. last : i \in DOMAIN b
  BY <1>2, <1>3, <1>6, UptoIsFirstGap
<1> HIDE DEF last
<1>10. Applied(log[f], b, last) = [i \in 1..last |-> log[leader][i]]
  <2>1. \A i \in 1..last : IF i <= len THEN log[f][i] = log[leader][i]
                                       ELSE b[i] = log[leader][i]
    <3> SUFFICES ASSUME NEW i \in 1..last
                 PROVE  IF i <= len THEN log[f][i] = log[leader][i]
                                    ELSE b[i] = log[leader][i]
      OBVIOUS
    <3>1. i \in Nat \ {0} /\ i <= last
      BY <1>2, <1>9
    <3>2. ~(i <= len) => i \in len + 1 .. last
      BY <1>2, <1>9, <3>1
    <3>3. i <= len => i \in 1..len
      BY <1>2, <3>1
    <3> QED
      BY <1>3, <1>6, <1>9, <3>2, <3>3
  <2> QED
    BY <2>1 DEF Applied, len
<1>11. SubSeq(log[leader], 1, last) = [i \in 1..last |-> log[leader][i]]
  <2>1. last \in Nat /\ last <= Len(log[leader])
    BY <1>2, <1>9 DEF top
  <2>2. /\ SubSeq(log[leader], 1, last) \in Seq(Entry)
        /\ Len(SubSeq(log[leader], 1, last)) = last
        /\ \A i \in 1..last : SubSeq(log[leader], 1, last)[i] = log[leader][i]
    BY <1>2, <2>1, PrefixOf
  <2>3. DOMAIN SubSeq(log[leader], 1, last) = 1..last
    BY <2>2, LenProperties
  <2>4. SubSeq(log[leader], 1, last)
          = [i \in DOMAIN SubSeq(log[leader], 1, last) |-> SubSeq(log[leader], 1, last)[i]]
    BY <2>2, LenProperties
  <2> QED
    BY <2>2, <2>3, <2>4
<1>12. AckSeqs(m.entry, len, last) \subseteq 1..last
  <2>1. \A x \in len + 1 .. last : x \in 1..last
    BY <1>2, <1>9
  <2>2. m.entry.seq <= len => m.entry.seq \in 1..last
    BY <1>2, <1>7, <1>9
  <2> QED
    BY <2>1, <2>2 DEF AckSeqs
<1>13. buffer' = [buffer EXCEPT ![f] = Without(Put(@, m.entry.seq, m.entry), len + 1 .. last)]
  BY <1>1, <1>8 DEF b, IInv, TypeOK
<1> QED
  BY <1>8, <1>9, <1>10, <1>11, <1>12, <1>13 DEF len, top

(* A follower's step: longer prefix, fewer buffered, acks of what it has.  *)
LEMMA AppendStep ==
  ASSUME IInv, NEW f \in Follower, NEW m \in net, NEW rest \in SUBSET net,
         sentNow \subseteq rest, HandleAppend(f, m, rest), dups' \in Nat
  PROVE  IInv'
<1>1. PICK last \in Len(log[f])..Len(log[leader]) :
         /\ log' = [log EXCEPT ![f] = SubSeq(log[leader], 1, last)]
         /\ buffer' = [buffer EXCEPT ![f] = Without(Put(@, m.entry.seq, m.entry),
                                                    Len(log[f]) + 1 .. last)]
         /\ Send(rest, {AckFrom(f, s) : s \in {x \in AckSeqs(m.entry, Len(log[f]), last) :
                                                 mode = "sync"}})
         /\ AckSeqs(m.entry, Len(log[f]), last) \subseteq 1..last
  BY AppendExtends
<1> DEFINE S == {x \in AckSeqs(m.entry, Len(log[f]), last) : mode = "sync"}
           M == {AckFrom(f, s) : s \in S}
           l == SubSeq(log[leader], 1, last)
           b == Without(Put(buffer[f], m.entry.seq, m.entry), Len(log[f]) + 1 .. last)
<1>2. f \in Node /\ leader \in Node /\ f # leader /\ \A g \in Follower : g \in Node
  BY LeaderAssumption DEF Node
<1>3. \A n \in Node : log[n] \in Seq(Entry) /\ Len(log[n]) \in Nat
  BY DEF IInv, TypeOK
<1>4. last \in Nat /\ Len(log[f]) <= last /\ last <= Len(log[leader])
  BY <1>2, <1>3
<1>5. l \in Seq(Entry) /\ Len(l) = last /\ \A i \in 1..last : l[i] = log[leader][i]
  BY <1>2, <1>3, <1>4, PrefixOf
<1>6. InLog(log[leader], m.entry) /\ m.entry \in Entry
  BY DEF HandleAppend, IInv, TypeOK, EntriesInLog, Messages
<1>7. /\ b \in [DOMAIN b -> Entry] /\ DOMAIN b \subseteq Nat \ {0}
      /\ \A s \in DOMAIN b : b[s].seq = s /\ InLog(log[leader], b[s])
  <2> DEFINE q == Put(buffer[f], m.entry.seq, m.entry)
  <2>1. /\ buffer[f] \in [DOMAIN buffer[f] -> Entry] /\ DOMAIN buffer[f] \subseteq Nat \ {0}
        /\ \A s \in DOMAIN buffer[f] : buffer[f][s].seq = s /\ InLog(log[leader], buffer[f][s])
    BY <1>2 DEF IInv, TypeOK, EntriesInLog
  <2>2. m.entry.seq \in Nat \ {0}
    BY <1>6 DEF Entry
  <2>3. /\ q \in [DOMAIN q -> Entry] /\ DOMAIN q \subseteq Nat \ {0}
        /\ \A s \in DOMAIN q : q[s].seq = s /\ InLog(log[leader], q[s])
    BY <1>6, <2>1, <2>2 DEF Put
  <2>4. b = Without(q, Len(log[f]) + 1 .. last)
    OBVIOUS
  <2> HIDE DEF q, b
  <2> QED
    BY <2>3, <2>4 DEF Without
<1>8. /\ log' = [log EXCEPT ![f] = l] /\ buffer' = [buffer EXCEPT ![f] = b]
      /\ net' = rest \cup M /\ sentNow' \subseteq sentNow \cup M
  BY <1>1, <1>2 DEF IInv, TypeOK, Send
<1>9. \A x \in M : /\ x \in Messages /\ x.rep = "ack" /\ x.from = f
                    /\ x.seq <= last
  <2>1. \A s \in S : s \in Nat \ {0} /\ s <= last
    BY <1>1, <1>4
  <2> HIDE DEF S
  <2> QED
    BY <2>1 DEF AckFrom, Messages
<1>10. UNCHANGED <<mode, nextSeq, pending, retransmits, acked, reads, dead, leaderKilled,
                   kills, losses, writes>>
  BY DEF HandleAppend, leaderVars, faultVars
<1> HIDE DEF M, l, b
<1>11. /\ log'[f] = l /\ log'[leader] = log[leader]
       /\ \A g \in Follower : g # f => log'[g] = log[g]
       /\ log' \in [Node -> Seq(Entry)]
  BY <1>2, <1>5, <1>8 DEF IInv, TypeOK
<1>12. /\ buffer' = [n \in Node |-> buffer'[n]] /\ buffer'[f] = b
       /\ \A n \in Node : n # f => buffer'[n] = buffer[n]
  BY <1>2, <1>8 DEF IInv, TypeOK
<1>13. \A g \in Follower : Len(log[g]) <= Len(log'[g])
  BY <1>2, <1>3, <1>4, <1>5, <1>11
<1>14. TypeOK'
  <2>1. \A n \in Node : /\ buffer'[n] \in [DOMAIN buffer'[n] -> Entry]
                         /\ DOMAIN buffer'[n] \subseteq Nat \ {0}
    BY <1>7, <1>12 DEF IInv, TypeOK
  <2>2. net' \subseteq Messages /\ sentNow' \subseteq net'
    BY <1>8, <1>9 DEF IInv, TypeOK
  <2>3. ReadsTyped'
    BY <1>10 DEF IInv, TypeOK, ReadsTyped
  <2>4. nextSeq' = Len(log'[leader]) + 1
    BY <1>10, <1>11 DEF IInv, TypeOK
  <2>5. /\ mode' \in {"async", "sync"}
        /\ pending' \in [DOMAIN pending' -> [entry : Entry, awaiting : SUBSET Follower]]
        /\ DOMAIN pending' \cup retransmits' \cup acked' \subseteq Nat \ {0}
        /\ dead' \subseteq Node /\ leaderKilled' \in BOOLEAN
        /\ writes' \in Nat /\ kills' \in Nat /\ losses' \in Nat
    BY <1>10 DEF IInv, TypeOK
  <2> QED
    BY <1>11, <1>12, <2>1, <2>2, <2>3, <2>4, <2>5 DEF TypeOK, ReadsTyped
<1>15. EntriesInLog'
  <2>1. \A x \in net' : x.rep = "append" => InLog(log'[leader], x.entry)
    BY <1>8, <1>9, <1>11 DEF IInv, EntriesInLog
  <2>2. \A g \in Follower : \A s \in DOMAIN buffer'[g] :
          buffer'[g][s].seq = s /\ InLog(log'[leader], buffer'[g][s])
    <3>1. \A s \in DOMAIN buffer'[f] :
            buffer'[f][s].seq = s /\ InLog(log'[leader], buffer'[f][s])
      BY <1>7, <1>11, <1>12
    <3>2. \A g \in Follower : g # f => buffer'[g] = buffer[g]
      BY <1>2, <1>12
    <3>3. \A g \in Follower : \A s \in DOMAIN buffer[g] :
            buffer[g][s].seq = s /\ InLog(log'[leader], buffer[g][s])
      BY <1>11 DEF IInv, EntriesInLog
    <3> QED
      BY <3>1, <3>2, <3>3
  <2> QED
    BY <1>10, <1>11, <2>1, <2>2 DEF IInv, EntriesInLog
<1>16. Prefixes'
  BY <1>4, <1>5, <1>11 DEF IInv, Prefixes
<1>17. Confirmed'
  <2>1. \A x \in net' : x.rep = "ack" => x.seq <= Len(log'[x.from])
    <3> SUFFICES ASSUME NEW x \in net', x.rep = "ack" PROVE x.seq <= Len(log'[x.from])
      OBVIOUS
    <3>1. CASE x \in M
      BY <1>5, <1>9, <1>11, <3>1
    <3>2. CASE x \in net
      <4>1. x.from \in Follower /\ x.seq \in Nat /\ x.seq <= Len(log[x.from])
        BY <3>2 DEF IInv, TypeOK, Confirmed, Messages
      <4>2. Len(log[x.from]) \in Nat /\ Len(log'[x.from]) \in Nat
        BY <1>2, <1>3, <1>11, <4>1
      <4> QED
        BY <1>13, <4>1, <4>2
    <3> QED
      BY <1>8, <3>1, <3>2
  <2>2. \A s \in Nat, g \in Follower : s <= Len(log[g]) => s <= Len(log'[g])
    <3>1. \A g \in Follower : Len(log[g]) \in Nat /\ Len(log'[g]) \in Nat
      BY <1>2, <1>3, <1>11
    <3> QED
      BY <1>13, <3>1
  <2>3. DOMAIN pending \subseteq Nat /\ acked \subseteq Nat
    BY DEF IInv, TypeOK
  <2>4. \A s \in DOMAIN pending' : \A g \in Follower \ pending'[s].awaiting :
          s <= Len(log'[g])
    BY <1>10, <2>2, <2>3 DEF IInv, Confirmed
  <2>5. mode' = "sync" => \A s \in acked', g \in Follower : s <= Len(log'[g])
    BY <1>10, <2>2, <2>3 DEF IInv, Confirmed
  <2> QED
    BY <1>10, <1>11, <2>1, <2>4, <2>5 DEF IInv, Confirmed
<1> QED
  BY <1>14, <1>15, <1>16, <1>17 DEF IInv

(* An ack counted: either it changes nothing, or the write goes on waiting *)
(* for the others, or it was the last one awaited.                         *)
LEMMA AckCounts ==
  ASSUME NEW m, NEW rest, HandleAck(m, rest)
  PROVE  \/ UNCHANGED <<pending, acked, reads>>
         \/ /\ m.seq \in DOMAIN pending /\ Acknowledge(m.seq)
            /\ pending[m.seq].awaiting \ {m.from} = {}
            /\ pending' = Without(pending, {m.seq})
         \/ /\ m.seq \in DOMAIN pending /\ UNCHANGED <<acked, reads>>
            /\ pending' = [pending EXCEPT ![m.seq].awaiting = @ \ {m.from}]
BY DEF HandleAck

LEMMA AckStep ==
  ASSUME IInv, NEW m \in net, NEW rest \in SUBSET net,
         sentNow \subseteq rest, HandleAck(m, rest), dups' \in Nat
  PROVE  IInv'
<1>1. /\ UNCHANGED <<mode, log, buffer, nextSeq, retransmits, sentNow, dead, leaderKilled,
                     kills, losses, writes>>
      /\ net' = rest /\ m.rep = "ack"
  BY DEF HandleAck, faultVars
<1>2. m.from \in Follower /\ m.seq \in Nat \ {0} /\ m.seq <= Len(log[m.from])
  BY <1>1 DEF IInv, TypeOK, Confirmed, Messages
<1>3. CASE UNCHANGED <<pending, acked, reads>>
  <2>1. ReadsTyped' /\ FaultsTyped'
    BY <1>1, <1>3 DEF IInv, TypeOK, ReadsTyped, FaultsTyped
  <2> QED
    BY <1>1, <1>3, <2>1, QuietStep
<1>4. ASSUME m.seq \in DOMAIN pending, ReadsTyped',
             DOMAIN pending' \subseteq DOMAIN pending, acked' \subseteq acked \cup {m.seq},
             pending' = [s \in DOMAIN pending' |-> pending'[s]],
             \A s \in DOMAIN pending' :
               /\ pending'[s] \in [entry : Entry, awaiting : SUBSET Follower]
               /\ pending'[s].entry = pending[s].entry
               /\ \A g \in Follower \ pending'[s].awaiting : s <= Len(log[g]),
             m.seq \in acked' \ acked => \A g \in Follower : m.seq <= Len(log[g])
      PROVE  IInv'
  <2>1. pending' \in [DOMAIN pending' -> [entry : Entry, awaiting : SUBSET Follower]]
    BY <1>4
  <2>2. TypeOK'
    <3>1. DOMAIN pending' \cup retransmits' \cup acked' \subseteq Nat \ {0}
      BY <1>1, <1>2, <1>4 DEF IInv, TypeOK
    <3>2. /\ dead' \subseteq Node /\ leaderKilled' \in BOOLEAN
          /\ writes' \in Nat /\ kills' \in Nat /\ losses' \in Nat
      BY <1>1 DEF IInv, TypeOK
    <3>3. /\ mode' \in {"async", "sync"}
          /\ log' \in [Node -> Seq(Entry)] /\ nextSeq' = Len(log'[leader]) + 1
          /\ buffer' = [n \in Node |-> buffer'[n]]
          /\ \A n \in Node : /\ buffer'[n] \in [DOMAIN buffer'[n] -> Entry]
                             /\ DOMAIN buffer'[n] \subseteq Nat \ {0}
          /\ net' \subseteq Messages /\ sentNow' \subseteq net'
      BY <1>1 DEF IInv, TypeOK
    <3> QED
      BY <1>4, <2>1, <3>1, <3>2, <3>3 DEF TypeOK, ReadsTyped
  <2>3. EntriesInLog'
    BY <1>1, <1>4 DEF IInv, EntriesInLog
  <2>4. Prefixes'
    BY <1>1 DEF IInv, Prefixes
  <2>5. m.seq \in 1..Len(log[leader])
    <3>1. InLog(log[leader], pending[m.seq].entry) /\ pending[m.seq].entry.seq = m.seq
      BY <1>4 DEF IInv, EntriesInLog
    <3> QED
      BY <3>1 DEF InLog
  <2>6. Confirmed'
    BY <1>1, <1>4, <2>5 DEF IInv, Confirmed
  <2> QED
    BY <2>2, <2>3, <2>4, <2>6 DEF IInv
<1>5. CASE /\ m.seq \in DOMAIN pending /\ Acknowledge(m.seq)
           /\ pending[m.seq].awaiting \ {m.from} = {}
           /\ pending' = Without(pending, {m.seq})
  <2>1. ReadsTyped' /\ acked' = acked \cup {m.seq}
    BY <1>2, <1>5, AcknowledgeTyped DEF Acknowledge
  <2>2. /\ DOMAIN pending' \subseteq DOMAIN pending
        /\ pending' = [s \in DOMAIN pending' |-> pending'[s]]
        /\ \A s \in DOMAIN pending' : pending'[s] = pending[s]
    BY <1>5 DEF Without
  <2>3. \A s \in DOMAIN pending' :
               /\ pending'[s] \in [entry : Entry, awaiting : SUBSET Follower]
               /\ pending'[s].entry = pending[s].entry
               /\ \A g \in Follower \ pending'[s].awaiting : s <= Len(log[g])
    BY <2>2 DEF IInv, TypeOK, Confirmed
  <2>4. \A g \in Follower : m.seq <= Len(log[g])
    BY <1>2, <1>5 DEF IInv, Confirmed
  <2> QED
    BY <1>4, <1>5, <2>1, <2>2, <2>3, <2>4
<1>6. CASE /\ m.seq \in DOMAIN pending /\ UNCHANGED <<acked, reads>>
           /\ pending' = [pending EXCEPT ![m.seq].awaiting = @ \ {m.from}]
  <2>1. ReadsTyped'
    BY <1>6 DEF IInv, TypeOK, ReadsTyped
  <2>2. /\ DOMAIN pending' = DOMAIN pending
        /\ pending' = [s \in DOMAIN pending' |-> pending'[s]]
        /\ \A s \in DOMAIN pending' : pending'[s] =
             IF s = m.seq THEN [pending[s] EXCEPT !.awaiting = @ \ {m.from}] ELSE pending[s]
    BY <1>6 DEF IInv, TypeOK
  <2>3. ASSUME NEW s \in DOMAIN pending'
        PROVE  /\ pending'[s] \in [entry : Entry, awaiting : SUBSET Follower]
               /\ pending'[s].entry = pending[s].entry
               /\ \A g \in Follower \ pending'[s].awaiting : s <= Len(log[g])
    <3>1. /\ pending[s] \in [entry : Entry, awaiting : SUBSET Follower]
          /\ \A g \in Follower \ pending[s].awaiting : s <= Len(log[g])
      BY <2>2 DEF IInv, TypeOK, Confirmed
    <3> QED
      BY <1>2, <2>2, <3>1
  <2> QED
    BY <1>4, <1>6, <2>1, <2>2, <2>3
<1> QED
  BY <1>3, <1>5, <1>6, AckCounts

LEMMA DeliverStep ==
  ASSUME IInv, NEW m \in net, Deliver(m)
  PROVE  IInv'
<1>1. PICK rest \in {net, net \ {m}} : Handle(m, rest) /\ dups' \in Nat
  BY DEF Deliver, IInv, TypeOK
<1>2. rest \in SUBSET net /\ sentNow \subseteq rest
  BY DEF Deliver, IInv, TypeOK
<1> QED
  BY <1>1, <1>2, AppendStep, AckStep DEF Handle

LEMMA StepIInv == IInv /\ [Next]_vars => IInv'
<1> SUFFICES ASSUME IInv, [Next]_vars PROVE IInv'
  OBVIOUS
<1>1. CASE UNCHANGED vars
  <2>1. ReadsTyped' /\ FaultsTyped' /\ sentNow' \subseteq net'
    BY <1>1 DEF vars, IInv, TypeOK, ReadsTyped, FaultsTyped, netVars, faultVars
  <2> QED
    BY <1>1, <2>1, QuietStep DEF vars, leaderVars, netVars
<1>2. CASE Next
  BY <1>2, WriteStep, ReadStep, DeliverStep, RetransmitStep, EngineStep DEF Next
<1> QED
  BY <1>1, <1>2

LEMMA Invariance == Spec => []IInv
BY InitIInv, StepIInv, PTL DEF Spec

(* Every reachable state has the types declared, and the leader's numbers  *)
(* have no gap.                                                            *)
THEOREM TypeCorrect == Spec => []TypeOK
BY Invariance, PTL DEF IInv

-----------------------------------------------------------------------------
(* A pending write has its timer unless the leader was ever down.          *)
TimersKept == PendingRetransmits /\ (leader \in dead => leaderKilled)

LEMMA StepTimers == IInv /\ TimersKept /\ [Next]_vars => TimersKept'
<1> SUFFICES ASSUME IInv, TimersKept, [Next]_vars PROVE TimersKept'
  OBVIOUS
<1> USE DEF TimersKept, PendingRetransmits
<1>1. CASE UNCHANGED vars
  BY <1>1 DEF vars, leaderVars, faultVars
<1>2. CASE \E n \in Node : Kill(n) \/ Revive(n)
  <2>1. UNCHANGED <<pending, retransmits>>
    BY <1>2 DEF Kill, Revive, leaderVars
  <2>2. /\ leaderKilled => leaderKilled'
        /\ leader \in dead' => leader \in dead \/ leaderKilled'
    <3>1. PICK n \in Node : Kill(n) \/ Revive(n)
      BY <1>2
    <3>2. CASE Kill(n)
      BY <3>2, Zenon DEF Kill
    <3>3. CASE Revive(n)
      BY <3>3, Zenon DEF Revive
    <3> QED
      BY <3>1, <3>2, <3>3
  <2> QED
    BY <2>1, <2>2
<1>3. CASE Tick
  BY <1>3 DEF Tick, leaderVars, faultVars
<1>4. CASE \E m \in net : LostAtDead(m) \/ Lose(m)
  BY <1>4 DEF LostAtDead, Lose, leaderVars, faultVars
<1>5. CASE \E s \in retransmits : TimerLost(s)
  BY <1>5 DEF TimerLost, faultVars
<1>6. CASE \E s \in retransmits : Retransmit(s)
  BY <1>6 DEF Retransmit, faultVars
<1>7. CASE \E key \in Key : ClientWrite(key)
  BY <1>7 DEF ClientWrite, Put, faultVars
<1>8. CASE \E key \in Key, n \in Node : ClientRead(n, key)
  BY <1>8 DEF ClientRead, leaderVars, faultVars
<1>9. CASE \E m \in net : Deliver(m)
  <2>0. PICK m \in net : Deliver(m)
    BY <1>9
  <2>1. PICK rest \in {net, net \ {m}} : Handle(m, rest)
    BY <2>0 DEF Deliver
  <2>2. CASE \E f \in Follower : HandleAppend(f, m, rest)
    BY <2>2 DEF HandleAppend, leaderVars, faultVars
  <2>3. CASE HandleAck(m, rest)
    <3>1. DOMAIN pending' \subseteq DOMAIN pending
      <4>1. \/ UNCHANGED pending
            \/ pending' = Without(pending, {m.seq})
            \/ pending' = [pending EXCEPT ![m.seq].awaiting = @ \ {m.from}]
        BY <2>3, AckCounts
      <4> QED
        BY <4>1 DEF Without, IInv, TypeOK
    <3> QED
      BY <2>3, <3>1 DEF HandleAck, faultVars
  <2> QED
    BY <2>1, <2>2, <2>3 DEF Handle
<1> QED
  BY <1>1, <1>2, <1>3, <1>4, <1>5, <1>6, <1>7, <1>8, <1>9 DEF Next

(* A pending write is due to be sent again as long as the leader was never *)
(* down: what the completion of sync writes rests on.                      *)
THEOREM RetransmissionCorrect == Spec => []PendingRetransmits
<1>1. Init => TimersKept
  BY DEF Init, None, TimersKept, PendingRetransmits
<1>2. TimersKept => PendingRetransmits
  BY DEF TimersKept
<1> QED
  BY <1>1, <1>2, StepTimers, Invariance, PTL DEF Spec

-----------------------------------------------------------------------------
(* The algorithm implements LogCopies.                                     *)

LEMMA InitPromise == Init => Promise!Init
BY DEF Init, Promise!Init, Node

LEMMA WriteIsWrite ==
  ASSUME IInv, NEW key \in Key, ClientWrite(key)
  PROVE  Promise!Write
<1>1. log[leader] \in Seq(Entry) /\ log'[leader] \in Seq(Entry)
  BY WriteGrows DEF IInv, TypeOK, Node
<1>2. /\ Len(log[leader]) \in Nat /\ Len(log'[leader]) = Len(log[leader]) + 1
      /\ \A i \in 1..Len(log[leader]) : log'[leader][i] = log[leader][i]
      /\ \A f \in Follower : log'[f] = log[f]
  BY WriteGrows
<1>3. SubSeq(log'[leader], 1, Len(log[leader])) = log[leader]
  <2>1. Len(log[leader]) <= Len(log'[leader])
    BY <1>2
  <2>2. /\ SubSeq(log'[leader], 1, Len(log[leader])) \in Seq(Entry)
        /\ Len(SubSeq(log'[leader], 1, Len(log[leader]))) = Len(log[leader])
        /\ \A i \in 1..Len(log[leader]) :
             SubSeq(log'[leader], 1, Len(log[leader]))[i] = log'[leader][i]
    BY <1>1, <1>2, <2>1, PrefixOf
  <2> QED
    BY <1>1, <1>2, <2>2, SeqEqual
<1>4. /\ mode' = mode /\ nextSeq = Len(log[leader]) + 1
      /\ acked' = IF mode = "sync" THEN acked ELSE acked \cup {nextSeq}
  BY DEF ClientWrite, Acknowledge, IInv, TypeOK
<1>5. [f \in Follower |-> log[f]]' = [f \in Follower |-> log[f]]
  BY <1>2
<1>6. acked' = IF mode = "sync" THEN acked ELSE acked \cup {Len(log[leader]) + 1}
  BY <1>4
<1> QED
  BY <1>2, <1>3, <1>4, <1>5, <1>6 DEF Promise!Write

LEMMA AppendIsCopy ==
  ASSUME IInv, NEW f \in Follower, NEW m \in net, NEW rest, HandleAppend(f, m, rest)
  PROVE  Promise!Next
<1>1. PICK last \in Len(log[f])..Len(log[leader]) :
         log' = [log EXCEPT ![f] = SubSeq(log[leader], 1, last)]
  BY AppendExtends
<1>2. f # leader /\ f \in Node /\ leader \in Node /\ \A g \in Follower : g \in Node
  BY LeaderAssumption DEF Node
<1>3. Len(log[f]) \in Nat /\ Len(log[leader]) \in Nat
  BY <1>2 DEF IInv, TypeOK
<1>4. last \in 0..Len(log[leader]) /\ Len(log[f]) <= last
  BY <1>3
<1>5. /\ log'[f] = SubSeq(log[leader], 1, last) /\ log'[leader] = log[leader]
      /\ \A g \in Follower : g # f => log'[g] = log[g]
  BY <1>1, <1>2 DEF IInv, TypeOK
<1>6. [g \in Follower |-> log[g]]'
        = [[g \in Follower |-> log[g]] EXCEPT ![f] = SubSeq(log[leader], 1, last)]
  BY <1>5
<1>7. UNCHANGED <<mode, acked>>
  BY DEF HandleAppend
<1>8. Promise!Copy(f, last)
  BY <1>4, <1>5, <1>6, <1>7 DEF Promise!Copy
<1> QED
  BY <1>4, <1>8 DEF Promise!Next

LEMMA AckIsConfirm ==
  ASSUME IInv, NEW m \in net, NEW rest, HandleAck(m, rest)
  PROVE  Promise!Next \/ UNCHANGED Promise!vars
<1>1. UNCHANGED <<mode, log>> /\ m.rep = "ack"
  BY DEF HandleAck
<1>2. m.from \in Follower /\ m.seq <= Len(log[m.from])
  BY <1>1 DEF IInv, TypeOK, Confirmed, Messages
<1>3. CASE acked' = acked
  BY <1>1, <1>3 DEF Promise!vars
<1>4. CASE /\ m.seq \in DOMAIN pending /\ Acknowledge(m.seq)
           /\ pending[m.seq].awaiting \ {m.from} = {}
  <2>1. m.seq \in 1..Len(log[leader])
    BY <1>4 DEF IInv, EntriesInLog, InLog
  <2>2. \A f \in Follower : m.seq <= Len([g \in Follower |-> log[g]][f])
    BY <1>2, <1>4 DEF IInv, Confirmed
  <2>3. Promise!Confirm(m.seq)
    BY <1>1, <1>4, <2>2 DEF Promise!Confirm, Acknowledge
  <2> QED
    BY <2>1, <2>3 DEF Promise!Next
<1> QED
  BY <1>3, <1>4, AckCounts

LEMMA StepPromise == IInv /\ [Next]_vars => [Promise!Next]_(Promise!vars)
<1> SUFFICES ASSUME IInv, [Next]_vars PROVE Promise!Next \/ UNCHANGED Promise!vars
  OBVIOUS
<1>1. CASE UNCHANGED <<mode, log, acked>>
  BY <1>1 DEF Promise!vars
<1>2. CASE \E key \in Key : ClientWrite(key)
  BY <1>2, WriteIsWrite DEF Promise!Next
<1>3. CASE \E m \in net : Deliver(m)
  <2>0. PICK m \in net : Deliver(m)
    BY <1>3
  <2>1. PICK rest \in {net, net \ {m}} : Handle(m, rest)
    BY <2>0 DEF Deliver
  <2> QED
    BY <2>1, AppendIsCopy, AckIsConfirm DEF Handle
<1>4. CASE \/ \E key \in Key, n \in Node : ClientRead(n, key)
           \/ \E m \in net : LostAtDead(m) \/ Lose(m)
           \/ \E s \in retransmits : Retransmit(s) \/ TimerLost(s)
           \/ Tick \/ \E n \in Node : Kill(n) \/ Revive(n)
           \/ UNCHANGED vars
  BY <1>1, <1>4 DEF ClientRead, LostAtDead, Lose, Retransmit, TimerLost, Tick, Kill, Revive, vars
<1> QED
  BY <1>2, <1>3, <1>4 DEF Next

(* Followers hold prefixes of the leader's log and only go forward, and in *)
(* sync mode an acknowledged write is on every follower, whatever messages *)
(* are lost, late or repeated and whoever dies and comes back.             *)
THEOREM PromiseKept == Spec => KeepsPromise
BY InitPromise, Invariance, StepPromise, PTL DEF Spec, KeepsPromise, Promise!Spec

-----------------------------------------------------------------------------
(* No read in sync mode is stale.                                          *)

(* Whatever an ack may name is in the leader's log. *)
LEMMA SeqsInLog ==
  ASSUME IInv
  PROVE  /\ Len(log[leader]) \in Nat
         /\ \A m \in net : m.rep = "ack" => m.from \in Follower /\ m.seq \in 1..Len(log[leader])
         /\ DOMAIN pending \subseteq 1..Len(log[leader])
         /\ acked \subseteq 1..Len(log[leader])
<1>1. \A n \in Node : Len(log[n]) \in Nat
  BY DEF IInv, TypeOK
<1>2. leader \in Node /\ \A f \in Follower : f \in Node /\ Len(log[f]) <= Len(log[leader])
  BY DEF Node, IInv, Prefixes
<1>3. ASSUME NEW m \in net, m.rep = "ack"
      PROVE  m.from \in Follower /\ m.seq \in 1..Len(log[leader])
  <2>1. m.from \in Follower /\ m.seq \in Nat \ {0} /\ m.seq <= Len(log[m.from])
    BY <1>3 DEF IInv, TypeOK, Confirmed, Messages
  <2>2. Len(log[m.from]) <= Len(log[leader]) /\ Len(log[m.from]) \in Nat
    BY <1>1, <1>2, <2>1
  <2> QED
    BY <1>1, <1>2, <2>1, <2>2
<1>4. DOMAIN pending \subseteq 1..Len(log[leader])
  BY DEF IInv, EntriesInLog, InLog
<1> QED
  BY <1>1, <1>2, <1>3, <1>4 DEF IInv, Confirmed

(* Nothing new may complete a write in the instant of a read. *)
LEMMA FreshKept ==
  ASSUME IInv, ReadsFresh, mode' = mode, reads' = reads, acked' = acked,
         \A i \in 1..Len(log[leader]) : log'[leader][i] = log[leader][i],
         (\E r \in reads : r.now) =>
           \A m \in net' \ sentNow' : m.rep = "ack" => m \in net \ sentNow,
         \A s \in DOMAIN pending' : \A f \in Follower \ pending'[s].awaiting :
           s \in DOMAIN pending /\ f \notin pending[s].awaiting
  PROVE  ReadsFresh'
<1>1. \A r \in reads : \A s \in 1..Len(log[leader]) : Fresh(r, s) => Fresh(r, s)'
  BY DEF Fresh
<1> SUFFICES ASSUME mode = "sync", NEW r \in reads
             PROVE  /\ r.acked \subseteq acked /\ \A s \in r.acked : Fresh(r, s)'
                    /\ r.now =>
                         /\ \A m \in net' \ sentNow' :
                              m.rep = "ack" /\ Speaks(m.from, r) => Fresh(r, m.seq)'
                         /\ \A s \in DOMAIN pending' : \A f \in Follower \ pending'[s].awaiting :
                              Speaks(f, r) => Fresh(r, s)'
  BY DEF ReadsFresh, Fresh, Speaks
<1>2. r.acked \subseteq acked /\ \A s \in r.acked : Fresh(r, s)'
  BY <1>1, SeqsInLog DEF ReadsFresh
<1>3. ASSUME r.now, NEW m \in net' \ sentNow', m.rep = "ack", Speaks(m.from, r)
      PROVE  Fresh(r, m.seq)'
  <2>1. m \in net \ sentNow
    BY <1>3
  <2>2. Fresh(r, m.seq) /\ m.seq \in 1..Len(log[leader])
    BY <1>3, <2>1, SeqsInLog DEF ReadsFresh
  <2> QED
    BY <2>2 DEF Fresh
<1>4. ASSUME r.now, NEW s \in DOMAIN pending', NEW f \in Follower \ pending'[s].awaiting,
             Speaks(f, r)
      PROVE  Fresh(r, s)'
  <2>1. s \in DOMAIN pending /\ f \notin pending[s].awaiting
    BY <1>4
  <2>2. Fresh(r, s) /\ s \in 1..Len(log[leader])
    BY <1>4, <2>1, SeqsInLog DEF ReadsFresh
  <2> QED
    BY <2>2 DEF Fresh
<1> QED
  BY <1>2, <1>3, <1>4

(* A read returns at least every entry its node has applied. *)
LEMMA ReadIsFresh ==
  ASSUME IInv, ReadsFresh, NEW n \in Node, NEW key \in Key, ClientRead(n, key)
  PROVE  ReadsFresh'
<1> DEFINE r == [node |-> n, key |-> key, returnedSeq |-> LastSeq(log[n], key),
                 acked |-> acked, now |-> TRUE]
<1>1. /\ reads' = reads \cup {r}
      /\ UNCHANGED <<mode, log, pending, acked, net, sentNow>>
  BY DEF ClientRead, leaderVars, netVars
<1>2. leader \in Node /\ \A g \in Node : log[g] \in Seq(Entry) /\ Len(log[g]) \in Nat
  BY DEF IInv, TypeOK, Node
<1>3. /\ Len(log[n]) <= Len(log[leader])
      /\ \A i \in 1..Len(log[n]) : log[n][i] = log[leader][i] /\ log[n][i].seq = i
  BY <1>2 DEF IInv, EntriesInLog, Prefixes, Node
<1>4. \A s \in 1..Len(log[n]) : log[leader][s].key = key => s <= LastSeq(log[n], key)
  BY <1>2, <1>3, LastSeqIsLast
<1>5. \A s \in 1..Len(log[n]) : Fresh(r, s)
  BY <1>4 DEF Fresh
<1>6. \A f \in Follower : Speaks(f, r) => \A s \in 1..Len(log[f]) : s \in 1..Len(log[n])
  <2>1. \A f \in Follower : Speaks(f, r) => n = f \/ n = leader
    BY DEF Speaks
  <2>2. \A f \in Follower : Len(log[f]) \in Nat /\ Len(log[f]) <= Len(log[leader])
    BY <1>2 DEF IInv, Prefixes, Node
  <2> QED
    BY <1>2, <2>1, <2>2
<1>7. r.acked = acked /\ (mode = "sync" => \A s \in acked : s \in 1..Len(log[n]))
  <2>1. \A s \in acked : s \in 1..Len(log[leader])
    BY SeqsInLog
  <2>2. mode = "sync" /\ n \in Follower => \A s \in acked : s <= Len(log[n])
    BY DEF IInv, Confirmed
  <2> QED
    BY <1>2, <2>1, <2>2 DEF Node
<1>8. \A m \in net : m.rep = "ack" /\ Speaks(m.from, r) => Fresh(r, m.seq)
  <2> SUFFICES ASSUME NEW m \in net, m.rep = "ack", Speaks(m.from, r) PROVE Fresh(r, m.seq)
    OBVIOUS
  <2>1. m.from \in Follower /\ m.seq \in Nat \ {0} /\ m.seq <= Len(log[m.from])
    BY SeqsInLog DEF IInv, Confirmed
  <2>2. m.seq \in 1..Len(log[m.from])
    BY <1>2, <2>1 DEF Node
  <2> QED
    BY <1>5, <1>6, <2>1, <2>2
<1>9. \A s \in DOMAIN pending : \A f \in Follower \ pending[s].awaiting :
        Speaks(f, r) => Fresh(r, s)
  <2> SUFFICES ASSUME NEW s \in DOMAIN pending, NEW f \in Follower \ pending[s].awaiting,
                      Speaks(f, r)
               PROVE  Fresh(r, s)
    OBVIOUS
  <2>1. s \in Nat \ {0} /\ s <= Len(log[f])
    BY DEF IInv, TypeOK, Confirmed
  <2>2. s \in 1..Len(log[f])
    BY <1>2, <2>1 DEF Node
  <2> QED
    BY <1>5, <1>6, <2>2
<1> HIDE DEF r
<1>10. mode = "sync" =>
         /\ r.acked \subseteq acked /\ \A s \in r.acked : Fresh(r, s)
         /\ \A m \in net \ sentNow : m.rep = "ack" /\ Speaks(m.from, r) => Fresh(r, m.seq)
         /\ \A s \in DOMAIN pending : \A f \in Follower \ pending[s].awaiting :
              Speaks(f, r) => Fresh(r, s)
  BY <1>5, <1>7, <1>8, <1>9
<1>11. \A q, s : Fresh(q, s) => (log'[leader][s].key = q.key => s <= q.returnedSeq)
  BY <1>1 DEF Fresh
<1> QED
  BY <1>1, <1>10 DEF ReadsFresh, Fresh, Speaks

(* An ack of a message that was in flight before the reads of the instant. *)
LEMMA AckIsFresh ==
  ASSUME IInv, ReadsFresh, NEW m \in net \ sentNow, NEW rest \in SUBSET net,
         HandleAck(m, rest)
  PROVE  ReadsFresh'
<1>1. /\ UNCHANGED <<mode, log, sentNow>> /\ net' = rest /\ m.rep = "ack"
  BY DEF HandleAck
<1>2. \A x \in net' \ sentNow' : x \in net \ sentNow
  BY <1>1
<1>3. m.from \in Follower /\ m.seq \in 1..Len(log[leader])
  BY <1>1, SeqsInLog
<1>4. mode = "sync" => \A r \in reads : r.now /\ Speaks(m.from, r) => Fresh(r, m.seq)
  BY <1>1 DEF ReadsFresh
<1>5. CASE UNCHANGED <<pending, acked, reads>>
  BY <1>1, <1>2, <1>5, FreshKept
<1>6. CASE /\ m.seq \in DOMAIN pending /\ Acknowledge(m.seq)
           /\ pending[m.seq].awaiting \ {m.from} = {}
           /\ pending' = Without(pending, {m.seq})
  <2>1. /\ DOMAIN pending' \subseteq DOMAIN pending
        /\ \A s \in DOMAIN pending' : pending'[s] = pending[s]
    BY <1>6 DEF Without
  <2> SUFFICES ASSUME mode = "sync", NEW q \in reads'
               PROVE  /\ q.acked \subseteq acked' /\ \A s \in q.acked : Fresh(q, s)'
                      /\ q.now =>
                           /\ \A x \in net' \ sentNow' :
                                x.rep = "ack" /\ Speaks(x.from, q) => Fresh(q, x.seq)'
                           /\ \A s \in DOMAIN pending' : \A f \in Follower \ pending'[s].awaiting :
                                Speaks(f, q) => Fresh(q, s)'
    BY <1>1 DEF ReadsFresh, Fresh, Speaks
  <2>2. PICK r \in reads : q = [r EXCEPT !.acked = IF r.now THEN @ \cup {m.seq} ELSE @]
    BY <1>6 DEF Acknowledge
  <2>3. r \in [node : Node, key : Key, returnedSeq : Nat, acked : SUBSET Nat, now : BOOLEAN]
    BY DEF IInv, TypeOK
  <2>4. /\ q.key = r.key /\ q.returnedSeq = r.returnedSeq /\ q.now = r.now /\ q.node = r.node
        /\ q.acked = IF r.now THEN r.acked \cup {m.seq} ELSE r.acked
    BY <2>2, <2>3
  <2>5. \A s : Fresh(r, s) => Fresh(q, s)'
    BY <1>1, <2>4 DEF Fresh
  <2>6. \A f : Speaks(f, q) => Speaks(f, r)
    BY <2>4 DEF Speaks
  <2>7. r.now => Fresh(r, m.seq)
    <3>1. CASE \E f \in Follower : f # m.from /\ Speaks(f, r)
      <4>1. PICK f \in Follower : f # m.from /\ Speaks(f, r)
        BY <3>1
      <4>2. f \in Follower \ pending[m.seq].awaiting
        BY <1>6, <4>1
      <4> QED
        BY <1>6, <4>1, <4>2 DEF ReadsFresh
    <3>2. CASE ~\E f \in Follower : f # m.from /\ Speaks(f, r)
      <4>1. Speaks(m.from, r)
        BY <2>3, <3>2 DEF Speaks, Node
      <4> QED
        BY <1>4, <4>1
    <3> QED
      BY <3>1, <3>2
  <2>8. q.acked \subseteq acked' /\ \A s \in q.acked : Fresh(q, s)'
    <3>1. r.acked \subseteq acked /\ \A s \in r.acked : Fresh(r, s)
      BY DEF ReadsFresh
    <3>2. acked' = acked \cup {m.seq}
      BY <1>6 DEF Acknowledge
    <3> QED
      BY <2>4, <2>5, <2>7, <3>1, <3>2
  <2>9. ASSUME q.now, NEW x \in net' \ sentNow', x.rep = "ack", Speaks(x.from, q)
        PROVE  Fresh(q, x.seq)'
    <3>1. Fresh(r, x.seq)
      BY <1>2, <2>4, <2>6, <2>9 DEF ReadsFresh
    <3> QED
      BY <2>4, <3>1, <1>1 DEF Fresh
  <2>10. ASSUME q.now, NEW s \in DOMAIN pending', NEW f \in Follower \ pending'[s].awaiting,
                Speaks(f, q)
         PROVE  Fresh(q, s)'
    <3>1. s \in DOMAIN pending /\ f \in Follower \ pending[s].awaiting
      BY <2>1
    <3>2. Fresh(r, s)
      BY <2>4, <2>6, <2>10, <3>1 DEF ReadsFresh
    <3> QED
      BY <2>4, <3>2, <1>1 DEF Fresh
  <2> QED
    BY <2>8, <2>9, <2>10
<1>7. CASE /\ m.seq \in DOMAIN pending /\ UNCHANGED <<acked, reads>>
           /\ pending' = [pending EXCEPT ![m.seq].awaiting = @ \ {m.from}]
  <2>1. /\ DOMAIN pending' = DOMAIN pending
        /\ \A s \in DOMAIN pending : s # m.seq => pending'[s] = pending[s]
        /\ pending'[m.seq].awaiting = pending[m.seq].awaiting \ {m.from}
    BY <1>7 DEF IInv, TypeOK
  <2> SUFFICES ASSUME mode = "sync", NEW r \in reads
               PROVE  /\ r.acked \subseteq acked /\ \A s \in r.acked : Fresh(r, s)
                      /\ r.now =>
                           /\ \A x \in net' \ sentNow' :
                                x.rep = "ack" /\ Speaks(x.from, r) => Fresh(r, x.seq)
                           /\ \A s \in DOMAIN pending' : \A f \in Follower \ pending'[s].awaiting :
                                Speaks(f, r) => Fresh(r, s)
    BY <1>1, <1>7 DEF ReadsFresh, Fresh, Speaks
  <2>2. /\ r.acked \subseteq acked /\ \A s \in r.acked : Fresh(r, s)
        /\ r.now => \A x \in net' \ sentNow' :
                      x.rep = "ack" /\ Speaks(x.from, r) => Fresh(r, x.seq)
    BY <1>2 DEF ReadsFresh
  <2>3. ASSUME r.now, NEW s \in DOMAIN pending', NEW f \in Follower \ pending'[s].awaiting,
               Speaks(f, r)
        PROVE  Fresh(r, s)
    <3>1. CASE s = m.seq /\ f = m.from
      BY <1>4, <2>3, <3>1
    <3>2. CASE ~(s = m.seq /\ f = m.from)
      <4>1. s \in DOMAIN pending /\ f \in Follower \ pending[s].awaiting
        BY <2>1, <3>2
      <4> QED
        BY <2>3, <4>1 DEF ReadsFresh
    <3> QED
      BY <3>1, <3>2
  <2> QED
    BY <2>2, <2>3
<1> QED
  BY <1>5, <1>6, <1>7, AckCounts

LEMMA DeliverIsFresh ==
  ASSUME IInv, ReadsFresh, NEW m \in net, Deliver(m)
  PROVE  ReadsFresh'
<1>1. PICK rest \in {net, net \ {m}} : Handle(m, rest)
  BY DEF Deliver
<1>2. m \notin sentNow /\ rest \in SUBSET net
  BY DEF Deliver
<1>3. ASSUME NEW f \in Follower, HandleAppend(f, m, rest) PROVE ReadsFresh'
  <2>1. UNCHANGED <<mode, pending, acked, reads>> /\ f # leader
    BY <1>3, LeaderAssumption DEF HandleAppend, leaderVars
  <2>2. \E last \in Len(log[f])..Len(log[leader]) :
          /\ log' = [log EXCEPT ![f] = SubSeq(log[leader], 1, last)]
          /\ Send(rest, {AckFrom(f, s) : s \in {x \in AckSeqs(m.entry, Len(log[f]), last) :
                                                  mode = "sync"}})
    BY <1>3, AppendExtends
  <2>3. PICK M : Send(rest, M)
    BY <2>2
  <2>4. log'[leader] = log[leader]
    BY <2>1, <2>2 DEF IInv, TypeOK, Node
  <2>5. (\E r \in reads : r.now) =>
           \A x \in net' \ sentNow' : x.rep = "ack" => x \in net \ sentNow
    BY <1>2, <2>3 DEF Send
  <2> QED
    BY <2>1, <2>4, <2>5, FreshKept
<1> QED
  BY <1>1, <1>2, <1>3, AckIsFresh DEF Handle

LEMMA StepFresh == IInv /\ ReadsFresh /\ [Next]_vars => ReadsFresh'
<1> SUFFICES ASSUME IInv, ReadsFresh, [Next]_vars PROVE ReadsFresh'
  OBVIOUS
<1>1. CASE UNCHANGED <<mode, log, pending, acked, reads>> /\ net' \ sentNow' \subseteq net \ sentNow
  BY <1>1, FreshKept
<1>2. CASE \/ \E m \in net : LostAtDead(m) \/ Lose(m)
           \/ \E s \in retransmits : TimerLost(s)
           \/ \E n \in Node : Kill(n) \/ Revive(n)
           \/ UNCHANGED vars
  BY <1>1, <1>2 DEF LostAtDead, Lose, TimerLost, Kill, Revive, vars, leaderVars, netVars
<1>3. CASE Tick
  <2>1. UNCHANGED <<mode, log, acked>> /\ reads' = {[r EXCEPT !.now = FALSE] : r \in reads}
    BY <1>3 DEF Tick
  <2> SUFFICES ASSUME mode = "sync", NEW q \in reads'
               PROVE  /\ q.acked \subseteq acked /\ \A s \in q.acked : Fresh(q, s)'
                      /\ q.now = FALSE
    BY <2>1 DEF ReadsFresh, Fresh, Speaks
  <2>2. PICK r \in reads : q = [r EXCEPT !.now = FALSE]
    BY <2>1
  <2>3. r \in [node : Node, key : Key, returnedSeq : Nat, acked : SUBSET Nat, now : BOOLEAN]
    BY DEF IInv, TypeOK
  <2>4. q.key = r.key /\ q.returnedSeq = r.returnedSeq /\ q.acked = r.acked /\ q.now = FALSE
    BY <2>2, <2>3
  <2> QED
    BY <2>1, <2>4 DEF ReadsFresh, Fresh
<1>4. ASSUME NEW s \in retransmits, Retransmit(s) PROVE ReadsFresh'
  <2>1. UNCHANGED <<mode, log, pending, acked, reads>>
    BY <1>4 DEF Retransmit
  <2>2. \A m \in net' \ sentNow' : m.rep = "ack" => m \in net \ sentNow
    BY <1>4 DEF Retransmit, Send, AppendTo, netVars
  <2> QED
    BY <2>1, <2>2, FreshKept
<1>5. ASSUME NEW key \in Key, ClientWrite(key) PROVE ReadsFresh'
  <2>1. CASE mode = "sync"
    <3> DEFINE p == [entry |-> [seq |-> nextSeq, key |-> key], awaiting |-> Follower]
    <3>1. UNCHANGED <<mode, acked, reads>> /\ pending' = Put(pending, nextSeq, p)
      BY <1>5, <2>1 DEF ClientWrite
    <3>2. p.awaiting = Follower
      OBVIOUS
    <3> HIDE DEF p
    <3>3. \A s \in DOMAIN pending' : \A f \in Follower \ pending'[s].awaiting :
            s \in DOMAIN pending /\ f \notin pending[s].awaiting
      BY <3>1, <3>2 DEF Put
    <3>4. \A m \in net' \ sentNow' : m.rep = "ack" => m \in net \ sentNow
      BY <1>5 DEF ClientWrite, Send, AppendTo
    <3>5. \A i \in 1..Len(log[leader]) : log'[leader][i] = log[leader][i]
      BY <1>5, WriteGrows
    <3> QED
      BY <3>1, <3>3, <3>4, <3>5, FreshKept
  <2>2. CASE mode # "sync"
    BY <1>5, <2>2 DEF ClientWrite, ReadsFresh
  <2> QED
    BY <2>1, <2>2
<1> QED
  BY <1>2, <1>3, <1>4, <1>5, ReadIsFresh, DeliverIsFresh DEF Next

(* A write acknowledged before or at the instant of a read is in what the  *)
(* read returned, on whatever node, in sync mode.                          *)
THEOREM SyncReadsFresh == Spec => []SyncNeverStale
<1>1. Init => ReadsFresh
  BY DEF Init, ReadsFresh
<1>2. IInv /\ ReadsFresh => SyncNeverStale
  <2> SUFFICES ASSUME IInv, ReadsFresh, mode = "sync", NEW r \in reads, NEW s \in r.acked,
                      log[leader][s].key = r.key
               PROVE  ~(s > r.returnedSeq)
    BY DEF SyncNeverStale, Stale
  <2>1. r \in [node : Node, key : Key, returnedSeq : Nat, acked : SUBSET Nat, now : BOOLEAN]
    BY DEF IInv, TypeOK
  <2>2. s \in Nat /\ r.returnedSeq \in Nat
    BY <2>1
  <2>3. s <= r.returnedSeq
    BY DEF ReadsFresh, Fresh
  <2> QED
    BY <2>2, <2>3
<1> QED
  BY <1>1, <1>2, StepFresh, Invariance, PTL DEF Spec
=============================================================================
