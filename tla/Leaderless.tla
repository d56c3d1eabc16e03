----------------------------- MODULE Leaderless -----------------------------
(***************************************************************************)
(* Leaderless quorum replication, src/src/modules/leaderless.ts: writes    *)
(* and reads at a quorum of the home replicas, read repair, and, with      *)
(* sloppy on, hints held by the fallbacks and handed over later.           *)
(*                                                                         *)
(* One action per event the reducer handles.  A timer may fire at any time *)
(* after it is armed, the latency of the network being a setting of the    *)
(* user.  `net' holds the messages sent and not delivered: one that is     *)
(* lost is never delivered, and a delivery may leave a duplicate behind.   *)
(***************************************************************************)
EXTENDS Integers, Sequences, FiniteSets, FiniteSetsExt, Functions

CONSTANTS
  Node, Key,
  None,             \* the value of no data
  Params,           \* settings of the lab: [home, fallbacks, w, r, sloppy, clients]
  Within(_, _)      \* bound: under such params, the writes, reads, kills and
                    \* duplicates that may happen

ASSUME NodeAssumption   == None \notin Node \X Nat
ASSUME ParamsAssumption ==
  \A p \in Params :
    /\ p.home \in Seq(Node) /\ p.fallbacks \in Seq(Node) /\ p.clients \subseteq Node
    /\ Range(p.home) \cap Range(p.fallbacks) = {}
    /\ p.w \in Nat \ {0} /\ p.r \in Nat \ {0} /\ p.sloppy \in BOOLEAN

VARIABLES
  params,     \* home, fallbacks, w, r, sloppy of every node; whom clients talk to
  data,       \* data[n][k]: the version a replica stores
  hints,      \* hints[n]: the hint buffer, one hint per target and key
  pending,    \* pending[n]: the operations n coordinates, by opId
  nextOp,     \* nextOp[n]
  opTimers,   \* pending operations <<n, opId>> whose op-timeout is queued
  handoffs,   \* handoffs[n]: how many handoff timers of n are queued
  history,    \* every operation that ended, and how
  now,        \* the time of the latest write
  net, dead,
  killed,     \* the nodes that were ever killed, each at most once
  writes, reads, dups   \* what the bounds count

opVars    == <<pending, nextOp, opTimers, history, now, writes, reads>>
faultVars == <<params, dead, killed, dups>>
vars == <<data, hints, handoffs, opVars, net, faultVars>>

Used == [writes |-> writes, reads |-> reads, kills |-> Cardinality(killed), dups |-> dups]

Allowed(what) == Within(params, [Used EXCEPT ![what] = @ + 1])

home      == params.home
fallbacks == params.fallbacks
Home      == Range(home)

(* A value is the write it comes from: its coordinator and number there.   *)
Version(val, ts) == [val |-> val, ts |-> ts]
NoData == Version(None, -1)

NoOps == [i \in {} |-> None]

Init ==
  /\ params \in Params
  /\ data = [n \in Node |-> [k \in Key |-> NoData]]
  /\ hints = [n \in Node |-> {}] /\ handoffs = [n \in Node |-> 0]
  /\ pending = [n \in Node |-> NoOps] /\ nextOp = [n \in Node |-> 1]
  /\ opTimers = {} /\ history = {} /\ now = 0 /\ writes = 0 /\ reads = 0
  /\ net = {} /\ dead = {} /\ killed = {} /\ dups = 0

-----------------------------------------------------------------------------
(* Messages.                                                               *)

Store(from, to, id, k, v, slot) ==
  [msg |-> "store", from |-> from, to |-> to, opId |-> id, key |-> k, v |-> v, handoffOf |-> slot]
StoreHint(from, to, id, k, v, target) ==
  [msg |-> "storeHint", from |-> from, to |-> to, opId |-> id, key |-> k, v |-> v,
   target |-> target]
StoreAck(from, to, id, slot) ==
  [msg |-> "storeAck", from |-> from, to |-> to, opId |-> id, handoffOf |-> slot]
Get(from, to, id, k) ==
  [msg |-> "get", from |-> from, to |-> to, opId |-> id, key |-> k]
GetReply(from, to, id, v) ==
  [msg |-> "getReply", from |-> from, to |-> to, opId |-> id, v |-> v]

NoOp   == 0     \* the opId of a repair or a handoff
NoSlot == <<>>  \* handoffOf undefined

Receives(n, kind, m) == n \notin dead /\ m \in net /\ m.msg = kind /\ m.to = n

-----------------------------------------------------------------------------
(* A client's command, at the coordinator n.                               *)

(* The operations ops with a new one. *)
Started(ops, id, op) == [i \in DOMAIN ops \cup {id} |-> IF i = id THEN op ELSE ops[i]]

(* A version that starts at 0, where a write at time 0 is no version. *)
VersionFromZero(time) == time

(* The version of a write: above the -1 of no data and above 0. *)
VersionAt(time) == time + 1

ClientWrite(n, k) ==
  /\ n \in params.clients \ dead /\ Allowed("writes") /\ writes' = writes + 1
  /\ now' \in {now, now + 1}
  /\ LET id == nextOp[n]
         v  == Version(<<n, id>>, VersionAt(now'))
         op == [kind |-> "write", key |-> k, v |-> v, acks |-> <<>>, hinted |-> FALSE]
     IN /\ pending' = [pending EXCEPT ![n] = Started(@, id, op)]
        /\ opTimers' = opTimers \cup {<<n, id>>}
        /\ net' = net \cup {Store(n, h, id, k, v, NoSlot) : h \in Home}
  /\ nextOp' = [nextOp EXCEPT ![n] = @ + 1]
  /\ UNCHANGED <<data, hints, handoffs, history, reads, faultVars>>

Acked(k) == {e \in history : e.outcome = "ack" /\ e.key = k}

(* The newest version acked when a read begins; kept for the properties.   *)
Floor(k) == Max({-1} \cup {e.ts : e \in Acked(k)})

ClientRead(n, k) ==
  /\ n \in params.clients \ dead /\ Allowed("reads") /\ reads' = reads + 1
  /\ LET id == nextOp[n]
         op == [kind |-> "read", key |-> k, replies |-> <<>>, floor |-> Floor(k)]
     IN /\ pending' = [pending EXCEPT ![n] = Started(@, id, op)]
        /\ opTimers' = opTimers \cup {<<n, id>>}
        /\ net' = net \cup {Get(n, h, id, k) : h \in Home}
  /\ nextOp' = [nextOp EXCEPT ![n] = @ + 1]
  /\ UNCHANGED <<data, hints, handoffs, history, now, writes, faultVars>>

Pending(n, id, kind) == id \in DOMAIN pending[n] /\ pending[n][id].kind = kind

(* Progress that cancels the timeout. *)
ContinueUntimed(n, id, op) ==
  /\ pending' = [pending EXCEPT ![n][id] = op]
  /\ opTimers' = opTimers \ {<<n, id>>} /\ UNCHANGED history

Continue(n, id, op) ==
  pending' = [pending EXCEPT ![n][id] = op] /\ UNCHANGED <<opTimers, history>>

(* The row an operation leaves in the history. *)
AckRow(n, id, op) ==
  [outcome |-> "ack", node |-> n, opId |-> id, key |-> op.key, ts |-> op.v.ts]
ReadRow(n, id, op, ts) ==
  [outcome |-> "read", node |-> n, opId |-> id, key |-> op.key, ts |-> ts, floor |-> op.floor]
FailedRow(n, id, op) ==
  [outcome |-> "failed", kind |-> op.kind, node |-> n, opId |-> id, key |-> op.key]

(* completeOp, with its row.  The op-timeout that is still queued will find*)
(* no operation.                                                           *)
End(n, id, row) ==
  /\ pending' = [pending EXCEPT ![n] = [i \in DOMAIN @ \ {id} |-> @[i]]]
  /\ opTimers' = opTimers \ {<<n, id>>}
  /\ history' = history \cup {row}

-----------------------------------------------------------------------------
(* Messages.  `rest' is what the delivery leaves in the network.           *)

(* Whatever arrives last wins. *)
ArrivalWins(old, new) == new

(* applyLww: a version replaces an older one only. *)
Lww(old, new) == IF old.ts >= new.ts THEN old ELSE new

HandleStore(n, m, rest) ==
  /\ Receives(n, "store", m)
  /\ data' = [data EXCEPT ![n][m.key] = Lww(@, m.v)]
  /\ net' = rest \cup {StoreAck(n, m.from, m.opId, m.handoffOf)}
  /\ UNCHANGED <<hints, handoffs, opVars>>

(* The fallback keeps the newest hint of its target and key, and starts    *)
(* the handoff loop when it had none.                                      *)
HandleStoreHint(n, m, rest) ==
  /\ Receives(n, "storeHint", m)
  /\ LET slot == <<m.target, m.key>>
         kept == {x \in hints[n] : x.slot = slot /\ x.v.ts >= m.v.ts}
     IN hints' = [hints EXCEPT ![n] =
                    IF kept # {} THEN @
                    ELSE {x \in @ : x.slot # slot} \cup {[slot |-> slot, v |-> m.v]}]
  /\ handoffs' = [handoffs EXCEPT ![n] = IF hints[n] = {} THEN @ + 1 ELSE @]
  /\ net' = rest \cup {StoreAck(n, m.from, m.opId, NoSlot)}
  /\ UNCHANGED <<data, opVars>>

(* The confirmation of a handoff clears the slot, whatever it now holds.   *)
HandleHandoffAck(n, m, rest) ==
  /\ Receives(n, "storeAck", m) /\ m.handoffOf # NoSlot
  /\ hints' = [hints EXCEPT ![n] = {x \in @ : x.slot # m.handoffOf}]
  /\ net' = rest
  /\ UNCHANGED <<data, handoffs, opVars>>

Among(seq, n) == \E i \in DOMAIN seq : seq[i] = n

(* Answers counted without a look at who sent them. *)
AlwaysNew(answered, from) == TRUE

NewAnswer(answered, from) == ~Among(answered, from)

(* The coordinator counted as one of its replicas. *)
EnoughWithSelf(answers, quorum) == Len(answers) + 1 >= quorum

Enough(answers, quorum) == Len(answers) >= quorum

HandleStoreAck(n, m, rest) ==
  /\ Receives(n, "storeAck", m) /\ m.handoffOf = NoSlot
  /\ Pending(n, m.opId, "write") /\ NewAnswer(pending[n][m.opId].acks, m.from)
  /\ LET op == [pending[n][m.opId] EXCEPT !.acks = Append(@, m.from)]
     IN IF Enough(op.acks, params.w)
        THEN End(n, m.opId, AckRow(n, m.opId, op))
        ELSE Continue(n, m.opId, op)
  /\ net' = rest
  /\ UNCHANGED <<data, hints, handoffs, nextOp, now, writes, reads>>

HandleGet(n, m, rest) ==
  /\ Receives(n, "get", m)
  /\ net' = rest \cup {GetReply(n, m.from, m.opId, data[n][m.key])}
  /\ UNCHANGED <<data, hints, handoffs, opVars>>

(* reduce: the newest version, the earliest reply's among those that tie.  *)
Newest(replies) ==
  replies[CHOOSE i \in DOMAIN replies :
            /\ \A j \in DOMAIN replies : replies[j].v.ts <= replies[i].v.ts
            /\ \A j \in 1..(i - 1) : replies[j].v.ts < replies[i].v.ts].v

(* The r-th reply ends the read with the newest version, and the replicas  *)
(* that answered with an older one are repaired.                           *)
HandleGetReply(n, m, rest) ==
  /\ Receives(n, "getReply", m) /\ Pending(n, m.opId, "read")
  /\ LET old == pending[n][m.opId]
         op  == [old EXCEPT !.replies = Append(@, [from |-> m.from, v |-> m.v])]
         newest == Newest(op.replies)
         stale  == {i \in DOMAIN op.replies : op.replies[i].v.ts < newest.ts}
     IN /\ NewAnswer([i \in DOMAIN old.replies |-> old.replies[i].from], m.from)
        /\ IF ~Enough(op.replies, params.r)
           THEN Continue(n, m.opId, op) /\ net' = rest
           ELSE /\ End(n, m.opId, ReadRow(n, m.opId, op, newest.ts))
                /\ net' = rest \cup {Store(n, op.replies[i].from, NoOp, op.key, newest, NoSlot)
                                     : i \in IF newest = NoData THEN {} ELSE stale}
  /\ UNCHANGED <<data, hints, handoffs, nextOp, now, writes, reads>>

-----------------------------------------------------------------------------
(* Timers.                                                                 *)

(* The handoff loop: every hint is sent to its target again, until none is *)
(* left.                                                                   *)
Handoff(n) ==
  /\ n \notin dead /\ handoffs[n] > 0
  /\ handoffs' = [handoffs EXCEPT ![n] = IF hints[n] = {} THEN @ - 1 ELSE @]
  /\ net' = net \cup {Store(n, x.slot[1], NoOp, x.slot[2], x.v, x.slot) : x \in hints[n]}
  /\ UNCHANGED <<data, hints, opVars, faultVars>>

ReadTimeout(n, id) ==
  /\ n \notin dead /\ <<n, id>> \in opTimers /\ Pending(n, id, "read")
  /\ End(n, id, FailedRow(n, id, pending[n][id]))
  /\ UNCHANGED <<data, hints, handoffs, nextOp, now, writes, reads, net, faultVars>>

WriteFails(n, id) ==
  /\ n \notin dead /\ <<n, id>> \in opTimers /\ Pending(n, id, "write")
  /\ ~params.sloppy \/ pending[n][id].hinted
  /\ End(n, id, FailedRow(n, id, pending[n][id]))
  /\ UNCHANGED <<data, hints, handoffs, nextOp, now, writes, reads, net, faultVars>>

(* Sloppy: the home replicas that did not ack are hinted onto as many      *)
(* fallbacks as there are, in order, and the operation gets one more       *)
(* timeout.                                                                *)
WriteHints(n, id) ==
  /\ n \notin dead /\ <<n, id>> \in opTimers /\ Pending(n, id, "write")
  /\ params.sloppy /\ ~pending[n][id].hinted
  /\ LET op      == pending[n][id]
         missing == {i \in DOMAIN home : ~Among(op.acks, home[i])}
         place(i) == Cardinality({j \in missing : j <= i})
         hinted  == {i \in missing : place(i) \in DOMAIN fallbacks}
     IN /\ Continue(n, id, [op EXCEPT !.hinted = TRUE])
        /\ net' = net \cup {StoreHint(n, fallbacks[place(i)], id, op.key, op.v, home[i]) : i \in hinted}
  /\ UNCHANGED <<data, hints, handoffs, nextOp, now, writes, reads, faultVars>>

(* A timer that comes due at a dead node is dropped. *)
TimerLost(n) ==
  /\ n \in dead
  /\ \/ \E id \in DOMAIN pending[n] : /\ <<n, id>> \in opTimers
                                      /\ opTimers' = opTimers \ {<<n, id>>}
                                      /\ UNCHANGED handoffs
     \/ /\ handoffs[n] > 0 /\ handoffs' = [handoffs EXCEPT ![n] = @ - 1]
        /\ UNCHANGED opTimers
  /\ UNCHANGED <<data, hints, pending, nextOp, history, now, writes, reads, net, faultVars>>

-----------------------------------------------------------------------------
Kill(n) ==
  /\ n \notin dead \cup killed /\ Allowed("kills") /\ killed' = killed \cup {n}
  /\ dead' = dead \cup {n}
  /\ UNCHANGED <<data, hints, handoffs, opVars, net, params, dups>>

Revive(n) ==
  /\ n \in dead /\ dead' = dead \ {n}
  /\ UNCHANGED <<data, hints, handoffs, opVars, net, params, killed, dups>>

Handle(n, m, rest) ==
  \/ HandleStore(n, m, rest) \/ HandleStoreHint(n, m, rest)
  \/ HandleHandoffAck(n, m, rest) \/ HandleStoreAck(n, m, rest)
  \/ HandleGet(n, m, rest) \/ HandleGetReply(n, m, rest)

Deliver(n, m) ==
  /\ \/ Handle(n, m, net \ {m}) /\ UNCHANGED dups
     \/ Allowed("dups") /\ Handle(n, m, net) /\ dups' = dups + 1
  /\ UNCHANGED <<params, dead, killed>>

OpTimeout(n, id) == ReadTimeout(n, id) \/ WriteFails(n, id) \/ WriteHints(n, id)

Next ==
  \E n \in Node :
    \/ \E k \in Key : ClientWrite(n, k) \/ ClientRead(n, k)
    \/ \E m \in net : Deliver(n, m)
    \/ \E id \in DOMAIN pending[n] : OpTimeout(n, id)
    \/ Handoff(n) \/ TimerLost(n) \/ Kill(n) \/ Revive(n)

Spec == Init /\ [][Next]_vars

-----------------------------------------------------------------------------
(* Properties.                                                             *)

Ops      == Nat \ {0}
Versions == [val : Node \X Ops, ts : Nat \ {0}]

Messages ==
  [msg : {"store"}, from : Node, to : Node, opId : Ops \cup {NoOp}, key : Key,
   v : Versions, handoffOf : (Home \X Key) \cup {NoSlot}]
  \cup [msg : {"storeHint"}, from : Node, to : Node, opId : Ops, key : Key,
        v : Versions, target : Home]
  \cup [msg : {"storeAck"}, from : Node, to : Node, opId : Ops \cup {NoOp},
        handoffOf : (Home \X Key) \cup {NoSlot}]
  \cup [msg : {"get"}, from : Node, to : Node, opId : Ops, key : Key]
  \cup [msg : {"getReply"}, from : Node, to : Node, opId : Ops, v : Versions \cup {NoData}]

(* Versions are positive and come from a client's write; only home         *)
(* replicas store data, and only fallbacks hold hints, one to a slot.      *)
TypeOK ==
  /\ \A n \in Node : \A k \in Key :
       data[n][k] = NoData \/ (n \in Home /\ data[n][k] \in Versions)
  /\ \A n \in Node : \A x, y \in hints[n] :
       /\ n \notin Home /\ x.slot \in Home \X Key /\ x.v \in Versions
       /\ x.slot = y.slot => x = y
  /\ \A n \in Node : handoffs[n] \in Nat /\ DOMAIN pending[n] \subseteq 1..(nextOp[n] - 1)
  /\ \A t \in opTimers : t[2] \in DOMAIN pending[t[1]]
  /\ net \subseteq Messages /\ dead \subseteq Node

(* Without hints an acked write is, from its ack on, on w home replicas or *)
(* superseded there: no ack is counted twice, and no repair, retry or late *)
(* message takes a replica back.                                           *)
AckedOnQuorum ==
  ~params.sloppy =>
    \A e \in {x \in history : x.outcome = "ack"} :
      Cardinality({h \in Home : data[h][e.key].ts >= e.ts}) >= params.w

(* With w + r > n a read returns every write acked before it began, or a   *)
(* newer one, although writes, reads, failures and repairs overlap         *)
(* (leaderless.property.test.ts tries operations one after another).       *)
ReadsSeeAcked ==
  ~params.sloppy /\ params.w + params.r > Len(home) =>
    \A e \in {x \in history : x.outcome = "read"} : e.ts >= e.floor

(* An operation ends once: none is reported failed and acked, and nothing  *)
(* late revives one that ended.                                            *)
EndsOnce ==
  \A e \in history :
    /\ e.opId \notin DOMAIN pending[e.node]
    /\ \A f \in history : e.node = f.node /\ e.opId = f.opId => e = f

(* The lab's own verdict, detectLostAckedWrite: "an ack implies >= w nodes *)
(* applied or hinted the value" and "a live copy always exists unless      *)
(* every holder died" (leaderless.ts:85-86), so fewer dead nodes than w    *)
(* hide no acked write.                                                    *)
AckedAlive ==
  Cardinality(dead) < params.w =>
    \A e \in {x \in history : x.outcome = "ack"} : \E n \in Node \ dead :
      \/ data[n][e.key].ts >= e.ts
      \/ \E x \in hints[n] : x.slot[2] = e.key /\ x.v.ts >= e.ts

(* No operation hangs: as long as its coordinator was never killed, one    *)
(* that has not ended has a timeout to come, however many answers came and *)
(* whatever was lost.                                                      *)
PendingTimed ==
  \A n \in Node \ killed : \A id \in DOMAIN pending[n] : <<n, id>> \in opTimers

(* Every operation ends, and once.                                         *)
OperationsEnd == EndsOnce /\ PendingTimed
=============================================================================
