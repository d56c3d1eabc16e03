-------------------------- MODULE LeaderlessProofs --------------------------
(***************************************************************************)
(* Proofs about Leaderless for every set of nodes and keys, every setting  *)
(* of the lab and every bound: types, acked writes on their quorum, reads  *)
(* that see them, and operations that end once.                            *)
(***************************************************************************)
EXTENDS Leaderless, NatLemmas, SequenceTheorems

-----------------------------------------------------------------------------
(* The invariant.  A version is stamped no later than the time of the      *)
(* latest write, and stored as it was made.                                *)
Made   == {v \in Versions : v.ts <= now + 1}
Stored == Made \cup {NoData}

(* Only home replicas store data, only the others keep hints, one to a     *)
(* slot.                                                                   *)
NodesRight ==
  /\ params \in Params /\ now \in Nat /\ killed \subseteq Node /\ dead \subseteq killed
  /\ data \in [Node -> [Key -> Stored]]
  /\ \A n \in Node \ Home, k \in Key : data[n][k] = NoData
  /\ hints \in [Node -> SUBSET [slot : Home \X Key, v : Made]]
  /\ \A n \in Home : hints[n] = {}
  /\ \A n \in Node : \A x, y \in hints[n] : x.slot = y.slot => x = y
  /\ handoffs \in [Node -> Nat]

(* A version at least this new is where it must be, at a home replica, at  *)
(* as many of them as a write waits for.                                   *)
HasIt(h, k, ts)  == h \in Home /\ data[h][k].ts >= ts
OnQuorum(k, ts)  == Cardinality({h \in Home : HasIt(h, k, ts)}) >= params.w

WriteOps == [kind : {"write"}, key : Key, v : Versions, acks : Seq(Node), hinted : BOOLEAN]
Reply    == [from : Home, v : Stored]
ReadOps  == [kind : {"read"}, key : Key, replies : Seq(Reply), floor : Int]

(* A write has counted each ack once, and without hints from a home        *)
(* replica that has the version.                                           *)
WriteRight(op) ==
  /\ op \in WriteOps /\ op.v \in Made
  /\ \A i, j \in DOMAIN op.acks : op.acks[i] = op.acks[j] => i = j
  /\ ~params.sloppy => \A i \in DOMAIN op.acks : HasIt(op.acks[i], op.key, op.v.ts)

(* The answers of h to the read <<n, id>>, in flight or counted, are at    *)
(* least as new as ts, and so is what h has.                               *)
Answers(h, n, id, op, ts) ==
  /\ HasIt(h, op.key, ts)
  /\ \A m \in net : m.msg = "getReply" /\ m.from = h /\ m.to = n /\ m.opId = id => m.v.ts >= ts
  /\ \A i \in DOMAIN op.replies : op.replies[i].from = h => op.replies[i].v.ts >= ts

(* A read has counted each replica once.  The newest write acked before it *)
(* began was on a quorum of replicas by then: each of these answers with   *)
(* it, or with a newer one.                                                *)
ReadRight(n, id, op) ==
  /\ op \in ReadOps
  /\ \A i, j \in DOMAIN op.replies : op.replies[i].from = op.replies[j].from => i = j
  /\ ~params.sloppy =>
       \/ op.floor = -1
       \/ \E W \in SUBSET Home : /\ Cardinality(W) >= params.w
                                 /\ \A h \in W : Answers(h, n, id, op, op.floor)

OpsRight ==
  /\ nextOp \in [Node -> Nat \ {0}] /\ DOMAIN pending = Node
  /\ \A n \in Node : DOMAIN pending[n] \subseteq 1..(nextOp[n] - 1)
  /\ \A n \in Node : \A id \in DOMAIN pending[n] :
       WriteRight(pending[n][id]) \/ ReadRight(n, id, pending[n][id])
  /\ \A t \in opTimers : t \in Node \X Nat /\ t[2] \in DOMAIN pending[t[1]]

(* What a message says of the operation it names, while that is pending: a *)
(* store is of its write, an ack of a home replica that has the version, a *)
(* get of its read.                                                        *)
StoreRight(m) ==
  /\ m.to \in Home /\ m.v \in Made /\ m.opId < nextOp[m.from]
  /\ Pending(m.from, m.opId, "write") =>
       m.key = pending[m.from][m.opId].key /\ m.v = pending[m.from][m.opId].v

HintRight(m) == params.sloppy /\ m.to \notin Home /\ m.v \in Made /\ m.opId < nextOp[m.from]

AckRight(m) ==
  /\ m.opId < nextOp[m.to]
  /\ m.handoffOf = NoSlot /\ Pending(m.to, m.opId, "write") /\ ~params.sloppy =>
       HasIt(m.from, pending[m.to][m.opId].key, pending[m.to][m.opId].v.ts)

GetRight(m) ==
  /\ m.to \in Home /\ m.opId < nextOp[m.from]
  /\ Pending(m.from, m.opId, "read") => m.key = pending[m.from][m.opId].key

ReplyRight(m) == m.from \in Home /\ m.v \in Stored /\ m.opId < nextOp[m.to]

MessageRight(m) ==
  /\ m \in Messages
  /\ m.msg = "store" => StoreRight(m)
  /\ m.msg = "storeHint" => HintRight(m)
  /\ m.msg = "storeAck" => AckRight(m)
  /\ m.msg = "get" => GetRight(m)
  /\ m.msg = "getReply" => ReplyRight(m)

NetRight == \A m \in net : MessageRight(m)

(* An ended operation is over, whatever it left behind. *)
RowRight(e) ==
  /\ e.node \in Node /\ e.opId \in 1..(nextOp[e.node] - 1)
  /\ e.opId \notin DOMAIN pending[e.node]
  /\ e.outcome = "ack" =>
       /\ e.key \in Key /\ e.ts \in 0..(now + 1)
       /\ ~params.sloppy => OnQuorum(e.key, e.ts)
  /\ e.outcome = "read" /\ ~params.sloppy /\ params.w + params.r > Len(home) => e.ts >= e.floor

HistoryRight ==
  /\ \A e \in history : RowRight(e)
  /\ \A e, f \in history : e.node = f.node /\ e.opId = f.opId => e = f

IInv == NodesRight /\ OpsRight /\ NetRight /\ HistoryRight /\ PendingTimed

-----------------------------------------------------------------------------
(* What the settings and the messages are made of. *)

LEMMA Settings ==
  ASSUME NodesRight
  PROVE  /\ home \in Seq(Node) /\ fallbacks \in Seq(Node) /\ params.clients \subseteq Node
         /\ params.w \in Nat \ {0} /\ params.r \in Nat \ {0} /\ params.sloppy \in BOOLEAN
         /\ Home \subseteq Node /\ IsFiniteSet(Home) /\ Cardinality(Home) <= Len(home)
         /\ \A i \in DOMAIN home : home[i] \in Home
         /\ \A i \in DOMAIN fallbacks : fallbacks[i] \in Node \ Home
<1>1. /\ home \in Seq(Node) /\ fallbacks \in Seq(Node) /\ params.clients \subseteq Node
      /\ params.w \in Nat \ {0} /\ params.r \in Nat \ {0} /\ params.sloppy \in BOOLEAN
      /\ Range(home) \cap Range(fallbacks) = {}
  BY ParamsAssumption DEF NodesRight, home, fallbacks
<1>2. /\ Len(home) \in Nat /\ home \in [1..Len(home) -> Node] /\ DOMAIN home = 1..Len(home)
      /\ fallbacks \in [DOMAIN fallbacks -> Node]
  BY <1>1, LenProperties
<1>3. Home = {home[i] : i \in DOMAIN home} /\ Range(fallbacks) = {fallbacks[i] : i \in DOMAIN fallbacks}
  BY DEF Home, home, Range
<1>4. /\ Home \subseteq Node
      /\ \A i \in DOMAIN home : home[i] \in Home
      /\ \A i \in DOMAIN fallbacks : fallbacks[i] \in Node \ Home
  BY <1>1, <1>2, <1>3 DEF Home, home
<1>5. IsFiniteSet(1..Len(home)) /\ Cardinality(1..Len(home)) = Len(home)
  <2> SUFFICES ASSUME NEW l \in Nat PROVE IsFiniteSet(1..l) /\ Cardinality(1..l) = l
    BY <1>2
  <2>1. 1 \in Int /\ l \in Int
    OBVIOUS
  <2>2. IsFiniteSet(1..l) /\ Cardinality(1..l) = IF 1 > l THEN 0 ELSE l - 1 + 1
    BY <2>1, FS_Interval
  <2> QED
    BY <2>2
<1>6. home \in Surjection(1..Len(home), Home)
  BY <1>2, <1>3, <1>4 DEF Surjection
<1>7. IsFiniteSet(Home) /\ Cardinality(Home) <= Len(home)
  BY <1>5, <1>6, FS_Surjection
<1> QED
  BY <1>1, <1>4, <1>7

LEMMA Fields ==
  ASSUME NEW m \in Messages
  PROVE  /\ m.from \in Node /\ m.to \in Node /\ m.opId \in Nat
         /\ m.msg \in {"store", "storeHint", "storeAck", "get", "getReply"}
         /\ m.msg \in {"store", "storeHint", "get"} => m.key \in Key
         /\ m.msg \in {"store", "storeHint"} => m.v \in Versions
         /\ m.msg = "storeHint" => m.target \in Home
         /\ m.msg \in {"store", "storeAck"} => m.handoffOf \in (Home \X Key) \cup {NoSlot}
         /\ m.msg \in {"storeHint", "get", "getReply"} => m.opId \in Ops
BY DEF Messages, Ops, NoOp

LEMMA VersionTypes ==
  ASSUME NodesRight
  PROVE  /\ \A v \in Made : v \in Versions /\ v.ts \in Nat \ {0} /\ v.ts <= now + 1
         /\ \A v \in Stored : v.ts \in Int /\ v.ts >= -1 /\ v.ts <= now + 1
         /\ \A n \in Node, k \in Key : data[n][k] \in Stored /\ data[n][k].ts \in Int
         /\ Made \subseteq Stored /\ NoData \in Stored /\ NoData \notin Made
BY DEF NodesRight, Made, Stored, Versions, NoData, Version

-----------------------------------------------------------------------------
(* What every step leaves true: time goes on, no replica goes back, and an *)
(* operation keeps its number and what it is about.                        *)
SameOp(op, old) ==
  /\ op.kind = old.kind /\ op.key = old.key
  /\ op.kind = "write" => op.v = old.v
  /\ op.kind = "read" => op.floor = old.floor

Grows ==
  /\ params' = params /\ now' \in Nat /\ now <= now'
  /\ \A n \in Node, k \in Key : data'[n][k].ts \in Int /\ data[n][k].ts <= data'[n][k].ts
  /\ \A n \in Node : nextOp'[n] \in Nat /\ nextOp[n] <= nextOp'[n]
  /\ \A n \in Node : \A id \in DOMAIN pending'[n] :
       id >= nextOp[n] \/ (id \in DOMAIN pending[n] /\ SameOp(pending'[n][id], pending[n][id]))

LEMMA SameSettings ==
  ASSUME NodesRight, Grows
  PROVE  /\ Home' = Home /\ home' = home /\ params' = params
         /\ Versions' = Versions /\ Messages' = Messages
         /\ Made \subseteq Made' /\ Stored \subseteq Stored'
<1>1. Home' = Home /\ home' = home /\ params' = params
  BY DEF Grows, Home, home
<1>2. Versions' = Versions /\ Messages' = Messages
  BY <1>1 DEF Versions, Messages, Ops
<1>3. Made \subseteq Made'
  BY <1>2 DEF Grows, Made, NodesRight, Versions
<1>4. NoData' = NoData
  BY DEF NoData, Version
<1>5. Stored \subseteq Stored'
  BY <1>3, <1>4 DEF Stored
<1> QED
  BY <1>1, <1>2, <1>3, <1>5

LEMMA StillHasIt ==
  ASSUME NodesRight, Grows, NEW k \in Key, NEW ts \in Int
  PROVE  /\ \A h : HasIt(h, k, ts) => HasIt(h, k, ts)'
         /\ OnQuorum(k, ts) => OnQuorum(k, ts)'
<1>1. Home' = Home /\ params' = params
  BY SameSettings
<1>2. ASSUME NEW h, HasIt(h, k, ts) PROVE HasIt(h, k, ts)'
  <2>1. h \in Home /\ h \in Node /\ data[h][k].ts >= ts
    BY <1>2, Settings DEF HasIt
  <2>2. data[h][k].ts \in Int /\ data'[h][k].ts \in Int /\ data[h][k].ts <= data'[h][k].ts
    BY <2>1, VersionTypes DEF Grows
  <2> QED
    BY <1>1, <2>1, <2>2 DEF HasIt
<1>3. ASSUME OnQuorum(k, ts) PROVE OnQuorum(k, ts)'
  <2> DEFINE H == {h \in Home : HasIt(h, k, ts)}
             G == {h \in Home : HasIt(h, k, ts)'}
  <2>1. H \subseteq G /\ G \subseteq Home
    BY <1>2
  <2>2. IsFiniteSet(H) /\ IsFiniteSet(G) /\ Cardinality(H) <= Cardinality(G)
    BY <2>1, Settings, FS_Subset
  <2>3. Cardinality(H) \in Nat /\ Cardinality(G) \in Nat
    BY <2>2, FS_CardinalityType
  <2>4. Cardinality(H) >= params.w /\ params.w \in Nat
    BY <1>3, Settings DEF OnQuorum
  <2>5. Cardinality(G) >= params'.w
    BY <1>1, <2>2, <2>3, <2>4
  <2>6. {h \in Home' : HasIt(h, k, ts)'} = G
    BY <1>1
  <2> QED
    BY <2>5, <2>6, Zenon DEF OnQuorum
<1> QED
  BY <1>2, <1>3

-----------------------------------------------------------------------------
(* A message, an operation and a row that were right stay so.              *)

(* What was pending after the step and is as old as the message, was       *)
(* pending before, about the same.                                         *)
LEMMA WasPending ==
  ASSUME OpsRight, Grows, NEW n \in Node, NEW id \in Nat, id < nextOp[n],
         NEW kind, Pending(n, id, kind)'
  PROVE  Pending(n, id, kind) /\ SameOp(pending'[n][id], pending[n][id])
<1>1. id \in DOMAIN pending'[n] /\ pending'[n][id].kind = kind
  BY DEF Pending
<1>2. ~(id >= nextOp[n])
  BY DEF OpsRight
<1>3. id \in DOMAIN pending[n] /\ SameOp(pending'[n][id], pending[n][id])
  BY <1>1, <1>2 DEF Grows
<1> QED
  BY <1>1, <1>3 DEF Pending, SameOp

LEMMA OpTypes ==
  ASSUME OpsRight, NEW n \in Node, NEW id \in DOMAIN pending[n]
  PROVE  LET op == pending[n][id] IN
         /\ id \in Nat \ {0} /\ id < nextOp[n] /\ op.key \in Key /\ op.kind \in {"write", "read"}
         /\ op.kind = "write" => WriteRight(op)
         /\ op.kind = "read" => ReadRight(n, id, op)
<1>1. nextOp[n] \in Nat \ {0} /\ id \in 1..(nextOp[n] - 1)
  BY DEF OpsRight
<1>2. WriteRight(pending[n][id]) \/ ReadRight(n, id, pending[n][id])
  BY DEF OpsRight
<1>3. \A op : WriteRight(op) => op.kind = "write" /\ op.key \in Key
  BY DEF WriteRight, WriteOps
<1>4. \A op : ReadRight(n, id, op) => op.kind = "read" /\ op.key \in Key
  BY DEF ReadRight, ReadOps
<1> QED
  BY <1>1, <1>2, <1>3, <1>4

LEMMA StillRight ==
  ASSUME NodesRight, OpsRight, Grows, NEW m, MessageRight(m)
  PROVE  MessageRight(m)'
<1>1. /\ Home' = Home /\ params' = params /\ Messages' = Messages
      /\ Made \subseteq Made' /\ Stored \subseteq Stored'
  BY SameSettings
<1>2. m \in Messages /\ m.from \in Node /\ m.to \in Node /\ m.opId \in Nat
  BY Fields DEF MessageRight
<1>3. \A n \in Node : m.opId < nextOp[n] => m.opId < nextOp'[n]
  BY <1>2 DEF Grows, OpsRight
<1>4. m.msg = "store" => StoreRight(m)'
  <2> SUFFICES ASSUME StoreRight(m) PROVE StoreRight(m)'
    BY DEF MessageRight
  <2>1. ASSUME Pending(m.from, m.opId, "write")'
        PROVE  m.key = pending'[m.from][m.opId].key /\ m.v = pending'[m.from][m.opId].v
    <3>1. /\ Pending(m.from, m.opId, "write")
          /\ SameOp(pending'[m.from][m.opId], pending[m.from][m.opId])
      BY <1>2, <2>1, WasPending DEF StoreRight
    <3> QED
      BY <2>1, <3>1 DEF StoreRight, SameOp, Pending
  <2> QED
    BY <1>1, <1>2, <1>3, <2>1 DEF StoreRight
<1>5. m.msg = "storeHint" => HintRight(m)'
  BY <1>1, <1>2, <1>3 DEF MessageRight, HintRight
<1>6. m.msg = "storeAck" => AckRight(m)'
  <2> SUFFICES ASSUME AckRight(m) PROVE AckRight(m)'
    BY DEF MessageRight
  <2>1. ASSUME m.handoffOf = NoSlot, Pending(m.to, m.opId, "write")', ~params.sloppy
        PROVE  /\ m.from \in Home
               /\ data'[m.from][pending'[m.to][m.opId].key].ts >= pending'[m.to][m.opId].v.ts
    <3>1. /\ Pending(m.to, m.opId, "write")
          /\ SameOp(pending'[m.to][m.opId], pending[m.to][m.opId])
      BY <1>2, <2>1, WasPending DEF AckRight
    <3> SUFFICES ASSUME NEW op, op = pending[m.to][m.opId]
                 PROVE  m.from \in Home /\ data'[m.from][op.key].ts >= op.v.ts
      BY <2>1, <3>1 DEF SameOp, Pending
    <3>2. HasIt(m.from, op.key, op.v.ts)
      BY <2>1, <3>1 DEF AckRight
    <3>3. op.key \in Key /\ WriteRight(op)
      BY <1>2, <3>1, OpTypes DEF Pending
    <3>4. op.v.ts \in Int
      BY <3>3, VersionTypes DEF WriteRight
    <3> QED
      BY <1>1, <3>2, <3>3, <3>4, StillHasIt DEF HasIt
  <2>2. AckRight(m)' <=>
          /\ m.opId < nextOp'[m.to]
          /\ m.handoffOf = NoSlot /\ Pending(m.to, m.opId, "write")' /\ ~params'.sloppy =>
               /\ m.from \in Home'
               /\ data'[m.from][pending'[m.to][m.opId].key].ts >= pending'[m.to][m.opId].v.ts
    BY DEF AckRight, HasIt, NoSlot
  <2> QED
    BY <1>1, <1>2, <1>3, <2>1, <2>2 DEF AckRight
<1>7. m.msg = "get" => GetRight(m)'
  <2> SUFFICES ASSUME GetRight(m), m.msg = "get" PROVE GetRight(m)'
    BY DEF MessageRight
  <2>1. ASSUME Pending(m.from, m.opId, "read")'
        PROVE  m.key = pending'[m.from][m.opId].key
    <3>1. /\ Pending(m.from, m.opId, "read")
          /\ SameOp(pending'[m.from][m.opId], pending[m.from][m.opId])
      BY <1>2, <2>1, WasPending DEF GetRight
    <3> QED
      BY <2>1, <3>1 DEF GetRight, SameOp
  <2> QED
    BY <1>1, <1>2, <1>3, <2>1 DEF GetRight
<1>8. m.msg = "getReply" => ReplyRight(m)'
  BY <1>1, <1>2, <1>3 DEF MessageRight, ReplyRight
<1> QED
  BY <1>1, <1>2, <1>4, <1>5, <1>6, <1>7, <1>8 DEF MessageRight

LEMMA WriteStays ==
  ASSUME NodesRight, Grows, NEW op, WriteRight(op)
  PROVE  WriteRight(op)'
<1>1. Home' = Home /\ params' = params /\ Versions' = Versions /\ Made \subseteq Made'
  BY SameSettings
<1>2. op \in WriteOps /\ op.v \in Made
  BY DEF WriteRight
<1>3. op \in WriteOps' /\ op.v \in Made' /\ op.key \in Key /\ op.v.ts \in Int
  BY <1>1, <1>2, VersionTypes DEF WriteOps
<1>4. ASSUME ~params.sloppy, NEW i \in DOMAIN op.acks
      PROVE  HasIt(op.acks[i], op.key, op.v.ts)'
  <2>1. HasIt(op.acks[i], op.key, op.v.ts)
    BY <1>4 DEF WriteRight
  <2> QED
    BY <1>3, <2>1, StillHasIt
<1>5. \A i, j \in DOMAIN op.acks : op.acks[i] = op.acks[j] => i = j
  BY DEF WriteRight
<1> QED
  BY <1>1, <1>3, <1>4, <1>5 DEF WriteRight

(* A reply sent in this step has what the replica had. *)
Fresh(m) ==
  m.msg = "getReply" =>
    m.from \in Home /\ \A k \in Key : Pending(m.to, m.opId, "read")
                         /\ pending[m.to][m.opId].key = k => m.v.ts >= data[m.from][k].ts
                                                      /\ m.v.ts \in Int

LEMMA ReadStays ==
  ASSUME NodesRight, OpsRight, Grows, NEW n \in Node, NEW id \in DOMAIN pending[n],
         pending[n][id].kind = "read", \A m \in net' : m \in net \/ Fresh(m)
  PROVE  \A op : op = pending[n][id] => ReadRight(n, id, op)'
<1> SUFFICES ASSUME NEW op, op = pending[n][id] PROVE ReadRight(n, id, op)'
  OBVIOUS
<1>1. /\ Home' = Home /\ params' = params /\ Home \subseteq Node
      /\ Made \subseteq Made' /\ Stored \subseteq Stored'
  BY SameSettings, Settings
<1>2. ReadRight(n, id, op)
  BY OpTypes
<1>3. op \in ReadOps /\ op.key \in Key /\ op.floor \in Int
  BY <1>2 DEF ReadRight, ReadOps
<1>4. op \in ReadOps'
  <2>1. Reply \subseteq Reply'
    BY <1>1 DEF Reply
  <2>2. Seq(Reply) \subseteq Seq(Reply')
    BY <2>1
  <2> QED
    BY <1>3, <2>2 DEF ReadOps
<1>5. ASSUME NEW h \in Home, Answers(h, n, id, op, op.floor)
      PROVE  Answers(h, n, id, op, op.floor)'
  <2>1. HasIt(h, op.key, op.floor)
    BY <1>5 DEF Answers
  <2>2. HasIt(h, op.key, op.floor)'
    BY <1>3, <2>1, StillHasIt
  <2>3. ASSUME NEW m \in net', m.msg = "getReply", m.from = h, m.to = n, m.opId = id
        PROVE  m.v.ts >= op.floor
    <3>1. CASE m \in net
      BY <1>5, <2>3, <3>1 DEF Answers
    <3>2. CASE Fresh(m)
      <4>1. m.v.ts >= data[h][op.key].ts /\ m.v.ts \in Int
        BY <1>3, <2>3, <3>2 DEF Fresh, Pending
      <4>2. data[h][op.key].ts >= op.floor /\ data[h][op.key].ts \in Int
        BY <1>1, <1>3, <2>1, VersionTypes DEF HasIt
      <4> QED
        BY <1>3, <4>1, <4>2
    <3> QED
      BY <3>1, <3>2
  <2>4. \A i \in DOMAIN op.replies : op.replies[i].from = h => op.replies[i].v.ts >= op.floor
    BY <1>5 DEF Answers
  <2> QED
    BY <2>2, <2>3, <2>4 DEF Answers
<1>6. \A i, j \in DOMAIN op.replies : op.replies[i].from = op.replies[j].from => i = j
  BY <1>2 DEF ReadRight
<1>7. ASSUME ~params.sloppy, op.floor # -1
      PROVE  \E W \in SUBSET Home : /\ Cardinality(W) >= params.w
                                    /\ \A h \in W : Answers(h, n, id, op, op.floor)'
  <2>1. PICK W \in SUBSET Home : /\ Cardinality(W) >= params.w
                                 /\ \A h \in W : Answers(h, n, id, op, op.floor)
    BY <1>2, <1>7 DEF ReadRight
  <2> QED
    BY <1>5, <2>1
<1> QED
  BY <1>1, <1>4, <1>6, <1>7 DEF ReadRight

LEMMA RowStays ==
  ASSUME NodesRight, OpsRight, Grows, NEW e, RowRight(e)
  PROVE  RowRight(e)'
<1>1. Home' = Home /\ home' = home /\ params' = params /\ now \in Nat /\ now' \in Nat /\ now <= now'
  BY SameSettings DEF NodesRight, Grows
<1>2. /\ e.node \in Node /\ e.opId \in Nat /\ 1 <= e.opId /\ e.opId < nextOp[e.node]
      /\ nextOp[e.node] \in Nat /\ nextOp'[e.node] \in Nat /\ nextOp[e.node] <= nextOp'[e.node]
  BY DEF RowRight, OpsRight, Grows
<1>3. e.opId \in 1..(nextOp'[e.node] - 1)
  BY <1>2
<1>4. e.opId \notin DOMAIN pending'[e.node]
  BY <1>2 DEF RowRight, Grows
<1>5. ASSUME e.outcome = "ack"
      PROVE  /\ e.key \in Key /\ e.ts \in 0..(now' + 1)
             /\ ~params.sloppy => OnQuorum(e.key, e.ts)'
  <2>1. e.key \in Key /\ e.ts \in 0..(now + 1) /\ (~params.sloppy => OnQuorum(e.key, e.ts))
    BY <1>5 DEF RowRight
  <2>2. e.ts \in Int /\ e.ts \in 0..(now' + 1)
    BY <1>1, <2>1
  <2> QED
    BY <2>1, <2>2, StillHasIt
<1> QED
  BY <1>1, <1>2, <1>3, <1>4, <1>5 DEF RowRight

-----------------------------------------------------------------------------
(* What a step must show of what it adds: the operations it starts or goes *)
(* on with, the messages it sends, and the row of an operation it ends.    *)

LEMMA Kept ==
  ASSUME IInv, Grows, NodesRight', PendingTimed',
         nextOp' \in [Node -> Nat \ {0}], DOMAIN pending' = Node,
         \A n \in Node : \A id \in DOMAIN pending'[n] :
           \/ id \in DOMAIN pending[n] /\ pending'[n][id] = pending[n][id]
           \/ /\ id \in 1..(nextOp'[n] - 1)
              /\ \A op : op = pending'[n][id] => WriteRight(op)' \/ ReadRight(n, id, op)',
         \A t \in opTimers' : t \in Node \X Nat /\ t[2] \in DOMAIN pending'[t[1]],
         \A m \in net' : m \in net \/ (MessageRight(m)' /\ Fresh(m)),
         \A e \in history' : e \in history \/ (RowRight(e)' /\ e.opId \in DOMAIN pending[e.node]),
         \A e, f \in history' \ history : e = f
  PROVE  IInv'
<1> USE DEF IInv
<1>1. OpsRight'
  <2>1. ASSUME NEW n \in Node, NEW id \in DOMAIN pending'[n], NEW op, op = pending'[n][id]
        PROVE  id \in 1..(nextOp'[n] - 1) /\ (WriteRight(op)' \/ ReadRight(n, id, op)')
    <3>1. CASE id \in DOMAIN pending[n] /\ op = pending[n][id]
      <4>1. id \in Nat \ {0} /\ id < nextOp[n] /\ nextOp[n] \in Nat /\ op.kind \in {"write", "read"}
        BY <3>1, OpTypes DEF OpsRight
      <4>2. nextOp'[n] \in Nat /\ nextOp[n] <= nextOp'[n]
        BY DEF Grows
      <4>3. CASE op.kind = "write"
        <5>1. WriteRight(op)
          BY <3>1, <4>3, OpTypes
        <5> QED
          BY <4>1, <4>2, <5>1, WriteStays
      <4>4. CASE op.kind = "read"
        BY <3>1, <4>1, <4>2, <4>4, ReadStays
      <4> QED
        BY <4>1, <4>3, <4>4
    <3> QED
      BY <2>1, <3>1
  <2>2. OpsRight' <=>
          /\ nextOp' \in [Node -> Nat \ {0}] /\ DOMAIN pending' = Node
          /\ \A n \in Node : DOMAIN pending'[n] \subseteq 1..(nextOp'[n] - 1)
          /\ \A n \in Node : \A id \in DOMAIN pending'[n] :
               WriteRight(pending[n][id])' \/ ReadRight(n, id, pending[n][id])'
          /\ \A t \in opTimers' : t \in Node \X Nat /\ t[2] \in DOMAIN pending'[t[1]]
    BY DEF OpsRight
  <2>3. \A n \in Node : \A id \in DOMAIN pending'[n] :
          WriteRight(pending[n][id])' \/ ReadRight(n, id, pending[n][id])'
    <3> SUFFICES ASSUME NEW n \in Node, NEW id \in DOMAIN pending'[n]
                 PROVE  WriteRight(pending[n][id])' \/ ReadRight(n, id, pending[n][id])'
      OBVIOUS
    <3>1. PICK op : op = pending'[n][id]
      OBVIOUS
    <3>2. CASE WriteRight(op)'
      BY <3>1, <3>2 DEF WriteRight, HasIt
    <3>3. CASE ReadRight(n, id, op)'
      BY <3>1, <3>3 DEF ReadRight, Answers, HasIt
    <3> QED
      BY <2>1, <3>1, <3>2, <3>3
  <2> QED
    BY <2>1, <2>2, <2>3
<1>2. NetRight'
  BY StillRight DEF NetRight
<1>3. HistoryRight'
  <2>1. \A e \in history' : RowRight(e)'
    BY RowStays DEF HistoryRight
  <2>2. ASSUME NEW e \in history', NEW f \in history', e.node = f.node, e.opId = f.opId
        PROVE  e = f
    <3>1. \A x \in history : x.opId \notin DOMAIN pending[x.node]
      BY DEF HistoryRight, RowRight
    <3> QED
      BY <2>2, <3>1 DEF HistoryRight
  <2> QED
    BY <2>1, <2>2 DEF HistoryRight
<1> QED
  BY <1>1, <1>2, <1>3

(* A step that leaves the operations alone.                                *)
LEMMA Untouched ==
  ASSUME IInv, NodesRight', params' = params, now' = now, nextOp' = nextOp, pending' = pending,
         history' = history, opTimers' \subseteq opTimers, PendingTimed',
         \A n \in Node, k \in Key : data[n][k].ts <= data'[n][k].ts,
         \A m \in net' : m \in net \/ (MessageRight(m)' /\ Fresh(m))
  PROVE  IInv'
<1> USE DEF IInv
<1>1. \A n \in Node, k \in Key : data'[n][k].ts \in Int
  <2>1. \A n \in Node, k \in Key : data'[n][k] \in Stored'
    BY DEF NodesRight
  <2>2. \A v \in Stored' : v.ts \in Int
    BY DEF Stored, Made, Versions, NoData, Version
  <2> QED
    BY <2>1, <2>2
<1>2. Grows
  BY <1>1, OpTypes DEF Grows, SameOp, NodesRight, OpsRight
<1>3. \A t \in opTimers' : t \in Node \X Nat /\ t[2] \in DOMAIN pending'[t[1]]
  BY DEF OpsRight
<1> QED
  BY <1>2, <1>3, Kept DEF OpsRight

nodeVars == <<params, data, hints, handoffs, dead, killed>>

LEMMA NodesSame ==
  ASSUME NodesRight, UNCHANGED nodeVars, now' \in Nat, now <= now'
  PROVE  NodesRight'
<1>1. Home' = Home /\ Made \subseteq Made' /\ Stored \subseteq Stored'
  <2>1. Home' = Home /\ Versions' = Versions /\ NoData' = NoData
    BY DEF nodeVars, Home, home, Versions, Ops, NoData, Version
  <2>2. Made \subseteq Made'
    BY <2>1 DEF Made, NodesRight, Versions
  <2> QED
    BY <2>1, <2>2 DEF Stored
<1>2. params \in Params /\ killed \subseteq Node /\ dead \subseteq killed /\ handoffs \in [Node -> Nat]
  BY DEF NodesRight
<1>3. data \in [Node -> [Key -> Stored']]
  <2>1. data \in [Node -> [Key -> Stored]]
    BY DEF NodesRight
  <2> QED
    BY <1>1, <2>1
<1>4. hints \in [Node -> SUBSET [slot : Home \X Key, v : Made']]
  <2>1. hints \in [Node -> SUBSET [slot : Home \X Key, v : Made]]
    BY DEF NodesRight
  <2>2. [slot : Home \X Key, v : Made] \subseteq [slot : Home \X Key, v : Made']
    BY <1>1
  <2> QED
    BY <2>1, <2>2
<1>5. /\ \A n \in Node \ Home, k \in Key : data[n][k] = NoData
      /\ \A n \in Home : hints[n] = {}
      /\ \A n \in Node : \A x, y \in hints[n] : x.slot = y.slot => x = y
  BY DEF NodesRight
<1> QED
  BY <1>1, <1>2, <1>3, <1>4, <1>5 DEF NodesRight, nodeVars, NoData, Version

(* An operation begins: it gets the next number and a timeout, and sends   *)
(* nothing that answers.                                                   *)
LEMMA Begins ==
  ASSUME IInv, NEW n \in Node, NEW op, NEW id, id = nextOp[n], UNCHANGED <<nodeVars, history>>,
         now' \in Nat, now <= now',
         WriteRight(op)' \/ ReadRight(n, id, op)',
         pending' = [pending EXCEPT ![n] = Started(@, id, op)],
         opTimers' = opTimers \cup {<<n, id>>},
         nextOp' = [nextOp EXCEPT ![n] = @ + 1],
         \A m \in net' : m \in net \/ (MessageRight(m)' /\ m.msg # "getReply")
  PROVE  IInv'
<1> USE DEF IInv
<1>1. nextOp \in [Node -> Nat \ {0}] /\ id \in Nat \ {0} /\ DOMAIN pending = Node
  BY DEF OpsRight
<1>2. nextOp' \in [Node -> Nat \ {0}] /\ DOMAIN pending' = Node /\ nextOp'[n] = id + 1
  BY <1>1
<1>3. /\ \A b \in Node \ {n} : pending'[b] = pending[b] /\ nextOp'[b] = nextOp[b]
      /\ DOMAIN pending'[n] = DOMAIN pending[n] \cup {id} /\ pending'[n][id] = op
      /\ \A i \in DOMAIN pending[n] : i # id /\ pending'[n][i] = pending[n][i]
  <2>1. \A i \in DOMAIN pending[n] : i # id
    BY <1>1 DEF OpsRight
  <2> QED
    BY <1>1, <2>1 DEF Started
<1>4. Grows
  <2>1. data' = data /\ params' = params
    BY DEF nodeVars
  <2>2. ASSUME NEW b \in Node, NEW i \in DOMAIN pending'[b]
        PROVE  i >= nextOp[b] \/ (i \in DOMAIN pending[b] /\ SameOp(pending'[b][i], pending[b][i]))
    BY <1>1, <1>3, <2>2 DEF SameOp
  <2> QED
    BY <1>1, <2>1, <2>2, VersionTypes DEF Grows
<1>5. NodesRight'
  BY NodesSame
<1>6. PendingTimed'
  <2>1. killed' = killed
    BY DEF nodeVars
  <2>2. ASSUME NEW b \in Node \ killed, NEW i \in DOMAIN pending'[b]
        PROVE  <<b, i>> \in opTimers'
    BY <1>3 DEF PendingTimed
  <2> QED
    BY <2>1, <2>2 DEF PendingTimed
<1>7. \A b \in Node : \A i \in DOMAIN pending'[b] :
           \/ i \in DOMAIN pending[b] /\ pending'[b][i] = pending[b][i]
           \/ /\ i \in 1..(nextOp'[b] - 1)
              /\ \A o : o = pending'[b][i] => WriteRight(o)' \/ ReadRight(b, i, o)'
  <2> SUFFICES ASSUME NEW b \in Node, NEW i \in DOMAIN pending'[b],
                      ~(i \in DOMAIN pending[b] /\ pending'[b][i] = pending[b][i])
               PROVE  /\ i \in 1..(nextOp'[b] - 1)
                      /\ \A o : o = pending'[b][i] => WriteRight(o)' \/ ReadRight(b, i, o)'
    OBVIOUS
  <2>1. b = n /\ i = id
    BY <1>3
  <2> QED
    BY <1>1, <1>2, <1>3, <2>1
<1>8. \A t \in opTimers' : t \in Node \X Nat /\ t[2] \in DOMAIN pending'[t[1]]
  BY <1>1, <1>3 DEF OpsRight
<1>9. \A m \in net' : m \in net \/ (MessageRight(m)' /\ Fresh(m))
  BY DEF Fresh
<1> QED
  BY <1>2, <1>4, <1>5, <1>6, <1>7, <1>8, <1>9, Kept

(* An operation goes on.                                                   *)
LEMMA GoesOn ==
  ASSUME IInv, NEW n \in Node, NEW id \in DOMAIN pending[n], NEW op, Continue(n, id, op),
         UNCHANGED <<nodeVars, nextOp, now>>, SameOp(op, pending[n][id]),
         WriteRight(op)' \/ ReadRight(n, id, op)',
         \A m \in net' : m \in net \/ (MessageRight(m)' /\ m.msg # "getReply")
  PROVE  IInv'
<1> USE DEF IInv
<1>1. nextOp \in [Node -> Nat \ {0}] /\ id \in 1..(nextOp[n] - 1) /\ DOMAIN pending = Node
  BY DEF OpsRight
<1>2. pending' = [pending EXCEPT ![n] = [pending[n] EXCEPT ![id] = op]]
  BY DEF Continue
<1>3. /\ \A b \in Node \ {n} : pending'[b] = pending[b]
      /\ DOMAIN pending'[n] = DOMAIN pending[n] /\ pending'[n][id] = op
      /\ \A i \in DOMAIN pending[n] \ {id} : pending'[n][i] = pending[n][i]
      /\ DOMAIN pending' = Node
  BY <1>1, <1>2
<1>4. opTimers' = opTimers /\ history' = history /\ nextOp' = nextOp /\ now' = now /\ now \in Nat
  BY DEF Continue, NodesRight
<1>5. Grows
  <2>1. data' = data /\ params' = params
    BY DEF nodeVars
  <2>2. ASSUME NEW b \in Node, NEW i \in DOMAIN pending'[b]
        PROVE  i \in DOMAIN pending[b] /\ SameOp(pending'[b][i], pending[b][i])
    BY <1>3, <2>2 DEF SameOp
  <2> QED
    BY <1>1, <1>4, <2>1, <2>2, VersionTypes DEF Grows
<1>6. NodesRight'
  BY <1>4, NodesSame
<1>7. \A b \in Node : DOMAIN pending'[b] = DOMAIN pending[b]
  BY <1>3
<1>8. PendingTimed'
  <2>1. killed' = killed
    BY DEF nodeVars
  <2> QED
    BY <1>4, <1>7, <2>1 DEF PendingTimed
<1>9. \A b \in Node : \A i \in DOMAIN pending'[b] :
           \/ i \in DOMAIN pending[b] /\ pending'[b][i] = pending[b][i]
           \/ /\ i \in 1..(nextOp'[b] - 1)
              /\ \A o : o = pending'[b][i] => WriteRight(o)' \/ ReadRight(b, i, o)'
  <2> SUFFICES ASSUME NEW b \in Node, NEW i \in DOMAIN pending'[b],
                      ~(i \in DOMAIN pending[b] /\ pending'[b][i] = pending[b][i])
               PROVE  /\ i \in 1..(nextOp'[b] - 1)
                      /\ \A o : o = pending'[b][i] => WriteRight(o)' \/ ReadRight(b, i, o)'
    OBVIOUS
  <2>1. b = n /\ i = id
    BY <1>3
  <2> QED
    BY <1>1, <1>3, <1>4, <2>1
<1>10. \A t \in opTimers' : t \in Node \X Nat /\ t[2] \in DOMAIN pending'[t[1]]
  BY <1>4, <1>7 DEF OpsRight
<1>11. \A m \in net' : m \in net \/ (MessageRight(m)' /\ Fresh(m))
  BY DEF Fresh
<1> QED
  BY <1>1, <1>3, <1>4, <1>5, <1>6, <1>8, <1>9, <1>10, <1>11, Kept

(* An operation ends, with a row that may be said of it.                   *)
LEMMA Ends ==
  ASSUME IInv, NEW n \in Node, NEW id \in DOMAIN pending[n], NEW row, End(n, id, row),
         UNCHANGED <<nodeVars, nextOp, now>>, row.node = n, row.opId = id,
         row.outcome = "ack" => /\ row.key \in Key /\ row.ts \in 0..(now + 1)
                                /\ ~params.sloppy => OnQuorum(row.key, row.ts),
         row.outcome = "read" /\ ~params.sloppy /\ params.w + params.r > Len(home) => row.ts >= row.floor,
         \A m \in net' : m \in net \/ (MessageRight(m)' /\ m.msg # "getReply")
  PROVE  IInv'
<1> USE DEF IInv
<1>1. nextOp \in [Node -> Nat \ {0}] /\ id \in 1..(nextOp[n] - 1) /\ DOMAIN pending = Node
  BY DEF OpsRight
<1>2. pending' = [pending EXCEPT ![n] = [i \in DOMAIN pending[n] \ {id} |-> pending[n][i]]]
  BY DEF End
<1>3. /\ \A b \in Node \ {n} : pending'[b] = pending[b]
      /\ DOMAIN pending'[n] = DOMAIN pending[n] \ {id}
      /\ \A i \in DOMAIN pending[n] \ {id} : pending'[n][i] = pending[n][i]
      /\ DOMAIN pending' = Node
  BY <1>1, <1>2
<1>4. /\ opTimers' = opTimers \ {<<n, id>>} /\ history' = history \cup {row} /\ nextOp' = nextOp
      /\ now' = now /\ now \in Nat
  BY DEF End, NodesRight
<1>5. \A b \in Node : \A i \in DOMAIN pending'[b] :
        i \in DOMAIN pending[b] /\ pending'[b][i] = pending[b][i] /\ <<b, i>> # <<n, id>>
  BY <1>3
<1>6. Grows
  <2>1. data' = data /\ params' = params
    BY DEF nodeVars
  <2> QED
    BY <1>1, <1>4, <1>5, <2>1, VersionTypes DEF Grows, SameOp
<1>7. NodesRight'
  BY <1>4, NodesSame
<1>8. PendingTimed'
  <2>1. killed' = killed
    BY DEF nodeVars
  <2> QED
    BY <1>4, <1>5, <2>1 DEF PendingTimed
<1>9. \A t \in opTimers' : t \in Node \X Nat /\ t[2] \in DOMAIN pending'[t[1]]
  <2> SUFFICES ASSUME NEW t \in opTimers' PROVE t \in Node \X Nat /\ t[2] \in DOMAIN pending'[t[1]]
    OBVIOUS
  <2>1. t \in Node \X Nat /\ t[2] \in DOMAIN pending[t[1]] /\ t # <<n, id>>
    BY <1>4 DEF OpsRight
  <2>2. t[1] # n \/ t[2] # id
    BY <2>1
  <2> QED
    BY <1>3, <2>1, <2>2
<1>10. \A m \in net' : m \in net \/ (MessageRight(m)' /\ Fresh(m))
  BY DEF Fresh
<1>11. RowRight(row)'
  <2>1. ASSUME NEW k, NEW ts, OnQuorum(k, ts) PROVE OnQuorum(k, ts)'
    BY <2>1 DEF OnQuorum, HasIt, nodeVars, Home, home
  <2>2. params' = params /\ home' = home
    BY DEF nodeVars, home
  <2>3. id \notin DOMAIN pending'[n]
    BY <1>3
  <2> QED
    BY <1>1, <1>4, <2>1, <2>2, <2>3 DEF RowRight
<1> QED
  BY <1>1, <1>3, <1>4, <1>5, <1>6, <1>7, <1>8, <1>9, <1>10, <1>11, Kept

-----------------------------------------------------------------------------
(* The floor of a read: that of no write, or the version of an acked one.  *)
LEMMA FloorFrom ==
  ASSUME IInv, NEW k \in Key
  PROVE  /\ Floor(k) \in Int
         /\ Floor(k) = -1 \/ \E e \in Acked(k) : e.ts = Floor(k)
<1> DEFINE S == {-1} \cup {e.ts : e \in Acked(k)}
           T == {x + 1 : x \in S}
<1>1. now \in Nat
  BY DEF IInv, NodesRight
<1>2. \A x \in S : x \in Int /\ x >= -1 /\ x <= now + 1
  BY <1>1 DEF IInv, HistoryRight, RowRight, Acked
<1>3. T \in SUBSET Nat /\ T # {} /\ \A y \in T : y <= now + 2
  BY <1>1, <1>2
<1>4. PICK y \in T : \A z \in T : z <= y
  <2>1. now + 2 \in Nat
    BY <1>1
  <2> HIDE DEF T
  <2> QED
    BY <1>3, <2>1, GreatestExists
<1>5. PICK x \in S : y = x + 1
  OBVIOUS
<1>6. \A z \in S : x >= z
  <2>1. \A z \in S : z + 1 \in T
    OBVIOUS
  <2> HIDE DEF T, S
  <2> QED
    BY <1>2, <1>4, <1>5, <2>1
<1>7. Floor(k) = CHOOSE z \in S : \A w \in S : z >= w
  BY DEF Floor, Max
<1>8. Floor(k) \in S
  <2> HIDE DEF S
  <2> QED
    BY <1>6, <1>7, Zenon
<1> QED
  BY <1>2, <1>8

(* The newest of some replies is one of them, and none is newer.           *)
LEMMA NewestIs ==
  ASSUME NEW replies, NEW l \in Nat \ {0}, DOMAIN replies = 1..l, NEW b \in Nat,
         \A i \in 1..l : replies[i].v.ts \in Int /\ replies[i].v.ts >= -1 /\ replies[i].v.ts <= b + 1
  PROVE  \E i \in 1..l : /\ Newest(replies) = replies[i].v
                         /\ \A j \in 1..l : replies[j].v.ts <= replies[i].v.ts
<1> DEFINE ts(i) == replies[i].v.ts
           T == {ts(i) + 1 : i \in 1..l}
           Most(i) == \A j \in 1..l : ts(j) <= ts(i)
           M == {i \in 1..l : Most(i)}
<1>1. T \in SUBSET Nat /\ T # {} /\ \A y \in T : y <= b + 2
  <2>1. 1 \in 1..l
    OBVIOUS
  <2> QED
    BY <2>1
<1>2. PICK y \in T : \A z \in T : z <= y
  <2>1. b + 2 \in Nat
    OBVIOUS
  <2> HIDE DEF T
  <2> QED
    BY <1>1, <2>1, GreatestExists
<1>3. PICK x \in 1..l : y = ts(x) + 1
  OBVIOUS
<1>4. Most(x)
  <2>1. \A j \in 1..l : ts(j) + 1 \in T /\ ts(j) \in Int
    OBVIOUS
  <2> SUFFICES ASSUME NEW j \in 1..l PROVE ts(j) <= ts(x)
    OBVIOUS
  <2>2. ts(j) + 1 <= ts(x) + 1 /\ ts(j) \in Int /\ ts(x) \in Int
    <3> HIDE DEF T
    <3> QED
      BY <1>2, <1>3, <2>1
  <2> HIDE DEF T, ts
  <2> QED
    BY <2>2
<1>5. M \in SUBSET Nat /\ M # {}
  <2>1. x \in M
    BY <1>4
  <2>2. M \subseteq 1..l /\ 1..l \subseteq Nat
    <3> HIDE DEF Most
    <3> QED
      OBVIOUS
  <2> QED
    <3> HIDE DEF M
    <3> QED
      BY <2>1, <2>2
<1>6. PICK i \in M : \A j \in M : i <= j
  <2> HIDE DEF M
  <2> QED
    BY <1>5, LeastExists
<1>7. \A j \in 1..(i - 1) : ts(j) < ts(i)
  <2> SUFFICES ASSUME NEW j \in 1..(i - 1), ~(ts(j) < ts(i)) PROVE FALSE
    OBVIOUS
  <2>1. j \in 1..l /\ i \in 1..l /\ j < i /\ ts(i) \in Int /\ ts(j) \in Int
    OBVIOUS
  <2>2. \A z \in 1..l : ts(z) \in Int /\ ts(z) <= ts(i)
    OBVIOUS
  <2>3. Most(j)
    BY <2>1, <2>2
  <2> QED
    BY <1>6, <2>1, <2>3
<1> DEFINE First(z) == /\ \A j \in DOMAIN replies : replies[j].v.ts <= replies[z].v.ts
                       /\ \A j \in 1..(z - 1) : replies[j].v.ts < replies[z].v.ts
<1>8. i \in DOMAIN replies /\ First(i)
  BY <1>6, <1>7
<1>9. Newest(replies) = replies[CHOOSE z \in DOMAIN replies : First(z)].v
  BY DEF Newest
<1>10. PICK c : c = (CHOOSE z \in DOMAIN replies : First(z))
  OBVIOUS
<1>11. c \in DOMAIN replies /\ First(c)
  <2> HIDE DEF First
  <2> QED
    BY <1>8, <1>10, Zenon
<1> QED
  BY <1>9, <1>10, <1>11

(* As many different things as there are places in a sequence of them.     *)
LEMMA ManyDifferent ==
  ASSUME NEW f, NEW l \in Nat, DOMAIN f = 1..l, \A i, j \in 1..l : f[i] = f[j] => i = j,
         NEW R, R = {f[i] : i \in 1..l}
  PROVE  IsFiniteSet(R) /\ Cardinality(R) = l
<1> DEFINE g == [i \in 1..l |-> f[i]]
<1>1. IsFiniteSet(1..l) /\ Cardinality(1..l) = l
  <2>1. 1 \in Int /\ l \in Int
    OBVIOUS
  <2>2. IsFiniteSet(1..l) /\ Cardinality(1..l) = IF 1 > l THEN 0 ELSE l - 1 + 1
    BY <2>1, FS_Interval
  <2> QED
    BY <2>2
<1>2. g \in Surjection(1..l, R)
  BY DEF Surjection
<1>3. g \in Injection(1..l, R)
  BY DEF Injection, IsInjective
<1>4. IsFiniteSet(R) /\ Cardinality(R) = Cardinality(1..l)
  <2> HIDE DEF g
  <2> QED
    BY <1>1, <1>2, <1>3, FS_Surjection
<1> QED
  BY <1>1, <1>4

-----------------------------------------------------------------------------
(* Commands.                                                               *)

LEMMA ClientWriteKeeps ==
  ASSUME IInv, NEW n \in Node, NEW k \in Key, ClientWrite(n, k)
  PROVE  IInv'
<1> USE DEF IInv
<1> SUFFICES ASSUME NEW id, id = nextOp[n], NEW v, v = [val |-> <<n, id>>, ts |-> now' + 1],
                    NEW op, op = [kind |-> "write", key |-> k, v |-> v, acks |-> <<>>, hinted |-> FALSE]
             PROVE  IInv'
  OBVIOUS
<1>1. now \in Nat /\ now' \in Nat /\ now <= now'
  BY DEF NodesRight, ClientWrite
<1>2. UNCHANGED <<nodeVars, history>> /\ nextOp' = [nextOp EXCEPT ![n] = @ + 1]
  BY DEF ClientWrite, nodeVars, faultVars
<1>3. /\ pending' = [pending EXCEPT ![n] = Started(@, id, op)]
      /\ opTimers' = opTimers \cup {<<n, id>>}
      /\ net' = net \cup {Store(n, h, id, k, v, NoSlot) : h \in Home}
  BY DEF ClientWrite, Version, VersionAt
<1>4. id \in Nat \ {0} /\ nextOp'[n] = id + 1 /\ DOMAIN pending = Node
  BY <1>2 DEF OpsRight
<1>5. v \in Versions /\ v.ts = now' + 1 /\ v \in Made'
  <2>1. <<n, id>> \in Node \X Ops /\ now' + 1 \in Nat \ {0} /\ v.ts = now' + 1
    <3>1. v.ts = now' + 1
      OBVIOUS
    <3>2. \A t \in Nat : t + 1 \in Nat \ {0}
      OBVIOUS
    <3>3. now' + 1 \in Nat \ {0}
      BY <1>1, <3>2, Zenon
    <3>4. <<n, id>> \in Node \X Ops
      BY <1>4, Zenon DEF Ops
    <3> QED
      BY <3>1, <3>3, <3>4, Zenon
  <2>2. v \in Versions /\ v \in Versions'
    BY <2>1 DEF Versions, Ops
  <2> QED
    BY <1>1, <2>1, <2>2 DEF Made
<1>6. WriteRight(op)'
  <2>1. <<>> \in Seq(Node) /\ DOMAIN <<>> = {}
    BY EmptySeq
  <2>2. op \in WriteOps
    BY <1>5, <2>1 DEF WriteOps
  <2>3. op \in WriteOps' /\ op.v \in Made' /\ DOMAIN op.acks = {}
    BY <1>5, <2>1, <2>2 DEF WriteOps, Versions, Ops
  <2> QED
    BY <2>3 DEF WriteRight
<1>7. ASSUME NEW m \in net', m \notin net
      PROVE  MessageRight(m)' /\ m.msg # "getReply"
  <2>1. PICK h \in Home : m = Store(n, h, id, k, v, NoSlot)
    BY <1>3, <1>7
  <2>2. Home' = Home /\ h \in Node
    BY <1>2, Settings DEF nodeVars, Home, home
  <2>3. /\ m.msg = "store" /\ m.from = n /\ m.to = h /\ m.opId = id /\ m.key = k /\ m.v = v
        /\ m.handoffOf = NoSlot
    BY <2>1 DEF Store
  <2>4. m \in Messages'
    <3>1. Versions' = Versions /\ Ops' = Ops
      BY DEF Versions, Ops
    <3> QED
      BY <1>4, <1>5, <2>1, <2>2, <3>1 DEF Messages, Store, Ops
  <2>5. pending'[n][id] = op
    BY <1>3, <1>4 DEF Started
  <2>6. StoreRight(m)'
    <3>1. h \in Home' /\ v \in Made' /\ id < nextOp'[n]
      BY <1>4, <1>5, <2>2
    <3> QED
      BY <2>3, <2>5, <3>1 DEF StoreRight
  <2> QED
    BY <2>3, <2>4, <2>6 DEF MessageRight
<1> QED
  BY <1>1, <1>2, <1>3, <1>6, <1>7, Begins

LEMMA ClientReadKeeps ==
  ASSUME IInv, NEW n \in Node, NEW k \in Key, ClientRead(n, k)
  PROVE  IInv'
<1> USE DEF IInv
<1> SUFFICES ASSUME NEW id, id = nextOp[n], NEW floor, floor = Floor(k),
                    NEW op, op = [kind |-> "read", key |-> k, replies |-> <<>>, floor |-> floor]
             PROVE  IInv'
  OBVIOUS
<1>1. now \in Nat /\ now' \in Nat /\ now <= now'
  BY DEF NodesRight, ClientRead
<1>2. UNCHANGED <<nodeVars, history>> /\ nextOp' = [nextOp EXCEPT ![n] = @ + 1]
  BY DEF ClientRead, nodeVars, faultVars
<1>3. /\ pending' = [pending EXCEPT ![n] = Started(@, id, op)]
      /\ opTimers' = opTimers \cup {<<n, id>>}
      /\ net' = net \cup {Get(n, h, id, k) : h \in Home}
  BY DEF ClientRead
<1>4. id \in Nat \ {0} /\ nextOp'[n] = id + 1 /\ DOMAIN pending = Node
  BY <1>2 DEF OpsRight
<1>5. /\ Home' = Home /\ params' = params /\ data' = data /\ Home \subseteq Node
      /\ Versions' = Versions /\ Ops' = Ops
  BY <1>2, Settings DEF nodeVars, Home, home, Versions, Ops
<1>6. ReadRight(n, id, op)'
  <2>1. <<>> \in Seq(Reply') /\ DOMAIN <<>> = {}
    BY EmptySeq
  <2>2. floor \in Int
    BY FloorFrom
  <2>3. op \in ReadOps' /\ DOMAIN op.replies = {} /\ op.floor = floor /\ op.key = k
    BY <2>1, <2>2 DEF ReadOps
  <2>4. ASSUME ~params.sloppy, op.floor # -1
        PROVE  \E W \in SUBSET Home' : /\ Cardinality(W) >= params'.w
                                       /\ \A h \in W : Answers(h, n, id, op, op.floor)'
    <3>1. PICK e \in Acked(k) : e.ts = floor
      BY <2>3, <2>4, FloorFrom
    <3>2. OnQuorum(k, floor)
      BY <2>4, <3>1 DEF Acked, HistoryRight, RowRight
    <3> DEFINE W == {h \in Home : HasIt(h, k, floor)}
    <3>3. Cardinality(W) >= params.w
      BY <3>2 DEF OnQuorum
    <3>4. ASSUME NEW h \in Node, h \in W PROVE Answers(h, n, id, op, op.floor)'
      <4>1. HasIt(h, op.key, op.floor)'
        BY <1>5, <2>3, <3>4 DEF HasIt
      <4>2. ASSUME NEW m \in net', m.msg = "getReply", m.to = n, m.opId = id PROVE FALSE
        <5>1. m \in net
          BY <1>3, <4>2 DEF Get
        <5>2. m.opId < nextOp[n]
          BY <4>2, <5>1 DEF NetRight, MessageRight, ReplyRight
        <5> QED
          BY <1>4, <4>2, <5>2
      <4> QED
        BY <2>3, <4>1, <4>2 DEF Answers
    <3> QED
      BY <1>5, <3>3, <3>4
  <2> QED
    BY <1>5, <2>3, <2>4 DEF ReadRight
<1>7. ASSUME NEW m \in net', m \notin net
      PROVE  MessageRight(m)' /\ m.msg # "getReply"
  <2>1. PICK h \in Home : m = Get(n, h, id, k)
    BY <1>3, <1>7
  <2>2. m.msg = "get" /\ m.from = n /\ m.to = h /\ m.opId = id /\ m.key = k
    BY <2>1 DEF Get
  <2>3. m \in Messages'
    BY <1>4, <1>5, <2>1 DEF Messages, Get, Ops
  <2>4. pending'[n][id] = op
    BY <1>3, <1>4 DEF Started
  <2>5. GetRight(m)'
    <3>1. h \in Home' /\ id < nextOp'[n]
      BY <1>4, <1>5
    <3> QED
      BY <2>2, <2>4, <3>1 DEF GetRight
  <2> QED
    BY <2>2, <2>3, <2>5 DEF MessageRight
<1> QED
  BY <1>1, <1>2, <1>3, <1>6, <1>7, Begins

-----------------------------------------------------------------------------
(* Messages.                                                               *)

SameFaults == UNCHANGED <<params, dead, killed>>

LEMMA HandleStoreKeeps ==
  ASSUME IInv, NEW n \in Node, NEW m \in net, NEW rest \in SUBSET net,
         HandleStore(n, m, rest), SameFaults
  PROVE  IInv'
<1> USE DEF IInv
<1>1. /\ m.msg = "store" /\ m.to = n /\ MessageRight(m)
  BY DEF HandleStore, Receives, NetRight
<1>2. /\ n \in Home /\ m.v \in Made /\ m.key \in Key /\ m.from \in Node /\ m.opId \in Nat
      /\ m.handoffOf \in (Home \X Key) \cup {NoSlot} /\ m \in Messages /\ StoreRight(m)
  BY <1>1, Fields DEF MessageRight, StoreRight
<1>3. /\ params' = params /\ now' = now /\ nextOp' = nextOp /\ pending' = pending
      /\ history' = history /\ opTimers' = opTimers /\ hints' = hints /\ handoffs' = handoffs
      /\ killed' = killed /\ dead' = dead
  BY DEF HandleStore, opVars, SameFaults
<1>4. /\ Home' = Home /\ Versions' = Versions /\ Made' = Made /\ Stored' = Stored /\ NoData' = NoData
      /\ Messages' = Messages
  BY <1>3 DEF Home, home, Versions, Ops, Made, Stored, NoData, Version, Messages
<1>5. data' = [data EXCEPT ![n] = [data[n] EXCEPT ![m.key] = Lww(data[n][m.key], m.v)]]
  BY DEF HandleStore
<1>6. /\ data \in [Node -> [Key -> Stored]] /\ data[n][m.key] \in Stored
      /\ data[n][m.key].ts \in Int /\ m.v.ts \in Int
  BY <1>2, VersionTypes DEF NodesRight
<1>7. PICK v : v = Lww(data[n][m.key], m.v)
  OBVIOUS
<1>8. v \in Stored /\ v.ts >= data[n][m.key].ts /\ v.ts >= m.v.ts /\ v.ts \in Int
  BY <1>2, <1>6, <1>7 DEF Lww, Stored
<1>9. /\ data' \in [Node -> [Key -> Stored]] /\ data'[n][m.key] = v
      /\ \A b \in Node, k \in Key : <<b, k>> # <<n, m.key>> => data'[b][k] = data[b][k]
  BY <1>2, <1>5, <1>6, <1>7, <1>8
<1>10. \A b \in Node, k \in Key : data[b][k].ts <= data'[b][k].ts
  BY <1>2, <1>6, <1>8, <1>9, VersionTypes
<1>11. NodesRight'
  <2>1. \A b \in Node \ Home, k \in Key : data'[b][k] = NoData
    BY <1>2, <1>9 DEF NodesRight
  <2> QED
    BY <1>3, <1>4, <1>9, <2>1 DEF NodesRight
<1>12. PendingTimed'
  BY <1>3 DEF PendingTimed
<1>13. ASSUME NEW a \in net', a \notin net
       PROVE  MessageRight(a)' /\ Fresh(a)
  <2>1. a = StoreAck(n, m.from, m.opId, m.handoffOf)
    BY <1>13 DEF HandleStore
  <2>2. /\ a.msg = "storeAck" /\ a.from = n /\ a.to = m.from /\ a.opId = m.opId
        /\ a.handoffOf = m.handoffOf
    BY <2>1 DEF StoreAck
  <2>3. a \in Messages'
    BY <1>2, <1>4, <2>1 DEF Messages, StoreAck, Ops, NoOp
  <2>4. AckRight(a)'
    <3>1. ASSUME Pending(m.from, m.opId, "write")
          PROVE  data'[n][pending[m.from][m.opId].key].ts >= pending[m.from][m.opId].v.ts
      BY <1>2, <1>8, <1>9, <3>1 DEF StoreRight
    <3> QED
      BY <1>2, <1>3, <1>4, <2>2, <3>1 DEF AckRight, StoreRight, Pending, HasIt
  <2> QED
    BY <2>2, <2>3, <2>4 DEF MessageRight, Fresh
<1> QED
  BY <1>3, <1>10, <1>11, <1>12, <1>13, Untouched

LEMMA HandleStoreHintKeeps ==
  ASSUME IInv, NEW n \in Node, NEW m \in net, NEW rest \in SUBSET net,
         HandleStoreHint(n, m, rest), SameFaults
  PROVE  IInv'
<1> USE DEF IInv
<1>1. /\ m.msg = "storeHint" /\ m.to = n /\ MessageRight(m)
  BY DEF HandleStoreHint, Receives, NetRight
<1>2. /\ n \notin Home /\ m.v \in Made /\ m.key \in Key /\ m.target \in Home /\ m.from \in Node
      /\ m.opId \in Ops /\ m \in Messages /\ params.sloppy /\ m.opId < nextOp[m.from]
  BY <1>1, Fields DEF MessageRight, HintRight
<1>3. /\ params' = params /\ now' = now /\ nextOp' = nextOp /\ pending' = pending
      /\ history' = history /\ opTimers' = opTimers /\ data' = data
      /\ killed' = killed /\ dead' = dead
  BY DEF HandleStoreHint, opVars, SameFaults
<1>4. /\ Home' = Home /\ Versions' = Versions /\ Made' = Made /\ Stored' = Stored /\ NoData' = NoData
      /\ Messages' = Messages
  BY <1>3 DEF Home, home, Versions, Ops, Made, Stored, NoData, Version, Messages
<1> DEFINE slot == <<m.target, m.key>>
           kept == {x \in hints[n] : x.slot = slot /\ x.v.ts >= m.v.ts}
           new  == [slot |-> slot, v |-> m.v]
<1>5. PICK H : H = IF kept # {} THEN hints[n] ELSE {x \in hints[n] : x.slot # slot} \cup {new}
  OBVIOUS
<1>6. hints' = [hints EXCEPT ![n] = H]
  BY <1>5 DEF HandleStoreHint
<1>7. /\ hints \in [Node -> SUBSET [slot : Home \X Key, v : Made]]
      /\ \A b \in Node : \A x, y \in hints[b] : x.slot = y.slot => x = y
      /\ handoffs \in [Node -> Nat]
  BY DEF NodesRight
<1>8. H \in SUBSET [slot : Home \X Key, v : Made] /\ \A x, y \in H : x.slot = y.slot => x = y
  <2>1. new \in [slot : Home \X Key, v : Made] /\ new.slot = slot
    BY <1>2
  <2> HIDE DEF new, slot, kept
  <2> QED
    BY <1>5, <1>7, <2>1
<1>9. /\ hints' \in [Node -> SUBSET [slot : Home \X Key, v : Made]]
      /\ \A b \in Node : \A x, y \in hints'[b] : x.slot = y.slot => x = y
      /\ \A b \in Home : hints'[b] = {}
  <2>1. \A b \in Home : hints[b] = {} /\ b # n
    BY <1>2 DEF NodesRight
  <2> QED
    BY <1>6, <1>7, <1>8, <2>1
<1>10. handoffs' \in [Node -> Nat]
  BY <1>7 DEF HandleStoreHint
<1>11. NodesRight'
  BY <1>3, <1>4, <1>9, <1>10 DEF NodesRight
<1>12. PendingTimed'
  BY <1>3 DEF PendingTimed
<1>13. ASSUME NEW a \in net', a \notin net
       PROVE  MessageRight(a)' /\ Fresh(a)
  <2>1. a = StoreAck(n, m.from, m.opId, NoSlot)
    BY <1>13 DEF HandleStoreHint
  <2>2. a.msg = "storeAck" /\ a.from = n /\ a.to = m.from /\ a.opId = m.opId /\ a.handoffOf = NoSlot
    BY <2>1 DEF StoreAck
  <2>3. a \in Messages'
    BY <1>2, <1>4, <2>1 DEF Messages, StoreAck
  <2>4. AckRight(a)'
    BY <1>2, <1>3, <2>2 DEF AckRight
  <2> QED
    BY <2>2, <2>3, <2>4 DEF MessageRight, Fresh
<1>14. \A b \in Node, k \in Key : data[b][k].ts <= data'[b][k].ts
  BY <1>3, VersionTypes
<1> QED
  BY <1>3, <1>11, <1>12, <1>13, <1>14, Untouched

LEMMA HandleHandoffAckKeeps ==
  ASSUME IInv, NEW n \in Node, NEW m \in net, NEW rest \in SUBSET net,
         HandleHandoffAck(n, m, rest), SameFaults
  PROVE  IInv'
<1> USE DEF IInv
<1>1. /\ params' = params /\ now' = now /\ nextOp' = nextOp /\ pending' = pending
      /\ history' = history /\ opTimers' = opTimers /\ data' = data
      /\ killed' = killed /\ dead' = dead /\ handoffs' = handoffs /\ net' \subseteq net
  BY DEF HandleHandoffAck, opVars, SameFaults
<1>2. /\ Home' = Home /\ Made' = Made /\ Stored' = Stored /\ NoData' = NoData
  BY <1>1 DEF Home, home, Versions, Ops, Made, Stored, NoData, Version
<1>3. hints' = [hints EXCEPT ![n] = {x \in hints[n] : x.slot # m.handoffOf}]
  BY DEF HandleHandoffAck
<1>4. /\ hints' \in [Node -> SUBSET [slot : Home \X Key, v : Made]]
      /\ \A b \in Node : hints'[b] \subseteq hints[b]
  BY <1>3 DEF NodesRight
<1>5. NodesRight'
  <2>1. Home \subseteq Node
    BY Settings
  <2>2. /\ \A b \in Home : hints'[b] = {}
        /\ \A b \in Node : \A x, y \in hints'[b] : x.slot = y.slot => x = y
    BY <1>4, <2>1 DEF NodesRight
  <2> QED
    BY <1>1, <1>2, <1>4, <2>2 DEF NodesRight
<1>6. PendingTimed'
  BY <1>1 DEF PendingTimed
<1>7. \A b \in Node, k \in Key : data[b][k].ts <= data'[b][k].ts
  BY <1>1, VersionTypes
<1>8. \A a \in net' : a \in net
  BY <1>1
<1> QED
  BY <1>1, <1>5, <1>6, <1>7, <1>8, Untouched

LEMMA HandleGetKeeps ==
  ASSUME IInv, NEW n \in Node, NEW m \in net, NEW rest \in SUBSET net,
         HandleGet(n, m, rest), SameFaults
  PROVE  IInv'
<1> USE DEF IInv
<1>1. /\ m.msg = "get" /\ m.to = n /\ MessageRight(m)
  BY DEF HandleGet, Receives, NetRight
<1>2. /\ n \in Home /\ m.key \in Key /\ m.from \in Node /\ m.opId \in Ops /\ m.opId < nextOp[m.from]
      /\ m \in Messages /\ GetRight(m)
  BY <1>1, Fields DEF MessageRight, GetRight
<1>3. /\ UNCHANGED nodeVars /\ now' = now /\ now \in Nat /\ nextOp' = nextOp /\ pending' = pending
      /\ history' = history /\ opTimers' = opTimers /\ params' = params /\ data' = data
      /\ killed' = killed
  BY DEF HandleGet, opVars, SameFaults, nodeVars, NodesRight
<1>4. NodesRight'
  BY <1>3, NodesSame
<1>5. /\ Home' = Home /\ Versions' = Versions /\ Stored' = Stored /\ Messages' = Messages
  BY <1>3 DEF Home, home, Versions, Ops, Made, Stored, NoData, Version, Messages
<1>6. PendingTimed'
  BY <1>3 DEF PendingTimed
<1>7. ASSUME NEW a \in net', a \notin net
      PROVE  MessageRight(a)' /\ Fresh(a)
  <2>1. a = GetReply(n, m.from, m.opId, data[n][m.key])
    BY <1>7 DEF HandleGet
  <2>2. /\ a.msg = "getReply" /\ a.from = n /\ a.to = m.from /\ a.opId = m.opId
        /\ a.v = data[n][m.key]
    BY <2>1 DEF GetReply
  <2>3. a.v \in Stored /\ a.v.ts \in Int /\ a.v \in Versions \cup {NoData}
    BY <1>2, <2>2, VersionTypes DEF Stored, Made
  <2>4. a \in Messages'
    <3>1. a = [msg |-> "getReply", from |-> n, to |-> m.from, opId |-> m.opId, v |-> a.v]
      BY <2>1 DEF GetReply
    <3> QED
      BY <1>2, <1>5, <2>3, <3>1 DEF Messages
  <2>5. ReplyRight(a)'
    BY <1>2, <1>3, <1>5, <2>2, <2>3 DEF ReplyRight
  <2>6. Fresh(a)
    <3>1. ASSUME NEW k \in Key, Pending(a.to, a.opId, "read"), pending[a.to][a.opId].key = k
          PROVE  a.v.ts >= data[a.from][k].ts
      BY <1>2, <2>2, <2>3, <3>1 DEF GetRight
    <3> QED
      BY <1>2, <2>2, <2>3, <3>1 DEF Fresh
  <2> QED
    BY <2>2, <2>4, <2>5, <2>6 DEF MessageRight
<1>8. \A b \in Node, k \in Key : data[b][k].ts <= data'[b][k].ts
  BY <1>3, VersionTypes
<1> QED
  BY <1>3, <1>4, <1>6, <1>7, <1>8, Untouched

LEMMA SameWriteRight ==
  ASSUME UNCHANGED nodeVars, now' = now, NEW op, WriteRight(op)
  PROVE  WriteRight(op)'
<1>1. Home' = Home /\ Versions' = Versions /\ Made' = Made /\ params' = params /\ data' = data
  BY DEF nodeVars, Home, home, Versions, Ops, Made
<1> QED
  BY <1>1 DEF WriteRight, WriteOps, HasIt

(* One more at the end. *)
Longer(new, s, e) ==
  /\ DOMAIN s = 1..Len(s) /\ Len(s) \in Nat /\ Len(new) = Len(s) + 1 /\ DOMAIN new = 1..Len(new)
  /\ new[Len(s) + 1] = e /\ \A i \in 1..Len(s) : new[i] = s[i]

LEMMA AppendLonger ==
  ASSUME NEW S, NEW s \in Seq(S), NEW e \in S
  PROVE  Append(s, e) \in Seq(S) /\ Longer(Append(s, e), s, e)
<1>1. Append(s, e) \in Seq(S) /\ Len(Append(s, e)) = Len(s) + 1
  BY AppendProperties
<1>2. DOMAIN Append(s, e) = 1..Len(Append(s, e)) /\ DOMAIN s = 1..Len(s) /\ Len(s) \in Nat
  BY <1>1, LenProperties
<1>3. Append(s, e)[Len(s) + 1] = e /\ \A i \in 1..Len(s) : Append(s, e)[i] = s[i]
  BY AppendProperties
<1> QED
  BY <1>1, <1>2, <1>3 DEF Longer

(* A counted ack.                                                          *)
LEMMA CountAck ==
  ASSUME IInv, NEW n \in Node, NEW m \in net, m.msg = "storeAck", m.to = n, m.handoffOf = NoSlot,
         Pending(n, m.opId, "write"), NEW old, old = pending[n][m.opId], NewAnswer(old.acks, m.from),
         NEW acks \in Seq(Node), Longer(acks, old.acks, m.from),
         NEW op, op = [old EXCEPT !.acks = acks]
  PROVE  /\ WriteRight(op) /\ SameOp(op, old)
         /\ ~params.sloppy /\ Enough(op.acks, params.w) => OnQuorum(op.key, op.v.ts)
<1> USE DEF IInv
<1>1. m.from \in Node /\ AckRight(m)
  BY Fields DEF NetRight, MessageRight
<1>2. WriteRight(old) /\ old.kind = "write"
  BY OpTypes DEF Pending
<1>3. old \in WriteOps /\ old.acks \in Seq(Node)
  BY <1>2 DEF WriteRight, WriteOps
<1>4. /\ op \in WriteOps /\ op.v = old.v /\ op.key = old.key /\ op.kind = old.kind
      /\ op.acks = acks
  BY <1>3 DEF WriteOps
<1>5. PICK l \in Nat : l = Len(old.acks) /\ DOMAIN old.acks = 1..l
  BY DEF Longer
<1>6. /\ Len(op.acks) = l + 1 /\ DOMAIN op.acks = 1..(l + 1) /\ op.acks[l + 1] = m.from
      /\ \A i \in 1..l : op.acks[i] = old.acks[i]
  BY <1>4, <1>5 DEF Longer
<1>7. \A i, j \in 1..(l + 1) : op.acks[i] = op.acks[j] => i = j
  <2>1. \A i \in 1..l : old.acks[i] # m.from
    BY <1>5 DEF NewAnswer, Among
  <2>2. \A i, j \in 1..l : old.acks[i] = old.acks[j] => i = j
    BY <1>2, <1>5 DEF WriteRight
  <2> QED
    BY <1>6, <2>1, <2>2
<1>8. ASSUME ~params.sloppy, NEW i \in 1..(l + 1)
      PROVE  HasIt(op.acks[i], op.key, op.v.ts)
  <2>1. CASE i \in 1..l
    BY <1>2, <1>4, <1>5, <1>6, <1>8, <2>1 DEF WriteRight
  <2>2. CASE i = l + 1
    BY <1>1, <1>4, <1>6, <1>8, <2>2 DEF AckRight
  <2> QED
    BY <2>1, <2>2
<1>9. WriteRight(op)
  BY <1>2, <1>4, <1>6, <1>7, <1>8 DEF WriteRight
<1>10. ASSUME ~params.sloppy, Enough(op.acks, params.w)
       PROVE  OnQuorum(op.key, op.v.ts)
  <2> DEFINE R == {op.acks[i] : i \in 1..(l + 1)}
             H == {h \in Home : HasIt(h, op.key, op.v.ts)}
  <2>1. R \subseteq H
    BY <1>8, <1>10 DEF HasIt
  <2>2. IsFiniteSet(H)
    BY Settings, FS_Subset
  <2>3. l + 1 \in Nat /\ Cardinality(R) = l + 1
    <3>1. \A k \in Nat : k + 1 \in Nat
      OBVIOUS
    <3>2. l + 1 \in Nat
      BY <3>1, Zenon
    <3>3. DOMAIN op.acks = 1..(l + 1)
      BY <1>6
    <3>4. R = {op.acks[i] : i \in 1..(l + 1)}
      OBVIOUS
    <3> HIDE DEF R
    <3>5. ASSUME NEW f, NEW k \in Nat, f = op.acks, k = l + 1
          PROVE  Cardinality(R) = k
      <4>1. DOMAIN f = 1..k
        BY <3>3, <3>5
      <4>2. \A i, j \in 1..k : f[i] = f[j] => i = j
        BY <1>7, <3>5
      <4>3. R = {f[i] : i \in 1..k}
        BY <3>4, <3>5
      <4> QED
        BY <4>1, <4>2, <4>3, ManyDifferent
    <3> QED
      BY <3>2, <3>5, Zenon
  <2>4. Cardinality(R) <= Cardinality(H) /\ Cardinality(H) \in Nat
    <3> HIDE DEF R, H
    <3> QED
      BY <2>1, <2>2, FS_Subset, FS_CardinalityType
  <2>5. l + 1 >= params.w /\ params.w \in Nat
    BY <1>6, <1>10, Settings DEF Enough
  <2> QED
    BY <2>3, <2>4, <2>5 DEF OnQuorum
<1> QED
  BY <1>4, <1>9, <1>10 DEF SameOp, WriteOps

LEMMA HandleStoreAckKeeps ==
  ASSUME IInv, NEW n \in Node, NEW m \in net, NEW rest \in SUBSET net,
         HandleStoreAck(n, m, rest), SameFaults
  PROVE  IInv'
<1> USE DEF IInv
<1> DEFINE id == m.opId
<1> SUFFICES ASSUME NEW old, old = pending[n][id],
                    NEW acks, acks = Append(old.acks, m.from),
                    NEW op, op = [old EXCEPT !.acks = acks]
             PROVE  IInv'
  OBVIOUS
<1>1. /\ m.msg = "storeAck" /\ m.to = n /\ m.handoffOf = NoSlot /\ Pending(n, id, "write")
      /\ NewAnswer(old.acks, m.from) /\ net' = rest
  BY DEF HandleStoreAck, Receives
<1>2. /\ UNCHANGED <<nodeVars, nextOp, now>> /\ now \in Nat
  BY DEF HandleStoreAck, SameFaults, nodeVars, NodesRight
<1>3. id \in DOMAIN pending[n] /\ acks \in Seq(Node) /\ Longer(acks, old.acks, m.from)
  <2>1. m.from \in Node /\ id \in DOMAIN pending[n] /\ old.acks \in Seq(Node)
    BY <1>1, Fields, OpTypes DEF NetRight, MessageRight, Pending, WriteRight, WriteOps
  <2> QED
    BY <2>1, AppendLonger
<1>6. /\ WriteRight(op) /\ SameOp(op, old)
      /\ ~params.sloppy /\ Enough(op.acks, params.w) => OnQuorum(op.key, op.v.ts)
  BY <1>1, <1>3, CountAck
<1>4. CASE ~Enough(op.acks, params.w)
  <2>1. Continue(n, id, op)
    BY <1>4 DEF HandleStoreAck
  <2>2. WriteRight(op)'
    BY <1>2, <1>6, SameWriteRight
  <2> QED
    BY <1>1, <1>2, <1>3, <1>6, <2>1, <2>2, GoesOn
<1>5. CASE Enough(op.acks, params.w)
  <2> SUFFICES ASSUME NEW row, row = AckRow(n, id, op) PROVE IInv'
    OBVIOUS
  <2>1. End(n, id, row)
    BY <1>5 DEF HandleStoreAck
  <2>2. /\ row.node = n /\ row.opId = id /\ row.outcome = "ack" /\ row.key = op.key
        /\ row.ts = op.v.ts
    BY DEF AckRow
  <2>3. op.key \in Key /\ op.v.ts \in 0..(now + 1)
    <3>1. op \in WriteOps /\ op.v \in Made
      BY <1>6 DEF WriteRight
    <3>2. op.v.ts \in Nat \ {0} /\ op.v.ts <= now + 1
      BY <3>1, VersionTypes
    <3> QED
      BY <1>2, <3>1, <3>2 DEF WriteOps
  <2>4. ~params.sloppy => OnQuorum(op.key, op.v.ts)
    BY <1>5, <1>6
  <2> QED
    BY <1>1, <1>2, <1>3, <1>6, <2>1, <2>2, <2>3, <2>4, Ends
<1> QED
  BY <1>4, <1>5

(* A counted reply.                                                        *)
LEMMA CountReply ==
  ASSUME IInv, NEW n \in Node, NEW m \in net, m.msg = "getReply", m.to = n,
         Pending(n, m.opId, "read"), NEW old, old = pending[n][m.opId],
         \A i \in DOMAIN old.replies : old.replies[i].from # m.from,
         NEW new, new = [from |-> m.from, v |-> m.v],
         NEW replies \in Seq(Reply), Longer(replies, old.replies, new),
         NEW op, op = [old EXCEPT !.replies = replies]
  PROVE  /\ ReadRight(n, m.opId, op) /\ SameOp(op, old)
         /\ Len(op.replies) \in Nat \ {0}
<1> USE DEF IInv
<1> DEFINE id == m.opId
<1>1. m.from \in Home /\ m.v \in Stored
  BY DEF NetRight, MessageRight, ReplyRight
<1>2. ReadRight(n, id, old) /\ old.kind = "read"
  BY OpTypes DEF Pending
<1>3. old \in ReadOps /\ old.replies \in Seq(Reply)
  BY <1>2 DEF ReadRight, ReadOps
<1>4. new.from = m.from /\ new.v = m.v
  OBVIOUS
<1>5. /\ op \in ReadOps /\ op.key = old.key /\ op.kind = old.kind /\ op.floor = old.floor
      /\ op.replies = replies
  BY <1>3 DEF ReadOps
<1>6. PICK l \in Nat : l = Len(old.replies) /\ DOMAIN old.replies = 1..l
  BY DEF Longer
<1>7. /\ Len(op.replies) = l + 1 /\ DOMAIN op.replies = 1..(l + 1) /\ op.replies[l + 1] = new
      /\ \A i \in 1..l : op.replies[i] = old.replies[i]
  BY <1>5, <1>6 DEF Longer
<1>8. \A i, j \in 1..(l + 1) : op.replies[i].from = op.replies[j].from => i = j
  <2>1. \A i \in 1..l : old.replies[i].from # m.from
    BY <1>6
  <2>2. \A i, j \in 1..l : old.replies[i].from = old.replies[j].from => i = j
    BY <1>2, <1>6 DEF ReadRight
  <2> QED
    BY <1>4, <1>7, <2>1, <2>2
<1>9. ASSUME NEW h, Answers(h, n, id, old, old.floor)
      PROVE  Answers(h, n, id, op, op.floor)
  <2>1. HasIt(h, op.key, op.floor)
    BY <1>5, <1>9 DEF Answers
  <2>2. \A a \in net : a.msg = "getReply" /\ a.from = h /\ a.to = n /\ a.opId = id => a.v.ts >= op.floor
    BY <1>5, <1>9 DEF Answers
  <2>3. \A i \in 1..l : old.replies[i].from = h => old.replies[i].v.ts >= op.floor
    BY <1>5, <1>6, <1>9 DEF Answers
  <2>4. \A i \in 1..(l + 1) : op.replies[i].from = h => op.replies[i].v.ts >= op.floor
    BY <1>4, <1>7, <2>2, <2>3
  <2> QED
    BY <1>7, <2>1, <2>2, <2>4 DEF Answers
<1>10. ASSUME ~params.sloppy, op.floor # -1
       PROVE  \E W \in SUBSET Home : /\ Cardinality(W) >= params.w
                                     /\ \A h \in W : Answers(h, n, id, op, op.floor)
  <2>1. PICK W \in SUBSET Home : /\ Cardinality(W) >= params.w
                                 /\ \A h \in W : Answers(h, n, id, old, old.floor)
    BY <1>2, <1>5, <1>10 DEF ReadRight
  <2> QED
    BY <1>9, <2>1
<1>11. ReadRight(n, id, op)
  BY <1>5, <1>7, <1>8, <1>10 DEF ReadRight
<1> QED
  BY <1>2, <1>5, <1>7, <1>11 DEF SameOp

(* A set of replicas that have a write and one that answers a read, when   *)
(* w + r is more than there are.                                           *)
LEMMA QuorumsMeet ==
  ASSUME NodesRight, NEW W \in SUBSET Home, NEW R \in SUBSET Home,
         Cardinality(W) >= params.w, Cardinality(R) >= params.r, params.w + params.r > Len(home)
  PROVE  W \cap R # {}
<1> SUFFICES ASSUME W \cap R = {} PROVE FALSE
  OBVIOUS
<1>1. /\ IsFiniteSet(Home) /\ Cardinality(Home) <= Len(home) /\ params.w \in Nat /\ params.r \in Nat
      /\ home \in Seq(Node)
  BY Settings
<1>2. IsFiniteSet(W) /\ IsFiniteSet(R) /\ W \cup R \in SUBSET Home
  BY <1>1, FS_Subset
<1>3. Cardinality(W \cup R) = Cardinality(W) + Cardinality(R) - Cardinality(W \cap R)
  BY <1>2, FS_Union
<1>4. Cardinality(W \cap R) = 0
  BY FS_EmptySet
<1>5. Cardinality(W \cup R) <= Cardinality(Home)
  BY <1>1, <1>2, FS_Subset
<1>6. Cardinality(W) \in Nat /\ Cardinality(R) \in Nat /\ Cardinality(Home) \in Nat /\ Len(home) \in Nat
  BY <1>1, <1>2, FS_CardinalityType, LenProperties
<1> QED
  BY <1>1, <1>3, <1>4, <1>5, <1>6

LEMMA SeesFloor ==
  ASSUME IInv, NEW n \in Node, NEW id, NEW op, ReadRight(n, id, op), ~params.sloppy,
         params.w + params.r > Len(home), NEW l \in Nat, l = Len(op.replies), l >= params.r,
         NEW ts \in Int, \A j \in 1..l : op.replies[j].v.ts <= ts
  PROVE  ts >= op.floor
<1> USE DEF IInv
<1>1. op \in ReadOps /\ op.floor \in Int /\ op.replies \in Seq(Reply)
  BY DEF ReadRight, ReadOps
<1>2. DOMAIN op.replies = 1..l /\ \A j \in 1..l : op.replies[j] \in Reply
  BY <1>1, LenProperties, ElementOfSeq
<1>3. \A j \in 1..l : op.replies[j].from \in Home /\ op.replies[j].v.ts \in Int
                      /\ op.replies[j].v.ts >= -1
  BY <1>2, VersionTypes DEF Reply
<1>4. params.r \in Nat \ {0}
  BY Settings
<1>5. CASE op.floor = -1
  <2>1. 1 \in 1..l
    BY <1>4
  <2> QED
    BY <1>3, <1>5, <2>1
<1>6. CASE op.floor # -1
  <2>1. PICK W \in SUBSET Home : /\ Cardinality(W) >= params.w
                                 /\ \A h \in W : Answers(h, n, id, op, op.floor)
    BY <1>6 DEF ReadRight
  <2>2. PICK R : R = {op.replies[j].from : j \in 1..l}
    OBVIOUS
  <2>3. R \in SUBSET Home
    BY <1>3, <2>2
  <2>4. Cardinality(R) = l
    <3>1. ASSUME NEW f, DOMAIN f = 1..l, R = {f[j] : j \in 1..l},
                 \A i, j \in 1..l : f[i] = f[j] => i = j
          PROVE  Cardinality(R) = l
      <4>1. l \in Nat
        OBVIOUS
      <4> QED
        BY <3>1, <4>1, ManyDifferent, SMTT(60)
    <3> DEFINE f == [j \in 1..l |-> op.replies[j].from]
    <3>2. DOMAIN f = 1..l /\ R = {f[j] : j \in 1..l}
      BY <2>2
    <3>3. \A i, j \in 1..l : f[i] = f[j] => i = j
      BY <1>2 DEF ReadRight
    <3> HIDE DEF f
    <3> QED
      BY <3>1, <3>2, <3>3, Zenon
  <2>5. W \cap R # {}
    BY <2>1, <2>3, <2>4, QuorumsMeet
  <2>6. PICK j \in 1..l : op.replies[j].from \in W
    BY <2>2, <2>5
  <2>7. op.replies[j].v.ts >= op.floor
    BY <1>2, <2>1, <2>6 DEF Answers
  <2> QED
    BY <1>1, <1>3, <2>7
<1> QED
  BY <1>5, <1>6

LEMMA HandleGetReplyKeeps ==
  ASSUME IInv, NEW n \in Node, NEW m \in net, NEW rest \in SUBSET net,
         HandleGetReply(n, m, rest), SameFaults
  PROVE  IInv'
<1> USE DEF IInv
<1> DEFINE id == m.opId
<1> SUFFICES ASSUME NEW old, old = pending[n][id], NEW new, new = [from |-> m.from, v |-> m.v],
                    NEW replies, replies = Append(old.replies, new),
                    NEW op, op = [old EXCEPT !.replies = replies],
                    NEW newest, newest = Newest(op.replies)
             PROVE  IInv'
  OBVIOUS
<1>1. /\ m.msg = "getReply" /\ m.to = n /\ Pending(n, id, "read")
      /\ \A i \in DOMAIN old.replies : old.replies[i].from # m.from
  BY DEF HandleGetReply, Receives, NewAnswer, Among
<1>2. /\ UNCHANGED <<nodeVars, nextOp, now>> /\ now \in Nat /\ params' = params
  BY DEF HandleGetReply, SameFaults, nodeVars, NodesRight
<1>3. id \in DOMAIN pending[n] /\ replies \in Seq(Reply) /\ Longer(replies, old.replies, new)
  <2>1. id \in DOMAIN pending[n] /\ old.replies \in Seq(Reply)
    BY <1>1, OpTypes DEF Pending, ReadRight, ReadOps
  <2>2. new \in Reply
    BY <1>1 DEF NetRight, MessageRight, ReplyRight, Reply
  <2> QED
    BY <2>1, <2>2, AppendLonger
<1>4. ReadRight(n, id, op) /\ SameOp(op, old) /\ Len(op.replies) \in Nat \ {0}
  BY <1>1, <1>3, CountReply
<1>5. op \in ReadOps /\ op.replies \in Seq(Reply) /\ op.key \in Key
  BY <1>4 DEF ReadRight, ReadOps
<1>6. CASE ~Enough(op.replies, params.r)
  <2>1. Continue(n, id, op) /\ net' = rest
    BY <1>6 DEF HandleGetReply
  <2>2. ReadRight(n, id, op)'
    <3>1. /\ Home' = Home /\ params' = params /\ data' = data /\ Reply' = Reply /\ ReadOps' = ReadOps
      BY <1>2 DEF nodeVars, Home, home, Versions, Ops, NoData, Version, Made, Stored, Reply, ReadOps
    <3>2. ASSUME NEW h, Answers(h, n, id, op, op.floor) PROVE Answers(h, n, id, op, op.floor)'
      BY <2>1, <3>1, <3>2 DEF Answers, HasIt
    <3> QED
      BY <1>4, <3>1, <3>2 DEF ReadRight
  <2> QED
    BY <1>2, <1>3, <1>4, <2>1, <2>2, GoesOn
<1>7. CASE Enough(op.replies, params.r)
  <2> SUFFICES ASSUME NEW row, row = ReadRow(n, id, op, newest.ts) PROVE IInv'
    OBVIOUS
  <2>1. /\ End(n, id, row)
        /\ net' = rest \cup {Store(n, op.replies[i].from, NoOp, op.key, newest, NoSlot)
                             : i \in IF newest = NoData THEN {}
                                     ELSE {i \in DOMAIN op.replies : op.replies[i].v.ts < newest.ts}}
    BY <1>7 DEF HandleGetReply
  <2>2. row.node = n /\ row.opId = id /\ row.outcome = "read" /\ row.ts = newest.ts
        /\ row.floor = op.floor
    BY DEF ReadRow
  <2>3. PICK l \in Nat \ {0} : l = Len(op.replies) /\ DOMAIN op.replies = 1..l
    BY <1>4, <1>5, LenProperties
  <2>4. \A i \in 1..l : op.replies[i] \in Reply
    BY <1>5, <2>3, ElementOfSeq
  <2>5. \A i \in 1..l : /\ op.replies[i].from \in Home /\ op.replies[i].v \in Stored
                        /\ op.replies[i].v.ts \in Int /\ op.replies[i].v.ts >= -1
                        /\ op.replies[i].v.ts <= now + 1
    BY <2>4, VersionTypes DEF Reply
  <2>6. PICK i \in 1..l : /\ newest = op.replies[i].v
                          /\ \A j \in 1..l : op.replies[j].v.ts <= newest.ts
    <3>1. PICK i \in 1..l : /\ Newest(op.replies) = op.replies[i].v
                            /\ \A j \in 1..l : op.replies[j].v.ts <= op.replies[i].v.ts
      BY <1>2, <2>3, <2>5, NewestIs
    <3> QED
      BY <3>1
  <2>7. newest \in Stored /\ newest.ts \in Int
    BY <2>5, <2>6
  <2>8. ~params.sloppy /\ params.w + params.r > Len(home) => newest.ts >= op.floor
    <3>1. l >= params.r
      BY <1>7, <2>3 DEF Enough
    <3> QED
      BY <1>4, <2>3, <2>6, <2>7, <3>1, SeesFloor
  <2>9. ASSUME NEW a \in net', a \notin net
        PROVE  MessageRight(a)' /\ a.msg # "getReply"
    <3>1. PICK j \in 1..l : a = Store(n, op.replies[j].from, NoOp, op.key, newest, NoSlot)
      BY <2>1, <2>3, <2>9
    <3>2. newest # NoData
      BY <2>1, <2>9
    <3>3. /\ a.msg = "store" /\ a.from = n /\ a.to = op.replies[j].from /\ a.opId = NoOp
          /\ a.v = newest
      BY <3>1 DEF Store
    <3>4. /\ Home' = Home /\ Versions' = Versions /\ Made' = Made /\ Messages' = Messages
          /\ nextOp' = nextOp /\ Home \subseteq Node
      BY <1>2, Settings DEF nodeVars, Home, home, Versions, Ops, Made, Messages
    <3>5. newest \in Made /\ newest \in Versions /\ op.replies[j].from \in Home
      BY <2>5, <2>7, <3>2, VersionTypes DEF Stored
    <3>6. a \in Messages'
      BY <1>5, <3>1, <3>4, <3>5 DEF Messages, Store
    <3>7. NoOp < nextOp[n] /\ NoOp \notin DOMAIN pending'[n]
      <4>1. nextOp[n] \in Nat \ {0} /\ NoOp \notin DOMAIN pending[n] /\ DOMAIN pending = Node
        BY DEF OpsRight, NoOp
      <4>2. DOMAIN pending'[n] \subseteq DOMAIN pending[n]
        BY <2>1, <4>1 DEF End
      <4> QED
        BY <4>1, <4>2 DEF NoOp
    <3>8. StoreRight(a)'
      BY <3>3, <3>4, <3>5, <3>7 DEF StoreRight, Pending
    <3> QED
      BY <3>3, <3>6, <3>8 DEF MessageRight
  <2> QED
    BY <1>2, <1>3, <2>1, <2>2, <2>8, <2>9, Ends
<1> QED
  BY <1>6, <1>7

-----------------------------------------------------------------------------
(* Timers and faults.                                                      *)

LEMMA HandoffKeeps ==
  ASSUME IInv, NEW n \in Node, Handoff(n)
  PROVE  IInv'
<1> USE DEF IInv
<1>1. /\ params' = params /\ now' = now /\ nextOp' = nextOp /\ pending' = pending
      /\ history' = history /\ opTimers' = opTimers /\ data' = data /\ hints' = hints
      /\ killed' = killed /\ dead' = dead
  BY DEF Handoff, opVars, faultVars
<1>2. /\ Home' = Home /\ Versions' = Versions /\ Made' = Made /\ Stored' = Stored /\ NoData' = NoData
      /\ Messages' = Messages
  BY <1>1 DEF Home, home, Versions, Ops, Made, Stored, NoData, Version, Messages
<1>3. handoffs' \in [Node -> Nat]
  <2>1. handoffs \in [Node -> Nat] /\ handoffs[n] > 0
    BY DEF Handoff, NodesRight
  <2>2. PICK c \in Nat : handoffs' = [handoffs EXCEPT ![n] = c]
    BY <2>1 DEF Handoff
  <2> QED
    BY <2>1, <2>2
<1>4. NodesRight'
  BY <1>1, <1>2, <1>3 DEF NodesRight
<1>5. PendingTimed'
  BY <1>1 DEF PendingTimed
<1>6. ASSUME NEW a \in net', a \notin net
      PROVE  MessageRight(a)' /\ Fresh(a)
  <2>1. PICK x \in hints[n] : a = Store(n, x.slot[1], NoOp, x.slot[2], x.v, x.slot)
    BY <1>6 DEF Handoff
  <2>2. x.slot \in Home \X Key /\ x.slot[1] \in Home /\ x.slot[2] \in Key /\ x.v \in Made
    BY DEF NodesRight
  <2>3. /\ a.msg = "store" /\ a.from = n /\ a.to = x.slot[1] /\ a.opId = NoOp /\ a.v = x.v
    BY <2>1 DEF Store
  <2>4. Home \subseteq Node /\ x.v \in Versions
    BY <2>2, Settings, VersionTypes
  <2>5. a \in Messages'
    BY <1>2, <2>1, <2>2, <2>4 DEF Messages, Store
  <2>6. NoOp < nextOp[n] /\ NoOp \notin DOMAIN pending[n]
    BY DEF OpsRight, NoOp
  <2>7. StoreRight(a)'
    BY <1>1, <1>2, <2>2, <2>3, <2>6 DEF StoreRight, Pending
  <2> QED
    BY <2>3, <2>5, <2>7 DEF MessageRight, Fresh
<1>7. \A b \in Node, k \in Key : data[b][k].ts <= data'[b][k].ts
  BY <1>1, VersionTypes
<1> QED
  BY <1>1, <1>4, <1>5, <1>6, <1>7, Untouched

LEMMA TimeoutEnds ==
  ASSUME IInv, NEW n \in Node, NEW id \in DOMAIN pending[n],
         ReadTimeout(n, id) \/ WriteFails(n, id)
  PROVE  IInv'
<1> SUFFICES ASSUME NEW row, row = FailedRow(n, id, pending[n][id]) PROVE IInv'
  OBVIOUS
<1>1. End(n, id, row) /\ UNCHANGED <<nodeVars, nextOp, now>> /\ net' = net
  BY DEF ReadTimeout, WriteFails, nodeVars, faultVars
<1>2. row.node = n /\ row.opId = id /\ row.outcome = "failed"
  BY DEF FailedRow
<1> QED
  BY <1>1, <1>2, Ends

LEMMA WriteHintsKeeps ==
  ASSUME IInv, NEW n \in Node, NEW id \in DOMAIN pending[n], WriteHints(n, id)
  PROVE  IInv'
<1> USE DEF IInv
<1> SUFFICES ASSUME NEW old, old = pending[n][id], NEW op, op = [old EXCEPT !.hinted = TRUE]
             PROVE  IInv'
  OBVIOUS
<1>1. /\ UNCHANGED <<nodeVars, nextOp, now>> /\ Pending(n, id, "write") /\ params.sloppy
      /\ Continue(n, id, op)
  BY DEF WriteHints, nodeVars, faultVars
<1>2. WriteRight(old) /\ old \in WriteOps /\ old.kind = "write"
  BY <1>1, OpTypes DEF Pending, WriteRight
<1>3. /\ op \in WriteOps /\ op.v = old.v /\ op.key = old.key /\ op.kind = old.kind
      /\ op.acks = old.acks
  BY <1>2 DEF WriteOps
<1>4. WriteRight(op) /\ SameOp(op, old)
  BY <1>2, <1>3 DEF WriteRight, SameOp
<1>5. WriteRight(op)'
  BY <1>1, <1>4, SameWriteRight
<1>6. id \in Ops /\ id < nextOp[n] /\ nextOp' = nextOp
  BY <1>1, OpTypes DEF Ops
<1>7. ASSUME NEW a \in net', a \notin net
      PROVE  MessageRight(a)' /\ a.msg # "getReply"
  <2>1. PICK i \in DOMAIN home, j \in DOMAIN fallbacks :
          a = StoreHint(n, fallbacks[j], id, old.key, old.v, home[i])
    BY <1>7 DEF WriteHints
  <2>2. home[i] \in Home /\ fallbacks[j] \in Node \ Home
    BY Settings
  <2>3. /\ a.msg = "storeHint" /\ a.from = n /\ a.to = fallbacks[j] /\ a.opId = id /\ a.v = old.v
    BY <2>1 DEF StoreHint
  <2>4. /\ Home' = Home /\ Versions' = Versions /\ Made' = Made /\ Messages' = Messages
        /\ params' = params
    BY <1>1 DEF nodeVars, Home, home, Versions, Ops, Made, Messages
  <2>5. old.key \in Key /\ old.v \in Made /\ old.v \in Versions
    BY <1>2 DEF WriteRight, WriteOps
  <2>6. a \in Messages'
    BY <1>6, <2>1, <2>2, <2>4, <2>5 DEF Messages, StoreHint
  <2>7. HintRight(a)'
    BY <1>1, <1>6, <2>2, <2>3, <2>4, <2>5 DEF HintRight
  <2> QED
    BY <2>3, <2>6, <2>7 DEF MessageRight
<1> QED
  BY <1>1, <1>4, <1>5, <1>7, GoesOn

LEMMA TimerLostKeeps ==
  ASSUME IInv, NEW n \in Node, TimerLost(n)
  PROVE  IInv'
<1> USE DEF IInv
<1>1. /\ params' = params /\ now' = now /\ nextOp' = nextOp /\ pending' = pending
      /\ history' = history /\ data' = data /\ hints' = hints /\ net' = net
      /\ killed' = killed /\ dead' = dead
  BY DEF TimerLost, faultVars
<1>2. /\ Home' = Home /\ Made' = Made /\ Stored' = Stored /\ NoData' = NoData
  BY <1>1 DEF Home, home, Versions, Ops, Made, Stored, NoData, Version
<1>3. handoffs' \in [Node -> Nat]
  <2>1. handoffs \in [Node -> Nat]
    BY DEF NodesRight
  <2>2. handoffs' = handoffs \/ (handoffs[n] > 0 /\ handoffs' = [handoffs EXCEPT ![n] = @ - 1])
    BY DEF TimerLost
  <2> QED
    BY <2>1, <2>2
<1>4. NodesRight'
  BY <1>1, <1>2, <1>3 DEF NodesRight
<1>5. /\ opTimers' \subseteq opTimers
      /\ \A b \in Node \ killed : \A id : <<b, id>> \in opTimers => <<b, id>> \in opTimers'
  <2>1. n \in killed
    BY DEF TimerLost, NodesRight
  <2>2. opTimers' = opTimers \/ \E id : opTimers' = opTimers \ {<<n, id>>}
    BY DEF TimerLost
  <2> QED
    BY <2>1, <2>2
<1>6. PendingTimed'
  BY <1>1, <1>5 DEF PendingTimed
<1>7. \A b \in Node, k \in Key : data[b][k].ts <= data'[b][k].ts
  BY <1>1, VersionTypes
<1> QED
  BY <1>1, <1>4, <1>5, <1>6, <1>7, Untouched

LEMMA FaultsKeep ==
  ASSUME IInv, NEW n \in Node, Kill(n) \/ Revive(n)
  PROVE  IInv'
<1> USE DEF IInv
<1>1. /\ params' = params /\ now' = now /\ nextOp' = nextOp /\ pending' = pending
      /\ history' = history /\ opTimers' = opTimers /\ data' = data /\ hints' = hints
      /\ net' = net /\ handoffs' = handoffs
  BY DEF Kill, Revive, opVars
<1>2. /\ Home' = Home /\ Made' = Made /\ Stored' = Stored /\ NoData' = NoData
  BY <1>1 DEF Home, home, Versions, Ops, Made, Stored, NoData, Version
<1>3. killed \subseteq killed' /\ killed' \subseteq Node /\ dead' \subseteq killed'
  BY DEF Kill, Revive, NodesRight
<1>4. NodesRight'
  BY <1>1, <1>2, <1>3 DEF NodesRight
<1>5. PendingTimed'
  BY <1>1, <1>3 DEF PendingTimed
<1>6. \A b \in Node, k \in Key : data[b][k].ts <= data'[b][k].ts
  BY <1>1, VersionTypes
<1> QED
  BY <1>1, <1>4, <1>5, <1>6, Untouched
-----------------------------------------------------------------------------
(* The invariant holds at first, and every step keeps it.                  *)

LEMMA InitIInv == Init => IInv
<1> SUFFICES ASSUME Init PROVE IInv
  OBVIOUS
<1>1. NodesRight
  <2>1. params \in Params /\ now \in Nat /\ killed \subseteq Node /\ dead \subseteq killed
    BY DEF Init
  <2>2. data \in [Node -> [Key -> Stored]] /\ \A n \in Node, k \in Key : data[n][k] = NoData
    BY DEF Init, Stored
  <2>3. /\ hints \in [Node -> SUBSET [slot : Home \X Key, v : Made]] /\ \A n \in Node : hints[n] = {}
        /\ handoffs \in [Node -> Nat]
    BY DEF Init
  <2>4. Home \subseteq Node
    <3>1. params.home \in Seq(Node)
      BY <2>1, ParamsAssumption
    <3>2. \A i \in DOMAIN params.home : params.home[i] \in Node
      BY <3>1, LenProperties
    <3> QED
      BY <3>2 DEF Home, home, Range
  <2> QED
    BY <2>1, <2>2, <2>3, <2>4 DEF NodesRight
<1>2. OpsRight
  <2>1. \A n \in Node : pending[n] = NoOps /\ DOMAIN pending[n] = {}
    BY DEF Init, NoOps
  <2>2. nextOp \in [Node -> Nat \ {0}] /\ DOMAIN pending = Node /\ opTimers = {}
    BY DEF Init
  <2> QED
    BY <2>1, <2>2 DEF OpsRight
<1>3. NetRight /\ HistoryRight
  BY DEF Init, NetRight, HistoryRight
<1>4. PendingTimed
  BY DEF Init, NoOps, PendingTimed
<1> QED
  BY <1>1, <1>2, <1>3, <1>4 DEF IInv

LEMMA DeliverKeeps ==
  ASSUME IInv, NEW n \in Node, NEW m \in net, Deliver(n, m)
  PROVE  IInv'
<1>1. SameFaults
  BY DEF Deliver, SameFaults
<1>2. PICK rest \in SUBSET net : Handle(n, m, rest)
  BY DEF Deliver
<1> QED
  BY <1>1, <1>2, HandleStoreKeeps, HandleStoreHintKeeps, HandleHandoffAckKeeps,
     HandleStoreAckKeeps, HandleGetKeeps, HandleGetReplyKeeps DEF Handle

LEMMA NextIInv == IInv /\ [Next]_vars => IInv'
<1> SUFFICES ASSUME IInv, [Next]_vars PROVE IInv'
  OBVIOUS
<1>1. CASE UNCHANGED vars
  <2>1. UNCHANGED <<params, data, hints, handoffs, pending, nextOp, opTimers, history, now, net,
                    dead, killed>>
    BY <1>1 DEF vars, opVars, faultVars
  <2>2. NodesRight' /\ PendingTimed'
    BY <2>1, NodesSame DEF IInv, nodeVars, PendingTimed, NodesRight
  <2>3. \A b \in Node, k \in Key : data[b][k].ts <= data'[b][k].ts
    BY <2>1, VersionTypes DEF IInv
  <2> QED
    BY <2>1, <2>2, <2>3, Untouched
<1>2. CASE Next
  <2>1. PICK n \in Node :
          \/ \E k \in Key : ClientWrite(n, k) \/ ClientRead(n, k)
          \/ \E m \in net : Deliver(n, m)
          \/ \E id \in DOMAIN pending[n] : OpTimeout(n, id)
          \/ Handoff(n) \/ TimerLost(n) \/ Kill(n) \/ Revive(n)
    BY <1>2 DEF Next
  <2>2. CASE \E k \in Key : ClientWrite(n, k) \/ ClientRead(n, k)
    BY <2>2, ClientWriteKeeps, ClientReadKeeps
  <2>3. CASE \E m \in net : Deliver(n, m)
    BY <2>3, DeliverKeeps
  <2>4. CASE \E id \in DOMAIN pending[n] : OpTimeout(n, id)
    BY <2>4, TimeoutEnds, WriteHintsKeeps DEF OpTimeout
  <2>5. CASE Handoff(n) \/ TimerLost(n) \/ Kill(n) \/ Revive(n)
    BY <2>5, HandoffKeeps, TimerLostKeeps, FaultsKeep
  <2> QED
    BY <2>1, <2>2, <2>3, <2>4, <2>5
<1> QED
  BY <1>1, <1>2

-----------------------------------------------------------------------------
(* The theorems.                                                           *)

THEOREM Invariant == Spec => []IInv
BY InitIInv, NextIInv, PTL DEF Spec

(* Whatever the settings, the network and the faults: versions are         *)
(* positive and come from a client's write, only home replicas store data  *)
(* and only fallbacks hold hints, one to a slot.                           *)
THEOREM LeaderlessTypes == Spec => []TypeOK
<1>1. IInv => TypeOK
  <2> SUFFICES ASSUME IInv PROVE TypeOK
    OBVIOUS
  <2> USE DEF IInv
  <2>1. \A n \in Node : \A k \in Key : data[n][k] = NoData \/ (n \in Home /\ data[n][k] \in Versions)
    BY VersionTypes DEF NodesRight, Stored
  <2>2. \A n \in Node : \A x, y \in hints[n] :
          /\ n \notin Home /\ x.slot \in Home \X Key /\ x.v \in Versions
          /\ x.slot = y.slot => x = y
    <3> SUFFICES ASSUME NEW n \in Node, NEW x \in hints[n], NEW y \in hints[n]
                 PROVE  /\ n \notin Home /\ x.slot \in Home \X Key /\ x.v \in Versions
                        /\ x.slot = y.slot => x = y
      OBVIOUS
    <3>1. n \notin Home /\ x \in [slot : Home \X Key, v : Made]
      BY DEF NodesRight
    <3> QED
      BY <3>1, VersionTypes DEF NodesRight
  <2>3. \A n \in Node : handoffs[n] \in Nat /\ DOMAIN pending[n] \subseteq 1..(nextOp[n] - 1)
    BY DEF NodesRight, OpsRight
  <2>4. \A t \in opTimers : t[2] \in DOMAIN pending[t[1]]
    BY DEF OpsRight
  <2>5. net \subseteq Messages /\ dead \subseteq Node
    BY DEF NetRight, MessageRight, NodesRight
  <2> QED
    BY <2>1, <2>2, <2>3, <2>4, <2>5 DEF TypeOK
<1> QED
  BY <1>1, Invariant, PTL

(* Without hints a write that was acked to its client is from then on at   *)
(* w home replicas, itself or a newer one, whatever is delivered late or   *)
(* twice and whoever dies: HandleStoreAck counts each replica once.        *)
THEOREM AcksCorrect == Spec => []AckedOnQuorum
<1>1. IInv => AckedOnQuorum
  <2> SUFFICES ASSUME IInv, ~params.sloppy, NEW e \in history, e.outcome = "ack"
               PROVE  Cardinality({h \in Home : data[h][e.key].ts >= e.ts}) >= params.w
    BY DEF AckedOnQuorum
  <2>1. OnQuorum(e.key, e.ts)
    BY DEF IInv, HistoryRight, RowRight
  <2>2. {h \in Home : HasIt(h, e.key, e.ts)} = {h \in Home : data[h][e.key].ts >= e.ts}
    BY DEF HasIt
  <2> QED
    BY <2>1, <2>2 DEF OnQuorum
<1> QED
  BY <1>1, Invariant, PTL

(* Without hints, and with w + r > n, a read returns every write that was  *)
(* acked before it began, or a newer one: a quorum that has it and one     *)
(* that answers meet in a replica, and its answer is counted.              *)
THEOREM ReadsCorrect == Spec => []ReadsSeeAcked
<1>1. IInv => ReadsSeeAcked
  BY DEF IInv, HistoryRight, RowRight, ReadsSeeAcked
<1> QED
  BY <1>1, Invariant, PTL

(* Every operation ends at most once, and one that is still pending at a   *)
(* coordinator that never died has a timeout to come.                      *)
THEOREM OperationsCorrect == Spec => []OperationsEnd
<1>1. IInv => OperationsEnd
  BY DEF IInv, HistoryRight, RowRight, OperationsEnd, EndsOnce
<1> QED
  BY <1>1, Invariant, PTL

(* Kills come one by one, so finitely many nodes are dead at a time.       *)
FewDead == IsFiniteSet(dead)

LEMMA FewDie == FewDead /\ [Next]_vars => FewDead'
<1> SUFFICES ASSUME FewDead, [Next]_vars PROVE FewDead'
  OBVIOUS
<1> USE DEF FewDead
<1>1. CASE \E n \in Node : Kill(n)
  <2>1. PICK n \in Node : dead' = dead \cup {n}
    BY <1>1 DEF Kill
  <2> QED
    BY <2>1, FS_AddElement
<1>2. CASE \E n \in Node : Revive(n)
  <2>1. PICK n \in Node : dead' = dead \ {n}
    BY <1>2 DEF Revive
  <2> QED
    BY <2>1, FS_RemoveElement
<1>3. CASE \E n \in Node : \/ \E k \in Key : ClientWrite(n, k) \/ ClientRead(n, k)
                           \/ \E m \in net : Deliver(n, m)
                           \/ \E id \in DOMAIN pending[n] : OpTimeout(n, id)
                           \/ Handoff(n) \/ TimerLost(n)
  <2>1. PICK n \in Node : \/ \E k \in Key : ClientWrite(n, k) \/ ClientRead(n, k)
                          \/ \E m \in net : Deliver(n, m)
                          \/ \E id \in DOMAIN pending[n] : OpTimeout(n, id)
                          \/ Handoff(n) \/ TimerLost(n)
    BY <1>3
  <2>2. \A k \in Key : ClientWrite(n, k) => dead' = dead
    BY DEF ClientWrite, faultVars
  <2>3. \A k \in Key : ClientRead(n, k) => dead' = dead
    BY DEF ClientRead, faultVars
  <2>4. \A m : Deliver(n, m) => dead' = dead
    BY DEF Deliver
  <2>5. \A id : OpTimeout(n, id) => dead' = dead
    BY DEF OpTimeout, ReadTimeout, WriteFails, WriteHints, faultVars
  <2>6. Handoff(n) \/ TimerLost(n) => dead' = dead
    BY DEF Handoff, TimerLost, faultVars
  <2>7. dead' = dead
    BY <2>1, <2>2, <2>3, <2>4, <2>5, <2>6
  <2> QED
    BY <2>7
<1>4. CASE UNCHANGED vars
  BY <1>4 DEF vars, faultVars
<1> QED
  BY <1>1, <1>2, <1>3, <1>4 DEF Next

AliveUnhinted == ~params.sloppy => AckedAlive

(* Without hints fewer dead nodes than a write waits for hide no acked     *)
(* write: one of its quorum is alive.  With hints this is not so, even     *)
(* with every node alive (HandleHandoffAck, leaderless.ts:175).            *)
THEOREM AckedStaysAlive == Spec => [](~params.sloppy => AckedAlive)
<1>1. Init => FewDead
  BY FS_EmptySet DEF Init, FewDead
<1>2. IInv /\ FewDead => AliveUnhinted
  <2> SUFFICES ASSUME IInv, IsFiniteSet(dead), ~params.sloppy, Cardinality(dead) < params.w,
                      NEW e \in history, e.outcome = "ack"
               PROVE  \E n \in Node \ dead : data[n][e.key].ts >= e.ts
    BY DEF AckedAlive, AliveUnhinted, FewDead
  <2> DEFINE H == {h \in Home : HasIt(h, e.key, e.ts)}
  <2>1. Cardinality(H) >= params.w
    BY DEF IInv, HistoryRight, RowRight, OnQuorum
  <2>2. params.w \in Nat /\ Home \subseteq Node
    BY Settings DEF IInv, NodesRight
  <2>3. ~(H \subseteq dead)
    <3> SUFFICES ASSUME H \subseteq dead PROVE FALSE
      OBVIOUS
    <3>1. IsFiniteSet(H) /\ Cardinality(H) <= Cardinality(dead)
      BY FS_Subset
    <3>2. Cardinality(H) \in Nat /\ Cardinality(dead) \in Nat
      BY <3>1, FS_CardinalityType
    <3> HIDE DEF H
    <3> QED
      BY <2>1, <2>2, <3>1, <3>2
  <2>4. PICK h \in Home : HasIt(h, e.key, e.ts) /\ h \notin dead
    BY <2>3
  <2> QED
    BY <2>2, <2>4 DEF HasIt
<1> QED
  <2>1. Spec => []AliveUnhinted
    BY <1>1, <1>2, FewDie, Invariant, PTL DEF Spec
  <2> QED
    BY <2>1 DEF AliveUnhinted
=============================================================================
