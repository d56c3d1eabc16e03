-------------------------------- MODULE Txn ---------------------------------
(***************************************************************************)
(* The transaction engine of the chapter 7 lab, src/src/modules/txn.ts:    *)
(* one node, whose id is its isolation level, interprets the steps of a    *)
(* schedule of two transactions.                                           *)
(*                                                                         *)
(* A reducer without effects: `state' is the node's, and the operators     *)
(* below take it and give it back changed, as the functions of the code.   *)
(* The clock ticks on begin and commit only.  A schedule is well formed:   *)
(* a begin, some reads, writes and checks, an end, once per transaction.   *)
(***************************************************************************)
EXTENDS Integers, Sequences, FiniteSets, SequencesExt

CONSTANTS
  TxnId,      \* T1 and T2
  Body,       \* the operations a schedule may have between begin and end
  MaxBody,    \* bound: how many of them a transaction has
  OpKeys      \* the keys, in the order an ensure reads them

VARIABLES
  state,      \* of the node
  hist        \* history: per transaction, the steps given to the node

vars == <<state, hist>>

Pending == -1    \* the stamp of a version that is not committed
Seed    == 0     \* the writer of the versions that are there at first

Key     == Range(OpKeys)
Levels  == {"RU", "RC", "SI", "SER"}
Ended   == {"committed", "aborted"}
Other(t) == CHOOSE u \in TxnId : u # t

FreshTxn == [status |-> "idle", beganAt |-> 0, endedAt |-> 0, snapshotAt |-> 0,
             reads |-> <<>>, writes |-> {}]

Fresh(level) ==
  [level     |-> level,
   store     |-> [k \in Key |-> <<[value |-> 1, txn |-> Seed, at |-> 0]>>],
   txns      |-> [t \in TxnId |-> FreshTxn],
   queue     |-> <<>>, activeSer |-> Seed, anomalies |-> {}, clock |-> 0]

Init ==
  /\ state \in {Fresh(level) : level \in Levels}
  /\ hist = [t \in TxnId |-> <<>>]

-----------------------------------------------------------------------------
(* Reads and writes.                                                       *)

(* The same without the bound of the snapshot. *)
VisibleAtAnyTime(s, reader, v) ==
  \/ v.txn = reader /\ v.at = Pending
  \/ s.level = "RU"
  \/ v.at # Pending

Visible(s, reader, v) ==
  \/ v.txn = reader /\ v.at = Pending
  \/ s.level = "RU"
  \/ v.at # Pending /\ (s.level = "SI" => v.at <= s.txns[reader].snapshotAt)

(* The newest of the chain, as appended, that the reader may see. *)
PickVersion(s, reader, key) ==
  LET seen == {i \in DOMAIN s.store[key] : Visible(s, reader, s.store[key][i])}
  IN s.store[key][CHOOSE i \in seen : \A j \in seen : j <= i]

DoRead(s, t, key) ==
  LET v == PickVersion(s, t, key)
      dirty == v.at = Pending /\ v.txn # t
  IN [s EXCEPT
       !.txns[t].reads = Append(@, [key |-> key, value |-> v.value, at |-> v.at, from |-> v.txn]),
       !.anomalies = IF dirty THEN @ \cup {"dirty-read"} ELSE @]

LastReads(s, t, key) == SelectSeq(s.txns[t].reads, LAMBDA r : r.key = key)

(* A write of a number, or of what was last read plus `inc': an increment  *)
(* of a key not read yet reads it first.                                   *)
DoWrite(s, t, op) ==
  LET blind == op.op = "inc" /\ LastReads(s, t, op.key) = <<>>
      read  == IF blind THEN DoRead(s, t, op.key) ELSE s
      value == IF op.op = "inc" THEN Last(LastReads(read, t, op.key)).value + op.value
               ELSE op.value
  IN [read EXCEPT
       !.store[op.key] = Append(@, [value |-> value, txn |-> t, at |-> Pending]),
       !.txns[t].writes = @ \cup {op.key}]

-----------------------------------------------------------------------------
(* Ends.                                                                   *)

DropUncommitted(s, t) ==
  [s EXCEPT !.store = [k \in Key |->
     SelectSeq(s.store[k], LAMBDA v : ~(v.txn = t /\ v.at = Pending))]]

DoAbort(s, t) ==
  [DropUncommitted(s, t) EXCEPT !.txns[t].status = "aborted", !.txns[t].endedAt = s.clock]

(* Reads all the keys and aborts unless their sum reaches the bound. *)
DoEnsure(s, t, op) ==
  LET read == FoldLeft(LAMBDA x, k : DoRead(x, t, k), s, OpKeys)
      now  == SubSeq(read.txns[t].reads, Len(s.txns[t].reads) + 1, Len(read.txns[t].reads))
      sum  == FoldLeft(LAMBDA x, r : x + r.value, 0, now)
  IN IF sum < op.atLeast THEN DoAbort(read, t) ELSE read

(* The stamps of what others have committed to a key. *)
ForeignStamps(s, t, key) ==
  {v.at : v \in {x \in Range(s.store[key]) : x.txn # t /\ x.at # Pending}}

(* A key written whose last foreign read is older than a commit of another.*)
LostUpdate(s, t) ==
  \E key \in s.txns[t].writes :
    LET foreign == SelectSeq(s.txns[t].reads, LAMBDA r : r.key = key /\ r.from # t)
    IN /\ foreign # <<>>
       /\ \E at \in ForeignStamps(s, t, key) : at > Last(foreign).at /\ at < s.clock

Reads(s, t) == {r.key : r \in Range(s.txns[t].reads)}

WriteSkew(s, me) ==
  LET a == s.txns[me]
      b == s.txns[Other(me)]
  IN /\ b.status = "committed"
     /\ a.writes # {} /\ b.writes # {} /\ a.writes \cap b.writes = {}
     /\ a.beganAt < b.endedAt /\ b.beganAt < a.endedAt
     /\ Reads(s, me) \cap b.writes # {} /\ Reads(s, Other(me)) \cap a.writes # {}

Stamped(s, t) ==
  [k \in Key |-> [i \in DOMAIN s.store[k] |->
     LET v == s.store[k][i]
     IN IF v.txn = t /\ v.at = Pending THEN [v EXCEPT !.at = s.clock] ELSE v]]

Detect(s, t) ==
  [s EXCEPT !.anomalies = @ \cup (IF LostUpdate(s, t) THEN {"lost-update"} ELSE {})
                            \cup (IF WriteSkew(s, t) THEN {"write-skew"} ELSE {})]

(* First committer wins, under SI. *)
Conflict(s, t) ==
  /\ s.level = "SI"
  /\ \E key \in s.txns[t].writes :
       \E at \in ForeignStamps(s, t, key) : at > s.txns[t].snapshotAt

DoCommit(s, t) ==
  IF Conflict(s, t) THEN DoAbort(s, t)
  ELSE LET ticked == [s EXCEPT !.clock = @ + 1]
       IN Detect([ticked EXCEPT !.store = Stamped(ticked, t),
                                !.txns[t].status = "committed",
                                !.txns[t].endedAt = ticked.clock], t)

-----------------------------------------------------------------------------
(* Steps.                                                                  *)

DoBegin(s, t) ==
  [s EXCEPT !.clock = @ + 1,
            !.txns[t].status = "active", !.txns[t].beganAt = s.clock + 1,
            !.txns[t].snapshotAt = IF s.level = "SI" THEN s.clock + 1 ELSE @,
            !.activeSer = IF s.level = "SER" THEN t ELSE @]

Perform(s, t, op) ==
  CASE op.op = "begin"            -> DoBegin(s, t)
    [] op.op = "read"             -> DoRead(s, t, op.key)
    [] op.op \in {"write", "inc"} -> DoWrite(s, t, op)
    [] op.op = "ensure"           -> DoEnsure(s, t, op)
    [] op.op = "commit"           -> DoCommit(s, t)
    [] op.op = "abort"            -> DoAbort(s, t)

Apply(s, t, op) ==
  LET done == Perform(s, t, op)
  IN IF done.activeSer = t /\ done.txns[t].status \in Ended
     THEN [done EXCEPT !.activeSer = Seed] ELSE done

(* One round of the loop of drainQueue: nothing while the head is blocked. *)
DrainHead(s) ==
  LET head == Head(s.queue)
      rest == [s EXCEPT !.queue = Tail(@)]
  IN IF s.txns[head.txn].status \in Ended THEN rest
     ELSE IF s.activeSer \notin {Seed, head.txn} THEN s
     ELSE Apply(rest, head.txn, head.op)

DrainQueue(s) == FoldLeft(LAMBDA x, i : DrainHead(x), s, s.queue)

RunStep(s, t, op) ==
  LET admissible == s.activeSer = t \/ (s.activeSer = Seed /\ op.op = "begin")
  IN CASE s.txns[t].status \in Ended -> s
       [] s.level # "SER"            -> Apply(s, t, op)
       [] s.level = "SER" /\ admissible -> DrainQueue(Apply(s, t, op))
       [] OTHER ->
            [s EXCEPT !.queue = Append(@, [txn |-> t, op |-> op]),
                      !.txns[t].status = IF @ = "idle" THEN "waiting" ELSE @]

Given(t)   == {hist[t][i].op : i \in DOMAIN hist[t]}
Over(t)    == Given(t) \cap {"commit", "abort"} # {}
Op(name)   == [op |-> name]

Step(t, op) ==
  /\ state' = RunStep(state, t, op)
  /\ hist' = [hist EXCEPT ![t] = Append(@, op)]

BeginStep(t) == hist[t] = <<>> /\ Step(t, Op("begin"))

BodyStep(t) ==
  /\ hist[t] # <<>> /\ ~Over(t) /\ Len(hist[t]) <= MaxBody
  /\ \E op \in Body : Step(t, op)

EndStep(t) ==
  /\ hist[t] # <<>> /\ ~Over(t)
  /\ \E end \in {"commit", "abort"} : Step(t, Op(end))

Next == \E t \in TxnId : BeginStep(t) \/ BodyStep(t) \/ EndStep(t)

Spec == Init /\ [][Next]_vars

-----------------------------------------------------------------------------
(* Properties.                                                             *)

(* Latest committed value: the newest commit wins, and the last of equals. *)
CommittedValue(s, key) ==
  LET c    == {i \in DOMAIN s.store[key] : s.store[key][i].at # Pending}
      at(i) == s.store[key][i].at
      best == CHOOSE i \in c : \A j \in c : at(j) < at(i) \/ (at(j) = at(i) /\ j <= i)
  IN s.store[key][best].value

(* Every transaction is where its steps put it, and stamps are in the past.*)
TypeOK ==
  /\ state.level \in Levels /\ state.activeSer \in TxnId \cup {Seed}
  /\ state.anomalies \subseteq {"dirty-read", "lost-update", "write-skew"}
  /\ \A t \in TxnId : state.txns[t].status \in {"idle", "active", "waiting"} \cup Ended
  /\ \A k \in Key : \A i \in DOMAIN state.store[k] :
       state.store[k][i].at \in {Pending} \cup 0..state.clock

(* What the transactions do when one runs after the other, on its own:     *)
(* the level does not matter then.                                         *)
Run(s, t) == FoldLeft(LAMBDA x, op : Apply(x, t, op), s, hist[t])

ReadValues(s, t) == [i \in DOMAIN s.txns[t].reads |-> s.txns[t].reads[i].value]

(* Running `order' one by one gives the values read and the final ones.    *)
Explains(order, committed) ==
  LET alone == FoldLeft(Run, Fresh("RC"), order)
  IN /\ \A k \in Key : CommittedValue(alone, k) = CommittedValue(state, k)
     /\ \A t \in committed : ReadValues(alone, t) = ReadValues(state, t)

Serializable ==
  LET committed == {t \in TxnId : state.txns[t].status = "committed"}
  IN \E order \in SetToSeqs(committed) : Explains(order, committed)

AllOver == \A t \in TxnId : Over(t)

(* Under SI the lab's flag is exact: the outcome of a whole schedule is    *)
(* that of some serial order exactly when nothing was flagged; what is     *)
(* flagged is a write skew, as the first committer wins.  SER flags        *)
(* nothing and is serial.  (txn.ts: the conflict check of doCommit, the    *)
(* snapshot rule of pickVersion, detectLostUpdate and detectWriteSkew.)    *)
FlagsExact ==
  AllOver /\ state.level \in {"SI", "SER"} =>
    /\ state.anomalies \subseteq {"write-skew"}
    /\ state.anomalies = {} <=> Serializable
    /\ state.level = "SER" => state.anomalies = {}

(* SER parks the steps of the second transaction and runs them when the    *)
(* first ends: once both ends are given, by commit, abort or failed check, *)
(* nothing is parked, nobody holds the engine and both have ended.         *)
QueueDrains ==
  AllOver => /\ state.queue = <<>> /\ state.activeSer = Seed
             /\ \A t \in TxnId : state.txns[t].status \in Ended

(* What txn.ts:110 says of every level: a transaction reads its own        *)
(* uncommitted write.                                                      *)
OwnWritesVisible ==
  \A t \in TxnId, k \in Key :
    LET own == {i \in DOMAIN state.store[k] :
                  state.store[k][i].txn = t /\ state.store[k][i].at = Pending}
    IN own # {} => PickVersion(state, t, k).txn = t
=============================================================================
