-------------------------------- MODULE Lsm ---------------------------------
(***************************************************************************)
(* The log-structured engine of the chapter 3 lab, src/src/modules/lsm.ts: *)
(* a memtable, sorted runs, a write-ahead log, and the faults the lab      *)
(* injects.  A flush and a compaction are requested by one event and done  *)
(* by a timer later; what comes between is the interest.                   *)
(*                                                                         *)
(* A sorted array of entries is a function from its keys to their values;  *)
(* keys are ordered as numbers.  The value of a put is its number, so that *)
(* every write is told from the others.  Counters of costs are left out.   *)
(***************************************************************************)
EXTENDS Integers, Sequences, FiniteSets

CONSTANTS
  Key,            \* a set of numbers
  Hashes,         \* per key, the bits it sets in a Bloom filter
  MemtableCap, L0Trigger,
  Within(_)       \* bound: the writes and faults of a behaviour

VARIABLES
  state,          \* of the node
  net,            \* how many timers of each kind are queued
  hist            \* history: what was acknowledged, and what was used

vars == <<state, net, hist>>

Tombstone == 0
Faults    == {"crash-mid-write", "torn-write", "disk-full", "recover"}
Timers    == {"flush-phase2", "compact"}
NoEntries == [k \in {} |-> Tombstone]

Init ==
  /\ state = [memtable |-> NoEntries, wal |-> <<>>, sstables |-> <<>>,
              phase |-> "idle", diskFull |-> FALSE]
  /\ net = [t \in Timers |-> 0]
  /\ hist = [latest |-> [k \in Key |-> Tombstone], writes |-> 0,
             faults |-> [f \in Faults |-> 0], tornMerged |-> FALSE]

BuildBloom(entries) == UNION {Hashes[k] : k \in DOMAIN entries}
MightContain(table, key) == Hashes[key] \subseteq table.bloom

ToTable(level, entries) ==
  [level |-> level, entries |-> entries, bloom |-> BuildBloom(entries), torn |-> FALSE]

(* Entries written over others. *)
Upsert(entries, newer) ==
  [k \in DOMAIN entries \cup DOMAIN newer |->
     IF k \in DOMAIN newer THEN newer[k] ELSE entries[k]]

(* Of some places in a sequence, the last. *)
Newest(places) == CHOOSE i \in places : \A j \in places : j <= i

(* A log replayed from the start: of the records of a key, the last counts. *)
Records(wal, key) == {i \in DOMAIN wal : wal[i].key = key}
Replayed(wal) ==
  [k \in {wal[i].key : i \in DOMAIN wal} |-> wal[Newest(Records(wal, k))].val]

-----------------------------------------------------------------------------
(* Point read: the memtable, then the runs from the newest whose filter    *)
(* does not rule the key out.                                              *)
Holders(s, key) == {i \in DOMAIN s.sstables : key \in DOMAIN s.sstables[i].entries}

LsmGet(s, key) ==
  LET hits == {i \in Holders(s, key) : MightContain(s.sstables[i], key)}
  IN CASE key \in DOMAIN s.memtable -> s.memtable[key]
       [] key \notin DOMAIN s.memtable /\ hits # {} -> s.sstables[Newest(hits)].entries[key]
       [] OTHER -> Tombstone

-----------------------------------------------------------------------------
(* Writes, flush and compaction.                                           *)

Write(key, val) ==
  /\ Within([hist EXCEPT !.writes = @ + 1])
  /\ LET written == [state EXCEPT !.wal = Append(@, [key |-> key, val |-> val]),
                                  !.memtable = Upsert(@, [k \in {key} |-> val])]
         flush == state.phase = "idle" /\ Cardinality(DOMAIN written.memtable) > MemtableCap
     IN /\ state' = IF flush THEN [written EXCEPT !.phase = "flushing"] ELSE written
        /\ net' = IF flush THEN [net EXCEPT !["flush-phase2"] = @ + 1] ELSE net
  /\ hist' = [hist EXCEPT !.writes = @ + 1, !.latest[key] = val]

Put == \E key \in Key : Write(key, hist.writes + 1)
Delete == \E key \in Key : Write(key, Tombstone)

(* The whole log goes with the flush. *)
FlushedClearingWal(s) ==
  [s EXCEPT !.sstables = IF DOMAIN s.memtable = {} THEN @ ELSE Append(@, ToTable(0, s.memtable)),
            !.memtable = NoEntries, !.wal = <<>>, !.phase = "idle"]

(* A log without the records of some keys. *)
Kept(wal, keys) ==
  LET upto[n \in 0..Len(wal)] ==
        IF n = 0 THEN <<>>
        ELSE IF wal[n].key \in keys THEN upto[n - 1] ELSE Append(upto[n - 1], wal[n])
  IN upto[Len(wal)]

(* The records of the keys flushed leave the log, and no other.            *)
Flushed(s) ==
  [s EXCEPT !.sstables = IF DOMAIN s.memtable = {} THEN @ ELSE Append(@, ToTable(0, s.memtable)),
            !.memtable = NoEntries,
            !.wal = Kept(@, DOMAIN s.memtable),
            !.phase = "idle"]

L0(s) == {i \in DOMAIN s.sstables : s.sstables[i].level = 0}

FlushPhase2 ==
  /\ net["flush-phase2"] > 0
  /\ LET s == Flushed(state)
         full == Cardinality(L0(s)) >= L0Trigger
         fired == [net EXCEPT !["flush-phase2"] = @ - 1]
     IN /\ state' = IF full THEN [s EXCEPT !.phase = "compacting"] ELSE s
        /\ net' = IF full THEN [fired EXCEPT !["compact"] = @ + 1] ELSE fired
  /\ UNCHANGED hist

(* All runs in one: of the entries of a key that in the newest run of      *)
(* level 0 counts, or else that in the newest run.                         *)
Merged(s) ==
  [k \in UNION {DOMAIN s.sstables[i].entries : i \in DOMAIN s.sstables} |->
     LET upper == Holders(s, k) \cap L0(s)
     IN s.sstables[Newest(IF upper # {} THEN upper ELSE Holders(s, k))].entries[k]]

(* Without tombstones: there is nothing below.                             *)
Compacted(s) ==
  LET merged == Merged(s)
      live == {k \in DOMAIN merged : merged[k] # Tombstone}
  IN IF s.diskFull \/ L0(s) = {} THEN [s EXCEPT !.phase = "idle"]
     ELSE [s EXCEPT !.sstables = <<ToTable(1, [k \in live |-> merged[k]])>>, !.phase = "idle"]

Compact ==
  /\ net["compact"] > 0
  /\ state' = Compacted(state)
  /\ net' = [net EXCEPT !["compact"] = @ - 1]
  /\ hist' = [hist EXCEPT !.tornMerged = @ \/
       /\ state'.sstables # state.sstables
       /\ \E i \in DOMAIN state.sstables : state.sstables[i].torn]

-----------------------------------------------------------------------------
(* Faults.                                                                 *)

(* The memtable is lost and the log replayed. *)
Crashed(s) == [s EXCEPT !.memtable = Replayed(s.wal), !.phase = "idle"]

(* A sorted run without its last entry. *)
LastKey(entries) == CHOOSE k \in DOMAIN entries : \A j \in DOMAIN entries : j <= k
Torn(table) ==
  LET last == LastKey(table.entries)
  IN [table EXCEPT !.entries = [k \in DOMAIN @ \ {last} |-> @[k]], !.torn = TRUE]

(* With no run on disk the flush of the memtable is torn, the log kept.    *)
TornFlush(s) ==
  IF DOMAIN s.memtable = {} THEN s
  ELSE LET kept == Torn(ToTable(0, s.memtable)).entries
       IN [s EXCEPT !.memtable = NoEntries,
                    !.sstables = <<[ToTable(0, kept) EXCEPT !.torn = TRUE]>>]

(* The newest run is torn; what it drops is journalled again, before all   *)
(* that the log holds, for it is older.                                    *)
TornRun(s) ==
  LET n == Len(s.sstables)
      target == s.sstables[n]
  IN IF DOMAIN target.entries = {} THEN [s EXCEPT !.sstables[n].torn = TRUE]
     ELSE LET last == LastKey(target.entries)
              dropped == [key |-> last, val |-> target.entries[last]]
          IN [s EXCEPT !.sstables[n] = Torn(target), !.wal = <<dropped>> \o @]

(* Torn runs take what the log holds; the disk has room again.             *)
Recovered(s) ==
  [s EXCEPT !.diskFull = FALSE,
            !.sstables = [i \in DOMAIN @ |->
               IF @[i].torn THEN ToTable(@[i].level, Upsert(@[i].entries, Replayed(s.wal))) ELSE @[i]]]

AfterFault(s, f) ==
  CASE f = "crash-mid-write" -> Crashed(s)
    [] f = "disk-full"       -> [s EXCEPT !.diskFull = TRUE]
    [] f = "torn-write"      -> IF s.sstables = <<>> THEN TornFlush(s) ELSE TornRun(s)
    [] f = "recover"         -> Recovered(s)

Fault(f) ==
  /\ Within([hist EXCEPT !.faults[f] = @ + 1])
  /\ state' = AfterFault(state, f)
  /\ hist' = [hist EXCEPT !.faults[f] = @ + 1]
  /\ UNCHANGED net

Next == Put \/ Delete \/ FlushPhase2 \/ Compact \/ \E f \in Faults : Fault(f)

Spec == Init /\ [][Next]_vars

-----------------------------------------------------------------------------
(* Properties.                                                             *)

TypeOK ==
  /\ DOMAIN state.memtable \subseteq Key
  /\ state.phase \in {"idle", "flushing", "compacting"} /\ state.diskFull \in BOOLEAN
  /\ \A i \in DOMAIN state.sstables :
       /\ DOMAIN state.sstables[i].entries \subseteq Key
       /\ BuildBloom(state.sstables[i].entries) \subseteq state.sstables[i].bloom
       /\ state.sstables[i].level = 1 => i = 1
  /\ net \in [Timers -> Nat]

ReadsOf(s) == [k \in Key |-> LsmGet(s, k)]

(* As long as no write was torn, whatever crashes come between the two     *)
(* halves of a flush or a compaction, a read finds the last value          *)
(* acknowledged, and a deletion stays one: merging drops tombstones only   *)
(* when nothing older is left below (lsm.ts: compact, flushPhase2, lsmGet).*)
ReadsLatest == hist.faults["torn-write"] = 0 => ReadsOf(state) = hist.latest

(* Torn writes included, nothing acknowledged is lost from the disk: a     *)
(* crash and the replay of the log at any moment give back the last value  *)
(* of every key, however often runs were torn, flushed over and merged     *)
(* since (lsm.ts:113-117 and 217-252: what the log keeps, and its order).  *)
ReplayRestores == ReadsOf(Crashed(state)) = hist.latest

(* What lsm.ts:113-117 says of a record journalled again: it is the only   *)
(* copy until `recover', which repairs the run; then reads are right.      *)
RecoverRestores == ReadsOf(Recovered(state)) = hist.latest

(* The same while no torn run was merged into another. *)
RecoverRepairs == ~hist.tornMerged => RecoverRestores
=============================================================================
