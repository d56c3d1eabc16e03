------------------------------ MODULE Timeline ------------------------------
(***************************************************************************)
(* The simulation loop (src/src/engine/sim.ts), the recorder that scrubs   *)
(* it (recorder.ts) and the driver's input path (ui/bridge/SimDriver.ts).  *)
(*                                                                         *)
(* The module simulated is a constant: Effects says what handling an event *)
(* schedules.  Reducers and the seeded generator are deterministic, so the *)
(* sequence of events processed stands for the states of the nodes, too.   *)
(***************************************************************************)
EXTENDS Integers, Sequences, FiniteSets

CONSTANTS
  What,          \* the events of the module, and the commands of its user
  Initial,       \* what the constructor schedules at time 0, in order
  Command,       \* what external() and control() schedule
  Effects,       \* Effects[w] = <<[delay, what], ...>>, what handling w schedules
  interval,      \* processed events between two snapshots
  MaxProcessed, MaxCommands, MaxScrubs   \* bounds

ASSUME ModuleAssumption ==
  /\ Command \subseteq What /\ Initial \in Seq(What)
  /\ Effects \in [What -> Seq([delay : Nat, what : What])]
ASSUME BoundAssumption ==
  interval \in Nat \ {0} /\ {MaxProcessed, MaxCommands, MaxScrubs} \subseteq Nat

VARIABLES
  sim,         \* the simulation: time, seq, queue, and its log of events
  snapshots,   \* the recorder's, in the order they were taken
  commands, scrubs   \* what the bounds count

vars == <<sim, snapshots, commands, scrubs>>

Event == [time : Nat, seq : Nat, what : What]

-----------------------------------------------------------------------------
(* The simulation.  processed is the length of the log.                    *)

(* schedule, of one event after the other: the next seqs break ties. *)
Schedule(s, t, fx) ==
  LET Nth(k) == [time |-> t + fx[k].delay, seq |-> s.seq + k - 1, what |-> fx[k].what]
  IN [s EXCEPT !.seq = @ + Len(fx), !.queue = @ \cup {Nth(k) : k \in DOMAIN fx}]

AtOnce(w) == [delay |-> 0, what |-> w]

(* external, control: at the present time, after everything scheduled. *)
Inject(s, c) == Schedule(s, s.time, <<AtOnce(c)>>)

Before(a, b) == a.time < b.time \/ (a.time = b.time /\ a.seq < b.seq)
NextEvent(s) == CHOOSE e \in s.queue : \A x \in s.queue \ {e} : Before(e, x)

(* step: the next event moves the time on, and its effects are scheduled. *)
Step(s) ==
  LET e    == NextEvent(s)
      went == [s EXCEPT !.time = e.time, !.log = Append(@, e), !.queue = @ \ {e}]
  IN Schedule(went, e.time, Effects[e.what])

(* It does nothing if there is no event. *)
Stepped(s) == IF s.queue = {} THEN s ELSE Step(s)

NewSim ==
  LET none == [time |-> 0, seq |-> 0, queue |-> {}, log |-> <<>>]
  IN Schedule(none, 0, [k \in DOMAIN Initial |-> AtOnce(Initial[k])])

(* A snapshot keeps the length of the log and not its entries. *)
Snapshot(s) == [time |-> s.time, seq |-> s.seq, queue |-> s.queue, logLength |-> Len(s.log)]

(* A restore that forgets to turn back the count of insertions. *)
RestoreKeepsSeq(s, c) ==
  [time |-> c.time, seq |-> s.seq, queue |-> c.queue, log |-> SubSeq(s.log, 1, c.logLength)]

(* restore, which throws unless c.logLength <= Len(s.log). *)
Restore(s, c) ==
  [time |-> c.time, seq |-> c.seq, queue |-> c.queue, log |-> SubSeq(s.log, 1, c.logLength)]

-----------------------------------------------------------------------------
(* The recorder.                                                           *)

Index(c) == c.logLength

(* Every boundary snapshotted, whether or not it already is. *)
SnapshotAlways(s, taken) ==
  IF Len(s.log) % interval = 0 THEN Append(taken, Snapshot(s)) ELSE taken

(* After a step that ends on a boundary, unless one is there already. *)
SnapshotIfDue(s, taken) ==
  IF Len(s.log) % interval = 0 /\ \A k \in DOMAIN taken : Index(taken[k]) # Len(s.log)
  THEN Append(taken, Snapshot(s)) ELSE taken

(* step of the recorder, of a simulation and its snapshots. *)
RecorderStep(r) ==
  IF r.sim.queue = {} THEN r
  ELSE LET s == Step(r.sim) IN [sim |-> s, snapshots |-> SnapshotIfDue(s, r.snapshots)]

(* What n steps of the recorder make of r: Recording(r)[n]. *)
Recording(r) ==
  LET run[k \in Nat] == IF k = 0 THEN r ELSE RecorderStep(run[k - 1]) IN run

(* The driver's frames and single steps, and scrubTo a position ahead. *)
Advance(n) ==
  /\ Len(sim.log) + n <= MaxProcessed
  /\ LET r == Recording([sim |-> sim, snapshots |-> snapshots])[n]
     IN sim' = r.sim /\ snapshots' = r.snapshots
  /\ UNCHANGED <<commands, scrubs>>

(* What n steps of the simulation alone make of s: Replay(s)[n]. *)
Replay(s) == LET run[k \in Nat] == IF k = 0 THEN s ELSE Stepped(run[k - 1]) IN run

(* The last snapshot before the first one that is past the index. *)
Base(index) ==
  LET upTo == {k \in DOMAIN snapshots : \A j \in 1..k : Index(snapshots[j]) <= index}
  IN snapshots[IF upTo = {} THEN 1 ELSE CHOOSE k \in upTo : \A j \in upTo : j <= k]

(* scrubTo a position behind: restore the base and replay from there. *)
ScrubBack(index) ==
  /\ index < Len(sim.log) /\ scrubs < MaxScrubs /\ scrubs' = scrubs + 1
  /\ sim' = Replay(Restore(sim, Base(index)))[index - Index(Base(index))]
  /\ UNCHANGED <<snapshots, commands>>

(* invalidateFuture: snapshots past the present position are dropped, and  *)
(* the others keep their order.                                            *)
FutureInvalidated ==
  LET kept == {k \in DOMAIN snapshots : Index(snapshots[k]) <= Len(sim.log)}
  IN [i \in 1..Cardinality(kept) |->
        snapshots[CHOOSE k \in kept : Cardinality({j \in kept : j < k}) = i - 1]]

(* The driver invalidates the recorded future, then injects. *)
Input(c) ==
  /\ commands < MaxCommands /\ commands' = commands + 1
  /\ snapshots' = FutureInvalidated
  /\ sim' = Inject(sim, c)
  /\ UNCHANGED scrubs

-----------------------------------------------------------------------------
Init ==
  /\ sim = NewSim /\ snapshots = <<Snapshot(NewSim)>>
  /\ commands = 0 /\ scrubs = 0

Next ==
  \/ \E n \in 1..MaxProcessed : Advance(n)
  \/ \E index \in 0..MaxProcessed : ScrubBack(index)
  \/ \E c \in Command : Input(c)

Spec == Init /\ [][Next]_vars

-----------------------------------------------------------------------------
(* Properties.                                                             *)

(* The queue holds events of the module, each with a seq of its own below  *)
(* the next one, and none that is due in the past; a snapshot is a         *)
(* simulation without its log.                                             *)
TypeOK ==
  /\ sim \in [time : Nat, seq : Nat, queue : SUBSET Event, log : Seq(Event)]
  /\ \A e \in sim.queue : e.time >= sim.time /\ e.seq < sim.seq
  /\ \A e, f \in sim.queue : e.seq = f.seq => e = f
  /\ snapshots \in Seq([time : Nat, seq : Nat, queue : SUBSET Event, logLength : Nat])
  /\ commands \in 0..MaxCommands /\ scrubs \in 0..MaxScrubs

(* The snapshots stay in strict order of position, from position 0: what   *)
(* scrubTo's search, which stops at the first one past its target, needs.  *)
SnapshotsOrdered ==
  /\ snapshots # <<>> /\ Index(snapshots[1]) = 0
  /\ \A j, k \in DOMAIN snapshots : j < k => Index(snapshots[j]) < Index(snapshots[k])

(* The base of a scrub is never past its target, however inputs and scrubs *)
(* cut the snapshots: so a restore never asks for log entries that are     *)
(* gone, and the throw at sim.ts:247 is out of the recorder's reach.       *)
RestoreNeverThrows ==
  \A index \in 0..Len(sim.log) : Index(Base(index)) <= index

(* No snapshot stays from beyond the point where a new input diverged.     *)
NoStaleFuture ==
  [][commands' # commands =>
       \A k \in DOMAIN snapshots' : Index(snapshots'[k]) <= Len(sim.log)]_vars

(* Steps, inputs and scrubs keep the snapshots sound. *)
SnapshotsSound == TypeOK /\ SnapshotsOrdered /\ RestoreNeverThrows

(* Scrubbing back lands on the recorded past: the log is cut at the target *)
(* and otherwise unchanged ("restores the nearest snapshot <= target and   *)
(* replays deterministically the rest of the way", recorder.ts:5-6).  It   *)
(* does not hold: an input is in no snapshot from before it, so a scrub    *)
(* over it replays without it.                                             *)
ScrubExact ==
  [][\A index \in 0..MaxProcessed :
       ScrubBack(index) => sim'.log = SubSeq(sim.log, 1, index)]_vars

(* It does of a timeline without inputs: whatever mix of steps and scrubs  *)
(* took the snapshots, replaying from one brings back what was recorded.   *)
ReplayExact ==
  [][\A index \in 0..MaxProcessed :
       commands = 0 /\ ScrubBack(index) => sim'.log = SubSeq(sim.log, 1, index)]_vars

(* Over inputs, too, a scrub lands where it was asked to, "so that exactly *)
(* `index' events have been processed" (recorder.ts:36), but for a module  *)
(* that has nothing left to do before that without the inputs.             *)
ScrubLands ==
  [][\A index \in 0..MaxProcessed :
       ScrubBack(index) => \/ Len(sim'.log) = index
                           \/ Len(sim'.log) < index /\ sim'.queue = {}]_vars

(* Scrubs land and replay, and an input leaves nothing of the future it    *)
(* ends.                                                                   *)
ScrubsReplay == ReplayExact /\ ScrubLands /\ NoStaleFuture
=============================================================================
