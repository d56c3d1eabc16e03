# Verification of the DDIA simulator

`src/` is a teaching simulator of the systems of *Designing Data-Intensive
Applications*: a deterministic discrete-event engine, some twenty small
distributed-system modules that run on it (a Raft cluster, a lease lock with
fencing, quorum replication, brokers, storage engines, transactions ...), and a
UI that drives and scrubs the simulation. This directory holds TLA+
specifications of its core logic, the TLC instances that check them and proofs
checked by TLAPS.

Paths below are relative to the repository (`src/engine/sim.ts` is
`src/src/engine/sim.ts` in `PROJECT.json`).

## 1. Inventory

### The engine (`src/engine`)

| part | state | operations | hard behaviour | what makes it correct |
|---|---|---|---|---|
| event queue, `events.ts` | a binary heap of events ordered by (time, seq) | push, pop, loadFrom, peek | index arithmetic of the two sifts | it is a priority queue: events leave in (time, seq) order, none lost |
| simulation loop, `sim.ts` | time, seq, queue, node states, dead set, log | step, runUntil, schedule, external, control, kill, revive, partition, snapshot, restore | equal times, inputs at the present position, events for dead nodes dropped when they come due | runs are a function of seed and inputs; restore then step repeats what was recorded |
| network, `network.ts` | drop and duplicate rates, delay range, partition groups | plan | loss, duplication and reordering of any message | every message is delivered 0, 1 or 2 times, each with its own delay |
| recorder, `recorder.ts` | ordered list of snapshots | step, runSteps, scrubTo, invalidateFuture | scrubbing back, then a new input | the snapshot list stays ordered and speaks of one timeline; a scrub lands on its target |
| generator, hashes, `rng.ts`, `hash.ts` | a 32-bit word | draws, digests | none | pure arithmetic |

### The modules (`src/modules`)

Each is a reducer: `reduce(state, event, now, rng)` returns the next state of one
node and its effects (send, timer). All interaction between nodes is by
messages and timers through the engine's queue; nothing is shared.

| part | state per node | events | hard behaviour | what makes it correct |
|---|---|---|---|---|
| Raft, `raft.ts` | role, term, vote, log, commit index, register, next and match indexes, write rows, timer nonces | election and heartbeat timers, client op, req-vote, vote, append, append-resp | crossed elections, stale answers, overwritten tails, deposed leaders, kills that lose timers | one leader per term; committed entries are never lost or changed; a write reported ok stays |
| Lease, `lease.ts` | lock: holder, token, line. worker: state, lease, clock rate, pause. store: newest token, register, fencing | acquire, grant, expiry, check, work, write, reject, wake; gc-pause, clock-skew, fencing | a lease checked before the work and used after it; stale timers; pauses; late rejections | a token names one holder; no lease without its timer; the fence never lets an old lease write |
| Leaderless, `leaderless.ts` | data, hint buffer, pending ops | client op, store, storeAck, get, getReply, op-timeout, handoff | quorum counting under duplicates, an answer racing its timeout, hints replaced under a handoff | an acked write is on a quorum (or hinted); a read at an overlapping quorum sees it; every op ends once |
| Replication, `replication.ts` | log, buffer, pending acks, retransmit timers | client op, append, ack, retransmit | gaps, late duplicates, a timer lost at a dead leader | follower logs are prefixes of the leader's; a sync ack means every follower has it |
| Multi-leader, `multileader.ts` | data with (ts, origin), history of acks and discards | put, replicate | concurrent writes, equal timestamps, copies out of order | leaders agree once they have heard the same; what is called discarded was concurrent |
| Kafka, `kafkalog.ts` | partition logs, delivered, fetched, committed, assignment | publish, push, fetched, session check | lost pushes, a consumer that dies and comes back, replay | the commit never passes what nobody processed |
| Rabbit, `rabbitqueue.ts`; Redis, `redispubsub.ts` | unacked, delivery counts, dead letters; nothing | publish, deliver, ack, check; publish, notify | a late ack against a redelivery; no second chance | every message is held, processed or buried; exactly the unreachable miss one |
| Transactions, `txn.ts` | version chains, transactions, the queue of the serial level, flags | begin, read, write, inc, ensure, commit, abort | begins, commits and aborts interleaved at RU, RC, SI and SER | SI flags exactly the schedules that are not serializable; the serial queue drains |
| LSM, `lsm.ts`; B-tree, `btree.ts` | memtable, runs with Bloom filters, WAL; pages, WAL | put, delete, flush, compact; split; crash, torn write, full disk, recover | a fault between the two phases of a flush, torn runs merged, refused splits | reads find the last write; the log restores it; the tree is balanced |
| Batch, `batch.ts` | scheduler: liveness, incarnations, task table, attempt; workers: run, disk, streams | job, ping, reset; assign, fetch, relocate, report; start, record, close, output | deaths nobody noticed, stale pongs, late resets, starts that overtake one another | the output counts every record once; the scheduler's picture of a live worker is right |
| Unbundled, `unbundled.ts` | a log; three views with offset, pause, dedup | write, advance, pause, redeliver, wipe | redelivery without dedup, rebuilds while the log grows | a view is the fold of its prefix of the log, and catches up |
| Hash ring, `hashring.ts` | membership view, keys, change number | put, store, add, remove, handoff | changes that overtake one another, different views | a key is in one place, in the end its owner's |
| REST, GraphQL, gRPC, `rest.ts`, `graphql.ts`, `grpc.ts` | requests in flight, counts | load, answers, timeouts, change of schema | an answer racing its timeout, copies of answers | each request ends once; a page of one answer is whole or missing |
| Load, `load.ts` | slots, queue, open requests | arrival, completion, knobs | a freed slot passed on or returned, the number of servers changing | slots are those of parts in service; nobody waits beside an idle server |
| Models, `models.ts` | traces of three engines, cursor | set-query, step | a question changed during the animation | the engines agree with the question; the animation ends |
| Ping-pong, `pingpong.ts` | last token delivered, token pending | token, retransmit | a retransmission crossing its answer, timers due at a dead node | tokens pass in turn; the newest keeps being sent |
| Linearizability checker, `linearizable.ts` | none | search over histories | memoized backtracking | agrees with the definition |

### The UI (`src/ui`)

`SimDriver.ts` runs frames of the engine, records inputs and calls the
recorder; `simStore.ts` and the labs publish and draw. Only the driver's input
path and scrubbing change what the simulation does.

`PROJECT.json` lists every part with its status and, under `hazards`, what is
hard to test in each, at its line.

## 2. Modules

### `PriorityQueue`, `EventQueue`  (`events.ts`)

`PriorityQueue` is the promise: a set of events, of which a step takes the least
by (time, seq). `EventQueue` is the heap, an array with the code's `up` and
`down` loops as recursive operators, and implements it under the mapping "the
set of the array's elements".

### `Timeline`  (`sim.ts`, `recorder.ts`, `SimDriver.ts`)

One record `sim` holds time, seq, queue and the log of processed events; the
reducers and generator are deterministic, so the log stands for the node states.
The simulated module is a constant (`Effects` says what handling an event
schedules). Actions: some steps of the recorder (`Recording`, which is also a scrub
ahead), an input of the user (which invalidates the snapshots after it) and a scrub
back to any position (`Replay` from a snapshot). The loops are recursive functions of
the number of steps.

### `Raft`  (`raft.ts`)

One action per event the reducer handles; `adoptTerm` and the case that follows
are one step, as in `reduce`. `net` holds the messages in flight: never
delivering one is loss, delivering it late is delay, leaving it in place after a
delivery is duplication. Only the timer with the current nonce acts, so a timer
is "server n's current timer is queued". A kill keeps the state and lets queued
timers vanish (`TimerLost`), as the engine does. `ballots` and `won` are ghosts:
every vote cast and every election won. Timers may fire at any time: the code's
150..300 tick timeouts and 1..10 tick delays are one of these schedules.

`RaftHistory` states what the argument for the safety of the log speaks of, with a history
that no server keeps: `led[t]`, the log of the leader of term t as far as it got, and
`taken[s][t]`, how far s took it while in term t. `MCRaftHistory` keeps both in
variables, as a step shows them, to check `HistoryInv` on the instance.

### `Lease`  (`lease.ts` over `sim.ts`)

Timing is what this system is about, so the engine's queue is explicit: events
carry the time they are due, a step takes one that is due first and moves `now`
there. Events due at the same time are taken in any order (the engine has one
order by seq; the model covers it). Faults are counted per kind in `faults`, so
that a property can say under which faults it is claimed.

### `Leaderless`  (`leaderless.ts`)

Homes, fallbacks, W, R and sloppiness are chosen in `Init` from `Params`. Timers
fire at any time after they are armed. A version is told by its write (its
coordinator and number there) and its timestamp.

### `LogCopies`, `Replication`  (`replication.ts`)

`LogCopies` is the promise of leader and followers: one log that only grows,
copies that are prefixes of it and only go forward, and, in sync mode, an
acknowledgement only of what every copy holds. `Replication` has one action per
event of the reducer, in both modes, and implements it with `primary` the
leader's log and `copy` the followers'. The loop that drains the buffer is a
first gap (`Upto`). Timers fire at any time, so virtual time is left out except
for one thing the verifier looks at: what happens at the very time of a read
(`now`). A message sent in that instant arrives after it, since the least delay
is one millisecond (`sentNow`).

### `Simulation` and the labs that run on it

The remaining modules with messages share `Simulation`, which is what the engine
does for them (`sim.ts` over `network.ts`): a handler is an operator that gives
the state, the messages and the timers it leaves behind, as a reducer does, and
`Receive`, `Fire` and `External` make an action of it. A link keeps its messages
in the order of sending; taking another than the first is a counted fault (`late`),
as are losses, copies and kills, so that a property can say under which faults it is
claimed. A message for a dead node is lost when it comes due, a timer too. A timer
may fire at any time after it is set, but not while more than `Backlog` messages are on
their way: timers are tens to hundreds of ticks, a message takes one to ten.

* `Kafka`, `Rabbit`, `Redis` (`kafkalog.ts`, `rabbitqueue.ts`, `redispubsub.ts`):
  the broker and its two consumers. `CommitEvery` and `DeliveryLimit` are
  constants. A message is its number; consumers are killed, and the brokers of Rabbit and Redis.
* `PingPong`, `MultiLeader`, `HashRing`: every node the same. In `HashRing` the
  hash is a constant: positions of virtual nodes and keys. In `MultiLeader` a
  ghost keeps what each leader knew when it wrote, which says what was concurrent.
* `Api` (`rest.ts`, `graphql.ts`, `grpc.ts`): one client of one shape, whose style
  is chosen in `Init`; the timeouts and messages of each style are its own.
* `MapReduce` and `Dataflow` (the two halves of `batch.ts`): each with the heartbeat
  of the scheduler - pings, pongs, deaths declared, incarnations, resets - without
  the other half. A death may be declared at any ping after the worker fell and before
  the scheduler heard from it again (or never: a blackout too short to be noticed).
  MapReduce tells rows by the map they come from; dataflow counts them by url.
* `Cluster` has the log, the leaders, the ring, the queue, the channel and the page of the API
  lab side by side, one of them in a behaviour, as a page of `App.tsx` has one simulation; its
  constants are free, for the proofs, but for what the code has: a ring that is not empty and has
  every node once (`RingAssumption`), a limit above 0 (`LimitAssumption`), and posts that are not
  empty, are different and are none of the keys of the other requests (`PostsAssumption`,
  `api-shared.ts:9`). `MCCluster` gives them values and adds the other labs.

### The labs of one node

* `Txn` (`txn.ts`): the schedule is the input, any interleaving of two well-formed
  scripts; the state is the node's, chains and stamps included.
* `Lsm`, `BTree` (`lsm.ts`, `btree.ts`): the value of a put is its number, so every
  write is told from the others; a flush and a compaction are two events, with a fault
  possible in between. In `Lsm` a sorted array is a function from its keys; what the code gets
  by writing entries over others in order is stated in closed form, the value at the last place
  that has the key, and the replay of a log likewise.
* `Unbundled` (`unbundled.ts`): contents of the views as the code keeps them, against
  a definition by the prefix of the log each has consumed. The views start with
  the seed applied, by the same step the timer takes.
* `LoadLab` (`load.ts`): service times are left out, a part may be complete at any time.
* `Models` (`models.ts`, `models-shared.ts`): the three query engines as operators over
  any fixture, against the question they are asked.
* `Linearizable` (`linearizable.ts`): the search as a function on (mask, register),
  against the definition by orders of the history.

`Stores` puts `Lsm` and `Unbundled` under one `LabSpec`, of which theorems speak, with
what these labs promise: `LsmKeepsWrites`, `ViewsDerived`. It assumes that the keys of the tree are
numbers (`RunKeyAssumption`, the order of the code's strings) and that the seed is a log
(`SeedAssumption`). `MCStores` gives the constants values and adds the other labs.

`MCStores`, `MCCluster` and `MCEngine` put several of these in one instance: a
behaviour is one of one lab (`lab` is chosen in `Init` and never changes), and a
property of the composite is, for each lab, the conjunction of that lab's
own properties. It keeps one run, one set of bounds and one list of
properties for labs that do not interact - as in the code, where a page runs one
simulation.

### Conventions

* Bounds live in the guards. `Within` is a constant operator that says what a
  behaviour may use of each kind of step; an MC module defines it as a small
  set of budgets, so that several small instances are one run. No theorem uses
  it: proofs hold for every bound, including none.
* Two runs use a VIEW (`MCRaft`, `MCLeaderless`). It hides the history of
  `RaftHistory`, so that `HistoryHolds` is checked of one history for each state, and messages in flight
  whose delivery changes nothing now nor later (votes and answers of a past
  term, which terms, being monotonic, keep ignored; answers to an operation that
  has ended or has that answer): states that differ in them alone have the same
  future up to such messages. Ghosts and everything properties read stay in the
  view.
* Deadlock is not checked: every instance ends where its bounds end.
* An operator just before a definition, under a comment that names a variant, is
  a mutated form of it; `PROJECT.json` says which property it breaks.

## 3. Runs

A property that joins several is a conjunction of named parts, defined with a
comment each in the module; the table names the parts.

| run | instance | shows |
|---|---|---|
| `Raft` | 3 servers; five budgets: two candidates for two terms; a leader replaced while each takes a write; two writes; a write and a heartbeat; a write with a kill, a revive and a duplicate | `ElectionsSound` (votes and winners unique), indexes stay in the log; `LogSafety` (logs match, leaders complete, registers applied alike), `WritesKept` (a row reported ok is kept, the register is that of the applied prefix), nothing committed is lost; and `HistoryHolds`, what the proof of these says of the terms before |
| `Lease_faults` | 2 workers, TTL 6, one fault of any kind or two that work together | `OneHolder` (tokens unique, holder newest, line sound), `NoneForgotten` (no lease or holder without its timer), `FenceExact` (never evicts the newest, never goes back) |
| `Lease_lab` | the lab's constants (60/10/6), latency 1 or 10, one pause of 70 | without faults even the unfenced store accepts no stale write; with a pause every waiter is served and every lease ends |
| `Engine` | the heap: up to seven events, all mixes of push and pop. The recorder: a module that runs dry after ten events, 12 processed events, a snapshot each 3, 2 inputs, 3 scrubs | the heap implements the priority queue; snapshots stay ordered and scrubs find their base; they land, replay exactly without inputs, and leave no abandoned future |
| `Leaderless` | three homes W=R=2 with a late copy or a kill; two homes W=1 R=2 with two writes; two homes and a fallback with hints | acked writes are where they must be, reads see them, operations end, once |
| `Replication` | a leader and two followers, both modes; two writes and a late copy; a write and a read of the same instant or later; a write with a kill and a loss | it implements `LogCopies`; no read is stale in sync mode; every sync write completes unless the leader was down |
| `Stores` | `Txn`: two scripts of up to two operations, four levels, all interleavings. `Lsm`: runs of two keys of three, up to four writes and two faults, five in all. `BTree`: pages of two keys, five writes, and a deletion or a fault. `Unbundled`: one more write and three commands on three views. `LoadLab`: three arrivals, three turns of a knob. `Models`: the lab's fixture and a triangle, two questions. `Linearizable`: every history of three operations in three instants | `FlagsExact`, `LsmKeepsWrites`, `TreeSound`, `ViewsDerived`, `LoadAccounted`, `AnswersRight`, and that views catch up |
| `Cluster` | `Kafka`: three messages, a kill, a move. `Rabbit`: two messages, up to three deliveries, a fault and a revival. `Redis`: two faults. `PingPong`: a ring of three, two faults, four tokens. `MultiLeader`: three writes in two instants, two faults. `HashRing`: three nodes, two keys, two changes or faults. `Api`: three posts, two faults, two changes of schema. `MapReduce`: two workers, two maps, a reduce; a kill and a revival, a retry or a second ping. `Dataflow`: the same with a death, or with two late messages | `KafkaSound`, `MessagesAccounted`, `TokenInTurn`, `LeadersConverge`, `KeysPlaced`, `PageAccounted`, `MapReduceSound`, `DataflowExact` |
| `Leaderless_handoff` | three homes and a fallback, two hinted writes | *violated*: an acked write vanishes with all nodes alive |
| `Kafka_gap` | one partition, the lab's commit interval, four messages, a kill and a revival before the session check | *violated*: the commit passes a message nobody processed |
| `Lsm_torn` | the tree of `Stores` with four writes and one torn run, the views at rest | *violated*: recover leaves an acknowledged write out of every read |
| `Dataflow_wiped` | two workers, a death and a revival | *violated*: a record is counted twice |

**Why these bounds.** Each hazard of the list needs a known number of actors
and steps. Two terms and two candidates among three servers meet in every vote;
an overwritten tail needs a replaced leader and a write by each; a second
expiry or check timer needs one lease after another (TTL 6 and 12 ticks give
two full leases). A gap needs two writes that arrive in the wrong order, and a
late copy the duplicate that stays behind. Seven heap slots are three full
levels. A read-write cycle of transactions needs two of them, two keys and
two operations each. Runs of two keys are merged by the second flush, and a
fourth write and a fault come before, in or after the merge; five keys in pages of two
split a leaf, its parent and the root. A wrong commit needs `CommitEvery` messages and one
before; a message redelivered until its end needs `DeliveryLimit`. Two handoffs cross
only in two changes of membership. A job of two maps and a reduce has a
fetch that finds its disk gone, and a stream that closes while another is open. A
history of three operations is the shortest in which the register value
matters to the memo. The Raft budgets do not reach the five-server, three-leader
history that un-loses a `lost` row; that is a listed hazard.

**Fairness.** Three runs need it. `Lease_lab`: weak fairness of taking the next due
event, which is the loop of `runUntil` and of the driver's frames - they take
events as long as any is due. Messages lost and nodes killed are excluded by the
property itself, because nothing in `lease.ts` is ever sent again. `Replication`:
weak fairness, for each message, of its delivery (or its drop at a dead node),
for each retransmit timer, of its firing, and of time going on; the same loop
justifies it, for an event queued at a finite time is always taken. Losses,
kills and writes are not fair, and revives neither: the property speaks of the
behaviours in which nobody stays dead and the leader never was. `Stores`
(`CatchesUp`): weak fairness of each view's advance, whose timer is armed again
whatever it finds (`unbundled.ts:162`); pauses and resumes are not fair, and the
property speaks of views that are not paused for ever.

### Findings

* `Leaderless_handoff`: a handoff ack deletes the hint of its key even if a
  newer, already acked write has replaced it (`leaderless.ts:175`, against the
  soundness argument at `leaderless.ts:84`).
* `Kafka_gap`: `fetched` jumps over an offset lost at a consumer that is killed and
  revived within its session, the commit follows, and the session check of that
  offset takes it for acknowledged (`kafkalog.ts:122`, `145`, against
  `kafkalog.ts:13`). `KafkaSound` shows that a consumer
  that is killed and stays dead loses nothing, if no message is lost or overtaken.
* `Lsm_torn`: a compaction forgets that a run was torn, and `recover` then has nothing to
  repair (`lsm.ts:150`, against the comment at `lsm.ts:114`). `RecoverRepairs`
  shows that recovery is right as long as no torn run was merged, and
  `ReplayRestores` that the log always has what is missing.
* `Dataflow_wiped`: a worker that held finished maps only dies without a restart, is
  reset at its revival, and adopts the attempt under way a second time
  (`batch.ts:749`, `278`, against `batch.property.test.ts:42`). A record streamed
  again shows in the output only in the `OUTPUT_TICKS` between the arming of a reducer
  and its output; before that it makes the counts overshoot, the reducer never
  drains, and the stall watchdog starts a new attempt. `OutputExactUnwiped` shows
  that the counts are exact otherwise.

Other disagreements, met while modelling and without a run of their own:

* `lease.ts:161`, `175`: a check timer survives the lease it was armed under; a quick
  new grant arms a second one and both re-arm, so the worker writes at twice its period
  (`OneCheckChain`).
* `recorder.ts:50`: an input is part of no snapshot before it, so a scrub over it replays
  without it (`ScrubExact`, against `recorder.ts:5`). If the module has nothing else to do it
  even stops short of its target (against "exactly `index` events", `recorder.ts:36`), which
  `ScrubLands` therefore allows.
* `replication.ts:158`: the verifier counts a write acknowledged at the time of a
  read, though after it, against the read (`LeaderNeverStale`). The proved
  `SyncNeverStale` shows that this cannot happen in sync mode. `replication.ts:120`: a
  leader back from a kill has pending writes that are never sent again (`UnackedRetransmit`).
* `txn.ts:110`: at RU a transaction whose write was followed by another's does
  not read its own (`OwnWritesVisible`); the flags of RU and RC are not exact,
  for a lost update is flagged at RU where a serial order exists, a
  write skew at RC likewise. Hence `FlagsExact` speaks of SI and SER.
* `btree.ts:127` against `122`: a leaf grows past the order when the disk is full.
* `rabbitqueue.ts`: a message is buried after `DELIVERY_LIMIT` deliveries, that is one
  redelivery less than the name of the counter suggests.
* `batch.ts:421`: two stale pongs of a revived worker cause two resets, and the second may
  arrive after the worker has a task again: the scheduler believes it running
  for ever (`NoStrandedTask` speaks of all other histories).
* `pingpong.ts:61`: the ring stops when a retransmission comes due at a dead holder
  (`KeepsTrying` claims the rest).
* `multileader.ts:104`: an older write of the same origin that arrives late is not recorded,
  but one that lost to a causal successor of the other origin is recorded as
  discarded (`DiscardsExact` claims the histories where copies come in order and once).
* `hashring.ts:108`: a key stored or handed over under one view at a node that has moved on to
  another stays there; two coordinators that change at once give their views the
  same number and never agree (`AtOwner` claims changes that do not race).
* `load.ts:121`: raising the number of servers does not start what is queued
  (`NoIdleServer` claims the rest).

## 4. Proofs

`RaftProofs` (with `NatLemmas`: least and greatest elements of bounded sets of
naturals) proves, for every finite set of servers, every `MAJORITY` that two
quorums share a member of (`MajorityAssumption`: `2 * MAJORITY` exceeds the
number of servers) and every bound:

* `TypeCorrect`: `Spec => []TypeOK`;
* `IndexesCorrect`: a leader's next and match indexes stay within its log;
* `VotesCorrect`: one vote per server and term;
* `ElectionCorrect`: one winner per term.

The invariant is

    IInv == TypeOK /\ NextWithinLog /\ IndexesHeld /\ NotToSelf
            /\ OneVotePerTerm /\ VotesCast /\ WinnersElected

`NextWithinLog` is not inductive: a leader sets `match` from an answer, so one
must know that an answer of the present term never reports more than its leader
sent (`IndexesHeld`, which speaks of messages in flight, appends and answers
alike, and needs that a leader's log only grows within its term). Election
safety needs that every counted vote was cast (`VotesCast`) and every winner had
a majority of them (`WinnersElected`); two majorities meet, and the server in
both voted once (`OneVotePerTerm`). Every step is either progress of one server
(its term does not fall, and within a term its leadership ends or its log grows)
or leaves it alone, which is what `Progress` says and what keeps the statements
about messages sent earlier. Each part has a lemma per action group.

`ReplicationProofs` proves, for every set of followers (the leader not among
them), every set of keys and every bound:

* `TypeCorrect`: `Spec => []TypeOK`, with the leader's numbering free of gaps;
* `PromiseKept`: `Spec => KeepsPromise`, that the algorithm implements `LogCopies`;
* `SyncReadsFresh`: `Spec => []SyncNeverStale`;
* `RetransmissionCorrect`: a pending write has its timer queued as long as the
  leader was never down, the safety half of `SyncCompletes`.

The invariant is

    IInv == TypeOK /\ EntriesInLog /\ Prefixes /\ Confirmed

Prefixes alone are not inductive: a drained buffer extends a prefix only if what
it holds is the leader's entry of that seq, and it came from messages, which came
from `pending`; `EntriesInLog` says so of all four. A sync acknowledgement is
sound because an ack in flight, an ack counted (a follower no longer awaited) and
an acknowledged write each speak of an entry their follower has applied
(`Confirmed`). That `Upto` names a value at all needs the buffer to be bounded by
the leader's log (`UptoIsFirstGap`, by least elements instead of induction).
Fresh reads need `ReadsFresh`: whatever may still complete a write in the instant
of a read was applied by the node read before it, because acks sent since are not
delivered in that instant; the last follower to be counted is either the one read,
or the one read was counted before.

The second half of `RaftProofs` proves what Raft is for, over `RaftHistory` and for the same constants:

* `HistoryCorrect`: in every reachable state there is a history of which `HistoryInv` holds;
* `LogsCorrect`: `LogSafety`, that logs match, that a leader has every committed
  entry, and that servers which applied as much hold the same register;
* `CommitsCorrect`: `CommittedKept`, that no step takes a committed entry from a log;
* `WritesCorrect`: `WritesKept`, that a row reported ok is a committed entry.

None of this is inductive over the state alone: an append in flight is of a leader that may be
gone, and a commit rests on answers long consumed. So the invariant has a history, as an
existential over `led` and `taken`: every step has a next one (`Advance`). `HistoryInv` says that an
entry of term t, and all before it, is as in `led[t]` (log matching follows); that an append in flight
is a stretch of its leader's log; and that an entry which a majority has taken, *or still could take
because its servers have not gone on* (`Choosable`), is in the log of every later leader. The last
is what makes it inductive: when a candidate wins, a choosable entry is held by a voter of it
(majorities meet), and a vote was only given to a log at least as up to date
(`VotersKeep`, kept from the time of the vote). That the winner then has the entry goes by the
term of its last entry: if that is the term of the entry, logs match; if it is
later, its leader had the entry already. What is committed was chosen
(`CommitsChosen`), so it is in no danger.

`LeaseProofs`: for any workers, TTL, clocks, latencies and faults:

* `LeaseTypes`: types, no event overdue, no token not handed out;
* `HolderCorrect`: `OneHolder`;
* `LeaseRemembered`: `NoneForgotten`, until a node is killed;
* `FenceCorrect`: `FenceExact`;
* `MarginsProtect`: `NoStaleAccept`, for any constants that leave the margin below.

Tokens occur in grants and writes in flight, in timers, at workers and in the store. The
invariant bounds each by the last token handed out, and says that no token has two claimants:
a worker claims one if a grant of it is on its way there, if it holds it, or if the lock says so
(`ClaimsUnique`; holders alone are not inductive, as a late or copied grant makes one). `LineSound` keeps the line free of
repetitions and of the holder, and `ExpiryPending` and `LooksAgain` follow each timer from its
arming to its firing.

`MarginsProtect` is about time. Without faults a write under token t reaches the store between
`FirstWrite` (the grant and the write each take the shortest latency a, one check period and
the work lie between) and `LastWrite` (both take the longest, b, and the worker saw its
lease valid at the last look, `LastLook`, the greatest multiple of the period below the TTL).
The next lease starts a TTL later or more. So the assumption is
`LastLook + 2b < LEASE_TTL + 2a + WRITE_EVERY` and a > 0: with the lab's 60, 10, 6 and latencies
from 1 to 10 it reads 70 < 72, and a boundary tick counted as valid, the mutant, would make
it 80. The invariant (`CalmInv`, as long as no fault has happened) says there is a function
`granted`, from each token to when it was handed out, by which every event is on time
(`EventTimed`: a check comes a multiple of the period after the lease was taken, an expiry at the
TTL exactly), and that every worker is in one place: it asks once, waits once, is granted once and
runs one chain of checks (`PlacesRight`; `OneCheckChain`, which is the same without "as long as no fault
has happened", is false). The lock must not serve somebody who no longer waits, or a
lease would be taken later than b after its grant; and a worker that drops its lease must
not still be the holder, or its next acquire would free the lock early. That is what `PlacesRight`
is for, and a > 0: the expiry at the lock comes before the worker's own.

`LeaderlessProofs`: for any homes, fallbacks, quorums, settings and faults:

* `LeaderlessTypes`;
* `AcksCorrect`: `AckedOnQuorum` (without hints: an acked write is, from its ack on, at w homes);
* `ReadsCorrect`: `ReadsSeeAcked` (with w + r > n in addition);
* `OperationsCorrect`: `OperationsEnd`;
* `AckedStaysAlive`: `AckedAlive`, under the hypothesis that hints are off. With hints it is
  false, which is the finding of `Leaderless_handoff`.

The invariant joins what is true of nodes, operations, messages and the record of ended
operations. A store ack speaks of a home that has the version, or a newer one, for good,
since data only grows newer; so a pending write counts distinct homes that have it
(`WriteRight`), and an ack leaves w of them (`OnQuorum`; with fewer dead, one is alive). For a
read, that it returns something new enough is not inductive, but that some w homes do
is: each has the newest write acked before the read began, and what it answers, in flight or
counted, is as new (`Answers`, `ReadRight`). w such homes and r counted ones meet by
counting (`ManyDifferent`).

`LocalProofs`, about the parts that send no messages. First the loop: for any module simulated (`Effects` is any function to finite
sequences of delays and events), interval and mix of steps, inputs and scrubs:

* `SnapshotsCorrect`: `SnapshotsSound`, types, snapshots in order from position 0, and a
  base for every scrub, so that the throw in `restore` is out of reach;
* `ScrubsCorrect`: `ScrubsReplay`, where scrubs land, that they replay exactly without
  inputs, and that an input cuts the future.

Order alone is not inductive: `SnapshotIfDue` appends, so a snapshot must be
missing only beyond the last. `Covered` says that there is one at every boundary up to
the last and that the position is within one interval of it or before it. Exactness needs `Original`: without inputs
position and snapshots are all on one timeline, `At(k)`, the k-fold step from the
start. That the recursive functions `Replay` and `Recording` have the values
their definitions say, and what holds for every number of steps, is shown with lemmas of `NatLemmas`
that come from least elements (`DefinedOnward`, `AllNaturals`), without induction theorems.

Then `LabSpec` of `Stores`, for any keys, terms, categories and seed of the views, any keys,
hashes and limits of the tree:

* `ViewsCorrect`: `ViewsDerived`: every view is at all times what its prefix of the log derives
  to, the tally up to what retries applied again;
* `LsmCorrect`: `LsmKeepsWrites`: without torn writes a read finds the last write of its key;
  whatever the faults, a crash at any moment and the replay of the log bring back every write; and
  recovery repairs the runs as long as no torn one was merged. (If one was, it may not: that is the
  finding of `Lsm_torn`.)

That the index is the derived one is not inductive: `ViewsInv` adds that `keyTerms` has the terms of
the last value of each key and that the index is its inverse, so a record applied takes its key
out of exactly the terms it is under (`SearchApplied`); applying the last record again changes
nothing (`RetryKeeps`) but the tally, by one. The seed is applied by the same lemma, step by step.

What a tree reads is what is left of its runs laid over one another (`Laid`), then the log
over that, then the memtable. `Sound` says of the three: the memtable has the last value of its
keys, and they are in the log; the log over the runs gives the last value of *every* key; before
the first tear the log has no other key and no run is torn; and until a torn run is merged, the runs
as recovery would repair them have the last value of each key that is not in the memtable. The second
is what keeps a record journalled again: a flush must take only its own keys from the log
(`KeptReplayed`), and a tear must put the entry it drops *before* what the log has
(`ReplayedPrepended`). A merge drops tombstones, which is right because nothing is left below. That
level 1 is only ever the oldest run (`Layered`) makes the merge, level 1 first, the order of the
runs. Filters only ever hold more than the keys of their run, so that they may be left out of a
read. Keys in use are bounded (`Under`), whatever the set of keys, so that a run that is torn has a
last one.

`ClusterProofs`, about `LabSpec` of `Cluster`, for any keys, partitions, limits of faults and `Backlog`s:

* `LeadersCorrect`: `LeadersConverge`: leaders that have heard of the same
  writes have the same data, and a discarded write was concurrent with the one kept while
  updates arrive in order and once;
* `KafkaCorrect`: `KafkaSound`: types, and a commit that passes no message nobody
  has processed while nothing is overtaken or dropped and no consumer comes back. It assumes
  `CommitEvery > 0` (5 in the code) and that every message has a partition
  (`id % PARTITIONS` in the code).

Both begin with the closed form of what the engine's folds do to a link (`ManySent`: messages are
put at its end in order; the recursive function is shown unique by least elements).
For the leaders, that two with the same knowledge agree is not inductive. `Reaches` says that what one has
is not newer than what the other has, or is on its way to it, if nothing was lost; `Unseen`, that
updates in order arrive before any that was made by one who knew them, so that a receiver
never has one that knows what comes; `Knowledge` ties both to the ghost.
For the log, a commit follows acknowledgements counted, so the invariant goes from
there back to the push: what is fetched is processed (`FetchedDone`), an ack on its way speaks of
a stretch that is processed (`AcksDone`), a live consumer's link brings the offsets
of a partition without a gap (`OrderOf`), and what is pushed next continues that (`PushedOf`). `AcksDone`
needs `OrderOf`: a consumer acknowledges what it gets, whatever came before. A rebalance
moves a partition to a consumer who gets it from the fetched offset again,
which is why `OrderOf` speaks of what is processed *or* earlier on the link.

`MessageProofs`, about the same `LabSpec`, for any ring, messages, limit, posts and faults:

* `TokensCorrect`: `TokenInTurn`: tokens are delivered in turn and once, and until a kill the
  newest is sent until it is passed on;
* `MessagesCorrect`: `MessagesAccounted`: the queue has every message it took processed, held or
  buried and, copies aside, sends it no more often than the limit and has one timer watch it while it is
  held, until a kill; the channel, copies aside, hands an id out at most once and counts as lost
  exactly what is missing;
* `PageCorrect`: `PageAccounted`: over REST every post asked for is delivered, failed or awaited,
  once; a page of one request fails or comes whole; and a client that never fell has a timeout to
  come for each request it waits on.

It begins with what every lab needs of the engine: a handler's messages at the end of their links
(`HandlerLeaves`, `TwoSent`), a timer more or less by one (`TimerCounted`, `TimerTaken`), and that
a fault changes nothing but one message or one timer and is counted (`FaultHarms`).

The ring (`RingInv`): that neighbours are a token or a round apart is not inductive, for an old
copy might move one of them alone. So the invariant is about all nodes: there are a round B and a holder h
such that nodes up to h have delivered their token of this round and the others that of
the round before (`Turns`), and every token on a link or in a timer, however old, is one of its sender and
at most the newest (`TokensRight`, `RetriesRight`). Only the newest is then new to anybody, and
its receiver becomes the holder. Until a kill the holder's timer is of it.

The queue (`HoldInv`): that nothing is lost needs that an ack on its way is of a message that was
processed (`LettersRight`). The limit and the watch need that a message is published once
(`InboxOnce`: no copy on the link, none of what is known) and that there is at most one timer for it
(`OnceOf`), which its firing takes and a redelivery sets again; a late ack leaves a timer with
nothing to watch, so the converse is not true and not claimed.

The channel (`ChannelInv`): each id comes once over a link and before it is heard (`PublishedOnce`,
`HeardOnce`); an id is missing at the broker or at a subscriber as often as it is on its way
or was lost (`Balance`). That is an equation between cardinalities and sums over links, which the community
modules define by recursion on a set with an element chosen at each step. `TotalChanged` shows
that such a sum over a finite set changes by as much as one of its terms: by least elements on the size of the
subset, whichever elements are chosen.

The page (`PageInv`): a client counts what a message says, so mail is typed by its kind with what
that kind always carries (`Mail`: a user has the posts of the page, a profile the tags of its
schema), and a request is counted where its key is taken off `live`, where copies of its answer no
longer find it. `ManyRight` and `OneRight` say what a client is like in each style, the first with
the equation of `EachPostOnce`. Whatever is sent, they are preserved by what a handler makes of a
client (`Begins`, `Delivers`, `LetsGo`, `GivesUp`, `Completes`, and `UserRight` for the arrival of
the user). A timeout goes only with the key it is for, or with a client that is dead, which has
fallen (`Fallen`); the arrival of the user sets one for each post (`ManyTimers`).

**Only model-checked**: liveness (fairness and ENABLED are out of the
prover's reach): `LeasesMoveOn`, `SyncCompletes`, `CatchesUp`; the refinement of the
priority queue (the sifts are RECURSIVE operators, out of its reach too); `HistoryHolds`, which
says of the one history `MCRaftHistory` keeps what `HistoryCorrect` proves of some history; and the
other labs of `MCStores` (`FlagsExact`, `TreeSound`, `LoadAccounted`, `AnswersRight`) and `MCCluster`
(`KeysPlaced`, `MapReduceSound`, `DataflowExact`), whose definitions are folds and
recursive operators over data for the larger part.

## 5. Not modelled, and why

* The generator and hashes: pure arithmetic; every draw is a nondeterministic
  choice, every position on the ring a constant.
* Partitions: a message across one is a lost message, which every module has.
* Raft reads and the client's hop of the redirect. The history the lab checks has
  only the rows reported ok, so a lost or pending write that
  commits later is missing from it: the verdict is exact for the history it is given,
  which is what `AnswersRight` says.
* The interplay of the two halves of `batch.ts`, which share the heartbeat and nothing else.
* Counters of bytes, costs, ticks wasted, latencies and percentiles; challenges;
  metrics, `inspect` and every display history; rendering, the stores and labs of the UI.

## 6. Plan

1. Raft reads and the redirect, with the history given to the linearizability checker.
2. Liveness of elections, with the timing of timeouts against latencies.
3. Proofs for the other labs of `MCCluster` and `MCStores`, with folds replaced by closed forms
   where that is as close to the code: the slots of LoadLab, the keys of the hash ring.
