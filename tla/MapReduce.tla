----------------------------- MODULE MapReduce ------------------------------
(***************************************************************************)
(* The MapReduce half of the chapter 10 lab, src/src/modules/batch.ts: the *)
(* scheduler JT, which is never killed, and workers that die and come      *)
(* back, sometimes before anybody notices.                                 *)
(*                                                                         *)
(* A file is told by its map task, so the rows of a reduce are the set of  *)
(* map tasks they come from; records are counted, waste is not.  Time is   *)
(* left out: a ping may come at any time, and JT declares dead only those  *)
(* who were down since it last heard from them (DEAD_AFTER is longer than  *)
(* a ping and its answer), at once, later or never.                        *)
(***************************************************************************)
EXTENDS Integers, Sequences, FiniteSets, SequencesExt

CONSTANTS
  Workers, MapTasks, ReduceTasks,   \* sequences, in the order of the code
  Records,                          \* of every task
  Within(_, _), Backlog             \* bounds: see Simulation; hist counts pings,
                                    \* jobs and retries of fetches

VARIABLES state, net, env, hist

Worker == Range(Workers)
Maps   == Range(MapTasks)
Reduces == Range(ReduceTasks)
Tasks  == MapTasks \o ReduceTasks     \* TASK_ORDER
Nobody == "nobody"

INSTANCE Simulation WITH Node <- {"JT"} \cup Worker, Killable <- Worker

vars == <<state, net, env, hist>>

NoRun == [task |-> "none", attempt |-> 0, phase |-> "idle", recordsDone |-> 0,
          sources |-> [m \in Maps |-> Nobody], fetched |-> {}, nonce |-> 0]

Init ==
  /\ state =
       [jt |-> [jobQueued |-> FALSE, phase |-> "idle",
                heard |-> [w \in Worker |-> 0],
                live |-> [w \in Worker |-> TRUE], incarnation |-> [w \in Worker |-> 0],
                rows |-> [t \in Range(Tasks) |->
                            [status |-> "waiting", worker |-> Nobody, attempt |-> 0, acked |-> FALSE]],
                diskAt |-> [m \in Maps |-> Nobody],
                fetched |-> [r \in Reduces |-> {}],
                output |-> <<>>],
        worker |-> [w \in Worker |-> [incarnation |-> 0, run |-> NoRun, disk |-> {}]]]
  /\ net = [NoEvents EXCEPT !.timers = WithTimers(@, "JT", <<[kind |-> "ping"]>>)]
  /\ env = Calm
  /\ hist = [pings |-> 0, jobs |-> 0, retries |-> 0, rewiped |-> FALSE]

-----------------------------------------------------------------------------
(* The scheduler: operators on [jt, fx], its state and what it has to send.*)

Msg(to, m) == <<to, m>>

AssignMsg(jt, t) ==
  LET row == jt.rows[t]
  IN IF t \in Reduces
     THEN Msg(row.worker, [kind |-> "assign-reduce", task |-> t, attempt |-> row.attempt,
                           sources |-> jt.diskAt])
     ELSE Msg(row.worker, [kind |-> "assign-map", task |-> t, attempt |-> row.attempt])

Statuses(jt, status) == {t \in Range(Tasks) : jt.rows[t].status = status}

Idle(jt) ==
  SelectSeq(Workers, LAMBDA w : jt.live[w] /\ \A t \in Statuses(jt, "running") : jt.rows[t].worker # w)

(* A task given again is taken for acknowledged already. *)
ScheduleMrStillAcked(o) ==
  FoldLeft(LAMBDA x, t :
             IF x.jt.rows[t].status # "runnable" \/ Idle(x.jt) = <<>> THEN x
             ELSE LET jt == [x.jt EXCEPT !.rows[t] = [@ EXCEPT !.status = "running", !.worker = Head(Idle(x.jt))]]
                  IN [jt |-> jt, fx |-> Append(x.fx, AssignMsg(jt, t))],
           o, Tasks)

(* The first idle live worker takes the first runnable task, and so on.    *)
ScheduleMr(o) ==
  FoldLeft(LAMBDA x, t :
             IF x.jt.rows[t].status # "runnable" \/ Idle(x.jt) = <<>> THEN x
             ELSE LET jt == [x.jt EXCEPT !.rows[t] =
                               [@ EXCEPT !.status = "running", !.worker = Head(Idle(x.jt)),
                                         !.acked = FALSE]]
                  IN [jt |-> jt, fx |-> Append(x.fx, AssignMsg(jt, t))],
           o, Tasks)

Requeued(row) == [row EXCEPT !.status = "runnable", !.worker = Nobody, !.attempt = @ + 1]

(* A reduce not done that has not pulled the output of m. *)
StillNeeds(jt, r, m) == jt.rows[r].status # "done" /\ m \notin jt.fetched[r]

(* The running task of w starts again elsewhere, and so do the maps whose  *)
(* output died with its disk while a reduce needs it.                      *)
DeclareDead(o, w) ==
  LET running == {t \in Statuses(o.jt, "running") : o.jt.rows[t].worker = w}
      jt1 == [o.jt EXCEPT !.live[w] = FALSE, !.incarnation[w] = @ + 1,
                !.rows = [t \in DOMAIN @ |-> IF t \in running THEN Requeued(@[t]) ELSE @[t]],
                !.fetched = [r \in Reduces |-> IF r \in running THEN {} ELSE @[r]]]
      onDisk == {m \in Maps : jt1.diskAt[m] = w /\ jt1.rows[m].status = "done"}
      lost == {m \in onDisk : \E r \in Reduces : StillNeeds(jt1, r, m)}
      jt2 == [jt1 EXCEPT
                !.diskAt = [m \in Maps |-> IF m \in onDisk THEN Nobody ELSE @[m]],
                !.rows = [t \in DOMAIN @ |-> IF t \in lost THEN Requeued(@[t]) ELSE @[t]]]
  IN ScheduleMr([o EXCEPT !.jt = jt2])

(* Ping: the deaths that JT takes note of, and a ping for everybody.       *)
Checked(dead) ==
  FoldLeft(LAMBDA o, w :
             LET x == IF w \in dead THEN DeclareDead(o, w) ELSE o
             IN [x EXCEPT !.fx = Append(@, Msg(w, [kind |-> "ping"]))],
           [jt |-> state.jt, fx |-> <<>>], Workers)

(* After the death checks: what an invisible kill may have dropped is sent *)
(* again, and reducers learn where outputs are now.                        *)
Resends(jt) ==
  LET unacked == SelectSeq(Tasks, LAMBDA t : /\ jt.rows[t].status = "running"
                                             /\ jt.live[jt.rows[t].worker] /\ ~jt.rows[t].acked)
      running == SelectSeq(ReduceTasks, LAMBDA r : /\ jt.rows[r].status = "running"
                                                   /\ jt.live[jt.rows[r].worker])
      placed  == SelectSeq(MapTasks, LAMBDA m : jt.diskAt[m] # Nobody)
      Relocate(r) == [i \in DOMAIN placed |->
                        Msg(jt.rows[r].worker, [kind |-> "map-relocated", task |-> placed[i],
                                                worker |-> jt.diskAt[placed[i]]])]
  IN [i \in DOMAIN unacked |-> AssignMsg(jt, unacked[i])]
       \o FlattenSeq([i \in DOMAIN running |-> Relocate(running[i])])

Resent(o) == [o EXCEPT !.fx = @ \o Resends(o.jt)]

(* A done map that a running reduce needs and no disk has. *)
Stranded(jt) ==
  {m \in Maps : /\ jt.rows[m].status = "done" /\ jt.diskAt[m] = Nobody
                /\ \E r \in Reduces : jt.rows[r].status = "running" /\ m \notin jt.fetched[r]}

OnPingTimer(dead) ==
  LET sent == Resent(Checked(dead))
      o == ScheduleMr([sent EXCEPT !.jt.rows = [t \in DOMAIN @ |->
             IF t \in Stranded(sent.jt) THEN Requeued(@[t]) ELSE @[t]]])
  IN Out([state EXCEPT !.jt = o.jt], o.fx, <<[kind |-> "ping"]>>)

OnStartJob(n, t) ==
  LET o == ScheduleMr([jt |-> [state.jt EXCEPT !.phase = "map",
                         !.rows = [x \in DOMAIN @ |->
                            IF x \in Maps THEN [@[x] EXCEPT !.status = "runnable"] ELSE @[x]]],
                       fx |-> <<>>])
  IN Out([state EXCEPT !.jt = o.jt], o.fx, <<>>)

(* A worker that has applied the reset is back; another is sent one.       *)
OnPong(from, n, m) ==
  LET jt == [state.jt EXCEPT !.heard[from] = IF from \in env.dead THEN @ ELSE env.falls[from]]
      back == ScheduleMr([jt |-> [jt EXCEPT !.live[from] = TRUE], fx |-> <<>>])
  IN CASE jt.live[from] -> Quiet([state EXCEPT !.jt = jt])
       [] ~jt.live[from] /\ m.incarnation = jt.incarnation[from] ->
            Out([state EXCEPT !.jt = back.jt], back.fx, <<>>)
       [] OTHER ->
            Out([state EXCEPT !.jt = jt],
                <<Msg(from, [kind |-> "reset", incarnation |-> jt.incarnation[from]])>>, <<>>)

Current(row, m) == row.attempt = m.attempt /\ row.status = "running"

OnRecordDone(from, n, m) ==
  Quiet(IF Current(state.jt.rows[m.task], m) THEN [state EXCEPT !.jt.rows[m.task].acked = TRUE]
        ELSE state)

(* The last of the maps opens the barrier; a map run again tells the       *)
(* running reducers where it is now.                                       *)
OnMapDone(from, n, m) ==
  LET jt == [state.jt EXCEPT !.rows[m.task] = [@ EXCEPT !.acked = TRUE, !.status = "done"],
                             !.diskAt[m.task] = from]
      barrier == jt.phase = "map" /\ \A x \in Maps : jt.rows[x].status = "done"
      open == [jt EXCEPT !.phase = "reduce",
                 !.rows = [t \in DOMAIN @ |-> IF t \in Reduces /\ @[t].status = "waiting"
                                              THEN [@[t] EXCEPT !.status = "runnable"] ELSE @[t]]]
      running == SelectSeq(ReduceTasks, LAMBDA r : jt.phase = "reduce" /\ jt.rows[r].status = "running")
      moved == [i \in DOMAIN running |->
                  Msg(jt.rows[running[i]].worker,
                      [kind |-> "map-relocated", task |-> m.task, worker |-> from])]
      o == ScheduleMr([jt |-> IF barrier THEN open ELSE jt, fx |-> moved])
  IN IF Current(state.jt.rows[m.task], m) THEN Out([state EXCEPT !.jt = o.jt], o.fx, <<>>)
     ELSE Quiet(state)

OnFetched(from, n, m) ==
  Quiet(IF state.jt.rows[m.reduce].attempt # m.attempt THEN state
        ELSE [state EXCEPT !.jt.rows[m.reduce].acked = TRUE, !.jt.fetched[m.reduce] = @ \cup {m.task}])

OnReduceDone(from, n, m) ==
  LET jt == [state.jt EXCEPT !.rows[m.task] = [@ EXCEPT !.acked = TRUE, !.status = "done"],
                             !.output = Append(@, [task |-> m.task, rows |-> m.rows])]
      all == \A r \in Reduces : jt.rows[r].status = "done"
      o == ScheduleMr([jt |-> jt, fx |-> <<>>])
  IN CASE ~Current(state.jt.rows[m.task], m) -> Quiet(state)
       [] Current(state.jt.rows[m.task], m) /\ all ->
            Quiet([state EXCEPT !.jt = [jt EXCEPT !.phase = "done"]])
       [] OTHER -> Out([state EXCEPT !.jt = o.jt], o.fx, <<>>)

-----------------------------------------------------------------------------
(* A worker: one run at a time, driven by a chain of timers; the timer     *)
(* that counts carries the nonce of the run.                               *)

ChainKind(phase) ==
  CASE phase = "exec" -> "mr-record" [] phase = "disk" -> "mr-disk"
    [] phase = "output" -> "mr-output" [] phase = "fetch" -> "mr-fetch-retry"

ChainTimer(run) ==
  [kind |-> ChainKind(run.phase), task |-> run.task, attempt |-> run.attempt, nonce |-> run.nonce]

(* The chain goes on in the run's phase.                                   *)
Armed(w, run, fx) ==
  LET next == [run EXCEPT !.nonce = @ + 1]
  IN Out([state EXCEPT !.worker[w].run = next], fx, <<ChainTimer(next)>>)

ToJT(kind, run) == Msg("JT", [kind |-> kind, task |-> run.task, attempt |-> run.attempt])

OfRun(n, t) == state.worker[n].run.phase # "idle" /\ t = ChainTimer(state.worker[n].run)

OnRecordTimer(n, t) ==
  LET run == [state.worker[n].run EXCEPT !.recordsDone = @ + 1]
      phase == IF run.recordsDone < Records THEN "exec"
               ELSE IF run.task \in Reduces THEN "output" ELSE "disk"
  IN IF OfRun(n, t) THEN Armed(n, [run EXCEPT !.phase = phase], <<ToJT("record-done", run)>>)
     ELSE Quiet(state)

OnDiskTimer(n, t) ==
  LET run == state.worker[n].run
  IN IF OfRun(n, t)
     THEN Out([state EXCEPT !.worker[n].run = NoRun, !.worker[n].disk = @ \cup {run.task}],
              <<ToJT("map-done", run)>>, <<>>)
     ELSE Quiet(state)

Fetch(run, m) ==
  Msg(run.sources[m], [kind |-> "fetch", task |-> m, reduce |-> run.task, attempt |-> run.attempt])

Fetches(run) ==
  LET missing == SelectSeq(MapTasks, LAMBDA m : m \notin run.fetched /\ run.sources[m] # Nobody)
  IN [i \in DOMAIN missing |-> Fetch(run, missing[i])]

OnFetchRetryTimer(n, t) ==
  IF OfRun(n, t) THEN Armed(n, state.worker[n].run, Fetches(state.worker[n].run)) ELSE Quiet(state)

OnOutputTimer(n, t) ==
  LET run == state.worker[n].run
  IN IF OfRun(n, t)
     THEN Out([state EXCEPT !.worker[n].run = NoRun],
              <<Msg("JT", [kind |-> "reduce-done", task |-> run.task, attempt |-> run.attempt,
                           rows |-> run.fetched])>>, <<>>)
     ELSE Quiet(state)

(* now > expectedFireAt: the timer of the chain came due while the worker  *)
(* was dead, so it is not queued any more.                                 *)
ChainBroken(n) ==
  LET run == state.worker[n].run
  IN run.phase # "idle" /\ <<n, ChainTimer(run)>> \notin DOMAIN net.timers

OnPing(from, n, m) ==
  LET pong == Msg("JT", [kind |-> "pong", incarnation |-> state.worker[n].incarnation])
  IN IF ChainBroken(n) THEN Armed(n, state.worker[n].run, <<pong>>) ELSE Out(state, <<pong>>, <<>>)

OnReset(from, n, m) ==
  Out([state EXCEPT !.worker[n] = [incarnation |-> m.incarnation, run |-> NoRun, disk |-> {}]],
      <<Msg("JT", [kind |-> "pong", incarnation |-> m.incarnation])>>, <<>>)

Running(n, m) == state.worker[n].run.task = m.task /\ state.worker[n].run.attempt = m.attempt

(* An output already on disk is reported again. *)
OnAssignMap(from, n, m) ==
  LET run == [NoRun EXCEPT !.task = m.task, !.attempt = m.attempt, !.phase = "exec"]
  IN CASE m.task \in state.worker[n].disk -> Out(state, <<ToJT("map-done", run)>>, <<>>)
       [] m.task \notin state.worker[n].disk /\ Running(n, m) -> Quiet(state)
       [] OTHER -> Armed(n, run, <<>>)

OnAssignReduce(from, n, m) ==
  LET run == [NoRun EXCEPT !.task = m.task, !.attempt = m.attempt, !.phase = "fetch",
                           !.sources = m.sources]
  IN IF Running(n, m) THEN Quiet(state) ELSE Armed(n, run, Fetches(run))

OnFetch(from, n, m) ==
  Out(state, IF m.task \in state.worker[n].disk
             THEN <<Msg(from, [kind |-> "fetch-resp", task |-> m.task, reduce |-> m.reduce,
                               attempt |-> m.attempt])>> ELSE <<>>, <<>>)

OnFetchResp(from, n, m) ==
  LET run == [state.worker[n].run EXCEPT !.fetched = @ \cup {m.task}]
      told == <<Msg("JT", [kind |-> "fetched", task |-> m.task, reduce |-> m.reduce,
                           attempt |-> m.attempt])>>
      wanted == /\ run.task = m.reduce /\ run.attempt = m.attempt /\ run.phase = "fetch"
                /\ m.task \notin state.worker[n].run.fetched
  IN CASE ~wanted -> Quiet(state)
       [] wanted /\ run.fetched = Maps -> Armed(n, [run EXCEPT !.phase = "exec"], told)
       [] OTHER -> Out([state EXCEPT !.worker[n].run = run], told, <<>>)

OnMapRelocated(from, n, m) ==
  Quiet(IF state.worker[n].run.phase = "fetch"
        THEN [state EXCEPT !.worker[n].run.sources[m.task] = m.worker] ELSE state)

-----------------------------------------------------------------------------
Silent == {w \in Worker : w \in env.dead \/ state.jt.heard[w] < env.falls[w]}

RunJob ==
  /\ hist' = [hist EXCEPT !.jobs = @ + 1] /\ Within(env, hist')
  /\ External("JT", Out([state EXCEPT !.jt.jobQueued = TRUE], <<>>,
                        IF state.jt.jobQueued THEN <<>> ELSE <<[kind |-> "start-job"]>>))

(* The next round, a PING_EVERY later, finds the pings of this one arrived.*)
Ping ==
  /\ \A w \in Worker : \A m \in InFlight(<<"JT", w>>) : m.kind # "ping"
  /\ hist' = [hist EXCEPT !.pings = @ + 1] /\ Within(env, hist')
  /\ \E dead \in SUBSET {w \in Silent : state.jt.live[w]} :
       Fire("ping", LAMBDA n, t : OnPingTimer(dead))

RetryFetch ==
  /\ Fire("mr-fetch-retry", OnFetchRetryTimer)
  /\ hist' = [hist EXCEPT !.retries = @ + 1] /\ Within(env, hist')

(* A reset that the worker had applied before. *)
Reset ==
  /\ Receive("reset", OnReset)
  /\ hist' = [hist EXCEPT !.rewiped = @ \/ \E w \in Worker :
       /\ \E m \in InFlight(<<"JT", w>>) : m.kind = "reset"
       /\ Len(net'.links[<<"JT", w>>]) < Len(net.links[<<"JT", w>>])
       /\ state'.worker[w].incarnation = state.worker[w].incarnation]

SchedulerNext ==
  \/ Fire("start-job", OnStartJob) \/ Receive("pong", OnPong)
  \/ Receive("record-done", OnRecordDone) \/ Receive("map-done", OnMapDone)
  \/ Receive("fetched", OnFetched) \/ Receive("reduce-done", OnReduceDone)

WorkerNext ==
  \/ Fire("mr-record", OnRecordTimer) \/ Fire("mr-disk", OnDiskTimer)
  \/ Fire("mr-output", OnOutputTimer)
  \/ Receive("ping", OnPing)
  \/ Receive("assign-map", OnAssignMap) \/ Receive("assign-reduce", OnAssignReduce)
  \/ Receive("fetch", OnFetch) \/ Receive("fetch-resp", OnFetchResp)
  \/ Receive("map-relocated", OnMapRelocated)

Next ==
  \/ RunJob \/ Ping \/ RetryFetch \/ Reset \/ Fault
  \/ (SchedulerNext \/ WorkerNext) /\ UNCHANGED hist

Spec == Init /\ [][Next]_vars

-----------------------------------------------------------------------------
(* Properties.                                                             *)

TypeOK ==
  /\ \A t \in Range(Tasks) :
       LET row == state.jt.rows[t]
       IN /\ row.status \in {"waiting", "runnable", "running", "done"}
          /\ row.status = "running" => row.worker \in Worker
  /\ \A w \in Worker :
       /\ state.worker[w].disk \subseteq Maps /\ state.worker[w].run.fetched \subseteq Maps
       /\ state.worker[w].incarnation <= state.jt.incarnation[w]

(* However often tasks are assigned again, run twice or reported late, the *)
(* output has the rows of each reduce at most once, made of every map's    *)
(* output, and the job is over when it has all (batch.ts:435-481).         *)
OutputOnce ==
  LET out == state.jt.output
  IN /\ \A i, j \in DOMAIN out : out[i].task = out[j].task => i = j
     /\ \A i \in DOMAIN out : out[i].rows = Maps
     /\ state.jt.phase = "done" <=> {out[i].task : i \in DOMAIN out} = Reduces

(* What JT believes of a worker it calls live: a task acknowledged and not *)
(* yet over is being run there, or its report is on its way.  Such a task  *)
(* is never assigned again (batch.ts:24-32), so otherwise the job stops.   *)
NoStrandedTask ==
  \A t \in Statuses(state.jt, "running") :
    LET row == state.jt.rows[t]
        w   == row.worker
    IN state.jt.live[w] /\ row.acked /\ w \notin Silent =>
         \/ state.worker[w].run.task = t /\ state.worker[w].run.attempt = row.attempt
         \/ \E m \in InFlight(<<w, "JT">>) :
              m.kind \in {"map-done", "reduce-done"} /\ m.task = t /\ m.attempt = row.attempt

(* The output of a done map is on the disk where JT sends reducers for it, *)
(* while that worker is called live.                                       *)
DiskKept ==
  \A m \in Maps :
    LET w == state.jt.diskAt[m] IN w # Nobody /\ state.jt.live[w] => m \in state.worker[w].disk

(* Both, unless a second copy of a reset reached a worker already back: a  *)
(* death declared, a revival, a blackout nobody noticed, assignments and   *)
(* answers of the past leave JT's picture of its live workers right        *)
(* (batch.ts:244-287, 335-425, 678-684).                                   *)
PictureRight == ~hist.rewiped => NoStrandedTask /\ DiskKept
=============================================================================
