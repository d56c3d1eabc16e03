----------------------------- MODULE Dataflow ------------------------------
(***************************************************************************)
(* The dataflow half of the chapter 10 lab, src/src/modules/batch.ts: maps *)
(* stream their records to the reducers, nothing is written to a disk, and *)
(* a death that hurts starts a new attempt from the input.                 *)
(*                                                                         *)
(* Liveness is the same as in MapReduce, which see.  The progress reports  *)
(* only feed the counters and the stall clock of JT: they are left out,    *)
(* and JT may find an attempt stalled at any ping.                         *)
(***************************************************************************)
EXTENDS Integers, Sequences, FiniteSets, SequencesExt, TLC

CONSTANTS
  Workers, MapTasks, ReduceTasks,   \* sequences, in the order of the code
  Url, Split(_), PartitionOf(_),    \* the urls of a map; the reduce of a url
  Within(_, _), Backlog             \* bounds: see Simulation; hist counts pings,
                                    \* jobs and stalls

VARIABLES state, net, env, hist

Worker  == Range(Workers)
Maps    == Range(MapTasks)
Reduces == Range(ReduceTasks)
Nobody  == "nobody"
Open    == -1                       \* a stream that has not been closed

INSTANCE Simulation WITH Node <- {"JT"} \cup Worker, Killable <- Worker

vars == <<state, net, env, hist>>

NoOps == [t \in {} |-> 0]
Fresh == [incarnation |-> 0, attempt |-> 0, reducerAt |-> NoOps, maps |-> NoOps,
          reduces |-> NoOps, pending |-> <<>>]

Init ==
  /\ state =
       [jt |-> [jobQueued |-> FALSE, started |-> FALSE, over |-> FALSE, attempt |-> 0,
                heard |-> [w \in Worker |-> 0],
                live |-> [w \in Worker |-> TRUE], incarnation |-> [w \in Worker |-> 0],
                placement |-> NoOps, mapsDone |-> {}, reduceDone |-> {},
                output |-> <<>>, awaitingRevive |-> FALSE],
        worker |-> [w \in Worker |-> Fresh]]
  /\ net = [NoEvents EXCEPT !.timers = WithTimers(@, "JT", <<[kind |-> "ping"]>>)]
  /\ env = Calm
  /\ hist = [pings |-> 0, jobs |-> 0, stalls |-> 0, wiped |-> FALSE]

-----------------------------------------------------------------------------
(* The scheduler: operators on [jt, fx], its state and what it has to send.*)

Load(placement, w) == Cardinality({t \in DOMAIN placement : placement[t] = w})

(* The first of the workers that have least to do. *)
LeastLoaded(placement, live) ==
  live[CHOOSE i \in DOMAIN live :
         /\ \A j \in DOMAIN live : Load(placement, live[i]) <= Load(placement, live[j])
         /\ \A j \in 1..i - 1 : Load(placement, live[i]) < Load(placement, live[j])]

PlaceDf(live) ==
  FoldLeft(LAMBDA placement, t : placement @@ (t :> LeastLoaded(placement, live)),
           NoOps, ReduceTasks \o MapTasks)

Held(jt, w, tasks) == {t \in tasks \cap DOMAIN jt.placement : jt.placement[t] = w}

DfStart(jt, w) ==
  <<w, [kind |-> "df-start", attempt |-> jt.attempt, maps |-> Held(jt, w, Maps),
        reduces |-> Held(jt, w, Reduces), reducerAt |-> [r \in Reduces |-> jt.placement[r]]]>>

(* df-start, to all those who have something to do. *)
Starts(jt) ==
  LET to == SelectSeq(Workers, LAMBDA w : jt.live[w] /\ Held(jt, w, Maps \cup Reduces) # {})
  IN [i \in DOMAIN to |-> DfStart(jt, to[i])]

StartDfAttempt(o) ==
  LET live == SelectSeq(Workers, LAMBDA w : o.jt.live[w])
      jt == [o.jt EXCEPT !.awaitingRevive = FALSE, !.attempt = @ + 1, !.mapsDone = {},
                         !.reduceDone = {}, !.output = <<>>, !.placement = PlaceDf(live)]
  IN IF live = <<>> THEN [o EXCEPT !.jt.awaitingRevive = TRUE]
     ELSE [jt |-> jt, fx |-> o.fx \o Starts(jt)]

Underway(jt) == jt.started /\ ~jt.over /\ ~jt.awaitingRevive

(* The death of a worker whose maps are done and that reduces nothing does *)
(* not hurt.                                                               *)
DeclareDead(o, w) ==
  LET jt == [o.jt EXCEPT !.live[w] = FALSE, !.incarnation[w] = @ + 1]
      hurts == Held(jt, w, Reduces) \ jt.reduceDone # {} \/ Held(jt, w, Maps) \ jt.mapsDone # {}
  IN IF Underway(jt) /\ hurts THEN StartDfAttempt([o EXCEPT !.jt = jt]) ELSE [o EXCEPT !.jt = jt]

Checked(dead) ==
  FoldLeft(LAMBDA o, w :
             LET x == IF w \in dead THEN DeclareDead(o, w) ELSE o
             IN [x EXCEPT !.fx = Append(@, <<w, [kind |-> "ping"]>>)],
           [jt |-> state.jt, fx |-> <<>>], Workers)

(* df-start again for all, who ignore it unless they are behind; and a new *)
(* attempt if this one is stalled.                                         *)
OnPingTimer(dead, stalled) ==
  LET o == Checked(dead)
      again == [o EXCEPT !.fx = @ \o Starts(o.jt)]
      after == IF ~Underway(o.jt) THEN o ELSE IF stalled THEN StartDfAttempt(again) ELSE again
  IN Out([state EXCEPT !.jt = after.jt], after.fx, <<[kind |-> "ping"]>>)

OnStartJob(n, t) ==
  LET o == StartDfAttempt([jt |-> [state.jt EXCEPT !.started = TRUE], fx |-> <<>>])
  IN Out([state EXCEPT !.jt = o.jt], o.fx, <<>>)

OnPong(from, n, m) ==
  LET jt == [state.jt EXCEPT !.heard[from] = IF from \in env.dead THEN @ ELSE env.falls[from]]
      back == [jt |-> [jt EXCEPT !.live[from] = TRUE], fx |-> <<>>]
      o == IF jt.awaitingRevive THEN StartDfAttempt(back) ELSE back
  IN CASE jt.live[from] -> Quiet([state EXCEPT !.jt = jt])
       [] ~jt.live[from] /\ m.incarnation = jt.incarnation[from] ->
            Out([state EXCEPT !.jt = o.jt], o.fx, <<>>)
       [] OTHER ->
            Out([state EXCEPT !.jt = jt],
                <<<<from, [kind |-> "reset", incarnation |-> jt.incarnation[from]]>>>>, <<>>)

OnMapDone(from, n, m) ==
  Quiet(IF m.attempt # state.jt.attempt THEN state
        ELSE [state EXCEPT !.jt.mapsDone = @ \cup {m.task}])

OnReduceDone(from, n, m) ==
  LET jt == [state.jt EXCEPT !.reduceDone = @ \cup {m.task},
                             !.output = Append(@, [task |-> m.task, rows |-> m.rows])]
  IN Quiet(IF m.attempt # state.jt.attempt \/ m.task \in state.jt.reduceDone THEN state
           ELSE [state EXCEPT !.jt = [jt EXCEPT !.over = @ \/ jt.reduceDone = Reduces]])

-----------------------------------------------------------------------------
(* A worker: [w, timers], its state and the timers to set.                 *)

RecordTimer(w, m) == [kind |-> "df-record", task |-> m, attempt |-> w.attempt, nonce |-> w.maps[m].nonce]
OutputTimer(w, r) == [kind |-> "df-output", task |-> r, attempt |-> w.attempt, nonce |-> w.reduces[r].nonce]

(* Closed is enough. *)
DrainedWhenClosed(op) == \A m \in Maps : op.closedAt[m] # Open

(* All streams closed, and all that was sent on them is here.              *)
Drained(op) == \A m \in Maps : op.closedAt[m] # Open /\ op.receivedFrom[m] = op.closedAt[m]

MaybeArmDfOutput(x, r) ==
  LET w == [x.w EXCEPT !.reduces[r] = [@ EXCEPT !.outputArmed = TRUE, !.nonce = @ + 1]]
  IN IF x.w.reduces[r].outputArmed \/ ~Drained(x.w.reduces[r]) THEN x
     ELSE [w |-> w, timers |-> Append(x.timers, OutputTimer(w, r))]

ApplyDfShuffle(x, d) ==
  LET r == IF d.kind = "df-record" THEN PartitionOf(d.url) ELSE d.reduce
      op == [x.w.reduces[r] EXCEPT !.agg[d.url] = @ + 1, !.receivedFrom[d.from] = @ + 1]
      close == [x.w.reduces[r] EXCEPT !.closedAt[d.from] = d.sent]
  IN CASE r \notin DOMAIN x.w.reduces -> x
       [] r \in DOMAIN x.w.reduces /\ d.kind = "df-record" ->
            MaybeArmDfOutput([x EXCEPT !.w.reduces[r] = op], r)
       [] r \in DOMAIN x.w.reduces /\ d.kind = "df-stream-close" ->
            IF x.w.reduces[r].closedAt[d.from] # Open THEN x
            ELSE MaybeArmDfOutput([x EXCEPT !.w.reduces[r] = close], r)

Sent(m, r) == Len(SelectSeq(Split(m), LAMBDA u : PartitionOf(u) = r))

(* The next record of a map goes to its reducer; after the last one, all   *)
(* reducers are told how many they were sent.                              *)
OnRecordTimer(n, t) ==
  LET w  == state.worker[n]
      op == w.maps[t.task]
      url == Split(t.task)[op.cursor + 1]
      last == op.cursor + 1 = Len(Split(t.task))
      next == [w EXCEPT !.maps[t.task] = [cursor |-> op.cursor + 1, done |-> last,
                                          nonce |-> IF last THEN op.nonce ELSE op.nonce + 1]]
      record == <<w.reducerAt[PartitionOf(url)],
                  [kind |-> "df-record", url |-> url, from |-> t.task, attempt |-> w.attempt]>>
      closes == [i \in DOMAIN ReduceTasks |->
                   <<w.reducerAt[ReduceTasks[i]],
                     [kind |-> "df-stream-close", from |-> t.task, reduce |-> ReduceTasks[i],
                      attempt |-> w.attempt, sent |-> Sent(t.task, ReduceTasks[i])]>>]
      done == <<"JT", [kind |-> "df-map-done", task |-> t.task, attempt |-> w.attempt]>>
      mine == t.attempt = w.attempt /\ t.task \in DOMAIN w.maps
  IN IF ~mine \/ op.done \/ op.nonce # t.nonce THEN Quiet(state)
     ELSE Out([state EXCEPT !.worker[n] = next],
              <<record>> \o (IF last THEN Append(closes, done) ELSE <<>>),
              IF last THEN <<>> ELSE <<RecordTimer(next, t.task)>>)

OnOutputTimer(n, t) ==
  LET w == state.worker[n]
      mine == /\ t.attempt = w.attempt /\ t.task \in DOMAIN w.reduces
              /\ w.reduces[t.task].outputArmed /\ w.reduces[t.task].nonce = t.nonce
  IN Out(state, IF ~mine THEN <<>>
                ELSE <<<<"JT", [kind |-> "df-reduce-done", task |-> t.task, attempt |-> w.attempt,
                                rows |-> w.reduces[t.task].agg]>>>>, <<>>)

(* now > expectedFireAt: the timer came due while the worker was dead, or  *)
(* it fired; an output is then sent again.                                 *)
OnPing(from, n, m) ==
  LET w == state.worker[n]
      Gone(t) == <<n, t>> \notin DOMAIN net.timers
      maps == {x \in DOMAIN w.maps : ~w.maps[x].done /\ Gone(RecordTimer(w, x))}
      reduces == {r \in DOMAIN w.reduces : w.reduces[r].outputArmed /\ Gone(OutputTimer(w, r))}
      next == [w EXCEPT
                 !.maps = [x \in DOMAIN @ |-> IF x \in maps THEN [@[x] EXCEPT !.nonce = @ + 1] ELSE @[x]],
                 !.reduces = [r \in DOMAIN @ |-> IF r \in reduces THEN [@[r] EXCEPT !.nonce = @ + 1] ELSE @[r]]]
  IN Out([state EXCEPT !.worker[n] = next],
         <<<<"JT", [kind |-> "pong", incarnation |-> w.incarnation]>>>>,
         SetToSeq({RecordTimer(next, x) : x \in maps} \cup {OutputTimer(next, r) : r \in reduces}))

OnReset(from, n, m) ==
  Out([state EXCEPT !.worker[n] = [Fresh EXCEPT !.incarnation = m.incarnation]],
      <<<<"JT", [kind |-> "pong", incarnation |-> m.incarnation]>>>>, <<>>)

Begun(w, m) ==
  [w EXCEPT !.attempt = m.attempt, !.reducerAt = m.reducerAt,
     !.maps = [x \in m.maps |-> [cursor |-> 0, done |-> FALSE, nonce |-> 1]],
     !.reduces = [r \in m.reduces |->
                    [agg |-> [u \in Url |-> 0], receivedFrom |-> [x \in Maps |-> 0],
                     closedAt |-> [x \in Maps |-> Open], outputArmed |-> FALSE, nonce |-> 0]],
     !.pending = SelectSeq(@, LAMBDA d : d.attempt > m.attempt)]

(* An attempt that is not newer is ignored; what came before the start of  *)
(* this one is taken in now.                                               *)
OnStart(from, n, m) ==
  LET w == Begun(state.worker[n], m)
      early == SelectSeq(state.worker[n].pending, LAMBDA d : d.attempt = m.attempt)
      x == FoldLeft(ApplyDfShuffle,
                    [w |-> w, timers |-> SetToSeq({RecordTimer(w, t) : t \in m.maps})], early)
  IN IF m.attempt <= state.worker[n].attempt THEN Quiet(state)
     ELSE Out([state EXCEPT !.worker[n] = x.w], <<>>, x.timers)

OnShuffle(from, n, m) ==
  LET w == state.worker[n]
      x == ApplyDfShuffle([w |-> w, timers |-> <<>>], m)
  IN CASE m.attempt > w.attempt -> Quiet([state EXCEPT !.worker[n].pending = Append(@, m)])
       [] m.attempt < w.attempt -> Quiet(state)
       [] OTHER -> Out([state EXCEPT !.worker[n] = x.w], <<>>, x.timers)

-----------------------------------------------------------------------------
Silent == {w \in Worker : w \in env.dead \/ state.jt.heard[w] < env.falls[w]}

RunJob ==
  /\ hist' = [hist EXCEPT !.jobs = @ + 1] /\ Within(env, hist')
  /\ External("JT", Out([state EXCEPT !.jt.jobQueued = TRUE], <<>>,
                        IF state.jt.jobQueued THEN <<>> ELSE <<[kind |-> "start-job"]>>))

(* The next round, a PING_EVERY later, finds the pings of this one arrived.*)
Ping ==
  /\ \A w \in Worker : \A m \in InFlight(<<"JT", w>>) : m.kind # "ping"
  /\ \E dead \in SUBSET {w \in Silent : state.jt.live[w]}, stalled \in BOOLEAN :
       /\ hist' = [hist EXCEPT !.pings = @ + 1, !.stalls = IF stalled THEN @ + 1 ELSE @]
       /\ Within(env, hist')
       /\ Fire("ping", LAMBDA n, t : OnPingTimer(dead, stalled))

(* A worker that is in the attempt that counts forgets it. *)
Reset ==
  /\ Receive("reset", OnReset)
  /\ hist' = [hist EXCEPT !.wiped = @ \/ \E w \in Worker :
       /\ state'.worker[w] # state.worker[w]
       /\ state.worker[w].attempt = state.jt.attempt /\ state.jt.attempt > 0]

Next ==
  \/ RunJob \/ Ping \/ Reset \/ Fault
  \/ /\ \/ Fire("start-job", OnStartJob) \/ Receive("pong", OnPong)
        \/ Receive("df-map-done", OnMapDone) \/ Receive("df-reduce-done", OnReduceDone)
        \/ Fire("df-record", OnRecordTimer) \/ Fire("df-output", OnOutputTimer)
        \/ Receive("ping", OnPing) \/ Receive("df-start", OnStart)
        \/ Receive("df-record", OnShuffle) \/ Receive("df-stream-close", OnShuffle)
     /\ UNCHANGED hist

Spec == Init /\ [][Next]_vars

-----------------------------------------------------------------------------
(* Properties.                                                             *)

TypeOK ==
  /\ DOMAIN state.jt.placement \in {{}, Maps \cup Reduces}
  /\ state.jt.reduceDone \subseteq Reduces /\ state.jt.mapsDone \subseteq Maps
  /\ \A w \in Worker :
       /\ state.worker[w].attempt <= state.jt.attempt
       /\ state.worker[w].incarnation <= state.jt.incarnation[w]
       /\ \A d \in Range(state.worker[w].pending) :
            d.attempt \in state.worker[w].attempt + 1..state.jt.attempt

Expected(r) ==
  [u \in Url |-> IF PartitionOf(u) # r THEN 0
                 ELSE Len(SelectSeq(FlattenSeq([i \in DOMAIN MapTasks |-> Split(MapTasks[i])]),
                                    LAMBDA v : v = u))]

(* The output of an attempt has the counts of each reduce once and exactly *)
(* (batch.property.test.ts:42).                                            *)
OutputExact ==
  LET out == state.jt.output
  IN /\ \A i \in DOMAIN out : out[i].rows = Expected(out[i].task)
     /\ Len(out) = Cardinality(state.jt.reduceDone)
     /\ state.jt.over => state.jt.reduceDone = Reduces

(* It is so as long as no worker forgets the attempt that counts: records  *)
(* of aborted attempts, records before the start, starts that overtake one *)
(* another, deaths nobody notices and reports sent twice do not show in    *)
(* what is counted (batch.ts:387-405, 487-550, 612-644, 742-774).          *)
OutputExactUnwiped == ~hist.wiped => OutputExact
=============================================================================
