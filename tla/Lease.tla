------------------------------- MODULE Lease --------------------------------
(***************************************************************************)
(* The lease lock, its workers and the fenced store of the chapter 8 lab,  *)
(* src/src/modules/lease.ts, over the engine's virtual time.               *)
(*                                                                         *)
(* `queue' is the engine's event queue: the messages in flight and the     *)
(* timers, each with the time it is due.  A step takes an event that is    *)
(* due first (events due together are taken in any order; the engine takes *)
(* them in the order they were scheduled), moves `now' to its time and     *)
(* runs the handler of the node it is for.  User commands and faults act   *)
(* at `now', between two events.                                           *)
(***************************************************************************)
EXTENDS Integers, Sequences, FiniteSets

CONSTANTS
  Worker, LOCK, STORE,          \* LEASE_TOPOLOGY
  Nil,
  LEASE_TTL, WRITE_EVERY, WORK_TICKS,
  Latency,                      \* message delays, [min, max] of SimNetwork.opts
  Rate,                         \* clock rates of the clock-skew fault, percent
  Pause,                        \* lengths of the gc-pause fault
  Ticks,                        \* times the clock may stop at with no event due
  Within(_),                    \* bound: how many faults of each kind may happen
  MaxAcquires,                  \* bound: acquire commands
  MaxTime                       \* bound: events due later are not taken

Node == Worker \cup {LOCK, STORE}

Fault == {"drop", "duplicate", "gc-pause", "clock-skew", "kill-node", "fencing"}

ASSUME NodeAssumption == /\ LOCK \notin Worker /\ STORE \notin Worker /\ LOCK # STORE
                         /\ Nil \notin Node /\ Nil \notin Int
ASSUME TimeAssumption == /\ {LEASE_TTL, WRITE_EVERY, WORK_TICKS} \subseteq Nat
                         /\ Latency \cup Rate \cup Pause \cup Ticks \subseteq Nat
ASSUME BoundAssumption == {MaxAcquires, MaxTime} \subseteq Nat

VARIABLES
  now, queue, dead,                          \* the engine
  holder, token, line,                       \* the lock: its lease and its queue
  state, lease, grantAt, rate, pausedUntil,  \* the workers; lease is their token
  lastToken, value, fencing,                 \* the store; value is a write's token
  acquires, faults                           \* acquires, and faults of each kind

engineVars == <<now, queue, dead>>
lockVars   == <<holder, token, line>>
leaseVars  == <<state, lease, grantAt>>
workerVars == <<leaseVars, rate, pausedUntil>>
storeVars  == <<lastToken, value, fencing>>
vars == <<engineVars, lockVars, workerVars, storeVars, acquires, faults>>

Init ==
  /\ now = 0 /\ queue = {} /\ dead = {}
  /\ holder = Nil /\ token = 0 /\ line = <<>>
  /\ state = [w \in Worker |-> "idle"]
  /\ lease = [w \in Worker |-> Nil]
  /\ grantAt = [w \in Worker |-> 0]
  /\ rate = [w \in Worker |-> 100]
  /\ pausedUntil = [w \in Worker |-> Nil]
  /\ lastToken = 0 /\ value = 0 /\ fencing = FALSE
  /\ acquires = 0 /\ faults = [f \in Fault |-> 0]

-----------------------------------------------------------------------------
(* The engine: what is scheduled, and what comes next.                     *)

Acquire     == [kind |-> "acquire"]
Grant(t)    == [kind |-> "grant", token |-> t]
Write(t)    == [kind |-> "write", token |-> t]
Reject(t)   == [kind |-> "reject", token |-> t]
Expiry(t)   == [kind |-> "expiry", token |-> t]
Check       == [kind |-> "check"]
Work(t)     == [kind |-> "work", token |-> t]
Wake(inner) == [kind |-> "wake", inner |-> inner]

Event(due, to, from, payload) ==
  [due |-> due, to |-> to, from |-> from, payload |-> payload, copy |-> 0]

(* Two events alike in everything are still two. *)
Put(q, e) == q \cup {IF e \in q THEN [e EXCEPT !.copy = 1] ELSE e}

(* A fault of this kind happens, if the bound lets it. *)
Happens(kind) ==
  faults' = [faults EXCEPT ![kind] = @ + 1] /\ Within(faults')

(* SimNetwork.plan: a message sent at time t is delayed, lost (a drop or a *)
(* partition) or delivered twice.                                          *)
Send(q, t, from, to, payload) ==
  \/ \E d \in Latency :
       queue' = Put(q, Event(t + d, to, from, payload)) /\ UNCHANGED faults
  \/ Happens("drop") /\ queue' = q
  \/ /\ Happens("duplicate")
     /\ \E d1, d2 \in Latency :
          queue' = Put(Put(q, Event(t + d1, to, from, payload)),
                       Event(t + d2, to, from, payload))

NoSend(q) == queue' = q /\ UNCHANGED faults

(* The next event for node n, which is alive. *)
Arrives(n, e) ==
  /\ e.to = n /\ n \notin dead
  /\ e.due <= MaxTime /\ \A x \in queue : e.due <= x.due
  /\ now' = e.due /\ UNCHANGED <<dead, acquires>>

(* Events for a dead node are dropped when they come due. *)
LostAtDead(e) ==
  /\ e.to \in dead
  /\ e.due <= MaxTime /\ \A x \in queue : e.due <= x.due
  /\ now' = e.due /\ queue' = queue \ {e}
  /\ UNCHANGED <<dead, lockVars, workerVars, storeVars, acquires, faults>>

-----------------------------------------------------------------------------
(* The lock.                                                               *)

(* Variants of the grant: the old token handed out again, and the timer    *)
(* armed for the lease before.                                             *)
GrantSameToken(q, to, t) ==
  /\ UNCHANGED token /\ holder' = to
  /\ Send(Put(q, Event(t + LEASE_TTL, LOCK, LOCK, Expiry(token))), t, LOCK, to, Grant(token))

GrantTimerBehind(q, to, t) ==
  /\ token' = token + 1 /\ holder' = to
  /\ Send(Put(q, Event(t + LEASE_TTL, LOCK, LOCK, Expiry(token))), t, LOCK, to, Grant(token + 1))

(* grantTo: a new token, its lease, its expiry timer and the grant. *)
GrantTo(q, to, t) ==
  /\ token' = token + 1 /\ holder' = to
  /\ Send(Put(q, Event(t + LEASE_TTL, LOCK, LOCK, Expiry(token + 1))),
          t, LOCK, to, Grant(token + 1))

(* A release that serves nobody. *)
ReleaseOnly(q, waiting, t) ==
  holder' = Nil /\ line' = waiting /\ UNCHANGED token /\ NoSend(q)

(* Serve whoever waits first, or nobody. *)
ServeNext(q, waiting, t) ==
  IF waiting = <<>>
  THEN holder' = Nil /\ line' = <<>> /\ UNCHANGED token /\ NoSend(q)
  ELSE line' = Tail(waiting) /\ GrantTo(q, Head(waiting), t)

InLine(n) == \E i \in DOMAIN line : line[i] = n

(* An acquire of the holder itself gives its lease up and serves the line, *)
(* itself last; of any other worker it waits, once.                        *)
HandleAcquire(e) ==
  /\ Arrives(LOCK, e) /\ e.payload.kind = "acquire"
  /\ LET q == queue \ {e} IN
     \/ holder = Nil /\ GrantTo(q, e.from, e.due) /\ UNCHANGED line
     \/ holder = e.from /\ ServeNext(q, Append(line, e.from), e.due)
     \/ /\ holder \notin {Nil, e.from} /\ UNCHANGED <<holder, token>> /\ NoSend(q)
        /\ line' = IF InLine(e.from) THEN line ELSE Append(line, e.from)
  /\ UNCHANGED <<workerVars, storeVars>>

(* Only the timer of the current lease may release it. *)
HandleExpiry(e) ==
  /\ Arrives(LOCK, e) /\ e.payload.kind = "expiry"
  /\ IF holder # Nil /\ token = e.payload.token
     THEN ServeNext(queue \ {e}, line, e.due)
     ELSE NoSend(queue \ {e}) /\ UNCHANGED lockVars
  /\ UNCHANGED <<workerVars, storeVars>>

-----------------------------------------------------------------------------
(* A worker.  A paused one defers what arrives to its wake time; a wake    *)
(* ends the pause and is handled as the event it carries.                  *)

Paused(w, t) == pausedUntil[w] # Nil /\ t < pausedUntil[w]

Carried(e) == IF e.payload.kind = "wake" THEN e.payload.inner ELSE e.payload

(* What arrives during a pause is set aside for its end.                   *)
Defer(w, e) ==
  /\ Arrives(w, e) /\ Paused(w, e.due)
  /\ NoSend(Put(queue \ {e}, Event(pausedUntil[w], w, w, Wake(Carried(e)))))
  /\ UNCHANGED <<lockVars, workerVars, storeVars>>

Runs(w, e, kind) ==
  /\ Arrives(w, e) /\ ~Paused(w, e.due) /\ Carried(e).kind = kind
  /\ pausedUntil' = IF e.payload.kind = "wake" THEN [pausedUntil EXCEPT ![w] = Nil]
                                               ELSE pausedUntil
  /\ UNCHANGED <<rate, lockVars, storeVars>>

LocalElapsed(w, t) == (t - grantAt[w]) * rate[w]

(* The boundary tick counted as still valid. *)
ValidAtBoundary(w, t) == LocalElapsed(w, t) <= LEASE_TTL * 100

LooksValid(w, t)   == LocalElapsed(w, t) < LEASE_TTL * 100

(* A lease dropped with its token kept. *)
DropKeepsToken(w) ==
  state' = [state EXCEPT ![w] = "idle"] /\ UNCHANGED <<lease, grantAt>>

DropLease(w) ==
  /\ state' = [state EXCEPT ![w] = "idle"]
  /\ lease' = [lease EXCEPT ![w] = Nil]
  /\ grantAt' = [grantAt EXCEPT ![w] = 0]

Adopt(w, t, due) ==
  /\ state' = [state EXCEPT ![w] = "holding"]
  /\ lease' = [lease EXCEPT ![w] = t]
  /\ grantAt' = [grantAt EXCEPT ![w] = due]

(* A grant is taken when awaited, and when it is newer than the lease held *)
(* (no second check timer then); any other one is ignored.                 *)
HandleGrant(w, e) ==
  /\ Runs(w, e, "grant")
  /\ LET t == Carried(e).token
         q == queue \ {e}
     IN \/ /\ state[w] = "waiting" /\ Adopt(w, t, e.due)
           /\ NoSend(Put(q, Event(e.due + WRITE_EVERY, w, w, Check)))
        \/ /\ state[w] = "holding" /\ t > lease[w] /\ Adopt(w, t, e.due)
           /\ NoSend(q)
        \/ /\ state[w] = "idle" \/ (state[w] = "holding" /\ t <= lease[w])
           /\ UNCHANGED leaseVars /\ NoSend(q)

Holds(w, t) == state[w] = "holding" /\ lease[w] = t

HandleReject(w, e) ==
  /\ Runs(w, e, "reject") /\ NoSend(queue \ {e})
  /\ IF Holds(w, Carried(e).token) THEN DropLease(w) ELSE UNCHANGED leaseVars

(* A lease that looks valid on the worker's clock starts the work, and the *)
(* write will follow without another look.                                 *)
HandleCheck(w, e) ==
  /\ Runs(w, e, "check")
  /\ LET q == queue \ {e} IN
     \/ state[w] # "holding" /\ UNCHANGED leaseVars /\ NoSend(q)
     \/ /\ state[w] = "holding" /\ LooksValid(w, e.due) /\ UNCHANGED leaseVars
        /\ NoSend(Put(Put(q, Event(e.due + WORK_TICKS, w, w, Work(lease[w]))),
                      Event(e.due + WRITE_EVERY, w, w, Check)))
     \/ state[w] = "holding" /\ ~LooksValid(w, e.due) /\ DropLease(w) /\ NoSend(q)

HandleWork(w, e) ==
  /\ Runs(w, e, "work") /\ UNCHANGED leaseVars
  /\ LET t == Carried(e).token IN
     IF Holds(w, t) THEN Send(queue \ {e}, e.due, w, STORE, Write(t))
                    ELSE NoSend(queue \ {e})

-----------------------------------------------------------------------------
(* A comparison that takes the newest lease for an old one. *)
SupersededEarly(t) == fencing /\ t <= lastToken

Superseded(t) == fencing /\ t < lastToken

(* The store: with fencing on, a write older than the newest accepted is   *)
(* rejected; with fencing off it is accepted (a stale accept).             *)
HandleWrite(e) ==
  /\ Arrives(STORE, e) /\ e.payload.kind = "write"
  /\ LET t == e.payload.token
         q == queue \ {e}
     IN IF Superseded(t)
        THEN Send(q, e.due, STORE, e.from, Reject(t)) /\ UNCHANGED <<lastToken, value>>
        ELSE /\ NoSend(q) /\ value' = t
             /\ lastToken' = IF t > lastToken THEN t ELSE lastToken
  /\ UNCHANGED <<fencing, lockVars, workerVars>>

-----------------------------------------------------------------------------
(* Commands and faults, from outside.                                      *)

(* The driver runs the engine up to a time of its own choice. *)
RunUntil(t) ==
  /\ now < t /\ \A x \in queue : t < x.due
  /\ now' = t
  /\ UNCHANGED <<queue, dead, lockVars, workerVars, storeVars, acquires, faults>>

AcquireCommand(w) ==
  /\ w \notin dead /\ state[w] = "idle"
  /\ acquires < MaxAcquires /\ acquires' = acquires + 1
  /\ state' = [state EXCEPT ![w] = "waiting"]
  /\ Send(queue, now, w, LOCK, Acquire)
  /\ UNCHANGED <<now, dead, lease, grantAt, rate, pausedUntil, lockVars, storeVars>>

TurnFencing ==
  /\ STORE \notin dead /\ Happens("fencing")
  /\ fencing' = ~fencing
  /\ UNCHANGED <<engineVars, lockVars, workerVars, lastToken, value, acquires>>

GcPause(w) ==
  /\ w \notin dead /\ Happens("gc-pause")
  /\ \E ticks \in Pause : pausedUntil' = [pausedUntil EXCEPT ![w] = now + ticks]
  /\ UNCHANGED <<engineVars, lockVars, leaseVars, rate, storeVars, acquires>>

ClockSkew(w) ==
  /\ w \notin dead /\ Happens("clock-skew")
  /\ \E r \in Rate : rate' = [rate EXCEPT ![w] = r]
  /\ UNCHANGED <<engineVars, lockVars, leaseVars, pausedUntil, storeVars, acquires>>

Kill(n) ==
  /\ n \notin dead /\ Happens("kill-node")
  /\ dead' = dead \cup {n}
  /\ UNCHANGED <<now, queue, lockVars, workerVars, storeVars, acquires>>

Revive(n) ==
  /\ n \in dead /\ dead' = dead \ {n}
  /\ UNCHANGED <<now, queue, lockVars, workerVars, storeVars, acquires, faults>>

WorkerStep(w, e) ==
  \/ Defer(w, e) \/ HandleGrant(w, e) \/ HandleReject(w, e)
  \/ HandleCheck(w, e) \/ HandleWork(w, e)

Deliver(e) ==
  \/ LostAtDead(e) \/ HandleAcquire(e) \/ HandleExpiry(e) \/ HandleWrite(e)
  \/ \E w \in Worker : WorkerStep(w, e)

Command ==
  \/ \E w \in Worker : AcquireCommand(w) \/ GcPause(w) \/ ClockSkew(w)
  \/ TurnFencing \/ \E t \in Ticks : RunUntil(t)
  \/ \E n \in Node : Kill(n) \/ Revive(n)

Next == (\E e \in queue : Deliver(e)) \/ Command

Spec == Init /\ [][Next]_vars

(* runUntil takes every event that is due, for as long as there is one. *)
FairSpec == Spec /\ WF_vars(\E e \in queue : Deliver(e))

-----------------------------------------------------------------------------
(* Properties.                                                             *)

Token == 0..token

Message == {Acquire} \cup {Grant(t) : t \in Token} \cup {Write(t) : t \in Token}
             \cup {Reject(t) : t \in Token}
Timer   == {Expiry(t) : t \in Token} \cup {Check} \cup {Work(t) : t \in Token}
Payload == Message \cup Timer \cup {Wake(p) : p \in Message \cup Timer}

(* Every variable has its type; no event carries a token that the lock has *)
(* not handed out, and none is due in the past.                            *)
TypeOK ==
  /\ now \in Nat /\ dead \subseteq Node
  /\ \A e \in queue : /\ e.due \in Nat /\ e.due >= now /\ e.copy \in {0, 1}
                      /\ e.to \in Node /\ e.from \in Node /\ e.payload \in Payload
  /\ holder \in Worker \cup {Nil} /\ token \in Nat
  /\ line \in Seq(Worker)
  /\ state \in [Worker -> {"idle", "waiting", "holding"}]
  /\ \A w \in Worker : IF state[w] = "holding" THEN lease[w] \in 1..token
                                               ELSE lease[w] = Nil
  /\ grantAt \in [Worker -> Nat] /\ rate \in [Worker -> Nat]
  /\ pausedUntil \in [Worker -> Nat \cup {Nil}]
  /\ lastToken \in Token /\ value \in Token /\ fencing \in BOOLEAN
  /\ acquires \in 0..MaxAcquires /\ faults \in [Fault -> Nat]

(* Two workers never hold the same token, whatever is lost, duplicated,    *)
(* paused or skewed: the token names the grant.                            *)
TokensUnique ==
  \A v, w \in Worker : state[v] = "holding" /\ state[w] = "holding" /\ v # w
                         => lease[v] # lease[w]

(* A worker whose token is the newest is the holder the lock has on record,*)
(* unless that lease has expired with nobody in line to take it over.      *)
NewestIsHolder ==
  \A w \in Worker : state[w] = "holding" /\ lease[w] = token => holder \in {w, Nil}

(* No worker waits twice, and the holder does not wait behind itself, not  *)
(* even when acquires are duplicated or repeated after a lease given up.   *)
LineSound ==
  /\ \A i, j \in DOMAIN line : line[i] = line[j] => i = j
  /\ \A i \in DOMAIN line : line[i] # holder
  /\ holder = Nil => line = <<>>

(* The lease on record always has its timer in the queue: as long as the   *)
(* lock stays alive no holder can keep the lock by falling silent.         *)
ExpiryPending ==
  holder # Nil /\ faults["kill-node"] = 0 => \E e \in queue : e.to = LOCK /\ e.payload = Expiry(token)

(* A rejection in flight is about a lease that has been superseded: the    *)
(* store never turns the rightful holder away, so no rejection, late or    *)
(* repeated, can evict the newest lease.                                   *)
NoFreshReject ==
  \A e \in queue : Carried(e).kind = "reject" => Carried(e).token < token

(* With honest clocks and no fault, the margins of the lease protect even  *)
(* the store without fencing: the last write sent under a lease arrives    *)
(* before the first one under the next.                                    *)
NoStaleAccept == faults = [f \in Fault |-> 0] => value = lastToken

(* A holding worker that was never killed always has its next look at the  *)
(* lease coming, however often a pause defers it.                          *)
LooksAgain ==
  \A w \in Worker : state[w] = "holding" /\ faults["kill-node"] = 0 =>
    \E e \in queue : e.to = w /\ Carried(e) = Check

(* A worker runs one chain of checks, a period apart (comments at          *)
(* lease.ts:164 and lease-shared.ts:12).  It does not hold: a worker       *)
(* rejected and granted again before its check comes runs two.             *)
OneCheckChain ==
  \A w \in Worker : \A e, f \in queue :
    e.to = w /\ f.to = w /\ Carried(e) = Check /\ Carried(f) = Check => e = f

(* Whoever waits is served, however often the others pause, skew and ask,  *)
(* as long as no message is lost: nothing is ever sent again.              *)
WaiterServed ==
  \A w \in Worker : state[w] = "waiting" ~>
    state[w] = "holding" \/ faults["drop"] > 0 \/ faults["kill-node"] > 0

(* Every lease ends: no worker believes in its lease for ever.             *)
LeaseEnds == \A w \in Worker : state[w] = "holding" ~> state[w] # "holding"

(* The lock names one holder at a time, by its token and by its record,    *)
(* and the others wait once each.                                          *)
OneHolder == TokensUnique /\ NewestIsHolder /\ LineSound

(* Neither the lock nor a worker forgets a lease: its expiry, and its next *)
(* check, are always to come.                                              *)
NoneForgotten == ExpiryPending /\ LooksAgain

(* Fencing refuses what is old and nothing else: no step leaves a          *)
(* rejection of the newest lease behind, and with fencing on none takes    *)
(* the register of the store back to an older one, as the write of a       *)
(* worker that slept through its expiry would.                             *)
FenceExact == [][NoFreshReject' /\ (fencing => value' >= value)]_vars

(* Whoever waits is served, and nobody holds for ever.                     *)
LeasesMoveOn == WaiterServed /\ LeaseEnds
=============================================================================
