---------------------------- MODULE LeaseProofs -----------------------------
(***************************************************************************)
(* Proofs about Lease for every set of workers, every timing and every     *)
(* bound on faults: types, one holder, no lease forgotten, exact fencing.  *)
(***************************************************************************)
EXTENDS Lease, NatLemmas, SequenceTheorems

-----------------------------------------------------------------------------
(* The invariant.  An event in the queue is well formed: an acquire comes  *)
(* from a worker, a grant carries a token of the lock, and a rejection one *)
(* that has been superseded.                                               *)
Plain == Message \cup Timer

EventGood(e) ==
  /\ e.due \in Nat /\ e.due >= now /\ e.copy \in {0, 1}
  /\ e.to \in Node /\ e.from \in Node /\ e.payload \in Payload
  /\ Carried(e).kind = "acquire" => e.from \in Worker
  /\ Carried(e).kind = "grant" => Carried(e).token >= 1
  /\ Carried(e).kind = "reject" => Carried(e).token < token

EventsGood == \A e \in queue : EventGood(e)

EngineType ==
  /\ now \in Nat /\ dead \subseteq Node
  /\ acquires \in 0..MaxAcquires /\ faults \in [Fault -> Nat]

LockType == holder \in Worker \cup {Nil} /\ token \in Nat /\ line \in Seq(Worker)

WorkerType ==
  /\ state \in [Worker -> {"idle", "waiting", "holding"}]
  /\ lease \in [Worker -> Nat \cup {Nil}]
  /\ \A w \in Worker : IF state[w] = "holding" THEN lease[w] \in 1..token
                                               ELSE lease[w] = Nil
  /\ grantAt \in [Worker -> Nat] /\ rate \in [Worker -> Nat]
  /\ pausedUntil \in [Worker -> Nat \cup {Nil}]

(* What the store holds is no newer than the newest token it has seen. *)
StoreType == lastToken \in 0..token /\ value \in 0..lastToken /\ fencing \in BOOLEAN

(* Who may call token t its own: whoever it is granted to in a message, in *)
(* flight or deferred, whoever holds it, and the holder on record.         *)
Claims(w, t) ==
  \/ \E e \in queue : e.to = w /\ Carried(e) = Grant(t)
  \/ state[w] = "holding" /\ lease[w] = t
  \/ holder = w /\ token = t

ClaimsUnique == \A v, w \in Worker, t \in Nat : Claims(v, t) /\ Claims(w, t) => v = w

DeadWereKilled == faults["kill-node"] = 0 => dead = {}

IInv ==
  /\ EventsGood /\ EngineType /\ LockType /\ WorkerType /\ StoreType
  /\ ClaimsUnique /\ LineSound
  /\ DeadWereKilled /\ ExpiryPending /\ LooksAgain

-----------------------------------------------------------------------------
(* What the engine's helpers do to the queue. *)

Like(x, due, to, from, payload) ==
  /\ x.due = due /\ x.to = to /\ x.from = from /\ x.payload = payload /\ x.copy \in {0, 1}

LEMMA PutEvent ==
  ASSUME NEW q, NEW due, NEW to, NEW from, NEW p
  PROVE  LET r == Put(q, Event(due, to, from, p)) IN
         /\ q \subseteq r
         /\ \A x \in r : x \in q \/ Like(x, due, to, from, p)
         /\ \E x \in r : Like(x, due, to, from, p)
<1> DEFINE e == Event(due, to, from, p)
           c == [e EXCEPT !.copy = 1]
<1>1. Like(e, due, to, from, p) /\ Like(c, due, to, from, p)
  BY DEF Like, Event
<1> HIDE DEF e, c
<1>2. Put(q, e) = q \cup {IF e \in q THEN c ELSE e}
  BY DEF Put, c
<1>3. CASE e \in q
  BY <1>1, <1>2, <1>3 DEF e
<1>4. CASE e \notin q
  BY <1>1, <1>2, <1>4 DEF e
<1> QED BY <1>3, <1>4

(* A fault counted is of its kind. *)
LEMMA HappensCounts ==
  ASSUME EngineType, NEW kind \in Fault, Happens(kind)
  PROVE  /\ faults' \in [Fault -> Nat]
         /\ kind # "kill-node" => faults'["kill-node"] = faults["kill-node"]
         /\ kind = "kill-node" => faults'["kill-node"] # 0
BY DEF EngineType, Happens, Fault

(* A message sent is in the queue once, twice or not at all. *)
LEMMA SendEvent ==
  ASSUME EngineType, NEW q, NEW t \in Nat, NEW from, NEW to, NEW p, Send(q, t, from, to, p)
  PROVE  /\ q \subseteq queue'
         /\ \A x \in queue' : x \in q \/ \E d \in Latency : Like(x, t + d, to, from, p)
         /\ faults' \in [Fault -> Nat] /\ faults'["kill-node"] = faults["kill-node"]
<1>1. CASE \E d \in Latency :
             queue' = Put(q, Event(t + d, to, from, p)) /\ UNCHANGED faults
  BY <1>1, PutEvent DEF EngineType
<1>2. CASE Happens("drop") /\ queue' = q
  BY <1>2, HappensCounts DEF Fault
<1>3. CASE /\ Happens("duplicate")
           /\ \E d1, d2 \in Latency :
                queue' = Put(Put(q, Event(t + d1, to, from, p)), Event(t + d2, to, from, p))
  <2>1. PICK d1 \in Latency, d2 \in Latency :
          queue' = Put(Put(q, Event(t + d1, to, from, p)), Event(t + d2, to, from, p))
    BY <1>3
  <2> DEFINE r == Put(q, Event(t + d1, to, from, p))
  <2>2. q \subseteq r /\ \A x \in r : x \in q \/ Like(x, t + d1, to, from, p)
    BY PutEvent
  <2> HIDE DEF r
  <2>3. r \subseteq queue' /\ \A x \in queue' : x \in r \/ Like(x, t + d2, to, from, p)
    BY <2>1, PutEvent DEF r
  <2> QED
    BY <1>3, <2>2, <2>3, HappensCounts DEF Fault
<1> QED
  BY <1>1, <1>2, <1>3 DEF Send

(* What a payload that is not a wake can be. *)
LEMMA PlainKinds ==
  ASSUME NEW p \in Plain
  PROVE  /\ p.kind # "wake"
         /\ p.kind = "acquire" => p = Acquire
         /\ p.kind = "check" => p = Check
         /\ p.kind = "grant" => p = Grant(p.token) /\ p.token \in Token
         /\ p.kind = "write" => p = Write(p.token) /\ p.token \in Token
         /\ p.kind = "reject" => p = Reject(p.token) /\ p.token \in Token
         /\ p.kind = "expiry" => p = Expiry(p.token) /\ p.token \in Token
         /\ p.kind = "work" => p = Work(p.token) /\ p.token \in Token
BY DEF Plain, Message, Timer, Acquire, Check, Grant, Write, Reject, Expiry, Work

LEMMA CarriedPlain ==
  ASSUME NEW e, e.payload \in Payload
  PROVE  /\ Carried(e) \in Plain
         /\ e.payload.kind = "wake" => e.payload = Wake(Carried(e))
         /\ e.payload.kind # "wake" => e.payload = Carried(e)
<1>1. CASE e.payload \in Plain
  BY <1>1, PlainKinds DEF Carried
<1>2. CASE e.payload \in {Wake(p) : p \in Plain}
  BY <1>2 DEF Carried, Wake
<1> QED
  BY <1>1, <1>2 DEF Payload, Plain

-----------------------------------------------------------------------------
(* Which events are good after a step, and what the step must leave alone. *)

LEMMA TokensGrow ==
  ASSUME token \in Nat, token' \in Nat, token <= token'
  PROVE  Token \subseteq Token' /\ Plain \subseteq Plain' /\ Payload \subseteq Payload'
<1>1. Token \subseteq Token'
  BY DEF Token
<1>2. Message \subseteq Message' /\ Timer \subseteq Timer'
  BY <1>1 DEF Message, Timer
<1>3. {Wake(p) : p \in Message \cup Timer} \subseteq {Wake(p) : p \in Message' \cup Timer'}
  BY <1>2, Zenon
<1>4. Payload \subseteq Payload'
  BY <1>2, <1>3, Zenon DEF Payload
<1> QED
  BY <1>1, <1>2, <1>4 DEF Plain

(* An old event stays good as long as it is not overdue. *)
LEMMA OldGood ==
  ASSUME token \in Nat, token' \in Nat, token <= token', now' \in Nat,
         NEW x, EventGood(x), x.due >= now'
  PROVE  EventGood(x)'
<1>1. x.payload \in Payload'
  BY TokensGrow DEF EventGood
<1>2. Carried(x) \in Plain /\ Carried(x) = Carried(x)'
  BY CarriedPlain DEF EventGood, Carried
<1>3. Carried(x).kind = "reject" => Carried(x).token \in 0..token
  <2>1. Carried(x).kind = "reject" => Carried(x).token \in Token
    BY <1>2, PlainKinds
  <2> QED
    BY <2>1 DEF Token
<1>4. Carried(x).kind = "reject" => Carried(x).token < token'
  <2>1. Carried(x).kind = "reject" => Carried(x).token < token
    BY DEF EventGood
  <2> QED
    BY <1>3, <2>1
<1> QED
  BY <1>1, <1>2, <1>4 DEF EventGood

(* A new one is good by what it carries, at once or in a wake. *)
LEMMA NewGood ==
  ASSUME NEW due \in Nat, now' \in Nat, due >= now', NEW to \in Node, NEW from \in Node,
         NEW c \in Plain', NEW p, p = c \/ p = Wake(c),
         c.kind = "acquire" => from \in Worker,
         c.kind = "grant" => c.token >= 1,
         c.kind = "reject" => c.token < token',
         NEW x, Like(x, due, to, from, p)
  PROVE  EventGood(x)' /\ Carried(x) = c
<1>1. x.payload \in Payload'
  BY DEF Like, Payload, Plain
<1>2. c.kind # "wake"
  BY DEF Plain, Message, Timer, Acquire, Check, Grant, Write, Reject, Expiry, Work
<1>3. Carried(x) = c /\ Carried(x)' = c
  BY <1>2 DEF Like, Carried, Wake
<1> QED
  BY <1>1, <1>3 DEF Like, EventGood

(* The next event is good, nothing that stays is overdue once it is taken. *)
LEMMA ArrivesNext ==
  ASSUME IInv, NEW n, NEW e \in queue, Arrives(n, e)
  PROVE  /\ EventGood(e) /\ e.to = n /\ n \notin dead
         /\ now' = e.due /\ now' \in Nat /\ now' >= now
         /\ \A x \in queue : EventGood(x) /\ x.due >= now'
         /\ UNCHANGED <<dead, acquires>>
BY DEF IInv, EventsGood, EngineType, Arrives, EventGood

LEMMA ClaimsStay ==
  ASSUME ClaimsUnique, \A w \in Worker, t \in Nat : Claims(w, t)' => Claims(w, t)
  PROVE  ClaimsUnique'
BY Zenon DEF ClaimsUnique

LEMMA ExpiryStays ==
  ASSUME ExpiryPending, UNCHANGED <<holder, token>>,
         faults'["kill-node"] = 0 => faults["kill-node"] = 0,
         \A x \in queue : x.to = LOCK /\ x.payload = Expiry(token) => x \in queue'
  PROVE  ExpiryPending'
BY DEF ExpiryPending, Expiry

LEMMA LooksStay ==
  ASSUME LooksAgain, faults'["kill-node"] = 0 => faults["kill-node"] = 0,
         \A w \in Worker : state'[w] = "holding" =>
            \/ /\ state[w] = "holding"
               /\ \A x \in queue : x.to = w /\ Carried(x) = Check => x \in queue'
            \/ \E x \in queue' : x.to = w /\ Carried(x) = Check
  PROVE  LooksAgain'
<1>1. Check = Check' /\ \A x : Carried(x) = Carried(x)'
  BY DEF Check, Carried
<1> QED
  BY <1>1 DEF LooksAgain

-----------------------------------------------------------------------------
(* The steps of a worker. *)

(* What they leave alone, as long as their queue is sound: the lock, the   *)
(* store, and the timers of the lock.                                      *)
LEMMA WorkerRest ==
  ASSUME IInv, NEW w \in Worker, NEW e \in queue, Arrives(w, e),
         UNCHANGED <<lockVars, storeVars>>,
         faults' \in [Fault -> Nat], faults'["kill-node"] = faults["kill-node"],
         queue \ {e} \subseteq queue',
         \A x \in queue' : x \in queue \ {e} \/ EventGood(x)',
         WorkerType', ClaimsUnique', LooksAgain'
  PROVE  IInv'
<1>1. /\ EventGood(e) /\ e.to = w /\ now' \in Nat
      /\ \A x \in queue : EventGood(x) /\ x.due >= now'
      /\ UNCHANGED <<dead, acquires>>
  BY ArrivesNext
<1>2. token \in Nat /\ token' = token /\ holder' = holder /\ line' = line
  BY DEF IInv, LockType, lockVars
<1>3. EventsGood'
  BY <1>1, <1>2, OldGood DEF EventsGood
<1>4. EngineType' /\ LockType' /\ StoreType'
  BY <1>1, <1>2 DEF IInv, EngineType, LockType, StoreType, storeVars
<1>5. LineSound' /\ DeadWereKilled'
  BY <1>1, <1>2 DEF IInv, LineSound, DeadWereKilled
<1>6. ExpiryPending'
  <2>1. w # LOCK
    BY NodeAssumption
  <2> QED
    BY <1>1, <1>2, <2>1, ExpiryStays DEF IInv
<1> QED
  BY <1>3, <1>4, <1>5, <1>6 DEF IInv

LEMMA RunsTypes ==
  ASSUME IInv, NEW w \in Worker, NEW e \in queue, NEW kind, Runs(w, e, kind)
  PROVE  /\ Arrives(w, e) /\ UNCHANGED <<rate, lockVars, storeVars>>
         /\ rate' \in [Worker -> Nat] /\ pausedUntil' \in [Worker -> Nat \cup {Nil}]
         /\ EventGood(e) /\ e.to = w /\ Carried(e).kind = kind /\ Carried(e) \in Plain
         /\ now' = e.due /\ now' \in Nat /\ token \in Nat /\ token' = token
         /\ Plain' = Plain /\ w \in Node
<1>1. Arrives(w, e) /\ Carried(e).kind = kind
  BY DEF Runs
<1>2. EventGood(e) /\ e.to = w /\ now' = e.due /\ now' \in Nat
  BY <1>1, ArrivesNext
<1>3. Carried(e) \in Plain
  BY <1>2, CarriedPlain DEF EventGood
<1>4. UNCHANGED <<rate, lockVars, storeVars>>
  BY DEF Runs
<1>5. token \in Nat /\ token' = token
  BY <1>4 DEF IInv, LockType, lockVars
<1>6. rate' \in [Worker -> Nat] /\ pausedUntil' \in [Worker -> Nat \cup {Nil}]
  BY <1>4 DEF IInv, WorkerType, Runs
<1>7. Plain' = Plain
  BY <1>5 DEF Plain, Message, Timer, Token
<1> QED
  BY <1>1, <1>2, <1>3, <1>4, <1>5, <1>6, <1>7 DEF Node

LEMMA DeferKeeps ==
  ASSUME IInv, NEW w \in Worker, NEW e \in queue, Defer(w, e)
  PROVE  IInv'
<1> DEFINE q == queue \ {e}
           wake == Wake(Carried(e))
<1>1. /\ Arrives(w, e) /\ UNCHANGED <<lockVars, workerVars, storeVars>>
      /\ faults' = faults /\ queue' = Put(q, Event(pausedUntil[w], w, w, wake))
  BY DEF Defer, NoSend
<1>2. /\ EventGood(e) /\ e.to = w /\ now' = e.due /\ now' \in Nat
      /\ \A x \in queue : EventGood(x)
  BY <1>1, ArrivesNext
<1>3. Carried(e) \in Plain /\ token \in Nat /\ token' = token
  BY <1>1, <1>2, CarriedPlain DEF EventGood, IInv, LockType, lockVars
<1>4. Plain' = Plain /\ w \in Node
  BY <1>3 DEF Plain, Message, Timer, Token, Node
<1>5. pausedUntil[w] \in Nat /\ pausedUntil[w] >= now'
  BY <1>2 DEF Defer, Paused, IInv, WorkerType
<1>6. /\ q \subseteq queue'
      /\ \A x \in queue' : x \in q \/ Like(x, pausedUntil[w], w, w, wake)
      /\ \E x \in queue' : Like(x, pausedUntil[w], w, w, wake)
  BY <1>1, PutEvent
<1>7. ASSUME NEW x, Like(x, pausedUntil[w], w, w, wake)
      PROVE  EventGood(x)' /\ Carried(x) = Carried(e) /\ x.to = w
  <2>1. Carried(e).kind = "grant" => Carried(e).token >= 1
    BY <1>2 DEF EventGood
  <2>2. Carried(e).kind = "reject" => Carried(e).token < token'
    BY <1>2, <1>3 DEF EventGood
  <2>3. EventGood(x)' /\ Carried(x) = Carried(e)
    BY <1>2, <1>3, <1>4, <1>5, <1>7, <2>1, <2>2, NewGood
  <2> QED
    BY <1>7, <2>3 DEF Like
<1>8. ClaimsUnique'
  <2>1. UNCHANGED <<state, lease, holder, token>>
    BY <1>1 DEF workerVars, leaseVars, lockVars
  <2>2. \A x : Carried(x)' = Carried(x)
    BY DEF Carried
  <2>3. \A v \in Worker, t \in Nat : Claims(v, t)' => Claims(v, t)
    BY <1>2, <1>6, <1>7, <2>1, <2>2 DEF Claims, Grant
  <2> QED
    BY <2>3, ClaimsStay DEF IInv
<1>9. LooksAgain'
  <2>1. state' = state /\ faults' = faults
    BY <1>1 DEF workerVars, leaseVars
  <2>2. PICK x \in queue' : x.to = w /\ Carried(x) = Carried(e)
    BY <1>6, <1>7
  <2> QED
    BY <1>2, <1>6, <2>1, <2>2, LooksStay DEF IInv
<1>10. WorkerType'
  BY <1>1, <1>3 DEF IInv, WorkerType, workerVars, leaseVars
<1>11. faults \in [Fault -> Nat]
  BY DEF IInv, EngineType
<1> QED
  BY <1>1, <1>6, <1>7, <1>8, <1>9, <1>10, <1>11, WorkerRest

(* No claim is new when no grant is sent and a lease is only taken by one  *)
(* it was granted to.                                                      *)
LEMMA NoNewClaims ==
  ASSUME ClaimsUnique, UNCHANGED <<holder, token>>,
         \A x \in queue' : x \in queue \/ Carried(x).kind # "grant",
         \A v \in Worker, t \in Nat : state'[v] = "holding" /\ lease'[v] = t => Claims(v, t)
  PROVE  ClaimsUnique'
<1>1. \A x : Carried(x)' = Carried(x)
  BY DEF Carried
<1>2. \A v \in Worker, t \in Nat : Claims(v, t)' => Claims(v, t)
  BY <1>1 DEF Claims, Grant
<1> QED
  BY <1>2, ClaimsStay

LEMMA GrantKeeps ==
  ASSUME IInv, NEW w \in Worker, NEW e \in queue, HandleGrant(w, e)
  PROVE  IInv'
<1> DEFINE t == Carried(e).token
           q == queue \ {e}
<1>1. Runs(w, e, "grant")
  BY DEF HandleGrant
<1>2. /\ Arrives(w, e) /\ UNCHANGED <<rate, lockVars, storeVars>>
      /\ rate' \in [Worker -> Nat] /\ pausedUntil' \in [Worker -> Nat \cup {Nil}]
      /\ EventGood(e) /\ e.to = w /\ now' = e.due /\ now' \in Nat
      /\ token \in Nat /\ token' = token /\ Plain' = Plain /\ w \in Node
  BY <1>1, RunsTypes
<1>3. Carried(e) = Grant(t) /\ t \in 1..token
  <2>1. Carried(e) \in Plain /\ Carried(e).kind = "grant"
    BY <1>1, RunsTypes
  <2>2. Carried(e) = Grant(t) /\ t \in Token
    BY <2>1, PlainKinds
  <2>3. t >= 1
    BY <1>2, <2>1 DEF EventGood
  <2> QED
    BY <1>2, <2>2, <2>3 DEF Token
<1>4. faults' = faults /\ faults \in [Fault -> Nat]
  BY DEF HandleGrant, NoSend, IInv, EngineType
<1>5. UNCHANGED <<holder, token>>
  BY <1>2 DEF lockVars
<1>6. /\ q \subseteq queue'
      /\ \A x \in queue' : x \in q \/ (EventGood(x)' /\ Carried(x) = Check)
  <2>1. CASE queue' = q
    BY <2>1
  <2>2. CASE queue' = Put(q, Event(e.due + WRITE_EVERY, w, w, Check))
    <3>1. /\ q \subseteq queue'
          /\ \A x \in queue' : x \in q \/ Like(x, e.due + WRITE_EVERY, w, w, Check)
      BY <2>2, PutEvent
    <3>2. e.due + WRITE_EVERY \in Nat /\ e.due + WRITE_EVERY >= now'
      BY <1>2, TimeAssumption
    <3>3. Check \in Plain' /\ Check.kind = "check"
      BY DEF Plain, Timer, Check
    <3>4. ASSUME NEW x, Like(x, e.due + WRITE_EVERY, w, w, Check)
          PROVE  EventGood(x)' /\ Carried(x) = Check
      BY <1>2, <3>2, <3>3, <3>4, NewGood
    <3> QED
      BY <3>1, <3>4
  <2> QED
    BY <2>1, <2>2 DEF HandleGrant, NoSend
<1>7. \/ Adopt(w, t, e.due) /\ state[w] = "waiting" /\ queue' = Put(q, Event(e.due + WRITE_EVERY, w, w, Check))
      \/ Adopt(w, t, e.due) /\ state[w] = "holding"
      \/ UNCHANGED leaseVars
  BY DEF HandleGrant, NoSend
<1>8. WorkerType'
  <2>1. CASE Adopt(w, t, e.due)
    BY <1>2, <1>3, <2>1 DEF IInv, WorkerType, Adopt
  <2>2. CASE UNCHANGED leaseVars
    BY <1>2, <2>2 DEF IInv, WorkerType, leaseVars
  <2> QED
    BY <1>7, <2>1, <2>2
<1>9. ClaimsUnique'
  <2>1. Claims(w, t)
    BY <1>2, <1>3 DEF Claims
  <2>2. ASSUME NEW v \in Worker, NEW u \in Nat, state'[v] = "holding", lease'[v] = u
        PROVE  Claims(v, u)
    <3>1. CASE Adopt(w, t, e.due)
      BY <2>1, <2>2, <3>1 DEF Adopt, IInv, WorkerType, Claims
    <3>2. CASE UNCHANGED leaseVars
      BY <2>2, <3>2 DEF leaseVars, Claims
    <3> QED
      BY <1>7, <3>1, <3>2
  <2>3. \A x \in queue' : x \in queue \/ Carried(x).kind # "grant"
    BY <1>6 DEF Check
  <2> QED
    BY <1>5, <2>2, <2>3, NoNewClaims DEF IInv
<1>10. LooksAgain'
  <2>1. \A x \in queue : Carried(x) = Check => x \in queue'
    BY <1>3, <1>6 DEF Grant, Check
  <2>2. ASSUME NEW v \in Worker, state'[v] = "holding"
        PROVE  state[v] = "holding" \/ \E x \in queue' : x.to = v /\ Carried(x) = Check
    <3>1. CASE v = w /\ queue' = Put(q, Event(e.due + WRITE_EVERY, w, w, Check))
      <4>1. PICK x \in queue' : Like(x, e.due + WRITE_EVERY, w, w, Check)
        BY <3>1, PutEvent
      <4> QED
        BY <3>1, <4>1 DEF Like, Carried, Check
    <3>2. CASE v # w /\ Adopt(w, t, e.due)
      BY <2>2, <3>2 DEF Adopt, IInv, WorkerType
    <3>3. CASE UNCHANGED leaseVars
      BY <2>2, <3>3 DEF leaseVars
    <3> QED
      BY <1>7, <3>1, <3>2, <3>3
  <2> QED
    BY <1>4, <2>1, <2>2, LooksStay DEF IInv
<1>11. \A x \in queue' : x \in q \/ EventGood(x)'
  BY <1>6
<1> QED
  BY <1>2, <1>4, <1>6, <1>8, <1>9, <1>10, <1>11, WorkerRest

(* A rejection only takes a lease away. *)
LEMMA RejectKeeps ==
  ASSUME IInv, NEW w \in Worker, NEW e \in queue, HandleReject(w, e)
  PROVE  IInv'
<1>1. Runs(w, e, "reject") /\ queue' = queue \ {e} /\ faults' = faults
  BY DEF HandleReject, NoSend
<1>2. /\ Arrives(w, e) /\ UNCHANGED <<rate, lockVars, storeVars>>
      /\ rate' \in [Worker -> Nat] /\ pausedUntil' \in [Worker -> Nat \cup {Nil}]
      /\ token' = token /\ Carried(e).kind = "reject"
  BY <1>1, RunsTypes
<1>3. faults \in [Fault -> Nat] /\ UNCHANGED <<holder, token>>
  BY <1>2 DEF IInv, EngineType, lockVars
<1>4. DropLease(w) \/ UNCHANGED leaseVars
  BY DEF HandleReject
<1>5. WorkerType'
  BY <1>2, <1>4 DEF IInv, WorkerType, leaseVars, DropLease
<1>6. \A v \in Worker : state'[v] = "holding" => state[v] = "holding" /\ lease'[v] = lease[v]
  BY <1>4 DEF IInv, WorkerType, leaseVars, DropLease
<1>7. ClaimsUnique'
  <2>1. \A v \in Worker, t \in Nat : state'[v] = "holding" /\ lease'[v] = t => Claims(v, t)
    BY <1>6 DEF Claims
  <2> QED
    BY <1>1, <1>3, <2>1, NoNewClaims DEF IInv
<1>8. LooksAgain'
  BY <1>1, <1>2, <1>6, LooksStay DEF Check, IInv
<1> QED
  BY <1>1, <1>2, <1>3, <1>5, <1>7, <1>8, WorkerRest

(* A look at the lease sets the next one, or drops the lease. *)
LEMMA CheckKeeps ==
  ASSUME IInv, NEW w \in Worker, NEW e \in queue, HandleCheck(w, e)
  PROVE  IInv'
<1> DEFINE q == queue \ {e}
           work == Work(lease[w])
           r == Put(q, Event(e.due + WORK_TICKS, w, w, work))
<1>1. Runs(w, e, "check") /\ faults' = faults
  BY DEF HandleCheck, NoSend
<1>2. /\ Arrives(w, e) /\ UNCHANGED <<rate, lockVars, storeVars>>
      /\ rate' \in [Worker -> Nat] /\ pausedUntil' \in [Worker -> Nat \cup {Nil}]
      /\ EventGood(e) /\ e.to = w /\ now' = e.due /\ now' \in Nat /\ Carried(e).kind = "check"
      /\ token \in Nat /\ token' = token /\ Plain' = Plain /\ w \in Node
  BY <1>1, RunsTypes
<1>3. faults \in [Fault -> Nat] /\ UNCHANGED <<holder, token>>
  BY <1>2 DEF IInv, EngineType, lockVars
<1>4. \/ state[w] # "holding" /\ UNCHANGED leaseVars /\ queue' = q
      \/ /\ state[w] = "holding" /\ UNCHANGED leaseVars
         /\ queue' = Put(r, Event(e.due + WRITE_EVERY, w, w, Check))
      \/ DropLease(w) /\ queue' = q
  BY DEF HandleCheck, NoSend
<1>5. WorkerType'
  BY <1>2, <1>4 DEF IInv, WorkerType, leaseVars, DropLease
<1>6. \A v \in Worker : state'[v] = "holding" => state[v] = "holding" /\ lease'[v] = lease[v]
  BY <1>4 DEF IInv, WorkerType, leaseVars, DropLease
<1>7. /\ q \subseteq queue'
      /\ \A x \in queue' : x \in q \/ (EventGood(x)' /\ Carried(x).kind # "grant")
      /\ state'[w] = "holding" => \E x \in queue' : x.to = w /\ Carried(x) = Check
  <2>1. CASE queue' = q /\ state'[w] # "holding"
    BY <2>1
  <2>2. CASE /\ state[w] = "holding"
             /\ queue' = Put(r, Event(e.due + WRITE_EVERY, w, w, Check))
    <3>1. q \subseteq r /\ \A x \in r : x \in q \/ Like(x, e.due + WORK_TICKS, w, w, work)
      BY PutEvent
    <3> HIDE DEF r
    <3>2. /\ r \subseteq queue'
          /\ \A x \in queue' : x \in r \/ Like(x, e.due + WRITE_EVERY, w, w, Check)
          /\ \E x \in queue' : Like(x, e.due + WRITE_EVERY, w, w, Check)
      BY <2>2, PutEvent
    <3>3. /\ e.due + WRITE_EVERY \in Nat /\ e.due + WRITE_EVERY >= now'
          /\ e.due + WORK_TICKS \in Nat /\ e.due + WORK_TICKS >= now'
      BY <1>2, TimeAssumption
    <3>4. Check \in Plain' /\ Check.kind = "check"
      BY DEF Plain, Timer, Check
    <3>5. work \in Plain' /\ work.kind = "work"
      <4>1. lease[w] \in Token
        BY <2>2 DEF IInv, WorkerType, Token
      <4>2. work \in Timer
        BY <4>1 DEF Timer
      <4> QED
        BY <1>2, <4>2 DEF Plain, Work
    <3>6. ASSUME NEW x, Like(x, e.due + WRITE_EVERY, w, w, Check)
          PROVE  EventGood(x)' /\ Carried(x) = Check /\ x.to = w
      <4>1. EventGood(x)' /\ Carried(x) = Check
        BY <1>2, <3>3, <3>4, <3>6, NewGood
      <4> QED
        BY <3>6, <4>1 DEF Like
    <3>7. ASSUME NEW x, Like(x, e.due + WORK_TICKS, w, w, work)
          PROVE  EventGood(x)' /\ Carried(x) = work
      BY <1>2, <3>3, <3>5, <3>7, NewGood
    <3> QED
      BY <3>1, <3>2, <3>4, <3>5, <3>6, <3>7
  <2> QED
    BY <1>4, <2>1, <2>2 DEF leaseVars, DropLease, IInv, WorkerType
<1>8. ClaimsUnique'
  <2>1. \A v \in Worker, t \in Nat : state'[v] = "holding" /\ lease'[v] = t => Claims(v, t)
    BY <1>6 DEF Claims
  <2> QED
    BY <1>3, <1>7, <2>1, NoNewClaims DEF IInv
<1>9. LooksAgain'
  BY <1>1, <1>2, <1>6, <1>7, LooksStay DEF IInv
<1>10. \A x \in queue' : x \in q \/ EventGood(x)'
  BY <1>7
<1> QED
  BY <1>1, <1>2, <1>3, <1>5, <1>7, <1>8, <1>9, <1>10, WorkerRest

LEMMA WorkKeeps ==
  ASSUME IInv, NEW w \in Worker, NEW e \in queue, HandleWork(w, e)
  PROVE  IInv'
<1> DEFINE q == queue \ {e}
           t == Carried(e).token
<1>1. Runs(w, e, "work") /\ UNCHANGED leaseVars
  BY DEF HandleWork
<1>2. /\ Arrives(w, e) /\ UNCHANGED <<rate, lockVars, storeVars>>
      /\ rate' \in [Worker -> Nat] /\ pausedUntil' \in [Worker -> Nat \cup {Nil}]
      /\ EventGood(e) /\ now' = e.due /\ now' \in Nat /\ Carried(e).kind = "work"
      /\ token' = token /\ Plain' = Plain /\ w \in Node /\ Carried(e) \in Plain
  BY <1>1, RunsTypes
<1>3. EngineType /\ faults \in [Fault -> Nat] /\ UNCHANGED <<holder, token>>
  BY <1>2 DEF IInv, EngineType, lockVars
<1>4. Write(t) \in Plain' /\ Write(t).kind = "write"
  <2>1. t \in Token
    BY <1>2, PlainKinds
  <2> QED
    BY <1>2, <2>1 DEF Plain, Message, Write
<1>5. /\ q \subseteq queue'
      /\ \A x \in queue' : x \in q \/ (EventGood(x)' /\ Carried(x).kind # "grant")
      /\ faults' \in [Fault -> Nat] /\ faults'["kill-node"] = faults["kill-node"]
  <2>1. CASE NoSend(q)
    BY <1>3, <2>1 DEF NoSend
  <2>2. CASE Send(q, e.due, w, STORE, Write(t))
    <3>1. /\ q \subseteq queue'
          /\ \A x \in queue' : x \in q \/ \E d \in Latency : Like(x, e.due + d, STORE, w, Write(t))
          /\ faults' \in [Fault -> Nat] /\ faults'["kill-node"] = faults["kill-node"]
      BY <1>2, <1>3, <2>2, SendEvent
    <3>2. \A d \in Latency : e.due + d \in Nat /\ e.due + d >= now'
      BY <1>2, TimeAssumption
    <3>3. ASSUME NEW d \in Latency, NEW x, Like(x, e.due + d, STORE, w, Write(t))
          PROVE  EventGood(x)' /\ Carried(x) = Write(t)
      <4>1. STORE \in Node
        BY DEF Node
      <4> QED
        BY <1>2, <1>4, <3>2, <3>3, <4>1, NewGood
    <3> QED
      BY <1>4, <3>1, <3>3
  <2> QED
    BY <2>1, <2>2 DEF HandleWork
<1>6. state' = state /\ lease' = lease /\ grantAt' = grantAt
  BY <1>1 DEF leaseVars
<1>7. WorkerType'
  BY <1>2, <1>6 DEF IInv, WorkerType
<1>8. ClaimsUnique'
  <2>1. \A v \in Worker, u \in Nat : state'[v] = "holding" /\ lease'[v] = u => Claims(v, u)
    BY <1>6 DEF Claims
  <2> QED
    BY <1>3, <1>5, <2>1, NoNewClaims DEF IInv
<1>9. LooksAgain'
  BY <1>2, <1>5, <1>6, LooksStay DEF Check, IInv
<1>10. \A x \in queue' : x \in q \/ EventGood(x)'
  BY <1>5
<1> QED
  BY <1>2, <1>5, <1>7, <1>8, <1>9, <1>10, WorkerRest

-----------------------------------------------------------------------------
(* The steps of the lock. *)

Distinct(s) == \A i, j \in DOMAIN s : s[i] = s[j] => i = j

(* Whoever is served first does not stay in a line without repetitions. *)
LEMMA ServedLeaves ==
  ASSUME NEW s \in Seq(Worker), s # <<>>, Distinct(s)
  PROVE  /\ Head(s) \in Worker /\ Tail(s) \in Seq(Worker) /\ Distinct(Tail(s))
         /\ \A i \in DOMAIN Tail(s) : Tail(s)[i] # Head(s)
         /\ 1 \in DOMAIN s /\ Head(s) = s[1]
         /\ \A i \in DOMAIN Tail(s) : \E j \in DOMAIN s : Tail(s)[i] = s[j]
<1>1. Len(s) \in Nat /\ Len(s) >= 1 /\ DOMAIN s = 1..Len(s) /\ \A i \in 1..Len(s) : s[i] \in Worker
  BY LenProperties, EmptySeq, ElementOfSeq
<1>2. Head(s) = s[1] /\ Head(s) \in Worker /\ Tail(s) \in Seq(Worker)
  BY <1>1, HeadTailProperties
<1>3. DOMAIN Tail(s) = 1..(Len(s) - 1) /\ \A i \in 1..(Len(s) - 1) : Tail(s)[i] = s[i + 1]
  BY <1>1
<1> DEFINE u == Tail(s)
           n == Len(s)
<1>4. /\ n \in Nat /\ n >= 1 /\ DOMAIN s = 1..n /\ DOMAIN u = 1..(n - 1)
      /\ \A i \in 1..(n - 1) : u[i] = s[i + 1]
  BY <1>1, <1>3
<1> HIDE DEF u, n
<1>5. \A i \in DOMAIN u : i \in Nat /\ i >= 1 /\ i + 1 \in DOMAIN s /\ u[i] = s[i + 1]
  BY <1>4
<1>6. 1 \in DOMAIN s /\ \A i \in DOMAIN u : u[i] # s[1]
  BY <1>4, <1>5 DEF Distinct
<1>7. Distinct(u) /\ \A i \in DOMAIN u : \E j \in DOMAIN s : u[i] = s[j]
  BY <1>5 DEF Distinct
<1> QED
  BY <1>2, <1>6, <1>7 DEF u

(* Whoever is not in line may join it. *)
LEMMA JoinsOnce ==
  ASSUME NEW s \in Seq(Worker), Distinct(s), NEW w \in Worker, \A i \in DOMAIN s : s[i] # w
  PROVE  /\ Append(s, w) \in Seq(Worker) /\ Distinct(Append(s, w)) /\ Append(s, w) # <<>>
         /\ \A i \in DOMAIN Append(s, w) :
              (i \in DOMAIN s /\ Append(s, w)[i] = s[i]) \/ Append(s, w)[i] = w
<1>1. Len(s) \in Nat /\ DOMAIN s = 1..Len(s)
  BY LenProperties
<1>2. /\ Append(s, w) \in Seq(Worker) /\ Len(Append(s, w)) = Len(s) + 1
      /\ DOMAIN Append(s, w) = 1..(Len(s) + 1)
      /\ \A i \in 1..Len(s) : Append(s, w)[i] = s[i]
      /\ Append(s, w)[Len(s) + 1] = w
  BY AppendProperties, LenProperties
<1> QED
  BY <1>1, <1>2, EmptySeq DEF Distinct

(* What a step of the lock leaves alone, and what it must show. *)
LEMMA LockRest ==
  ASSUME IInv, NEW e \in queue, Arrives(LOCK, e), e.payload.kind \in {"acquire", "expiry"},
         UNCHANGED <<workerVars, storeVars>>,
         token' \in Nat, token <= token',
         faults' \in [Fault -> Nat], faults'["kill-node"] = faults["kill-node"],
         queue \ {e} \subseteq queue',
         \A x \in queue' : x \in queue \ {e} \/ EventGood(x)',
         LockType', ClaimsUnique', LineSound', ExpiryPending'
  PROVE  IInv'
<1>1. /\ EventGood(e) /\ e.to = LOCK /\ now' \in Nat
      /\ \A x \in queue : EventGood(x) /\ x.due >= now'
      /\ UNCHANGED <<dead, acquires>>
  BY ArrivesNext
<1>2. token \in Nat
  BY DEF IInv, LockType
<1>3. EventsGood'
  BY <1>1, <1>2, OldGood DEF EventsGood
<1>4. EngineType' /\ StoreType' /\ DeadWereKilled'
  BY <1>1, <1>2 DEF IInv, EngineType, StoreType, DeadWereKilled, storeVars
<1>5. WorkerType'
  BY <1>2 DEF IInv, WorkerType, workerVars, leaseVars
<1>6. LooksAgain'
  <2>1. state' = state
    BY DEF workerVars, leaseVars
  <2>2. \A w \in Worker : LOCK # w
    BY NodeAssumption
  <2> QED
    BY <1>1, <2>1, <2>2, LooksStay DEF IInv
<1> QED
  BY <1>3, <1>4, <1>5, <1>6 DEF IInv

(* A grant makes one claim, and its token makes it a new one. *)
LEMMA GrantToKeeps ==
  ASSUME IInv, NEW e \in queue, Arrives(LOCK, e), e.payload.kind \in {"acquire", "expiry"},
         UNCHANGED <<workerVars, storeVars>>,
         NEW to \in Worker, GrantTo(queue \ {e}, to, e.due),
         line' \in Seq(Worker), LineSound'
  PROVE  IInv'
<1> DEFINE q == queue \ {e}
           expiry == Expiry(token + 1)
           grant == Grant(token + 1)
           due == e.due + LEASE_TTL
           r == Put(q, Event(due, LOCK, LOCK, expiry))
<1>1. /\ EventGood(e) /\ now' = e.due /\ now' \in Nat
      /\ \A x \in queue : EventGood(x)
  BY ArrivesNext
<1>2. token \in Nat /\ token' = token + 1 /\ holder' = to /\ EngineType
  BY DEF IInv, LockType, GrantTo
<1>3. /\ q \subseteq r /\ \A x \in r : x \in q \/ Like(x, due, LOCK, LOCK, expiry)
      /\ \E x \in r : Like(x, due, LOCK, LOCK, expiry)
  BY PutEvent
<1>4. Send(r, e.due, LOCK, to, grant)
  BY DEF GrantTo
<1> HIDE DEF r
<1>5. /\ r \subseteq queue'
      /\ \A x \in queue' : x \in r \/ \E d \in Latency : Like(x, e.due + d, to, LOCK, grant)
      /\ faults' \in [Fault -> Nat] /\ faults'["kill-node"] = faults["kill-node"]
  BY <1>1, <1>2, <1>4, SendEvent
<1>6. /\ expiry \in Plain' /\ expiry.kind = "expiry"
      /\ grant \in Plain' /\ grant.kind = "grant" /\ grant.token >= 1
  <2>1. token + 1 \in Token'
    BY <1>2 DEF Token
  <2> QED
    BY <1>2, <2>1 DEF Plain, Message, Timer, Expiry, Grant
<1>7. /\ LOCK \in Node /\ to \in Node /\ due \in Nat /\ due >= now'
      /\ \A d \in Latency : e.due + d \in Nat /\ e.due + d >= now'
  BY <1>1, TimeAssumption DEF Node
<1>8. ASSUME NEW x, Like(x, due, LOCK, LOCK, expiry)
      PROVE  EventGood(x)' /\ Carried(x) = expiry /\ x.to = LOCK /\ x.payload = expiry
  <2>1. EventGood(x)' /\ Carried(x) = expiry
    BY <1>1, <1>6, <1>7, <1>8, NewGood
  <2> QED
    BY <1>8, <2>1 DEF Like
<1>9. ASSUME NEW d \in Latency, NEW x, Like(x, e.due + d, to, LOCK, grant)
      PROVE  EventGood(x)' /\ Carried(x) = grant /\ x.to = to
  <2>1. EventGood(x)' /\ Carried(x) = grant
    BY <1>1, <1>6, <1>7, <1>9, NewGood
  <2> QED
    BY <1>9, <2>1 DEF Like
<1>10. q \subseteq queue' /\ \A x \in queue' : x \in q \/ EventGood(x)'
  BY <1>3, <1>5, <1>8, <1>9
<1>11. ClaimsUnique'
  <2>1. ASSUME NEW v \in Worker, NEW t \in Nat, Claims(v, t)
        PROVE  t <= token
    <3>1. CASE state[v] = "holding" /\ lease[v] = t
      BY <3>1, <1>2 DEF IInv, WorkerType
    <3>2. ASSUME NEW x \in queue, Carried(x) = Grant(t)
          PROVE  t <= token
      <4>1. Carried(x) \in Plain
        BY <1>1, CarriedPlain DEF EventGood
      <4>2. t \in Token
        BY <3>2, <4>1, PlainKinds DEF Grant
      <4> QED
        BY <1>2, <4>2 DEF Token
    <3> QED
      BY <1>2, <2>1, <3>1, <3>2 DEF Claims
  <2>2. ASSUME NEW v \in Worker, NEW t \in Nat, Claims(v, t)'
        PROVE  Claims(v, t) \/ (v = to /\ t = token + 1)
    <3>1. CASE state'[v] = "holding" /\ lease'[v] = t
      BY <3>1 DEF Claims, workerVars, leaseVars
    <3>2. CASE holder' = v /\ token' = t
      BY <1>2, <3>2
    <3>3. ASSUME NEW x \in queue', x.to = v, Carried(x) = Grant(t)
          PROVE  Claims(v, t) \/ (v = to /\ t = token + 1)
      <4>1. x \notin q => Carried(x) = expiry \/ (Carried(x) = grant /\ x.to = to)
        BY <1>3, <1>5, <1>8, <1>9
      <4>2. CASE x \in q
        BY <3>3, <4>2 DEF Claims
      <4>3. CASE Carried(x) = grant /\ x.to = to
        BY <3>3, <4>3 DEF Grant
      <4>4. Carried(x) # expiry
        BY <3>3 DEF Grant, Expiry
      <4> QED
        BY <4>1, <4>2, <4>3, <4>4
    <3>4. \A x : Carried(x)' = Carried(x)
      BY DEF Carried
    <3> QED
      BY <2>2, <3>1, <3>2, <3>3, <3>4 DEF Claims, Grant
  <2>3. ~(token + 1 <= token)
    BY <1>2
  <2> QED
    BY <2>1, <2>2, <2>3 DEF ClaimsUnique, IInv
<1>12. ExpiryPending'
  <2>1. PICK x \in queue' : x.to = LOCK /\ x.payload = expiry
    BY <1>3, <1>5, <1>8
  <2>2. Expiry(token)' = expiry
    BY <1>2 DEF Expiry
  <2> QED
    BY <2>1, <2>2 DEF ExpiryPending
<1>13. LockType' /\ token <= token'
  BY <1>2 DEF LockType
<1>14. token' \in Nat
  BY <1>2
<1> QED
  BY <1>5, <1>10, <1>11, <1>12, <1>13, <1>14, LockRest

(* A step of the lock that grants nothing. *)
LEMMA NoGrantKeeps ==
  ASSUME IInv, NEW e \in queue, Arrives(LOCK, e), e.payload.kind \in {"acquire", "expiry"},
         UNCHANGED <<workerVars, storeVars, token>>, NoSend(queue \ {e}),
         holder' = Nil \/ (holder' = holder /\ e.payload # Expiry(token)),
         line' \in Seq(Worker), LineSound'
  PROVE  IInv'
<1>1. /\ queue' = queue \ {e} /\ faults' = faults /\ faults \in [Fault -> Nat]
      /\ token \in Nat /\ token' = token
  BY DEF NoSend, IInv, EngineType, LockType
<1>2. holder' \in Worker \cup {Nil} /\ (holder' = Nil \/ holder' = holder)
  BY DEF IInv, LockType
<1>3. ClaimsUnique'
  <2>1. \A w \in Worker : w # Nil
    BY NodeAssumption DEF Node
  <2>2. \A w \in Worker, t \in Nat : Claims(w, t)' => Claims(w, t)
    BY <1>1, <1>2, <2>1 DEF Claims, Carried, Grant, workerVars, leaseVars
  <2> QED
    BY <2>2, ClaimsStay DEF IInv
<1>4. ExpiryPending'
  <2>1. CASE holder' = Nil
    BY <2>1 DEF ExpiryPending
  <2>2. CASE holder' = holder /\ e.payload # Expiry(token)
    BY <1>1, <2>2, ExpiryStays DEF IInv
  <2> QED
    BY <2>1, <2>2
<1>5. LockType' /\ token <= token'
  BY <1>1, <1>2 DEF LockType
<1>6. \A x \in queue' : x \in queue \ {e} \/ EventGood(x)'
  BY <1>1
<1> QED
  BY <1>1, <1>3, <1>4, <1>5, <1>6, LockRest

LEMMA ServeNextKeeps ==
  ASSUME IInv, NEW e \in queue, Arrives(LOCK, e), e.payload.kind \in {"acquire", "expiry"},
         UNCHANGED <<workerVars, storeVars>>,
         NEW waiting \in Seq(Worker), Distinct(waiting), ServeNext(queue \ {e}, waiting, e.due)
  PROVE  IInv'
<1>1. CASE waiting = <<>>
  <2>1. holder' = Nil /\ line' = <<>> /\ UNCHANGED token /\ NoSend(queue \ {e})
    BY <1>1 DEF ServeNext
  <2>2. line' \in Seq(Worker) /\ LineSound'
    BY <2>1, EmptySeq DEF LineSound
  <2> QED
    BY <2>1, <2>2, NoGrantKeeps
<1>2. CASE waiting # <<>>
  <2>1. line' = Tail(waiting) /\ GrantTo(queue \ {e}, Head(waiting), e.due)
    BY <1>2 DEF ServeNext
  <2>2. /\ Head(waiting) \in Worker /\ Tail(waiting) \in Seq(Worker) /\ Distinct(Tail(waiting))
        /\ \A i \in DOMAIN Tail(waiting) : Tail(waiting)[i] # Head(waiting)
    BY <1>2, ServedLeaves
  <2>3. holder' = Head(waiting) /\ Head(waiting) # Nil
    BY <2>1, <2>2, NodeAssumption DEF GrantTo, Node
  <2>4. line' \in Seq(Worker) /\ LineSound'
    BY <2>1, <2>2, <2>3 DEF LineSound, Distinct
  <2> QED
    BY <2>1, <2>2, <2>4, GrantToKeeps
<1> QED
  BY <1>1, <1>2

LEMMA AcquireKeeps ==
  ASSUME IInv, NEW e \in queue, HandleAcquire(e)
  PROVE  IInv'
<1> DEFINE q == queue \ {e}
<1>1. /\ Arrives(LOCK, e) /\ e.payload.kind = "acquire" /\ e.payload # Expiry(token)
      /\ UNCHANGED <<workerVars, storeVars>>
  BY DEF HandleAcquire, Expiry
<1>2. e.from \in Worker
  BY <1>1 DEF IInv, EventsGood, EventGood, Carried
<1>3. line \in Seq(Worker) /\ Distinct(line) /\ LineSound
  BY DEF IInv, LockType, LineSound, Distinct
<1>4. CASE holder = Nil /\ GrantTo(q, e.from, e.due) /\ UNCHANGED line
  <2>1. line' = <<>>
    BY <1>3, <1>4 DEF LineSound
  <2>2. line' \in Seq(Worker) /\ LineSound'
    BY <2>1, EmptySeq DEF LineSound
  <2> QED
    BY <1>1, <1>2, <1>4, <2>2, GrantToKeeps
<1>5. CASE holder = e.from /\ ServeNext(q, Append(line, e.from), e.due)
  <2>1. \A i \in DOMAIN line : line[i] # e.from
    BY <1>3, <1>5 DEF LineSound
  <2>2. Append(line, e.from) \in Seq(Worker) /\ Distinct(Append(line, e.from))
    BY <1>2, <1>3, <2>1, JoinsOnce
  <2> QED
    BY <1>1, <1>5, <2>2, ServeNextKeeps
<1>6. CASE /\ holder \notin {Nil, e.from} /\ UNCHANGED <<holder, token>> /\ NoSend(q)
           /\ line' = IF InLine(e.from) THEN line ELSE Append(line, e.from)
  <2>1. line' \in Seq(Worker) /\ LineSound'
    <3>1. CASE InLine(e.from)
      BY <1>3, <1>6, <3>1 DEF LineSound
    <3>2. CASE ~InLine(e.from)
      <4>1. line' = Append(line, e.from) /\ \A i \in DOMAIN line : line[i] # e.from
        BY <1>6, <3>2 DEF InLine
      <4>2. /\ line' \in Seq(Worker) /\ Distinct(line')
            /\ \A i \in DOMAIN line' : (i \in DOMAIN line /\ line'[i] = line[i]) \/ line'[i] = e.from
        BY <1>2, <1>3, <4>1, JoinsOnce
      <4> QED
        BY <1>3, <1>6, <4>2 DEF LineSound, Distinct
    <3> QED
      BY <3>1, <3>2
  <2> QED
    BY <1>1, <1>6, <2>1, NoGrantKeeps
<1> QED
  BY <1>4, <1>5, <1>6 DEF HandleAcquire

(* The timer of the lease on record ends it; any other one changes nothing.*)
LEMMA ExpiryKeeps ==
  ASSUME IInv, NEW e \in queue, HandleExpiry(e)
  PROVE  IInv'
<1>1. /\ Arrives(LOCK, e) /\ e.payload.kind = "expiry"
      /\ UNCHANGED <<workerVars, storeVars>>
  BY DEF HandleExpiry
<1>2. line \in Seq(Worker) /\ Distinct(line) /\ LineSound
  BY DEF IInv, LockType, LineSound, Distinct
<1>3. CASE holder # Nil /\ token = e.payload.token
  <2>1. ServeNext(queue \ {e}, line, e.due)
    BY <1>3 DEF HandleExpiry
  <2> QED
    BY <1>1, <1>2, <2>1, ServeNextKeeps
<1>4. CASE ~(holder # Nil /\ token = e.payload.token)
  <2>1. NoSend(queue \ {e}) /\ UNCHANGED <<holder, token, line>>
    BY <1>4 DEF HandleExpiry, lockVars
  <2>2. holder = Nil \/ e.payload # Expiry(token)
    BY <1>4 DEF Expiry
  <2>3. line' \in Seq(Worker) /\ LineSound'
    BY <1>2, <2>1 DEF LineSound
  <2> QED
    BY <1>1, <2>1, <2>2, <2>3, NoGrantKeeps
<1> QED
  BY <1>3, <1>4

-----------------------------------------------------------------------------
(* The steps of the store, of the engine and from outside. *)

(* What keeps the invariant when no lease moves: events stay or are new,   *)
(* good and no grant, and the timers stay unless a node was killed.        *)
LEMMA RestKeeps ==
  ASSUME IInv, UNCHANGED <<lockVars, lease>>,
         EngineType', WorkerType', StoreType', DeadWereKilled',
         \A w \in Worker : state'[w] = "holding" => state[w] = "holding",
         \A x \in queue' : \/ x \in queue /\ x.due >= now'
                           \/ EventGood(x)' /\ Carried(x).kind # "grant",
         faults'["kill-node"] = 0 => faults["kill-node"] = 0,
         faults'["kill-node"] = 0 => \A x \in queue :
            x.to = LOCK \/ (x.to \in Worker /\ Carried(x) = Check) => x \in queue'
  PROVE  IInv'
<1>1. token \in Nat /\ token' = token /\ holder' = holder /\ line' = line /\ now' \in Nat
  BY DEF IInv, LockType, lockVars, EngineType
<1>2. EventsGood'
  BY <1>1, OldGood DEF IInv, EventsGood
<1>3. LockType' /\ LineSound'
  BY <1>1 DEF IInv, LockType, LineSound
<1>4. ClaimsUnique'
  <2>1. \A v \in Worker, t \in Nat : state'[v] = "holding" /\ lease'[v] = t => Claims(v, t)
    BY DEF Claims
  <2> QED
    BY <1>1, <2>1, NoNewClaims DEF IInv
<1>5. ExpiryPending'
  BY <1>1 DEF IInv, ExpiryPending, Expiry
<1>6. LooksAgain'
  <2>1. \A x : Carried(x)' = Carried(x) /\ Check' = Check
    BY DEF Carried, Check
  <2> QED
    BY <2>1 DEF IInv, LooksAgain
<1> QED
  BY <1>2, <1>3, <1>4, <1>5, <1>6 DEF IInv

LEMMA WriteKeeps ==
  ASSUME IInv, NEW e \in queue, HandleWrite(e)
  PROVE  IInv'
<1> DEFINE t == e.payload.token
           q == queue \ {e}
<1>1. /\ Arrives(STORE, e) /\ e.payload.kind = "write"
      /\ UNCHANGED <<fencing, lockVars, workerVars>>
  BY DEF HandleWrite
<1>2. /\ EventGood(e) /\ e.to = STORE /\ now' = e.due /\ now' \in Nat
      /\ \A x \in queue : EventGood(x) /\ x.due >= now'
      /\ UNCHANGED <<dead, acquires>>
  BY <1>1, ArrivesNext
<1>3. token \in Nat /\ token' = token /\ EngineType /\ WorkerType /\ StoreType
  BY <1>1 DEF IInv, LockType, lockVars
<1>4. t \in 0..token
  <2>1. Carried(e) \in Plain /\ Carried(e) = e.payload
    BY <1>1, <1>2, CarriedPlain DEF EventGood
  <2> QED
    BY <1>1, <2>1, PlainKinds DEF Token
<1>5. /\ q \subseteq queue'
      /\ \A x \in queue' : x \in q \/ (EventGood(x)' /\ Carried(x).kind # "grant")
      /\ faults' \in [Fault -> Nat] /\ faults'["kill-node"] = faults["kill-node"]
      /\ StoreType'
  <2>1. CASE ~Superseded(t)
    <3>1. /\ queue' = q /\ faults' = faults /\ value' = t /\ fencing' = fencing
          /\ lastToken' = IF t > lastToken THEN t ELSE lastToken
      BY <1>1, <2>1 DEF HandleWrite, NoSend
    <3>2. StoreType'
      BY <1>3, <1>4, <3>1 DEF StoreType
    <3> QED
      BY <1>3, <3>1, <3>2 DEF EngineType
  <2>2. CASE Superseded(t)
    <3>1. Send(q, e.due, STORE, e.from, Reject(t)) /\ UNCHANGED <<lastToken, value, fencing>>
      BY <1>1, <2>2 DEF HandleWrite
    <3>2. /\ q \subseteq queue'
          /\ \A x \in queue' : x \in q \/ \E d \in Latency : Like(x, e.due + d, e.from, STORE, Reject(t))
          /\ faults' \in [Fault -> Nat] /\ faults'["kill-node"] = faults["kill-node"]
      BY <1>2, <1>3, <3>1, SendEvent
    <3>3. t < token'
      BY <1>3, <1>4, <2>2 DEF Superseded, StoreType
    <3>4. /\ Reject(t) \in Plain' /\ Reject(t).kind = "reject" /\ Reject(t).token = t
          /\ e.from \in Node /\ STORE \in Node
          /\ \A d \in Latency : e.due + d \in Nat /\ e.due + d >= now'
      <4>1. t \in Token'
        BY <1>3, <1>4 DEF Token
      <4>2. Reject(t) \in Message'
        BY <4>1 DEF Message
      <4> QED
        BY <1>2, <4>2, TimeAssumption DEF Plain, Reject, EventGood, Node
    <3>5. ASSUME NEW d \in Latency, NEW x, Like(x, e.due + d, e.from, STORE, Reject(t))
          PROVE  EventGood(x)' /\ Carried(x) = Reject(t)
      BY <1>2, <3>3, <3>4, <3>5, NewGood
    <3>6. StoreType'
      BY <1>3, <3>1 DEF StoreType
    <3> QED
      BY <3>2, <3>4, <3>5, <3>6
  <2> QED
    BY <2>1, <2>2
<1>6. EngineType' /\ DeadWereKilled'
  BY <1>2, <1>3, <1>5 DEF IInv, EngineType, DeadWereKilled
<1>7. WorkerType' /\ state' = state /\ lease' = lease
  BY <1>1, <1>3 DEF WorkerType, workerVars, leaseVars
<1>8. STORE # LOCK /\ STORE \notin Worker
  BY NodeAssumption
<1> QED
  BY <1>1, <1>2, <1>5, <1>6, <1>7, <1>8, RestKeeps

LEMMA LostAtDeadKeeps ==
  ASSUME IInv, NEW e \in queue, LostAtDead(e)
  PROVE  IInv'
<1>1. /\ now' = e.due /\ queue' = queue \ {e} /\ \A x \in queue : x.due >= now'
      /\ UNCHANGED <<dead, lockVars, workerVars, storeVars, acquires, faults>>
  BY DEF LostAtDead, IInv, EventsGood, EventGood
<1>2. faults["kill-node"] # 0
  BY DEF LostAtDead, IInv, DeadWereKilled
<1>3. EngineType' /\ DeadWereKilled'
  BY <1>1 DEF IInv, EngineType, EventsGood, EventGood, DeadWereKilled
<1>4. WorkerType' /\ StoreType' /\ UNCHANGED <<lease, state>>
  BY <1>1 DEF IInv, WorkerType, StoreType, lockVars, workerVars, leaseVars, storeVars
<1> QED
  BY <1>1, <1>2, <1>3, <1>4, RestKeeps

LEMMA AcquireCommandKeeps ==
  ASSUME IInv, NEW w \in Worker, AcquireCommand(w)
  PROVE  IInv'
<1>1. /\ state[w] = "idle" /\ state' = [state EXCEPT ![w] = "waiting"]
      /\ acquires < MaxAcquires /\ acquires' = acquires + 1
      /\ Send(queue, now, w, LOCK, Acquire)
      /\ UNCHANGED <<now, dead, lease, grantAt, rate, pausedUntil, lockVars, storeVars>>
  BY DEF AcquireCommand
<1>2. EngineType /\ token \in Nat /\ token' = token /\ now \in Nat
  BY <1>1 DEF IInv, EngineType, LockType, lockVars
<1>3. /\ queue \subseteq queue'
      /\ \A x \in queue' : x \in queue \/ \E d \in Latency : Like(x, now + d, LOCK, w, Acquire)
      /\ faults' \in [Fault -> Nat] /\ faults'["kill-node"] = faults["kill-node"]
  BY <1>1, <1>2, SendEvent
<1>4. /\ Acquire \in Plain' /\ Acquire.kind = "acquire" /\ LOCK \in Node /\ w \in Node
      /\ now' \in Nat /\ \A d \in Latency : now + d \in Nat /\ now + d >= now'
  BY <1>1, <1>2, TimeAssumption DEF Plain, Message, Acquire, Node
<1>5. ASSUME NEW d \in Latency, NEW x, Like(x, now + d, LOCK, w, Acquire)
      PROVE  EventGood(x)' /\ Carried(x) = Acquire
  BY <1>4, <1>5, NewGood
<1>6. \A x \in queue' : \/ x \in queue /\ x.due >= now'
                        \/ EventGood(x)' /\ Carried(x).kind # "grant"
  BY <1>1, <1>3, <1>4, <1>5 DEF IInv, EventsGood, EventGood
<1>7. EngineType' /\ DeadWereKilled'
  BY <1>1, <1>2, <1>3, BoundAssumption DEF IInv, EngineType, DeadWereKilled
<1>8. /\ WorkerType' /\ StoreType'
      /\ \A v \in Worker : state'[v] = "holding" => state[v] = "holding"
  BY <1>1, <1>2 DEF IInv, WorkerType, StoreType, storeVars
<1> QED
  BY <1>1, <1>3, <1>6, <1>7, <1>8, RestKeeps

(* A fault touches no lease. *)
LEMMA FaultKeeps ==
  ASSUME IInv, TurnFencing \/ (\E w \in Worker : GcPause(w) \/ ClockSkew(w))
                 \/ (\E n \in Node : Kill(n) \/ Revive(n))
  PROVE  IInv'
<1>1. EngineType /\ WorkerType /\ StoreType /\ DeadWereKilled /\ token \in Nat
  BY DEF IInv, LockType
<1>2. /\ UNCHANGED <<now, queue, lockVars, leaseVars, acquires>>
      /\ \A x \in queue : x.due >= now'
  BY DEF TurnFencing, GcPause, ClockSkew, Kill, Revive, engineVars, workerVars,
         IInv, EventsGood, EventGood
<1>3. /\ EngineType' /\ DeadWereKilled'
      /\ faults'["kill-node"] = 0 => faults["kill-node"] = 0
  <2>1. ASSUME NEW kind \in Fault \ {"kill-node"}, Happens(kind), UNCHANGED dead
        PROVE  /\ EngineType' /\ DeadWereKilled'
               /\ faults'["kill-node"] = 0 => faults["kill-node"] = 0
    BY <1>1, <1>2, <2>1, HappensCounts DEF EngineType, DeadWereKilled
  <2>2. ASSUME NEW n \in Node, Kill(n)
        PROVE  /\ EngineType' /\ DeadWereKilled'
               /\ faults'["kill-node"] = 0 => faults["kill-node"] = 0
    BY <1>1, <1>2, <2>2, HappensCounts DEF EngineType, DeadWereKilled, Kill, Fault
  <2>3. ASSUME NEW n \in Node, Revive(n)
        PROVE  /\ EngineType' /\ DeadWereKilled'
               /\ faults'["kill-node"] = 0 => faults["kill-node"] = 0
    BY <1>1, <1>2, <2>3 DEF EngineType, DeadWereKilled, Revive
  <2> QED
    BY <2>1, <2>2, <2>3 DEF TurnFencing, GcPause, ClockSkew, engineVars, Fault
<1>4. WorkerType' /\ StoreType'
  <2>1. UNCHANGED <<token, state, lease, grantAt>>
    BY <1>2 DEF lockVars, leaseVars
  <2>2. rate' \in [Worker -> Nat] /\ pausedUntil' \in [Worker -> Nat \cup {Nil}]
    BY <1>1, TimeAssumption
       DEF WorkerType, EngineType, TurnFencing, GcPause, ClockSkew, Kill, Revive, workerVars
  <2>3. lastToken' = lastToken /\ value' = value /\ fencing' \in BOOLEAN
    BY <1>1 DEF StoreType, TurnFencing, GcPause, ClockSkew, Kill, Revive, storeVars
  <2> QED
    BY <1>1, <2>1, <2>2, <2>3 DEF WorkerType, StoreType
<1> QED
  BY <1>2, <1>3, <1>4, RestKeeps DEF leaseVars

(* Time that passes with nothing due, and a step that changes nothing. *)
LEMMA IdleKeeps ==
  ASSUME IInv, UNCHANGED vars \/ \E t \in Ticks : RunUntil(t)
  PROVE  IInv'
<1>1. /\ UNCHANGED <<queue, dead, lockVars, workerVars, storeVars, acquires, faults>>
      /\ now' \in Nat /\ \A x \in queue : x.due >= now'
  <2>1. CASE UNCHANGED vars
    BY <2>1 DEF vars, engineVars, IInv, EngineType, EventsGood, EventGood
  <2>2. ASSUME NEW t \in Ticks, RunUntil(t)
        PROVE  /\ UNCHANGED <<queue, dead, lockVars, workerVars, storeVars, acquires, faults>>
               /\ now' \in Nat /\ \A x \in queue : x.due >= now'
    BY <2>2, TimeAssumption DEF RunUntil, IInv, EventsGood, EventGood
  <2> QED
    BY <2>1, <2>2
<1>2. EngineType' /\ WorkerType' /\ StoreType' /\ DeadWereKilled' /\ UNCHANGED <<state, lease>>
  BY <1>1 DEF IInv, EngineType, WorkerType, StoreType, DeadWereKilled,
              lockVars, workerVars, leaseVars, storeVars
<1> QED
  BY <1>1, <1>2, RestKeeps

-----------------------------------------------------------------------------
LEMMA InitInv == Init => IInv
<1> SUFFICES ASSUME Init PROVE IInv
  OBVIOUS
<1>1. EventsGood /\ EngineType /\ LockType /\ LineSound
  BY BoundAssumption, EmptySeq
     DEF Init, EventsGood, EngineType, LockType, LineSound, Fault
<1>2. WorkerType
  <2>1. \A w \in Worker : state[w] = "idle" /\ lease[w] = Nil
    BY DEF Init
  <2>2. /\ state \in [Worker -> {"idle", "waiting", "holding"}]
        /\ lease \in [Worker -> Nat \cup {Nil}]
        /\ pausedUntil \in [Worker -> Nat \cup {Nil}]
    BY DEF Init
  <2>3. grantAt \in [Worker -> Nat] /\ rate \in [Worker -> Nat]
    BY DEF Init
  <2> QED
    BY <2>1, <2>2, <2>3 DEF WorkerType
<1>3. StoreType
  <2>1. lastToken \in 0..token /\ value \in 0..lastToken
    BY DEF Init
  <2>2. fencing \in BOOLEAN
    BY Zenon DEF Init
  <2> QED
    BY <2>1, <2>2 DEF StoreType
<1>4. ClaimsUnique
  BY NodeAssumption DEF Init, ClaimsUnique, Claims, Node
<1>5. DeadWereKilled /\ ExpiryPending /\ LooksAgain
  BY DEF Init, DeadWereKilled, ExpiryPending, LooksAgain
<1> QED
  BY <1>1, <1>2, <1>3, <1>4, <1>5 DEF IInv

LEMMA StepKeeps == IInv /\ [Next]_vars => IInv'
<1> SUFFICES ASSUME IInv, [Next]_vars PROVE IInv'
  OBVIOUS
<1>1. ASSUME NEW e \in queue, Deliver(e)
      PROVE  IInv'
  <2>1. ASSUME NEW w \in Worker, WorkerStep(w, e)
        PROVE  IInv'
    BY <2>1, DeferKeeps, GrantKeeps, RejectKeeps, CheckKeeps, WorkKeeps DEF WorkerStep
  <2> QED
    BY <1>1, <2>1, LostAtDeadKeeps, AcquireKeeps, ExpiryKeeps, WriteKeeps DEF Deliver
<1>2. CASE Command
  BY <1>2, AcquireCommandKeeps, FaultKeeps, IdleKeeps DEF Command
<1>3. CASE UNCHANGED vars
  BY <1>3, IdleKeeps
<1> QED
  BY <1>1, <1>2, <1>3 DEF Next

THEOREM LeaseInvariant == Spec => []IInv
BY InitInv, StepKeeps, PTL DEF Spec

(* Types hold for every set of workers and every timing, no event is due   *)
(* in the past, and none carries a token the lock has not handed out.      *)
THEOREM LeaseTypes == Spec => []TypeOK
<1>1. IInv => TypeOK
  BY DEF IInv, EventsGood, EventGood, EngineType, LockType, WorkerType, StoreType, TypeOK, Token
<1> QED
  BY <1>1, LeaseInvariant, PTL

(* Tokens name grants, the newest one is the holder's on record, and the   *)
(* line holds everyone else at most once: of `holder', `token' and the     *)
(* queue of LockService (lease.ts) and the token of each worker, whatever  *)
(* is lost, duplicated, delayed, paused or skewed.                         *)
THEOREM HolderCorrect == Spec => []OneHolder
<1>1. ASSUME IInv PROVE OneHolder
  <2>1. \A w \in Worker : state[w] = "holding" => lease[w] \in Nat /\ Claims(w, lease[w])
    BY <1>1 DEF IInv, WorkerType, LockType, Claims
  <2>2. TokensUnique
    BY <1>1, <2>1 DEF IInv, ClaimsUnique, TokensUnique
  <2>3. NewestIsHolder
    <3>1. \A v \in Worker : holder = v => Claims(v, token)
      BY DEF Claims
    <3> QED
      BY <1>1, <2>1, <3>1 DEF IInv, LockType, ClaimsUnique, NewestIsHolder
  <2> QED
    BY <1>1, <2>2, <2>3 DEF IInv, OneHolder
<1> QED
  BY <1>1, LeaseInvariant, PTL

(* As long as no node was killed, the lock has the expiry of the lease on  *)
(* record still to come, and every worker that holds its next check.       *)
THEOREM LeaseRemembered == Spec => []NoneForgotten
<1>1. IInv => NoneForgotten
  BY DEF IInv, NoneForgotten
<1> QED
  BY <1>1, LeaseInvariant, PTL

(* No rejection in flight is of the newest lease, and with fencing on no   *)
(* write takes the register of the store back to an older one.             *)
THEOREM FenceCorrect == Spec => FenceExact
<1>1. IInv => NoFreshReject
  BY DEF IInv, EventsGood, EventGood, NoFreshReject
<1>2. ASSUME IInv, [Next]_vars PROVE fencing => value' >= value
  <2>1. value \in Nat /\ lastToken \in Nat /\ value <= lastToken
    BY <1>2 DEF IInv, LockType, StoreType
  <2>2. ASSUME NEW e \in queue, HandleWrite(e), fencing
        PROVE  value' >= value
    <3>1. EventGood(e) /\ e.payload.kind = "write"
      BY <1>2, <2>2 DEF HandleWrite, IInv, EventsGood
    <3>2. Carried(e) \in Plain /\ Carried(e) = e.payload
      BY <3>1, CarriedPlain DEF EventGood
    <3>3. token \in Nat /\ e.payload.token \in 0..token
      BY <1>2, <3>1, <3>2, PlainKinds DEF Token, IInv, LockType
    <3>4. value' = value \/ (value' = e.payload.token /\ ~(e.payload.token < lastToken))
      BY <2>2 DEF HandleWrite, Superseded
    <3> QED
      BY <2>1, <3>3, <3>4
  <2>3. ASSUME NEW e \in queue, Deliver(e), ~HandleWrite(e)
        PROVE  value' = value
    <3>1. ASSUME NEW w \in Worker, WorkerStep(w, e)
          PROVE  UNCHANGED storeVars
      BY <3>1 DEF WorkerStep, Defer, HandleGrant, HandleReject, HandleCheck, HandleWork, Runs
    <3>2. CASE LostAtDead(e) \/ HandleAcquire(e) \/ HandleExpiry(e)
      BY <3>2 DEF LostAtDead, HandleAcquire, HandleExpiry, storeVars
    <3> QED
      BY <2>3, <3>1, <3>2 DEF Deliver, storeVars
  <2>4. CASE Command
    <3>1. ASSUME TurnFencing PROVE value' = value
      BY <3>1 DEF TurnFencing
    <3>2. ASSUME \E w \in Worker : AcquireCommand(w) \/ GcPause(w) \/ ClockSkew(w) PROVE value' = value
      BY <3>2 DEF AcquireCommand, GcPause, ClockSkew, storeVars
    <3>3. ASSUME \E n \in Node : Kill(n) \/ Revive(n) PROVE value' = value
      BY <3>3 DEF Kill, Revive, storeVars
    <3>4. ASSUME \E t \in Ticks : RunUntil(t) PROVE value' = value
      BY <3>4 DEF RunUntil, storeVars
    <3>5. value' = value
      BY <2>4, <3>1, <3>2, <3>3, <3>4 DEF Command, storeVars
    <3> QED
      BY <2>1, <3>5
  <2>5. CASE UNCHANGED vars
    BY <2>1, <2>5 DEF vars, storeVars
  <2> QED
    BY <1>2, <2>1, <2>2, <2>3, <2>4, <2>5 DEF Next
<1>3. IInv /\ IInv' /\ [Next]_vars => [NoFreshReject' /\ (fencing => value' >= value)]_vars
  <2>1. IInv' => NoFreshReject'
    BY <1>1, PTL
  <2> QED
    BY <1>2, <2>1
<1> QED
  BY <1>3, LeaseInvariant, PTL DEF Spec, FenceExact

-----------------------------------------------------------------------------
(* The timing of a lab without faults.  A message takes a to b; granted[t] *)
(* is when the lock handed token t out, a witness of the invariant and not *)
(* a variable of the lab.  The next lease starts LEASE_TTL later at least, *)
(* and a write of this one arrives between FirstWrite and LastWrite: two   *)
(* messages, the worker's looks at its clock and the work.                 *)
Calm == faults = [f \in Fault |-> 0]

(* The last look that may still find a lease valid, from its taking on.    *)
LastLook == ((LEASE_TTL - 1) \div WRITE_EVERY) * WRITE_EVERY
Looks(w) == {grantAt[w] + k * WRITE_EVERY : k \in Nat \ {0}}

FirstWrite(granted, a, t) == granted[t] + 2 * a + WRITE_EVERY + WORK_TICKS
LastWrite(granted, b, t)  == granted[t] + 2 * b + LastLook + WORK_TICKS

(* The margin: the last write of a lease is in before the first of the     *)
(* next.  lease-shared.ts and the lab's network (60, 10, 6, and 1 to 10)   *)
(* leave 50 + 20 < 60 + 2 + 10.                                            *)
Margin(a, b) ==
  /\ a > 0 /\ \A d \in Latency : a <= d /\ d <= b
  /\ LEASE_TTL > 0 /\ WRITE_EVERY > 0
  /\ LastLook + 2 * b < LEASE_TTL + 2 * a + WRITE_EVERY

(* Nobody is dead, paused or skewed, and the store takes every write.      *)
Undisturbed ==
  /\ dead = {} /\ fencing = FALSE
  /\ \A w \in Worker : rate[w] = 100 /\ pausedUntil[w] = Nil
  /\ \A e \in queue : e.payload.kind \notin {"wake", "reject"}

(* A lease has run its time when the next is granted.                      *)
Spaced(granted) ==
  /\ \A t, u \in 1..token : t < u => granted[t] + LEASE_TTL <= granted[u]
  /\ token > 0 => granted[token] <= now
  /\ holder = Nil /\ token > 0 => granted[token] + LEASE_TTL <= now

(* When what speaks of a lease comes due.                                  *)
EventTimed(granted, a, b, e) ==
  LET t == e.payload.token IN
  /\ e.payload.kind = "grant" => granted[t] + a <= e.due /\ e.due <= granted[t] + b
  /\ e.payload.kind = "expiry" => t >= 1 /\ e.due = granted[t] + LEASE_TTL
  /\ e.payload.kind = "check" => e.to \in Worker /\ state[e.to] = "holding" /\ e.due \in Looks(e.to)
  /\ e.payload.kind = "work" =>
       t >= 1 /\ FirstWrite(granted, a, t) <= e.due + a /\ e.due + b <= LastWrite(granted, b, t)
  /\ e.payload.kind = "write" =>
       t >= 1 /\ FirstWrite(granted, a, t) <= e.due /\ e.due <= LastWrite(granted, b, t)
EventsTimed(granted, a, b) == \A e \in queue : EventTimed(granted, a, b, e)

HoldersTimed(granted, a, b) ==
  \A w \in Worker : state[w] = "holding" =>
    granted[lease[w]] + a <= grantAt[w] /\ grantAt[w] <= granted[lease[w]] + b

StoreTimed(granted, a) ==
  value = lastToken /\ (lastToken > 0 => FirstWrite(granted, a, lastToken) <= now)

Timed(granted, a, b) ==
  /\ Spaced(granted) /\ EventsTimed(granted, a, b) /\ HoldersTimed(granted, a, b)
  /\ StoreTimed(granted, a)

(* A worker asks once, waits in one place, is granted once and looks once. *)
Asks(e)   == e.payload.kind = "acquire"
Grants(e) == e.payload.kind = "grant"
Checks(e) == e.payload.kind = "check"

AsksOnce ==
  \A e \in queue : Asks(e) =>
    /\ state[e.from] = "waiting" /\ ~InLine(e.from) /\ holder # e.from
    /\ \A f \in queue : /\ Asks(f) /\ f.from = e.from => f = e
                        /\ Grants(f) => f.to # e.from
GrantedOnce ==
  \A e \in queue : Grants(e) =>
    /\ e.to \in Worker /\ state[e.to] = "waiting" /\ ~InLine(e.to)
    /\ holder = e.to => e.payload.token = token
    /\ \A f \in queue : Grants(f) /\ f.to = e.to => f = e
ChecksOnce == \A e, f \in queue : Checks(e) /\ Checks(f) /\ f.to = e.to => f = e
LineWaits == \A i \in DOMAIN line : state[line[i]] = "waiting"
HolderServed ==
  \A w \in Worker : holder = w => state[w] = "waiting" \/ (state[w] = "holding" /\ lease[w] = token)

PlacesRight == AsksOnce /\ GrantedOnce /\ ChecksOnce /\ LineWaits /\ HolderServed

CalmNow(granted, a, b) ==
  granted \in [Nat -> Nat] /\ Undisturbed /\ PlacesRight /\ Timed(granted, a, b)

CalmInv(a, b) == Calm => \E granted \in [Nat -> Nat] : CalmNow(granted, a, b)

-----------------------------------------------------------------------------
(* What the engine does while nothing goes wrong. *)

LEMMA PutOne ==
  ASSUME NEW q, NEW due, NEW to, NEW from, NEW p
  PROVE  \E n : Put(q, Event(due, to, from, p)) = q \cup {n} /\ Like(n, due, to, from, p)
<1> DEFINE e == Event(due, to, from, p)
           c == [e EXCEPT !.copy = 1]
<1>1. Like(e, due, to, from, p) /\ Like(c, due, to, from, p)
  BY DEF Like, Event
<1> HIDE DEF e, c
<1>2. Put(q, e) = q \cup {IF e \in q THEN c ELSE e}
  BY DEF Put, c
<1> QED BY <1>1, <1>2 DEF e

(* A fault that happened shows for good. *)
LEMMA FaultShows ==
  ASSUME EngineType, NEW kind \in Fault, Happens(kind)
  PROVE  ~Calm'
<1>1. faults' = [faults EXCEPT ![kind] = @ + 1] /\ faults \in [Fault -> Nat]
  BY DEF Happens, EngineType
<1>2. faults'[kind] # 0
  BY <1>1
<1> QED
  BY <1>2 DEF Calm

(* While calm a message arrives once. *)
LEMMA SendsOne ==
  ASSUME EngineType, NEW q, NEW t, NEW from, NEW to, NEW p, Send(q, t, from, to, p), Calm'
  PROVE  /\ faults' = faults
         /\ \E d, n : /\ d \in Latency
                      /\ queue' = q \cup {n}
                      /\ Like(n, t + d, to, from, p)
<1>1. ~Happens("drop") /\ ~Happens("duplicate")
  BY FaultShows DEF Fault
<1>2. PICK d \in Latency : queue' = Put(q, Event(t + d, to, from, p)) /\ UNCHANGED faults
  BY <1>1 DEF Send
<1> QED
  BY <1>2, PutOne

(* What a worker runs while calm is what arrived. *)
LEMMA RunsCalm ==
  ASSUME IInv, Undisturbed, NEW w \in Worker, NEW e \in queue, NEW kind, Runs(w, e, kind)
  PROVE  /\ e.payload = Carried(e) /\ e.payload.kind = kind /\ e.to = w /\ e.payload \in Plain
         /\ now' = e.due /\ now' \in Nat /\ now' >= now /\ now \in Nat /\ e.due \in Nat
         /\ \A x \in queue : e.due <= x.due
         /\ UNCHANGED <<dead, rate, pausedUntil>> /\ UNCHANGED <<holder, token, line>>
         /\ UNCHANGED storeVars
<1>1. Arrives(w, e) /\ Carried(e).kind = kind /\ UNCHANGED <<rate, lockVars, storeVars>>
  BY DEF Runs
<1>2. e.payload.kind # "wake"
  BY DEF Undisturbed
<1>3. /\ EventGood(e) /\ e.to = w /\ now' = e.due /\ now' \in Nat /\ now' >= now
      /\ UNCHANGED dead
  BY <1>1, ArrivesNext
<1>4. e.payload = Carried(e) /\ Carried(e) \in Plain
  BY <1>2, <1>3, CarriedPlain DEF EventGood
<1>5. pausedUntil' = pausedUntil
  BY <1>2 DEF Runs
<1>6. (\A x \in queue : e.due <= x.due) /\ now \in Nat
  BY <1>1 DEF Arrives, IInv, EngineType
<1> QED
  BY <1>1, <1>3, <1>4, <1>5, <1>6 DEF lockVars

-----------------------------------------------------------------------------
(* What a part of the invariant needs of a step. *)

LEMMA UndisturbedStays ==
  ASSUME Undisturbed, UNCHANGED <<dead, rate, pausedUntil, fencing>>,
         \A x \in queue' : x \in queue \/ x.payload.kind \notin {"wake", "reject"}
  PROVE  Undisturbed'
BY DEF Undisturbed

LEMMA SpacedStays ==
  ASSUME NEW g \in [Nat -> Nat], Spaced(g), token \in Nat, token' = token,
         now \in Nat, now' \in Nat, now <= now',
         holder' # Nil \/ holder' = holder \/ g[token] + LEASE_TTL <= now'
  PROVE  Spaced(g)'
BY TimeAssumption DEF Spaced

(* The times of an event are those of its token, a check's of its worker.  *)
LEMMA EventStays ==
  ASSUME NEW g, NEW h, NEW a, NEW b, NEW x, EventTimed(g, a, b, x),
         x.payload.kind \in {"grant", "expiry", "work", "write"} =>
           h[x.payload.token] = g[x.payload.token],
         x.payload.kind = "check" => state'[x.to] = "holding" /\ grantAt'[x.to] = grantAt[x.to]
  PROVE  EventTimed(h, a, b, x)'
BY DEF EventTimed, FirstWrite, LastWrite, Looks

LEMMA EventsStay ==
  ASSUME NEW g, NEW a, NEW b, EventsTimed(g, a, b),
         \A x \in queue' : \/ EventTimed(g, a, b, x)'
                           \/ /\ x \in queue
                              /\ Checks(x) => state'[x.to] = state[x.to] /\ grantAt'[x.to] = grantAt[x.to]
  PROVE  EventsTimed(g, a, b)'
<1> SUFFICES ASSUME NEW x \in queue' PROVE EventTimed(g, a, b, x)'
  BY DEF EventsTimed
<1>1. CASE /\ x \in queue
           /\ Checks(x) => state'[x.to] = state[x.to] /\ grantAt'[x.to] = grantAt[x.to]
  <2>1. EventTimed(g, a, b, x)
    BY <1>1 DEF EventsTimed
  <2>2. x.payload.kind = "check" => state'[x.to] = "holding" /\ grantAt'[x.to] = grantAt[x.to]
    BY <1>1, <2>1 DEF EventTimed, Checks
  <2> QED
    BY <2>1, <2>2, EventStays
<1> QED
  BY <1>1

LEMMA HoldersStay ==
  ASSUME NEW g, NEW a, NEW b, HoldersTimed(g, a, b),
         \A w \in Worker : state'[w] = "holding" =>
           \/ state[w] = "holding" /\ lease'[w] = lease[w] /\ grantAt'[w] = grantAt[w]
           \/ g[lease'[w]] + a <= grantAt'[w] /\ grantAt'[w] <= g[lease'[w]] + b
  PROVE  HoldersTimed(g, a, b)'
BY DEF HoldersTimed

LEMMA StoreStays ==
  ASSUME NEW g \in [Nat -> Nat], NEW a \in Nat, StoreTimed(g, a), UNCHANGED <<lastToken, value>>,
         lastToken \in Nat, now \in Nat, now' \in Nat, now <= now'
  PROVE  StoreTimed(g, a)'
BY TimeAssumption DEF StoreTimed, FirstWrite

(* Nobody's place changes with a step that moves no lease and adds nothing *)
(* but a timer of the work or a message of it.                             *)
LEMMA PlacesStay ==
  ASSUME PlacesRight, UNCHANGED <<state, lease, holder, token, line>>,
         \A x \in queue' : x \in queue \/ x.payload.kind \notin {"acquire", "grant", "check"}
  PROVE  PlacesRight'
<1>1. AsksOnce'
  BY DEF PlacesRight, AsksOnce, Asks, Grants, InLine
<1>2. GrantedOnce'
  BY DEF PlacesRight, GrantedOnce, Grants, InLine
<1>3. ChecksOnce'
  BY DEF PlacesRight, ChecksOnce, Checks
<1> QED
  BY <1>1, <1>2, <1>3 DEF PlacesRight, LineWaits, HolderServed

-----------------------------------------------------------------------------
(* The steps of the lock. *)

(* No acquire or grant of a worker is on its way; a line without it.       *)
FreeOf(q, w) == \A x \in q : (Asks(x) => x.from # w) /\ (Grants(x) => x.to # w)
Without(s, t, w) == \A i \in DOMAIN s : s[i] # w /\ \E j \in DOMAIN t : s[i] = t[j]
JoinedBy(s, t, w) == \A i \in DOMAIN s : s[i] = w \/ \E j \in DOMAIN t : s[i] = t[j]

(* A new lease, when the last one has run its time, for one who waits and  *)
(* neither asks nor is granted any more.                                   *)
LEMMA CalmGrant ==
  ASSUME IInv, NEW a \in Nat, NEW b \in Nat, Margin(a, b),
         NEW g \in [Nat -> Nat], CalmNow(g, a, b), Calm',
         NEW e \in queue, Arrives(LOCK, e), UNCHANGED <<workerVars, storeVars>>,
         NEW to \in Worker, GrantTo(queue \ {e}, to, e.due),
         token > 0 => g[token] + LEASE_TTL <= e.due,
         state[to] = "waiting", FreeOf(queue \ {e}, to), Without(line', line, to)
  PROVE  CalmInv(a, b)'
<1> DEFINE q == queue \ {e}
           due == e.due + LEASE_TTL
           expiry == Expiry(token + 1)
           grant == Grant(token + 1)
           r == Put(q, Event(due, LOCK, LOCK, expiry))
<1>1. /\ now' = e.due /\ now' \in Nat /\ now' >= now /\ now \in Nat /\ UNCHANGED dead
      /\ \A x \in queue : EventGood(x)
  BY ArrivesNext DEF IInv, EngineType
<1>2. token \in Nat /\ token + 1 \in Nat /\ token' = token + 1 /\ holder' = to /\ EngineType
  BY DEF IInv, LockType, GrantTo
<1>3. PICK x1 : r = q \cup {x1} /\ Like(x1, due, LOCK, LOCK, expiry)
  BY PutOne
<1>4. Send(r, e.due, LOCK, to, grant)
  BY DEF GrantTo
<1> HIDE DEF r
<1>5. PICK d, x2 : d \in Latency /\ queue' = r \cup {x2} /\ Like(x2, e.due + d, to, LOCK, grant)
  BY <1>2, <1>4, SendsOne
<1>6. /\ queue' = q \cup {x1, x2}
      /\ x1.payload = expiry /\ expiry.kind = "expiry" /\ expiry.token = token + 1 /\ x1.due = due
      /\ x2.payload = grant /\ grant.kind = "grant" /\ grant.token = token + 1 /\ x2.to = to
      /\ x2.due = e.due + d
  BY <1>3, <1>5 DEF Like, Expiry, Grant
<1>7. UNCHANGED <<state, lease, grantAt, rate, pausedUntil, lastToken, value, fencing>>
  BY DEF workerVars, leaseVars, storeVars
<1>8. PICK h \in [Nat -> Nat] : h[token + 1] = now' /\ \A t \in 0..token : h[t] = g[t]
  <2> DEFINE f == [g EXCEPT ![token + 1] = now']
  <2>1. f \in [Nat -> Nat] /\ f[token + 1] = now' /\ \A t \in 0..token : f[t] = g[t]
    BY <1>1, <1>2
  <2> QED
    BY <2>1
<1> HIDE DEF expiry, grant
<1>9. Undisturbed'
  <2>1. \A x \in queue' : x \in queue \/ x.payload.kind \notin {"wake", "reject"}
    BY <1>6
  <2> QED
    BY <1>1, <1>7, <2>1, UndisturbedStays DEF CalmNow
<1>10. Spaced(h)'
  <2>1. Spaced(g)
    BY DEF CalmNow, Timed
  <2>2. ASSUME NEW t \in 1..(token + 1), NEW u \in 1..(token + 1), t < u
        PROVE  h[t] + LEASE_TTL <= h[u]
    <3>1. CASE u <= token
      BY <1>2, <1>8, <2>1, <2>2, <3>1 DEF Spaced
    <3>2. CASE u = token + 1
      <4>1. t \in 1..token /\ token \in 1..token /\ h[t] = g[t] /\ g[t] \in Nat /\ g[token] \in Nat
        BY <1>2, <1>8, <2>2, <3>2
      <4>2. t < token => g[t] + LEASE_TTL <= g[token]
        BY <2>1, <4>1 DEF Spaced
      <4>3. g[t] <= g[token]
        BY <1>2, <4>1, <4>2, TimeAssumption
      <4> QED
        BY <1>1, <1>2, <1>8, <3>2, <4>1, <4>3, TimeAssumption
    <3> QED
      BY <1>2, <3>1, <3>2
  <2>3. holder' # Nil
    BY <1>2, NodeAssumption DEF Node
  <2> QED
    BY <1>1, <1>2, <1>8, <2>2, <2>3 DEF Spaced
<1>11. EventsTimed(h, a, b)'
  <2> SUFFICES ASSUME NEW x \in queue' PROVE EventTimed(h, a, b, x)'
    BY DEF EventsTimed
  <2>1. CASE x \in q
    <3>1. EventTimed(g, a, b, x)
      BY <2>1 DEF CalmNow, Timed, EventsTimed
    <3>2. x.payload.kind \in {"grant", "expiry", "work", "write"} =>
            h[x.payload.token] = g[x.payload.token]
      <4>1. Carried(x) \in Plain /\ (x.payload.kind # "wake" => Carried(x) = x.payload)
        BY <1>1, <2>1, CarriedPlain DEF EventGood
      <4>2. x.payload.kind \in {"grant", "expiry", "work", "write"} => x.payload.token \in Token
        BY <4>1, PlainKinds
      <4> QED
        BY <1>8, <4>2 DEF Token
    <3>3. x.payload.kind = "check" => state'[x.to] = "holding" /\ grantAt'[x.to] = grantAt[x.to]
      BY <1>7, <3>1 DEF EventTimed
    <3> QED
      BY <3>1, <3>2, <3>3, EventStays
  <2>2. CASE x = x1
    BY <1>1, <1>2, <1>6, <1>8, <2>2 DEF EventTimed
  <2>3. CASE x = x2
    <3>1. d \in Nat /\ a <= d /\ d <= b
      BY <1>5, TimeAssumption DEF Margin
    <3>2. h[token + 1] + a <= x2.due /\ x2.due <= h[token + 1] + b
      BY <1>1, <1>6, <1>8, <3>1
    <3> QED
      BY <1>6, <2>3, <3>2 DEF EventTimed
  <2> QED
    BY <1>6, <2>1, <2>2, <2>3
<1>12. HoldersTimed(h, a, b)'
  <2>1. \A w \in Worker : state[w] = "holding" => lease[w] \in 0..token
    BY <1>2 DEF IInv, WorkerType
  <2>2. \A w \in Worker : state[w] = "holding" => h[lease[w]] = g[lease[w]]
    BY <1>8, <2>1
  <2> QED
    BY <1>7, <2>2 DEF CalmNow, Timed, HoldersTimed
<1>13. StoreTimed(h, a)'
  <2>1. lastToken \in 0..token
    BY DEF IInv, StoreType
  <2>2. lastToken \in Nat /\ h[lastToken] = g[lastToken]
    BY <1>2, <1>8, <2>1
  <2> QED
    BY <1>1, <1>7, <2>2, TimeAssumption DEF CalmNow, Timed, StoreTimed, FirstWrite
<1>14. AsksOnce'
  <2>1. \A x \in queue' : Asks(x) => x \in q /\ x.from # to
    BY <1>6 DEF Asks, FreeOf
  <2>2. \A x \in queue' : Grants(x) => x \in q \/ x.to = to
    BY <1>6 DEF Grants
  <2>3. \A w : InLine(w)' => InLine(w)
    BY DEF InLine, Without
  <2> QED
    BY <1>2, <1>7, <2>1, <2>2, <2>3 DEF CalmNow, PlacesRight, AsksOnce, Asks, Grants
<1>15. GrantedOnce'
  <2>1. \A x \in queue' : Grants(x) => (x \in q /\ x.to # to) \/ x = x2
    BY <1>6 DEF Grants, FreeOf
  <2>2. ~InLine(to)'
    BY DEF InLine, Without
  <2>3. ASSUME NEW x \in q, Grants(x), x.to # to
        PROVE  x.to \in Worker /\ state[x.to] = "waiting" /\ ~InLine(x.to)'
    BY <2>3 DEF CalmNow, PlacesRight, GrantedOnce, InLine, Without
  <2>4. \A x, y \in q : Grants(x) /\ Grants(y) /\ y.to = x.to => y = x
    BY DEF CalmNow, PlacesRight, GrantedOnce
  <2>5. x2.to = to /\ x2.payload.token = token' /\ state' = state /\ holder' = to
    BY <1>2, <1>6, <1>7
  <2> QED
    BY <2>1, <2>2, <2>3, <2>4, <2>5 DEF GrantedOnce, Grants
<1>16. ChecksOnce'
  BY <1>6 DEF CalmNow, PlacesRight, ChecksOnce, Checks
<1>17. LineWaits' /\ HolderServed'
  BY <1>2, <1>7 DEF CalmNow, PlacesRight, LineWaits, HolderServed, Without
<1>18. CalmNow(h, a, b)'
  BY <1>8, <1>9, <1>10, <1>11, <1>12, <1>13, <1>14, <1>15, <1>16, <1>17
     DEF CalmNow, PlacesRight, Timed
<1> QED
  BY <1>8, <1>18 DEF CalmInv

(* A step of the lock that grants nothing. *)
LEMMA CalmNoGrant ==
  ASSUME IInv, NEW a \in Nat, NEW b \in Nat, NEW g \in [Nat -> Nat], CalmNow(g, a, b),
         NEW e \in queue, Arrives(LOCK, e), UNCHANGED <<workerVars, storeVars, token>>,
         queue' = queue \ {e},
         \/ holder' = Nil /\ g[token] + LEASE_TTL <= e.due /\ line' = <<>>
         \/ /\ holder' = holder
            /\ \/ line' = line
               \/ Asks(e) /\ state[e.from] = "waiting" /\ JoinedBy(line', line, e.from)
  PROVE  CalmInv(a, b)'
<1>1. now' = e.due /\ now' \in Nat /\ now' >= now /\ now \in Nat /\ UNCHANGED dead
  BY ArrivesNext DEF IInv, EngineType
<1>2. /\ UNCHANGED <<state, lease, grantAt, rate, pausedUntil, lastToken, value, fencing>>
      /\ token \in Nat /\ token' = token /\ lastToken \in Nat
  BY DEF workerVars, leaseVars, storeVars, IInv, LockType, StoreType
<1>3. Undisturbed'
  BY <1>1, <1>2, UndisturbedStays DEF CalmNow
<1>4. Spaced(g)'
  BY <1>1, <1>2, SpacedStays DEF CalmNow, Timed
<1>5. EventsTimed(g, a, b)'
  BY <1>2, EventsStay DEF CalmNow, Timed
<1>6. HoldersTimed(g, a, b)' /\ StoreTimed(g, a)'
  BY <1>1, <1>2, HoldersStay, StoreStays DEF CalmNow, Timed
<1>7. ChecksOnce' /\ LineWaits'
  <2>1. ChecksOnce'
    BY DEF CalmNow, PlacesRight, ChecksOnce, Checks
  <2>2. CASE line' = <<>>
    BY <2>1, <2>2 DEF LineWaits
  <2>3. CASE line' = line
    BY <1>2, <2>1, <2>3 DEF CalmNow, PlacesRight, LineWaits
  <2>4. CASE Asks(e) /\ state[e.from] = "waiting" /\ JoinedBy(line', line, e.from)
    BY <1>2, <2>1, <2>4 DEF CalmNow, PlacesRight, LineWaits, JoinedBy
  <2> QED
    BY <2>2, <2>3, <2>4
<1>8. HolderServed'
  BY <1>2, NodeAssumption DEF CalmNow, PlacesRight, HolderServed, Node
<1>9. \A x \in queue' : /\ Asks(x) => x.from \in Worker /\ ~InLine(x.from)'
                        /\ Grants(x) => ~InLine(x.to)'
  <2>1. ASSUME NEW x \in queue', Asks(x)
        PROVE  x.from \in Worker /\ ~InLine(x.from) /\ (Asks(e) => x.from # e.from)
    <3>1. x.from \in Worker
      BY <2>1 DEF Asks, IInv, EventsGood, EventGood, Carried
    <3> QED
      BY <2>1, <3>1 DEF CalmNow, PlacesRight, AsksOnce
  <2>2. ASSUME NEW x \in queue', Grants(x)
        PROVE  ~InLine(x.to) /\ (Asks(e) => x.to # e.from)
    BY <2>2 DEF CalmNow, PlacesRight, AsksOnce, GrantedOnce
  <2>3. \A w : InLine(w)' => InLine(w) \/ (Asks(e) /\ w = e.from)
    <3>1. CASE line' = <<>>
      BY <3>1 DEF InLine
    <3>2. CASE line' = line
      BY <3>2 DEF InLine
    <3>3. CASE Asks(e) /\ JoinedBy(line', line, e.from)
      BY <3>3 DEF InLine, JoinedBy
    <3> QED
      BY <3>1, <3>2, <3>3
  <2>4. ASSUME NEW x \in queue', Asks(x)
        PROVE  x.from \in Worker /\ ~InLine(x.from)'
    <3>1. x.from \in Worker /\ ~InLine(x.from) /\ (Asks(e) => x.from # e.from)
      BY <2>1, <2>4
    <3> QED
      BY <2>3, <3>1
  <2>5. ASSUME NEW x \in queue', Grants(x)
        PROVE  ~InLine(x.to)'
    <3>1. ~InLine(x.to) /\ (Asks(e) => x.to # e.from)
      BY <2>2, <2>5
    <3> QED
      BY <2>3, <3>1
  <2> QED
    BY <2>4, <2>5
<1>10. AsksOnce'
  BY <1>2, <1>9, NodeAssumption DEF CalmNow, PlacesRight, AsksOnce, Asks, Grants, Node
<1>11. GrantedOnce'
  BY <1>2, <1>9, NodeAssumption DEF CalmNow, PlacesRight, GrantedOnce, Grants, Node
<1>12. CalmNow(g, a, b)'
  BY <1>3, <1>4, <1>5, <1>6, <1>7, <1>8, <1>10, <1>11 DEF CalmNow, PlacesRight, Timed
<1> QED
  BY <1>12 DEF CalmInv

LEMMA CalmAcquire ==
  ASSUME IInv, NEW a \in Nat, NEW b \in Nat, Margin(a, b),
         NEW g \in [Nat -> Nat], CalmNow(g, a, b), Calm',
         NEW e \in queue, HandleAcquire(e)
  PROVE  CalmInv(a, b)'
<1> DEFINE q == queue \ {e}
<1>1. Arrives(LOCK, e) /\ Asks(e) /\ UNCHANGED <<workerVars, storeVars>>
  BY DEF HandleAcquire, Asks
<1>2. /\ e.from \in Worker /\ line \in Seq(Worker) /\ Distinct(line)
      /\ holder = Nil => line = <<>>
      /\ \A i \in DOMAIN line : line[i] # holder
  BY <1>1 DEF IInv, EventsGood, EventGood, Carried, Asks, LockType, LineSound, Distinct
<1>3. /\ state[e.from] = "waiting" /\ ~InLine(e.from) /\ holder # e.from
      /\ FreeOf(q, e.from)
  BY <1>1 DEF CalmNow, PlacesRight, AsksOnce, FreeOf
<1>4. CASE holder = Nil /\ GrantTo(q, e.from, e.due) /\ UNCHANGED line
  <2>1. Without(line', line, e.from)
    BY <1>3, <1>4 DEF InLine, Without
  <2>2. token > 0 => g[token] + LEASE_TTL <= e.due
    <3>1. e.due \in Nat /\ now \in Nat /\ now <= e.due
      BY <1>1, ArrivesNext DEF IInv, EngineType
    <3>2. token \in Nat /\ g[token] \in Nat
      BY DEF IInv, LockType
    <3> QED
      BY <1>4, <3>1, <3>2, TimeAssumption DEF CalmNow, Timed, Spaced
  <2> QED
    BY <1>1, <1>2, <1>3, <1>4, <2>1, <2>2, CalmGrant
<1>5. CASE /\ holder \notin {Nil, e.from} /\ UNCHANGED <<holder, token>> /\ NoSend(q)
           /\ line' = IF InLine(e.from) THEN line ELSE Append(line, e.from)
  <2>1. line' = Append(line, e.from) /\ \A i \in DOMAIN line : line[i] # e.from
    BY <1>3, <1>5 DEF InLine
  <2>2. JoinedBy(line', line, e.from)
    BY <1>2, <2>1, JoinsOnce DEF JoinedBy
  <2>3. queue' = q /\ holder' = holder /\ token' = token
    BY <1>5 DEF NoSend
  <2> QED
    BY <1>1, <1>3, <2>2, <2>3, CalmNoGrant
<1> QED
  BY <1>3, <1>4, <1>5 DEF HandleAcquire

LEMMA CalmExpiry ==
  ASSUME IInv, NEW a \in Nat, NEW b \in Nat, Margin(a, b),
         NEW g \in [Nat -> Nat], CalmNow(g, a, b), Calm',
         NEW e \in queue, HandleExpiry(e)
  PROVE  CalmInv(a, b)'
<1> DEFINE q == queue \ {e}
<1>1. Arrives(LOCK, e) /\ e.payload.kind = "expiry" /\ UNCHANGED <<workerVars, storeVars>>
  BY DEF HandleExpiry
<1>2. e.due = g[e.payload.token] + LEASE_TTL /\ g[e.payload.token] + LEASE_TTL <= e.due
  <2>1. EventTimed(g, a, b, e)
    BY DEF CalmNow, Timed, EventsTimed
  <2>2. e.due = g[e.payload.token] + LEASE_TTL /\ e.due \in Nat
    BY <1>1, <2>1 DEF EventTimed, IInv, EventsGood, EventGood
  <2> QED
    BY <2>2
<1>3. line \in Seq(Worker) /\ Distinct(line)
  BY DEF IInv, LockType, LineSound, Distinct
<1>4. CASE holder # Nil /\ token = e.payload.token /\ line = <<>>
  <2>1. holder' = Nil /\ line' = <<>> /\ UNCHANGED token /\ queue' = q
    BY <1>4 DEF HandleExpiry, ServeNext, NoSend
  <2> QED
    BY <1>1, <1>2, <1>4, <2>1, CalmNoGrant
<1>5. CASE holder # Nil /\ token = e.payload.token /\ line # <<>>
  <2> DEFINE to == Head(line)
  <2>1. line' = Tail(line) /\ GrantTo(q, to, e.due)
    BY <1>5 DEF HandleExpiry, ServeNext
  <2>2. /\ to \in Worker /\ \A i \in DOMAIN Tail(line) : Tail(line)[i] # to
        /\ 1 \in DOMAIN line /\ to = line[1]
        /\ \A i \in DOMAIN Tail(line) : \E j \in DOMAIN line : Tail(line)[i] = line[j]
    BY <1>3, <1>5, ServedLeaves
  <2> HIDE DEF to
  <2>3. state[to] = "waiting" /\ InLine(to)
    BY <2>2 DEF InLine, CalmNow, PlacesRight, LineWaits
  <2>4. FreeOf(q, to)
    BY <2>3 DEF CalmNow, PlacesRight, AsksOnce, GrantedOnce, FreeOf
  <2>5. Without(line', line, to)
    BY <2>1, <2>2 DEF Without
  <2>6. token > 0 => g[token] + LEASE_TTL <= e.due
    BY <1>2, <1>5
  <2> QED
    BY <1>1, <2>1, <2>2, <2>3, <2>4, <2>5, <2>6, CalmGrant
<1>6. CASE ~(holder # Nil /\ token = e.payload.token)
  <2>1. queue' = q /\ UNCHANGED <<holder, token, line>>
    BY <1>6 DEF HandleExpiry, NoSend, lockVars
  <2> QED
    BY <1>1, <2>1, CalmNoGrant
<1> QED
  BY <1>4, <1>5, <1>6

-----------------------------------------------------------------------------
(* The steps of the workers and of the store. *)

LEMMA CalmTakesGrant ==
  ASSUME IInv, NEW a \in Nat, NEW b \in Nat, Margin(a, b),
         NEW g \in [Nat -> Nat], CalmNow(g, a, b),
         NEW w \in Worker, NEW e \in queue, HandleGrant(w, e)
  PROVE  CalmInv(a, b)'
<1> DEFINE q == queue \ {e}
           t == e.payload.token
           due == e.due + WRITE_EVERY
<1>1. Runs(w, e, "grant")
  BY DEF HandleGrant
<1>2. /\ e.payload = Carried(e) /\ Grants(e) /\ e.to = w
      /\ now' = e.due /\ now' \in Nat /\ now' >= now /\ now \in Nat
      /\ UNCHANGED <<dead, rate, pausedUntil, holder, token, line>>
      /\ UNCHANGED <<lastToken, value, fencing>>
  BY <1>1, RunsCalm DEF CalmNow, Grants, storeVars
<1>3. /\ state[w] = "waiting" /\ ~InLine(w) /\ (holder = w => t = token)
      /\ \A x \in q : Grants(x) => x.to # w
  BY <1>2 DEF CalmNow, PlacesRight, GrantedOnce
<1>4. \A x \in q : Asks(x) => x.from # w
  BY <1>2 DEF CalmNow, PlacesRight, AsksOnce
<1>5. \A x \in q : Checks(x) => x.to # w /\ x.to \in Worker
  <2>1. \A x \in q : EventTimed(g, a, b, x)
    BY DEF CalmNow, Timed, EventsTimed
  <2> QED
    BY <1>3, <2>1 DEF EventTimed, Checks
<1>6. Adopt(w, t, e.due) /\ queue' = Put(q, Event(due, w, w, Check))
  BY <1>2, <1>3 DEF HandleGrant, NoSend
<1>7. PICK n : queue' = q \cup {n} /\ Like(n, due, w, w, Check)
  BY <1>6, PutOne
<1>8. n.payload.kind = "check" /\ n.to = w /\ n.due = e.due + WRITE_EVERY
  BY <1>7 DEF Like, Check
<1>9. /\ state' = [state EXCEPT ![w] = "holding"] /\ state'[w] = "holding"
      /\ lease'[w] = t /\ grantAt'[w] = e.due
      /\ \A v \in Worker \ {w} : state'[v] = state[v] /\ lease'[v] = lease[v] /\ grantAt'[v] = grantAt[v]
  BY <1>6 DEF Adopt, IInv, WorkerType
<1>10. token \in Nat /\ lastToken \in Nat
  BY DEF IInv, LockType, StoreType
<1>11. Undisturbed'
  <2>1. \A x \in queue' : x \in queue \/ x.payload.kind \notin {"wake", "reject"}
    BY <1>7, <1>8
  <2> QED
    BY <1>2, <2>1, UndisturbedStays DEF CalmNow
<1>12. Spaced(g)' /\ StoreTimed(g, a)'
  BY <1>2, <1>10, SpacedStays, StoreStays DEF CalmNow, Timed
<1>13. EventsTimed(g, a, b)'
  <2>1. EventTimed(g, a, b, n)'
    <3>1. WRITE_EVERY = 1 * WRITE_EVERY /\ 1 \in Nat \ {0}
      BY TimeAssumption
    <3>2. n.due \in Looks(w)'
      BY <1>8, <1>9, <3>1 DEF Looks
    <3> QED
      BY <1>8, <1>9, <3>2 DEF EventTimed
  <2>2. \A x \in q : Checks(x) => state'[x.to] = state[x.to] /\ grantAt'[x.to] = grantAt[x.to]
    BY <1>5, <1>9
  <2> QED
    BY <1>7, <2>1, <2>2, EventsStay DEF CalmNow, Timed
<1>14. HoldersTimed(g, a, b)'
  <2>1. g[t] + a <= e.due /\ e.due <= g[t] + b
    BY <1>2 DEF CalmNow, Timed, EventsTimed, EventTimed, Grants
  <2> QED
    BY <1>9, <2>1, HoldersStay DEF CalmNow, Timed
<1>15. AsksOnce'
  <2>1. \A x \in queue' : (Asks(x) => x \in q) /\ (Grants(x) => x \in q)
    BY <1>7, <1>8 DEF Asks, Grants
  <2>2. \A x \in q : Asks(x) => x.from \in Worker \ {w}
    BY <1>4 DEF Asks, IInv, EventsGood, EventGood, Carried
  <2> QED
    BY <1>2, <1>9, <2>1, <2>2 DEF CalmNow, PlacesRight, AsksOnce, InLine, Asks, Grants
<1>16. GrantedOnce'
  <2>1. \A x \in queue' : Grants(x) => x \in q /\ x.to # w
    BY <1>3, <1>7, <1>8 DEF Grants
  <2> QED
    BY <1>2, <1>9, <2>1 DEF CalmNow, PlacesRight, GrantedOnce, InLine, Grants
<1>17. ChecksOnce'
  <2>1. \A x \in queue' : Checks(x) => x = n \/ (x \in q /\ x.to # w)
    BY <1>5, <1>7
  <2> QED
    BY <1>8, <2>1 DEF CalmNow, PlacesRight, ChecksOnce, Checks
<1>18. LineWaits' /\ HolderServed'
  <2>1. LineWaits'
    <3>1. \A i \in DOMAIN line : line[i] # w /\ state[line[i]] = "waiting"
      BY <1>3 DEF InLine, CalmNow, PlacesRight, LineWaits
    <3>2. \A v : v # w /\ state[v] = "waiting" => state'[v] = "waiting" \/ v \notin Worker
      BY <1>9
    <3>3. \A i \in DOMAIN line : line[i] \in Worker
      BY DEF IInv, LockType
    <3> QED
      BY <1>2, <3>1, <3>2, <3>3 DEF LineWaits
  <2>2. HolderServed'
    BY <1>2, <1>3, <1>9 DEF CalmNow, PlacesRight, HolderServed
  <2> QED
    BY <2>1, <2>2
<1>19. CalmNow(g, a, b)'
  BY <1>11, <1>12, <1>13, <1>14, <1>15, <1>16, <1>17, <1>18 DEF CalmNow, PlacesRight, Timed
<1> QED
  BY <1>19 DEF CalmInv

(* A look that finds a lease valid is no later than the last.              *)
LEMMA LooksEnd ==
  ASSUME LEASE_TTL > 0, WRITE_EVERY > 0, NEW k \in Nat, k * WRITE_EVERY < LEASE_TTL
  PROVE  k * WRITE_EVERY <= LastLook
<1> DEFINE d == (LEASE_TTL - 1) \div WRITE_EVERY
<1>1. LEASE_TTL \in Nat /\ WRITE_EVERY \in Nat
  BY TimeAssumption
<1>2. d \in Nat /\ LEASE_TTL - 1 < d * WRITE_EVERY + WRITE_EVERY
  BY <1>1
<1>3. k <= d
  <2>1. SUFFICES ASSUME d + 1 <= k PROVE FALSE
    BY <1>2
  <2>2. k \in Int /\ d + 1 \in Int /\ (d + 1) * WRITE_EVERY <= k * WRITE_EVERY
    BY <1>1, <1>2, <2>1
  <2>3. (d + 1) * WRITE_EVERY = d * WRITE_EVERY + WRITE_EVERY
    BY <1>1, <1>2
  <2> QED
    BY <1>1, <1>2, <2>2, <2>3
<1> QED
  BY <1>1, <1>2, <1>3 DEF LastLook

LEMMA LastLookInt ==
  ASSUME LEASE_TTL > 0, WRITE_EVERY > 0
  PROVE  LastLook \in Int
<1>1. LEASE_TTL \in Nat /\ WRITE_EVERY \in Nat
  BY TimeAssumption
<1>2. (LEASE_TTL - 1) \div WRITE_EVERY \in Int
  BY <1>1
<1> QED
  BY <1>1, <1>2 DEF LastLook

(* When a lease is looked at, and what follows from what is seen.          *)
LEMMA LookTimes ==
  ASSUME IInv, NEW a \in Nat, NEW b \in Nat, Margin(a, b),
         NEW g \in [Nat -> Nat], CalmNow(g, a, b),
         NEW w \in Worker, NEW e \in queue, Checks(e), e.to = w
  PROVE  LET t == lease[w] IN
         /\ state[w] = "holding" /\ t \in 1..token /\ g[t] \in Nat /\ grantAt[w] \in Nat /\ e.due \in Nat
         /\ e.due + WRITE_EVERY \in Looks(w)
         /\ LooksValid(w, e.due) => g[t] + a + WRITE_EVERY <= e.due /\ e.due <= g[t] + b + LastLook
         /\ ~LooksValid(w, e.due) => g[t] + a + LEASE_TTL <= e.due
<1> DEFINE t == lease[w]
<1>1. state[w] = "holding" /\ e.due \in Looks(w)
  BY DEF CalmNow, Timed, EventsTimed, EventTimed, Checks
<1>2. PICK k \in Nat \ {0} : e.due = grantAt[w] + k * WRITE_EVERY
  BY <1>1 DEF Looks
<1>3. /\ t \in 1..token /\ token \in Nat /\ grantAt[w] \in Nat /\ e.due \in Nat
      /\ rate[w] = 100 /\ g[t] + a <= grantAt[w] /\ grantAt[w] <= g[t] + b
  BY <1>1 DEF IInv, LockType, WorkerType, EventsGood, EventGood, CalmNow, Undisturbed, Timed, HoldersTimed
<1>4. LEASE_TTL \in Nat /\ WRITE_EVERY \in Nat /\ LEASE_TTL > 0 /\ WRITE_EVERY > 0 /\ g[t] \in Nat
  BY <1>3, TimeAssumption DEF Margin
<1> HIDE DEF t
<1>5. k * WRITE_EVERY \in Nat /\ k * WRITE_EVERY >= WRITE_EVERY
  <2>1. k >= 1 /\ k - 1 \in Nat /\ k * WRITE_EVERY = (k - 1) * WRITE_EVERY + WRITE_EVERY
    BY <1>4
  <2>2. (k - 1) * WRITE_EVERY \in Nat
    BY <1>4, <2>1
  <2> QED
    BY <1>4, <2>1, <2>2
<1>6. e.due + WRITE_EVERY \in Looks(w)
  <2>1. k + 1 \in Nat \ {0} /\ (k + 1) * WRITE_EVERY = k * WRITE_EVERY + WRITE_EVERY
    BY <1>4
  <2>2. e.due + WRITE_EVERY = grantAt[w] + (k + 1) * WRITE_EVERY
    BY <1>2, <1>3, <1>4, <1>5, <2>1
  <2> QED
    BY <2>1, <2>2 DEF Looks
<1>7. LooksValid(w, e.due) <=> k * WRITE_EVERY < LEASE_TTL
  <2> DEFINE m == k * WRITE_EVERY
  <2>1. m \in Nat /\ e.due - grantAt[w] = m
    BY <1>2, <1>3, <1>5
  <2> HIDE DEF m
  <2>2. LooksValid(w, e.due) <=> m * 100 < LEASE_TTL * 100
    BY <1>3, <2>1 DEF LooksValid, LocalElapsed
  <2> QED
    BY <1>4, <2>1, <2>2 DEF m
<1>8. k * WRITE_EVERY < LEASE_TTL => k * WRITE_EVERY <= LastLook
  BY <1>4, LooksEnd
<1>9. LastLook \in Int
  BY <1>4 DEF LastLook
<1>10. /\ LooksValid(w, e.due) => g[t] + a + WRITE_EVERY <= e.due /\ e.due <= g[t] + b + LastLook
       /\ ~LooksValid(w, e.due) => g[t] + a + LEASE_TTL <= e.due
  <2> DEFINE m == k * WRITE_EVERY
  <2> HIDE DEF m
  <2> QED
    BY <1>2, <1>3, <1>4, <1>5, <1>7, <1>8, <1>9 DEF m
<1> QED
  BY <1>1, <1>3, <1>4, <1>6, <1>10 DEF t

LEMMA CalmCheck ==
  ASSUME IInv, NEW a \in Nat, NEW b \in Nat, Margin(a, b),
         NEW g \in [Nat -> Nat], CalmNow(g, a, b), Calm,
         NEW w \in Worker, NEW e \in queue, HandleCheck(w, e)
  PROVE  CalmInv(a, b)'
<1> DEFINE q == queue \ {e}
           t == lease[w]
           r == Put(q, Event(e.due + WORK_TICKS, w, w, Work(t)))
<1>1. Runs(w, e, "check")
  BY DEF HandleCheck
<1>2. /\ Checks(e) /\ e.to = w
      /\ now' = e.due /\ now' \in Nat /\ now' >= now /\ now \in Nat
      /\ \A x \in queue : e.due <= x.due
      /\ UNCHANGED <<dead, rate, pausedUntil, holder, token, line>>
      /\ UNCHANGED <<lastToken, value, fencing>>
  BY <1>1, RunsCalm DEF CalmNow, Checks, storeVars
<1>3. /\ state[w] = "holding" /\ t \in 1..token /\ g[t] \in Nat /\ grantAt[w] \in Nat /\ e.due \in Nat
      /\ e.due + WRITE_EVERY \in Looks(w)
      /\ LooksValid(w, e.due) => g[t] + a + WRITE_EVERY <= e.due /\ e.due <= g[t] + b + LastLook
      /\ ~LooksValid(w, e.due) => g[t] + a + LEASE_TTL <= e.due
  BY <1>2, LookTimes
<1>4. token \in Nat /\ lastToken \in Nat /\ LastLook \in Int
  BY LastLookInt DEF IInv, LockType, StoreType, Margin
<1>5. Spaced(g)' /\ StoreTimed(g, a)'
  BY <1>2, <1>4, SpacedStays, StoreStays DEF CalmNow, Timed
<1>6. \A x \in q : Checks(x) => x.to # w /\ x.to \in Worker
  <2>1. \A x \in q : EventTimed(g, a, b, x)
    BY DEF CalmNow, Timed, EventsTimed
  <2> QED
    BY <1>2, <2>1 DEF CalmNow, PlacesRight, ChecksOnce, EventTimed, Checks
<1>7. CASE LooksValid(w, e.due)
  <2>1. UNCHANGED leaseVars /\ queue' = Put(r, Event(e.due + WRITE_EVERY, w, w, Check))
    BY <1>3, <1>7 DEF HandleCheck, NoSend
  <2>2. PICK x1 : r = q \cup {x1} /\ Like(x1, e.due + WORK_TICKS, w, w, Work(t))
    BY PutOne
  <2> HIDE DEF r
  <2>3. PICK x2 : queue' = r \cup {x2} /\ Like(x2, e.due + WRITE_EVERY, w, w, Check)
    BY <2>1, PutOne
  <2>4. /\ queue' = q \cup {x1, x2}
        /\ x1.payload.kind = "work" /\ x1.payload.token = t /\ x1.due = e.due + WORK_TICKS
        /\ x2.payload.kind = "check" /\ x2.to = w /\ x2.due = e.due + WRITE_EVERY
    BY <2>2, <2>3 DEF Like, Work, Check
  <2>5. UNCHANGED <<state, lease, grantAt>>
    BY <2>1 DEF leaseVars
  <2>6. Undisturbed'
    <3>1. \A x \in queue' : x \in queue \/ x.payload.kind \notin {"wake", "reject"}
      BY <2>4
    <3> QED
      BY <1>2, <3>1, UndisturbedStays DEF CalmNow
  <2>7. EventsTimed(g, a, b)'
    <3>1. EventTimed(g, a, b, x1)'
      <4>1. FirstWrite(g, a, t) <= x1.due + a /\ x1.due + b <= LastWrite(g, b, t)
        BY <1>3, <1>4, <1>7, <2>4, TimeAssumption DEF FirstWrite, LastWrite
      <4> QED
        BY <1>3, <2>4, <4>1 DEF EventTimed, FirstWrite, LastWrite
    <3>2. EventTimed(g, a, b, x2)'
      BY <1>3, <2>4, <2>5 DEF EventTimed, Looks
    <3> QED
      BY <2>4, <2>5, <3>1, <3>2, EventsStay DEF CalmNow, Timed
  <2>8. HoldersTimed(g, a, b)'
    BY <2>5, HoldersStay DEF CalmNow, Timed
  <2>9. AsksOnce' /\ GrantedOnce'
    <3>1. \A x \in queue' : (Asks(x) => x \in q) /\ (Grants(x) => x \in q)
      BY <2>4 DEF Asks, Grants
    <3>2. AsksOnce'
      BY <1>2, <2>5, <3>1 DEF CalmNow, PlacesRight, AsksOnce, InLine, Asks, Grants
    <3>3. GrantedOnce'
      BY <1>2, <2>5, <3>1 DEF CalmNow, PlacesRight, GrantedOnce, InLine, Grants
    <3> QED
      BY <3>2, <3>3
  <2>10. ChecksOnce'
    <3>1. \A x \in queue' : Checks(x) => x = x2 \/ (x \in q /\ x.to # w)
      BY <1>6, <2>4 DEF Checks
    <3> QED
      BY <2>4, <3>1 DEF CalmNow, PlacesRight, ChecksOnce, Checks
  <2>11. LineWaits' /\ HolderServed'
    BY <1>2, <2>5 DEF CalmNow, PlacesRight, LineWaits, HolderServed
  <2>12. CalmNow(g, a, b)'
    BY <1>5, <2>6, <2>7, <2>8, <2>9, <2>10, <2>11 DEF CalmNow, PlacesRight, Timed
  <2> QED
    BY <2>12 DEF CalmInv
<1>8. CASE ~LooksValid(w, e.due)
  <2>1. DropLease(w) /\ queue' = q
    BY <1>3, <1>8 DEF HandleCheck, NoSend
  <2>2. /\ state'[w] = "idle"
        /\ \A v \in Worker \ {w} : state'[v] = state[v] /\ lease'[v] = lease[v] /\ grantAt'[v] = grantAt[v]
    BY <2>1 DEF DropLease, IInv, WorkerType
  <2>3. holder # w
    <3>1. SUFFICES ASSUME holder = w PROVE FALSE
      OBVIOUS
    <3>2. holder # Nil /\ faults["kill-node"] = 0
      BY <3>1, NodeAssumption DEF Node, Calm, Fault
    <3>3. PICK x \in queue : x.payload = Expiry(token)
      BY <3>2 DEF IInv, ExpiryPending
    <3>4. x.payload.kind = "expiry" /\ x.payload.token = token /\ EventTimed(g, a, b, x)
      BY <3>3 DEF Expiry, CalmNow, Timed, EventsTimed
    <3>5. x.due = g[token] + LEASE_TTL
      BY <3>4 DEF EventTimed
    <3>6. lease[w] = token
      BY <1>3, <3>1 DEF CalmNow, PlacesRight, HolderServed
    <3>7. e.due <= g[t] + LEASE_TTL /\ g[t] + a + LEASE_TTL <= e.due /\ a > 0
      BY <1>2, <1>3, <1>8, <3>5, <3>6 DEF Margin
    <3> QED
      BY <1>3, <3>7, TimeAssumption
  <2>4. Undisturbed'
    BY <1>2, <2>1, UndisturbedStays DEF CalmNow
  <2>5. EventsTimed(g, a, b)'
    BY <1>6, <2>1, <2>2, EventsStay DEF CalmNow, Timed
  <2>6. HoldersTimed(g, a, b)'
    BY <2>2, HoldersStay DEF CalmNow, Timed
  <2>7. AsksOnce'
    <3>1. \A x \in q : Asks(x) => x.from \in Worker \ {w}
      <4>1. \A x \in q : Asks(x) => x.from \in Worker /\ state[x.from] = "waiting"
        BY DEF Asks, IInv, EventsGood, EventGood, Carried, CalmNow, PlacesRight, AsksOnce
      <4> QED
        BY <1>3, <4>1
    <3> QED
      BY <1>2, <2>1, <2>2, <3>1 DEF CalmNow, PlacesRight, AsksOnce, InLine, Asks, Grants
  <2>8. GrantedOnce'
    <3>1. \A x \in q : Grants(x) => x.to \in Worker \ {w}
      BY <1>3 DEF CalmNow, PlacesRight, GrantedOnce
    <3> QED
      BY <1>2, <2>1, <2>2, <3>1 DEF CalmNow, PlacesRight, GrantedOnce, InLine, Grants
  <2>9. ChecksOnce'
    BY <2>1 DEF CalmNow, PlacesRight, ChecksOnce, Checks
  <2>10. LineWaits'
    <3>1. \A i \in DOMAIN line : line[i] \in Worker /\ state[line[i]] = "waiting"
      BY DEF IInv, LockType, CalmNow, PlacesRight, LineWaits
    <3>2. \A i \in DOMAIN line : line[i] \in Worker \ {w}
      BY <1>3, <3>1
    <3> QED
      BY <1>2, <2>2, <3>1, <3>2 DEF LineWaits
  <2>11. HolderServed'
    BY <1>2, <2>2, <2>3 DEF CalmNow, PlacesRight, HolderServed
  <2>12. CalmNow(g, a, b)'
    BY <1>5, <2>4, <2>5, <2>6, <2>7, <2>8, <2>9, <2>10, <2>11 DEF CalmNow, PlacesRight, Timed
  <2> QED
    BY <2>12 DEF CalmInv
<1> QED
  BY <1>7, <1>8

LEMMA CalmWork ==
  ASSUME IInv, NEW a \in Nat, NEW b \in Nat, Margin(a, b),
         NEW g \in [Nat -> Nat], CalmNow(g, a, b), Calm',
         NEW w \in Worker, NEW e \in queue, HandleWork(w, e)
  PROVE  CalmInv(a, b)'
<1> DEFINE q == queue \ {e}
           t == e.payload.token
<1>1. Runs(w, e, "work")
  BY DEF HandleWork
<1>2. /\ e.payload = Carried(e) /\ e.payload.kind = "work" /\ e.to = w
      /\ now' = e.due /\ now' \in Nat /\ now' >= now /\ now \in Nat
      /\ UNCHANGED <<dead, rate, pausedUntil, holder, token, line>>
      /\ UNCHANGED <<lastToken, value, fencing>>
      /\ e.payload \in Plain
  BY <1>1, RunsCalm DEF CalmNow, storeVars
<1>3. UNCHANGED <<state, lease, grantAt>>
  BY DEF HandleWork, leaseVars
<1>4. token \in Nat /\ lastToken \in Nat /\ LastLook \in Int /\ EngineType
  BY LastLookInt DEF IInv, LockType, StoreType, Margin
<1>5. t >= 1 /\ FirstWrite(g, a, t) <= e.due + a /\ e.due + b <= LastWrite(g, b, t)
  BY <1>2 DEF CalmNow, Timed, EventsTimed, EventTimed
<1>6. t \in Nat /\ g[t] \in Nat
  <2>1. t \in Token
    BY <1>2, PlainKinds
  <2> QED
    BY <1>4, <2>1 DEF Token
<1>7. \A x \in queue' : x \in q \/ (x.payload.kind = "write" /\ EventTimed(g, a, b, x)')
  <2>1. CASE Holds(w, t)
    <3>1. Send(q, e.due, w, STORE, Write(t))
      BY <1>2, <2>1 DEF HandleWork
    <3>2. PICK d, n : d \in Latency /\ queue' = q \cup {n} /\ Like(n, e.due + d, STORE, w, Write(t))
      BY <1>4, <3>1, SendsOne
    <3>3. n.payload.kind = "write" /\ n.payload.token = t /\ n.due = e.due + d
      BY <3>2 DEF Like, Write
    <3>4. d \in Nat /\ a <= d /\ d <= b
      BY <3>2, TimeAssumption DEF Margin
    <3>5. FirstWrite(g, a, t) <= n.due /\ n.due <= LastWrite(g, b, t)
      BY <1>2, <1>4, <1>5, <1>6, <3>3, <3>4, TimeAssumption DEF FirstWrite, LastWrite
    <3>6. EventTimed(g, a, b, n)'
      BY <1>5, <3>3, <3>5 DEF EventTimed, FirstWrite, LastWrite
    <3> QED
      BY <3>2, <3>3, <3>6
  <2>2. CASE ~Holds(w, t)
    BY <1>2, <2>2 DEF HandleWork, NoSend
  <2> QED
    BY <2>1, <2>2
<1>8. Undisturbed'
  <2>1. \A x \in queue' : x \in queue \/ x.payload.kind \notin {"wake", "reject"}
    BY <1>7
  <2> QED
    BY <1>2, <2>1, UndisturbedStays DEF CalmNow
<1>9. PlacesRight'
  <2>1. \A x \in queue' : x \in queue \/ x.payload.kind \notin {"acquire", "grant", "check"}
    BY <1>7
  <2> QED
    BY <1>2, <1>3, <2>1, PlacesStay DEF CalmNow
<1>10. Spaced(g)' /\ StoreTimed(g, a)'
  BY <1>2, <1>4, SpacedStays, StoreStays DEF CalmNow, Timed
<1>11. EventsTimed(g, a, b)' /\ HoldersTimed(g, a, b)'
  BY <1>3, <1>7, EventsStay, HoldersStay DEF CalmNow, Timed
<1>12. CalmNow(g, a, b)'
  BY <1>8, <1>9, <1>10, <1>11 DEF CalmNow, Timed
<1> QED
  BY <1>12 DEF CalmInv

LEMMA CalmWrite ==
  ASSUME IInv, NEW a \in Nat, NEW b \in Nat, Margin(a, b),
         NEW g \in [Nat -> Nat], CalmNow(g, a, b),
         NEW e \in queue, HandleWrite(e)
  PROVE  CalmInv(a, b)'
<1> DEFINE q == queue \ {e}
           t == e.payload.token
<1>1. Arrives(STORE, e) /\ e.payload.kind = "write" /\ UNCHANGED <<fencing, lockVars, workerVars>>
  BY DEF HandleWrite
<1>2. /\ EventGood(e) /\ now' = e.due /\ now' \in Nat /\ now' >= now /\ now \in Nat /\ UNCHANGED dead
  BY <1>1, ArrivesNext DEF IInv, EngineType
<1>3. UNCHANGED <<state, lease, grantAt, rate, pausedUntil, holder, token, line, fencing>>
  BY <1>1 DEF lockVars, workerVars, leaseVars
<1>4. token \in Nat /\ lastToken \in 0..token /\ LastLook \in Int
  BY LastLookInt DEF IInv, LockType, StoreType, Margin
<1>5. t >= 1 /\ FirstWrite(g, a, t) <= e.due /\ e.due <= LastWrite(g, b, t)
  BY <1>1 DEF CalmNow, Timed, EventsTimed, EventTimed
<1>6. t \in 1..token /\ g[t] \in Nat
  <2>1. Carried(e) \in Plain /\ Carried(e) = e.payload
    BY <1>1, <1>2, CarriedPlain DEF EventGood
  <2>2. t \in Token
    BY <1>1, <2>1, PlainKinds
  <2> QED
    BY <1>4, <1>5, <2>2 DEF Token
<1>7. /\ queue' = q /\ value' = t
      /\ lastToken' = IF t > lastToken THEN t ELSE lastToken
  BY DEF HandleWrite, Superseded, NoSend, CalmNow, Undisturbed
<1>8. t >= lastToken
  <2>1. SUFFICES ASSUME t < lastToken PROVE FALSE
    BY <1>4, <1>6
  <2>2. lastToken \in 1..token /\ lastToken > 0 /\ g[lastToken] \in Nat
    BY <1>4, <1>6, <2>1
  <2>3. g[t] + LEASE_TTL <= g[lastToken]
    BY <1>6, <2>1, <2>2 DEF CalmNow, Timed, Spaced
  <2>4. FirstWrite(g, a, lastToken) <= now
    BY <2>2 DEF CalmNow, Timed, StoreTimed
  <2>5. /\ g[lastToken] + 2 * a + WRITE_EVERY + WORK_TICKS <= g[t] + 2 * b + LastLook + WORK_TICKS
    BY <1>2, <1>4, <1>5, <1>6, <2>2, <2>4, TimeAssumption DEF FirstWrite, LastWrite
  <2>6. LastLook + 2 * b < LEASE_TTL + 2 * a + WRITE_EVERY
    BY DEF Margin
  <2> QED
    BY <1>4, <1>6, <2>2, <2>3, <2>5, <2>6, TimeAssumption
<1>9. lastToken' = t
  BY <1>4, <1>6, <1>7, <1>8
<1>10. Undisturbed'
  BY <1>2, <1>3, <1>7, UndisturbedStays DEF CalmNow
<1>11. PlacesRight'
  BY <1>3, <1>7, PlacesStay DEF CalmNow
<1>12. Spaced(g)'
  BY <1>2, <1>3, <1>4, SpacedStays DEF CalmNow, Timed
<1>13. EventsTimed(g, a, b)' /\ HoldersTimed(g, a, b)'
  BY <1>3, <1>7, EventsStay, HoldersStay DEF CalmNow, Timed
<1>14. StoreTimed(g, a)'
  BY <1>2, <1>5, <1>7, <1>9 DEF StoreTimed, FirstWrite
<1>15. CalmNow(g, a, b)'
  BY <1>10, <1>11, <1>12, <1>13, <1>14 DEF CalmNow, Timed
<1> QED
  BY <1>15 DEF CalmInv

-----------------------------------------------------------------------------
(* Commands, time and faults. *)

LEMMA CalmCommand ==
  ASSUME IInv, NEW a \in Nat, NEW b \in Nat,
         NEW g \in [Nat -> Nat], CalmNow(g, a, b), Calm',
         NEW w \in Worker, AcquireCommand(w)
  PROVE  CalmInv(a, b)'
<1>1. /\ state[w] = "idle" /\ state' = [state EXCEPT ![w] = "waiting"]
      /\ Send(queue, now, w, LOCK, Acquire)
      /\ UNCHANGED <<now, dead, lease, grantAt, rate, pausedUntil, holder, token, line>>
      /\ UNCHANGED <<lastToken, value, fencing>>
  BY DEF AcquireCommand, lockVars, storeVars
<1>2. EngineType /\ now \in Nat /\ now' = now /\ token \in Nat /\ lastToken \in Nat
  <2>1. EngineType /\ LockType /\ StoreType
    BY DEF IInv
  <2>2. token \in Nat /\ lastToken \in Nat
    BY <2>1 DEF LockType, StoreType
  <2> QED
    BY <1>1, <2>1, <2>2 DEF EngineType
<1>3. PICK d, n : d \in Latency /\ queue' = queue \cup {n} /\ Like(n, now + d, LOCK, w, Acquire)
  BY <1>1, <1>2, SendsOne
<1>4. n.payload.kind = "acquire" /\ n.from = w
  BY <1>3 DEF Like, Acquire
<1>5. state'[w] = "waiting" /\ \A v \in Worker \ {w} : state'[v] = state[v]
  BY <1>1 DEF IInv, WorkerType
<1>6. \A i \in DOMAIN line : line[i] \in Worker \ {w}
  <2>1. \A i \in DOMAIN line : line[i] \in Worker /\ state[line[i]] = "waiting"
    BY DEF IInv, LockType, CalmNow, PlacesRight, LineWaits
  <2> QED
    BY <1>1, <2>1
<1>7. holder # w
  BY <1>1 DEF CalmNow, PlacesRight, HolderServed
<1>8. \A x \in queue : /\ Asks(x) => x.from \in Worker \ {w}
                       /\ Grants(x) => x.to \in Worker \ {w}
                       /\ Checks(x) => x.to \in Worker \ {w}
  <2>1. \A x \in queue : Asks(x) => x.from \in Worker /\ state[x.from] = "waiting"
    BY DEF Asks, IInv, EventsGood, EventGood, Carried, CalmNow, PlacesRight, AsksOnce
  <2>2. \A x \in queue : Grants(x) => x.to \in Worker /\ state[x.to] = "waiting"
    BY DEF CalmNow, PlacesRight, GrantedOnce
  <2>3. \A x \in queue : Checks(x) => x.to \in Worker /\ state[x.to] = "holding"
    BY DEF CalmNow, Timed, EventsTimed, EventTimed, Checks
  <2> QED
    BY <1>1, <2>1, <2>2, <2>3
<1>9. Undisturbed'
  <2>1. \A x \in queue' : x \in queue \/ x.payload.kind \notin {"wake", "reject"}
    BY <1>3, <1>4
  <2> QED
    BY <1>1, <2>1, UndisturbedStays DEF CalmNow
<1>10. Spaced(g)' /\ StoreTimed(g, a)'
  <2>1. now <= now'
    BY <1>2
  <2> QED
    BY <1>1, <1>2, <2>1, SpacedStays, StoreStays DEF CalmNow, Timed
<1>11. EventsTimed(g, a, b)'
  <2>1. EventTimed(g, a, b, n)'
    BY <1>4 DEF EventTimed
  <2>2. \A x \in queue : Checks(x) => state'[x.to] = state[x.to] /\ grantAt'[x.to] = grantAt[x.to]
    BY <1>1, <1>5, <1>8
  <2> QED
    BY <1>3, <2>1, <2>2, EventsStay DEF CalmNow, Timed
<1>12. HoldersTimed(g, a, b)'
  <2>1. \A v \in Worker : state'[v] = "holding" => state[v] = "holding"
    BY <1>5
  <2> QED
    BY <1>1, <2>1, HoldersStay DEF CalmNow, Timed
<1>13. AsksOnce'
  <2>1. ASSUME NEW x \in queue, Asks(x)
        PROVE  /\ state'[x.from] = "waiting" /\ ~InLine(x.from)' /\ holder' # x.from
               /\ \A f \in queue' : /\ Asks(f) /\ f.from = x.from => f = x
                                    /\ Grants(f) => f.to # x.from
    BY <1>1, <1>3, <1>4, <1>5, <1>8, <2>1 DEF CalmNow, PlacesRight, AsksOnce, InLine, Asks, Grants
  <2>2. /\ state'[n.from] = "waiting" /\ ~InLine(n.from)' /\ holder' # n.from
        /\ \A f \in queue' : /\ Asks(f) /\ f.from = n.from => f = n
                             /\ Grants(f) => f.to # n.from
    BY <1>1, <1>3, <1>4, <1>5, <1>6, <1>7, <1>8 DEF InLine, Asks, Grants
  <2> QED
    BY <1>3, <2>1, <2>2 DEF AsksOnce, Asks, Grants
<1>14. GrantedOnce'
  <2>1. \A x \in queue' : Grants(x) => x \in queue
    BY <1>3, <1>4 DEF Grants
  <2> QED
    BY <1>1, <1>5, <1>8, <2>1 DEF CalmNow, PlacesRight, GrantedOnce, InLine, Grants
<1>15. ChecksOnce'
  <2>1. \A x \in queue' : Checks(x) => x \in queue
    BY <1>3, <1>4 DEF Checks
  <2> QED
    BY <2>1 DEF CalmNow, PlacesRight, ChecksOnce, Checks
<1>16. LineWaits' /\ HolderServed'
  <2>1. LineWaits'
    BY <1>1, <1>5, <1>6 DEF CalmNow, PlacesRight, LineWaits
  <2>2. HolderServed'
    BY <1>1, <1>5, <1>7 DEF CalmNow, PlacesRight, HolderServed
  <2> QED
    BY <2>1, <2>2
<1>17. CalmNow(g, a, b)'
  BY <1>9, <1>10, <1>11, <1>12, <1>13, <1>14, <1>15, <1>16 DEF CalmNow, PlacesRight, Timed
<1> QED
  BY <1>17 DEF CalmInv

LEMMA CalmIdle ==
  ASSUME IInv, NEW a \in Nat, NEW b \in Nat,
         NEW g \in [Nat -> Nat], CalmNow(g, a, b),
         UNCHANGED vars \/ \E t \in Ticks : RunUntil(t)
  PROVE  CalmInv(a, b)'
<1>1. /\ UNCHANGED <<queue, dead, lockVars, workerVars, storeVars>>
      /\ now' \in Nat /\ now \in Nat /\ now <= now'
  <2>1. now \in Nat
    BY DEF IInv, EngineType
  <2>2. CASE UNCHANGED vars
    BY <2>1, <2>2 DEF vars, engineVars
  <2>3. CASE \E t \in Ticks : RunUntil(t)
    BY <2>1, <2>3, TimeAssumption DEF RunUntil
  <2> QED
    BY <2>2, <2>3
<1>2. /\ UNCHANGED <<state, lease, grantAt, rate, pausedUntil, holder, token, line>>
      /\ UNCHANGED <<lastToken, value, fencing>> /\ token \in Nat /\ lastToken \in Nat
  BY <1>1 DEF lockVars, workerVars, leaseVars, storeVars, IInv, LockType, StoreType
<1>3. Undisturbed' /\ PlacesRight'
  BY <1>1, <1>2, UndisturbedStays, PlacesStay DEF CalmNow
<1>4. Spaced(g)' /\ StoreTimed(g, a)'
  BY <1>1, <1>2, SpacedStays, StoreStays DEF CalmNow, Timed
<1>5. EventsTimed(g, a, b)' /\ HoldersTimed(g, a, b)'
  BY <1>1, <1>2, EventsStay, HoldersStay DEF CalmNow, Timed
<1>6. CalmNow(g, a, b)'
  BY <1>3, <1>4, <1>5 DEF CalmNow, Timed
<1> QED
  BY <1>6 DEF CalmInv

(* A fault ends the calm for good. *)
LEMMA CalmBefore ==
  ASSUME IInv, [Next]_vars, Calm'
  PROVE  Calm
<1>1. EngineType
  BY DEF IInv
<1>2. \A kind \in Fault : ~Happens(kind)
  BY <1>1, FaultShows
<1>3. ASSUME NEW q, NEW t, NEW from, NEW to, NEW p, Send(q, t, from, to, p) PROVE UNCHANGED faults
  BY <1>2, <1>3 DEF Send, Fault
<1>4. ASSUME NEW q, NEW to, NEW t, GrantTo(q, to, t) PROVE UNCHANGED faults
  BY <1>3, <1>4 DEF GrantTo
<1>5. ASSUME NEW q, NEW waiting, NEW t, ServeNext(q, waiting, t) PROVE UNCHANGED faults
  BY <1>4, <1>5 DEF ServeNext, NoSend
<1>6. ASSUME NEW e \in queue, Deliver(e) PROVE UNCHANGED faults
  <2>1. ASSUME NEW w \in Worker, WorkerStep(w, e) PROVE UNCHANGED faults
    BY <1>3, <2>1 DEF WorkerStep, Defer, HandleGrant, HandleReject, HandleCheck, HandleWork, NoSend
  <2>2. CASE LostAtDead(e)
    BY <2>2 DEF LostAtDead
  <2>3. CASE HandleAcquire(e)
    BY <1>4, <1>5, <2>3 DEF HandleAcquire, NoSend
  <2>4. CASE HandleExpiry(e)
    BY <1>5, <2>4 DEF HandleExpiry, NoSend
  <2>5. CASE HandleWrite(e)
    BY <1>3, <2>5 DEF HandleWrite, NoSend
  <2> QED
    BY <1>6, <2>1, <2>2, <2>3, <2>4, <2>5 DEF Deliver
<1>7. CASE Command
  <2>1. \A w \in Worker : ~GcPause(w) /\ ~ClockSkew(w)
    BY <1>2 DEF GcPause, ClockSkew, Fault
  <2>2. ~TurnFencing /\ \A n \in Node : ~Kill(n)
    BY <1>2 DEF TurnFencing, Kill, Fault
  <2>3. ASSUME NEW w \in Worker, AcquireCommand(w) PROVE UNCHANGED faults
    BY <1>3, <2>3 DEF AcquireCommand
  <2>4. ASSUME \/ \E t \in Ticks : RunUntil(t)
               \/ \E n \in Node : Revive(n)
        PROVE  UNCHANGED faults
    BY <2>4 DEF RunUntil, Revive
  <2> QED
    BY <1>7, <2>1, <2>2, <2>3, <2>4 DEF Command, Calm
<1>8. CASE UNCHANGED vars
  BY <1>8 DEF vars, Calm
<1> QED
  BY <1>6, <1>7, <1>8 DEF Next, Calm

LEMMA CalmKeeps ==
  ASSUME NEW a \in Nat, NEW b \in Nat, Margin(a, b), IInv, CalmInv(a, b), [Next]_vars
  PROVE  CalmInv(a, b)'
<1> SUFFICES ASSUME Calm' PROVE CalmInv(a, b)'
  BY DEF CalmInv
<1>1. Calm
  BY CalmBefore
<1>2. PICK g \in [Nat -> Nat] : CalmNow(g, a, b)
  BY <1>1 DEF CalmInv
<1>3. dead = {} /\ (\A w \in Worker : pausedUntil[w] = Nil)
      /\ \A e \in queue : e.payload.kind \notin {"wake", "reject"}
  BY <1>2 DEF CalmNow, Undisturbed
<1>4. ASSUME NEW e \in queue, Deliver(e)
      PROVE  CalmInv(a, b)'
  <2>1. ASSUME NEW w \in Worker, WorkerStep(w, e)
        PROVE  CalmInv(a, b)'
    <3>1. ~Defer(w, e)
      BY <1>3 DEF Defer, Paused
    <3>2. ~HandleReject(w, e)
      BY <1>3 DEF HandleReject, Runs, Carried
    <3> QED
      BY <1>1, <1>2, <2>1, <3>1, <3>2, CalmTakesGrant, CalmCheck, CalmWork DEF WorkerStep
  <2>2. ~LostAtDead(e)
    BY <1>3 DEF LostAtDead
  <2> QED
    BY <1>2, <1>4, <2>1, <2>2, CalmAcquire, CalmExpiry, CalmWrite DEF Deliver
<1>5. CASE Command
  <2>1. \A kind \in Fault : ~Happens(kind)
    BY FaultShows DEF IInv
  <2>2. \A w \in Worker : ~GcPause(w) /\ ~ClockSkew(w)
    BY <2>1 DEF GcPause, ClockSkew, Fault
  <2>3. ~TurnFencing /\ \A n \in Node : ~Kill(n) /\ ~Revive(n)
    BY <1>3, <2>1 DEF TurnFencing, Kill, Revive, Fault
  <2> QED
    BY <1>2, <1>5, <2>2, <2>3, CalmCommand, CalmIdle DEF Command
<1>6. CASE UNCHANGED vars
  BY <1>2, <1>6, CalmIdle
<1> QED
  BY <1>4, <1>5, <1>6 DEF Next

LEMMA CalmInit ==
  ASSUME NEW a \in Nat, NEW b \in Nat, Init
  PROVE  CalmInv(a, b)
<1> DEFINE g == [n \in Nat |-> 0]
<1>1. g \in [Nat -> Nat]
  OBVIOUS
<1> HIDE DEF g
<1>2. Undisturbed
  BY DEF Init, Undisturbed
<1>3. AsksOnce /\ GrantedOnce /\ ChecksOnce /\ LineWaits
  BY DEF Init, AsksOnce, GrantedOnce, ChecksOnce, LineWaits
<1>4. HolderServed
  BY NodeAssumption DEF Init, HolderServed, Node
<1>5. Spaced(g) /\ EventsTimed(g, a, b)
  BY DEF Init, Spaced, EventsTimed
<1>6. HoldersTimed(g, a, b) /\ StoreTimed(g, a)
  BY DEF Init, HoldersTimed, StoreTimed
<1>7. CalmNow(g, a, b)
  BY <1>1, <1>2, <1>3, <1>4, <1>5, <1>6 DEF CalmNow, PlacesRight, Timed
<1> QED
  BY <1>1, <1>7 DEF CalmInv

(* With honest clocks and no fault the store never takes a write of an     *)
(* older lease after one of a newer, even with fencing off: checkTick of   *)
(* lease.ts looks WRITE_EVERY apart and works WORK_TICKS, and the messages *)
(* of the lab take a to b.  Whatever the constants, it takes no more than  *)
(* the margin above.                                                       *)
THEOREM MarginsProtect ==
  ASSUME NEW a \in Nat, NEW b \in Nat, Margin(a, b)
  PROVE  Spec => []NoStaleAccept
<1>1. Init => CalmInv(a, b)
  BY CalmInit
<1>2. IInv /\ CalmInv(a, b) /\ [Next]_vars => CalmInv(a, b)'
  BY CalmKeeps
<1>3. CalmInv(a, b) => NoStaleAccept
  BY DEF CalmInv, CalmNow, Timed, StoreTimed, Calm, NoStaleAccept
<1> QED
  BY <1>1, <1>2, <1>3, LeaseInvariant, PTL DEF Spec
=============================================================================
