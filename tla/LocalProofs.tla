----------------------------- MODULE LocalProofs -----------------------------
(***************************************************************************)
(* Proofs about the parts that send no messages.  Timeline, for every      *)
(* module simulated and every mix of steps, inputs and scrubs: types,      *)
(* snapshots in order, scrubs that land and, without inputs, replay        *)
(* exactly what was recorded.  Stores, for any keys, hashes and limits:    *)
(* the views are what their log says, and a tree of runs loses no write.   *)
(***************************************************************************)
EXTENDS Timeline, Stores, NatLemmas, SequenceTheorems

-----------------------------------------------------------------------------
(* The simulation.  What is to come is not in the past, and each event has *)
(* a number of its own below the next one.                                 *)
Effect == [delay : Nat, what : What]
Sims   == [time : Nat, seq : Nat, queue : SUBSET Event, log : Seq(Event)]

QueueRight(s) ==
  /\ \A e \in s.queue : e.time >= s.time /\ e.seq < s.seq
  /\ \A e, f \in s.queue : e.seq = f.seq => e = f

Rights == {s \in Sims : QueueRight(s)}

LEMMA ScheduleRight ==
  ASSUME NEW s \in Rights, NEW t \in Nat, t >= s.time, NEW fx \in Seq(Effect)
  PROVE  LET r == Schedule(s, t, fx) IN r \in Rights /\ r.log = s.log /\ r.time = s.time
<1> DEFINE Nth(k) == [time |-> t + fx[k].delay, seq |-> s.seq + k - 1, what |-> fx[k].what]
           new    == {Nth(k) : k \in DOMAIN fx}
           r      == Schedule(s, t, fx)
<1>1. s.time \in Nat /\ s.seq \in Nat /\ s.queue \subseteq Event /\ s.log \in Seq(Event)
  BY DEF Rights, Sims
<1>2. r = [s EXCEPT !.seq = s.seq + Len(fx), !.queue = s.queue \cup new]
  BY DEF Schedule
<1>3. Len(fx) \in Nat /\ DOMAIN fx = 1..Len(fx)
  BY LenProperties
<1>4. \A k \in DOMAIN fx : fx[k] \in Effect
  BY ElementOfSeq, <1>3
<1>5. \A k \in DOMAIN fx : fx[k].delay \in Nat /\ fx[k].what \in What
  BY <1>4 DEF Effect
<1>6. \A k \in DOMAIN fx :
        /\ Nth(k) \in Event /\ Nth(k).time >= s.time
        /\ Nth(k).seq >= s.seq /\ Nth(k).seq < s.seq + Len(fx)
        /\ Nth(k).seq = s.seq + k - 1
  <2> SUFFICES ASSUME NEW k \in DOMAIN fx
               PROVE  /\ Nth(k) \in Event /\ Nth(k).time >= s.time
                      /\ Nth(k).seq >= s.seq /\ Nth(k).seq < s.seq + Len(fx)
                      /\ Nth(k).seq = s.seq + k - 1
    OBVIOUS
  <2>1. \A n, d, q, l \in Nat : \A i \in 1..l :
          /\ n + d \in Nat /\ n + d >= n
          /\ q + i - 1 \in Nat /\ q + i - 1 >= q /\ q + i - 1 < q + l
    OBVIOUS
  <2>2. /\ t + fx[k].delay \in Nat /\ t + fx[k].delay >= t
        /\ s.seq + k - 1 \in Nat /\ s.seq + k - 1 >= s.seq /\ s.seq + k - 1 < s.seq + Len(fx)
    BY <1>1, <1>3, <1>5, <2>1
  <2>3. t + fx[k].delay >= s.time
    BY <1>1, <2>2
  <2>4. /\ Nth(k).time = t + fx[k].delay /\ Nth(k).seq = s.seq + k - 1
        /\ Nth(k) = [time |-> t + fx[k].delay, seq |-> s.seq + k - 1, what |-> fx[k].what]
    OBVIOUS
  <2>5. Nth(k) \in Event
    BY <1>5, <2>2, <2>4 DEF Event
  <2> HIDE DEF Nth
  <2> QED
    BY <2>2, <2>3, <2>4, <2>5
<1> HIDE DEF Nth
<1>7. \A e \in new : /\ e \in Event /\ e.time >= s.time
                     /\ e.seq >= s.seq /\ e.seq < s.seq + Len(fx)
  BY <1>6
<1>8. \A e, f \in new : e.seq = f.seq => e = f
  <2> SUFFICES ASSUME NEW j \in DOMAIN fx, NEW k \in DOMAIN fx, Nth(j).seq = Nth(k).seq
               PROVE  j = k
    OBVIOUS
  <2> QED
    BY <1>1, <1>3, <1>6
<1> HIDE DEF new
<1>9. r \in Sims /\ r.time = s.time /\ r.log = s.log
      /\ r.seq = s.seq + Len(fx) /\ r.queue = s.queue \cup new
  <2>1. s.seq + Len(fx) \in Nat /\ s.queue \cup new \in SUBSET Event
    BY <1>1, <1>3, <1>7
  <2> QED
    BY <1>1, <1>2, <2>1 DEF Rights, Sims
<1> HIDE DEF r
<1>10. \A e \in s.queue : e \in Event /\ e.time >= s.time /\ e.seq < s.seq /\ e.seq \in Nat
  BY <1>1 DEF Rights, QueueRight, Event
<1>11. \A e \in r.queue : e.time >= r.time /\ e.seq < r.seq
  BY <1>1, <1>3, <1>7, <1>9, <1>10
<1>12. \A e, f \in r.queue : e.seq = f.seq => e = f
  <2>1. \A e \in s.queue, f \in new : e.seq # f.seq
    BY <1>1, <1>7, <1>10 DEF Event
  <2>2. \A e, f \in s.queue : e.seq = f.seq => e = f
    BY DEF Rights, QueueRight
  <2> QED
    BY <1>8, <1>9, <2>1, <2>2
<1> QED
  BY <1>9, <1>11, <1>12 DEF Rights, QueueRight, r

(* A queue that is not empty has a first event. *)
LEMMA FirstExists ==
  ASSUME NEW s \in Rights, s.queue # {}
  PROVE  /\ NextEvent(s) \in s.queue
         /\ \A x \in s.queue \ {NextEvent(s)} : Before(NextEvent(s), x)
<1>1. \A e \in s.queue : e.time \in Nat /\ e.seq \in Nat
  BY DEF Rights, Sims, Event
<1>2. \A e, f \in s.queue : e.seq = f.seq => e = f
  BY DEF Rights, QueueRight
<1> DEFINE times == {e.time : e \in s.queue}
<1>3. times \in SUBSET Nat /\ times # {}
  BY <1>1
<1>4. PICK t \in times : \A u \in times : t <= u
  BY <1>3, LeastExists
<1> DEFINE seqs == {e.seq : e \in {x \in s.queue : x.time = t}}
<1>5. seqs \in SUBSET Nat /\ seqs # {}
  BY <1>1
<1>6. PICK q \in seqs : \A u \in seqs : q <= u
  BY <1>5, LeastExists
<1>7. PICK e \in s.queue : e.time = t /\ e.seq = q
  BY <1>6
<1>8. ASSUME NEW x \in s.queue \ {e} PROVE Before(e, x)
  <2>1. t <= x.time /\ x.seq # q
    BY <1>2, <1>4, <1>7
  <2>2. CASE t < x.time
    BY <1>7, <2>2 DEF Before
  <2>3. CASE t = x.time
    BY <1>1, <1>5, <1>6, <1>7, <2>1, <2>3 DEF Before
  <2> QED
    BY <1>1, <1>3, <2>1, <2>2, <2>3
<1> QED
  BY <1>8 DEF NextEvent

(* A step takes the first event, no earlier than now, into the log. *)
LEMMA StepRight ==
  ASSUME NEW s \in Rights, s.queue # {}
  PROVE  /\ Step(s) \in Rights
         /\ \E e \in Event : Step(s).log = Append(s.log, e)
<1> DEFINE e    == NextEvent(s)
           went == [s EXCEPT !.time = e.time, !.log = Append(s.log, e), !.queue = s.queue \ {e}]
<1>1. e \in s.queue /\ \A x \in s.queue \ {e} : Before(e, x)
  BY FirstExists
<1>2. s \in Sims /\ QueueRight(s) /\ s.log \in Seq(Event) /\ s.queue \subseteq Event
  BY DEF Rights, Sims
<1>3. e \in Event /\ e.time \in Nat /\ e.what \in What
  BY <1>1, <1>2 DEF Event
<1> HIDE DEF e
<1>4. Append(s.log, e) \in Seq(Event)
  BY <1>2, <1>3
<1>5. /\ went \in Sims /\ went.time = e.time /\ went.log = Append(s.log, e)
      /\ went.seq = s.seq /\ went.queue = s.queue \ {e}
  BY <1>2, <1>3, <1>4 DEF Sims
<1> HIDE DEF went
<1>6. \A x \in went.queue : x.time >= went.time /\ x.seq < went.seq
  <2> SUFFICES ASSUME NEW x \in s.queue \ {e} PROVE x.time >= e.time /\ x.seq < s.seq
    BY <1>5
  <2>1. x.time \in Nat /\ e.time \in Nat
    BY <1>2, <1>3 DEF Event
  <2> QED
    BY <1>1, <1>2, <2>1 DEF Before, QueueRight
<1>7. \A x, y \in went.queue : x.seq = y.seq => x = y
  BY <1>2, <1>5 DEF QueueRight
<1>8. went \in Rights
  BY <1>5, <1>6, <1>7 DEF Rights, QueueRight
<1>9. Effects[e.what] \in Seq(Effect)
  BY <1>3, ModuleAssumption DEF Effect
<1>10. Step(s) = Schedule(went, e.time, Effects[e.what])
  BY DEF Step, went, e
<1>11. went.time >= e.time /\ e.time >= went.time
  BY <1>3, <1>5
<1> QED
  BY <1>3, <1>5, <1>8, <1>9, <1>10, <1>11, ScheduleRight

LEMMA NewSimRight == NewSim \in Rights /\ NewSim.log = <<>> /\ NewSim.time = 0
<1> DEFINE none == [time |-> 0, seq |-> 0, queue |-> {}, log |-> <<>>]
           fx   == [k \in DOMAIN Initial |-> AtOnce(Initial[k])]
<1>1. none \in Rights
  BY DEF Rights, Sims, QueueRight
<1>2. fx \in Seq(Effect)
  <2>1. Len(Initial) \in Nat /\ DOMAIN Initial = 1..Len(Initial)
    BY LenProperties, ModuleAssumption
  <2>2. \A k \in 1..Len(Initial) : Initial[k] \in What
    BY ElementOfSeq, ModuleAssumption
  <2>3. \A k \in 1..Len(Initial) : AtOnce(Initial[k]) \in Effect
    BY <2>2 DEF AtOnce, Effect
  <2>4. fx \in [1..Len(Initial) -> Effect]
    BY <2>1, <2>3
  <2> HIDE DEF fx
  <2> QED
    BY <2>1, <2>4
<1>3. NewSim = Schedule(none, 0, fx)
  BY DEF NewSim
<1>4. none.time = 0 /\ none.log = <<>> /\ 0 \in Nat /\ 0 >= none.time
  OBVIOUS
<1> HIDE DEF none, fx
<1> QED
  BY <1>1, <1>2, <1>3, <1>4, ScheduleRight

LEMMA InjectRight ==
  ASSUME NEW s \in Rights, NEW c \in Command
  PROVE  Inject(s, c) \in Rights /\ Inject(s, c).log = s.log
<1> DEFINE fx == <<AtOnce(c)>>
<1>1. fx \in Seq(Effect)
  BY ModuleAssumption DEF AtOnce, Effect
<1>2. s.time \in Nat /\ s.time >= s.time
  BY DEF Rights, Sims
<1>3. Inject(s, c) = Schedule(s, s.time, fx)
  BY DEF Inject
<1> HIDE DEF fx
<1> QED
  BY <1>1, <1>2, <1>3, ScheduleRight

-----------------------------------------------------------------------------
(* Replays.                                                                *)

LEMMA SteppedRight ==
  ASSUME NEW s \in Rights
  PROVE  /\ Stepped(s) \in Rights /\ Len(s.log) \in Nat
         /\ \/ s.queue = {} /\ Stepped(s) = s
            \/ s.queue # {} /\ \E e \in Event : Stepped(s).log = Append(s.log, e)
<1>1. s.log \in Seq(Event)
  BY DEF Rights, Sims
<1>2. Len(s.log) \in Nat
  BY <1>1
<1> QED
  BY <1>2, StepRight DEF Stepped

(* The recursion of Replay defines what it says. *)
LEMMA ReplayIs ==
  ASSUME NEW s \in Rights
  PROVE  /\ Replay(s)[0] = s
         /\ \A k \in Nat : Replay(s)[k + 1] = Stepped(Replay(s)[k])
         /\ \A k \in Nat : Replay(s)[k] \in Rights
<1> DEFINE F == [x \in Rights |-> Stepped(x)]
<1>1. F \in [Rights -> Rights]
  BY SteppedRight
<1>2. \A x \in Rights : F[x] = Stepped(x)
  OBVIOUS
<1> HIDE DEF F
<1>3. PICK f \in [Nat -> Rights] : f[0] = s /\ \A k \in Nat : f[k + 1] = F[f[k]]
  BY <1>1, DefinedOnward
<1> DEFINE Is(g) == g = [k \in Nat |-> IF k = 0 THEN s ELSE Stepped(g[k - 1])]
<1>4. Is(f)
  <2>1. \A k \in Nat : f[k] = IF k = 0 THEN s ELSE Stepped(f[k - 1])
    <3> SUFFICES ASSUME NEW k \in Nat, k # 0 PROVE f[k] = Stepped(f[k - 1])
      BY <1>3
    <3>1. k - 1 \in Nat /\ (k - 1) + 1 = k
      OBVIOUS
    <3>2. f[(k - 1) + 1] = F[f[k - 1]]
      BY <1>3, <3>1
    <3> QED
      BY <1>2, <3>1, <3>2
  <2>2. f = [k \in Nat |-> f[k]]
    OBVIOUS
  <2> QED
    BY <2>1, <2>2
<1>5. Is(Replay(s))
  <2>1. Replay(s) = CHOOSE g : Is(g)
    BY DEF Replay
  <2> HIDE DEF Is
  <2> QED
    BY <1>4, <2>1
<1>6. Replay(s)[0] = s /\ \A k \in Nat : Replay(s)[k + 1] = Stepped(Replay(s)[k])
  BY <1>5
<1>7. \A k \in Nat : Replay(s)[k] \in Rights
  <2> DEFINE T == {k \in Nat : Replay(s)[k] \in Rights}
  <2>1. 0 \in T
    BY <1>6
  <2>2. \A k \in T : k + 1 \in T
    BY <1>6, SteppedRight
  <2> HIDE DEF T
  <2>3. T = Nat
    <3>1. T \in SUBSET Nat
      BY DEF T
    <3> QED
      BY <2>1, <2>2, <3>1, AllNaturals
  <2> QED
    BY <2>3 DEF T
<1> QED
  BY <1>6, <1>7

(* A replay may be interrupted. *)
LEMMA ReplayAdds ==
  ASSUME NEW s \in Rights, NEW i \in Nat, NEW n \in Nat
  PROVE  Replay(s)[i + n] = Replay(Replay(s)[i])[n]
<1> DEFINE r == Replay(s)[i]
           T == {k \in Nat : Replay(s)[i + k] = Replay(r)[k]}
<1>1. r \in Rights
  BY ReplayIs
<1> HIDE DEF r
<1>2. 0 \in T
  <2>1. i + 0 = i
    OBVIOUS
  <2> QED
    BY <1>1, <2>1, ReplayIs DEF r
<1>3. ASSUME NEW k \in T PROVE k + 1 \in T
  <2>1. i + k \in Nat /\ i + (k + 1) = (i + k) + 1 /\ k \in Nat
    OBVIOUS
  <2>2. Replay(s)[(i + k) + 1] = Stepped(Replay(s)[i + k])
    BY <2>1, ReplayIs
  <2>3. Replay(r)[k + 1] = Stepped(Replay(r)[k])
    BY <1>1, <2>1, ReplayIs
  <2> QED
    BY <2>1, <2>2, <2>3
<1>4. T = Nat
  <2> HIDE DEF T
  <2>1. T \in SUBSET Nat
    BY DEF T
  <2> QED
    BY <1>2, <1>3, <2>1, AllNaturals
<1> QED
  BY <1>4 DEF r

(* One log goes on where another ends. *)
GoesOn(a, b) == Len(a) <= Len(b) /\ SubSeq(b, 1, Len(a)) = a

LEMMA GoesOnAppend ==
  ASSUME NEW a \in Seq(Event), NEW b \in Seq(Event), NEW e \in Event, GoesOn(a, b)
  PROVE  GoesOn(a, Append(b, e))
<1>1. Len(a) \in Nat /\ Len(b) \in Nat /\ Append(b, e) \in Seq(Event)
      /\ Len(Append(b, e)) = Len(b) + 1
  OBVIOUS
<1>2. \A j \in 1..Len(a) : SubSeq(Append(b, e), 1, Len(a))[j] = SubSeq(b, 1, Len(a))[j]
  BY <1>1 DEF GoesOn
<1>3. /\ SubSeq(Append(b, e), 1, Len(a)) \in Seq(Event)
      /\ Len(SubSeq(Append(b, e), 1, Len(a))) = Len(a)
      /\ SubSeq(b, 1, Len(a)) \in Seq(Event) /\ Len(SubSeq(b, 1, Len(a))) = Len(a)
  BY <1>1 DEF GoesOn
<1>4. SubSeq(Append(b, e), 1, Len(a)) = SubSeq(b, 1, Len(a))
  BY <1>2, <1>3, SeqEqual
<1> QED
  BY <1>1, <1>4 DEF GoesOn

(* A replay goes on with the log, by one event each step as long as there  *)
(* are events.                                                             *)
Along(s, r, n) ==
  /\ GoesOn(s.log, r.log)
  /\ \/ Len(r.log) = Len(s.log) + n
     \/ Len(r.log) < Len(s.log) + n /\ r.queue = {}

LEMMA AlongStepped ==
  ASSUME NEW s \in Rights, NEW r \in Rights, NEW n \in Nat, Along(s, r, n)
  PROVE  Along(s, Stepped(r), n + 1)
<1>1. s.log \in Seq(Event) /\ Len(s.log) \in Nat /\ r.log \in Seq(Event) /\ Len(r.log) \in Nat
  BY DEF Rights, Sims
<1>2. CASE r.queue = {}
  <2>1. Stepped(r) = r
    BY <1>2 DEF Stepped
  <2>2. Len(r.log) < Len(s.log) + (n + 1)
    <3>1. \A a, b \in Nat : b = a + n \/ b < a + n => b < a + (n + 1)
      OBVIOUS
    <3> QED
      BY <1>1, <3>1 DEF Along
  <2> QED
    BY <1>2, <2>1, <2>2 DEF Along
<1>3. CASE r.queue # {}
  <2>1. PICK e \in Event : Stepped(r).log = Append(r.log, e)
    BY <1>3, SteppedRight
  <2>2. Len(Stepped(r).log) = Len(r.log) + 1
    BY <1>1, <2>1
  <2>3. Len(r.log) = Len(s.log) + n
    BY <1>3 DEF Along
  <2>4. Len(Stepped(r).log) = Len(s.log) + (n + 1)
    <3>1. \A a, b \in Nat : b = a + n => b + 1 = a + (n + 1)
      OBVIOUS
    <3> QED
      BY <1>1, <2>2, <2>3, <3>1
  <2>5. GoesOn(s.log, Stepped(r).log)
    BY <1>1, <2>1, GoesOnAppend DEF Along
  <2> QED
    BY <2>4, <2>5 DEF Along
<1> QED
  BY <1>2, <1>3

LEMMA ReplayGoesOn ==
  ASSUME NEW s \in Rights, NEW n \in Nat
  PROVE  Replay(s)[n] \in Rights /\ Along(s, Replay(s)[n], n)
<1> DEFINE T == {k \in Nat : Along(s, Replay(s)[k], k)}
<1>1. 0 \in T
  <2>1. s.log \in Seq(Event) /\ Len(s.log) \in Nat
    BY DEF Rights, Sims
  <2>2. SubSeq(s.log, 1, Len(s.log)) = s.log /\ Len(s.log) = Len(s.log) + 0
    BY <2>1
  <2>3. Along(s, s, 0)
    BY <2>1, <2>2 DEF Along, GoesOn
  <2> QED
    BY <2>3, ReplayIs
<1>2. ASSUME NEW k \in T PROVE k + 1 \in T
  <2>1. k \in Nat /\ Along(s, Replay(s)[k], k) /\ Replay(s)[k] \in Rights
    BY ReplayIs
  <2>2. Replay(s)[k + 1] = Stepped(Replay(s)[k])
    BY <2>1, ReplayIs
  <2> QED
    BY <2>1, <2>2, AlongStepped
<1>3. T = Nat
  <2> HIDE DEF T
  <2>1. T \in SUBSET Nat
    BY DEF T
  <2> QED
    BY <1>1, <1>2, <2>1, AllNaturals
<1> QED
  BY <1>3, ReplayIs

-----------------------------------------------------------------------------
(* The timeline of a module without inputs: where it is after k steps.     *)
At(k) == Replay(NewSim)[k]

LEMMA AtIs ==
  ASSUME NEW i \in Nat, NEW m \in Nat, i <= m, Len(At(m).log) = m
  PROVE  /\ At(i) \in Rights /\ Len(At(i).log) = i
         /\ At(m) = Replay(At(i))[m - i]
         /\ SubSeq(At(m).log, 1, i) = At(i).log
<1>1. m - i \in Nat /\ i + (m - i) = m
  OBVIOUS
<1>2. At(m) = Replay(At(i))[m - i]
  <2>1. Replay(NewSim)[i + (m - i)] = Replay(Replay(NewSim)[i])[m - i]
    <3> DEFINE d == m - i
    <3>1. d \in Nat
      BY <1>1
    <3> HIDE DEF d
    <3>2. Replay(NewSim)[i + d] = Replay(Replay(NewSim)[i])[d]
      BY <3>1, ReplayAdds, NewSimRight
    <3> QED
      BY <3>2 DEF d
  <2> QED
    BY <1>1, <2>1 DEF At
<1>3. /\ At(i) \in Rights
      /\ \/ Len(At(i).log) = Len(NewSim.log) + i
         \/ Len(At(i).log) < Len(NewSim.log) + i
  BY NewSimRight, ReplayGoesOn DEF At, Along
<1>4. Len(NewSim.log) = 0
  BY NewSimRight
<1>5. Len(At(i).log) \in Nat
  BY <1>3 DEF Rights, Sims
<1>6. /\ GoesOn(At(i).log, At(m).log)
      /\ \/ Len(At(m).log) = Len(At(i).log) + (m - i)
         \/ Len(At(m).log) < Len(At(i).log) + (m - i)
  BY <1>1, <1>2, <1>3, ReplayGoesOn DEF Along
<1>7. Len(At(i).log) = i
  BY <1>3, <1>4, <1>5, <1>6
<1> QED
  BY <1>2, <1>3, <1>6, <1>7 DEF GoesOn

-----------------------------------------------------------------------------
(* The invariant.  A snapshot was taken at every boundary up to the        *)
(* present position, once, and those from beyond it go on like that.       *)
Snap == [time : Nat, seq : Nat, queue : SUBSET Event, logLength : Nat]

Covered(position, taken) ==
  /\ taken \in Seq(Snap) /\ \A k \in DOMAIN taken : QueueRight(taken[k])
  /\ 1 \in DOMAIN taken /\ Index(taken[1]) = 0
  /\ \A k \in DOMAIN taken : Index(taken[k]) % interval = 0
  /\ \A j, k \in DOMAIN taken : j < k => Index(taken[j]) < Index(taken[k])
  /\ \A k \in DOMAIN taken : k + 1 \in DOMAIN taken =>
                               Index(taken[k + 1]) = Index(taken[k]) + interval
  /\ position < Index(taken[Len(taken)]) + interval

(* Without inputs there is but one timeline, and position and snapshots    *)
(* are on it.                                                              *)
Original(s, taken) ==
  /\ s = At(Len(s.log))
  /\ \A k \in DOMAIN taken : /\ taken[k] = Snapshot(At(Index(taken[k])))
                             /\ Len(At(Index(taken[k])).log) = Index(taken[k])

IInv ==
  /\ sim \in Rights /\ Covered(Len(sim.log), snapshots)
  /\ commands = 0 => Original(sim, snapshots)
  /\ commands \in 0..MaxCommands /\ scrubs \in 0..MaxScrubs

-----------------------------------------------------------------------------
(* Steps of the recorder.                                                  *)

LEMMA Indexes ==
  ASSUME NEW taken \in Seq(Snap)
  PROVE  /\ Len(taken) \in Nat /\ DOMAIN taken = 1..Len(taken)
         /\ \A k \in DOMAIN taken : taken[k] \in Snap /\ Index(taken[k]) \in Nat
<1>1. Len(taken) \in Nat /\ DOMAIN taken = 1..Len(taken)
  BY LenProperties
<1>2. \A k \in 1..Len(taken) : taken[k] \in Snap
  BY ElementOfSeq
<1> QED
  BY <1>1, <1>2 DEF Index, Snap

LEMMA CoveredMeans ==
  ASSUME NEW p \in Nat, NEW taken, Covered(p, taken), NEW l, l = Len(taken)
  PROVE  /\ taken \in Seq(Snap) /\ l \in Nat \ {0} /\ DOMAIN taken = 1..l
         /\ \A k \in 1..l : Index(taken[k]) \in Nat /\ Index(taken[k]) % interval = 0
         /\ \A j, k \in 1..l : j < k => Index(taken[j]) < Index(taken[k])
         /\ \A k \in 1..l : Index(taken[k]) <= Index(taken[l])
         /\ \A k \in 1..l : k # l => Index(taken[k + 1]) = Index(taken[k]) + interval
         /\ interval \in Nat \ {0}
<1>1. /\ taken \in Seq(Snap) /\ l \in Nat /\ DOMAIN taken = 1..l /\ 1 \in 1..l
      /\ \A k \in 1..l : Index(taken[k]) \in Nat
  BY Indexes DEF Covered
<1>2. \A j, k \in 1..l : j < k => Index(taken[j]) < Index(taken[k])
  BY <1>1 DEF Covered
<1>3. ASSUME NEW k \in 1..l PROVE Index(taken[k]) <= Index(taken[l])
  <2>1. l \in 1..l
    BY <1>1
  <2>2. CASE k = l
    BY <1>1, <2>1, <2>2
  <2>3. CASE k # l
    <3>1. k < l
      BY <1>1, <2>3
    <3>2. Index(taken[k]) < Index(taken[l])
      BY <1>2, <2>1, <3>1
    <3> QED
      BY <1>1, <2>1, <3>2
  <2> QED
    BY <2>2, <2>3
<1>4. ASSUME NEW k \in 1..l, k # l PROVE Index(taken[k + 1]) = Index(taken[k]) + interval
  <2>1. k + 1 \in DOMAIN taken /\ k \in DOMAIN taken
    BY <1>1, <1>4
  <2> QED
    BY <2>1 DEF Covered
<1>5. \A k \in 1..l : Index(taken[k]) % interval = 0
  BY <1>1 DEF Covered
<1> QED
  BY <1>1, <1>2, <1>3, <1>4, <1>5, BoundAssumption

(* A boundary is in the list if it is not beyond its end. *)
LEMMA BoundaryTaken ==
  ASSUME NEW p \in Nat, NEW taken, Covered(p, taken),
         NEW at \in Nat, at % interval = 0, at < Index(taken[Len(taken)]) + interval
  PROVE  \E k \in DOMAIN taken : Index(taken[k]) = at
<1>1. /\ Len(taken) \in Nat /\ DOMAIN taken = 1..Len(taken) /\ interval \in Nat \ {0}
      /\ \A k \in DOMAIN taken : Index(taken[k]) \in Nat
  BY Indexes, BoundAssumption DEF Covered
<1> DEFINE K == {k \in DOMAIN taken : Index(taken[k]) <= at}
<1>2. K \in SUBSET Nat /\ K # {} /\ \A k \in K : k <= Len(taken)
  BY <1>1 DEF Covered
<1>3. PICK k \in K : \A j \in K : j <= k
  BY <1>1, <1>2, GreatestExists
<1>4. at < Index(taken[k]) + interval
  <2>1. CASE k = Len(taken)
    BY <2>1
  <2>2. CASE k # Len(taken)
    <3>1. k + 1 \in DOMAIN taken /\ ~(k + 1 <= k)
      BY <1>1, <1>2, <2>2
    <3>2. ~(Index(taken[k + 1]) <= at)
      BY <1>3, <3>1
    <3>3. Index(taken[k + 1]) = Index(taken[k]) + interval
      BY <3>1 DEF Covered
    <3>4. Index(taken[k + 1]) \in Nat
      BY <1>1, <3>1
    <3> QED
      BY <3>2, <3>3, <3>4
  <2> QED
    BY <2>1, <2>2
<1>5. k \in DOMAIN taken /\ Index(taken[k]) \in Nat /\ Index(taken[k]) <= at
      /\ Index(taken[k]) % interval = 0
  BY <1>1 DEF Covered
<1>6. Index(taken[k]) = at
  BY <1>1, <1>4, <1>5, MultiplesApart
<1> QED
  BY <1>5, <1>6

(* A snapshot at the next boundary goes to the end of the list. *)
LEMMA AppendCovers ==
  ASSUME NEW p \in Nat, NEW taken, Covered(p, taken), NEW c \in Snap, QueueRight(c),
         Index(c) = p + 1, Index(c) = Index(taken[Len(taken)]) + interval
  PROVE  Covered(p + 1, Append(taken, c))
<1> DEFINE l == Len(taken)
           more == Append(taken, c)
<1>0. /\ \A k \in 1..l : Index(taken[k]) \in Nat /\ Index(taken[k]) <= Index(taken[l])
      /\ \A j, k \in 1..l : j < k => Index(taken[j]) < Index(taken[k])
      /\ \A k \in 1..l : k # l => Index(taken[k + 1]) = Index(taken[k]) + interval
      /\ interval \in Nat \ {0}
  BY CoveredMeans
<1>1. /\ taken \in Seq(Snap) /\ l \in Nat /\ DOMAIN taken = 1..l /\ interval \in Nat \ {0}
      /\ \A k \in DOMAIN taken : Index(taken[k]) \in Nat
  BY Indexes, BoundAssumption DEF Covered
<1>2. /\ more \in Seq(Snap) /\ Len(more) = l + 1 /\ DOMAIN more = 1..(l + 1)
      /\ more[l + 1] = c /\ \A k \in 1..l : more[k] = taken[k]
  BY <1>1
<1>3. 1 \in 1..l /\ l \in 1..l
  BY <1>1 DEF Covered
<1> HIDE DEF more, l
<1>4. \A k \in DOMAIN more : QueueRight(more[k]) /\ Index(more[k]) % interval = 0
  <2>1. Index(c) % interval = 0
    BY <1>1, <1>3, NextMultiple DEF Covered, l
  <2>2. ASSUME NEW k \in 1..(l + 1), k # l + 1 PROVE k \in 1..l
    BY <1>1, <2>2
  <2> QED
    BY <1>1, <1>2, <2>1, <2>2 DEF Covered
<1>5. \A k \in 1..l : Index(taken[k]) < Index(c)
  <2>1. Index(c) = Index(taken[l]) + interval
    BY DEF l
  <2> QED
    BY <1>0, <1>3, <2>1
<1>6. \A j, k \in DOMAIN more : j < k => Index(more[j]) < Index(more[k])
  <2> SUFFICES ASSUME NEW j \in 1..(l + 1), NEW k \in 1..(l + 1), j < k
               PROVE  Index(more[j]) < Index(more[k])
    BY <1>2
  <2>1. j \in 1..l
    BY <1>1
  <2>2. CASE k = l + 1
    BY <1>2, <1>5, <2>1, <2>2
  <2>3. CASE k # l + 1
    <3>1. k \in 1..l
      BY <1>1, <2>3
    <3>2. Index(taken[j]) < Index(taken[k])
      BY <1>0, <2>1, <3>1
    <3> QED
      BY <1>2, <2>1, <3>1, <3>2
  <2> QED
    BY <2>2, <2>3
<1>7. \A k \in DOMAIN more : k + 1 \in DOMAIN more =>
                               Index(more[k + 1]) = Index(more[k]) + interval
  <2> SUFFICES ASSUME NEW k \in 1..l PROVE Index(more[k + 1]) = Index(more[k]) + interval
    BY <1>1, <1>2
  <2>1. CASE k = l
    BY <1>2, <1>3, <2>1 DEF l
  <2>2. CASE k # l
    <3>1. k + 1 \in 1..l
      BY <1>1, <2>2
    <3>2. Index(taken[k + 1]) = Index(taken[k]) + interval
      BY <1>0, <2>2
    <3> QED
      BY <1>2, <3>1, <3>2
  <2> QED
    BY <2>1, <2>2
<1>8. p + 1 < Index(more[Len(more)]) + interval
  BY <1>1, <1>2
<1>9. 1 \in DOMAIN more /\ Index(more[1]) = 0
  BY <1>1, <1>2, <1>3 DEF Covered
<1> QED
  BY <1>2, <1>4, <1>6, <1>7, <1>8, <1>9 DEF Covered, more

LEMMA SnapshotOf ==
  ASSUME NEW s \in Rights
  PROVE  Snapshot(s) \in Snap /\ QueueRight(Snapshot(s)) /\ Index(Snapshot(s)) = Len(s.log)
<1>1. s \in Sims /\ QueueRight(s) /\ Len(s.log) \in Nat
  BY DEF Rights, Sims
<1> QED
  BY <1>1 DEF Snapshot, Snap, Sims, QueueRight, Index

LEMMA StepCovers ==
  ASSUME NEW p \in Nat, NEW taken, Covered(p, taken), NEW s \in Rights, Len(s.log) = p + 1
  PROVE  Covered(p + 1, SnapshotIfDue(s, taken))
<1> DEFINE last == Index(taken[Len(taken)])
<1>1. /\ taken \in Seq(Snap) /\ DOMAIN taken = 1..Len(taken) /\ Len(taken) \in DOMAIN taken
      /\ interval \in Nat \ {0} /\ last \in Nat /\ last % interval = 0
  <2>1. Len(taken) \in DOMAIN taken
    BY Indexes DEF Covered
  <2> QED
    BY <2>1, Indexes, BoundAssumption DEF Covered
<1>2. CASE p + 1 < last + interval
  <2>1. SnapshotIfDue(s, taken) = taken
    <3> SUFFICES ASSUME (p + 1) % interval = 0 PROVE \E k \in DOMAIN taken : Index(taken[k]) = p + 1
      BY DEF SnapshotIfDue
    <3> QED
      BY <1>2, BoundaryTaken
  <2> QED
    BY <1>2, <2>1 DEF Covered
<1>3. CASE p + 1 = last + interval
  <2>1. (p + 1) % interval = 0
    BY <1>1, <1>3, NextMultiple
  <2>2. \A k \in DOMAIN taken : Index(taken[k]) # p + 1
    <3> SUFFICES ASSUME NEW k \in DOMAIN taken PROVE Index(taken[k]) <= last
      BY <1>1, <1>3, Indexes
    <3> QED
      BY CoveredMeans
  <2>3. SnapshotIfDue(s, taken) = Append(taken, Snapshot(s))
    BY <2>1, <2>2 DEF SnapshotIfDue
  <2> QED
    BY <1>3, <2>3, SnapshotOf, AppendCovers
<1>4. p < last + interval
  BY DEF Covered
<1> QED
  BY <1>1, <1>2, <1>3, <1>4

(* What the recorder keeps; clean if there has been no input. *)
Recordings(clean) ==
  {r \in [sim : Rights, snapshots : Seq(Snap)] :
     Covered(Len(r.sim.log), r.snapshots) /\ (clean => Original(r.sim, r.snapshots))}

LEMMA StepOriginal ==
  ASSUME NEW s \in Rights, s.queue # {}, NEW taken \in Seq(Snap), Original(s, taken)
  PROVE  Original(Step(s), SnapshotIfDue(Step(s), taken))
<1> DEFINE m == Len(s.log)
           next == Step(s)
<1>1. m \in Nat /\ s = At(m)
  BY SteppedRight DEF Original
<1>2. next = Stepped(s) /\ next \in Rights
  BY SteppedRight DEF Stepped
<1>3. Len(next.log) = m + 1
  <2>1. PICK e \in Event : next.log = Append(s.log, e)
    BY StepRight
  <2>2. s.log \in Seq(Event)
    BY DEF Rights, Sims
  <2> QED
    BY <2>1, <2>2
<1> HIDE DEF m, next
<1>4. next = At(m + 1)
  <2>1. Replay(NewSim)[m + 1] = Stepped(Replay(NewSim)[m])
    BY <1>1, ReplayIs, NewSimRight
  <2> QED
    BY <1>1, <1>2, <2>1 DEF At
<1>5. ASSUME NEW more, more = taken \/ more = Append(taken, Snapshot(next))
      PROVE  Original(next, more)
  <2>1. \A k \in DOMAIN taken : /\ taken[k] = Snapshot(At(Index(taken[k])))
                                /\ Len(At(Index(taken[k])).log) = Index(taken[k])
    BY DEF Original
  <2>2. CASE more = taken
    BY <1>3, <1>4, <2>1, <2>2 DEF Original
  <2>3. CASE more = Append(taken, Snapshot(next))
    <3>1. Index(Snapshot(next)) = m + 1
      BY <1>2, <1>3, SnapshotOf
    <3>2. ASSUME NEW k \in DOMAIN more
          PROVE  \/ k \in DOMAIN taken /\ more[k] = taken[k]
                 \/ more[k] = Snapshot(next)
      BY <2>3
    <3>3. ASSUME NEW k \in DOMAIN more
          PROVE  /\ more[k] = Snapshot(At(Index(more[k])))
                 /\ Len(At(Index(more[k])).log) = Index(more[k])
      <4>1. CASE k \in DOMAIN taken /\ more[k] = taken[k]
        BY <2>1, <4>1
      <4>2. CASE more[k] = Snapshot(next)
        BY <1>3, <1>4, <3>1, <4>2
      <4> QED
        BY <3>2, <4>1, <4>2
    <3> QED
      BY <1>3, <1>4, <3>3 DEF Original
  <2> QED
    BY <1>5, <2>2, <2>3
<1> QED
  BY <1>5 DEF SnapshotIfDue, next

LEMMA RecorderStepRight ==
  ASSUME NEW clean \in BOOLEAN, NEW r \in Recordings(clean)
  PROVE  RecorderStep(r) \in Recordings(clean)
<1>1. /\ r.sim \in Rights /\ r.snapshots \in Seq(Snap)
      /\ Covered(Len(r.sim.log), r.snapshots) /\ (clean => Original(r.sim, r.snapshots))
  BY DEF Recordings
<1>2. CASE r.sim.queue = {}
  BY <1>2 DEF RecorderStep
<1>3. CASE r.sim.queue # {}
  <2> DEFINE s == Step(r.sim)
             more == SnapshotIfDue(s, r.snapshots)
  <2>1. RecorderStep(r) = [sim |-> s, snapshots |-> more]
    BY <1>3 DEF RecorderStep
  <2>2. s \in Rights /\ Len(s.log) = Len(r.sim.log) + 1 /\ Len(r.sim.log) \in Nat
    <3>1. PICK e \in Event : s.log = Append(r.sim.log, e)
      BY <1>1, <1>3, StepRight
    <3>2. r.sim.log \in Seq(Event)
      BY <1>1 DEF Rights, Sims
    <3> QED
      BY <1>1, <1>3, <3>1, <3>2, StepRight
  <2>3. Covered(Len(s.log), more)
    BY <1>1, <2>2, StepCovers
  <2>4. clean => Original(s, more)
    BY <1>1, <1>3, StepOriginal
  <2>5. more \in Seq(Snap)
    BY <2>3 DEF Covered
  <2> HIDE DEF s, more
  <2> QED
    BY <2>1, <2>2, <2>3, <2>4, <2>5 DEF Recordings
<1> QED
  BY <1>2, <1>3

LEMMA RecordingRight ==
  ASSUME NEW clean \in BOOLEAN, NEW r \in Recordings(clean), NEW n \in Nat
  PROVE  Recording(r)[n] \in Recordings(clean)
<1> DEFINE F == [x \in Recordings(clean) |-> RecorderStep(x)]
<1>1. F \in [Recordings(clean) -> Recordings(clean)]
  BY RecorderStepRight
<1>2. \A x \in Recordings(clean) : F[x] = RecorderStep(x)
  OBVIOUS
<1> HIDE DEF F
<1>3. PICK f \in [Nat -> Recordings(clean)] : f[0] = r /\ \A k \in Nat : f[k + 1] = F[f[k]]
  BY <1>1, DefinedOnward
<1> DEFINE Is(g) == g = [k \in Nat |-> IF k = 0 THEN r ELSE RecorderStep(g[k - 1])]
<1>4. Is(f)
  <2>1. \A k \in Nat : f[k] = IF k = 0 THEN r ELSE RecorderStep(f[k - 1])
    <3> SUFFICES ASSUME NEW k \in Nat, k # 0 PROVE f[k] = RecorderStep(f[k - 1])
      BY <1>3
    <3>1. k - 1 \in Nat /\ (k - 1) + 1 = k
      OBVIOUS
    <3>2. f[(k - 1) + 1] = F[f[k - 1]]
      BY <1>3, <3>1
    <3> QED
      BY <1>2, <1>3, <3>1, <3>2
  <2>2. f = [k \in Nat |-> f[k]]
    OBVIOUS
  <2> QED
    BY <2>1, <2>2
<1>5. Is(Recording(r))
  <2>1. Recording(r) = CHOOSE g : Is(g)
    BY DEF Recording
  <2> HIDE DEF Is
  <2> QED
    BY <1>4, <2>1
<1>6. Recording(r)[0] = r /\ \A k \in Nat : Recording(r)[k + 1] = RecorderStep(Recording(r)[k])
  BY <1>5
<1> DEFINE T == {k \in Nat : Recording(r)[k] \in Recordings(clean)}
<1>7. 0 \in T
  BY <1>6
<1>8. \A k \in T : k + 1 \in T
  BY <1>6, RecorderStepRight
<1>9. T \in SUBSET Nat
  OBVIOUS
<1> HIDE DEF T
<1>10. T = Nat
  BY <1>7, <1>8, <1>9, AllNaturals
<1> QED
  BY <1>10 DEF T

LEMMA AdvanceIInv ==
  ASSUME IInv, NEW n \in 1..MaxProcessed, Advance(n)
  PROVE  IInv'
<1> DEFINE clean == commands = 0
           now   == [sim |-> sim, snapshots |-> snapshots]
<1>1. clean \in BOOLEAN /\ now \in Recordings(clean)
  BY DEF IInv, Recordings, Covered
<1>2. n \in Nat
  BY BoundAssumption
<1>3. Recording(now)[n] \in Recordings(clean)
  BY <1>1, <1>2, RecordingRight
<1> HIDE DEF now
<1>4. sim' = Recording(now)[n].sim /\ snapshots' = Recording(now)[n].snapshots
      /\ UNCHANGED <<commands, scrubs>>
  BY DEF Advance, now
<1> QED
  BY <1>3, <1>4 DEF Recordings, IInv

-----------------------------------------------------------------------------
(* Scrubs.                                                                 *)

(* The base of a scrub is never past its target. *)
LEMMA BaseBehind ==
  ASSUME NEW p \in Nat, Covered(p, snapshots), NEW index \in Nat
  PROVE  \E k \in DOMAIN snapshots :
           Base(index) = snapshots[k] /\ Index(snapshots[k]) <= index
<1> DEFINE upTo == {k \in DOMAIN snapshots : \A j \in 1..k : Index(snapshots[j]) <= index}
<1>1. DOMAIN snapshots = 1..Len(snapshots) /\ Len(snapshots) \in Nat
      /\ 1 \in DOMAIN snapshots /\ Index(snapshots[1]) = 0
  BY Indexes DEF Covered
<1>2. 1 \in upTo
  <2>1. \A j \in 1..1 : j = 1
    OBVIOUS
  <2> QED
    BY <1>1, <2>1
<1>3. upTo \in SUBSET Nat /\ upTo # {} /\ \A k \in upTo : k <= Len(snapshots)
  BY <1>1, <1>2
<1>4. \E k \in upTo : \A j \in upTo : j <= k
  BY <1>1, <1>3, GreatestExists
<1> DEFINE b == CHOOSE k \in upTo : \A j \in upTo : j <= k
<1>5. b \in upTo
  BY <1>4
<1>6. Base(index) = snapshots[b]
  BY <1>2 DEF Base
<1> HIDE DEF b
<1>7. b \in DOMAIN snapshots /\ Index(snapshots[b]) <= index
  <2>1. b \in 1..b
    BY <1>1, <1>5
  <2> QED
    BY <1>5, <2>1
<1> QED
  BY <1>6, <1>7

LEMMA RestoreRight ==
  ASSUME NEW s \in Rights, NEW c \in Snap, QueueRight(c), Index(c) <= Len(s.log)
  PROVE  /\ Restore(s, c) \in Rights /\ Len(Restore(s, c).log) = Index(c)
         /\ Restore(s, c).log = SubSeq(s.log, 1, Index(c))
<1>1. s.log \in Seq(Event) /\ Len(s.log) \in Nat /\ Index(c) \in Nat
  BY DEF Rights, Sims, Snap, Index
<1>2. SubSeq(s.log, 1, Index(c)) \in Seq(Event) /\ Len(SubSeq(s.log, 1, Index(c))) = Index(c)
  BY <1>1
<1>3. Restore(s, c) = [time |-> c.time, seq |-> c.seq, queue |-> c.queue,
                       log |-> SubSeq(s.log, 1, Index(c))]
  BY DEF Restore, Index
<1> DEFINE cut == SubSeq(s.log, 1, Index(c))
<1> HIDE DEF cut
<1>4. cut \in Seq(Event) /\ Len(cut) = Index(c)
  BY <1>2 DEF cut
<1>5. Restore(s, c) = [time |-> c.time, seq |-> c.seq, queue |-> c.queue, log |-> cut]
  BY <1>3 DEF cut
<1> QED
  BY <1>4, <1>5 DEF Rights, Sims, Snap, QueueRight, cut

(* To restore a snapshot of the one timeline is to be there again. *)
LEMMA RestoreOriginal ==
  ASSUME NEW i \in Nat, NEW m \in Nat, i <= m, Len(At(m).log) = m
  PROVE  Restore(At(m), Snapshot(At(i))) = At(i)
<1>1. /\ At(i) \in Rights /\ Len(At(i).log) = i
      /\ SubSeq(At(m).log, 1, i) = At(i).log
  BY AtIs
<1> DEFINE s == At(i)
<1> HIDE DEF s
<1>2. s \in Sims
  BY <1>1 DEF Rights, s
<1>3. s = [time |-> s.time, seq |-> s.seq, queue |-> s.queue, log |-> s.log]
  BY <1>2 DEF Sims
<1>4. Restore(At(m), Snapshot(s)) = [time |-> s.time, seq |-> s.seq, queue |-> s.queue,
                                     log |-> SubSeq(At(m).log, 1, Len(s.log))]
  BY DEF Restore, Snapshot
<1> QED
  BY <1>1, <1>3, <1>4 DEF s

(* A scrub lands on its target or runs out of events, on the recorded past *)
(* if there was no input.                                                  *)
LEMMA ScrubRight ==
  ASSUME NEW s \in Rights, NEW taken, Covered(Len(s.log), taken), NEW k \in DOMAIN taken,
         NEW index \in Nat, Index(taken[k]) <= index, index < Len(s.log),
         NEW r, r = Replay(Restore(s, taken[k]))[index - Index(taken[k])]
  PROVE  /\ r \in Rights /\ Covered(Len(r.log), taken)
         /\ Len(r.log) = index \/ (Len(r.log) < index /\ r.queue = {})
         /\ Original(s, taken) => Original(r, taken) /\ r.log = SubSeq(s.log, 1, index)
<1> DEFINE i == Index(taken[k])
           m == Len(s.log)
           base == Restore(s, taken[k])
<1>1. m \in Nat /\ i \in Nat /\ taken \in Seq(Snap) /\ taken[k] \in Snap /\ QueueRight(taken[k])
  BY SteppedRight, Indexes DEF Covered
<1>2. i <= m /\ index - i \in Nat /\ i + (index - i) = index
  BY <1>1
<1>3. base \in Rights /\ Len(base.log) = i
  BY <1>1, <1>2, RestoreRight
<1>4. r = Replay(base)[index - i]
  OBVIOUS
<1> HIDE DEF base
<1>5. r \in Rights /\ Along(base, r, index - i)
  BY <1>2, <1>3, <1>4, ReplayGoesOn
<1>6. Len(r.log) = index \/ (Len(r.log) < index /\ r.queue = {})
  BY <1>2, <1>3, <1>5 DEF Along
<1>7. Len(r.log) \in Nat
  BY <1>5, SteppedRight
<1>8. Covered(Len(r.log), taken)
  <2> DEFINE last == Index(taken[Len(taken)])
  <2>1. m < last + interval
    BY DEF Covered
  <2>2. last \in Nat /\ interval \in Nat
    <3>1. Len(taken) \in DOMAIN taken
      BY <1>1, Indexes DEF Covered
    <3> QED
      BY <1>1, <3>1, Indexes, BoundAssumption
  <2> HIDE DEF last
  <2>3. Len(r.log) < last + interval
    BY <1>1, <1>6, <1>7, <2>1, <2>2
  <2> QED
    BY <2>3 DEF Covered, last
<1>9. ASSUME Original(s, taken)
      PROVE  Original(r, taken) /\ r.log = SubSeq(s.log, 1, index)
  <2>1. s = At(m) /\ taken[k] = Snapshot(At(i)) /\ Len(At(m).log) = m
    BY <1>9 DEF Original
  <2> HIDE DEF m, i
  <2>2. base = At(i)
    BY <1>1, <1>2, <2>1, RestoreOriginal DEF base
  <2>3. index <= m /\ i <= index
    BY <1>1 DEF m, i
  <2>4. At(index) \in Rights /\ Len(At(index).log) = index
        /\ SubSeq(At(m).log, 1, index) = At(index).log
    BY <1>1, <2>1, <2>3, AtIs
  <2>5. At(index) = Replay(At(i))[index - i]
    BY <1>1, <2>3, <2>4, AtIs
  <2>6. r = At(index)
    BY <1>4, <2>2, <2>5
  <2>7. \A j \in DOMAIN taken : /\ taken[j] = Snapshot(At(Index(taken[j])))
                                /\ Len(At(Index(taken[j])).log) = Index(taken[j])
    BY <1>9 DEF Original
  <2> QED
    BY <2>1, <2>4, <2>6, <2>7 DEF Original
<1> QED
  BY <1>5, <1>6, <1>8, <1>9

LEMMA ScrubBackIInv ==
  ASSUME IInv, NEW index \in 0..MaxProcessed, ScrubBack(index)
  PROVE  /\ IInv'
         /\ Len(sim'.log) = index \/ (Len(sim'.log) < index /\ sim'.queue = {})
         /\ commands = 0 => sim'.log = SubSeq(sim.log, 1, index)
<1>1. sim \in Rights /\ Covered(Len(sim.log), snapshots) /\ Len(sim.log) \in Nat
      /\ index \in Nat
  BY SteppedRight DEF IInv
<1>2. PICK k \in DOMAIN snapshots : Base(index) = snapshots[k] /\ Index(snapshots[k]) <= index
  BY <1>1, BaseBehind
<1>3. /\ index < Len(sim.log)
      /\ sim' = Replay(Restore(sim, snapshots[k]))[index - Index(snapshots[k])]
      /\ scrubs < MaxScrubs /\ scrubs' = scrubs + 1 /\ UNCHANGED <<snapshots, commands>>
  BY <1>2 DEF ScrubBack
<1>4. /\ sim' \in Rights /\ Covered(Len(sim'.log), snapshots)
      /\ Len(sim'.log) = index \/ (Len(sim'.log) < index /\ sim'.queue = {})
      /\ Original(sim, snapshots) =>
           Original(sim', snapshots) /\ sim'.log = SubSeq(sim.log, 1, index)
  BY <1>1, <1>2, <1>3, ScrubRight
<1>5. scrubs' \in 0..MaxScrubs
  BY <1>3, BoundAssumption DEF IInv
<1> QED
  BY <1>3, <1>4, <1>5 DEF IInv

-----------------------------------------------------------------------------
(* Inputs.                                                                 *)

(* Snapshots are in order, so those up to the present position are the     *)
(* first ones.                                                             *)
LEMMA InvalidatedIs ==
  ASSUME NEW m \in Nat, m = Len(sim.log), Covered(m, snapshots),
         NEW l, l = Len(snapshots)
  PROVE  \E g \in 1..l :
           /\ FutureInvalidated = [i \in 1..g |-> snapshots[i]]
           /\ \A k \in 1..l : Index(snapshots[k]) <= m <=> k <= g
<1> DEFINE kept == {k \in DOMAIN snapshots : Index(snapshots[k]) <= m}
<1>1. /\ l \in Nat \ {0} /\ DOMAIN snapshots = 1..l
      /\ \A k \in 1..l : Index(snapshots[k]) \in Nat
      /\ \A j, k \in 1..l : j < k => Index(snapshots[j]) < Index(snapshots[k])
  BY CoveredMeans
<1>2. Index(snapshots[1]) = 0
  BY DEF Covered
<1>3. kept \in SUBSET Nat /\ kept # {} /\ \A k \in kept : k <= l
  BY <1>1, <1>2
<1>4. PICK g \in kept : \A k \in kept : k <= g
  BY <1>1, <1>3, GreatestExists
<1>5. g \in 1..l /\ Index(snapshots[g]) <= m
  BY <1>1, <1>4
<1>6. \A k \in 1..l : Index(snapshots[k]) <= m <=> k <= g
  <2> SUFFICES ASSUME NEW k \in 1..l PROVE Index(snapshots[k]) <= m <=> k <= g
    OBVIOUS
  <2>1. ASSUME Index(snapshots[k]) <= m PROVE k <= g
    BY <1>1, <1>4, <2>1
  <2>2. ASSUME k <= g PROVE Index(snapshots[k]) <= m
    <3>1. CASE k = g
      BY <1>5, <3>1
    <3>2. CASE k # g
      <4>1. Index(snapshots[k]) < Index(snapshots[g])
        BY <1>1, <1>5, <2>2, <3>2
      <4>2. Index(snapshots[k]) \in Nat /\ Index(snapshots[g]) \in Nat
        BY <1>1, <1>5
      <4> QED
        BY <1>5, <4>1, <4>2
    <3> QED
      BY <3>1, <3>2
  <2> QED
    BY <2>1, <2>2
<1>7. kept = 1..g
  BY <1>1, <1>5, <1>6
<1> HIDE DEF kept
<1>8. Cardinality(kept) = g
  BY <1>5, <1>7, FS_Interval
<1>9. \A k \in kept : Cardinality({j \in kept : j < k}) = k - 1
  <2> SUFFICES ASSUME NEW k \in 1..g PROVE Cardinality({j \in 1..g : j < k}) = k - 1
    BY <1>7
  <2>1. {j \in 1..g : j < k} = 1..(k - 1)
    BY <1>5
  <2>2. k - 1 \in Int /\ 1 \in Int /\ (1 > k - 1 => k - 1 = 0)
    BY <1>5
  <2>3. Cardinality(1..(k - 1)) = IF 1 > k - 1 THEN 0 ELSE (k - 1) - 1 + 1
    BY <2>2, FS_Interval
  <2>4. Cardinality(1..(k - 1)) = k - 1
    BY <2>2, <2>3
  <2> QED
    BY <2>1, <2>4
<1> DEFINE Nth(i) == CHOOSE k \in kept : Cardinality({j \in kept : j < k}) = i - 1
<1>10. \A i \in 1..g : Nth(i) = i
  <2> SUFFICES ASSUME NEW i \in 1..g PROVE Nth(i) = i
    OBVIOUS
  <2> DEFINE P(k) == Cardinality({j \in kept : j < k}) = i - 1
  <2>1. i \in kept /\ P(i)
    BY <1>7, <1>9
  <2>2. \A k \in kept : P(k) => k = i
    BY <1>5, <1>7, <1>9
  <2> HIDE DEF P
  <2>3. (CHOOSE k \in kept : P(k)) = i
    BY <2>1, <2>2
  <2> QED
    BY <2>3 DEF P
<1>11. FutureInvalidated = [i \in 1..g |-> snapshots[i]]
  <2>1. FutureInvalidated = [i \in 1..Cardinality(kept) |-> snapshots[Nth(i)]]
    BY DEF FutureInvalidated, kept
  <2> HIDE DEF Nth
  <2> QED
    BY <1>8, <1>10, <2>1
<1> QED
  BY <1>5, <1>6, <1>11

LEMMA CutCovers ==
  ASSUME NEW p \in Nat, NEW taken, Covered(p, taken), NEW l, l = Len(taken),
         NEW g \in 1..l, NEW m \in Nat, m < Index(taken[g]) + interval,
         NEW first, first = [i \in 1..g |-> taken[i]]
  PROVE  Covered(m, first)
<1>1. /\ taken \in Seq(Snap) /\ l \in Nat \ {0} /\ DOMAIN taken = 1..l
      /\ \A k \in 1..l : taken[k] \in Snap
      /\ \A j, k \in 1..l : j < k => Index(taken[j]) < Index(taken[k])
      /\ \A k \in 1..l : k # l => Index(taken[k + 1]) = Index(taken[k]) + interval
      /\ \A k \in 1..l : Index(taken[k]) % interval = 0
  BY CoveredMeans, Indexes
<1>2. Index(taken[1]) = 0 /\ \A k \in 1..l : QueueRight(taken[k])
  BY <1>1 DEF Covered
<1>3. g \in Nat /\ 1 \in 1..g /\ \A k \in 1..g : k \in 1..l
  BY <1>1
<1>4. first \in Seq(Snap) /\ Len(first) = g /\ DOMAIN first = 1..g
  <2>1. first \in [1..g -> Snap]
    BY <1>1, <1>3
  <2> QED
    BY <1>3, <2>1
<1>5. \A k \in 1..g : first[k] = taken[k]
  OBVIOUS
<1>6. \A k \in 1..g : k + 1 \in 1..g => Index(first[k + 1]) = Index(first[k]) + interval
  <2> SUFFICES ASSUME NEW k \in 1..g, k + 1 \in 1..g
               PROVE  Index(taken[k + 1]) = Index(taken[k]) + interval
    BY <1>5
  <2>1. k \in 1..l /\ k # l
    BY <1>1, <1>3
  <2> QED
    BY <1>1, <2>1
<1>7. \A j, k \in 1..g : j < k => Index(first[j]) < Index(first[k])
  BY <1>1, <1>3, <1>5
<1>8. m < Index(first[Len(first)]) + interval
  BY <1>3, <1>4, <1>5
<1> QED
  BY <1>1, <1>2, <1>3, <1>4, <1>5, <1>6, <1>7, <1>8 DEF Covered

LEMMA InputIInv ==
  ASSUME IInv, NEW c \in Command, Input(c)
  PROVE  IInv' /\ \A k \in DOMAIN snapshots' : Index(snapshots'[k]) <= Len(sim.log)
<1> DEFINE m == Len(sim.log)
           l == Len(snapshots)
<1>1. m \in Nat /\ Covered(m, snapshots) /\ sim \in Rights
  BY SteppedRight DEF IInv
<1>2. PICK g \in 1..l :
        /\ FutureInvalidated = [i \in 1..g |-> snapshots[i]]
        /\ \A k \in 1..l : Index(snapshots[k]) <= m <=> k <= g
  BY <1>1, InvalidatedIs
<1>3. /\ snapshots' = [i \in 1..g |-> snapshots[i]] /\ sim' = Inject(sim, c)
      /\ commands < MaxCommands /\ commands' = commands + 1 /\ UNCHANGED scrubs
  BY <1>2 DEF Input
<1> HIDE DEF m, l
<1>4. /\ l \in Nat \ {0} /\ interval \in Nat \ {0}
      /\ \A k \in 1..l : Index(snapshots[k]) \in Nat
      /\ \A k \in 1..l : k # l => Index(snapshots[k + 1]) = Index(snapshots[k]) + interval
  BY <1>1, CoveredMeans DEF l
<1>5. m < Index(snapshots[g]) + interval
  <2>1. CASE g = l
    BY <1>1, <2>1 DEF Covered, l
  <2>2. CASE g # l
    <3>1. g + 1 \in 1..l /\ ~(g + 1 <= g)
      BY <1>4, <2>2
    <3>2. ~(Index(snapshots[g + 1]) <= m) /\ Index(snapshots[g + 1]) \in Nat
      BY <1>2, <1>4, <3>1
    <3>3. Index(snapshots[g + 1]) = Index(snapshots[g]) + interval
      BY <1>4, <2>2
    <3> QED
      BY <1>1, <3>2, <3>3
  <2> QED
    BY <2>1, <2>2
<1>6. Covered(m, snapshots')
  <2>1. ASSUME NEW first, first = [i \in 1..g |-> snapshots[i]] PROVE Covered(m, first)
    BY <1>1, <1>5, <2>1, CutCovers DEF l
  <2> QED
    BY <1>3, <2>1
<1>7. sim' \in Rights /\ Len(sim'.log) = m
  BY <1>1, <1>3, InjectRight DEF m
<1>8. \A k \in DOMAIN snapshots' : Index(snapshots'[k]) <= m
  <2>1. DOMAIN snapshots' = 1..g /\ \A k \in 1..g : snapshots'[k] = snapshots[k]
    BY <1>3
  <2>2. \A k \in 1..g : k \in 1..l /\ k <= g
    BY <1>4
  <2> QED
    BY <1>2, <2>1, <2>2
<1>9. commands' \in 0..MaxCommands /\ commands' # 0 /\ scrubs' \in 0..MaxScrubs
  BY <1>3, BoundAssumption DEF IInv
<1> QED
  BY <1>6, <1>7, <1>8, <1>9 DEF IInv, m

-----------------------------------------------------------------------------
(* The invariant, and what it means.                                       *)

LEMMA InitIInv ==
  ASSUME Init
  PROVE  IInv
<1>1. NewSim \in Rights /\ Len(NewSim.log) = 0 /\ interval \in Nat \ {0}
  BY NewSimRight, BoundAssumption
<1> DEFINE c == Snapshot(NewSim)
<1>2. c \in Snap /\ QueueRight(c) /\ Index(c) = 0
  BY <1>1, SnapshotOf
<1>3. At(0) = NewSim
  BY <1>1, ReplayIs DEF At
<1>4. 0 % interval = 0
  BY <1>1
<1> HIDE DEF c
<1>5. Covered(0, <<c>>)
  BY <1>1, <1>2, <1>4 DEF Covered
<1>6. Original(NewSim, <<c>>)
  BY <1>1, <1>2, <1>3 DEF Original, c
<1>7. sim = NewSim /\ snapshots = <<c>> /\ commands = 0 /\ scrubs = 0
  BY DEF Init, c
<1> QED
  BY <1>1, <1>5, <1>6, <1>7, BoundAssumption DEF IInv

LEMMA NextIInv ==
  ASSUME IInv, [Next]_vars
  PROVE  IInv'
<1>1. ASSUME NEW n \in 1..MaxProcessed, Advance(n) PROVE IInv'
  BY <1>1, AdvanceIInv
<1>2. ASSUME NEW index \in 0..MaxProcessed, ScrubBack(index) PROVE IInv'
  BY <1>2, ScrubBackIInv
<1>3. ASSUME NEW c \in Command, Input(c) PROVE IInv'
  BY <1>3, InputIInv
<1>4. CASE UNCHANGED vars
  BY <1>4 DEF vars, IInv
<1> QED
  BY <1>1, <1>2, <1>3, <1>4 DEF Next

LEMMA IInvSound ==
  ASSUME IInv
  PROVE  SnapshotsSound
<1>1. sim \in Rights /\ Covered(Len(sim.log), snapshots) /\ Len(sim.log) \in Nat
  BY SteppedRight DEF IInv
<1>2. TypeOK
  BY <1>1 DEF IInv, TypeOK, Rights, Sims, QueueRight, Covered, Snap
<1>3. SnapshotsOrdered
  BY <1>1 DEF Covered, SnapshotsOrdered
<1>4. RestoreNeverThrows
  <2> SUFFICES ASSUME NEW index \in 0..Len(sim.log) PROVE Index(Base(index)) <= index
    BY DEF RestoreNeverThrows
  <2>1. index \in Nat
    BY <1>1
  <2> QED
    BY <1>1, <2>1, BaseBehind
<1> QED
  BY <1>2, <1>3, <1>4 DEF SnapshotsSound

(* Events due in the past, two events of one number: never; and the        *)
(* snapshots are kept in order from the start, so that no scrub of the     *)
(* recorder asks a restore for log entries that are gone.                  *)
THEOREM SnapshotsCorrect == Spec => []SnapshotsSound
<1>1. Init => IInv
  BY InitIInv
<1>2. IInv /\ [Next]_vars => IInv'
  BY NextIInv
<1>3. IInv => SnapshotsSound
  BY IInvSound
<1> QED
  BY <1>1, <1>2, <1>3, PTL DEF Spec

(* Of a step alone. *)
LEMMA StepReplays ==
  ASSUME IInv, [Next]_vars
  PROVE  /\ [\A index \in 0..MaxProcessed :
               commands = 0 /\ ScrubBack(index) => sim'.log = SubSeq(sim.log, 1, index)]_vars
         /\ [\A index \in 0..MaxProcessed :
               ScrubBack(index) => \/ Len(sim'.log) = index
                                   \/ Len(sim'.log) < index /\ sim'.queue = {}]_vars
         /\ [commands' # commands =>
               \A k \in DOMAIN snapshots' : Index(snapshots'[k]) <= Len(sim.log)]_vars
<1>1. ASSUME NEW index \in 0..MaxProcessed, ScrubBack(index)
      PROVE  /\ commands = 0 => sim'.log = SubSeq(sim.log, 1, index)
             /\ \/ Len(sim'.log) = index
                \/ Len(sim'.log) < index /\ sim'.queue = {}
  BY <1>1, ScrubBackIInv
<1>2. ASSUME commands' # commands
      PROVE  \A k \in DOMAIN snapshots' : Index(snapshots'[k]) <= Len(sim.log)
  <2>1. ASSUME NEW n \in 1..MaxProcessed, Advance(n) PROVE FALSE
    BY <1>2, <2>1 DEF Advance
  <2>2. ASSUME NEW index \in 0..MaxProcessed, ScrubBack(index) PROVE FALSE
    BY <1>2, <2>2 DEF ScrubBack
  <2>3. \E c \in Command : Input(c)
    BY <1>2, <2>1, <2>2 DEF Next, vars
  <2> QED
    BY <2>3, InputIInv
<1> QED
  BY <1>1, <1>2

(* A scrub lands on its target unless the module goes idle first; without  *)
(* inputs what it brings back is exactly what was recorded, whatever mix   *)
(* of steps and scrubs took the snapshots; and an input leaves no snapshot *)
(* of the future it ends.                                                  *)
THEOREM ScrubsCorrect == Spec => ScrubsReplay
<1>1. Init => IInv
  BY InitIInv
<1>2. IInv /\ [Next]_vars => IInv'
  BY NextIInv
<1> QED
  BY <1>1, <1>2, StepReplays, PTL DEF Spec, ScrubsReplay, ReplayExact, ScrubLands, NoStaleFuture

-----------------------------------------------------------------------------
(* The views of a log.  What a view of the first n records should have of  *)
(* a key and of a category.                                                *)
Written == Unbundled!Record
Last(log, n, k) == Unbundled!Latest(SubSeq(log, 1, n), k)
Tally(log, n, c) == Cardinality({i \in 1..n : log[i].category = c})

LEMMA ReadIs ==
  ASSUME NEW log \in Seq(Written), NEW n \in 0..Len(log)
  PROVE  LET read == SubSeq(log, 1, n)
         IN read \in Seq(Written) /\ DOMAIN read = 1..n /\ \A i \in 1..n : read[i] = log[i] /\ log[i] \in Written
<1>1. \A i \in 1..n : log[i] \in Written
  OBVIOUS
<1>2. SubSeq(log, 1, n) \in Seq(Written) /\ Len(SubSeq(log, 1, n)) = n
  BY <1>1, SubSeqProperties
<1>3. \A i \in 1..n : SubSeq(log, 1, n)[i] = log[1 + i - 1]
  BY <1>1, SubSeqProperties
<1> QED
  BY <1>1, <1>2, <1>3

(* The last record of a key, by its place.  *)
LEMMA LastIs ==
  ASSUME NEW log \in Seq(Written), NEW n \in 0..Len(log), NEW k,
         NEW i \in 1..n, log[i].key = k, \A j \in 1..n : log[j].key = k => j <= i
  PROVE  Last(log, n, k) = log[i]
<1> DEFINE read == SubSeq(log, 1, n)
           at == {j \in DOMAIN read : read[j].key = k}
<1>1. at = {j \in 1..n : log[j].key = k} /\ read[i] = log[i]
  BY ReadIs
<1>2. i \in at /\ \A j \in at : j <= i
  BY <1>1
<1>3. (CHOOSE m \in at : \A j \in at : j <= m) = i
  <2>1. \A m \in at : (\A j \in at : j <= m) => m = i
    BY <1>1, <1>2
  <2> HIDE DEF at
  <2> QED
    BY <1>2, <2>1
<1>4. Last(log, n, k) = IF at = {} THEN Unbundled!Nothing
                        ELSE read[CHOOSE m \in at : \A j \in at : j <= m]
  BY DEF Last, Unbundled!Latest
<1> QED
  BY <1>1, <1>2, <1>3, <1>4

LEMMA LastNone ==
  ASSUME NEW log \in Seq(Written), NEW n \in 0..Len(log), NEW k,
         \A j \in 1..n : log[j].key # k
  PROVE  Last(log, n, k) = Unbundled!Nothing
<1> DEFINE read == SubSeq(log, 1, n)
<1>1. {j \in DOMAIN read : read[j].key = k} = {}
  BY ReadIs
<1> QED
  BY <1>1 DEF Last, Unbundled!Latest

(* A key was written last somewhere, or nowhere. *)
LEMMA LastPlace ==
  ASSUME NEW log \in Seq(Written), NEW n \in 0..Len(log), NEW k
  PROVE  \/ \A j \in 1..n : log[j].key # k
         \/ \E i \in 1..n : log[i].key = k /\ \A j \in 1..n : log[j].key = k => j <= i
<1> SUFFICES ASSUME \E j \in 1..n : log[j].key = k
             PROVE  \E i \in 1..n : log[i].key = k /\ \A j \in 1..n : log[j].key = k => j <= i
  OBVIOUS
<1> DEFINE at == {j \in 1..n : log[j].key = k}
<1>1. at \in SUBSET Nat /\ at # {} /\ n \in Nat /\ \A j \in at : j <= n
  OBVIOUS
<1>2. \E i \in at : \A j \in at : j <= i
  <2> HIDE DEF at
  <2> QED
    BY <1>1, GreatestExists
<1> QED
  BY <1>2

LEMMA LastTyped ==
  ASSUME NEW log \in Seq(Written), NEW n \in 0..Len(log), NEW k
  PROVE  Last(log, n, k) \in Written \cup {Unbundled!Nothing}
<1>1. CASE \A j \in 1..n : log[j].key # k
  BY <1>1, LastNone
<1>2. ASSUME NEW i \in 1..n, log[i].key = k, \A j \in 1..n : log[j].key = k => j <= i
      PROVE  Last(log, n, k) \in Written
  <2>1. Last(log, n, k) = log[i]
    BY <1>2, LastIs
  <2> QED
    BY <2>1
<1> QED
  BY <1>1, <1>2, LastPlace

(* One record more. *)
LEMMA LastNext ==
  ASSUME NEW log \in Seq(Written), NEW n \in Nat, n < Len(log), NEW k
  PROVE  Last(log, n + 1, k) = IF log[n + 1].key = k THEN log[n + 1] ELSE Last(log, n, k)
<1>1. n \in 0..Len(log) /\ n + 1 \in 0..Len(log) /\ n + 1 \in 1..(n + 1)
  OBVIOUS
<1>2. CASE log[n + 1].key = k
  <2>1. \A j \in 1..(n + 1) : log[j].key = k => j <= n + 1
    OBVIOUS
  <2>2. Last(log, n + 1, k) = log[n + 1]
    BY <1>1, <1>2, <2>1, LastIs
  <2> QED
    BY <1>2, <2>2
<1>3. CASE log[n + 1].key # k
  <2>1. CASE \A j \in 1..n : log[j].key # k
    <3>1. \A j \in 1..(n + 1) : log[j].key # k
      BY <1>3, <2>1
    <3> QED
      BY <1>1, <1>3, <2>1, <3>1, LastNone
  <2>2. ASSUME NEW i \in 1..n, log[i].key = k, \A j \in 1..n : log[j].key = k => j <= i
        PROVE  Last(log, n + 1, k) = Last(log, n, k)
    <3>1. \A j \in 1..(n + 1) : log[j].key = k => j <= i
      BY <1>3, <2>2
    <3>2. i \in 1..(n + 1)
      OBVIOUS
    <3>3. Last(log, n, k) = log[i]
      BY <1>1, <2>2, LastIs
    <3>4. Last(log, n + 1, k) = log[i]
      BY <1>1, <2>2, <3>1, <3>2, LastIs
    <3> QED
      BY <3>3, <3>4
  <2> QED
    BY <1>1, <1>3, <2>1, <2>2, LastPlace
<1> QED
  BY <1>2, <1>3

LEMMA TallyNext ==
  ASSUME NEW log \in Seq(Written), NEW n \in Nat, n < Len(log), NEW c
  PROVE  /\ Tally(log, n, c) \in Nat
         /\ Tally(log, n + 1, c) = IF log[n + 1].category = c THEN Tally(log, n, c) + 1 ELSE Tally(log, n, c)
<1> DEFINE counted == {i \in 1..n : log[i].category = c}
           more == {i \in 1..(n + 1) : log[i].category = c}
<1>1. IsFiniteSet(counted) /\ n + 1 \notin counted
  <2>1. IsFiniteSet(1..n)
    BY FS_Interval
  <2> QED
    BY <2>1, FS_Subset
<1>2. more = IF log[n + 1].category = c THEN counted \cup {n + 1} ELSE counted
  OBVIOUS
<1> HIDE DEF counted, more
<1>3. Cardinality(counted) \in Nat /\ Cardinality(counted \cup {n + 1}) = Cardinality(counted) + 1
  BY <1>1, FS_AddElement, FS_CardinalityType
<1> QED
  BY <1>2, <1>3 DEF Tally, counted, more

LEMMA TallyNone ==
  ASSUME NEW log, NEW c
  PROVE  Tally(log, 0, c) = 0
<1>1. {i \in 1..0 : log[i].category = c} = {}
  OBVIOUS
<1> QED
  BY <1>1, FS_EmptySet DEF Tally

LEMMA LastZero ==
  ASSUME NEW log \in Seq(Written), NEW k
  PROVE  Last(log, 0, k) = Unbundled!Nothing
<1>1. \A j \in 1..0 : log[j].key # k
  OBVIOUS
<1>2. 0 \in 0..Len(log)
  OBVIOUS
<1> QED
  BY <1>1, <1>2, LastNone

(* What was read does not change as the log grows. *)
LEMMA ReadGrown ==
  ASSUME NEW log \in Seq(Written), NEW n \in 0..Len(log), NEW r \in Written
  PROVE  /\ \A k : Last(Append(log, r), n, k) = Last(log, n, k)
         /\ \A c : Tally(Append(log, r), n, c) = Tally(log, n, c)
<1> DEFINE more == Append(log, r)
<1>1. more \in Seq(Written) /\ n \in 0..Len(more) /\ \A i \in 1..n : more[i] = log[i]
  OBVIOUS
<1>2. SubSeq(more, 1, n) = SubSeq(log, 1, n)
  BY ReadIs, <1>1
<1>3. \A c : {i \in 1..n : more[i].category = c} = {i \in 1..n : log[i].category = c}
  BY <1>1
<1> QED
  BY <1>2, <1>3 DEF Last, Tally

-----------------------------------------------------------------------------
(* The content of a view of the first n records. *)
SearchContent == [index : [Term -> SUBSET ViewKey], keyTerms : [ViewKey -> SUBSET Term]]
CacheContent == [ViewKey -> Written \cup {Unbundled!Nothing}]
TallyContent == [Category -> Nat]

Searches(log, n, content) ==
  /\ content \in SearchContent
  /\ \A k \in ViewKey : content.keyTerms[k] = Last(log, n, k).title
  /\ \A t \in Term : content.index[t] = {k \in ViewKey : t \in content.keyTerms[k]}
Caches(log, n, content) ==
  content \in CacheContent /\ \A k \in ViewKey : content[k] = Last(log, n, k)
Tallies(log, n, content, again) ==
  content \in TallyContent /\ \A c \in Category : content[c] = Tally(log, n, c) + again[c]

LEMMA FreshRight ==
  ASSUME NEW log \in Seq(Written), NEW again, again = [c \in Category |-> 0]
  PROVE  /\ Searches(log, 0, Unbundled!FreshContent("search"))
         /\ Caches(log, 0, Unbundled!FreshContent("cache"))
         /\ Tallies(log, 0, Unbundled!FreshContent("analytics"), again)
<1>1. Unbundled!FreshContent("search") = [index |-> [t \in Term |-> {}], keyTerms |-> [k \in ViewKey |-> {}]]
  BY DEF Unbundled!FreshContent
<1>2. Unbundled!FreshContent("cache") = [k \in ViewKey |-> Unbundled!Nothing]
  BY DEF Unbundled!FreshContent
<1>3. Unbundled!FreshContent("analytics") = [c \in Category |-> 0]
  BY DEF Unbundled!FreshContent
<1>4. \A k : Last(log, 0, k) = Unbundled!Nothing
  BY LastZero
<1>5. Unbundled!Nothing.title = {}
  BY DEF Unbundled!Nothing
<1>6. Searches(log, 0, Unbundled!FreshContent("search"))
  <2> DEFINE index == [t \in Term |-> {}]
             terms == [k \in ViewKey |-> {}]
             content == [index |-> index, keyTerms |-> terms]
  <2>1. index \in [Term -> SUBSET ViewKey] /\ terms \in [ViewKey -> SUBSET Term]
    OBVIOUS
  <2>2. content \in SearchContent
    BY <2>1 DEF SearchContent
  <2>3. \A k \in ViewKey : content.keyTerms[k] = Last(log, 0, k).title
    BY <1>4, <1>5
  <2>4. \A t \in Term : content.index[t] = {k \in ViewKey : t \in content.keyTerms[k]}
    OBVIOUS
  <2> QED
    BY <1>1, <2>2, <2>3, <2>4 DEF Searches
<1>7. Caches(log, 0, Unbundled!FreshContent("cache"))
  BY <1>2, <1>4 DEF Caches, CacheContent
<1>8. Tallies(log, 0, Unbundled!FreshContent("analytics"), again)
  BY <1>3, TallyNone DEF Tallies, TallyContent
<1> QED
  BY <1>6, <1>7, <1>8

(* The index of a key's terms follows them. *)
LEMMA SearchApplied ==
  ASSUME NEW content \in SearchContent, NEW r \in Written,
         \A t \in Term : content.index[t] = {k \in ViewKey : t \in content.keyTerms[k]}
  PROVE  LET new == Unbundled!ApplyContent("search", content, r)
         IN /\ new \in SearchContent
            /\ new.keyTerms = [content.keyTerms EXCEPT ![r.key] = r.title]
            /\ \A t \in Term : new.index[t] = {k \in ViewKey : t \in new.keyTerms[k]}
<1> DEFINE new == Unbundled!ApplyContent("search", content, r)
           others(t) == IF t \in content.keyTerms[r.key] THEN content.index[t] \ {r.key}
                        ELSE content.index[t]
           index == [t \in Term |-> IF t \in r.title THEN others(t) \cup {r.key} ELSE others(t)]
           terms == [content.keyTerms EXCEPT ![r.key] = r.title]
<1>1. new = [index |-> index, keyTerms |-> terms]
  BY DEF Unbundled!ApplyContent
<1>2. r.key \in ViewKey /\ r.title \in SUBSET Term
  BY DEF Written, Unbundled!Record
<1>3. content.index \in [Term -> SUBSET ViewKey] /\ content.keyTerms \in [ViewKey -> SUBSET Term]
  BY DEF SearchContent
<1>4. terms \in [ViewKey -> SUBSET Term] /\ terms[r.key] = r.title
         /\ \A k \in ViewKey : k # r.key => terms[k] = content.keyTerms[k]
  BY <1>2, <1>3
<1>5. \A t \in Term : index[t] = (IF t \in r.title THEN others(t) \cup {r.key} ELSE others(t))
  OBVIOUS
<1>6. ASSUME NEW t \in Term PROVE index[t] = {k \in ViewKey : t \in terms[k]}
  <2> HIDE DEF index, terms
  <2>1. content.index[t] = {k \in ViewKey : t \in content.keyTerms[k]}
    OBVIOUS
  <2>2. others(t) = {k \in ViewKey : t \in content.keyTerms[k]} \ {r.key}
    BY <2>1
  <2> HIDE DEF others
  <2>3. CASE t \in r.title
    <3>1. index[t] = others(t) \cup {r.key}
      BY <1>5, <2>3
    <3> QED
      BY <1>2, <1>4, <2>2, <2>3, <3>1
  <2>4. CASE t \notin r.title
    <3>1. index[t] = others(t)
      BY <1>5, <2>4
    <3> QED
      BY <1>2, <1>4, <2>2, <2>4, <3>1
  <2> QED
    BY <2>3, <2>4
<1>7. index \in [Term -> SUBSET ViewKey]
  <2>1. \A t \in Term : index[t] \in SUBSET ViewKey
    BY <1>6
  <2> HIDE DEF others
  <2> QED
    BY <2>1
<1> QED
  BY <1>1, <1>4, <1>6, <1>7 DEF SearchContent

(* The next record, or the last one again: only the tally can tell.        *)
LEMMA Applied ==
  ASSUME NEW log \in Seq(Written), NEW n \in Nat, n < Len(log), NEW again \in [Category -> Nat]
  PROVE  /\ \A content : Searches(log, n, content) \/ Searches(log, n + 1, content)
              => Searches(log, n + 1, Unbundled!ApplyContent("search", content, log[n + 1]))
         /\ \A content : Caches(log, n, content) \/ Caches(log, n + 1, content)
              => Caches(log, n + 1, Unbundled!ApplyContent("cache", content, log[n + 1]))
         /\ \A content : Tallies(log, n, content, again)
              => Tallies(log, n + 1, Unbundled!ApplyContent("analytics", content, log[n + 1]), again)
<1> DEFINE r == log[n + 1]
<1>1. r \in Written
  OBVIOUS
<1>2. r.key \in ViewKey /\ r.category \in Category
  BY <1>1 DEF Written, Unbundled!Record
<1>3. \A k : Last(log, n + 1, k) = IF r.key = k THEN r ELSE Last(log, n, k)
  BY LastNext
<1>4. \A c : /\ Tally(log, n, c) \in Nat
             /\ Tally(log, n + 1, c) = IF r.category = c THEN Tally(log, n, c) + 1 ELSE Tally(log, n, c)
  BY TallyNext
<1> HIDE DEF r
<1>5. ASSUME NEW content, Searches(log, n, content) \/ Searches(log, n + 1, content)
      PROVE  Searches(log, n + 1, Unbundled!ApplyContent("search", content, r))
  <2> DEFINE new == Unbundled!ApplyContent("search", content, r)
  <2>1. content \in SearchContent /\ \A t \in Term : content.index[t] = {k \in ViewKey : t \in content.keyTerms[k]}
    BY <1>5 DEF Searches
  <2>2. /\ new \in SearchContent
        /\ new.keyTerms = [content.keyTerms EXCEPT ![r.key] = r.title]
        /\ \A t \in Term : new.index[t] = {k \in ViewKey : t \in new.keyTerms[k]}
    BY <1>1, <2>1, SearchApplied
  <2> HIDE DEF new
  <2>3. content.keyTerms \in [ViewKey -> SUBSET Term]
    BY <2>1 DEF SearchContent
  <2>4. ASSUME NEW k \in ViewKey PROVE new.keyTerms[k] = Last(log, n + 1, k).title
    <3>1. CASE k = r.key
      BY <1>2, <1>3, <2>2, <2>3, <3>1
    <3>2. CASE k # r.key
      <4>1. new.keyTerms[k] = content.keyTerms[k] /\ Last(log, n + 1, k) = Last(log, n, k)
        BY <1>3, <2>2, <2>3, <3>2
      <4> QED
        BY <1>5, <4>1 DEF Searches
    <3> QED
      BY <3>1, <3>2
  <2>5. Searches(log, n + 1, new)
    BY <2>2, <2>4 DEF Searches
  <2> QED
    BY <2>5 DEF new
<1>6. ASSUME NEW content, Caches(log, n, content) \/ Caches(log, n + 1, content)
      PROVE  Caches(log, n + 1, Unbundled!ApplyContent("cache", content, r))
  <2>1. Unbundled!ApplyContent("cache", content, r) = [content EXCEPT ![r.key] = r]
    BY DEF Unbundled!ApplyContent
  <2>2. content \in CacheContent
    BY <1>6 DEF Caches
  <2>3. [content EXCEPT ![r.key] = r] \in CacheContent
    BY <1>1, <2>2 DEF CacheContent
  <2>4. \A k \in ViewKey : [content EXCEPT ![r.key] = r][k] = IF r.key = k THEN r ELSE content[k]
    BY <2>2 DEF CacheContent
  <2>5. \A k \in ViewKey : [content EXCEPT ![r.key] = r][k] = Last(log, n + 1, k)
    BY <1>3, <1>6, <2>4 DEF Caches
  <2> QED
    BY <2>1, <2>3, <2>5 DEF Caches
<1>7. ASSUME NEW content, Tallies(log, n, content, again)
      PROVE  Tallies(log, n + 1, Unbundled!ApplyContent("analytics", content, r), again)
  <2>1. Unbundled!ApplyContent("analytics", content, r) = [content EXCEPT ![r.category] = content[r.category] + 1]
    BY DEF Unbundled!ApplyContent
  <2>2. content \in [Category -> Nat]
    BY <1>7 DEF Tallies, TallyContent
  <2>3. \A c \in Category : [content EXCEPT ![r.category] = content[r.category] + 1][c]
                              = IF r.category = c THEN content[c] + 1 ELSE content[c]
    BY <2>2
  <2>4. [content EXCEPT ![r.category] = content[r.category] + 1] \in TallyContent
    BY <1>2, <2>2 DEF TallyContent
  <2>5. \A c \in Category : [content EXCEPT ![r.category] = content[r.category] + 1][c]
                              = Tally(log, n + 1, c) + again[c]
    <3> SUFFICES ASSUME NEW c \in Category
                 PROVE  [content EXCEPT ![r.category] = content[r.category] + 1][c]
                              = Tally(log, n + 1, c) + again[c]
      OBVIOUS
    <3>1. content[c] = Tally(log, n, c) + again[c] /\ again[c] \in Nat /\ Tally(log, n, c) \in Nat
      BY <1>4, <1>7 DEF Tallies
    <3>2. Tally(log, n + 1, c) = IF r.category = c THEN Tally(log, n, c) + 1 ELSE Tally(log, n, c)
      BY <1>4
    <3> QED
      BY <2>3, <3>1, <3>2
  <2> QED
    BY <2>1, <2>4, <2>5 DEF Tallies
<1> QED
  BY <1>5, <1>6, <1>7 DEF r

(* A record the tally counts again. *)
LEMMA CountedAgain ==
  ASSUME NEW log, NEW n, NEW again \in [Category -> Nat], NEW content, Tallies(log, n, content, again),
         NEW r \in Written, \A c : Tally(log, n, c) \in Nat
  PROVE  LET noted == [again EXCEPT ![r.category] = @ + 1]
         IN noted \in [Category -> Nat]
            /\ Tallies(log, n, Unbundled!ApplyContent("analytics", content, r), noted)
<1> DEFINE noted == [again EXCEPT ![r.category] = @ + 1]
           new == [content EXCEPT ![r.category] = content[r.category] + 1]
<1>1. Unbundled!ApplyContent("analytics", content, r) = new
  BY DEF Unbundled!ApplyContent
<1>2. content \in [Category -> Nat] /\ r.category \in Category
  BY DEF Tallies, TallyContent, Written, Unbundled!Record
<1>3. new \in [Category -> Nat] /\ noted \in [Category -> Nat]
  BY <1>2
<1>4. \A c \in Category : /\ new[c] = IF r.category = c THEN content[c] + 1 ELSE content[c]
                          /\ noted[c] = IF r.category = c THEN again[c] + 1 ELSE again[c]
  BY <1>2
<1>5. \A c \in Category : content[c] = Tally(log, n, c) + again[c] /\ again[c] \in Nat
  BY DEF Tallies
<1>6. \A c \in Category : new[c] = Tally(log, n, c) + noted[c]
  BY <1>4, <1>5
<1> QED
  BY <1>1, <1>3, <1>6 DEF Tallies, TallyContent

-----------------------------------------------------------------------------
(* The state.  A view has read at most the whole of the log.               *)
View(content) == [offset : Nat, paused : BOOLEAN, dedup : BOOLEAN, wipes : Nat, content : content]
DbState == [log : Seq(Written), search : View(SearchContent), cache : View(CacheContent),
            analytics : View(TallyContent)]

Derived(s, again) ==
  /\ s \in DbState
  /\ s.search.offset <= Len(s.log) /\ s.cache.offset <= Len(s.log) /\ s.analytics.offset <= Len(s.log)
  /\ Searches(s.log, s.search.offset, s.search.content)
  /\ Caches(s.log, s.cache.offset, s.cache.content)
  /\ Tallies(s.log, s.analytics.offset, s.analytics.content, again)

ViewsInv ==
  /\ Derived(state, hist.again)
  /\ hist \in [writes : Nat, commands : Nat, again : [Category -> Nat]]

LEMMA ViewsMean == ViewsInv => Unbundled!TypeOK /\ Unbundled!ViewsDerived
<1> SUFFICES ASSUME ViewsInv PROVE Unbundled!TypeOK /\ Unbundled!ViewsDerived
  OBVIOUS
<1> DEFINE log == state.log
           Read(view) == SubSeq(log, 1, state[view].offset)
<1>1. /\ log \in Seq(Written)
      /\ state["search"] = state.search /\ state["cache"] = state.cache /\ state["analytics"] = state.analytics
      /\ state.search.offset \in 0..Len(log)
      /\ state.cache.offset \in 0..Len(log)
      /\ state.analytics.offset \in 0..Len(log)
  BY DEF ViewsInv, Derived, DbState, View
<1>2. Unbundled!TypeOK
  <2>1. \A view \in Unbundled!ViewId : state[view].offset \in 0..Len(log)
    BY <1>1 DEF Unbundled!ViewId
  <2>2. \A i \in DOMAIN log : log[i] \in Written
    BY <1>1
  <2> QED
    BY <2>1, <2>2 DEF Unbundled!TypeOK, Written
<1>3. state.search.content.index = Unbundled!DeriveSearch(Read("search"))
  <2> DEFINE content == state.search.content
             n == state.search.offset
  <2>1. Searches(log, n, content) /\ Read("search") = SubSeq(log, 1, n)
    BY <1>1 DEF ViewsInv, Derived
  <2>2. content.index = [t \in Term |-> content.index[t]]
    BY <2>1 DEF Searches, SearchContent
  <2>3. ASSUME NEW t \in Term
        PROVE  content.index[t] = {k \in ViewKey : /\ Unbundled!Latest(Read("search"), k) # Unbundled!Nothing
                                                   /\ t \in Unbundled!Latest(Read("search"), k).title}
    <3>1. content.index[t] = {k \in ViewKey : t \in Last(log, n, k).title}
      BY <2>1 DEF Searches
    <3>2. \A k : t \in Last(log, n, k).title => Last(log, n, k) # Unbundled!Nothing
      BY DEF Unbundled!Nothing
    <3>3. \A k : Unbundled!Latest(Read("search"), k) = Last(log, n, k)
      BY <2>1 DEF Last
    <3> HIDE DEF Read, content, n
    <3> QED
      BY <3>1, <3>2, <3>3
  <2> HIDE DEF content, Read
  <2>4. content.index = Unbundled!DeriveSearch(Read("search"))
    BY <2>2, <2>3 DEF Unbundled!DeriveSearch
  <2> QED
    BY <2>4 DEF content
<1>4. state.cache.content = [k \in ViewKey |-> Unbundled!Latest(Read("cache"), k)]
  <2>1. Caches(log, state.cache.offset, state.cache.content) /\ Read("cache") = SubSeq(log, 1, state.cache.offset)
    BY <1>1 DEF ViewsInv, Derived
  <2> QED
    BY <2>1 DEF Caches, CacheContent, Last
<1>5. ASSUME NEW c \in Category
      PROVE  state.analytics.content[c] = Unbundled!DeriveAnalytics(Read("analytics"))[c] + hist.again[c]
  <2> DEFINE n == state.analytics.offset
             read == SubSeq(log, 1, n)
  <2>1. Tallies(log, n, state.analytics.content, hist.again) /\ Read("analytics") = read
    BY <1>1 DEF ViewsInv, Derived
  <2>2. {i \in DOMAIN read : read[i].category = c} = {i \in 1..n : log[i].category = c}
    BY <1>1, ReadIs
  <2>3. Unbundled!DeriveAnalytics(read)[c] = Tally(log, n, c)
    <3> HIDE DEF read, n
    <3> DEFINE Count(d) == Cardinality({i \in DOMAIN read : read[i].category = d})
    <3>1. Unbundled!DeriveAnalytics(read)[c] = Count(c)
      <4>0. \A S : Unbundled!Cardinality(S) = Cardinality(S)
        BY DEF Unbundled!Cardinality, Cardinality
      <4>1. Unbundled!DeriveAnalytics(read) = [d \in Category |-> Count(d)]
        BY <4>0 DEF Unbundled!DeriveAnalytics
      <4> HIDE DEF Count
      <4> QED
        BY <4>1
    <3>2. Cardinality({i \in 1..n : log[i].category = c}) = Tally(log, n, c)
      BY DEF Tally
    <3> HIDE DEF log
    <3> QED
      BY <2>2, <3>1, <3>2
  <2>4. state.analytics.content[c] = Tally(log, n, c) + hist.again[c]
    BY <2>1 DEF Tallies
  <2> QED
    BY <2>1, <2>3, <2>4
<1> QED
  BY <1>2, <1>3, <1>4, <1>5 DEF Unbundled!ViewsDerived

(* A state whose views are fine. *)
LEMMA DerivedParts ==
  ASSUME NEW s, NEW again, Derived(s, again)
  PROVE  /\ s = [log |-> s.log, search |-> s.search, cache |-> s.cache, analytics |-> s.analytics]
         /\ s.log \in Seq(Written) /\ Len(s.log) \in Nat
         /\ s.search \in View(SearchContent) /\ s.cache \in View(CacheContent)
         /\ s.analytics \in View(TallyContent)
         /\ s.search.offset \in 0..Len(s.log) /\ s.cache.offset \in 0..Len(s.log)
         /\ s.analytics.offset \in 0..Len(s.log)
  BY DEF Derived, DbState, View

(* One view changes: it must be fine, for its content and the log. *)
LEMMA SearchChanges ==
  ASSUME NEW s, NEW again, Derived(s, again), NEW v \in View(SearchContent),
         v.offset <= Len(s.log), Searches(s.log, v.offset, v.content)
  PROVE  Derived([s EXCEPT !["search"] = v], again) /\ [s EXCEPT !["search"] = v].log = s.log
  BY DEF Derived, DbState

LEMMA CacheChanges ==
  ASSUME NEW s, NEW again, Derived(s, again), NEW v \in View(CacheContent),
         v.offset <= Len(s.log), Caches(s.log, v.offset, v.content)
  PROVE  Derived([s EXCEPT !["cache"] = v], again) /\ [s EXCEPT !["cache"] = v].log = s.log
  BY DEF Derived, DbState

LEMMA TallyChanges ==
  ASSUME NEW s, NEW again, NEW counted, Derived(s, again), NEW v \in View(TallyContent),
         v.offset <= Len(s.log), Tallies(s.log, v.offset, v.content, counted)
  PROVE  Derived([s EXCEPT !["analytics"] = v], counted) /\ [s EXCEPT !["analytics"] = v].log = s.log
  BY DEF Derived, DbState

(* A view with another offset or content. *)
LEMMA ViewMoved ==
  ASSUME NEW C, NEW v \in View(C), NEW content \in C, NEW n \in Nat
  PROVE  [v EXCEPT !.content = content, !.offset = n] \in View(C)
<1> DEFINE u == [v EXCEPT !.content = content]
           w == [u EXCEPT !.offset = n]
<1>1. u \in View(C) /\ u.content = content
  BY DEF View
<1> HIDE DEF u
<1>2. w \in View(C)
  BY <1>1 DEF View
<1> QED
  BY <1>2 DEF u

(* A step of a view. *)
LEMMA AdvancedRight ==
  ASSUME NEW s, NEW again \in [Category -> Nat], Derived(s, again), NEW view \in Unbundled!ViewId
  PROVE  Derived(Unbundled!Advanced(s, view), again) /\ Unbundled!Advanced(s, view).log = s.log
<1> DEFINE v == s[view]
           r == s.log[v.offset + 1]
           next == [v EXCEPT !.content = Unbundled!ApplyContent(view, v.content, r), !.offset = v.offset + 1]
<1>1. CASE v.paused \/ v.offset >= Len(s.log)
  BY <1>1 DEF Unbundled!Advanced
<1>2. CASE ~(v.paused \/ v.offset >= Len(s.log))
  <2>1. Unbundled!Advanced(s, view) = [s EXCEPT ![view] = next]
    BY <1>2 DEF Unbundled!Advanced
  <2>2. s["search"] = s.search /\ s["cache"] = s.cache /\ s["analytics"] = s.analytics
    BY DerivedParts
  <2>3. s.log \in Seq(Written)
    BY DerivedParts
  <2>4. CASE view = "search"
    <3>1. v = s.search /\ v \in View(SearchContent) /\ Searches(s.log, v.offset, v.content)
      BY <2>2, <2>4, DerivedParts DEF Derived
    <3> HIDE DEF v
    <3>2. v.offset \in Nat /\ v.offset < Len(s.log) /\ v.offset + 1 <= Len(s.log)
      BY <1>2, <2>3, <3>1 DEF View
    <3> DEFINE content == Unbundled!ApplyContent("search", v.content, r)
    <3>3. Searches(s.log, v.offset + 1, content)
      BY <2>3, <3>1, <3>2, Applied
    <3> HIDE DEF content, r
    <3>4. content \in SearchContent
      BY <3>3 DEF Searches
    <3> DEFINE w == [v EXCEPT !.content = content, !.offset = v.offset + 1]
    <3>5. w \in View(SearchContent) /\ w.offset = v.offset + 1 /\ w.content = content
      <4>1. v \in View(SearchContent) /\ v.offset + 1 \in Nat
        BY <3>1, <3>2
      <4>2. [v EXCEPT !.content = content, !.offset = v.offset + 1] \in View(SearchContent)
        BY <3>4, <4>1, ViewMoved
      <4>3. [v EXCEPT !.content = content, !.offset = v.offset + 1].offset = v.offset + 1
        BY <4>1 DEF View
      <4>4. [v EXCEPT !.content = content, !.offset = v.offset + 1].content = content
        BY <4>1 DEF View
      <4> QED
        BY <4>2, <4>3, <4>4
    <3>6. next = w
      BY <2>4 DEF content
    <3> HIDE DEF w, next
    <3>7. Derived([s EXCEPT !["search"] = w], again) /\ [s EXCEPT !["search"] = w].log = s.log
      BY <3>2, <3>3, <3>5, SearchChanges
    <3> QED
      BY <2>1, <2>4, <3>6, <3>7
  <2>5. CASE view = "cache"
    <3>1. v = s.cache /\ v \in View(CacheContent) /\ Caches(s.log, v.offset, v.content)
      BY <2>2, <2>5, DerivedParts DEF Derived
    <3> HIDE DEF v
    <3>2. v.offset \in Nat /\ v.offset < Len(s.log) /\ v.offset + 1 <= Len(s.log)
      BY <1>2, <2>3, <3>1 DEF View
    <3> DEFINE content == Unbundled!ApplyContent("cache", v.content, r)
    <3>3. Caches(s.log, v.offset + 1, content)
      BY <2>3, <3>1, <3>2, Applied
    <3> HIDE DEF content, r
    <3>4. content \in CacheContent
      BY <3>3 DEF Caches
    <3> DEFINE w == [v EXCEPT !.content = content, !.offset = v.offset + 1]
    <3>5. w \in View(CacheContent) /\ w.offset = v.offset + 1 /\ w.content = content
      <4>1. v \in View(CacheContent) /\ v.offset + 1 \in Nat
        BY <3>1, <3>2
      <4>2. [v EXCEPT !.content = content, !.offset = v.offset + 1] \in View(CacheContent)
        BY <3>4, <4>1, ViewMoved
      <4>3. [v EXCEPT !.content = content, !.offset = v.offset + 1].offset = v.offset + 1
        BY <4>1 DEF View
      <4>4. [v EXCEPT !.content = content, !.offset = v.offset + 1].content = content
        BY <4>1 DEF View
      <4> QED
        BY <4>2, <4>3, <4>4
    <3>6. next = w
      BY <2>5 DEF content
    <3> HIDE DEF w, next
    <3>7. Derived([s EXCEPT !["cache"] = w], again) /\ [s EXCEPT !["cache"] = w].log = s.log
      BY <3>2, <3>3, <3>5, CacheChanges
    <3> QED
      BY <2>1, <2>5, <3>6, <3>7
  <2>6. CASE view = "analytics"
    <3>1. v = s.analytics /\ v \in View(TallyContent) /\ Tallies(s.log, v.offset, v.content, again)
      BY <2>2, <2>6, DerivedParts DEF Derived
    <3> HIDE DEF v
    <3>2. v.offset \in Nat /\ v.offset < Len(s.log) /\ v.offset + 1 <= Len(s.log)
      BY <1>2, <2>3, <3>1 DEF View
    <3> DEFINE content == Unbundled!ApplyContent("analytics", v.content, r)
    <3>3. Tallies(s.log, v.offset + 1, content, again)
      BY <2>3, <3>1, <3>2, Applied
    <3> HIDE DEF content, r
    <3>4. content \in TallyContent
      BY <3>3 DEF Tallies
    <3> DEFINE w == [v EXCEPT !.content = content, !.offset = v.offset + 1]
    <3>5. w \in View(TallyContent) /\ w.offset = v.offset + 1 /\ w.content = content
      <4>1. v \in View(TallyContent) /\ v.offset + 1 \in Nat
        BY <3>1, <3>2
      <4>2. [v EXCEPT !.content = content, !.offset = v.offset + 1] \in View(TallyContent)
        BY <3>4, <4>1, ViewMoved
      <4>3. [v EXCEPT !.content = content, !.offset = v.offset + 1].offset = v.offset + 1
        BY <4>1 DEF View
      <4>4. [v EXCEPT !.content = content, !.offset = v.offset + 1].content = content
        BY <4>1 DEF View
      <4> QED
        BY <4>2, <4>3, <4>4
    <3>6. next = w
      BY <2>6 DEF content
    <3> HIDE DEF w, next
    <3>7. Derived([s EXCEPT !["analytics"] = w], again) /\ [s EXCEPT !["analytics"] = w].log = s.log
      BY <3>2, <3>3, <3>5, TallyChanges
    <3> QED
      BY <2>1, <2>6, <3>6, <3>7
  <2> QED
    BY <2>4, <2>5, <2>6 DEF Unbundled!ViewId
<1> QED
  BY <1>1, <1>2

(* The views of a state that has just been made, and as they advance. *)
LEMMA EmptyDerived ==
  ASSUME NEW again, again = [c \in Category |-> 0]
  PROVE  Derived(Unbundled!Empty, again) /\ Unbundled!Empty.log = ViewSeed
<1>1. ViewSeed \in Seq(Written) /\ 0 <= Len(ViewSeed)
  BY SeedAssumption DEF Written, Unbundled!Record
<1>2. /\ Searches(ViewSeed, 0, Unbundled!FreshContent("search"))
      /\ Caches(ViewSeed, 0, Unbundled!FreshContent("cache"))
      /\ Tallies(ViewSeed, 0, Unbundled!FreshContent("analytics"), again)
  BY <1>1, FreshRight
<1>3. /\ Unbundled!Fresh("search") \in View(SearchContent)
      /\ Unbundled!Fresh("cache") \in View(CacheContent)
      /\ Unbundled!Fresh("analytics") \in View(TallyContent)
      /\ \A view : Unbundled!Fresh(view).offset = 0 /\ Unbundled!Fresh(view).content = Unbundled!FreshContent(view)
  BY <1>2 DEF Unbundled!Fresh, View, Searches, Caches, Tallies
<1> QED
  BY <1>1, <1>2, <1>3 DEF Unbundled!Empty, Derived, DbState

LEMMA CaughtUpRight ==
  ASSUME NEW again, again = [c \in Category |-> 0], NEW view \in Unbundled!ViewId
  PROVE  \E s : /\ Derived(s, again) /\ s.log = ViewSeed
                /\ Unbundled!CaughtUp(view) = s[view]
<1> DEFINE S == {s \in DbState : Derived(s, again) /\ s.log = ViewSeed}
           F == [s \in S |-> Unbundled!Advanced(s, view)]
<1>0. again \in [Category -> Nat]
  OBVIOUS
<1>1. F \in [S -> S]
  <2>1. \A s \in S : Unbundled!Advanced(s, view) \in S
    BY <1>0, AdvancedRight DEF Derived
  <2> QED
    BY <2>1
<1>2. \A s \in S : F[s] = Unbundled!Advanced(s, view)
  OBVIOUS
<1>3. Unbundled!Empty \in S
  BY EmptyDerived DEF Derived
<1>4. Len(ViewSeed) \in Nat
  BY SeedAssumption
<1> HIDE DEF F, S
<1>5. PICK f \in [Nat -> S] : f[0] = Unbundled!Empty /\ \A k \in Nat : f[k + 1] = F[f[k]]
  <2> DEFINE start == Unbundled!Empty
  <2>1. start \in S
    BY <1>3
  <2> HIDE DEF start
  <2>2. \E f \in [Nat -> S] : f[0] = start /\ \A k \in Nat : f[k + 1] = F[f[k]]
    BY <1>1, <2>1, DefinedOnward
  <2> QED
    BY <2>2 DEF start
<1> DEFINE Is(g) == g = [k \in Nat |-> IF k = 0 THEN Unbundled!Empty ELSE Unbundled!Advanced(g[k - 1], view)]
           run == Unbundled!Advances(view)
<1>6. Is(f)
  <2>1. \A k \in Nat : f[k] = IF k = 0 THEN Unbundled!Empty ELSE Unbundled!Advanced(f[k - 1], view)
    <3> SUFFICES ASSUME NEW k \in Nat, k # 0 PROVE f[k] = Unbundled!Advanced(f[k - 1], view)
      BY <1>5
    <3>1. k - 1 \in Nat /\ (k - 1) + 1 = k
      OBVIOUS
    <3>2. f[(k - 1) + 1] = F[f[k - 1]]
      BY <1>5, <3>1
    <3> QED
      BY <1>2, <3>1, <3>2
  <2>2. f = [k \in Nat |-> f[k]]
    OBVIOUS
  <2> QED
    BY <2>1, <2>2
<1>7. Is(run)
  <2>1. run = CHOOSE g : Is(g)
    BY DEF Unbundled!Advances
  <2> HIDE DEF Is, run
  <2> QED
    BY <1>6, <2>1
<1>8. run[0] = Unbundled!Empty /\ \A k \in Nat : run[k + 1] = Unbundled!Advanced(run[k], view)
  <2> HIDE DEF run
  <2> QED
    BY <1>7
<1> HIDE DEF run, Is
<1>9. run[Len(ViewSeed)] \in S
  <2> DEFINE T == {k \in Nat : run[k] \in S}
  <2>1. 0 \in T
    BY <1>3, <1>8
  <2>2. \A k \in T : k + 1 \in T
    <3> SUFFICES ASSUME NEW k \in Nat, run[k] \in S PROVE run[k + 1] \in S
      OBVIOUS
    <3>1. F[run[k]] \in S
      BY <1>1
    <3> QED
      BY <1>2, <1>8, <3>1
  <2>3. T \in SUBSET Nat
    OBVIOUS
  <2> HIDE DEF T
  <2>4. T = Nat
    BY <2>1, <2>2, <2>3, AllNaturals
  <2> QED
    BY <1>4, <2>4 DEF T
<1> QED
  BY <1>9 DEF S, run, Unbundled!CaughtUp

LEMMA ViewsInit == Unbundled!Init => ViewsInv
<1> SUFFICES ASSUME Unbundled!Init PROVE ViewsInv
  OBVIOUS
<1> DEFINE again == [c \in Category |-> 0]
<1>1. /\ state = [log |-> ViewSeed, search |-> Unbundled!CaughtUp("search"),
                  cache |-> Unbundled!CaughtUp("cache"), analytics |-> Unbundled!CaughtUp("analytics")]
      /\ hist = [writes |-> 0, commands |-> 0, again |-> again]
  BY DEF Unbundled!Init
<1>2. again \in [Category -> Nat]
  OBVIOUS
<1> HIDE DEF again
<1>3. \A view \in Unbundled!ViewId : \E s : Derived(s, again) /\ s.log = ViewSeed /\ Unbundled!CaughtUp(view) = s[view]
  BY CaughtUpRight DEF again
<1>4. PICK s : Derived(s, again) /\ s.log = ViewSeed /\ Unbundled!CaughtUp("search") = s["search"]
  BY <1>3 DEF Unbundled!ViewId
<1>5. PICK c : Derived(c, again) /\ c.log = ViewSeed /\ Unbundled!CaughtUp("cache") = c["cache"]
  BY <1>3 DEF Unbundled!ViewId
<1>6. PICK a : Derived(a, again) /\ a.log = ViewSeed /\ Unbundled!CaughtUp("analytics") = a["analytics"]
  BY <1>3 DEF Unbundled!ViewId
<1>7. state.log = ViewSeed /\ state.search = s.search /\ state.cache = c.cache /\ state.analytics = a.analytics
  <2>1. s["search"] = s.search /\ c["cache"] = c.cache /\ a["analytics"] = a.analytics
    BY <1>4, <1>5, <1>6, DerivedParts
  <2> QED
    BY <1>1, <1>4, <1>5, <1>6, <2>1
<1>8. state \in DbState
  BY <1>1, <1>4, <1>5, <1>6, <1>7 DEF Derived, DbState
<1>9. Derived(state, again)
  BY <1>4, <1>5, <1>6, <1>7, <1>8 DEF Derived
<1> QED
  BY <1>1, <1>2, <1>9 DEF ViewsInv

(* A flag, a wipe and a retry of a view. *)
Flagged(v) == {[v EXCEPT !.paused = TRUE], [v EXCEPT !.paused = FALSE], [v EXCEPT !.dedup = ~v.dedup]}

LEMMA FlaggedSame ==
  ASSUME NEW C, NEW v \in View(C), NEW w \in Flagged(v)
  PROVE  w \in View(C) /\ w.offset = v.offset /\ w.content = v.content
<1>1. w = [v EXCEPT !.paused = TRUE] \/ w = [v EXCEPT !.paused = FALSE] \/ w = [v EXCEPT !.dedup = ~v.dedup]
  BY DEF Flagged
<1>2. CASE w = [v EXCEPT !.paused = TRUE]
  BY <1>2 DEF View
<1>3. CASE w = [v EXCEPT !.paused = FALSE]
  BY <1>3 DEF View
<1>4. CASE w = [v EXCEPT !.dedup = ~v.dedup]
  <2>1. (~v.dedup) \in BOOLEAN
    OBVIOUS
  <2> QED
    BY <1>4, <2>1 DEF View
<1> QED
  BY <1>1, <1>2, <1>3, <1>4

LEMMA FlagsKeep ==
  ASSUME NEW s, NEW again, Derived(s, again), NEW view \in Unbundled!ViewId, NEW w \in Flagged(s[view])
  PROVE  Derived([s EXCEPT ![view] = w], again)
<1>1. s["search"] = s.search /\ s["cache"] = s.cache /\ s["analytics"] = s.analytics
  BY DerivedParts
<1>2. CASE view = "search"
  <2>1. w \in View(SearchContent) /\ w.offset = s.search.offset /\ w.content = s.search.content
    BY <1>1, <1>2, DerivedParts, FlaggedSame
  <2> QED
    BY <1>2, <2>1, SearchChanges DEF Derived
<1>3. CASE view = "cache"
  <2>1. w \in View(CacheContent) /\ w.offset = s.cache.offset /\ w.content = s.cache.content
    BY <1>1, <1>3, DerivedParts, FlaggedSame
  <2> QED
    BY <1>3, <2>1, CacheChanges DEF Derived
<1>4. CASE view = "analytics"
  <2>1. w \in View(TallyContent) /\ w.offset = s.analytics.offset /\ w.content = s.analytics.content
    BY <1>1, <1>4, DerivedParts, FlaggedSame
  <2> QED
    BY <1>4, <2>1, TallyChanges DEF Derived
<1> QED
  BY <1>2, <1>3, <1>4 DEF Unbundled!ViewId

LEMMA WipedSame ==
  ASSUME NEW C, NEW v \in View(C), NEW view, Unbundled!FreshContent(view) \in C
  PROVE  LET w == Unbundled!Wiped(v, view)
         IN w \in View(C) /\ w.offset = 0 /\ w.content = Unbundled!FreshContent(view)
<1> DEFINE fresh == Unbundled!Fresh(view)
           marked == [fresh EXCEPT !.dedup = v.dedup]
           w == [fresh EXCEPT !.dedup = v.dedup, !.wipes = v.wipes + 1]
<1>1. fresh \in View(C) /\ fresh.offset = 0 /\ fresh.content = Unbundled!FreshContent(view)
  BY DEF Unbundled!Fresh, View
<1>2. Unbundled!Wiped(v, view) = w
  BY DEF Unbundled!Wiped
<1>3. v.dedup \in BOOLEAN /\ v.wipes + 1 \in Nat
  BY DEF View
<1> HIDE DEF fresh
<1>4. marked \in View(C) /\ marked.offset = 0 /\ marked.content = Unbundled!FreshContent(view)
  BY <1>1, <1>3 DEF View
<1>5. w \in View(C)
  <2> HIDE DEF marked
  <2>1. [marked EXCEPT !.wipes = v.wipes + 1] \in View(C)
    BY <1>3, <1>4 DEF View
  <2> QED
    BY <2>1 DEF marked
<1>6. w.offset = 0 /\ w.content = Unbundled!FreshContent(view)
  BY <1>1 DEF View
<1> HIDE DEF w
<1> QED
  BY <1>2, <1>5, <1>6

LEMMA WipeKeeps ==
  ASSUME NEW s, NEW again, Derived(s, again), NEW view \in Unbundled!ViewId
  PROVE  Derived([s EXCEPT ![view] = Unbundled!Wiped(s[view], view)],
                 IF view = "analytics" THEN [c \in Category |-> 0] ELSE again)
<1> DEFINE w == Unbundled!Wiped(s[view], view)
           none == [c \in Category |-> 0]
<1>1. s["search"] = s.search /\ s["cache"] = s.cache /\ s["analytics"] = s.analytics
         /\ s.log \in Seq(Written) /\ 0 <= Len(s.log)
  BY DerivedParts
<1>2. /\ Searches(s.log, 0, Unbundled!FreshContent("search"))
      /\ Caches(s.log, 0, Unbundled!FreshContent("cache"))
      /\ Tallies(s.log, 0, Unbundled!FreshContent("analytics"), none)
  BY <1>1, FreshRight
<1> HIDE DEF none
<1>3. CASE view = "search"
  <2>1. s[view] \in View(SearchContent) /\ Unbundled!FreshContent(view) \in SearchContent
    BY <1>1, <1>2, <1>3, DerivedParts DEF Searches
  <2>2. w \in View(SearchContent) /\ w.offset = 0 /\ w.content = Unbundled!FreshContent("search")
    BY <1>3, <2>1, WipedSame
  <2> HIDE DEF w
  <2>3. Derived([s EXCEPT !["search"] = w], again)
    BY <1>1, <1>2, <2>2, SearchChanges
  <2> QED
    BY <1>3, <2>3 DEF w
<1>4. CASE view = "cache"
  <2>1. s[view] \in View(CacheContent) /\ Unbundled!FreshContent(view) \in CacheContent
    BY <1>1, <1>2, <1>4, DerivedParts DEF Caches
  <2>2. w \in View(CacheContent) /\ w.offset = 0 /\ w.content = Unbundled!FreshContent("cache")
    BY <1>4, <2>1, WipedSame
  <2> HIDE DEF w
  <2>3. Derived([s EXCEPT !["cache"] = w], again)
    BY <1>1, <1>2, <2>2, CacheChanges
  <2> QED
    BY <1>4, <2>3 DEF w
<1>5. CASE view = "analytics"
  <2>1. s[view] \in View(TallyContent) /\ Unbundled!FreshContent(view) \in TallyContent
    BY <1>1, <1>2, <1>5, DerivedParts DEF Tallies
  <2>2. w \in View(TallyContent) /\ w.offset = 0 /\ w.content = Unbundled!FreshContent("analytics")
    BY <1>5, <2>1, WipedSame
  <2> HIDE DEF w
  <2>3. Derived([s EXCEPT !["analytics"] = w], none)
    BY <1>1, <1>2, <2>2, TallyChanges
  <2> QED
    BY <1>5, <2>3 DEF w, none
<1> QED
  BY <1>3, <1>4, <1>5 DEF Unbundled!ViewId

LEMMA ViewFilled ==
  ASSUME NEW C, NEW v \in View(C), NEW content \in C
  PROVE  LET w == [v EXCEPT !.content = content]
         IN w \in View(C) /\ w.offset = v.offset /\ w.content = content
BY DEF View

LEMMA RetryKeeps ==
  ASSUME NEW s, NEW again \in [Category -> Nat], Derived(s, again), NEW view \in Unbundled!ViewId,
         s[view].offset # 0
  PROVE  LET r == s.log[s[view].offset]
             noted == [again EXCEPT ![r.category] = @ + 1]
         IN /\ Derived([s EXCEPT ![view].content = Unbundled!ApplyContent(view, @, r)],
                       IF view = "analytics" THEN noted ELSE again)
            /\ noted \in [Category -> Nat]
<1> DEFINE v == s[view]
           n == v.offset - 1
           r == s.log[v.offset]
           content == Unbundled!ApplyContent(view, v.content, r)
           w == [v EXCEPT !.content = content]
           noted == [again EXCEPT ![r.category] = @ + 1]
<1>1. s["search"] = s.search /\ s["cache"] = s.cache /\ s["analytics"] = s.analytics
         /\ s.log \in Seq(Written)
  BY DerivedParts
<1>2. v.offset \in 0..Len(s.log)
  BY <1>1, DerivedParts DEF Unbundled!ViewId
<1>3. n \in Nat /\ n < Len(s.log) /\ n + 1 = v.offset /\ r = s.log[n + 1] /\ v.offset <= Len(s.log)
  BY <1>1, <1>2
<1>4. r \in Written
  BY <1>1, <1>2
<1>5. [s EXCEPT ![view].content = Unbundled!ApplyContent(view, @, r)] = [s EXCEPT ![view] = w]
  OBVIOUS
<1>6. noted \in [Category -> Nat]
  <2>1. r.category \in Category
    BY <1>4 DEF Written, Unbundled!Record
  <2> QED
    BY <2>1
<1>7. CASE view = "search"
  <2>1. v = s.search /\ v \in View(SearchContent) /\ Searches(s.log, v.offset, v.content)
    BY <1>1, <1>7, DerivedParts DEF Derived
  <2>2. content = Unbundled!ApplyContent("search", v.content, r)
    BY <1>7
  <2> HIDE DEF v, r, content
  <2>3. Searches(s.log, v.offset, content)
    BY <1>1, <1>3, <2>1, <2>2, Applied
  <2>4. w \in View(SearchContent) /\ w.offset = v.offset /\ w.content = content
    BY <2>1, <2>3, ViewFilled DEF Searches
  <2> HIDE DEF w
  <2>5. Derived([s EXCEPT !["search"] = w], again)
    BY <1>3, <2>3, <2>4, SearchChanges
  <2> QED
    BY <1>5, <1>6, <1>7, <2>5 DEF r, v
<1>8. CASE view = "cache"
  <2>1. v = s.cache /\ v \in View(CacheContent) /\ Caches(s.log, v.offset, v.content)
    BY <1>1, <1>8, DerivedParts DEF Derived
  <2>2. content = Unbundled!ApplyContent("cache", v.content, r)
    BY <1>8
  <2> HIDE DEF v, r, content
  <2>3. Caches(s.log, v.offset, content)
    BY <1>1, <1>3, <2>1, <2>2, Applied
  <2>4. w \in View(CacheContent) /\ w.offset = v.offset /\ w.content = content
    BY <2>1, <2>3, ViewFilled DEF Caches
  <2> HIDE DEF w
  <2>5. Derived([s EXCEPT !["cache"] = w], again)
    BY <1>3, <2>3, <2>4, CacheChanges
  <2> QED
    BY <1>5, <1>6, <1>8, <2>5 DEF r, v
<1>9. CASE view = "analytics"
  <2>1. v = s.analytics /\ v \in View(TallyContent) /\ Tallies(s.log, v.offset, v.content, again)
    BY <1>1, <1>9, DerivedParts DEF Derived
  <2>2. content = Unbundled!ApplyContent("analytics", v.content, r)
    BY <1>9
  <2> HIDE DEF v, content, r
  <2>3. \A c : Tally(s.log, v.offset, c) \in Nat
    <3>1. \A c : Tally(s.log, n, c) \in Nat
                   /\ Tally(s.log, n + 1, c) = IF s.log[n + 1].category = c THEN Tally(s.log, n, c) + 1
                                               ELSE Tally(s.log, n, c)
      BY <1>1, <1>3, TallyNext
    <3>2. \A c : Tally(s.log, n + 1, c) \in Nat
      BY <3>1
    <3> QED
      BY <1>3, <3>2
  <2>4. Tallies(s.log, v.offset, content, noted)
    BY <1>4, <2>1, <2>2, <2>3, CountedAgain
  <2>5. w \in View(TallyContent) /\ w.offset = v.offset /\ w.content = content
    BY <2>1, <2>4, ViewFilled DEF Tallies
  <2> HIDE DEF w, noted
  <2>6. Derived([s EXCEPT !["analytics"] = w], noted)
    BY <1>3, <2>4, <2>5, TallyChanges
  <2> QED
    BY <1>5, <1>6, <1>9, <2>6 DEF r, v, noted
<1> QED
  BY <1>7, <1>8, <1>9 DEF Unbundled!ViewId

(* The log grows. *)
LEMMA LogGrows ==
  ASSUME NEW s, NEW again, Derived(s, again), NEW r \in Written
  PROVE  Derived([s EXCEPT !.log = Append(@, r)], again)
<1> DEFINE log == Append(s.log, r)
<1>1. log \in Seq(Written) /\ Len(log) = Len(s.log) + 1 /\ Len(s.log) \in Nat
  BY DerivedParts
<1>2. \A n \in 0..Len(s.log) : (\A k : Last(log, n, k) = Last(s.log, n, k))
                                 /\ \A c : Tally(log, n, c) = Tally(s.log, n, c)
  BY DerivedParts, ReadGrown
<1> HIDE DEF log
<1>3. [s EXCEPT !.log = log] = [log |-> log, search |-> s.search, cache |-> s.cache, analytics |-> s.analytics]
  BY DerivedParts
<1>4. /\ Searches(log, s.search.offset, s.search.content)
      /\ Caches(log, s.cache.offset, s.cache.content)
      /\ Tallies(log, s.analytics.offset, s.analytics.content, again)
  <2>1. Searches(log, s.search.offset, s.search.content)
    BY <1>2, DerivedParts DEF Derived, Searches
  <2>2. Caches(log, s.cache.offset, s.cache.content)
    BY <1>2, DerivedParts DEF Derived, Caches
  <2>3. Tallies(log, s.analytics.offset, s.analytics.content, again)
    BY <1>2, DerivedParts DEF Derived, Tallies
  <2> QED
    BY <2>1, <2>2, <2>3
<1>5. [s EXCEPT !.log = log] \in DbState
  BY <1>1, <1>3, DerivedParts DEF DbState
<1>6. s.search.offset <= Len(log) /\ s.cache.offset <= Len(log) /\ s.analytics.offset <= Len(log)
  BY <1>1, DerivedParts
<1>7. Derived([s EXCEPT !.log = log], again)
  BY <1>3, <1>4, <1>5, <1>6 DEF Derived
<1> QED
  BY <1>7 DEF log

LEMMA Counting ==
  ASSUME hist \in [writes : Nat, commands : Nat, again : [Category -> Nat]],
         NEW again \in [Category -> Nat],
         Unbundled!Command([hist EXCEPT !.again = again])
  PROVE  hist'.again = again /\ hist' \in [writes : Nat, commands : Nat, again : [Category -> Nat]]
<1> DEFINE h == [hist EXCEPT !.again = again]
<1>1. h \in [writes : Nat, commands : Nat, again : [Category -> Nat]] /\ h.again = again
  OBVIOUS
<1>2. hist' = [h EXCEPT !.commands = @ + 1]
  BY DEF Unbundled!Command
<1> HIDE DEF h
<1> QED
  BY <1>1, <1>2

LEMMA CountingSame ==
  ASSUME hist \in [writes : Nat, commands : Nat, again : [Category -> Nat]], Unbundled!Command(hist)
  PROVE  hist'.again = hist.again /\ hist' \in [writes : Nat, commands : Nat, again : [Category -> Nat]]
BY DEF Unbundled!Command

LEMMA ViewsNext ==
  ASSUME ViewsInv, [Unbundled!Next]_Unbundled!vars
  PROVE  ViewsInv'
<1> DEFINE again == hist.again
           Counts == [writes : Nat, commands : Nat, again : [Category -> Nat]]
<1>1. Derived(state, again) /\ hist \in Counts /\ again \in [Category -> Nat]
  BY DEF ViewsInv
<1> SUFFICES Derived(state', hist.again') /\ hist' \in Counts
  BY DEF ViewsInv
<1>2. ASSUME Unbundled!Write PROVE Derived(state', hist.again') /\ hist' \in Counts
  <2>1. PICK r \in Written : /\ state' = [state EXCEPT !.log = Append(@, r)]
                             /\ hist' = [hist EXCEPT !.writes = @ + 1]
    BY <1>2 DEF Unbundled!Write, Written
  <2>2. hist.again' = again /\ hist' \in Counts
    BY <1>1, <2>1
  <2> HIDE DEF again, Counts
  <2> QED
    BY <1>1, <2>1, <2>2, LogGrows
<1>3. ASSUME NEW view \in Unbundled!ViewId, Unbundled!Advance(view)
      PROVE  Derived(state', hist.again') /\ hist' \in Counts
  <2>1. state' = Unbundled!Advanced(state, view) /\ hist' = hist
    BY <1>3 DEF Unbundled!Advance
  <2> HIDE DEF Counts
  <2> QED
    BY <1>1, <2>1, AdvancedRight
<1>4. ASSUME NEW view \in Unbundled!ViewId,
             Unbundled!Pause(view) \/ Unbundled!Resume(view) \/ Unbundled!ToggleDedup(view)
      PROVE  Derived(state', hist.again') /\ hist' \in Counts
  <2>1. hist.again' = again /\ hist' \in Counts
    BY <1>1, <1>4, CountingSame DEF Unbundled!Pause, Unbundled!Resume, Unbundled!ToggleDedup
  <2>2. PICK w \in Flagged(state[view]) : state' = [state EXCEPT ![view] = w]
    BY <1>4 DEF Flagged, Unbundled!Pause, Unbundled!Resume, Unbundled!ToggleDedup
  <2> HIDE DEF again, Counts
  <2> QED
    BY <1>1, <2>1, <2>2, FlagsKeep
<1>5. ASSUME NEW view \in Unbundled!ViewId, Unbundled!Wipe(view)
      PROVE  Derived(state', hist.again') /\ hist' \in Counts
  <2> DEFINE none == [c \in Category |-> 0]
  <2>1. none \in [Category -> Nat]
    OBVIOUS
  <2>2. state' = [state EXCEPT ![view] = Unbundled!Wiped(state[view], view)]
    BY <1>5 DEF Unbundled!Wipe
  <2>3. hist.again' = (IF view = "analytics" THEN none ELSE again) /\ hist' \in Counts
    <3>1. CASE view = "analytics"
      <4>1. Unbundled!Command([hist EXCEPT !.again = none])
        BY <1>5, <3>1 DEF Unbundled!Wipe
      <4> HIDE DEF none
      <4> QED
        BY <1>1, <2>1, <3>1, <4>1, Counting
    <3>2. CASE view # "analytics"
      <4>1. Unbundled!Command(hist)
        BY <1>5, <3>2 DEF Unbundled!Wipe
      <4> QED
        BY <1>1, <3>2, <4>1, CountingSame
    <3> QED
      BY <3>1, <3>2
  <2> HIDE DEF again, Counts
  <2>4. Derived([state EXCEPT ![view] = Unbundled!Wiped(state[view], view)],
                IF view = "analytics" THEN none ELSE again)
    BY <1>1, WipeKeeps
  <2> QED
    BY <2>2, <2>3, <2>4
<1>6. ASSUME NEW view \in Unbundled!ViewId, Unbundled!Redeliver(view)
      PROVE  Derived(state', hist.again') /\ hist' \in Counts
  <2> DEFINE v == state[view]
             r == state.log[v.offset]
             noted == [again EXCEPT ![r.category] = @ + 1]
             skip == v.offset = 0 \/ v.dedup
  <2>1. /\ state' = IF skip THEN state ELSE [state EXCEPT ![view].content = Unbundled!ApplyContent(view, @, r)]
        /\ Unbundled!Command(IF skip \/ view # "analytics" THEN hist ELSE [hist EXCEPT !.again[r.category] = @ + 1])
    BY <1>6 DEF Unbundled!Redeliver
  <2>2. CASE skip
    <3>1. Unbundled!Command(hist) /\ state' = state
      BY <2>1, <2>2
    <3>2. hist.again' = again /\ hist' \in Counts
      BY <1>1, <3>1, CountingSame
    <3> QED
      BY <1>1, <3>1, <3>2
  <2>3. CASE ~skip
    <3>1. state' = [state EXCEPT ![view].content = Unbundled!ApplyContent(view, @, r)] /\ v.offset # 0
      BY <2>1, <2>3
    <3>2. /\ Derived([state EXCEPT ![view].content = Unbundled!ApplyContent(view, @, r)],
                     IF view = "analytics" THEN noted ELSE again)
          /\ noted \in [Category -> Nat]
      <4> HIDE DEF again
      <4> QED
        BY <1>1, <3>1, RetryKeeps
    <3>3. hist.again' = (IF view = "analytics" THEN noted ELSE again) /\ hist' \in Counts
      <4>1. CASE view = "analytics"
        <5>1. Unbundled!Command([hist EXCEPT !.again[r.category] = @ + 1])
          BY <2>1, <2>3, <4>1
        <5>2. [hist EXCEPT !.again[r.category] = @ + 1] = [hist EXCEPT !.again = noted]
          OBVIOUS
        <5> HIDE DEF noted
        <5> QED
          BY <1>1, <3>2, <4>1, <5>1, <5>2, Counting
      <4>2. CASE view # "analytics"
        <5>1. Unbundled!Command(hist)
          BY <2>1, <4>2
        <5> QED
          BY <1>1, <4>2, <5>1, CountingSame
      <4> QED
        BY <4>1, <4>2
    <3> HIDE DEF noted, Counts, again
    <3> QED
      BY <3>1, <3>2, <3>3
  <2> QED
    BY <2>2, <2>3
<1>7. CASE UNCHANGED Unbundled!vars
  BY <1>1, <1>7 DEF Unbundled!vars
<1> QED
  BY <1>2, <1>3, <1>4, <1>5, <1>6, <1>7 DEF Unbundled!Next

(* Each view is what the log up to its offset says, for any writes, any    *)
(* seed and any mix of pauses, toggles, wipes and retries, which leave a   *)
(* trace in the tally alone: the records it counted again                  *)
(* (unbundled.ts:78-136).                                                  *)
THEOREM ViewsCorrect == LabSpec => []ViewsDerived
<1> DEFINE Inv == lab = "unbundled" => ViewsInv
<1>1. LabInit => Inv
  BY ViewsInit DEF LabInit
<1>2. Inv /\ [LabNext]_<<lab, state, net, hist>> => Inv'
  <2> SUFFICES ASSUME Inv, [LabNext]_<<lab, state, net, hist>>, lab' = "unbundled"
               PROVE  ViewsInv'
    OBVIOUS
  <2>1. lab = "unbundled" /\ [Unbundled!Next]_Unbundled!vars
    BY DEF LabNext, Unbundled!vars
  <2> QED
    BY <2>1, ViewsNext
<1>3. Inv => ViewsDerived
  BY ViewsMean DEF ViewsDerived
<1> QED
  BY <1>1, <1>2, <1>3, PTL DEF LabSpec

-----------------------------------------------------------------------------
(* Entries over entries: of the entries of a key in a sequence of sorted   *)
(* arrays, that in the last counts.                                        *)
Entries == UNION {[keys -> Nat] : keys \in SUBSET RunKey}
Holding(q, k) == {i \in DOMAIN q : k \in DOMAIN q[i]}
Laid(q) == [k \in UNION {DOMAIN q[i] : i \in DOMAIN q} |-> q[Lsm!Newest(Holding(q, k))][k]]
Upsert(e, f) == Lsm!Upsert(e, f)

LEMMA EntriesAre ==
  /\ \A e \in Entries : DOMAIN e \subseteq RunKey /\ \A k \in DOMAIN e : e[k] \in Nat
  /\ \A e \in Entries : e = [k \in DOMAIN e |-> e[k]]
  /\ \A keys \in SUBSET RunKey : \A f \in [keys -> Nat] : f \in Entries
BY DEF Entries

LEMMA SameEntries ==
  ASSUME NEW e \in Entries, NEW f \in Entries, DOMAIN e = DOMAIN f, \A k \in DOMAIN e : e[k] = f[k]
  PROVE  e = f
BY EntriesAre

LEMMA UpsertIs ==
  ASSUME NEW e \in Entries, NEW f \in Entries
  PROVE  /\ Upsert(e, f) \in Entries
         /\ DOMAIN Upsert(e, f) = DOMAIN e \cup DOMAIN f
         /\ \A k \in DOMAIN f : Upsert(e, f)[k] = f[k]
         /\ \A k \in DOMAIN e \ DOMAIN f : Upsert(e, f)[k] = e[k]
<1> DEFINE u == [k \in DOMAIN e \cup DOMAIN f |-> IF k \in DOMAIN f THEN f[k] ELSE e[k]]
<1>1. Upsert(e, f) = u
  BY DEF Upsert, Lsm!Upsert
<1>2. DOMAIN e \cup DOMAIN f \in SUBSET RunKey
  BY EntriesAre
<1>3. u \in [DOMAIN e \cup DOMAIN f -> Nat]
  BY EntriesAre
<1>4. u \in Entries
  BY <1>2, <1>3, EntriesAre
<1> QED
  BY <1>1, <1>4

(* Newest is what it says. *)
LEMMA NewestIs ==
  ASSUME NEW places \in SUBSET Nat, NEW i \in places, \A j \in places : j <= i
  PROVE  Lsm!Newest(places) = i
<1>1. \A m \in places : (\A j \in places : j <= m) => m = i
  OBVIOUS
<1> QED
  BY <1>1 DEF Lsm!Newest

LEMMA NewestExists ==
  ASSUME NEW q, NEW n \in Nat, DOMAIN q = 1..n, NEW k, Holding(q, k) # {}
  PROVE  \E i \in Holding(q, k) : \A j \in Holding(q, k) : j <= i
<1>1. Holding(q, k) \in SUBSET Nat /\ \A j \in Holding(q, k) : j <= n
  BY DEF Holding
<1> QED
  BY <1>1, GreatestExists

LEMMA LaidAt ==
  ASSUME NEW q, NEW n \in Nat, DOMAIN q = 1..n, NEW k, NEW i \in Holding(q, k),
         \A j \in Holding(q, k) : j <= i
  PROVE  k \in DOMAIN Laid(q) /\ Laid(q)[k] = q[i][k]
<1>1. Holding(q, k) \in SUBSET Nat
  BY DEF Holding
<1>2. Lsm!Newest(Holding(q, k)) = i
  BY <1>1, NewestIs
<1>3. k \in UNION {DOMAIN q[j] : j \in DOMAIN q}
  BY DEF Holding
<1> QED
  BY <1>2, <1>3 DEF Laid

LEMMA LaidDomain ==
  ASSUME NEW q, NEW k
  PROVE  k \in DOMAIN Laid(q) <=> Holding(q, k) # {}
BY DEF Laid, Holding

LEMMA LaidEntries ==
  ASSUME NEW q \in Seq(Entries)
  PROVE  Laid(q) \in Entries
<1>1. Len(q) \in Nat /\ DOMAIN q = 1..Len(q) /\ \A i \in DOMAIN q : q[i] \in Entries
  OBVIOUS
<1> DEFINE keys == UNION {DOMAIN q[i] : i \in DOMAIN q}
<1>2. keys \in SUBSET RunKey
  BY <1>1, EntriesAre
<1>3. DOMAIN Laid(q) = keys /\ Laid(q) = [k \in keys |-> Laid(q)[k]]
  BY DEF Laid
<1>4. ASSUME NEW k \in keys PROVE Laid(q)[k] \in Nat
  <2>1. Holding(q, k) # {}
    BY DEF Holding
  <2>2. PICK i \in Holding(q, k) : \A j \in Holding(q, k) : j <= i
    BY <1>1, <2>1, NewestExists
  <2>3. Laid(q)[k] = q[i][k]
    BY <1>1, <2>2, LaidAt
  <2>4. i \in DOMAIN q /\ k \in DOMAIN q[i]
    BY DEF Holding
  <2> QED
    BY <1>1, <2>3, <2>4, EntriesAre
<1>5. Laid(q) \in [keys -> Nat]
  <2> HIDE DEF keys
  <2> QED
    BY <1>3, <1>4
<1> QED
  BY <1>2, <1>5, EntriesAre

LEMMA LaidNone ==
  ASSUME NEW q, DOMAIN q = {}
  PROVE  DOMAIN Laid(q) = {}
BY DEF Laid

LEMMA LaidAppended ==
  ASSUME NEW q \in Seq(Entries), NEW e \in Entries
  PROVE  Laid(Append(q, e)) = Upsert(Laid(q), e)
<1> DEFINE p == Append(q, e)
           n == Len(q)
<1>1. n \in Nat /\ DOMAIN q = 1..n /\ p \in Seq(Entries) /\ Len(p) = n + 1 /\ DOMAIN p = 1..(n + 1)
         /\ p[n + 1] = e /\ \A i \in 1..n : p[i] = q[i]
  OBVIOUS
<1>2. Laid(q) \in Entries /\ Laid(p) \in Entries
  BY <1>1, LaidEntries
<1> HIDE DEF p, n
<1>3. ASSUME NEW k \in DOMAIN e PROVE k \in DOMAIN Laid(p) /\ Laid(p)[k] = e[k]
  <2>1. n + 1 \in Holding(p, k) /\ \A j \in Holding(p, k) : j <= n + 1
    BY <1>1 DEF Holding
  <2> QED
    BY <1>1, <2>1, LaidAt
<1>4. ASSUME NEW k, k \notin DOMAIN e
      PROVE  /\ k \in DOMAIN Laid(p) <=> k \in DOMAIN Laid(q)
             /\ k \in DOMAIN Laid(q) => Laid(p)[k] = Laid(q)[k]
  <2>1. Holding(p, k) = Holding(q, k)
    BY <1>1, <1>4 DEF Holding
  <2>2. ASSUME k \in DOMAIN Laid(q) PROVE Laid(p)[k] = Laid(q)[k]
    <3>1. PICK i \in Holding(q, k) : \A j \in Holding(q, k) : j <= i
      BY <1>1, <2>2, LaidDomain, NewestExists
    <3>2. Laid(q)[k] = q[i][k]
      BY <1>1, <3>1, LaidAt
    <3>3. Laid(p)[k] = p[i][k]
      BY <1>1, <2>1, <3>1, LaidAt
    <3> QED
      BY <1>1, <3>2, <3>3 DEF Holding
  <2> QED
    BY <2>1, <2>2, LaidDomain
<1>5. DOMAIN Laid(p) = DOMAIN Laid(q) \cup DOMAIN e
  BY <1>3, <1>4
<1>6. /\ Upsert(Laid(q), e) \in Entries
      /\ DOMAIN Upsert(Laid(q), e) = DOMAIN Laid(q) \cup DOMAIN e
      /\ \A k \in DOMAIN e : Upsert(Laid(q), e)[k] = e[k]
      /\ \A k \in DOMAIN Laid(q) \ DOMAIN e : Upsert(Laid(q), e)[k] = Laid(q)[k]
  BY <1>2, UpsertIs
<1>7. Laid(p) = Upsert(Laid(q), e)
  <2> DEFINE u == Upsert(Laid(q), e)
             v == Laid(p)
             w == Laid(q)
  <2> HIDE DEF u, v, w
  <2>1. u \in Entries /\ v \in Entries /\ DOMAIN v = DOMAIN u
    BY <1>2, <1>5, <1>6 DEF u, v, w
  <2>2. ASSUME NEW k \in DOMAIN v PROVE v[k] = u[k]
    <3>1. CASE k \in DOMAIN e
      BY <1>3, <1>6, <3>1 DEF u, v
    <3>2. CASE k \notin DOMAIN e
      BY <1>4, <1>6, <2>2, <3>2 DEF u, v
    <3> QED
      BY <3>1, <3>2
  <2>3. v = u
    BY <2>1, <2>2, SameEntries
  <2> QED
    BY <2>3 DEF u, v
<1> QED
  BY <1>7 DEF p

LEMMA LaidPrepended ==
  ASSUME NEW q \in Seq(Entries), NEW e \in Entries
  PROVE  Laid(<<e>> \o q) = Upsert(e, Laid(q))
<1> DEFINE p == <<e>> \o q
           n == Len(q)
<1>1. n \in Nat /\ DOMAIN q = 1..n /\ p \in Seq(Entries) /\ DOMAIN p = 1..(n + 1)
         /\ p[1] = e /\ \A i \in 1..n : p[i + 1] = q[i]
  OBVIOUS
<1>2. Laid(q) \in Entries /\ Laid(p) \in Entries
  BY <1>1, LaidEntries
<1> HIDE DEF p, n
<1>3. ASSUME NEW k, Holding(q, k) # {} PROVE k \in DOMAIN Laid(p) /\ Laid(p)[k] = Laid(q)[k]
  <2>1. PICK i \in Holding(q, k) : \A j \in Holding(q, k) : j <= i
    BY <1>1, <1>3, NewestExists
  <2>2. Laid(q)[k] = q[i][k]
    BY <1>1, <2>1, LaidAt
  <2>3. i \in 1..n /\ i + 1 \in 1..(n + 1) /\ p[i + 1] = q[i] /\ k \in DOMAIN q[i]
    BY <1>1 DEF Holding
  <2>4. i + 1 \in Holding(p, k)
    BY <1>1, <2>3 DEF Holding
  <2>5. ASSUME NEW j \in Holding(p, k) PROVE j <= i + 1
    <3>1. j \in 1..(n + 1) /\ k \in DOMAIN p[j]
      BY <1>1 DEF Holding
    <3>2. CASE j = 1
      BY <2>3, <3>2
    <3>3. CASE j # 1
      <4>1. j - 1 \in 1..n /\ p[(j - 1) + 1] = q[j - 1] /\ (j - 1) + 1 = j
        BY <1>1, <3>1, <3>3
      <4>2. j - 1 \in Holding(q, k)
        BY <1>1, <3>1, <4>1 DEF Holding
      <4> QED
        BY <2>1, <2>3, <4>1, <4>2
    <3> QED
      BY <3>2, <3>3
  <2>6. k \in DOMAIN Laid(p) /\ Laid(p)[k] = p[i + 1][k]
    BY <1>1, <2>4, <2>5, LaidAt
  <2> QED
    BY <2>2, <2>3, <2>6
<1>4. ASSUME NEW k, Holding(q, k) = {}
      PROVE  /\ k \in DOMAIN Laid(p) <=> k \in DOMAIN e
             /\ k \in DOMAIN e => Laid(p)[k] = e[k]
  <2>1. \A j \in Holding(p, k) : j = 1
    <3> SUFFICES ASSUME NEW j \in Holding(p, k), j # 1 PROVE FALSE
      OBVIOUS
    <3>1. j - 1 \in 1..n /\ p[(j - 1) + 1] = q[j - 1] /\ (j - 1) + 1 = j /\ k \in DOMAIN p[j]
      BY <1>1 DEF Holding
    <3>2. j - 1 \in Holding(q, k)
      BY <1>1, <3>1 DEF Holding
    <3> QED
      BY <1>4, <3>2
  <2>2. 1 \in Holding(p, k) <=> k \in DOMAIN e
    BY <1>1 DEF Holding
  <2>3. k \in DOMAIN Laid(p) <=> k \in DOMAIN e
    BY <2>1, <2>2, LaidDomain
  <2>4. k \in DOMAIN e => Laid(p)[k] = e[k]
    BY <1>1, <2>1, <2>2, LaidAt
  <2> QED
    BY <2>3, <2>4
<1>5. \A k : k \in DOMAIN Laid(q) <=> Holding(q, k) # {}
  BY LaidDomain
<1>6. DOMAIN Laid(p) = DOMAIN e \cup DOMAIN Laid(q)
  BY <1>3, <1>4, <1>5
<1>7. /\ Upsert(e, Laid(q)) \in Entries
      /\ DOMAIN Upsert(e, Laid(q)) = DOMAIN e \cup DOMAIN Laid(q)
      /\ \A k \in DOMAIN Laid(q) : Upsert(e, Laid(q))[k] = Laid(q)[k]
      /\ \A k \in DOMAIN e \ DOMAIN Laid(q) : Upsert(e, Laid(q))[k] = e[k]
  BY <1>2, UpsertIs
<1>8. Laid(p) = Upsert(e, Laid(q))
  <2> DEFINE u == Upsert(e, Laid(q))
             v == Laid(p)
             w == Laid(q)
  <2> HIDE DEF u, v, w
  <2>1. u \in Entries /\ v \in Entries /\ DOMAIN v = DOMAIN u
    BY <1>2, <1>6, <1>7 DEF u, v, w
  <2>2. ASSUME NEW k \in DOMAIN v PROVE v[k] = u[k]
    <3>1. CASE Holding(q, k) # {}
      BY <1>3, <1>5, <1>7, <3>1 DEF u, v
    <3>2. CASE Holding(q, k) = {}
      BY <1>4, <1>5, <1>7, <2>2, <3>2 DEF u, v
    <3> QED
      BY <3>1, <3>2
  <2>3. v = u
    BY <2>1, <2>2, SameEntries
  <2> QED
    BY <2>3 DEF u, v
<1> QED
  BY <1>8 DEF p

-----------------------------------------------------------------------------
(* The log, as entries laid over entries.                                  *)
Journalled == [key : RunKey, val : Nat]
Single(r) == [k \in {r.key} |-> r.val]
Singles(w) == [i \in DOMAIN w |-> Single(w[i])]
Without(e, keys) == [k \in DOMAIN e \ keys |-> e[k]]

LEMMA SingleIs ==
  ASSUME NEW r \in Journalled
  PROVE  Single(r) \in Entries /\ DOMAIN Single(r) = {r.key} /\ Single(r)[r.key] = r.val
<1>1. r.key \in RunKey /\ r.val \in Nat
  BY DEF Journalled
<1>2. Single(r) \in [{r.key} -> Nat] /\ {r.key} \in SUBSET RunKey
  BY <1>1 DEF Single
<1> QED
  BY <1>2, EntriesAre DEF Single

LEMMA SinglesAre ==
  ASSUME NEW w \in Seq(Journalled)
  PROVE  /\ Singles(w) \in Seq(Entries) /\ Len(Singles(w)) = Len(w)
         /\ \A i \in 1..Len(w) : Singles(w)[i] = Single(w[i]) /\ w[i] \in Journalled
<1>1. Len(w) \in Nat /\ DOMAIN w = 1..Len(w) /\ \A i \in 1..Len(w) : w[i] \in Journalled
  OBVIOUS
<1>2. \A i \in 1..Len(w) : Single(w[i]) \in Entries
  BY <1>1, SingleIs
<1>3. Singles(w) = [i \in 1..Len(w) |-> Single(w[i])]
  BY <1>1 DEF Singles
<1>4. Singles(w) \in Seq(Entries) /\ Len(Singles(w)) = Len(w)
  <2> DEFINE f == [i \in 1..Len(w) |-> Single(w[i])]
  <2>1. \A i \in 1..Len(w) : f[i] \in Entries
    BY <1>2
  <2>2. f \in Seq(Entries) /\ Len(f) = Len(w)
    <3> HIDE DEF f
    <3>1. f = [i \in 1..Len(w) |-> f[i]]
      BY DEF f
    <3> QED
      BY <1>1, <2>1, <3>1
  <2> QED
    BY <1>3, <2>2
<1> QED
  BY <1>1, <1>3, <1>4

LEMMA ReplayedLaid ==
  ASSUME NEW w \in Seq(Journalled)
  PROVE  Lsm!Replayed(w) = Laid(Singles(w)) /\ Lsm!Replayed(w) \in Entries
<1> DEFINE q == Singles(w)
<1>1. q \in Seq(Entries) /\ DOMAIN q = DOMAIN w /\ Len(w) \in Nat /\ DOMAIN w = 1..Len(w)
         /\ \A i \in DOMAIN w : DOMAIN q[i] = {w[i].key} /\ q[i][w[i].key] = w[i].val
  <2>1. Len(w) \in Nat /\ DOMAIN w = 1..Len(w) /\ \A i \in 1..Len(w) : w[i] \in Journalled
    OBVIOUS
  <2>2. q \in Seq(Entries) /\ Len(q) = Len(w) /\ \A i \in 1..Len(w) : q[i] = Single(w[i])
    BY SinglesAre
  <2> HIDE DEF q
  <2>3. \A i \in 1..Len(w) : DOMAIN q[i] = {w[i].key} /\ q[i][w[i].key] = w[i].val
    BY <2>1, <2>2, SingleIs
  <2> QED
    BY <2>1, <2>2, <2>3
<1> HIDE DEF q
<1>2. \A k : Lsm!Records(w, k) = Holding(q, k)
  BY <1>1 DEF Lsm!Records, Holding
<1>3. {w[i].key : i \in DOMAIN w} = UNION {DOMAIN q[i] : i \in DOMAIN q}
  BY <1>1
<1>4. ASSUME NEW k \in {w[i].key : i \in DOMAIN w}
      PROVE  w[Lsm!Newest(Lsm!Records(w, k))].val = q[Lsm!Newest(Holding(q, k))][k]
  <2>1. Holding(q, k) # {} /\ Holding(q, k) \in SUBSET Nat
    BY <1>1, <1>3 DEF Holding
  <2>2. PICK i \in Holding(q, k) : \A j \in Holding(q, k) : j <= i
    BY <1>1, <2>1, NewestExists
  <2>3. Lsm!Newest(Holding(q, k)) = i
    BY <2>1, <2>2, NewestIs
  <2>4. i \in DOMAIN w /\ k = w[i].key
    BY <1>1, <2>2 DEF Holding
  <2> QED
    BY <1>1, <1>2, <2>3, <2>4
<1>5. Lsm!Replayed(w) = Laid(q)
  BY <1>3, <1>4 DEF Lsm!Replayed, Laid
<1> QED
  BY <1>1, <1>5, LaidEntries DEF q

LEMMA ReplayedNone ==
  DOMAIN Lsm!Replayed(<<>>) = {} /\ Lsm!Replayed(<<>>) \in Entries
<1> DEFINE none == <<>>
<1>1. none \in Seq(Journalled) /\ DOMAIN none = {}
  OBVIOUS
<1> HIDE DEF none
<1>2. DOMAIN Lsm!Replayed(none) = {} /\ Lsm!Replayed(none) \in Entries
  BY <1>1, ReplayedLaid DEF Lsm!Replayed
<1> QED
  BY <1>2 DEF none

LEMMA ReplayedAppended ==
  ASSUME NEW w \in Seq(Journalled), NEW r \in Journalled
  PROVE  Lsm!Replayed(Append(w, r)) = Upsert(Lsm!Replayed(w), Single(r))
<1>1. Append(w, r) \in Seq(Journalled) /\ Len(w) \in Nat /\ Len(Append(w, r)) = Len(w) + 1
         /\ Append(w, r)[Len(w) + 1] = r /\ \A i \in 1..Len(w) : Append(w, r)[i] = w[i]
  OBVIOUS
<1> DEFINE p == Append(w, r)
           q == Singles(w)
           s == Singles(p)
           x == Single(r)
<1>2. /\ s \in Seq(Entries) /\ Len(s) = Len(w) + 1 /\ x \in Entries
      /\ s[Len(w) + 1] = x /\ \A i \in 1..Len(w) : s[i] = Single(w[i])
  <2>1. p \in Seq(Journalled) /\ Len(p) = Len(w) + 1 /\ Len(w) \in Nat /\ p[Len(w) + 1] = r /\ \A i \in 1..Len(w) : p[i] = w[i]
    BY <1>1
  <2> HIDE DEF p
  <2>2. s \in Seq(Entries) /\ Len(s) = Len(p) /\ \A i \in 1..Len(p) : s[i] = Single(p[i])
    BY <2>1, SinglesAre
  <2> HIDE DEF s
  <2>3. s \in Seq(Entries) /\ Len(s) = Len(w) + 1 /\ \A i \in 1..(Len(w) + 1) : s[i] = Single(p[i])
    BY <2>1, <2>2
  <2> QED
    BY <2>1, <2>3, SingleIs
<1>3. q \in Seq(Entries) /\ Len(q) = Len(w) /\ \A i \in 1..Len(w) : q[i] = Single(w[i])
  BY SinglesAre
<1> HIDE DEF p, q, s, x
<1>4. s = Append(q, x)
  <2>1. \A i \in 1..(Len(w) + 1) : s[i] = Append(q, x)[i]
    BY <1>1, <1>2, <1>3
  <2>2. Append(q, x) \in Seq(Entries) /\ Len(Append(q, x)) = Len(w) + 1
    BY <1>2, <1>3
  <2> QED
    BY <1>2, <2>1, <2>2, SeqEqual
<1>5. Laid(s) = Upsert(Laid(q), x)
  BY <1>2, <1>3, <1>4, LaidAppended
<1> QED
  BY <1>1, <1>5, ReplayedLaid DEF p, q, s, x

LEMMA ReplayedPrepended ==
  ASSUME NEW w \in Seq(Journalled), NEW r \in Journalled
  PROVE  Lsm!Replayed(<<r>> \o w) = Upsert(Single(r), Lsm!Replayed(w))
<1>1. <<r>> \o w \in Seq(Journalled) /\ Len(w) \in Nat /\ Len(<<r>> \o w) = Len(w) + 1
         /\ (<<r>> \o w)[1] = r /\ \A i \in 1..Len(w) : (<<r>> \o w)[i + 1] = w[i]
  OBVIOUS
<1> DEFINE p == <<r>> \o w
           q == Singles(w)
           s == Singles(p)
           x == Single(r)
<1>2. /\ s \in Seq(Entries) /\ Len(s) = Len(w) + 1 /\ x \in Entries
      /\ s[1] = x /\ \A i \in 1..Len(w) : s[i + 1] = Single(w[i])
  <2>1. p \in Seq(Journalled) /\ Len(p) = Len(w) + 1 /\ Len(w) \in Nat /\ p[1] = r /\ \A i \in 1..Len(w) : p[i + 1] = w[i]
    BY <1>1
  <2> HIDE DEF p
  <2>2. s \in Seq(Entries) /\ Len(s) = Len(p) /\ \A i \in 1..Len(p) : s[i] = Single(p[i])
    BY <2>1, SinglesAre
  <2> HIDE DEF s
  <2>3. s \in Seq(Entries) /\ Len(s) = Len(w) + 1 /\ \A i \in 1..(Len(w) + 1) : s[i] = Single(p[i])
    BY <2>1, <2>2
  <2> QED
    BY <2>1, <2>3, SingleIs
<1>3. q \in Seq(Entries) /\ Len(q) = Len(w) /\ \A i \in 1..Len(w) : q[i] = Single(w[i])
  BY SinglesAre
<1> HIDE DEF p, q, s, x
<1>4. s = <<x>> \o q
  <2>1. <<x>> \o q \in Seq(Entries) /\ Len(<<x>> \o q) = Len(w) + 1
           /\ (<<x>> \o q)[1] = x /\ \A i \in 1..Len(w) : (<<x>> \o q)[i + 1] = q[i]
    BY <1>1, <1>2, <1>3
  <2>2. ASSUME NEW i \in 1..(Len(w) + 1) PROVE s[i] = (<<x>> \o q)[i]
    <3>1. CASE i = 1
      BY <1>2, <2>1, <3>1
    <3>2. CASE i # 1
      <4>1. i - 1 \in 1..Len(w) /\ (i - 1) + 1 = i
        BY <1>1, <3>2
      <4>2. s[(i - 1) + 1] = (<<x>> \o q)[(i - 1) + 1]
        BY <1>2, <1>3, <2>1, <4>1
      <4> QED
        BY <4>1, <4>2
    <3> QED
      BY <3>1, <3>2
  <2> QED
    BY <1>2, <2>1, <2>2, SeqEqual
<1>5. Laid(s) = Upsert(x, Laid(q))
  BY <1>2, <1>3, <1>4, LaidPrepended
<1> QED
  BY <1>1, <1>5, ReplayedLaid DEF p, q, s, x

LEMMA Prefixes ==
  ASSUME NEW S, NEW w \in Seq(S)
  PROVE  /\ SubSeq(w, 1, 0) = <<>> /\ SubSeq(w, 1, Len(w)) = w
         /\ \A n \in 0..(Len(w) - 1) :
              /\ SubSeq(w, 1, n) \in Seq(S) /\ w[n + 1] \in S
              /\ SubSeq(w, 1, n + 1) = Append(SubSeq(w, 1, n), w[n + 1])
<1>1. \A n \in 0..Len(w) : /\ SubSeq(w, 1, n) \in Seq(S) /\ Len(SubSeq(w, 1, n)) = n
                           /\ \A i \in 1..n : SubSeq(w, 1, n)[i] = w[i]
  OBVIOUS
<1>2. Len(w) \in Nat /\ \A i \in 1..Len(w) : w[i] \in S
  OBVIOUS
<1>3. SubSeq(w, 1, Len(w)) = w
  <2> DEFINE p == SubSeq(w, 1, Len(w))
  <2>1. p \in Seq(S) /\ Len(p) = Len(w) /\ \A i \in 1..Len(p) : p[i] = w[i]
    BY <1>1, <1>2
  <2> HIDE DEF p
  <2>2. p = w
    BY <2>1, SeqEqual
  <2> QED
    BY <2>2 DEF p
<1>4. ASSUME NEW n \in 0..(Len(w) - 1)
      PROVE  SubSeq(w, 1, n + 1) = Append(SubSeq(w, 1, n), w[n + 1]) /\ w[n + 1] \in S
  <2> DEFINE p == SubSeq(w, 1, n + 1)
             q == SubSeq(w, 1, n)
             x == w[n + 1]
  <2>1. p \in Seq(S) /\ Len(p) = n + 1 /\ \A i \in 1..(n + 1) : p[i] = w[i]
    BY <1>1, <1>2
  <2>2. q \in Seq(S) /\ Len(q) = n /\ \A i \in 1..n : q[i] = w[i]
    BY <1>1, <1>2
  <2>3. x \in S /\ p[n + 1] = x
    BY <1>2, <2>1
  <2> HIDE DEF p, q, x
  <2>4. Append(q, x) \in Seq(S) /\ Len(Append(q, x)) = Len(p) /\ \A i \in 1..Len(p) : p[i] = Append(q, x)[i]
    BY <1>2, <2>1, <2>2, <2>3
  <2>5. p = Append(q, x)
    BY <2>1, <2>4, SeqEqual
  <2> QED
    BY <2>3, <2>5 DEF p, q, x
<1>5. SubSeq(w, 1, 0) = <<>>
  <2>1. SubSeq(w, 1, 0) \in Seq(S) /\ Len(SubSeq(w, 1, 0)) = 0
    BY <1>1, <1>2
  <2> DEFINE p == SubSeq(w, 1, 0)
  <2> HIDE DEF p
  <2>2. p \in Seq(S) /\ Len(p) = 0
    BY <2>1 DEF p
  <2>3. p = <<>>
    BY <2>2
  <2> QED
    BY <2>3 DEF p
<1> QED
  BY <1>1, <1>2, <1>3, <1>4, <1>5

(* What Kept does, record by record. *)
Sifted(w, keys, n, x) == IF w[n + 1].key \in keys THEN x ELSE Append(x, w[n + 1])
Sifts(w, keys, upto) ==
  upto[0] = <<>> /\ \A n \in 0..(Len(w) - 1) : upto[n + 1] = Sifted(w, keys, n, upto[n])

LEMMA KeptSifts ==
  ASSUME NEW w \in Seq(Journalled), NEW keys
  PROVE  \E upto : Sifts(w, keys, upto) /\ Lsm!Kept(w, keys) = upto[Len(w)]
<1> DEFINE S == Seq(Journalled)
           F == [n \in Nat |-> [x \in S |-> IF n < Len(w) THEN Sifted(w, keys, n, x) ELSE x]]
<1>1. Len(w) \in Nat /\ \A i \in 1..Len(w) : w[i] \in Journalled
  OBVIOUS
<1>2. F \in Makes(S)
  <2>1. ASSUME NEW n \in Nat, NEW x \in S, n < Len(w) PROVE Sifted(w, keys, n, x) \in S
    <3>1. w[n + 1] \in Journalled
      BY <1>1, <2>1
    <3>2. Append(x, w[n + 1]) \in S
      BY <3>1
    <3> QED
      BY <3>2 DEF Sifted
  <2>2. \A n \in Nat : F[n] \in [S -> S]
    BY <2>1
  <2>3. F = [n \in Nat |-> F[n]]
    OBVIOUS
  <2> HIDE DEF F
  <2> QED
    BY <2>2, <2>3 DEF Makes
<1>3. \A n \in Nat : \A x \in S : n < Len(w) => F[n][x] = Sifted(w, keys, n, x)
  OBVIOUS
<1> DEFINE none == <<>>
<1>4. none \in S
  OBVIOUS
<1> HIDE DEF F, none, S
<1>5. PICK f \in [Nat -> S] : f[0] = none /\ \A n \in Nat : f[n + 1] = F[n][f[n]]
  <2>1. Stepwise(S, none, F)
    BY <1>2, <1>4, DefinedStepwise
  <2> QED
    BY <2>1 DEF Stepwise
<1> DEFINE Is(g) == g = [n \in 0..Len(w) |->
                           IF n = 0 THEN <<>>
                           ELSE IF w[n].key \in keys THEN g[n - 1] ELSE Append(g[n - 1], w[n])]
           h == [n \in 0..Len(w) |-> f[n]]
           upto == CHOOSE g : Is(g)
<1>6. Is(h)
  <2> SUFFICES ASSUME NEW n \in 0..Len(w)
               PROVE  f[n] = IF n = 0 THEN <<>>
                             ELSE IF w[n].key \in keys THEN h[n - 1] ELSE Append(h[n - 1], w[n])
    OBVIOUS
  <2>1. CASE n = 0
    BY <1>5, <2>1 DEF none
  <2>2. CASE n # 0
    <3>1. n - 1 \in Nat /\ n - 1 < Len(w) /\ (n - 1) + 1 = n /\ n - 1 \in 0..Len(w)
      BY <1>1, <2>2
    <3>2. f[(n - 1) + 1] = F[n - 1][f[n - 1]] /\ f[n - 1] \in S
      BY <1>5, <3>1
    <3>3. f[n] = Sifted(w, keys, n - 1, f[n - 1]) /\ h[n - 1] = f[n - 1]
      BY <1>3, <3>1, <3>2
    <3> HIDE DEF h
    <3> QED
      BY <2>2, <3>1, <3>3 DEF Sifted
  <2> QED
    BY <2>1, <2>2
<1>7. Is(upto)
  <2> HIDE DEF Is, h
  <2> QED
    BY <1>6
<1>8. Lsm!Kept(w, keys) = upto[Len(w)]
  BY DEF Lsm!Kept
<1>9. Sifts(w, keys, upto)
  <2> HIDE DEF upto
  <2>1. upto[0] = <<>>
    BY <1>1, <1>7
  <2>2. ASSUME NEW n \in 0..(Len(w) - 1) PROVE upto[n + 1] = Sifted(w, keys, n, upto[n])
    <3>1. n + 1 \in 0..Len(w) /\ n + 1 # 0 /\ (n + 1) - 1 = n
      BY <1>1
    <3> QED
      BY <1>7, <3>1 DEF Sifted
  <2> QED
    BY <2>1, <2>2 DEF Sifts
<1> QED
  BY <1>8, <1>9

LEMMA WithoutIs ==
  ASSUME NEW e \in Entries, NEW keys
  PROVE  /\ Without(e, keys) \in Entries /\ DOMAIN Without(e, keys) = DOMAIN e \ keys
         /\ \A k \in DOMAIN e \ keys : Without(e, keys)[k] = e[k]
<1>1. DOMAIN e \ keys \in SUBSET RunKey /\ \A k \in DOMAIN e : e[k] \in Nat
  BY EntriesAre
<1>2. Without(e, keys) \in [DOMAIN e \ keys -> Nat]
  BY <1>1 DEF Without
<1>3. Without(e, keys) \in Entries
  BY <1>1, <1>2, EntriesAre
<1> QED
  BY <1>3 DEF Without

LEMMA WithoutUpserted ==
  ASSUME NEW e \in Entries, NEW r \in Journalled, NEW keys
  PROVE  Without(Upsert(e, Single(r)), keys) =
           IF r.key \in keys THEN Without(e, keys) ELSE Upsert(Without(e, keys), Single(r))
<1> DEFINE x == Single(r)
           u == Upsert(e, x)
           e1 == Without(e, keys)
           u1 == Without(u, keys)
           v == Upsert(e1, x)
<1>1. x \in Entries /\ DOMAIN x = {r.key}
  BY SingleIs
<1> HIDE DEF x
<1>2. /\ u \in Entries /\ DOMAIN u = DOMAIN e \cup DOMAIN x
      /\ \A k \in DOMAIN x : u[k] = x[k]
      /\ \A k \in DOMAIN e \ DOMAIN x : u[k] = e[k]
  BY <1>1, UpsertIs
<1>3. e1 \in Entries /\ DOMAIN e1 = DOMAIN e \ keys /\ \A k \in DOMAIN e \ keys : e1[k] = e[k]
  BY WithoutIs
<1> HIDE DEF u, e1
<1>4. u1 \in Entries /\ DOMAIN u1 = DOMAIN u \ keys /\ \A k \in DOMAIN u \ keys : u1[k] = u[k]
  BY <1>2, WithoutIs
<1>5. /\ v \in Entries /\ DOMAIN v = DOMAIN e1 \cup DOMAIN x
      /\ \A k \in DOMAIN x : v[k] = x[k]
      /\ \A k \in DOMAIN e1 \ DOMAIN x : v[k] = e1[k]
  BY <1>1, <1>3, UpsertIs
<1> HIDE DEF u1, v
<1>6. CASE r.key \in keys
  <2>1. DOMAIN u1 = DOMAIN e1 /\ \A k \in DOMAIN u1 : u1[k] = e1[k]
    BY <1>1, <1>2, <1>3, <1>4, <1>6
  <2>2. u1 = e1
    BY <1>3, <1>4, <2>1, SameEntries
  <2> QED
    BY <1>6, <2>2 DEF u1, e1, u, x
<1>7. CASE r.key \notin keys
  <2>1. DOMAIN u1 = DOMAIN v
    BY <1>1, <1>2, <1>3, <1>4, <1>5, <1>7
  <2>2. ASSUME NEW k \in DOMAIN u1 PROVE u1[k] = v[k]
    <3>1. CASE k \in DOMAIN x
      BY <1>2, <1>4, <1>5, <2>2, <3>1
    <3>2. CASE k \notin DOMAIN x
      BY <1>2, <1>3, <1>4, <1>5, <2>2, <3>2
    <3> QED
      BY <3>1, <3>2
  <2>3. u1 = v
    BY <1>4, <1>5, <2>1, <2>2, SameEntries
  <2> QED
    BY <1>7, <2>3 DEF u1, v, e1, u, x
<1> QED
  BY <1>6, <1>7

(* The log kept of a flush replays to what is left of the replay.          *)
LEMMA KeptReplayed ==
  ASSUME NEW w \in Seq(Journalled), NEW keys
  PROVE  /\ Lsm!Kept(w, keys) \in Seq(Journalled)
         /\ Lsm!Replayed(Lsm!Kept(w, keys)) = Without(Lsm!Replayed(w), keys)
<1>1. PICK upto : Sifts(w, keys, upto) /\ Lsm!Kept(w, keys) = upto[Len(w)]
  BY KeptSifts
<1> DEFINE P(n) == SubSeq(w, 1, n)
           Holds(n) == /\ upto[n] \in Seq(Journalled)
                       /\ Lsm!Replayed(upto[n]) = Without(Lsm!Replayed(P(n)), keys)
           T == {n \in Nat : n <= Len(w) => Holds(n)}
<1>2. Len(w) \in Nat /\ P(0) = <<>> /\ P(Len(w)) = w
         /\ \A n \in 0..(Len(w) - 1) : P(n) \in Seq(Journalled) /\ w[n + 1] \in Journalled /\ P(n + 1) = Append(P(n), w[n + 1])
  BY Prefixes
<1> HIDE DEF P
<1>3. Holds(0)
  <2>1. upto[0] = <<>>
    BY <1>1 DEF Sifts
  <2> DEFINE none == Lsm!Replayed(<<>>)
  <2>2. none \in Entries /\ DOMAIN none = {}
    BY ReplayedNone
  <2> HIDE DEF none
  <2>3. Without(none, keys) \in Entries /\ DOMAIN Without(none, keys) = {}
    BY <2>2, WithoutIs
  <2>4. none = Without(none, keys)
    <3> DEFINE u == Without(none, keys)
    <3> HIDE DEF u
    <3>1. u \in Entries /\ DOMAIN u = {}
      BY <2>3 DEF u
    <3>2. none = u
      BY <2>2, <3>1, SameEntries
    <3> QED
      BY <3>2 DEF u
  <2> QED
    BY <1>2, <2>1, <2>4 DEF none
<1>4. ASSUME NEW n \in Nat, n + 1 <= Len(w), Holds(n) PROVE Holds(n + 1)
  <2> DEFINE r == w[n + 1]
             e == Lsm!Replayed(P(n))
             x == upto[n]
  <2>1. n \in 0..(Len(w) - 1)
    BY <1>2, <1>4
  <2>2. P(n) \in Seq(Journalled) /\ r \in Journalled /\ P(n + 1) = Append(P(n), r)
    BY <1>2, <2>1
  <2>3. x \in Seq(Journalled) /\ Lsm!Replayed(x) = Without(e, keys)
    BY <1>4
  <2>4. upto[n + 1] = IF r.key \in keys THEN x ELSE Append(x, r)
    BY <1>1, <2>1 DEF Sifts, Sifted
  <2> HIDE DEF r
  <2>5. e \in Entries /\ Lsm!Replayed(P(n + 1)) = Upsert(e, Single(r))
    BY <2>2, ReplayedAppended, ReplayedLaid
  <2> HIDE DEF e, x, T
  <2>6. Without(Upsert(e, Single(r)), keys) =
           IF r.key \in keys THEN Without(e, keys) ELSE Upsert(Without(e, keys), Single(r))
    BY <2>2, <2>5, WithoutUpserted
  <2>7. CASE r.key \in keys
    BY <2>3, <2>4, <2>5, <2>6, <2>7
  <2>8. CASE r.key \notin keys
    <3>1. Append(x, r) \in Seq(Journalled)
      BY <2>2, <2>3
    <3>2. Lsm!Replayed(Append(x, r)) = Upsert(Without(e, keys), Single(r))
      BY <2>2, <2>3, ReplayedAppended
    <3> QED
      BY <2>4, <2>5, <2>6, <2>8, <3>1, <3>2
  <2> QED
    BY <2>7, <2>8
<1>5. T = Nat
  <2>1. 0 \in T
    BY <1>3
  <2>2. \A n \in T : n + 1 \in T
    <3> SUFFICES ASSUME NEW n \in T, n + 1 <= Len(w) PROVE Holds(n + 1)
      OBVIOUS
    <3>1. n \in Nat /\ Holds(n)
      BY <1>2
    <3> QED
      BY <1>4, <3>1
  <2>3. T \in SUBSET Nat
    OBVIOUS
  <2> HIDE DEF T
  <2> QED
    BY <2>1, <2>2, <2>3, AllNaturals
<1>6. Holds(Len(w))
  BY <1>2, <1>5
<1> QED
  BY <1>1, <1>2, <1>6

-----------------------------------------------------------------------------
(* What the runs hold together.                                            *)
Bits == UNION {Hashes[k] : k \in RunKey}
Table == [level : {0, 1}, entries : Entries, bloom : SUBSET Bits, torn : BOOLEAN]
Value(e, k) == IF k \in DOMAIN e THEN e[k] ELSE 0
Contents(ts) == [i \in DOMAIN ts |-> ts[i].entries]
Stored(ts) == Laid(Contents(ts))
Layered(ts) == \A i \in 1..Len(ts) : /\ ts[i].level = 1 => i = 1
                                     /\ Lsm!BuildBloom(ts[i].entries) \subseteq ts[i].bloom
Repaired(ts, e) ==
  [i \in DOMAIN ts |->
     IF ts[i].torn THEN Lsm!ToTable(ts[i].level, Upsert(ts[i].entries, e)) ELSE ts[i]]

LEMMA LaidSameAt ==
  ASSUME NEW q \in Seq(Entries), NEW p \in Seq(Entries), Len(q) = Len(p), NEW k,
         \A i \in 1..Len(q) : /\ k \in DOMAIN q[i] <=> k \in DOMAIN p[i]
                              /\ k \in DOMAIN q[i] => q[i][k] = p[i][k]
  PROVE  Value(Laid(q), k) = Value(Laid(p), k)
<1>1. Len(q) \in Nat /\ DOMAIN q = 1..Len(q) /\ DOMAIN p = 1..Len(q)
  OBVIOUS
<1>2. Holding(q, k) = Holding(p, k)
  BY <1>1 DEF Holding
<1>3. CASE Holding(q, k) = {}
  BY <1>2, <1>3, LaidDomain DEF Value
<1>4. CASE Holding(q, k) # {}
  <2>1. PICK i \in Holding(q, k) : \A j \in Holding(q, k) : j <= i
    BY <1>1, <1>4, NewestExists
  <2>2. k \in DOMAIN Laid(q) /\ Laid(q)[k] = q[i][k]
    BY <1>1, <2>1, LaidAt
  <2>3. k \in DOMAIN Laid(p) /\ Laid(p)[k] = p[i][k]
    BY <1>1, <1>2, <2>1, LaidAt
  <2>4. i \in 1..Len(q) /\ k \in DOMAIN q[i]
    BY <1>1, <2>1 DEF Holding
  <2> QED
    BY <2>2, <2>3, <2>4 DEF Value
<1> QED
  BY <1>3, <1>4

LEMMA LaidLast ==
  ASSUME NEW q \in Seq(Entries), Len(q) # 0, NEW k \in DOMAIN q[Len(q)]
  PROVE  k \in DOMAIN Laid(q) /\ Laid(q)[k] = q[Len(q)][k]
<1>1. Len(q) \in Nat /\ DOMAIN q = 1..Len(q) /\ Len(q) \in 1..Len(q)
  OBVIOUS
<1>2. Len(q) \in Holding(q, k) /\ \A j \in Holding(q, k) : j <= Len(q)
  BY <1>1 DEF Holding
<1> QED
  BY <1>1, <1>2, LaidAt

LEMMA ValueUpserted ==
  ASSUME NEW e \in Entries, NEW f \in Entries, NEW k
  PROVE  Value(Upsert(e, f), k) = IF k \in DOMAIN f THEN f[k] ELSE Value(e, k)
<1>1. /\ DOMAIN Upsert(e, f) = DOMAIN e \cup DOMAIN f
      /\ \A j \in DOMAIN f : Upsert(e, f)[j] = f[j]
      /\ \A j \in DOMAIN e \ DOMAIN f : Upsert(e, f)[j] = e[j]
  BY UpsertIs
<1> QED
  BY <1>1 DEF Value

LEMMA UpsertAt ==
  ASSUME NEW e \in Entries, NEW f \in Entries, NEW k
  PROVE  /\ k \in DOMAIN Upsert(e, f) <=> k \in DOMAIN e \/ k \in DOMAIN f
         /\ k \in DOMAIN f => Upsert(e, f)[k] = f[k]
         /\ k \in DOMAIN e /\ k \notin DOMAIN f => Upsert(e, f)[k] = e[k]
<1>1. /\ DOMAIN Upsert(e, f) = DOMAIN e \cup DOMAIN f
      /\ \A j \in DOMAIN f : Upsert(e, f)[j] = f[j]
      /\ \A j \in DOMAIN e \ DOMAIN f : Upsert(e, f)[j] = e[j]
  BY UpsertIs
<1> QED
  BY <1>1

LEMMA ContentsAre ==
  ASSUME NEW ts \in Seq(Table)
  PROVE  /\ Contents(ts) \in Seq(Entries) /\ Len(Contents(ts)) = Len(ts)
         /\ \A i \in 1..Len(ts) : Contents(ts)[i] = ts[i].entries /\ ts[i] \in Table /\ ts[i].entries \in Entries
         /\ Stored(ts) \in Entries
<1>1. Len(ts) \in Nat /\ DOMAIN ts = 1..Len(ts) /\ \A i \in 1..Len(ts) : ts[i] \in Table
  OBVIOUS
<1>2. \A i \in 1..Len(ts) : ts[i].entries \in Entries
  BY <1>1 DEF Table
<1> DEFINE f == [i \in 1..Len(ts) |-> ts[i].entries]
<1>3. \A i \in 1..Len(ts) : f[i] \in Entries
  BY <1>2
<1>4. f \in Seq(Entries) /\ Len(f) = Len(ts)
  <2> HIDE DEF f
  <2>1. f = [i \in 1..Len(ts) |-> f[i]]
    BY DEF f
  <2> QED
    BY <1>1, <1>3, <2>1
<1>5. Contents(ts) = f
  BY <1>1 DEF Contents
<1>6. Stored(ts) \in Entries
  <2> HIDE DEF f
  <2> QED
    BY <1>4, <1>5, LaidEntries DEF Stored
<1> QED
  BY <1>1, <1>2, <1>4, <1>5, <1>6

LEMMA StoredAppended ==
  ASSUME NEW ts \in Seq(Table), NEW t \in Table
  PROVE  Stored(Append(ts, t)) = Upsert(Stored(ts), t.entries)
<1> DEFINE us == Append(ts, t)
           p == Contents(us)
           q == Contents(ts)
           x == t.entries
<1>1. Len(ts) \in Nat /\ us \in Seq(Table) /\ Len(us) = Len(ts) + 1 /\ us[Len(ts) + 1] = t
         /\ \A i \in 1..Len(ts) : us[i] = ts[i]
  OBVIOUS
<1>2. x \in Entries
  BY DEF Table
<1> HIDE DEF us, x
<1>3. p \in Seq(Entries) /\ Len(p) = Len(us) /\ \A i \in 1..Len(us) : p[i] = us[i].entries
  BY <1>1, ContentsAre
<1>4. q \in Seq(Entries) /\ Len(q) = Len(ts) /\ \A i \in 1..Len(ts) : q[i] = ts[i].entries
  BY ContentsAre
<1> HIDE DEF p, q
<1>5. p = Append(q, x)
  <2>1. \A i \in 1..(Len(ts) + 1) : p[i] = Append(q, x)[i]
    BY <1>1, <1>2, <1>3, <1>4 DEF x
  <2>2. Append(q, x) \in Seq(Entries) /\ Len(Append(q, x)) = Len(ts) + 1
    BY <1>2, <1>4
  <2> QED
    BY <1>1, <1>3, <2>1, <2>2, SeqEqual
<1>6. Laid(p) = Upsert(Laid(q), x)
  BY <1>2, <1>4, <1>5, LaidAppended
<1> QED
  BY <1>6 DEF p, q, x, us, Stored

LEMMA BloomIn ==
  ASSUME NEW e \in Entries PROVE Lsm!BuildBloom(e) \in SUBSET Bits
BY EntriesAre DEF Lsm!BuildBloom, Bits

LEMMA TableIs ==
  ASSUME NEW l \in {0, 1}, NEW e \in Entries
  PROVE  /\ Lsm!ToTable(l, e) \in Table
         /\ Lsm!ToTable(l, e).level = l /\ Lsm!ToTable(l, e).entries = e
         /\ Lsm!ToTable(l, e).bloom = Lsm!BuildBloom(e) /\ ~Lsm!ToTable(l, e).torn
BY BloomIn DEF Lsm!ToTable, Table

LEMMA RepairedAre ==
  ASSUME NEW ts \in Seq(Table), NEW e \in Entries
  PROVE  /\ Repaired(ts, e) \in Seq(Table) /\ Len(Repaired(ts, e)) = Len(ts)
         /\ \A i \in 1..Len(ts) :
              /\ Repaired(ts, e)[i].entries = IF ts[i].torn THEN Upsert(ts[i].entries, e) ELSE ts[i].entries
              /\ ~Repaired(ts, e)[i].torn
              /\ ~ts[i].torn => Repaired(ts, e)[i] = ts[i]
         /\ Layered(ts) => Layered(Repaired(ts, e))
<1>1. Len(ts) \in Nat /\ DOMAIN ts = 1..Len(ts) /\ \A i \in 1..Len(ts) : ts[i] \in Table
  OBVIOUS
<1> DEFINE New(i) == Lsm!ToTable(ts[i].level, Upsert(ts[i].entries, e))
           f == [i \in 1..Len(ts) |-> IF ts[i].torn THEN New(i) ELSE ts[i]]
<1>2. ASSUME NEW i \in 1..Len(ts)
      PROVE  /\ New(i) \in Table /\ New(i).level = ts[i].level /\ New(i).entries = Upsert(ts[i].entries, e)
             /\ New(i).bloom = Lsm!BuildBloom(Upsert(ts[i].entries, e)) /\ ~New(i).torn
             /\ ts[i].torn \in BOOLEAN
  <2>1. ts[i].level \in {0, 1} /\ ts[i].entries \in Entries /\ ts[i].torn \in BOOLEAN
    BY <1>1 DEF Table
  <2>2. Upsert(ts[i].entries, e) \in Entries
    BY <2>1, UpsertIs
  <2> QED
    BY <2>1, <2>2, TableIs
<1>3. Repaired(ts, e) = f
  BY <1>1 DEF Repaired
<1> HIDE DEF New
<1>4. \A i \in 1..Len(ts) : f[i] \in Table /\ f[i] = IF ts[i].torn THEN New(i) ELSE ts[i]
  BY <1>1, <1>2
<1>5. f \in Seq(Table) /\ Len(f) = Len(ts)
  <2> HIDE DEF f
  <2>1. f = [i \in 1..Len(ts) |-> f[i]]
    BY DEF f
  <2> QED
    BY <1>1, <1>4, <2>1
<1> HIDE DEF f
<1>6. \A i \in 1..Len(ts) :
              /\ f[i].entries = IF ts[i].torn THEN Upsert(ts[i].entries, e) ELSE ts[i].entries
              /\ ~f[i].torn
              /\ ~ts[i].torn => f[i] = ts[i]
  BY <1>2, <1>4
<1>7. Layered(ts) => Layered(f)
  BY <1>2, <1>4, <1>5 DEF Layered
<1> QED
  BY <1>3, <1>5, <1>6, <1>7

(* Repairs change what is stored of no key but those of the log, and of    *)
(* those by what the log says alone.                                       *)
LEMMA RepairedBy ==
  ASSUME NEW ts \in Seq(Table), NEW e \in Entries, NEW f \in Entries, NEW k,
         k \in DOMAIN e <=> k \in DOMAIN f, k \in DOMAIN e => e[k] = f[k]
  PROVE  /\ Value(Stored(Repaired(ts, e)), k) = Value(Stored(Repaired(ts, f)), k)
         /\ k \notin DOMAIN e => Value(Stored(Repaired(ts, e)), k) = Value(Stored(ts), k)
<1> DEFINE p == Contents(Repaired(ts, e))
           q == Contents(Repaired(ts, f))
           r == Contents(ts)
<1>1. \A x \in Entries : /\ Repaired(ts, x) \in Seq(Table) /\ Len(Repaired(ts, x)) = Len(ts)
                         /\ \A i \in 1..Len(ts) :
                              Repaired(ts, x)[i].entries =
                                IF ts[i].torn THEN Upsert(ts[i].entries, x) ELSE ts[i].entries
  BY RepairedAre
<1>2. p \in Seq(Entries) /\ Len(p) = Len(ts) /\ q \in Seq(Entries) /\ Len(q) = Len(ts)
         /\ r \in Seq(Entries) /\ Len(r) = Len(ts)
  BY <1>1, ContentsAre
<1>3. \A i \in 1..Len(ts) : /\ p[i] = IF ts[i].torn THEN Upsert(ts[i].entries, e) ELSE ts[i].entries
                            /\ q[i] = IF ts[i].torn THEN Upsert(ts[i].entries, f) ELSE ts[i].entries
                            /\ r[i] = ts[i].entries /\ ts[i].entries \in Entries
  <2>1. \A i \in 1..Len(ts) : p[i] = Repaired(ts, e)[i].entries /\ q[i] = Repaired(ts, f)[i].entries
    BY <1>1, ContentsAre
  <2>2. \A i \in 1..Len(ts) : r[i] = ts[i].entries /\ ts[i].entries \in Entries
    BY ContentsAre
  <2> HIDE DEF p, q, r
  <2> QED
    BY <1>1, <2>1, <2>2
<1> HIDE DEF p, q, r
<1>5. Value(Laid(p), k) = Value(Laid(q), k)
  <2>1. ASSUME NEW i \in 1..Len(ts) PROVE /\ k \in DOMAIN p[i] <=> k \in DOMAIN q[i]
                                          /\ k \in DOMAIN p[i] => p[i][k] = q[i][k]
    <3> DEFINE x == ts[i].entries
    <3>1. x \in Entries
      BY <1>3
    <3>2. p[i] = (IF ts[i].torn THEN Upsert(x, e) ELSE x) /\ q[i] = (IF ts[i].torn THEN Upsert(x, f) ELSE x)
      BY <1>3
    <3> HIDE DEF x
    <3>3. /\ k \in DOMAIN Upsert(x, e) <=> k \in DOMAIN x \/ k \in DOMAIN e
          /\ k \in DOMAIN e => Upsert(x, e)[k] = e[k]
          /\ k \in DOMAIN x /\ k \notin DOMAIN e => Upsert(x, e)[k] = x[k]
      BY <3>1, UpsertAt
    <3>4. /\ k \in DOMAIN Upsert(x, f) <=> k \in DOMAIN x \/ k \in DOMAIN f
          /\ k \in DOMAIN f => Upsert(x, f)[k] = f[k]
          /\ k \in DOMAIN x /\ k \notin DOMAIN f => Upsert(x, f)[k] = x[k]
      BY <3>1, UpsertAt
    <3> QED
      BY <3>2, <3>3, <3>4
  <2> QED
    BY <1>2, <2>1, LaidSameAt
<1>6. k \notin DOMAIN e => Value(Laid(p), k) = Value(Laid(r), k)
  <2>1. ASSUME NEW i \in 1..Len(ts), k \notin DOMAIN e
        PROVE  /\ k \in DOMAIN p[i] <=> k \in DOMAIN r[i]
               /\ k \in DOMAIN p[i] => p[i][k] = r[i][k]
    <3> DEFINE x == ts[i].entries
    <3>1. x \in Entries /\ r[i] = x
      BY <1>3
    <3>2. p[i] = IF ts[i].torn THEN Upsert(x, e) ELSE x
      BY <1>3
    <3> HIDE DEF x
    <3>3. /\ k \in DOMAIN Upsert(x, e) <=> k \in DOMAIN x
          /\ k \in DOMAIN x => Upsert(x, e)[k] = x[k]
      BY <2>1, <3>1, UpsertAt
    <3> QED
      BY <3>1, <3>2, <3>3
  <2> QED
    BY <1>2, <2>1, LaidSameAt
<1> QED
  BY <1>5, <1>6 DEF p, q, r, Stored

(* When the newest run is torn they give all that the log holds.           *)
LEMMA RepairedLast ==
  ASSUME NEW ts \in Seq(Table), NEW e \in Entries, Len(ts) # 0, ts[Len(ts)].torn, NEW k
  PROVE  Value(Stored(Repaired(ts, e)), k) = Value(Upsert(Stored(ts), e), k)
<1> DEFINE p == Contents(Repaired(ts, e))
           n == Len(ts)
<1>1. n \in 1..n
  OBVIOUS
<1>2. p \in Seq(Entries) /\ Len(p) = n /\ p[n] = Upsert(ts[n].entries, e) /\ ts[n].entries \in Entries
  <2>1. /\ Repaired(ts, e) \in Seq(Table) /\ Len(Repaired(ts, e)) = n
        /\ Repaired(ts, e)[n].entries = Upsert(ts[n].entries, e)
    BY <1>1, RepairedAre
  <2> QED
    BY <1>1, <2>1, ContentsAre
<1>3. Stored(ts) \in Entries
  BY ContentsAre
<1> HIDE DEF p
<1>4. CASE k \in DOMAIN e
  <2>1. k \in DOMAIN p[n] /\ p[n][k] = e[k]
    BY <1>2, <1>4, UpsertAt
  <2>2. k \in DOMAIN Laid(p) /\ Laid(p)[k] = e[k]
    BY <1>2, <2>1, LaidLast
  <2>3. Value(Stored(Repaired(ts, e)), k) = e[k]
    BY <2>2 DEF Value, Stored, p
  <2> QED
    BY <1>3, <1>4, <2>3, ValueUpserted
<1>5. CASE k \notin DOMAIN e
  BY <1>3, <1>5, RepairedBy, ValueUpserted
<1> QED
  BY <1>4, <1>5

LEMMA RepairedAppended ==
  ASSUME NEW ts \in Seq(Table), NEW e \in Entries, NEW t \in Table, ~t.torn
  PROVE  Repaired(Append(ts, t), e) = Append(Repaired(ts, e), t)
<1> DEFINE us == Append(ts, t)
           p == Repaired(us, e)
           q == Repaired(ts, e)
<1>1. Len(ts) \in Nat /\ us \in Seq(Table) /\ Len(us) = Len(ts) + 1 /\ DOMAIN us = 1..(Len(ts) + 1)
         /\ us[Len(ts) + 1] = t /\ \A i \in 1..Len(ts) : us[i] = ts[i]
         /\ DOMAIN ts = 1..Len(ts)
  OBVIOUS
<1> HIDE DEF us
<1>2. p \in Seq(Table) /\ Len(p) = Len(us) /\ p[Len(ts) + 1] = t
  BY <1>1, RepairedAre
<1>3. q \in Seq(Table) /\ Len(q) = Len(ts)
  BY RepairedAre
<1>4. \A i \in 1..Len(ts) : p[i] = q[i]
  BY <1>1 DEF Repaired
<1> HIDE DEF p, q
<1>5. Append(q, t) \in Seq(Table) /\ Len(Append(q, t)) = Len(p) /\ \A i \in 1..Len(p) : p[i] = Append(q, t)[i]
  BY <1>1, <1>2, <1>3, <1>4
<1>6. p = Append(q, t)
  BY <1>2, <1>5, SeqEqual
<1> QED
  BY <1>6 DEF p, q, us

-----------------------------------------------------------------------------
(* Reads.                                                                  *)
LsmState == [memtable : Entries, wal : Seq(Journalled), sstables : Seq(Table),
             phase : {"idle", "flushing", "compacting"}, diskFull : BOOLEAN]

LEMMA HoldersAre ==
  ASSUME NEW s \in LsmState, NEW k
  PROVE  /\ Lsm!Holders(s, k) = Holding(Contents(s.sstables), k)
         /\ Lsm!Holders(s, k) \in SUBSET Nat /\ Lsm!Holders(s, k) \subseteq 1..Len(s.sstables)
         /\ Lsm!Holders(s, k) # {} =>
              \E i \in Lsm!Holders(s, k) : /\ \A j \in Lsm!Holders(s, k) : j <= i
                                           /\ k \in DOMAIN Stored(s.sstables)
                                           /\ Stored(s.sstables)[k] = s.sstables[i].entries[k]
         /\ Lsm!Holders(s, k) = {} => k \notin DOMAIN Stored(s.sstables)
<1> DEFINE ts == s.sstables
           q == Contents(ts)
<1>1. ts \in Seq(Table)
  BY DEF LsmState
<1>2. Len(ts) \in Nat /\ DOMAIN ts = 1..Len(ts)
  BY <1>1
<1>3. q \in Seq(Entries) /\ Len(q) = Len(ts) /\ DOMAIN q = 1..Len(ts) /\ \A i \in 1..Len(ts) : q[i] = ts[i].entries
  BY <1>1, ContentsAre
<1>4. Lsm!Holders(s, k) = {i \in DOMAIN ts : k \in DOMAIN ts[i].entries}
  BY DEF Lsm!Holders
<1> HIDE DEF ts, q
<1>5. Lsm!Holders(s, k) = Holding(q, k) /\ Holding(q, k) \subseteq 1..Len(ts) /\ Holding(q, k) \in SUBSET Nat
  BY <1>2, <1>3, <1>4 DEF Holding
<1>6. ASSUME Holding(q, k) # {}
      PROVE  \E i \in Holding(q, k) : /\ \A j \in Holding(q, k) : j <= i
                                      /\ k \in DOMAIN Laid(q) /\ Laid(q)[k] = ts[i].entries[k]
  <2>1. PICK i \in Holding(q, k) : \A j \in Holding(q, k) : j <= i
    BY <1>2, <1>3, <1>6, NewestExists
  <2>2. k \in DOMAIN Laid(q) /\ Laid(q)[k] = q[i][k] /\ i \in 1..Len(ts)
    BY <1>2, <1>3, <1>5, <2>1, LaidAt
  <2>3. q[i] = ts[i].entries
    BY <1>3, <2>2
  <2> QED
    BY <2>1, <2>2, <2>3
<1>7. Holding(q, k) = {} => k \notin DOMAIN Laid(q)
  BY LaidDomain
<1> QED
  BY <1>5, <1>6, <1>7 DEF ts, q, Stored

(* A read finds what the memtable holds over the runs. *)
LEMMA GetIs ==
  ASSUME NEW s \in LsmState, Layered(s.sstables), NEW k \in RunKey
  PROVE  Lsm!LsmGet(s, k) = Value(Upsert(Stored(s.sstables), s.memtable), k)
<1> DEFINE hits == {i \in Lsm!Holders(s, k) : Lsm!MightContain(s.sstables[i], k)}
<1>1. hits = Lsm!Holders(s, k)
  <2> SUFFICES ASSUME NEW i \in Lsm!Holders(s, k) PROVE Hashes[k] \subseteq s.sstables[i].bloom
    BY DEF Lsm!MightContain
  <2>1. i \in 1..Len(s.sstables) /\ k \in DOMAIN s.sstables[i].entries
    BY HoldersAre DEF Lsm!Holders
  <2>2. Hashes[k] \subseteq Lsm!BuildBloom(s.sstables[i].entries)
    BY <2>1 DEF Lsm!BuildBloom
  <2> QED
    BY <2>1, <2>2 DEF Layered
<1> HIDE DEF hits
<1>2. Lsm!LsmGet(s, k) =
        CASE k \in DOMAIN s.memtable -> s.memtable[k]
          [] k \notin DOMAIN s.memtable /\ hits # {} -> s.sstables[Lsm!Newest(hits)].entries[k]
          [] OTHER -> 0
  BY DEF Lsm!LsmGet, Lsm!Tombstone, hits
<1>3. s.memtable \in Entries /\ Stored(s.sstables) \in Entries
  <2>1. s.memtable \in Entries /\ s.sstables \in Seq(Table)
    BY DEF LsmState
  <2> QED
    BY <2>1, ContentsAre
<1>4. Value(Upsert(Stored(s.sstables), s.memtable), k) =
        IF k \in DOMAIN s.memtable THEN s.memtable[k] ELSE Value(Stored(s.sstables), k)
  BY <1>3, ValueUpserted
<1>5. CASE k \in DOMAIN s.memtable
  BY <1>2, <1>4, <1>5
<1>6. CASE k \notin DOMAIN s.memtable /\ hits = {}
  <2>1. k \notin DOMAIN Stored(s.sstables)
    BY <1>1, <1>6, HoldersAre
  <2> QED
    BY <1>2, <1>4, <1>6, <2>1 DEF Value
<1>7. CASE k \notin DOMAIN s.memtable /\ hits # {}
  <2>1. PICK i \in Lsm!Holders(s, k) : /\ \A j \in Lsm!Holders(s, k) : j <= i
                                       /\ k \in DOMAIN Stored(s.sstables)
                                       /\ Stored(s.sstables)[k] = s.sstables[i].entries[k]
    BY <1>1, <1>7, HoldersAre
  <2>2. Lsm!Newest(hits) = i
    BY <1>1, <2>1, HoldersAre, NewestIs
  <2> QED
    BY <1>2, <1>4, <1>7, <2>1, <2>2 DEF Value
<1> QED
  BY <1>5, <1>6, <1>7

(* A merge holds what the runs held, however they are read. *)
LEMMA MergedIs ==
  ASSUME NEW s \in LsmState, Layered(s.sstables)
  PROVE  Lsm!Merged(s) = Stored(s.sstables) /\ Lsm!Merged(s) \in Entries
<1> DEFINE ts == s.sstables
           st == Stored(ts)
           keys == UNION {DOMAIN ts[i].entries : i \in DOMAIN ts}
           Place(k) == Lsm!Newest(IF Lsm!Holders(s, k) \cap Lsm!L0(s) # {} THEN Lsm!Holders(s, k) \cap Lsm!L0(s)
                               ELSE Lsm!Holders(s, k))
<1>1. Lsm!Merged(s) = [k \in keys |-> ts[Place(k)].entries[k]]
  BY DEF Lsm!Merged
<1>2. ts \in Seq(Table)
  BY DEF LsmState
<1>3. Len(ts) \in Nat /\ DOMAIN ts = 1..Len(ts) /\ st \in Entries
         /\ \A i \in 1..Len(ts) : ts[i].level \in {0, 1}
  <2> HIDE DEF ts
  <2>1. Len(ts) \in Nat /\ DOMAIN ts = 1..Len(ts) /\ \A i \in 1..Len(ts) : ts[i] \in Table
    BY <1>2
  <2>2. \A i \in 1..Len(ts) : ts[i].level \in {0, 1}
    BY <2>1 DEF Table
  <2>3. st \in Entries
    BY <1>2, ContentsAre
  <2> HIDE DEF st
  <2> QED
    BY <2>1, <2>2, <2>3
<1>4. \A k : k \in keys <=> Lsm!Holders(s, k) # {}
  BY DEF Lsm!Holders
<1>5. DOMAIN st = keys
  BY <1>4, HoldersAre
<1>6. ASSUME NEW k \in keys PROVE ts[Place(k)].entries[k] = st[k]
  <2> DEFINE H == Lsm!Holders(s, k)
             U == H \cap Lsm!L0(s)
  <2>1. PICK i \in H : (\A j \in H : j <= i) /\ st[k] = ts[i].entries[k]
    BY <1>4, HoldersAre
  <2>2. H \in SUBSET Nat /\ H \subseteq 1..Len(ts)
    BY HoldersAre
  <2>3. Lsm!L0(s) = {j \in 1..Len(ts) : ts[j].level = 0}
    BY <1>3 DEF Lsm!L0
  <2>4. \A j \in 1..Len(ts) : ts[j].level = 1 => j = 1
    BY DEF Layered
  <2> HIDE DEF H, ts, st
  <2>5. CASE U # {}
    <3>1. i \in U
      BY <1>3, <2>1, <2>2, <2>3, <2>4, <2>5
    <3>2. U \in SUBSET Nat /\ \A j \in U : j <= i
      BY <2>1, <2>2
    <3>3. Place(k) = i
      <4> HIDE DEF U
      <4>1. Lsm!Newest(U) = i
        BY <3>1, <3>2, NewestIs
      <4> QED
        BY <2>5, <4>1 DEF U, H
    <3> HIDE DEF Place
    <3> QED
      BY <2>1, <3>3
  <2>6. CASE U = {}
    <3>1. Place(k) = i
      <4>1. Lsm!Newest(H) = i
        BY <2>1, <2>2, NewestIs
      <4> QED
        BY <2>6, <4>1 DEF U, H
    <3> HIDE DEF Place
    <3> QED
      BY <2>1, <3>1
  <2> QED
    BY <2>5, <2>6
<1>7. Lsm!Merged(s) = [k \in DOMAIN st |-> st[k]]
  <2> DEFINE f == [k \in keys |-> ts[Place(k)].entries[k]]
  <2>1. f = [k \in keys |-> f[k]] /\ \A k \in keys : f[k] = ts[Place(k)].entries[k]
    OBVIOUS
  <2>2. \A k \in keys : f[k] = st[k]
    <3> HIDE DEF f, keys
    <3> QED
      BY <1>6, <2>1
  <2> HIDE DEF f, keys, st
  <2>3. f = [k \in DOMAIN st |-> st[k]]
    BY <1>5, <2>1, <2>2
  <2> QED
    BY <1>1, <2>3 DEF f
<1>8. Lsm!Merged(s) = st
  <2> HIDE DEF st
  <2> QED
    BY <1>3, <1>7, EntriesAre
<1> QED
  BY <1>3, <1>8

-----------------------------------------------------------------------------
(* What holds of a memtable m, of the replay w of the log and of the runs, *)
(* when latest was acknowledged: all of the memtable is in the log; it has *)
(* the last value of its keys, and the log over the runs that of every     *)
(* key; when no write was torn (clean) the log has no other key than the   *)
(* memtable; and while no torn run was merged, the runs once repaired have *)
(* the last value of all keys the memtable has not.                        *)
Sound(m, w, ts, latest, clean, merged) ==
  /\ Layered(ts)
  /\ DOMAIN m \subseteq DOMAIN w
  /\ \A k \in DOMAIN m : m[k] = latest[k]
  /\ \A k \in RunKey : Value(Upsert(Stored(ts), w), k) = latest[k]
  /\ clean => DOMAIN w \subseteq DOMAIN m /\ \A i \in 1..Len(ts) : ~ts[i].torn
  /\ ~merged => \A k \in RunKey : k \notin DOMAIN m => Value(Stored(Repaired(ts, w)), k) = latest[k]

LEMMA SoundWrite ==
  ASSUME NEW m \in Entries, NEW w \in Entries, NEW ts \in Seq(Table), NEW latest \in [RunKey -> Nat],
         NEW clean \in BOOLEAN, NEW merged \in BOOLEAN, Sound(m, w, ts, latest, clean, merged),
         NEW r \in Journalled
  PROVE  Sound(Upsert(m, Single(r)), Upsert(w, Single(r)), ts,
               [latest EXCEPT ![r.key] = r.val], clean, merged)
<1> DEFINE x == Single(r)
           m1 == Upsert(m, x)
           w1 == Upsert(w, x)
           l1 == [latest EXCEPT ![r.key] = r.val]
<1>1. x \in Entries /\ DOMAIN x = {r.key} /\ x[r.key] = r.val /\ r.key \in RunKey
  BY SingleIs DEF Journalled
<1>2. l1[r.key] = r.val /\ \A k \in RunKey : k # r.key => l1[k] = latest[k]
  BY <1>1
<1> HIDE DEF x
<1>3. /\ m1 \in Entries /\ DOMAIN m1 = DOMAIN m \cup {r.key} /\ m1[r.key] = r.val
      /\ \A k \in DOMAIN m : k # r.key => m1[k] = m[k]
  <2>1. m1 \in Entries /\ DOMAIN m1 = DOMAIN m \cup DOMAIN x
           /\ (\A k \in DOMAIN x : m1[k] = x[k]) /\ \A k \in DOMAIN m \ DOMAIN x : m1[k] = m[k]
    BY <1>1, UpsertIs
  <2> HIDE DEF m1
  <2> QED
    BY <1>1, <2>1
<1>4. /\ w1 \in Entries /\ DOMAIN w1 = DOMAIN w \cup {r.key} /\ w1[r.key] = r.val
      /\ \A k \in DOMAIN w : k # r.key => w1[k] = w[k]
  <2>1. w1 \in Entries /\ DOMAIN w1 = DOMAIN w \cup DOMAIN x
           /\ (\A k \in DOMAIN x : w1[k] = x[k]) /\ \A k \in DOMAIN w \ DOMAIN x : w1[k] = w[k]
    BY <1>1, UpsertIs
  <2> HIDE DEF w1
  <2> QED
    BY <1>1, <2>1
<1>5. Stored(ts) \in Entries /\ DOMAIN m \subseteq RunKey
  BY ContentsAre, EntriesAre
<1> HIDE DEF m1, w1, l1
<1>6. DOMAIN m1 \subseteq DOMAIN w1
  BY <1>3, <1>4 DEF Sound
<1>7. \A k \in DOMAIN m1 : m1[k] = l1[k]
  BY <1>2, <1>3, <1>5 DEF Sound
<1>8. ASSUME NEW k \in RunKey PROVE Value(Upsert(Stored(ts), w1), k) = l1[k]
  <2>1. Value(Upsert(Stored(ts), w1), k) = IF k \in DOMAIN w1 THEN w1[k] ELSE Value(Stored(ts), k)
    BY <1>4, <1>5, ValueUpserted
  <2>2. Value(Upsert(Stored(ts), w), k) = IF k \in DOMAIN w THEN w[k] ELSE Value(Stored(ts), k)
    BY <1>5, ValueUpserted
  <2> QED
    BY <1>2, <1>4, <2>1, <2>2 DEF Sound
<1>9. clean => DOMAIN w1 \subseteq DOMAIN m1 /\ \A i \in 1..Len(ts) : ~ts[i].torn
  BY <1>3, <1>4 DEF Sound
<1>10. ASSUME ~merged, NEW k \in RunKey, k \notin DOMAIN m1
       PROVE  Value(Stored(Repaired(ts, w1)), k) = l1[k]
  <2>1. k # r.key /\ k \notin DOMAIN m
    BY <1>3, <1>10
  <2>2. Value(Stored(Repaired(ts, w)), k) = latest[k]
    BY <1>10, <2>1 DEF Sound
  <2>3. (k \in DOMAIN w <=> k \in DOMAIN w1) /\ (k \in DOMAIN w => w[k] = w1[k])
    BY <1>4, <2>1
  <2>4. Value(Stored(Repaired(ts, w)), k) = Value(Stored(Repaired(ts, w1)), k)
    BY <1>4, <2>3, RepairedBy
  <2> QED
    BY <1>2, <2>1, <2>2, <2>4
<1>11. Sound(m1, w1, ts, l1, clean, merged)
  BY <1>6, <1>7, <1>8, <1>9, <1>10 DEF Sound
<1> QED
  BY <1>11 DEF m1, w1, l1, x

LEMMA NoneIs == Lsm!NoEntries \in Entries /\ DOMAIN Lsm!NoEntries = {}
<1>1. Lsm!NoEntries \in [{} -> Nat]
  BY DEF Lsm!NoEntries
<1>2. {} \in SUBSET RunKey
  OBVIOUS
<1> QED
  BY <1>1, <1>2, EntriesAre

LEMMA SoundFlush ==
  ASSUME NEW m \in Entries, NEW w \in Entries, NEW ts \in Seq(Table), NEW latest \in [RunKey -> Nat],
         NEW clean \in BOOLEAN, NEW merged \in BOOLEAN, Sound(m, w, ts, latest, clean, merged)
  PROVE  LET ts1 == IF DOMAIN m = {} THEN ts ELSE Append(ts, Lsm!ToTable(0, m))
         IN ts1 \in Seq(Table) /\ Sound(Lsm!NoEntries, Without(w, DOMAIN m), ts1, latest, clean, merged)
<1> DEFINE w1 == Without(w, DOMAIN m)
           none == Lsm!NoEntries
           t == Lsm!ToTable(0, m)
<1>1. none \in Entries /\ DOMAIN none = {}
  BY NoneIs
<1>2. w1 \in Entries /\ DOMAIN w1 = DOMAIN w \ DOMAIN m /\ \A k \in DOMAIN w \ DOMAIN m : w1[k] = w[k]
  BY WithoutIs
<1>3. t \in Table /\ t.level = 0 /\ t.entries = m /\ t.bloom = Lsm!BuildBloom(m) /\ ~t.torn
  BY TableIs
<1>4. Stored(ts) \in Entries /\ DOMAIN m \subseteq RunKey
  BY ContentsAre, EntriesAre
<1> HIDE DEF w1, none, t
<1>5. CASE DOMAIN m = {}
  <2>1. w1 = w
    BY <1>2, <1>5, SameEntries
  <2>2. Sound(none, w, ts, latest, clean, merged)
    BY <1>1, <1>5 DEF Sound
  <2> QED
    BY <1>5, <2>1, <2>2 DEF w1, none
<1>6. CASE DOMAIN m # {}
  <2> DEFINE us == Append(ts, t)
  <2>1. us \in Seq(Table) /\ Len(us) = Len(ts) + 1 /\ us[Len(ts) + 1] = t
           /\ Len(ts) \in Nat /\ \A i \in 1..Len(ts) : us[i] = ts[i]
    BY <1>3
  <2>2. Stored(us) = Upsert(Stored(ts), m) /\ Stored(us) \in Entries
    BY <1>3, <2>1, StoredAppended, ContentsAre
  <2>3. Layered(us)
    <3> HIDE DEF us
    <3> QED
      BY <1>3, <2>1 DEF Sound, Layered
  <2>4. Repaired(us, w1) = Append(Repaired(ts, w1), t)
    BY <1>2, <1>3, RepairedAppended
  <2>5. Repaired(ts, w1) \in Seq(Table)
    BY <1>2, RepairedAre
  <2> DEFINE rs == Repaired(ts, w1)
  <2>6. Stored(rs) \in Entries
    BY <2>5, ContentsAre
  <2> HIDE DEF rs
  <2>7. Stored(Repaired(us, w1)) = Upsert(Stored(rs), m)
    <3>1. rs \in Seq(Table)
      BY <2>5 DEF rs
    <3>2. Stored(Append(rs, t)) = Upsert(Stored(rs), t.entries)
      BY <1>3, <3>1, StoredAppended
    <3> QED
      BY <1>3, <2>4, <3>2 DEF rs
  <2> HIDE DEF us
  <2>8. ASSUME NEW k \in RunKey PROVE Value(Upsert(Stored(us), w1), k) = latest[k]
    <3>1. Value(Upsert(Stored(us), w1), k) = IF k \in DOMAIN w1 THEN w1[k] ELSE Value(Stored(us), k)
      BY <1>2, <2>2, ValueUpserted
    <3>2. Value(Stored(us), k) = IF k \in DOMAIN m THEN m[k] ELSE Value(Stored(ts), k)
      BY <1>4, <2>2, ValueUpserted
    <3>3. Value(Upsert(Stored(ts), w), k) = IF k \in DOMAIN w THEN w[k] ELSE Value(Stored(ts), k)
      BY <1>4, ValueUpserted
    <3>4. Value(Upsert(Stored(ts), w), k) = latest[k] /\ (k \in DOMAIN m => m[k] = latest[k] /\ k \in DOMAIN w)
      BY DEF Sound
    <3>5. (k \in DOMAIN w1 <=> k \in DOMAIN w /\ k \notin DOMAIN m) /\ (k \in DOMAIN w1 => w1[k] = w[k])
      BY <1>2
    <3> QED
      BY <3>1, <3>2, <3>3, <3>4, <3>5
  <2>9. clean => DOMAIN w1 \subseteq DOMAIN none /\ \A i \in 1..Len(us) : ~us[i].torn
    <3>1. clean => DOMAIN w1 \subseteq DOMAIN none
      BY <1>2 DEF Sound
    <3>2. ASSUME clean, NEW i \in 1..Len(us) PROVE ~us[i].torn
      <4>1. i \in 1..Len(ts) \/ i = Len(ts) + 1
        BY <2>1
      <4> QED
        BY <1>3, <2>1, <3>2, <4>1 DEF Sound
    <3> QED
      BY <3>1, <3>2
  <2>10. ASSUME ~merged, NEW k \in RunKey PROVE Value(Stored(Repaired(us, w1)), k) = latest[k]
    <3>1. Value(Stored(Repaired(us, w1)), k) = IF k \in DOMAIN m THEN m[k] ELSE Value(Stored(rs), k)
      BY <2>6, <2>7, ValueUpserted
    <3>2. CASE k \in DOMAIN m
      BY <3>1, <3>2 DEF Sound
    <3>3. CASE k \notin DOMAIN m
      <4>1. (k \in DOMAIN w <=> k \in DOMAIN w1) /\ (k \in DOMAIN w => w[k] = w1[k])
        BY <1>2, <3>3
      <4>2. Value(Stored(Repaired(ts, w)), k) = Value(Stored(rs), k)
        BY <1>2, <4>1, RepairedBy DEF rs
      <4> QED
        BY <2>10, <3>1, <3>3, <4>2 DEF Sound
    <3> QED
      BY <3>2, <3>3
  <2>11. Sound(none, w1, us, latest, clean, merged)
    BY <1>1, <2>3, <2>8, <2>9, <2>10 DEF Sound
  <2> QED
    BY <1>6, <2>1, <2>11 DEF us, w1, none, t
<1> QED
  BY <1>5, <1>6

(* Merged runs make one, without tombstones, if none of them was torn.     *)
LEMMA SoundMerge ==
  ASSUME NEW m \in Entries, NEW w \in Entries, NEW ts \in Seq(Table), NEW latest \in [RunKey -> Nat],
         NEW clean \in BOOLEAN, NEW merged \in BOOLEAN, Sound(m, w, ts, latest, clean, merged),
         NEW live, live = [k \in {j \in DOMAIN Stored(ts) : Stored(ts)[j] # 0} |-> Stored(ts)[k]]
  PROVE  LET ts1 == <<Lsm!ToTable(1, live)>>
         IN /\ ts1 \in Seq(Table)
            /\ Sound(m, w, ts1, latest, clean, merged \/ \E i \in 1..Len(ts) : ts[i].torn)
<1> DEFINE st == Stored(ts)
           t == Lsm!ToTable(1, live)
           us == <<t>>
<1>1. st \in Entries
  BY ContentsAre
<1>2. live \in Entries /\ \A k : Value(live, k) = Value(st, k)
  <2>1. {j \in DOMAIN st : st[j] # 0} \in SUBSET RunKey /\ \A k \in DOMAIN st : st[k] \in Nat
    BY <1>1, EntriesAre
  <2> HIDE DEF st
  <2>2. live = [k \in {j \in DOMAIN st : st[j] # 0} |-> st[k]]
    BY DEF st
  <2>3. live \in [{j \in DOMAIN st : st[j] # 0} -> Nat]
    BY <2>1, <2>2
  <2>4. live \in Entries
    BY <2>1, <2>3, EntriesAre
  <2>5. \A k : Value(live, k) = Value(st, k)
    BY <2>2 DEF Value
  <2> QED
    BY <2>4, <2>5
<1>3. t \in Table /\ t.level = 1 /\ t.entries = live /\ t.bloom = Lsm!BuildBloom(live) /\ ~t.torn
  BY <1>2, TableIs
<1> HIDE DEF st, t
<1>4. us \in Seq(Table) /\ Len(us) = 1 /\ us[1] = t
  BY <1>3
<1>5. \A k : Value(Stored(us), k) = Value(live, k)
  <2>1. <<>> \in Seq(Table) /\ Append(<<>>, t) = us
    BY <1>3
  <2> DEFINE no == <<>>
             e == Stored(no)
  <2>2. e \in Entries /\ DOMAIN e = {}
    <3>1. no \in Seq(Table) /\ DOMAIN Contents(no) = {}
      BY DEF Contents
    <3> HIDE DEF no
    <3> QED
      BY <3>1, ContentsAre, LaidNone DEF Stored
  <2>3. Stored(us) = Upsert(e, live)
    <3> HIDE DEF e
    <3>1. Stored(Append(no, t)) = Upsert(Stored(no), t.entries)
      BY <1>3, <2>1, StoredAppended
    <3> QED
      BY <1>3, <2>1, <3>1 DEF e
  <2> HIDE DEF e
  <2> QED
    BY <1>2, <2>2, <2>3, ValueUpserted DEF Value
<1>6. Layered(us)
  BY <1>3, <1>4 DEF Layered
<1>7. Repaired(us, w) = us
  <2> HIDE DEF us
  <2>1. Repaired(us, w) \in Seq(Table) /\ Len(Repaired(us, w)) = Len(us)
           /\ \A i \in 1..Len(us) : Repaired(us, w)[i] = us[i]
    <3>1. \A i \in 1..Len(us) : us[i] = t
      BY <1>4
    <3> QED
      BY <1>3, <1>4, <3>1, RepairedAre
  <2> QED
    BY <1>4, <2>1, SeqEqual
<1>8. Stored(us) \in Entries
  BY <1>4, ContentsAre
<1> HIDE DEF us
<1>9. ASSUME NEW k \in RunKey PROVE Value(Upsert(Stored(us), w), k) = latest[k]
  <2>1. Value(Upsert(Stored(us), w), k) = IF k \in DOMAIN w THEN w[k] ELSE Value(Stored(us), k)
    BY <1>8, ValueUpserted
  <2>2. Value(Upsert(st, w), k) = IF k \in DOMAIN w THEN w[k] ELSE Value(st, k)
    BY <1>1, ValueUpserted
  <2>3. Value(Stored(us), k) = Value(st, k)
    BY <1>2, <1>5
  <2>4. Value(Upsert(st, w), k) = latest[k]
    BY DEF Sound, st
  <2> QED
    BY <2>1, <2>2, <2>3, <2>4
<1>10. ASSUME ~merged, \A i \in 1..Len(ts) : ~ts[i].torn, NEW k \in RunKey, k \notin DOMAIN m
       PROVE  Value(Stored(Repaired(us, w)), k) = latest[k]
  <2>1. Value(Stored(Repaired(ts, w)), k) = latest[k]
    BY <1>10 DEF Sound
  <2>2. Repaired(ts, w) = ts
    <3>1. Repaired(ts, w) \in Seq(Table) /\ Len(Repaired(ts, w)) = Len(ts)
             /\ \A i \in 1..Len(ts) : Repaired(ts, w)[i] = ts[i]
      BY <1>10, RepairedAre
    <3> QED
      BY <3>1, SeqEqual
  <2>3. Value(Stored(us), k) = Value(st, k)
    BY <1>2, <1>5
  <2> QED
    BY <1>7, <2>1, <2>2, <2>3 DEF st
<1>11. Sound(m, w, us, latest, clean, merged \/ \E i \in 1..Len(ts) : ts[i].torn)
  BY <1>3, <1>4, <1>6, <1>9, <1>10 DEF Sound
<1> QED
  BY <1>4, <1>11 DEF us, t

(* The replay of the log is the memtable after a crash. *)
LEMMA SoundCrash ==
  ASSUME NEW m \in Entries, NEW w \in Entries, NEW ts \in Seq(Table), NEW latest \in [RunKey -> Nat],
         NEW clean \in BOOLEAN, NEW merged \in BOOLEAN, Sound(m, w, ts, latest, clean, merged)
  PROVE  Sound(w, w, ts, latest, clean, merged)
<1>1. Stored(ts) \in Entries /\ DOMAIN w \subseteq RunKey
  BY ContentsAre, EntriesAre
<1>2. \A k \in RunKey : /\ Value(Upsert(Stored(ts), w), k) = latest[k]
                        /\ Value(Upsert(Stored(ts), w), k) =
                             IF k \in DOMAIN w THEN w[k] ELSE Value(Stored(ts), k)
  BY <1>1, ValueUpserted DEF Sound
<1>3. \A k \in DOMAIN w : w[k] = latest[k]
  BY <1>1, <1>2
<1>4. ASSUME NEW k \in RunKey, k \notin DOMAIN w
      PROVE  Value(Stored(Repaired(ts, w)), k) = latest[k]
  BY <1>2, <1>4, RepairedBy
<1> QED
  BY <1>2, <1>3, <1>4 DEF Sound

(* Once the newest run is torn the log decides, whatever it held.          *)
LEMMA SoundTorn ==
  ASSUME NEW m \in Entries, NEW w \in Entries, NEW ts \in Seq(Table), NEW latest \in [RunKey -> Nat],
         NEW merged \in BOOLEAN, Layered(ts), Len(ts) # 0, ts[Len(ts)].torn,
         DOMAIN m \subseteq DOMAIN w, \A k \in DOMAIN m : m[k] = latest[k],
         \A k \in RunKey : Value(Upsert(Stored(ts), w), k) = latest[k]
  PROVE  Sound(m, w, ts, latest, FALSE, merged)
<1>1. \A k : Value(Stored(Repaired(ts, w)), k) = Value(Upsert(Stored(ts), w), k)
  BY RepairedLast
<1> QED
  BY <1>1 DEF Sound

LEMMA LastKeyIs ==
  ASSUME NEW e \in Entries, NEW b \in Nat, \A k \in DOMAIN e : k <= b, DOMAIN e # {}
  PROVE  Lsm!LastKey(e) \in DOMAIN e
<1>1. DOMAIN e \in SUBSET Nat
  BY EntriesAre, RunKeyAssumption
<1>2. \E k \in DOMAIN e : \A j \in DOMAIN e : j <= k
  BY <1>1, GreatestExists
<1> QED
  BY <1>2 DEF Lsm!LastKey

(* A torn run. *)
LEMMA TornIs ==
  ASSUME NEW t \in Table, NEW last, last = Lsm!LastKey(t.entries)
  PROVE  /\ Lsm!Torn(t) \in Table /\ Lsm!Torn(t).torn /\ Lsm!Torn(t).level = t.level
         /\ Lsm!Torn(t).bloom = t.bloom /\ Lsm!Torn(t).entries = Without(t.entries, {last})
         /\ Lsm!BuildBloom(t.entries) \subseteq t.bloom =>
              Lsm!BuildBloom(Without(t.entries, {last})) \subseteq t.bloom
<1> DEFINE e == t.entries
           rest == [k \in DOMAIN e \ {last} |-> e[k]]
           u == [t EXCEPT !.entries = rest]
<1>1. e \in Entries /\ t.level \in {0, 1} /\ t.bloom \in SUBSET Bits
  BY DEF Table
<1>2. rest = Without(e, {last})
  BY DEF Without
<1>3. rest \in Entries /\ DOMAIN rest \subseteq DOMAIN e
  BY <1>1, <1>2, WithoutIs
<1>4. Lsm!Torn(t) = [t EXCEPT !.entries = rest, !.torn = TRUE]
  BY DEF Lsm!Torn
<1> HIDE DEF rest
<1>5. [t EXCEPT !.entries = rest, !.torn = TRUE] \in Table
  BY <1>3 DEF Table
<1>6. Lsm!Torn(t).torn /\ Lsm!Torn(t).level = t.level /\ Lsm!Torn(t).bloom = t.bloom /\ Lsm!Torn(t).entries = rest
  BY <1>4 DEF Table
<1>7. Lsm!BuildBloom(e) \subseteq t.bloom => Lsm!BuildBloom(rest) \subseteq t.bloom
  BY <1>3 DEF Lsm!BuildBloom
<1> QED
  BY <1>2, <1>4, <1>5, <1>6, <1>7

(* The only run is what a torn flush left of the memtable. *)
LEMMA SoundTornFlush ==
  ASSUME NEW m \in Entries, NEW w \in Entries, NEW latest \in [RunKey -> Nat],
         NEW clean \in BOOLEAN, NEW merged \in BOOLEAN, Sound(m, w, <<>>, latest, clean, merged),
         DOMAIN m # {}, NEW last
  PROVE  LET ts1 == <<[Lsm!ToTable(0, Without(m, {last})) EXCEPT !.torn = TRUE]>>
         IN ts1 \in Seq(Table) /\ Sound(Lsm!NoEntries, w, ts1, latest, FALSE, merged)
<1> DEFINE kept == Without(m, {last})
           t == Lsm!ToTable(0, kept)
           u == [t EXCEPT !.torn = TRUE]
           us == <<u>>
           no == <<>>
           e == Stored(no)
           none == Lsm!NoEntries
<1>1. kept \in Entries /\ DOMAIN kept \subseteq DOMAIN m
  <2>1. kept \in Entries /\ DOMAIN kept = DOMAIN m \ {last}
    BY WithoutIs
  <2> HIDE DEF kept
  <2> QED
    BY <2>1
<1> HIDE DEF kept
<1>2. t \in Table /\ t.level = 0 /\ t.entries = kept /\ t.bloom = Lsm!BuildBloom(kept)
  BY <1>1, TableIs
<1> HIDE DEF t
<1>3. u \in Table /\ u.level = 0 /\ u.entries = kept /\ u.bloom = Lsm!BuildBloom(kept) /\ u.torn
  BY <1>2 DEF Table
<1> HIDE DEF u
<1>4. us \in Seq(Table) /\ Len(us) = 1 /\ us[1] = u /\ us = Append(no, u) /\ no \in Seq(Table)
  BY <1>3
<1>5. e \in Entries /\ DOMAIN e = {}
  <2>1. no \in Seq(Table) /\ DOMAIN Contents(no) = {}
    BY DEF Contents
  <2> HIDE DEF no
  <2> QED
    BY <2>1, ContentsAre, LaidNone DEF Stored
<1>6. Stored(us) = Upsert(e, kept)
  <2> HIDE DEF us, no
  <2> QED
    BY <1>3, <1>4, StoredAppended
<1>7. Sound(m, w, no, latest, clean, merged)
  OBVIOUS
<1>8. none \in Entries /\ DOMAIN none = {}
  BY NoneIs
<1>9. Stored(us) \in Entries
  BY <1>4, ContentsAre
<1> HIDE DEF us, no, none
<1>10. ASSUME NEW k \in RunKey PROVE Value(Upsert(Stored(us), w), k) = latest[k]
  <2>1. Value(Upsert(Stored(us), w), k) = IF k \in DOMAIN w THEN w[k] ELSE Value(Stored(us), k)
    BY <1>9, ValueUpserted
  <2>2. Value(Stored(us), k) = IF k \in DOMAIN kept THEN kept[k] ELSE Value(e, k)
    BY <1>1, <1>5, <1>6, ValueUpserted
  <2>3. Value(Upsert(e, w), k) = IF k \in DOMAIN w THEN w[k] ELSE Value(e, k)
    BY <1>5, ValueUpserted
  <2>4. Value(Upsert(e, w), k) = latest[k] /\ DOMAIN m \subseteq DOMAIN w
    BY <1>7 DEF Sound
  <2> QED
    BY <1>1, <2>1, <2>2, <2>3, <2>4
<1>11. Layered(us)
  BY <1>3, <1>4 DEF Layered
<1>12. Sound(none, w, us, latest, FALSE, merged)
  <2>1. Len(us) # 0 /\ us[Len(us)].torn
    BY <1>3, <1>4
  <2> QED
    BY <1>4, <1>8, <1>10, <1>11, <2>1, SoundTorn
<1> QED
  BY <1>4, <1>12 DEF us, u, t, kept, none

(* What tearing the newest run drops goes to the log, before the rest.     *)
AfterTear(m, w, ts, latest, merged) ==
  LET n == Len(ts)
      target == ts[n]
      last == Lsm!LastKey(target.entries)
      dropped == [key |-> last, val |-> target.entries[last]]
  IN IF DOMAIN target.entries = {}
     THEN /\ [ts EXCEPT ![n].torn = TRUE] \in Seq(Table)
          /\ Sound(m, w, [ts EXCEPT ![n].torn = TRUE], latest, FALSE, merged)
     ELSE /\ dropped \in Journalled /\ last \in DOMAIN target.entries
          /\ [ts EXCEPT ![n] = Lsm!Torn(target)] \in Seq(Table)
          /\ Sound(m, Upsert(Single(dropped), w), [ts EXCEPT ![n] = Lsm!Torn(target)], latest, FALSE, merged)

LEMMA SoundTornRun ==
  ASSUME NEW m \in Entries, NEW w \in Entries, NEW ts \in Seq(Table), NEW latest \in [RunKey -> Nat],
         NEW clean \in BOOLEAN, NEW merged \in BOOLEAN, Sound(m, w, ts, latest, clean, merged),
         Len(ts) # 0, NEW b \in Nat, \A k \in DOMAIN ts[Len(ts)].entries : k <= b
  PROVE  AfterTear(m, w, ts, latest, merged)
<1> DEFINE n == Len(ts)
           target == ts[n]
           e == target.entries
           last == Lsm!LastKey(e)
           dropped == [key |-> last, val |-> e[last]]
<1>1. n \in Nat /\ n \in 1..n /\ DOMAIN ts = 1..n /\ target \in Table /\ \A i \in 1..n : ts[i] \in Table
  OBVIOUS
<1>2. e \in Entries /\ target.level \in {0, 1} /\ target.bloom \in SUBSET Bits
  BY <1>1 DEF Table
<1>3. Stored(ts) \in Entries
  BY ContentsAre
<1>4. ASSUME NEW u \in Table
      PROVE  /\ [ts EXCEPT ![n] = u] \in Seq(Table) /\ Len([ts EXCEPT ![n] = u]) = n
             /\ [ts EXCEPT ![n] = u][n] = u
             /\ \A i \in 1..n : i # n => [ts EXCEPT ![n] = u][i] = ts[i]
  BY <1>1
<1>5. ASSUME NEW u \in Table, NEW w1 \in Entries, u.torn, u.level = target.level,
             Lsm!BuildBloom(u.entries) \subseteq u.bloom, DOMAIN w \subseteq DOMAIN w1,
             \A k \in DOMAIN w : w1[k] = w[k],
             \A k : k \notin DOMAIN w1 => Value(u.entries, k) = Value(e, k) /\
                                          (k \in DOMAIN u.entries <=> k \in DOMAIN e),
             \A k \in DOMAIN w1 : k \notin DOMAIN w => k \in DOMAIN e /\ w1[k] = e[k]
      PROVE  Sound(m, w1, [ts EXCEPT ![n] = u], latest, FALSE, merged)
  <2> DEFINE us == [ts EXCEPT ![n] = u]
             p == Contents(ts)
             q == Contents(us)
  <2>1. us \in Seq(Table) /\ Len(us) = n /\ us[n] = u /\ \A i \in 1..n : i # n => us[i] = ts[i]
    BY <1>4
  <2> HIDE DEF us
  <2>2. p \in Seq(Entries) /\ Len(p) = n /\ \A i \in 1..n : p[i] = ts[i].entries
    BY ContentsAre
  <2>3. q \in Seq(Entries) /\ Len(q) = n /\ \A i \in 1..n : q[i] = us[i].entries
    BY <2>1, ContentsAre
  <2>4. Stored(us) \in Entries /\ Stored(us) = Laid(q) /\ Stored(ts) = Laid(p)
    BY <2>1, ContentsAre DEF Stored
  <2> HIDE DEF p, q
  <2>5. ASSUME NEW k \in RunKey PROVE Value(Upsert(Stored(us), w1), k) = latest[k]
    <3>1. Value(Upsert(Stored(us), w1), k) = IF k \in DOMAIN w1 THEN w1[k] ELSE Value(Stored(us), k)
      BY <2>4, ValueUpserted
    <3>2. Value(Upsert(Stored(ts), w), k) = IF k \in DOMAIN w THEN w[k] ELSE Value(Stored(ts), k)
      BY <1>3, ValueUpserted
    <3>3. Value(Upsert(Stored(ts), w), k) = latest[k]
      BY DEF Sound
    <3>4. CASE k \in DOMAIN w
      BY <1>5, <3>1, <3>2, <3>3, <3>4
    <3>5. CASE k \in DOMAIN w1 /\ k \notin DOMAIN w
      <4>1. k \in DOMAIN e /\ w1[k] = e[k]
        BY <1>5, <3>5
      <4>2. p[n] = e /\ Len(p) # 0
        BY <1>1, <2>2
      <4> HIDE DEF e, n
      <4>3. k \in DOMAIN Laid(p) /\ Laid(p)[k] = e[k]
        BY <2>2, <4>1, <4>2, LaidLast
      <4>4. Value(Stored(ts), k) = e[k]
        BY <2>4, <4>3 DEF Value
      <4> QED
        BY <3>1, <3>2, <3>3, <3>5, <4>1, <4>4
    <3>6. CASE k \notin DOMAIN w1
      <4>1. ASSUME NEW i \in 1..n PROVE /\ k \in DOMAIN p[i] <=> k \in DOMAIN q[i]
                                        /\ k \in DOMAIN p[i] => p[i][k] = q[i][k]
        <5>1. CASE i # n
          BY <2>1, <2>2, <2>3, <5>1
        <5>2. CASE i = n
          <6>1. p[i] = e /\ q[i] = u.entries
            BY <2>1, <2>2, <2>3, <5>2
          <6>2. Value(u.entries, k) = Value(e, k) /\ (k \in DOMAIN u.entries <=> k \in DOMAIN e)
            BY <1>5, <3>6
          <6> HIDE DEF e
          <6> QED
            BY <6>1, <6>2 DEF Value
        <5> QED
          BY <5>1, <5>2
      <4>2. Value(Stored(ts), k) = Value(Stored(us), k)
        BY <2>2, <2>3, <2>4, <4>1, LaidSameAt
      <4>3. k \notin DOMAIN w
        BY <1>5, <3>6
      <4> QED
        BY <3>1, <3>2, <3>3, <3>6, <4>2, <4>3
    <3> QED
      BY <3>4, <3>5, <3>6
  <2>6. Layered(us)
    <3>1. ASSUME NEW i \in 1..n PROVE /\ us[i].level = 1 => i = 1
                                      /\ Lsm!BuildBloom(us[i].entries) \subseteq us[i].bloom
      <4>1. CASE i # n
        BY <2>1, <4>1 DEF Sound, Layered
      <4>2. CASE i = n
        <5>1. us[i] = u /\ (ts[n].level = 1 => n = 1)
          BY <1>1, <2>1, <4>2 DEF Sound, Layered
        <5> QED
          BY <1>5, <4>2, <5>1
      <4> QED
        BY <4>1, <4>2
    <3> QED
      BY <2>1, <3>1 DEF Layered
  <2>7. us[Len(us)].torn /\ Len(us) # 0
    BY <1>1, <1>5, <2>1
  <2>8. DOMAIN m \subseteq DOMAIN w1 /\ \A k \in DOMAIN m : m[k] = latest[k]
    BY <1>5 DEF Sound
  <2>9. Sound(m, w1, us, latest, FALSE, merged)
    BY <1>5, <2>1, <2>5, <2>6, <2>7, <2>8, SoundTorn
  <2> QED
    BY <2>9 DEF us
<1>6. Lsm!BuildBloom(e) \subseteq target.bloom
  BY <1>1 DEF Sound, Layered
<1>7. CASE DOMAIN e = {}
  <2> DEFINE u == [target EXCEPT !.torn = TRUE]
  <2>1. u \in Table /\ u.torn /\ u.level = target.level /\ u.entries = e /\ u.bloom = target.bloom
    BY <1>1 DEF Table
  <2>2. [ts EXCEPT ![n].torn = TRUE] = [ts EXCEPT ![n] = u]
    OBVIOUS
  <2> HIDE DEF u, e, target
  <2>3. Sound(m, w, [ts EXCEPT ![n] = u], latest, FALSE, merged)
    BY <1>5, <1>6, <2>1
  <2>4. [ts EXCEPT ![n] = u] \in Seq(Table)
    BY <1>4, <2>1
  <2> QED
    BY <1>7, <2>2, <2>3, <2>4 DEF e, target, AfterTear
<1>8. CASE DOMAIN e # {}
  <2> DEFINE u == Lsm!Torn(target)
             x == Single(dropped)
             w1 == Upsert(x, w)
  <2>1. last \in DOMAIN e
    BY <1>2, <1>8, LastKeyIs
  <2>2. dropped \in Journalled /\ dropped.key = last /\ dropped.val = e[last]
    BY <1>2, <2>1, EntriesAre DEF Journalled
  <2>3. x \in Entries /\ DOMAIN x = {last} /\ x[last] = e[last]
    BY <2>2, SingleIs
  <2>4. /\ u \in Table /\ u.torn /\ u.level = target.level /\ u.bloom = target.bloom
        /\ u.entries = Without(e, {last})
        /\ Lsm!BuildBloom(u.entries) \subseteq u.bloom
    BY <1>1, <1>6, TornIs
  <2>5. u.entries \in Entries /\ DOMAIN u.entries = DOMAIN e \ {last} /\ \A k \in DOMAIN e \ {last} : u.entries[k] = e[k]
    <3>1. e \in Entries /\ u.entries = Without(e, {last})
      BY <1>2, <2>4
    <3> HIDE DEF u, e, last
    <3>2. /\ Without(e, {last}) \in Entries /\ DOMAIN Without(e, {last}) = DOMAIN e \ {last}
          /\ \A k \in DOMAIN e \ {last} : Without(e, {last})[k] = e[k]
      BY <3>1, WithoutIs
    <3> QED
      BY <3>1, <3>2
  <2> HIDE DEF x, u, e, last, target, dropped
  <2>6. /\ w1 \in Entries /\ DOMAIN w1 = DOMAIN x \cup DOMAIN w
        /\ \A k \in DOMAIN w : w1[k] = w[k]
        /\ \A k \in DOMAIN x \ DOMAIN w : w1[k] = x[k]
    BY <2>3, UpsertIs
  <2> HIDE DEF w1
  <2>7. \A k : k \notin DOMAIN w1 => /\ Value(u.entries, k) = Value(e, k)
                                     /\ k \in DOMAIN u.entries <=> k \in DOMAIN e
    BY <2>3, <2>5, <2>6 DEF Value
  <2>8. \A k \in DOMAIN w1 : k \notin DOMAIN w => k \in DOMAIN e /\ w1[k] = e[k]
    BY <2>1, <2>3, <2>6
  <2>9. Sound(m, w1, [ts EXCEPT ![n] = u], latest, FALSE, merged)
    BY <1>5, <2>4, <2>6, <2>7, <2>8
  <2>10. [ts EXCEPT ![n] = u] \in Seq(Table)
    BY <1>4, <2>4
  <2> QED
    BY <1>8, <2>1, <2>2, <2>9, <2>10 DEF x, u, e, last, target, dropped, w1, AfterTear
<1> QED
  BY <1>7, <1>8

LEMMA SoundRecover ==
  ASSUME NEW m \in Entries, NEW w \in Entries, NEW ts \in Seq(Table), NEW latest \in [RunKey -> Nat],
         NEW clean \in BOOLEAN, NEW merged \in BOOLEAN, Sound(m, w, ts, latest, clean, merged)
  PROVE  Sound(m, w, Repaired(ts, w), latest, clean, merged)
<1> DEFINE us == Repaired(ts, w)
<1>1. us \in Seq(Table) /\ Len(us) = Len(ts) /\ (\A i \in 1..Len(ts) : ~us[i].torn) /\ Layered(us)
  BY RepairedAre DEF Sound
<1>2. Repaired(us, w) = us
  <2> HIDE DEF us
  <2>1. Repaired(us, w) \in Seq(Table) /\ Len(Repaired(us, w)) = Len(us)
           /\ \A i \in 1..Len(us) : Repaired(us, w)[i] = us[i]
    BY <1>1, RepairedAre
  <2> QED
    BY <1>1, <2>1, SeqEqual
<1>3. Stored(us) \in Entries /\ Stored(ts) \in Entries
  BY <1>1, ContentsAre
<1>4. ASSUME NEW k \in RunKey PROVE Value(Upsert(Stored(us), w), k) = latest[k]
  <2>1. Value(Upsert(Stored(us), w), k) = IF k \in DOMAIN w THEN w[k] ELSE Value(Stored(us), k)
    BY <1>3, ValueUpserted
  <2>2. Value(Upsert(Stored(ts), w), k) = IF k \in DOMAIN w THEN w[k] ELSE Value(Stored(ts), k)
    BY <1>3, ValueUpserted
  <2>3. k \notin DOMAIN w => Value(Stored(us), k) = Value(Stored(ts), k)
    BY RepairedBy
  <2>4. Value(Upsert(Stored(ts), w), k) = latest[k]
    BY DEF Sound
  <2> QED
    BY <2>1, <2>2, <2>3, <2>4
<1>5. ~merged => \A k \in RunKey : k \notin DOMAIN m => Value(Stored(us), k) = latest[k]
  BY DEF Sound
<1> HIDE DEF us
<1>6. Sound(m, w, us, latest, clean, merged)
  BY <1>1, <1>2, <1>4, <1>5 DEF Sound
<1> QED
  BY <1>6 DEF us

-----------------------------------------------------------------------------
(* Keys stay bounded, so that every run has a last entry to lose.          *)
Under(w, ts, b) ==
  /\ \A k \in DOMAIN w : k <= b
  /\ \A i \in 1..Len(ts) : \A k \in DOMAIN ts[i].entries : k <= b

Clean == hist.faults["torn-write"] = 0

LsmHist == [latest : [RunKey -> Nat], writes : Nat, faults : [Lsm!Faults -> Nat], tornMerged : BOOLEAN]

LsmInv ==
  /\ state \in LsmState /\ net \in [Lsm!Timers -> Nat] /\ hist \in LsmHist
  /\ Sound(state.memtable, Lsm!Replayed(state.wal), state.sstables, hist.latest, Clean, hist.tornMerged)
  /\ \E b \in Nat : Under(Lsm!Replayed(state.wal), state.sstables, b)

LEMMA LsmParts ==
  ASSUME LsmInv
  PROVE  /\ state.memtable \in Entries /\ state.wal \in Seq(Journalled) /\ state.sstables \in Seq(Table)
         /\ state.phase \in {"idle", "flushing", "compacting"} /\ state.diskFull \in BOOLEAN
         /\ Lsm!Replayed(state.wal) \in Entries
         /\ hist.latest \in [RunKey -> Nat] /\ hist.writes \in Nat
         /\ hist.faults \in [Lsm!Faults -> Nat] /\ hist.tornMerged \in BOOLEAN /\ Clean \in BOOLEAN
         /\ Len(state.sstables) \in Nat
<1>1. state \in LsmState /\ hist \in LsmHist
  BY DEF LsmInv
<1>2. /\ state.memtable \in Entries /\ state.wal \in Seq(Journalled) /\ state.sstables \in Seq(Table)
      /\ state.phase \in {"idle", "flushing", "compacting"} /\ state.diskFull \in BOOLEAN
  BY <1>1 DEF LsmState
<1>3. /\ hist.latest \in [RunKey -> Nat] /\ hist.writes \in Nat
      /\ hist.faults \in [Lsm!Faults -> Nat] /\ hist.tornMerged \in BOOLEAN
  BY <1>1 DEF LsmHist
<1>4. Lsm!Replayed(state.wal) \in Entries
  BY <1>2, ReplayedLaid
<1>5. Len(state.sstables) \in Nat
  BY <1>2
<1> QED
  BY <1>2, <1>3, <1>4, <1>5 DEF Clean

LEMMA StateMade ==
  ASSUME NEW m \in Entries, NEW wal \in Seq(Journalled), NEW ts \in Seq(Table),
         NEW phase \in {"idle", "flushing", "compacting"}, NEW full \in BOOLEAN
  PROVE  [memtable |-> m, wal |-> wal, sstables |-> ts, phase |-> phase, diskFull |-> full] \in LsmState
BY DEF LsmState

LEMMA LsmInitial == Lsm!Init => LsmInv
<1> SUFFICES ASSUME Lsm!Init PROVE LsmInv
  OBVIOUS
<1> DEFINE none == <<>>
           m == Lsm!NoEntries
           latest == [k \in RunKey |-> 0]
           faults == [f \in Lsm!Faults |-> 0]
           w == Lsm!Replayed(none)
<1>1. /\ state = [memtable |-> m, wal |-> none, sstables |-> none, phase |-> "idle", diskFull |-> FALSE]
      /\ net = [t \in Lsm!Timers |-> 0]
      /\ hist = [latest |-> latest, writes |-> 0, faults |-> faults, tornMerged |-> FALSE]
  BY DEF Lsm!Init, Lsm!Tombstone
<1>2. none \in Seq(Journalled) /\ none \in Seq(Table) /\ Len(none) = 0 /\ DOMAIN none = {}
  OBVIOUS
<1>3. m \in Entries /\ DOMAIN m = {}
  BY NoneIs
<1>4. latest \in [RunKey -> Nat] /\ faults \in [Lsm!Faults -> Nat] /\ faults["torn-write"] = 0
  BY DEF Lsm!Faults
<1>5. w \in Entries /\ DOMAIN w = {}
  BY ReplayedNone
<1> HIDE DEF none, m, w
<1>6. Stored(none) \in Entries /\ DOMAIN Stored(none) = {}
  <2>1. DOMAIN Contents(none) = {}
    BY <1>2 DEF Contents
  <2> QED
    BY <1>2, <2>1, ContentsAre, LaidNone DEF Stored
<1>7. ASSUME NEW k \in RunKey PROVE Value(Upsert(Stored(none), w), k) = 0 /\ Value(Stored(Repaired(none, w)), k) = 0
  <2>1. Value(Upsert(Stored(none), w), k) = IF k \in DOMAIN w THEN w[k] ELSE Value(Stored(none), k)
    BY <1>5, <1>6, ValueUpserted
  <2>2. Value(Stored(none), k) = 0
    BY <1>6 DEF Value
  <2>3. Value(Stored(Repaired(none, w)), k) = Value(Stored(none), k)
    <3> HIDE DEF latest, faults
    <3>1. k \notin DOMAIN w
      BY <1>5
    <3>2. none \in Seq(Table) /\ w \in Entries
      BY <1>2, <1>5
    <3> QED
      BY <3>1, <3>2, RepairedBy
  <2> QED
    BY <1>5, <2>1, <2>2, <2>3
<1>8. Sound(m, w, none, latest, TRUE, FALSE)
  BY <1>2, <1>3, <1>5, <1>7 DEF Sound, Layered
<1>9. Under(w, none, 0)
  BY <1>2, <1>5 DEF Under
<1>10. state \in LsmState
  BY <1>1, <1>2, <1>3, StateMade
<1>11. hist \in LsmHist /\ hist.latest = latest /\ Clean /\ hist.tornMerged = FALSE
  <2> HIDE DEF latest, faults
  <2> QED
    BY <1>1, <1>4 DEF LsmHist, Clean
<1>12. net \in [Lsm!Timers -> Nat]
  BY <1>1
<1>13. state.memtable = m /\ Lsm!Replayed(state.wal) = w /\ state.sstables = none
  BY <1>1 DEF w
<1> HIDE DEF latest
<1>14. Sound(state.memtable, Lsm!Replayed(state.wal), state.sstables, hist.latest, Clean, hist.tornMerged)
  <2>1. Clean = TRUE
    BY <1>11 DEF Clean
  <2> QED
    BY <1>8, <1>11, <1>13, <2>1
<1>15. \E b \in Nat : Under(Lsm!Replayed(state.wal), state.sstables, b)
  BY <1>9, <1>13
<1> QED
  BY <1>10, <1>11, <1>12, <1>14, <1>15 DEF LsmInv

LEMMA WriteSound ==
  ASSUME LsmInv, NEW key \in RunKey, NEW val \in Nat, Lsm!Write(key, val)
  PROVE  LsmInv'
<1> DEFINE r == [key |-> key, val |-> val]
           m1 == Upsert(state.memtable, Single(r))
           wal1 == Append(state.wal, r)
           w == Lsm!Replayed(state.wal)
           w1 == Lsm!Replayed(wal1)
           l1 == [hist.latest EXCEPT ![key] = val]
           written == [state EXCEPT !.wal = wal1, !.memtable = m1]
<1>1. r \in Journalled /\ r.key = key /\ r.val = val
  BY DEF Journalled
<1>2. m1 = Lsm!Upsert(state.memtable, [k \in {key} |-> val])
  BY DEF Upsert, Single
<1>3. PICK flush \in BOOLEAN :
         /\ state' = IF flush THEN [written EXCEPT !.phase = "flushing"] ELSE written
         /\ net' = IF flush THEN [net EXCEPT !["flush-phase2"] = @ + 1] ELSE net
         /\ hist' = [hist EXCEPT !.writes = @ + 1, !.latest[key] = val]
  <2> HIDE DEF m1
  <2>1. [state EXCEPT !.wal = Append(@, [key |-> key, val |-> val]),
                      !.memtable = Lsm!Upsert(@, [k \in {key} |-> val])] = written
    BY <1>2
  <2> HIDE DEF written
  <2> QED
    BY <2>1 DEF Lsm!Write
<1>4. m1 \in Entries /\ Single(r) \in Entries
  BY <1>1, LsmParts, SingleIs, UpsertIs
<1>5. wal1 \in Seq(Journalled) /\ w1 = Upsert(w, Single(r)) /\ w \in Entries
  BY <1>1, LsmParts, ReplayedAppended
<1>6. l1 \in [RunKey -> Nat]
  BY LsmParts
<1> HIDE DEF m1, wal1, w, r
<1>7. state' \in LsmState /\ state'.memtable = m1 /\ state'.wal = wal1 /\ state'.sstables = state.sstables
  <2>1. state \in LsmState
    BY DEF LsmInv
  <2>2. written \in LsmState /\ written.memtable = m1 /\ written.wal = wal1 /\ written.sstables = state.sstables
    BY <1>4, <1>5, <2>1 DEF LsmState
  <2> HIDE DEF written
  <2> QED
    BY <1>3, <2>2 DEF LsmState
<1>8. hist' \in LsmHist /\ hist'.latest = l1 /\ hist'.faults = hist.faults /\ hist'.tornMerged = hist.tornMerged
  <2>1. hist \in LsmHist
    BY DEF LsmInv
  <2>2. hist' = [hist EXCEPT !.writes = @ + 1, !.latest = l1]
    BY <1>3
  <2> HIDE DEF l1
  <2>3. [hist EXCEPT !.writes = @ + 1] \in LsmHist
    BY <2>1 DEF LsmHist
  <2> QED
    BY <1>6, <2>1, <2>2, <2>3 DEF LsmHist
<1>9. net' \in [Lsm!Timers -> Nat]
  BY <1>3 DEF LsmInv, Lsm!Timers
<1>10. Clean' = Clean /\ Lsm!Replayed(state'.wal) = w1
  BY <1>7, <1>8 DEF Clean
<1>11. Sound(m1, w1, state.sstables, l1, Clean, hist.tornMerged)
  <2>1. Sound(state.memtable, w, state.sstables, hist.latest, Clean, hist.tornMerged)
    BY DEF LsmInv, w
  <2>2. Sound(Upsert(state.memtable, Single(r)), Upsert(w, Single(r)), state.sstables,
              [hist.latest EXCEPT ![r.key] = r.val], Clean, hist.tornMerged)
    BY <1>1, <1>5, <2>1, LsmParts, SoundWrite
  <2> QED
    BY <1>1, <1>5, <2>2 DEF m1
<1>12. \E b \in Nat : Under(w1, state.sstables, b)
  <2>1. PICK b \in Nat : Under(w, state.sstables, b)
    BY DEF LsmInv, w
  <2>2. DOMAIN w1 = DOMAIN w \cup {key}
    <3>1. DOMAIN Single(r) = {key}
      BY <1>1, SingleIs
    <3> QED
      BY <1>4, <1>5, <3>1, UpsertIs
  <2>3. key \in Nat /\ DOMAIN w \subseteq Nat
    BY <1>5, EntriesAre, RunKeyAssumption
  <2>4. \A i \in 1..Len(state.sstables) : DOMAIN state.sstables[i].entries \subseteq Nat
    <3>1. \A i \in 1..Len(state.sstables) : state.sstables[i].entries \in Entries
      BY LsmParts, ContentsAre
    <3> QED
      BY <3>1, EntriesAre, RunKeyAssumption
  <2>5. \A k \in Nat : k <= b => k <= b + key
    BY <2>3
  <2>6. Under(w1, state.sstables, b + key)
    BY <2>1, <2>2, <2>3, <2>4, <2>5 DEF Under
  <2> QED
    BY <2>3, <2>6
<1> HIDE DEF w1, l1
<1> QED
  BY <1>7, <1>8, <1>9, <1>10, <1>11, <1>12 DEF LsmInv

(* What a flush leaves. *)
LEMMA FlushLeaves ==
  ASSUME LsmInv
  PROVE  LET s == Lsm!Flushed(state)
         IN /\ s \in LsmState
            /\ Sound(s.memtable, Lsm!Replayed(s.wal), s.sstables, hist.latest, Clean, hist.tornMerged)
            /\ \E b \in Nat : Under(Lsm!Replayed(s.wal), s.sstables, b)
<1> DEFINE m == state.memtable
           w == Lsm!Replayed(state.wal)
           ts == state.sstables
           wal1 == Lsm!Kept(state.wal, DOMAIN m)
           t == Lsm!ToTable(0, m)
           ts1 == IF DOMAIN m = {} THEN ts ELSE Append(ts, t)
           w1 == Without(w, DOMAIN m)
           none == Lsm!NoEntries
           s == [state EXCEPT !.sstables = ts1, !.memtable = none, !.wal = wal1, !.phase = "idle"]
<1>1. Lsm!Flushed(state) = s
  BY DEF Lsm!Flushed
<1>2. m \in Entries /\ w \in Entries /\ ts \in Seq(Table) /\ state.wal \in Seq(Journalled)
  BY LsmParts
<1>3. wal1 \in Seq(Journalled) /\ Lsm!Replayed(wal1) = w1
  BY <1>2, KeptReplayed
<1>4. Sound(m, w, ts, hist.latest, Clean, hist.tornMerged)
  BY DEF LsmInv
<1>5. none \in Entries
  BY NoneIs
<1> HIDE DEF m, w, ts
<1>6. ts1 \in Seq(Table) /\ Sound(none, w1, ts1, hist.latest, Clean, hist.tornMerged)
  BY <1>2, <1>4, LsmParts, SoundFlush
<1>7. t \in Table /\ t.entries = m
  BY <1>2, TableIs
<1>8. DOMAIN w1 = DOMAIN w \ DOMAIN m
  BY <1>2, WithoutIs
<1> HIDE DEF wal1, t, w1, none
<1>9. PICK b \in Nat : Under(w, ts, b)
  BY DEF LsmInv, w, ts
<1>10. Under(w1, ts1, b)
  <2>1. \A k \in DOMAIN m : k <= b
    BY <1>4, <1>9 DEF Sound, Under
  <2>2. ASSUME NEW i \in 1..Len(ts1) PROVE \A k \in DOMAIN ts1[i].entries : k <= b
    <3>1. CASE DOMAIN m = {}
      BY <1>9, <3>1 DEF Under
    <3>2. CASE DOMAIN m # {}
      <4>1. Len(ts) \in Nat /\ Len(ts1) = Len(ts) + 1 /\ ts1[Len(ts) + 1] = t /\ \A j \in 1..Len(ts) : ts1[j] = ts[j]
        BY <1>2, <1>7, <3>2
      <4> HIDE DEF ts1
      <4> QED
        BY <1>7, <1>9, <2>1, <4>1 DEF Under
    <3> QED
      BY <3>1, <3>2
  <2> QED
    BY <1>8, <1>9, <2>2 DEF Under
<1> HIDE DEF ts1
<1>11. s \in LsmState /\ s.memtable = none /\ s.wal = wal1 /\ s.sstables = ts1
  <2>1. state \in LsmState
    BY DEF LsmInv
  <2>2. [state EXCEPT !.sstables = ts1, !.memtable = none] \in LsmState
    BY <1>5, <1>6, <2>1 DEF LsmState
  <2>3. s \in LsmState
    BY <1>3, <2>1, <2>2 DEF LsmState
  <2>4. s.memtable = none /\ s.wal = wal1 /\ s.sstables = ts1
    BY <2>1 DEF LsmState
  <2> QED
    BY <2>3, <2>4
<1> HIDE DEF s
<1> QED
  BY <1>1, <1>3, <1>6, <1>9, <1>10, <1>11

LEMMA FlushSound ==
  ASSUME LsmInv, Lsm!FlushPhase2
  PROVE  LsmInv'
<1> DEFINE s == Lsm!Flushed(state)
           fired == [net EXCEPT !["flush-phase2"] = @ - 1]
<1>1. PICK full \in BOOLEAN :
         /\ net["flush-phase2"] > 0
         /\ state' = IF full THEN [s EXCEPT !.phase = "compacting"] ELSE s
         /\ net' = IF full THEN [fired EXCEPT !["compact"] = @ + 1] ELSE fired
         /\ hist' = hist
  <2> HIDE DEF s
  <2> QED
    BY DEF Lsm!FlushPhase2, s
<1>2. /\ s \in LsmState
      /\ Sound(s.memtable, Lsm!Replayed(s.wal), s.sstables, hist.latest, Clean, hist.tornMerged)
      /\ \E b \in Nat : Under(Lsm!Replayed(s.wal), s.sstables, b)
  BY FlushLeaves
<1> HIDE DEF s
<1>3. state' \in LsmState /\ state'.memtable = s.memtable /\ state'.wal = s.wal /\ state'.sstables = s.sstables
  BY <1>1, <1>2 DEF LsmState
<1>4. net' \in [Lsm!Timers -> Nat]
  <2>1. net \in [Lsm!Timers -> Nat] /\ "flush-phase2" \in Lsm!Timers /\ "compact" \in Lsm!Timers
    BY DEF LsmInv, Lsm!Timers
  <2>2. fired \in [Lsm!Timers -> Nat]
    BY <1>1, <2>1
  <2> HIDE DEF fired
  <2> QED
    BY <1>1, <2>1, <2>2
<1>5. hist' \in LsmHist /\ Clean' = Clean /\ hist'.latest = hist.latest /\ hist'.tornMerged = hist.tornMerged
  BY <1>1 DEF LsmInv, Clean
<1> QED
  BY <1>2, <1>3, <1>4, <1>5 DEF LsmInv

LEMMA StoredUnder ==
  ASSUME NEW ts \in Seq(Table), NEW w, NEW b, Under(w, ts, b), NEW k \in DOMAIN Stored(ts)
  PROVE  k <= b
<1> DEFINE q == Contents(ts)
<1>1. Len(q) = Len(ts) /\ q \in Seq(Entries) /\ \A i \in 1..Len(ts) : q[i] = ts[i].entries
  BY ContentsAre
<1>2. DOMAIN q = 1..Len(ts)
  BY <1>1
<1>3. k \in DOMAIN Laid(q)
  BY DEF Stored
<1> HIDE DEF q
<1>4. Holding(q, k) # {}
  BY <1>3, LaidDomain
<1>5. PICK i \in Holding(q, k) : TRUE
  BY <1>4
<1>6. i \in 1..Len(ts) /\ k \in DOMAIN ts[i].entries
  BY <1>1, <1>2 DEF Holding
<1> QED
  BY <1>6 DEF Under

(* What a merge leaves, if there is one. *)
LEMMA MergeLeaves ==
  ASSUME LsmInv
  PROVE  LET s == Lsm!Compacted(state)
             torn == \E i \in DOMAIN state.sstables : state.sstables[i].torn
         IN /\ s \in LsmState
            /\ Sound(s.memtable, Lsm!Replayed(s.wal), s.sstables, hist.latest, Clean,
                     hist.tornMerged \/ (s.sstables # state.sstables /\ torn))
            /\ \E b \in Nat : Under(Lsm!Replayed(s.wal), s.sstables, b)
<1> DEFINE m == state.memtable
           w == Lsm!Replayed(state.wal)
           ts == state.sstables
           st == Stored(ts)
           live == [k \in {j \in DOMAIN st : st[j] # 0} |-> st[k]]
           idle == [state EXCEPT !.phase = "idle"]
           ts1 == <<Lsm!ToTable(1, live)>>
           done == [state EXCEPT !.sstables = ts1, !.phase = "idle"]
           torn == \E i \in DOMAIN ts : ts[i].torn
           s == Lsm!Compacted(state)
<1>1. m \in Entries /\ w \in Entries /\ ts \in Seq(Table) /\ state \in LsmState
  BY LsmParts DEF LsmInv
<1>2. Sound(m, w, ts, hist.latest, Clean, hist.tornMerged)
  BY DEF LsmInv
<1>3. Lsm!Merged(state) = st
  BY <1>1, <1>2, MergedIs DEF Sound
<1>4. s = idle \/ s = done
  <2> DEFINE merged == Lsm!Merged(state)
             kept == {k \in DOMAIN merged : merged[k] # 0}
             t == <<Lsm!ToTable(1, [k \in kept |-> merged[k]])>>
  <2>1. \/ s = idle
        \/ s = [state EXCEPT !.sstables = t, !.phase = "idle"]
    BY DEF Lsm!Compacted, Lsm!Tombstone
  <2> HIDE DEF merged, st
  <2>2. t = ts1
    BY <1>3 DEF merged
  <2> HIDE DEF t, ts1
  <2> QED
    BY <2>1, <2>2
<1>5. PICK b \in Nat : Under(w, ts, b)
  BY DEF LsmInv
<1>6. CASE s = idle
  <2>1. idle \in LsmState /\ idle.memtable = m /\ idle.wal = state.wal /\ idle.sstables = ts
    BY <1>1 DEF LsmState
  <2> HIDE DEF idle, s, torn, m, w, ts
  <2>2. s \in LsmState /\ s.memtable = m /\ Lsm!Replayed(s.wal) = w /\ s.sstables = ts
    BY <1>6, <2>1 DEF w
  <2>3. Sound(m, w, ts, hist.latest, Clean, hist.tornMerged \/ (ts # ts /\ torn))
    <3>1. (hist.tornMerged \/ (ts # ts /\ torn)) = hist.tornMerged
      BY LsmParts
    <3> QED
      BY <1>2, <3>1
  <2>4. Sound(s.memtable, Lsm!Replayed(s.wal), s.sstables, hist.latest, Clean,
              hist.tornMerged \/ (s.sstables # ts /\ torn))
    BY <2>2, <2>3
  <2>5. Under(Lsm!Replayed(s.wal), s.sstables, b)
    BY <1>5, <2>2
  <2> QED
    BY <1>5, <2>2, <2>4, <2>5 DEF s, torn, ts
<1>7. CASE s = done /\ ts1 = ts
  <2>1. done \in LsmState /\ done.memtable = m /\ done.wal = state.wal /\ done.sstables = ts
    <3>1. [state EXCEPT !.sstables = ts1] \in LsmState
      BY <1>1, <1>7 DEF LsmState
    <3> HIDE DEF ts1
    <3> QED
      BY <1>1, <1>7, <3>1 DEF LsmState
  <2> HIDE DEF done, s, torn, m, w, ts
  <2>2. s \in LsmState /\ s.memtable = m /\ Lsm!Replayed(s.wal) = w /\ s.sstables = ts
    BY <1>7, <2>1 DEF w
  <2>3. Sound(m, w, ts, hist.latest, Clean, hist.tornMerged \/ (ts # ts /\ torn))
    <3>1. (hist.tornMerged \/ (ts # ts /\ torn)) = hist.tornMerged
      BY LsmParts
    <3> QED
      BY <1>2, <3>1
  <2>4. Sound(s.memtable, Lsm!Replayed(s.wal), s.sstables, hist.latest, Clean,
              hist.tornMerged \/ (s.sstables # ts /\ torn))
    BY <2>2, <2>3
  <2>5. Under(Lsm!Replayed(s.wal), s.sstables, b)
    BY <1>5, <2>2
  <2> QED
    BY <1>5, <2>2, <2>4, <2>5 DEF s, torn, ts
<1>8. CASE s = done /\ ts1 # ts
  <2> HIDE DEF m, w, ts, torn, s, st, done
  <2>1. ts1 \in Seq(Table) /\ Sound(m, w, ts1, hist.latest, Clean, hist.tornMerged \/ \E i \in 1..Len(ts) : ts[i].torn)
    <3>1. live = [k \in {j \in DOMAIN Stored(ts) : Stored(ts)[j] # 0} |-> Stored(ts)[k]]
      BY DEF st
    <3> DEFINE latest == hist.latest
               merged == hist.tornMerged
               clean == Clean
    <3>2. latest \in [RunKey -> Nat] /\ merged \in BOOLEAN /\ clean \in BOOLEAN
      BY LsmParts
    <3>3. Sound(m, w, ts, latest, clean, merged)
      BY <1>2
    <3> HIDE DEF live, latest, merged, clean
    <3>4. LET us == <<Lsm!ToTable(1, live)>>
          IN us \in Seq(Table) /\ Sound(m, w, us, latest, clean, merged \/ \E i \in 1..Len(ts) : ts[i].torn)
      BY <1>1, <3>1, <3>2, <3>3, SoundMerge
    <3> QED
      BY <3>4 DEF latest, merged, clean
  <2>2. done \in LsmState /\ done.memtable = m /\ done.wal = state.wal /\ done.sstables = ts1
    <3> HIDE DEF ts1
    <3>1. [state EXCEPT !.sstables = ts1] \in LsmState
      BY <1>1, <2>1 DEF LsmState
    <3> QED
      BY <1>1, <2>1, <3>1 DEF LsmState, done, m
  <2>3. Under(w, ts1, b)
    <3>1. Len(ts1) = 1 /\ ts1[1].entries = live
      <4> DEFINE t == Lsm!ToTable(1, live)
      <4>1. t.entries = live
        BY DEF Lsm!ToTable
      <4> HIDE DEF t
      <4>2. Len(<<t>>) = 1 /\ <<t>>[1] = t
        OBVIOUS
      <4> QED
        BY <4>1, <4>2 DEF t
    <3>2. \A k \in DOMAIN live : k <= b
      BY <1>1, <1>5, StoredUnder DEF st
    <3> HIDE DEF ts1, live
    <3> QED
      BY <1>5, <3>1, <3>2 DEF Under
  <2> HIDE DEF ts1
  <2>4. (\E i \in 1..Len(ts) : ts[i].torn) <=> torn
    <3>1. DOMAIN ts = 1..Len(ts)
      BY <1>1
    <3> QED
      BY <3>1 DEF torn
  <2>5. s \in LsmState /\ s.memtable = m /\ Lsm!Replayed(s.wal) = w /\ s.sstables = ts1
    BY <1>8, <2>2 DEF w
  <2>6. (hist.tornMerged \/ \E i \in 1..Len(ts) : ts[i].torn) = (hist.tornMerged \/ (s.sstables # ts /\ torn))
    BY <1>8, <2>4, <2>5, LsmParts
  <2>7. Sound(s.memtable, Lsm!Replayed(s.wal), s.sstables, hist.latest, Clean,
              hist.tornMerged \/ (s.sstables # ts /\ torn))
    BY <2>1, <2>5, <2>6
  <2>8. Under(Lsm!Replayed(s.wal), s.sstables, b)
    BY <2>3, <2>5
  <2> QED
    BY <1>5, <2>5, <2>7, <2>8 DEF s, torn, ts
<1> QED
  BY <1>4, <1>6, <1>7, <1>8

LEMMA CompactSound ==
  ASSUME LsmInv, Lsm!Compact
  PROVE  LsmInv'
<1> DEFINE s == Lsm!Compacted(state)
           torn == \E i \in DOMAIN state.sstables : state.sstables[i].torn
           flag == hist.tornMerged \/ (s.sstables # state.sstables /\ torn)
<1>1. /\ net["compact"] > 0
      /\ state' = s
      /\ net' = [net EXCEPT !["compact"] = @ - 1]
      /\ hist' = [hist EXCEPT !.tornMerged = @ \/ (state'.sstables # state.sstables /\ torn)]
  BY DEF Lsm!Compact
<1>2. /\ s \in LsmState
      /\ Sound(s.memtable, Lsm!Replayed(s.wal), s.sstables, hist.latest, Clean, flag)
      /\ \E b \in Nat : Under(Lsm!Replayed(s.wal), s.sstables, b)
  BY MergeLeaves
<1> HIDE DEF s, torn
<1>3. net' \in [Lsm!Timers -> Nat]
  BY <1>1 DEF LsmInv, Lsm!Timers
<1>4. hist' = [hist EXCEPT !.tornMerged = flag] /\ flag \in BOOLEAN
  BY <1>1
<1> HIDE DEF flag
<1>5. hist' \in LsmHist /\ Clean' = Clean /\ hist'.latest = hist.latest /\ hist'.tornMerged = flag
  BY <1>4 DEF LsmInv, LsmHist, Clean
<1> QED
  BY <1>1, <1>2, <1>3, <1>5 DEF LsmInv

(* A fault that leaves a state as it should be. *)
LEMMA FaultMade ==
  ASSUME LsmInv, NEW f \in Lsm!Faults, Lsm!Fault(f), NEW s \in LsmState, state' = s,
         Sound(s.memtable, Lsm!Replayed(s.wal), s.sstables, hist.latest,
               Clean /\ f # "torn-write", hist.tornMerged),
         NEW b \in Nat, Under(Lsm!Replayed(s.wal), s.sstables, b)
  PROVE  LsmInv'
<1> DEFINE more == [hist.faults EXCEPT ![f] = @ + 1]
<1>1. hist' = [hist EXCEPT !.faults = more] /\ net' = net
  BY DEF Lsm!Fault
<1>2. more \in [Lsm!Faults -> Nat] /\ (more["torn-write"] = 0 <=> Clean /\ f # "torn-write")
  <2>1. hist.faults \in [Lsm!Faults -> Nat] /\ "torn-write" \in Lsm!Faults
    BY LsmParts DEF Lsm!Faults
  <2>2. CASE f = "torn-write"
    BY <2>1, <2>2
  <2>3. CASE f # "torn-write"
    BY <2>1, <2>3 DEF Clean
  <2> QED
    BY <2>2, <2>3
<1> HIDE DEF more
<1>3. hist \in LsmHist
  BY DEF LsmInv
<1>4. hist' \in LsmHist /\ hist'.latest = hist.latest /\ hist'.tornMerged = hist.tornMerged /\ hist'.faults = more
  BY <1>1, <1>2, <1>3 DEF LsmHist
<1>5. Clean' = (Clean /\ f # "torn-write")
  BY <1>2, <1>4 DEF Clean
<1>6. net' \in [Lsm!Timers -> Nat]
  BY <1>1 DEF LsmInv
<1> QED
  BY <1>4, <1>5, <1>6 DEF LsmInv

LEMMA CrashSound ==
  ASSUME LsmInv, Lsm!Fault("crash-mid-write")
  PROVE  LsmInv'
<1> DEFINE w == Lsm!Replayed(state.wal)
           s == [state EXCEPT !.memtable = w, !.phase = "idle"]
<1>1. state' = s /\ "crash-mid-write" \in Lsm!Faults
  BY DEF Lsm!Fault, Lsm!AfterFault, Lsm!Crashed, Lsm!Faults
<1>2. w \in Entries /\ state \in LsmState
  BY LsmParts DEF LsmInv
<1>3. Sound(state.memtable, w, state.sstables, hist.latest, Clean, hist.tornMerged)
  BY DEF LsmInv
<1>4. PICK b \in Nat : Under(w, state.sstables, b)
  BY DEF LsmInv
<1>5. Sound(w, w, state.sstables, hist.latest, Clean, hist.tornMerged)
  <2> HIDE DEF w
  <2> QED
    BY <1>2, <1>3, LsmParts, SoundCrash
<1>6. s \in LsmState /\ s.memtable = w /\ s.wal = state.wal /\ s.sstables = state.sstables
  <2> HIDE DEF w
  <2> QED
    BY <1>2 DEF LsmState
<1> HIDE DEF s
<1>7. Sound(s.memtable, Lsm!Replayed(s.wal), s.sstables, hist.latest,
            Clean /\ "crash-mid-write" # "torn-write", hist.tornMerged)
  <2>1. (Clean /\ "crash-mid-write" # "torn-write") = Clean
    BY LsmParts
  <2> QED
    BY <1>5, <1>6, <2>1
<1>8. Under(Lsm!Replayed(s.wal), s.sstables, b)
  BY <1>4, <1>6
<1> QED
  BY <1>1, <1>4, <1>6, <1>7, <1>8, FaultMade

LEMMA FullSound ==
  ASSUME LsmInv, Lsm!Fault("disk-full")
  PROVE  LsmInv'
<1> DEFINE s == [state EXCEPT !.diskFull = TRUE]
<1>1. state' = s /\ "disk-full" \in Lsm!Faults
  BY DEF Lsm!Fault, Lsm!AfterFault, Lsm!Faults
<1>2. state \in LsmState
  BY DEF LsmInv
<1>3. Sound(state.memtable, Lsm!Replayed(state.wal), state.sstables, hist.latest, Clean, hist.tornMerged)
  BY DEF LsmInv
<1>4. PICK b \in Nat : Under(Lsm!Replayed(state.wal), state.sstables, b)
  BY DEF LsmInv
<1>5. s \in LsmState /\ s.memtable = state.memtable /\ s.wal = state.wal /\ s.sstables = state.sstables
  BY <1>2 DEF LsmState
<1> HIDE DEF s
<1>6. Sound(s.memtable, Lsm!Replayed(s.wal), s.sstables, hist.latest,
            Clean /\ "disk-full" # "torn-write", hist.tornMerged)
  <2>1. (Clean /\ "disk-full" # "torn-write") = Clean
    BY LsmParts
  <2> QED
    BY <1>3, <1>5, <2>1
<1>7. Under(Lsm!Replayed(s.wal), s.sstables, b)
  BY <1>4, <1>5
<1> QED
  BY <1>1, <1>4, <1>5, <1>6, <1>7, FaultMade

(* The repairs of a state. *)
LEMMA RecoveredIs ==
  ASSUME LsmInv
  PROVE  LET rs == Repaired(state.sstables, Lsm!Replayed(state.wal))
         IN /\ Lsm!Recovered(state) \in LsmState /\ rs \in Seq(Table) /\ Layered(rs)
            /\ Lsm!Recovered(state).memtable = state.memtable
            /\ Lsm!Recovered(state).wal = state.wal
            /\ Lsm!Recovered(state).sstables = rs
<1> DEFINE ts == state.sstables
           w == Lsm!Replayed(state.wal)
           rs == Repaired(ts, w)
<1>1. ts \in Seq(Table) /\ w \in Entries /\ state \in LsmState
  BY LsmParts DEF LsmInv
<1>2. rs = [i \in DOMAIN ts |->
              IF ts[i].torn THEN Lsm!ToTable(ts[i].level, Lsm!Upsert(ts[i].entries, w)) ELSE ts[i]]
  BY DEF Repaired, Upsert
<1>3. Lsm!Recovered(state) = [state EXCEPT !.diskFull = FALSE, !.sstables = rs]
  <2> HIDE DEF rs
  <2> QED
    BY <1>2 DEF Lsm!Recovered
<1>4. rs \in Seq(Table) /\ Layered(rs)
  <2> HIDE DEF w, ts
  <2>1. Layered(ts)
    BY DEF LsmInv, Sound, ts
  <2> QED
    BY <1>1, <2>1, RepairedAre
<1> HIDE DEF rs
<1>5. [state EXCEPT !.diskFull = FALSE, !.sstables = rs] \in LsmState
  BY <1>1, <1>4 DEF LsmState
<1>6. /\ [state EXCEPT !.diskFull = FALSE, !.sstables = rs].memtable = state.memtable
      /\ [state EXCEPT !.diskFull = FALSE, !.sstables = rs].wal = state.wal
      /\ [state EXCEPT !.diskFull = FALSE, !.sstables = rs].sstables = rs
  BY <1>1 DEF LsmState
<1> QED
  BY <1>3, <1>4, <1>5, <1>6 DEF rs

LEMMA RecoverSound ==
  ASSUME LsmInv, Lsm!Fault("recover")
  PROVE  LsmInv'
<1> DEFINE w == Lsm!Replayed(state.wal)
           ts == state.sstables
           rs == Repaired(ts, w)
           s == Lsm!Recovered(state)
<1>1. state' = s /\ "recover" \in Lsm!Faults
  BY DEF Lsm!Fault, Lsm!AfterFault, Lsm!Faults
<1>2. w \in Entries /\ ts \in Seq(Table)
  BY LsmParts
<1>3. Sound(state.memtable, w, ts, hist.latest, Clean, hist.tornMerged)
  BY DEF LsmInv
<1>4. PICK b \in Nat : Under(w, ts, b)
  BY DEF LsmInv
<1>5. s \in LsmState /\ s.memtable = state.memtable /\ s.wal = state.wal /\ s.sstables = rs /\ rs \in Seq(Table)
  BY RecoveredIs
<1>6. Lsm!Replayed(s.wal) = w
  BY <1>5
<1> HIDE DEF s, w, ts
<1>7. Sound(state.memtable, w, rs, hist.latest, Clean, hist.tornMerged)
  BY <1>2, <1>3, LsmParts, SoundRecover
<1>8. Under(w, rs, b)
  <2>1. Len(rs) = Len(ts) /\ \A i \in 1..Len(ts) :
           rs[i].entries = IF ts[i].torn THEN Upsert(ts[i].entries, w) ELSE ts[i].entries
    BY <1>2, RepairedAre
  <2>2. \A i \in 1..Len(ts) : ts[i].entries \in Entries
    BY <1>2, ContentsAre
  <2> HIDE DEF rs
  <2>3. \A i \in 1..Len(ts) : DOMAIN rs[i].entries \subseteq DOMAIN ts[i].entries \cup DOMAIN w
    <3> TAKE i \in 1..Len(ts)
    <3>1. DOMAIN Upsert(ts[i].entries, w) = DOMAIN ts[i].entries \cup DOMAIN w
      BY <1>2, <2>2, UpsertIs
    <3> QED
      BY <2>1, <3>1
  <2> QED
    BY <1>4, <2>1, <2>3 DEF Under
<1>9. Sound(s.memtable, Lsm!Replayed(s.wal), s.sstables, hist.latest,
            Clean /\ "recover" # "torn-write", hist.tornMerged)
  <2>1. (Clean /\ "recover" # "torn-write") = Clean
    BY LsmParts
  <2> QED
    BY <1>5, <1>6, <1>7, <2>1
<1>10. Under(Lsm!Replayed(s.wal), s.sstables, b)
  BY <1>5, <1>6, <1>8
<1> QED
  BY <1>1, <1>4, <1>5, <1>9, <1>10, FaultMade

LEMMA TornFlushSound ==
  ASSUME LsmInv, Lsm!Fault("torn-write"), state.sstables = <<>>
  PROVE  LsmInv'
<1> DEFINE m == state.memtable
           w == Lsm!Replayed(state.wal)
           last == Lsm!LastKey(m)
           kept == Without(m, {last})
           ts1 == <<[Lsm!ToTable(0, kept) EXCEPT !.torn = TRUE]>>
           none == Lsm!NoEntries
           s == Lsm!TornFlush(state)
<1>1. state' = s /\ "torn-write" \in Lsm!Faults
  BY DEF Lsm!Fault, Lsm!AfterFault, Lsm!Faults
<1>2. m \in Entries /\ w \in Entries /\ state \in LsmState
  BY LsmParts DEF LsmInv
<1>3. Sound(m, w, <<>>, hist.latest, Clean, hist.tornMerged)
  BY DEF LsmInv
<1>4. PICK b \in Nat : Under(w, state.sstables, b)
  BY DEF LsmInv
<1>5. CASE DOMAIN m = {}
  <2>1. s = state
    BY <1>5 DEF Lsm!TornFlush
  <2>2. Sound(m, w, <<>>, hist.latest, FALSE, hist.tornMerged)
    BY <1>3 DEF Sound
  <2> HIDE DEF s
  <2>3. Sound(s.memtable, Lsm!Replayed(s.wal), s.sstables, hist.latest,
              Clean /\ "torn-write" # "torn-write", hist.tornMerged)
    BY <2>1, <2>2
  <2>4. Under(Lsm!Replayed(s.wal), s.sstables, b)
    BY <1>4, <2>1
  <2> QED
    BY <1>1, <1>2, <1>4, <2>1, <2>3, <2>4, FaultMade
<1>6. CASE DOMAIN m # {}
  <2>1. s = [state EXCEPT !.memtable = none, !.sstables = ts1]
    <3> DEFINE t == Lsm!ToTable(0, m)
    <3>1. t.entries = m /\ t = [level |-> 0, entries |-> m, bloom |-> Lsm!BuildBloom(m), torn |-> FALSE]
      BY DEF Lsm!ToTable
    <3>2. Lsm!Torn(t).entries = [k \in DOMAIN t.entries \ {Lsm!LastKey(t.entries)} |-> t.entries[k]]
      BY <3>1 DEF Lsm!Torn
    <3> HIDE DEF t
    <3>3. Lsm!Torn(t).entries = kept
      BY <3>1, <3>2 DEF Without
    <3>4. s = [state EXCEPT !.memtable = none,
                            !.sstables = <<[Lsm!ToTable(0, Lsm!Torn(t).entries) EXCEPT !.torn = TRUE]>>]
      BY <1>6 DEF Lsm!TornFlush, t
    <3> HIDE DEF kept, s
    <3> QED
      BY <3>3, <3>4
  <2>2. none \in Entries
    BY NoneIs
  <2>3. ts1 \in Seq(Table) /\ Sound(none, w, ts1, hist.latest, FALSE, hist.tornMerged)
    <3> DEFINE latest == hist.latest
               merged == hist.tornMerged
               clean == Clean
    <3>1. latest \in [RunKey -> Nat] /\ merged \in BOOLEAN /\ clean \in BOOLEAN
      BY LsmParts
    <3>2. Sound(m, w, <<>>, latest, clean, merged)
      BY <1>3
    <3> HIDE DEF m, w, last, latest, merged, clean
    <3>3. LET us == <<[Lsm!ToTable(0, Without(m, {last})) EXCEPT !.torn = TRUE]>>
          IN us \in Seq(Table) /\ Sound(Lsm!NoEntries, w, us, latest, FALSE, merged)
      BY <1>2, <1>6, <3>1, <3>2, SoundTornFlush
    <3> QED
      BY <3>3 DEF latest, merged
  <2>4. Under(w, ts1, b)
    <3> DEFINE t == [Lsm!ToTable(0, kept) EXCEPT !.torn = TRUE]
    <3>1. t.entries = kept
      BY DEF Lsm!ToTable
    <3> HIDE DEF t
    <3>2. Len(<<t>>) = 1 /\ <<t>>[1] = t
      OBVIOUS
    <3>3. DOMAIN kept \subseteq DOMAIN w
      BY <1>3 DEF Sound, Without
    <3>4. ts1 = <<t>>
      BY DEF t
    <3> HIDE DEF kept, ts1, w
    <3>5. \A k \in DOMAIN w : k <= b
      BY <1>4 DEF Under
    <3> QED
      BY <3>1, <3>2, <3>3, <3>4, <3>5 DEF Under
  <2> HIDE DEF ts1, none, w, m
  <2>5. [state EXCEPT !.memtable = none] \in LsmState
    BY <1>2, <2>2 DEF LsmState
  <2>6. s \in LsmState /\ s.memtable = none /\ s.wal = state.wal /\ s.sstables = ts1
    <3> HIDE DEF s
    <3> QED
      BY <1>2, <2>1, <2>3, <2>5 DEF LsmState
  <2> HIDE DEF s
  <2>7. Sound(s.memtable, Lsm!Replayed(s.wal), s.sstables, hist.latest,
              Clean /\ "torn-write" # "torn-write", hist.tornMerged)
    BY <2>3, <2>6 DEF w
  <2>8. Under(Lsm!Replayed(s.wal), s.sstables, b)
    BY <2>4, <2>6 DEF w
  <2> QED
    BY <1>1, <1>4, <2>6, <2>7, <2>8, FaultMade
<1> QED
  BY <1>5, <1>6

LEMMA TornRunSound ==
  ASSUME LsmInv, Lsm!Fault("torn-write"), state.sstables # <<>>
  PROVE  LsmInv'
<1> DEFINE m == state.memtable
           wal == state.wal
           w == Lsm!Replayed(wal)
           ts == state.sstables
           n == Len(ts)
           target == ts[n]
           e == target.entries
           last == Lsm!LastKey(e)
           dropped == [key |-> last, val |-> e[last]]
           s == Lsm!TornRun(state)
<1>1. state' = s /\ "torn-write" \in Lsm!Faults
  BY DEF Lsm!Fault, Lsm!AfterFault, Lsm!Faults
<1>2. m \in Entries /\ w \in Entries /\ ts \in Seq(Table) /\ wal \in Seq(Journalled) /\ state \in LsmState
  BY LsmParts DEF LsmInv
<1>3. Sound(m, w, ts, hist.latest, Clean, hist.tornMerged)
  BY DEF LsmInv
<1>4. PICK b \in Nat : Under(w, ts, b)
  BY DEF LsmInv
<1>5. n \in Nat /\ n # 0 /\ n \in 1..n /\ target \in Table
  BY <1>2
<1>6. \A k \in DOMAIN e : k <= b
  BY <1>4, <1>5 DEF Under
<1>7. s = IF DOMAIN e = {} THEN [state EXCEPT !.sstables[n].torn = TRUE]
          ELSE [state EXCEPT !.sstables[n] = Lsm!Torn(target), !.wal = <<dropped>> \o @]
  BY DEF Lsm!TornRun
<1>8. IF DOMAIN e = {}
      THEN /\ [ts EXCEPT ![n].torn = TRUE] \in Seq(Table)
           /\ Sound(m, w, [ts EXCEPT ![n].torn = TRUE], hist.latest, FALSE, hist.tornMerged)
      ELSE /\ dropped \in Journalled /\ last \in DOMAIN e
           /\ [ts EXCEPT ![n] = Lsm!Torn(target)] \in Seq(Table)
           /\ Sound(m, Upsert(Single(dropped), w), [ts EXCEPT ![n] = Lsm!Torn(target)],
                    hist.latest, FALSE, hist.tornMerged)
  <2> DEFINE latest == hist.latest
             merged == hist.tornMerged
             clean == Clean
  <2>1. latest \in [RunKey -> Nat] /\ merged \in BOOLEAN /\ clean \in BOOLEAN
    BY LsmParts
  <2>2. Sound(m, w, ts, latest, clean, merged)
    BY <1>3
  <2> HIDE DEF m, w, ts, latest, merged, clean
  <2>3. Len(ts) # 0 /\ \A k \in DOMAIN ts[Len(ts)].entries : k <= b
    BY <1>5, <1>6
  <2>4. AfterTear(m, w, ts, latest, merged)
    BY <1>2, <2>1, <2>2, <2>3, SoundTornRun
  <2> QED
    BY <2>4 DEF latest, merged, AfterTear
<1>9. CASE DOMAIN e = {}
  <2> DEFINE us == [ts EXCEPT ![n].torn = TRUE]
  <2>1. s = [state EXCEPT !.sstables = us]
    BY <1>7, <1>9
  <2>2. us \in Seq(Table) /\ Sound(m, w, us, hist.latest, FALSE, hist.tornMerged)
    BY <1>8, <1>9
  <2>3. Under(w, us, b)
    <3>1. Len(us) = n /\ \A i \in 1..n : us[i].entries = ts[i].entries
      <4>1. DOMAIN ts = 1..n /\ \A i \in 1..n : ts[i] \in Table
        BY <1>2
      <4>2. us = [ts EXCEPT ![n] = [ts[n] EXCEPT !.torn = TRUE]]
        OBVIOUS
      <4>3. [ts[n] EXCEPT !.torn = TRUE].entries = ts[n].entries
        BY <1>5 DEF Table
      <4> HIDE DEF ts, n
      <4>4. Len(us) = n
        BY <1>2 DEF n
      <4>5. \A i \in 1..n : us[i] = IF i = n THEN [ts[n] EXCEPT !.torn = TRUE] ELSE ts[i]
        BY <4>1, <4>2
      <4> HIDE DEF us
      <4> QED
        BY <4>3, <4>4, <4>5
    <3> HIDE DEF us, ts, w
    <3> QED
      BY <1>4, <3>1 DEF Under, n
  <2> HIDE DEF us, w, m
  <2>4. s \in LsmState /\ s.memtable = m /\ s.wal = wal /\ s.sstables = us
    <3> HIDE DEF s
    <3> QED
      BY <1>2, <2>1, <2>2 DEF LsmState, m
  <2> HIDE DEF s
  <2>5. Sound(s.memtable, Lsm!Replayed(s.wal), s.sstables, hist.latest,
              Clean /\ "torn-write" # "torn-write", hist.tornMerged)
    BY <2>2, <2>4 DEF w
  <2>6. Under(Lsm!Replayed(s.wal), s.sstables, b)
    BY <2>3, <2>4 DEF w
  <2> QED
    BY <1>1, <1>4, <2>4, <2>5, <2>6, FaultMade
<1>10. CASE DOMAIN e # {}
  <2> DEFINE u == Lsm!Torn(target)
             us == [ts EXCEPT ![n] = u]
             w1 == Upsert(Single(dropped), w)
             wal1 == <<dropped>> \o wal
  <2>1. s = [state EXCEPT !.sstables = us, !.wal = wal1]
    <3> HIDE DEF u, dropped, e
    <3> QED
      BY <1>7, <1>10 DEF u
  <2>2. /\ us \in Seq(Table) /\ Sound(m, w1, us, hist.latest, FALSE, hist.tornMerged)
        /\ dropped \in Journalled /\ last \in DOMAIN e
    BY <1>8, <1>10
  <2>3. wal1 \in Seq(Journalled) /\ Lsm!Replayed(wal1) = w1
    <3> HIDE DEF dropped, wal
    <3> QED
      BY <1>2, <2>2, ReplayedPrepended
  <2>4. DOMAIN w1 = {last} \cup DOMAIN w
    <3>1. Single(dropped) \in Entries /\ DOMAIN Single(dropped) = {last}
      <4>1. dropped.key = last
        OBVIOUS
      <4> HIDE DEF dropped, last
      <4> QED
        BY <2>2, <4>1, SingleIs
    <3> DEFINE x == Single(dropped)
    <3> HIDE DEF x, w
    <3>2. DOMAIN Upsert(x, w) = DOMAIN x \cup DOMAIN w
      BY <1>2, <3>1, UpsertIs DEF x
    <3> QED
      BY <3>1, <3>2 DEF x
  <2>5. Under(w1, us, b)
    <3>1. u.entries = Without(e, {last})
      <4> HIDE DEF target
      <4>1. last = Lsm!LastKey(target.entries)
        OBVIOUS
      <4> HIDE DEF last, u
      <4> QED
        BY <1>5, <4>1, TornIs DEF u
    <3>2. DOMAIN u.entries \subseteq DOMAIN e
      BY <3>1 DEF Without
    <3> HIDE DEF u, e, ts, n, w1, last
    <3>3. DOMAIN ts = 1..n /\ Len(us) = n
      BY <1>2 DEF n
    <3>4. \A i \in 1..n : us[i] = IF i = n THEN u ELSE ts[i]
      BY <3>3
    <3> HIDE DEF us
    <3>5. ASSUME NEW i \in 1..n PROVE \A k \in DOMAIN us[i].entries : k <= b
      <4>1. CASE i = n
        BY <1>6, <3>2, <3>4, <4>1
      <4>2. CASE i # n
        BY <1>4, <3>4, <4>2 DEF Under, n
      <4> QED
        BY <4>1, <4>2
    <3>6. \A k \in DOMAIN w1 : k <= b
      BY <1>4, <1>6, <2>2, <2>4 DEF Under
    <3> QED
      BY <3>3, <3>5, <3>6 DEF Under
  <2> HIDE DEF us, w1, wal1, m
  <2>6. [state EXCEPT !.sstables = us] \in LsmState
    BY <1>2, <2>2 DEF LsmState
  <2>7. s \in LsmState /\ s.memtable = m /\ s.wal = wal1 /\ s.sstables = us
    <3> HIDE DEF s
    <3> QED
      BY <1>2, <2>1, <2>2, <2>3, <2>6 DEF LsmState, m
  <2> HIDE DEF s
  <2>8. Sound(s.memtable, Lsm!Replayed(s.wal), s.sstables, hist.latest,
              Clean /\ "torn-write" # "torn-write", hist.tornMerged)
    BY <2>2, <2>3, <2>7
  <2>9. Under(Lsm!Replayed(s.wal), s.sstables, b)
    BY <2>3, <2>5, <2>7
  <2> QED
    BY <1>1, <1>4, <2>7, <2>8, <2>9, FaultMade
<1> QED
  BY <1>9, <1>10

LEMMA LsmStep == LsmInv /\ [Lsm!Next]_Lsm!vars => LsmInv'
<1> SUFFICES ASSUME LsmInv, [Lsm!Next]_Lsm!vars PROVE LsmInv'
  OBVIOUS
<1>1. CASE Lsm!Put
  <2>1. PICK key \in RunKey : Lsm!Write(key, hist.writes + 1)
    BY <1>1 DEF Lsm!Put
  <2>2. hist.writes + 1 \in Nat
    BY LsmParts
  <2> QED
    BY <2>1, <2>2, WriteSound
<1>2. CASE Lsm!Delete
  <2>1. PICK key \in RunKey : Lsm!Write(key, 0)
    BY <1>2 DEF Lsm!Delete, Lsm!Tombstone
  <2>2. 0 \in Nat
    OBVIOUS
  <2> QED
    BY <2>1, <2>2, WriteSound
<1>3. CASE Lsm!FlushPhase2
  BY <1>3, FlushSound
<1>4. CASE Lsm!Compact
  BY <1>4, CompactSound
<1>5. CASE \E f \in Lsm!Faults : Lsm!Fault(f)
  <2>1. PICK f \in Lsm!Faults : Lsm!Fault(f)
    BY <1>5
  <2>2. f \in {"crash-mid-write", "torn-write", "disk-full", "recover"}
    BY DEF Lsm!Faults
  <2> QED
    BY <2>1, <2>2, CrashSound, TornFlushSound, TornRunSound, FullSound, RecoverSound
<1>6. CASE UNCHANGED Lsm!vars
  <2>1. state' = state /\ net' = net /\ hist' = hist
    BY <1>6 DEF Lsm!vars
  <2> QED
    BY <2>1 DEF LsmInv, Clean
<1> QED
  BY <1>1, <1>2, <1>3, <1>4, <1>5, <1>6 DEF Lsm!Next

(* What the invariant means for reads. *)
LEMMA LsmMeans ==
  ASSUME LsmInv
  PROVE  Lsm!TypeOK /\ Lsm!ReadsLatest /\ Lsm!ReplayRestores /\ Lsm!RecoverRepairs
<1> DEFINE m == state.memtable
           wal == state.wal
           w == Lsm!Replayed(wal)
           ts == state.sstables
           rs == Repaired(ts, w)
           latest == hist.latest
<1>1. m \in Entries /\ w \in Entries /\ ts \in Seq(Table) /\ wal \in Seq(Journalled) /\ state \in LsmState
         /\ state.phase \in {"idle", "flushing", "compacting"} /\ state.diskFull \in BOOLEAN
  BY LsmParts DEF LsmInv
<1>2. Sound(m, w, ts, latest, Clean, hist.tornMerged)
  BY DEF LsmInv
<1>3. latest \in [RunKey -> Nat]
  BY LsmParts
<1>4. Stored(ts) \in Entries
  BY <1>1, ContentsAre
<1>5. ASSUME NEW s \in LsmState, \A k \in RunKey : Lsm!LsmGet(s, k) = latest[k]
      PROVE  Lsm!ReadsOf(s) = latest
  <2> HIDE DEF latest
  <2>1. Lsm!ReadsOf(s) = [k \in RunKey |-> latest[k]]
    BY <1>5 DEF Lsm!ReadsOf
  <2> QED
    BY <1>3, <2>1
<1>6. Lsm!TypeOK
  <2>1. DOMAIN m \subseteq RunKey
    BY <1>1, EntriesAre
  <2>2. DOMAIN ts = 1..Len(ts)
    BY <1>1
  <2>3. \A i \in 1..Len(ts) : DOMAIN ts[i].entries \subseteq RunKey
    <3>1. \A i \in 1..Len(ts) : ts[i].entries \in Entries
      BY <1>1, ContentsAre
    <3> QED
      BY <3>1, EntriesAre
  <2>4. \A i \in 1..Len(ts) : /\ ts[i].level = 1 => i = 1
                              /\ Lsm!BuildBloom(ts[i].entries) \subseteq ts[i].bloom
    BY <1>2 DEF Sound, Layered
  <2>5. net \in [Lsm!Timers -> Nat]
    BY DEF LsmInv
  <2> QED
    BY <1>1, <2>1, <2>2, <2>3, <2>4, <2>5 DEF Lsm!TypeOK
<1>7. Lsm!ReadsLatest
  <2> SUFFICES ASSUME Clean PROVE Lsm!ReadsOf(state) = latest
    BY DEF Lsm!ReadsLatest, Clean
  <2>1. ASSUME NEW k \in RunKey PROVE Lsm!LsmGet(state, k) = latest[k]
    <3>1. Lsm!LsmGet(state, k) = Value(Upsert(Stored(ts), m), k)
      BY <1>1, <1>2, GetIs DEF Sound
    <3>2. Value(Upsert(Stored(ts), m), k) = IF k \in DOMAIN m THEN m[k] ELSE Value(Stored(ts), k)
      BY <1>1, <1>4, ValueUpserted
    <3>3. Value(Upsert(Stored(ts), w), k) = IF k \in DOMAIN w THEN w[k] ELSE Value(Stored(ts), k)
      BY <1>1, <1>4, ValueUpserted
    <3> HIDE DEF m, w, ts, latest
    <3> QED
      BY <1>2, <3>1, <3>2, <3>3 DEF Sound
  <2> QED
    BY <1>1, <1>5, <2>1
<1>8. Lsm!ReplayRestores
  <2> DEFINE s == Lsm!Crashed(state)
  <2>1. s = [state EXCEPT !.memtable = w, !.phase = "idle"]
    BY DEF Lsm!Crashed
  <2>2. s \in LsmState /\ s.memtable = w /\ s.sstables = ts
    <3> HIDE DEF w, s
    <3> QED
      BY <1>1, <2>1 DEF LsmState
  <2> HIDE DEF s
  <2>3. ASSUME NEW k \in RunKey PROVE Lsm!LsmGet(s, k) = latest[k]
    <3>1. Lsm!LsmGet(s, k) = Value(Upsert(Stored(s.sstables), s.memtable), k)
      BY <1>2, <2>2, GetIs DEF Sound
    <3> QED
      BY <1>2, <2>2, <3>1 DEF Sound
  <2>4. Lsm!ReadsOf(s) = latest
    BY <1>5, <2>2, <2>3
  <2> QED
    BY <2>4 DEF s, Lsm!ReplayRestores
<1>9. Lsm!RecoverRepairs
  <2> SUFFICES ASSUME ~hist.tornMerged PROVE Lsm!ReadsOf(Lsm!Recovered(state)) = latest
    BY DEF Lsm!RecoverRepairs, Lsm!RecoverRestores
  <2> DEFINE s == Lsm!Recovered(state)
  <2>1. s \in LsmState /\ s.memtable = m /\ s.sstables = rs /\ Layered(rs) /\ rs \in Seq(Table)
    BY RecoveredIs
  <2>2. Stored(rs) \in Entries
    BY <2>1, ContentsAre
  <2> HIDE DEF s, rs, m, ts, w
  <2>3. ASSUME NEW k \in RunKey PROVE Lsm!LsmGet(s, k) = latest[k]
    <3>1. Lsm!LsmGet(s, k) = Value(Upsert(Stored(rs), m), k)
      BY <2>1, GetIs
    <3>2. Value(Upsert(Stored(rs), m), k) = IF k \in DOMAIN m THEN m[k] ELSE Value(Stored(rs), k)
      BY <1>1, <2>2, ValueUpserted
    <3> QED
      BY <1>2, <3>1, <3>2 DEF Sound, rs
  <2>4. Lsm!ReadsOf(s) = latest
    BY <1>5, <2>1, <2>3
  <2> QED
    BY <2>4 DEF s
<1> QED
  BY <1>6, <1>7, <1>8, <1>9

(* The tree of runs keeps every write: reads find the last one as long as  *)
(* no write was torn, and whatever was torn the log gives all of them back *)
(* after a crash - and repairs give them back, unless a torn run has been  *)
(* merged - for any keys, filters and caps (lsm.ts:94-163, 203-260).       *)
THEOREM LsmCorrect == LabSpec => []LsmKeepsWrites
<1> DEFINE Inv == lab = "lsm" => LsmInv
<1>1. LabInit => Inv
  BY LsmInitial DEF LabInit
<1>2. Inv /\ [LabNext]_<<lab, state, net, hist>> => Inv'
  <2> SUFFICES ASSUME Inv, [LabNext]_<<lab, state, net, hist>>, lab' = "lsm"
               PROVE  LsmInv'
    OBVIOUS
  <2>1. lab = "lsm" /\ [Lsm!Next]_Lsm!vars
    BY DEF LabNext, Lsm!vars
  <2> QED
    BY <2>1, LsmStep
<1>3. Inv => LsmKeepsWrites
  BY LsmMeans DEF LsmKeepsWrites
<1> QED
  BY <1>1, <1>2, <1>3, PTL DEF LabSpec
=============================================================================
