--------------------------- MODULE ClusterProofs ----------------------------
(***************************************************************************)
(* Proofs about the leaders and the log of Cluster, for any of their       *)
(* constants; MessageProofs is about the other labs.                       *)
(***************************************************************************)
EXTENDS Cluster, NatLemmas, SequenceTheorems

(* What the engine does with a queue is the same for every lab.            *)
Engine == INSTANCE Simulation WITH Node <- {}, Killable <- {}, Within <- LogWithin, Backlog <- 0

-----------------------------------------------------------------------------
(* What the engine does to its queues.                                     *)

Without(s, i) == Engine!AllBut(s, i)

LEMMA WithoutIs ==
  ASSUME NEW S, NEW s \in Seq(S), NEW i \in DOMAIN s
  PROVE  /\ Without(s, i) \in Seq(S) /\ Len(s) \in Nat /\ Len(Without(s, i)) = Len(s) - 1
         /\ \A j \in 1..(Len(s) - 1) : Without(s, i)[j] = s[IF j < i THEN j ELSE j + 1]
<1>1. Len(s) \in Nat /\ DOMAIN s = 1..Len(s) /\ i \in 1..Len(s)
  BY LenProperties
<1> DEFINE a == SubSeq(s, 1, i - 1)
           b == SubSeq(s, i + 1, Len(s))
<1>2. a \in Seq(S) /\ Len(a) = i - 1 /\ \A j \in 1..(i - 1) : a[j] = s[j]
  BY <1>1
<1>3. b \in Seq(S) /\ Len(b) = Len(s) - i /\ \A j \in 1..(Len(s) - i) : b[j] = s[i + j]
  BY <1>1
<1>4. Without(s, i) = a \o b
  BY DEF Without, Engine!AllBut
<1> HIDE DEF a, b
<1>5. a \o b \in Seq(S) /\ Len(a \o b) = Len(s) - 1
  <2>1. a \o b \in Seq(S) /\ Len(a \o b) = Len(a) + Len(b)
    BY <1>2, <1>3, ConcatProperties
  <2> QED
    BY <1>1, <1>2, <1>3, <2>1
<1>6. ASSUME NEW j \in 1..(Len(s) - 1) PROVE (a \o b)[j] = s[IF j < i THEN j ELSE j + 1]
  <2>1. CASE j < i
    BY <1>1, <1>2, <1>3, <2>1
  <2>2. CASE ~(j < i)
    <3>1. (a \o b)[j] = b[j - (i - 1)]
      BY <1>1, <1>2, <1>3, <2>2
    <3>2. j - (i - 1) \in 1..(Len(s) - i) /\ i + (j - (i - 1)) = j + 1
      BY <1>1, <2>2
    <3> QED
      BY <1>3, <2>2, <3>1, <3>2
  <2> QED
    BY <2>1, <2>2
<1> QED
  BY <1>1, <1>4, <1>5, <1>6

(* Where what is at j after the removal of the i-th was before. *)
Before(i, j) == IF j < i THEN j ELSE j + 1

LEMMA WithoutOrder ==
  ASSUME NEW S, NEW s \in Seq(S), NEW i \in DOMAIN s
  PROVE  /\ \A j \in DOMAIN Without(s, i) : /\ Before(i, j) \in DOMAIN s /\ Before(i, j) # i
                                            /\ Without(s, i)[j] = s[Before(i, j)]
         /\ \A j, k \in DOMAIN Without(s, i) : j < k => Before(i, j) < Before(i, k)
         /\ \A k \in DOMAIN s \ {i} : \E j \in DOMAIN Without(s, i) : Without(s, i)[j] = s[k]
<1> DEFINE n == Len(s)
           t == Without(s, i)
<1>1. /\ t \in Seq(S) /\ n \in Nat /\ Len(t) = n - 1
      /\ \A j \in 1..(n - 1) : t[j] = s[IF j < i THEN j ELSE j + 1]
  BY WithoutIs
<1>2. DOMAIN s = 1..n /\ i \in 1..n /\ DOMAIN t = 1..(n - 1)
  <2>1. DOMAIN s = 1..n /\ DOMAIN t = 1..Len(t)
    BY <1>1, LenProperties
  <2> QED
    BY <1>1, <2>1
<1> HIDE DEF t, n
<1>3. \A j \in 1..(n - 1) : Before(i, j) \in 1..n /\ Before(i, j) # i /\ t[j] = s[Before(i, j)]
  BY <1>1, <1>2 DEF Before
<1>4. \A j, k \in 1..(n - 1) : j < k => Before(i, j) < Before(i, k)
  BY <1>1, <1>2 DEF Before
<1>5. ASSUME NEW k \in 1..n, k # i PROVE \E j \in 1..(n - 1) : t[j] = s[k]
  <2>1. CASE k < i
    <3>1. k \in 1..(n - 1) /\ Before(i, k) = k
      BY <1>1, <1>2, <2>1 DEF Before
    <3> QED
      BY <1>3, <3>1
  <2>2. CASE ~(k < i)
    <3>1. k - 1 \in 1..(n - 1) /\ Before(i, k - 1) = k
      BY <1>1, <1>2, <1>5, <2>2 DEF Before
    <3> QED
      BY <1>3, <3>1
  <2> QED
    BY <2>1, <2>2
<1> QED
  BY <1>2, <1>3, <1>4, <1>5 DEF t

LEMMA NoneSent ==
  ASSUME NEW links, NEW n
  PROVE  Engine!WithMessages(links, n, <<>>) = links
<1> DEFINE Is(g) == g = [k \in 0..0 |-> IF k = 0 THEN links
                           ELSE [g[k - 1] EXCEPT ![<<n, <<>>[k][1]>>] = Append(@, <<>>[k][2])]]
           f == [k \in 0..0 |-> links]
<1>1. Is(f)
  OBVIOUS
<1> HIDE DEF f
<1>2. \A g : Is(g) => g[0] = links
  OBVIOUS
<1>3. Len(<<>>) = 0
  OBVIOUS
<1>4. Engine!WithMessages(links, n, <<>>) = (CHOOSE g : Is(g))[0]
  BY <1>3 DEF Engine!WithMessages
<1> HIDE DEF Is
<1> QED
  BY <1>1, <1>2, <1>4

(* Timers by node and payload, and how many of each.                       *)
Count(timers, t) == IF t \in DOMAIN timers THEN timers[t] ELSE 0

LEMMA TimersSet ==
  ASSUME NEW timers, NEW n, NEW set
  PROVE  /\ Engine!WithTimers(timers, n, set) =
              [t \in DOMAIN timers \cup {<<n, set[k]>> : k \in DOMAIN set} |->
                 Count(timers, t) + Cardinality({k \in DOMAIN set : <<n, set[k]>> = t})]
<1>1. \A S : Engine!Cardinality(S) = Cardinality(S)
  BY DEF Engine!Cardinality, Cardinality
<1> QED
  BY <1>1 DEF Engine!WithTimers, Count

LEMMA NoTimers ==
  ASSUME NEW D, NEW timers \in [D -> Nat], NEW n
  PROVE  Engine!WithTimers(timers, n, <<>>) = timers
<1>1. DOMAIN <<>> = {} /\ Cardinality({}) = 0
  BY FS_EmptySet
<1>2. \A t : {k \in DOMAIN <<>> : <<n, <<>>[k]>> = t} = {}
  BY <1>1
<1>3. {<<n, <<>>[k]>> : k \in DOMAIN <<>>} = {}
  BY <1>1
<1>4. Engine!WithTimers(timers, n, <<>>) = [t \in DOMAIN timers |-> timers[t] + 0]
  BY <1>1, <1>2, <1>3, TimersSet DEF Count
<1> QED
  BY <1>4

Sent(links, n, to, m) == [links EXCEPT ![<<n, to>>] = Append(@, m)]

LEMMA OneSent ==
  ASSUME NEW links, NEW n, NEW to, NEW m
  PROVE  Engine!WithMessages(links, n, <<<<to, m>>>>) = Sent(links, n, to, m)
<1> DEFINE sends == <<<<to, m>>>>
           Add(x, k) == [x EXCEPT ![<<n, sends[k][1]>>] = Append(@, sends[k][2])]
           Is(g) == g = [k \in 0..1 |-> IF k = 0 THEN links ELSE Add(g[k - 1], k)]
           f == [k \in 0..1 |-> IF k = 0 THEN links ELSE Add(links, 1)]
<1>1. Len(sends) = 1 /\ Add(links, 1) = [links EXCEPT ![<<n, to>>] = Append(@, m)]
  OBVIOUS
<1>2. Engine!WithMessages(links, n, sends) = (CHOOSE g : Is(g))[1]
  BY <1>1 DEF Engine!WithMessages
<1> HIDE DEF Add, sends
<1>3. Is(f)
  <2>1. f[0] = links /\ f[1] = Add(links, 1)
    OBVIOUS
  <2>2. \A k \in 0..1 : k = 0 \/ (k = 1 /\ k - 1 = 0)
    OBVIOUS
  <2>3. \A k \in 0..1 : (IF k = 0 THEN links ELSE Add(f[k - 1], k))
                           = (IF k = 0 THEN links ELSE Add(links, 1))
    BY <2>1, <2>2
  <2> QED
    BY <2>3
<1>4. \A g : Is(g) => g[1] = Add(links, 1)
  <2> SUFFICES ASSUME NEW g, Is(g) PROVE g[1] = Add(links, 1)
    OBVIOUS
  <2>1. g[0] = links /\ g[1] = Add(g[0], 1)
    OBVIOUS
  <2> QED
    BY <2>1
<1> HIDE DEF Is, f
<1>5. Is(CHOOSE g : Is(g))
  BY <1>3
<1>6. Engine!WithMessages(links, n, sends) = Add(links, 1)
  BY <1>2, <1>4, <1>5
<1>7. Engine!WithMessages(links, n, sends) =
        [links EXCEPT ![<<n, to>>] = Append(links[<<n, to>>], m)]
  BY <1>1, <1>6
<1> QED
  BY <1>7 DEF sends, Sent

Part(pay, j) == [i \in 1..j |-> pay[i]]

LEMMA AppendedPart ==
  ASSUME NEW M, NEW s \in Seq(M), NEW k \in Nat, NEW pay \in [1..k -> M], NEW j \in 1..k
  PROVE  Append(s \o Part(pay, j - 1), pay[j]) = s \o Part(pay, j)
<1> DEFINE a == Part(pay, j - 1)
           b == Part(pay, j)
<1>1. a \in Seq(M) /\ Len(a) = j - 1 /\ \A i \in 1..(j - 1) : a[i] = pay[i]
  BY DEF Part
<1>2. b \in Seq(M) /\ Len(b) = j /\ \A i \in 1..j : b[i] = pay[i]
  BY DEF Part
<1>3. pay[j] \in M /\ Len(s) \in Nat
  BY LenProperties
<1> HIDE DEF a, b
<1>4. /\ s \o a \in Seq(M) /\ Len(s \o a) = Len(s) + j - 1
      /\ \A i \in 1..(Len(s) + j - 1) : (s \o a)[i] = IF i <= Len(s) THEN s[i] ELSE a[i - Len(s)]
  <2>1. s \o a \in Seq(M) /\ Len(s \o a) = Len(s) + Len(a)
    BY <1>1, ConcatProperties
  <2>2. Len(s) + Len(a) = Len(s) + j - 1 /\ Len(s \o a) = Len(s) + j - 1
    BY <1>1, <1>3, <2>1
  <2>3. ASSUME NEW i \in 1..(Len(s) + j - 1)
        PROVE  (s \o a)[i] = IF i <= Len(s) THEN s[i] ELSE a[i - Len(s)]
    BY <1>1, <1>3, <2>2, <2>3
  <2> QED
    BY <2>1, <2>2, <2>3
<1>5. /\ s \o b \in Seq(M) /\ Len(s \o b) = Len(s) + j
      /\ \A i \in 1..(Len(s) + j) : (s \o b)[i] = IF i <= Len(s) THEN s[i] ELSE b[i - Len(s)]
  BY <1>2, <1>3, ConcatProperties
<1>6. /\ Append(s \o a, pay[j]) \in Seq(M) /\ Len(Append(s \o a, pay[j])) = Len(s) + j
      /\ \A i \in 1..(Len(s) + j - 1) : Append(s \o a, pay[j])[i] = (s \o a)[i]
      /\ Append(s \o a, pay[j])[Len(s) + j] = pay[j]
  BY <1>3, <1>4, AppendProperties
<1>7. ASSUME NEW i \in 1..(Len(s) + j) PROVE Append(s \o a, pay[j])[i] = (s \o b)[i]
  <2>1. CASE i = Len(s) + j
    <3>1. ~(i <= Len(s)) /\ i - Len(s) = j
      BY <1>3, <2>1
    <3> QED
      BY <1>2, <1>5, <1>6, <2>1, <3>1
  <2>2. CASE i <= Len(s)
    BY <1>3, <1>4, <1>5, <1>6, <2>2
  <2>3. CASE Len(s) < i /\ i < Len(s) + j
    <3>1. i - Len(s) \in 1..(j - 1) /\ i \in 1..(Len(s) + j - 1) /\ ~(i <= Len(s)) /\ i - Len(s) \in 1..j
      BY <1>3, <2>3
    <3>2. Append(s \o a, pay[j])[i] = (s \o a)[i]
      BY <1>6, <3>1
    <3>3. (s \o a)[i] = a[i - Len(s)]
      BY <1>4, <3>1
    <3>4. (s \o b)[i] = b[i - Len(s)]
      BY <1>5, <3>1
    <3>5. a[i - Len(s)] = b[i - Len(s)]
      BY <1>1, <1>2, <3>1
    <3> QED
      BY <3>2, <3>3, <3>4, <3>5
  <2>4. i = Len(s) + j \/ i <= Len(s) \/ (Len(s) < i /\ i < Len(s) + j)
    BY <1>3
  <2> QED
    BY <2>1, <2>2, <2>3, <2>4
<1> QED
  BY <1>5, <1>6, <1>7, SeqEqual DEF a, b

(* Messages to one node are put at the end of one link. *)
Put(links, l, pay) == [links EXCEPT ![l] = @ \o pay]
ToOne(sends, to, pay, k) == sends = [j \in 1..k |-> <<to, pay[j]>>]

LEMMA ManySent ==
  ASSUME NEW L, NEW M, NEW links \in [L -> Seq(M)], NEW n, NEW to, <<n, to>> \in L,
         NEW k \in Nat, NEW pay \in [1..k -> M],
         NEW sends, ToOne(sends, to, pay, k)
  PROVE  Engine!WithMessages(links, n, sends) = Put(links, <<n, to>>, pay)
<1> DEFINE l == <<n, to>>
           Upto(j) == [links EXCEPT ![l] = links[l] \o Part(pay, j)]
           Add(x, j) == [x EXCEPT ![<<n, sends[j][1]>>] = Append(@, sends[j][2])]
           Is(g) == g = [j \in 0..k |-> IF j = 0 THEN links ELSE Add(g[j - 1], j)]
           f == [j \in 0..k |-> Upto(j)]
<1>0. sends = [j \in 1..k |-> <<to, pay[j]>>]
  BY DEF ToOne
<1>1. Len(sends) = k
  BY <1>0
<1>2. Engine!WithMessages(links, n, sends) = (CHOOSE g : Is(g))[k]
  BY <1>1 DEF Engine!WithMessages
<1>3. Upto(0) = links
  <2>1. links[l] \o Part(pay, 0) = links[l]
    <3>1. Part(pay, 0) = <<>> /\ links[l] \in Seq(M)
      BY DEF Part
    <3> QED
      BY <3>1, ConcatEmptySeq
  <2> QED
    BY <2>1
<1>4. ASSUME NEW j \in 1..k PROVE Add(Upto(j - 1), j) = Upto(j)
  <2>1. sends[j][1] = to /\ sends[j][2] = pay[j]
    BY <1>0
  <2> DEFINE before == links[l] \o Part(pay, j - 1)
             after  == links[l] \o Part(pay, j)
  <2>2. Append(before, pay[j]) = after
    <3>1. links[l] \in Seq(M) /\ k \in Nat /\ pay \in [1..k -> M] /\ j \in 1..k
      OBVIOUS
    <3> QED
      BY ONLY <3>1, AppendedPart
  <2>3. Upto(j - 1) = [links EXCEPT ![l] = before] /\ Upto(j) = [links EXCEPT ![l] = after]
    OBVIOUS
  <2> HIDE DEF before, after, Upto
  <2>4. Add(Upto(j - 1), j) = [Upto(j - 1) EXCEPT ![l] = Append(Upto(j - 1)[l], pay[j])]
    BY <2>1
  <2>5. Upto(j - 1)[l] = before
    BY <2>3
  <2> QED
    BY <2>2, <2>3, <2>4, <2>5
<1> HIDE DEF Upto, Add
<1>5. Is(f)
  <2>1. \A j \in 0..k : j # 0 => j \in 1..k /\ j - 1 \in 0..k
    OBVIOUS
  <2>2. \A j \in 0..k : f[j] = IF j = 0 THEN links ELSE Add(f[j - 1], j)
    BY <1>3, <1>4, <2>1
  <2> QED
    BY <2>2
<1>6. ASSUME NEW g, Is(g) PROVE g[k] = f[k]
  <2> DEFINE T == {j \in Nat : j <= k => g[j] = f[j]}
  <2>1. \A j \in 0..k : g[j] = IF j = 0 THEN links ELSE Add(g[j - 1], j)
    BY <1>6
  <2>2. \A j \in 0..k : f[j] = IF j = 0 THEN links ELSE Add(f[j - 1], j)
    BY <1>5
  <2> HIDE DEF f, Is
  <2>3. 0 \in T
    <3>1. 0 \in 0..k
      OBVIOUS
    <3>2. g[0] = f[0]
      BY <2>1, <2>2, <3>1
    <3> QED
      BY <3>2
  <2>4. ASSUME NEW j \in T PROVE j + 1 \in T
    <3>1. CASE j + 1 <= k
      <4>1. j \in Nat /\ (j <= k => g[j] = f[j])
        BY <2>4
      <4>2. j + 1 \in 0..k /\ j + 1 # 0 /\ (j + 1) - 1 = j /\ j <= k
        BY <3>1, <4>1
      <4> QED
        BY <2>1, <2>2, <4>1, <4>2
    <3> QED
      BY <3>1
  <2>5. T = Nat
    <3> HIDE DEF T
    <3> QED
      BY <2>3, <2>4, AllNaturals DEF T
  <2>6. k \in T
    BY <2>5
  <2> QED
    BY <2>6
<1>7. (CHOOSE g : Is(g))[k] = f[k]
  <2> HIDE DEF Is, f
  <2> QED
    BY <1>5, <1>6
<1>8. Part(pay, k) = pay
  BY DEF Part
<1>9. (CHOOSE g : Is(g))[k] = Upto(k)
  BY <1>7
<1> HIDE DEF Is, f
<1> QED
  BY <1>2, <1>8, <1>9 DEF Upto, Put

-----------------------------------------------------------------------------
(* Two leaders.  The writes of a key are ordered, and each leader has the  *)
(* last of those it knows.                                                 *)

Leaders == MultiLeader!Leaders
Links   == MultiLeader!Links
NoWrite == MultiLeader!NoWrite

Writes  == [ts : Nat \ {0}, origin : Leaders]
Ids     == Key \X Writes
Updates == [kind : {"update"}, key : Key, write : Writes]
Id(m)   == <<m.key, m.write>>

Data(n, k) == state[n].data[k]
Link(l)    == net.links[l]
Coming(l)  == {Link(l)[i] : i \in DOMAIN Link(l)}
Behind(a, b) == a = b \/ MultiLeader!Wins(b, a)

NodesTyped ==
  state \in [Leaders -> [data : [Key -> Writes \cup {NoWrite}], acked : SUBSET Ids,
                         discarded : SUBSET (Key \X Writes \X Writes)]]

NetTyped == net \in [links : [Links -> Seq(Updates)], timers : {MultiLeader!NoEvents.timers}]

EnvTyped ==
  env \in [dead : SUBSET Leaders, falls : [Leaders -> Nat], kills : Nat, revives : Nat,
           drops : Nat, dups : Nat, late : Nat, lost : Nat]

Pasts == UNION {[D -> SUBSET Ids] : D \in SUBSET Ids}
HistTyped == hist \in [now : Nat, writes : Nat, past : Pasts, known : [Leaders -> SUBSET Ids]]

(* Whoever made a write knows its past, and has that write or a later one. *)
Knowledge ==
  /\ \A n \in Leaders : hist.known[n] \subseteq DOMAIN hist.past
  /\ \A id \in DOMAIN hist.past : /\ hist.past[id] \subseteq hist.known[id[2].origin]
                                  /\ id[2].ts <= Data(id[2].origin, id[1]).ts
  /\ \A n \in Leaders, k \in Key : Data(n, k) = NoWrite \/ <<k, Data(n, k)>> \in hist.known[n]

(* What is on its way is of its sender, who has it or a later one.         *)
UpdateRight(l, m) ==
  /\ l[1] # l[2] /\ m.write.origin = l[1]
  /\ Id(m) \in DOMAIN hist.past /\ Behind(m.write, Data(l[1], m.key))
UpdatesRight == \A l \in Links : \A m \in Coming(l) : UpdateRight(l, m)

(* With nothing lost, what one leader has is on its way to the other, or   *)
(* no news there.                                                          *)
OnItsWay(l, k) ==
  \E i \in DOMAIN Link(l) : Link(l)[i].key = k /\ Link(l)[i].write = Data(l[1], k)
Reaches ==
  env.lost = 0 => \A n, p \in Leaders, k \in Key :
                    n # p => Behind(Data(n, k), Data(p, k)) \/ OnItsWay(<<n, p>>, k)

(* While updates arrive in order and once, they arrive before any other    *)
(* that was made by one who knew them.                                     *)
InOrder == env.late + env.dups = 0
UnseenOn(l) ==
  \A i \in DOMAIN Link(l) :
    /\ Id(Link(l)[i]) \notin hist.known[l[2]]
    /\ \A j \in DOMAIN Link(l) : i < j =>
         Id(Link(l)[j]) # Id(Link(l)[i]) /\ Id(Link(l)[j]) \notin hist.past[Id(Link(l)[i])]
Unseen == InOrder => \A l \in Links : UnseenOn(l)

Concurrent ==
  \A n \in Leaders : \A d \in state[n].discarded :
    /\ <<d[1], d[3]>> \in DOMAIN hist.past
    /\ InOrder => <<d[1], d[2]>> \notin hist.past[<<d[1], d[3]>>]

LeadersInv ==
  /\ NodesTyped /\ NetTyped /\ EnvTyped /\ HistTyped
  /\ Knowledge /\ UpdatesRight /\ Reaches /\ Unseen /\ Concurrent

LEMMA LeadersEngine ==
  /\ \A links, n, sends : MultiLeader!WithMessages(links, n, sends) = Engine!WithMessages(links, n, sends)
  /\ \A timers, n, set : MultiLeader!WithTimers(timers, n, set) = Engine!WithTimers(timers, n, set)
  /\ \A s, i : MultiLeader!AllBut(s, i) = Without(s, i)
<1>1. \A links, n, sends : MultiLeader!WithMessages(links, n, sends) = Engine!WithMessages(links, n, sends)
  BY DEF MultiLeader!WithMessages, Engine!WithMessages
<1>2. \A S : MultiLeader!Cardinality(S) = Engine!Cardinality(S)
  BY DEF MultiLeader!Cardinality, Engine!Cardinality
<1>3. \A timers, n, set : MultiLeader!WithTimers(timers, n, set) = Engine!WithTimers(timers, n, set)
  BY <1>2 DEF MultiLeader!WithTimers, Engine!WithTimers
<1>4. \A s, i : MultiLeader!AllBut(s, i) = Without(s, i)
  BY DEF MultiLeader!AllBut, Engine!AllBut, Without
<1> QED
  BY <1>1, <1>3, <1>4

LEMMA TwoLeaders ==
  /\ Leaders = {"DC1", "DC2"} /\ Links = Leaders \X Leaders
  /\ \A n \in Leaders : /\ MultiLeader!Peer(n) \in Leaders /\ MultiLeader!Peer(n) # n
                        /\ \A p \in Leaders : p = n \/ p = MultiLeader!Peer(n)
BY DEF Leaders, Links, MultiLeader!Leaders, MultiLeader!Links, MultiLeader!Peer

LEMMA WritesOrdered ==
  /\ NoWrite \notin Writes /\ \A w \in Writes : MultiLeader!Wins(w, NoWrite)
  /\ \A a, b \in Writes \cup {NoWrite} :
       /\ a = b \/ MultiLeader!Wins(a, b) \/ MultiLeader!Wins(b, a)
       /\ ~(MultiLeader!Wins(a, b) /\ MultiLeader!Wins(b, a)) /\ ~MultiLeader!Wins(a, a)
       /\ \A c \in Writes \cup {NoWrite} : Behind(a, b) /\ Behind(b, c) => Behind(a, c)
       /\ Behind(a, b) => a.ts <= b.ts
       /\ a.ts < b.ts => MultiLeader!Wins(b, a)
<1> DEFINE Low(w)  == w.ts \in Nat
           R(w) == MultiLeader!Rank(w.origin)
<1>1. NoWrite.ts = 0 /\ NoWrite.origin = "none" /\ \A w \in Writes : w.ts \in Nat \ {0} /\ w.ts > 0
  BY DEF NoWrite, MultiLeader!NoWrite, Writes
<1>2. \A w \in Writes \cup {NoWrite} : w.ts \in Nat /\ R(w) \in {1, 2}
  BY <1>1 DEF MultiLeader!Rank
<1>3. \A a, b \in Writes \cup {NoWrite} : a.ts = b.ts /\ R(a) = R(b) => a = b
  <2> SUFFICES ASSUME NEW a \in Writes \cup {NoWrite}, NEW b \in Writes \cup {NoWrite},
                      a.ts = b.ts, R(a) = R(b)
               PROVE  a = b
    OBVIOUS
  <2>1. CASE a = NoWrite
    BY <1>1, <2>1
  <2>2. CASE b = NoWrite
    BY <1>1, <2>2
  <2>3. CASE a \in Writes /\ b \in Writes
    <3>1. a.origin \in {"DC1", "DC2"} /\ b.origin \in {"DC1", "DC2"}
      BY <2>3 DEF Writes, Leaders, MultiLeader!Leaders
    <3>2. a.origin = b.origin
      BY <3>1 DEF MultiLeader!Rank
    <3> QED
      BY <2>3, <3>2 DEF Writes
  <2> QED
    BY <2>1, <2>2, <2>3
<1>4. \A a, b : MultiLeader!Wins(a, b) <=> a.ts > b.ts \/ (a.ts = b.ts /\ R(a) > R(b))
  BY DEF MultiLeader!Wins
<1>5. NoWrite \notin Writes
  BY <1>1
<1> HIDE DEF R
<1> QED
  BY <1>1, <1>2, <1>3, <1>4, <1>5 DEF Behind

LEMMA LeadersInit == MultiLeader!Init => LeadersInv
<1> SUFFICES ASSUME MultiLeader!Init PROVE LeadersInv
  OBVIOUS
<1> USE TwoLeaders
<1> DEFINE none == [data |-> [k \in Key |-> NoWrite], acked |-> {}, discarded |-> {}]
<1>1. /\ state = [n \in Leaders |-> none]
      /\ net = [links |-> [l \in Links |-> <<>>], timers |-> MultiLeader!NoEvents.timers]
      /\ env = [dead |-> {}, falls |-> [n \in Leaders |-> 0], kills |-> 0, revives |-> 0,
                drops |-> 0, dups |-> 0, late |-> 0, lost |-> 0]
      /\ hist = [now |-> 0, writes |-> 0, past |-> [w \in {} |-> {}],
                 known |-> [n \in Leaders |-> {}]]
  BY DEF MultiLeader!Init, MultiLeader!NoEvents, MultiLeader!Calm, NoWrite, Leaders, Links
<1>2. /\ \A n \in Leaders, k \in Key : Data(n, k) = NoWrite
      /\ \A n \in Leaders : state[n].discarded = {} /\ hist.known[n] = {}
      /\ \A l \in Links : Link(l) = <<>> /\ DOMAIN Link(l) = {}
      /\ DOMAIN hist.past = {}
  BY <1>1 DEF Data, Link
<1>3. NodesTyped
  <2>1. none \in [data : [Key -> Writes \cup {NoWrite}], acked : SUBSET Ids,
                  discarded : SUBSET (Key \X Writes \X Writes)]
    OBVIOUS
  <2> QED
    BY <1>1, <2>1 DEF NodesTyped
<1>4. NetTyped
  <2>1. <<>> \in Seq(Updates)
    OBVIOUS
  <2>2. [l \in Links |-> <<>>] \in [Links -> Seq(Updates)]
    BY <2>1
  <2> QED
    BY <1>1, <2>2 DEF NetTyped
<1>5. EnvTyped
  BY <1>1 DEF EnvTyped
<1>6. HistTyped
  <2>1. [w \in {} |-> {}] \in [{} -> SUBSET Ids] /\ {} \in SUBSET Ids
    OBVIOUS
  <2>2. [w \in {} |-> {}] \in Pasts
    BY <2>1 DEF Pasts
  <2>3. [n \in Leaders |-> {}] \in [Leaders -> SUBSET Ids]
    OBVIOUS
  <2> QED
    BY <1>1, <2>2, <2>3 DEF HistTyped
<1>7. Knowledge
  BY <1>2 DEF Knowledge
<1>8. UpdatesRight /\ Unseen
  BY <1>2 DEF UpdatesRight, Coming, Unseen, UnseenOn
<1>9. Reaches
  BY <1>2 DEF Reaches, Behind
<1>10. Concurrent
  BY <1>2 DEF Concurrent
<1> QED
  BY <1>3, <1>4, <1>5, <1>6, <1>7, <1>8, <1>9, <1>10 DEF LeadersInv

(* What is known of the pieces of a typed state. *)
LEMMA LeadersTyped ==
  ASSUME NodesTyped, NetTyped, HistTyped
  PROVE  /\ \A n \in Leaders, k \in Key : Data(n, k) \in Writes \cup {NoWrite}
         /\ \A l \in Links : /\ Link(l) \in Seq(Updates) /\ Len(Link(l)) \in Nat
                             /\ DOMAIN Link(l) = 1..Len(Link(l))
                             /\ \A i \in DOMAIN Link(l) : Link(l)[i] \in Updates
         /\ DOMAIN hist.past \subseteq Ids
         /\ \A id \in DOMAIN hist.past : hist.past[id] \subseteq Ids
         /\ \A n \in Leaders : hist.known[n] \subseteq Ids
         /\ hist.now \in Nat
<1>1. \A n \in Leaders, k \in Key : Data(n, k) \in Writes \cup {NoWrite}
  BY DEF NodesTyped, Data
<1>2. ASSUME NEW l \in Links
      PROVE  /\ Link(l) \in Seq(Updates) /\ Len(Link(l)) \in Nat
             /\ DOMAIN Link(l) = 1..Len(Link(l))
             /\ \A i \in DOMAIN Link(l) : Link(l)[i] \in Updates
  <2>1. Link(l) \in Seq(Updates)
    BY DEF NetTyped, Link
  <2> QED
    BY <2>1, LenProperties, ElementOfSeq
<1>3. hist.past \in Pasts /\ hist.known \in [Leaders -> SUBSET Ids] /\ hist.now \in Nat
  BY DEF HistTyped
<1>4. PICK D \in SUBSET Ids : hist.past \in [D -> SUBSET Ids]
  BY <1>3 DEF Pasts
<1> QED
  BY <1>1, <1>2, <1>3, <1>4

LEMMA NoneTimed == NetTyped => net.timers \in [{} -> Nat]
<1>1. MultiLeader!NoEvents.timers \in [{} -> Nat]
  BY DEF MultiLeader!NoEvents
<1> QED
  BY <1>1 DEF NetTyped

Discarded(n) == state[n].discarded

(* A write of n is new, and later than what n has; it is sent last.        *)
Writing(n, p, k, w, m) ==
  /\ n # p /\ w.origin = n /\ m.key = k /\ m.write = w /\ env' = env
  /\ <<k, w>> \notin DOMAIN hist.past /\ Behind(Data(n, k), w)
  /\ state' = [state EXCEPT ![n].data[k] = w, ![n].acked = @ \cup {<<k, w>>}]
  /\ net' = [links |-> Sent(net.links, n, p, m), timers |-> net.timers]
  /\ hist' = [hist EXCEPT !.writes = @ + 1,
                !.past = [x \in DOMAIN @ \cup {<<k, w>>} |->
                            IF x = <<k, w>> THEN hist.known[n] ELSE @[x]],
                !.known[n] = @ \cup {<<k, w>>}]

LEMMA WriteStep ==
  ASSUME LeadersInv, MultiLeader!Write
  PROVE  \E n \in Leaders, p \in Leaders, k \in Key, w \in Writes, m \in Updates :
           Writing(n, p, k, w, m)
<1> USE TwoLeaders DEF LeadersInv
<1>1. PICK n \in Leaders, k \in Key :
        /\ hist' = [hist EXCEPT !.writes = @ + 1,
                      !.past = [x \in DOMAIN @ \cup {<<k, MultiLeader!Made(n, k)>>} |->
                                  IF x = <<k, MultiLeader!Made(n, k)>> THEN hist.known[n] ELSE @[x]],
                      !.known[n] = @ \cup {<<k, MultiLeader!Made(n, k)>>}]
        /\ MultiLeader!External(n, MultiLeader!OnWrite(n, k))
  BY DEF MultiLeader!Write, Leaders
<1> DEFINE w == MultiLeader!Made(n, k)
           p == MultiLeader!Peer(n)
           m == [kind |-> "update", key |-> k, write |-> w]
<1>2. Data(n, k) \in Writes \cup {NoWrite} /\ hist.now \in Nat /\ Data(n, k).ts \in Nat
  <2>1. NoWrite.ts \in Nat
    BY DEF NoWrite, MultiLeader!NoWrite
  <2> QED
    BY LeadersTyped, <2>1 DEF Writes
<1>3. w.ts \in Nat /\ w.ts > Data(n, k).ts /\ w = [ts |-> w.ts, origin |-> n]
  BY <1>2 DEF MultiLeader!Made, MultiLeader!Larger, Data
<1>4. w \in Writes /\ m \in Updates /\ w.origin = n
  BY <1>2, <1>3 DEF Writes, Updates
<1>5. <<k, w>> \notin DOMAIN hist.past
  <2> SUFFICES ASSUME <<k, w>> \in DOMAIN hist.past PROVE FALSE
    OBVIOUS
  <2>1. w.ts <= Data(w.origin, k).ts
    BY DEF Knowledge
  <2> QED
    BY <1>2, <1>3, <1>4, <2>1
<1>6. Behind(Data(n, k), w)
  BY <1>3, <1>4, <1>2, WritesOrdered DEF Behind
<1>7. /\ state' = [state EXCEPT ![n].data[k] = w, ![n].acked = @ \cup {<<k, w>>}]
      /\ net' = [links |-> MultiLeader!WithMessages(net.links, n, <<<<p, m>>>>),
                 timers |-> MultiLeader!WithTimers(net.timers, n, <<>>)]
      /\ env' = env
  BY <1>1 DEF MultiLeader!External, MultiLeader!Happens, MultiLeader!Queued, MultiLeader!OnWrite,
              MultiLeader!Out
<1>9. MultiLeader!WithTimers(net.timers, n, <<>>) = net.timers
  BY NoneTimed, NoTimers, LeadersEngine
<1> HIDE DEF w, p, m
<1>8. MultiLeader!WithMessages(net.links, n, <<<<p, m>>>>) = Sent(net.links, n, p, m)
  BY OneSent, LeadersEngine
<1>10. net' = [links |-> Sent(net.links, n, p, m), timers |-> net.timers]
  BY <1>7, <1>8, <1>9
<1>11. p \in Leaders /\ n # p
  BY DEF p
<1>12. m.key = k /\ m.write = w
  BY DEF m
<1>13. hist' = [hist EXCEPT !.writes = @ + 1,
                  !.past = [x \in DOMAIN @ \cup {<<k, w>>} |->
                              IF x = <<k, w>> THEN hist.known[n] ELSE @[x]],
                  !.known[n] = @ \cup {<<k, w>>}]
  BY <1>1 DEF w
<1>14. Writing(n, p, k, w, m)
  BY <1>4, <1>5, <1>6, <1>7, <1>10, <1>11, <1>12, <1>13 DEF Writing
<1> QED
  BY <1>4, <1>11, <1>14

Removed(links, l, i) == [links EXCEPT ![l] = Without(@, i)]
Copied(links, l, i)  == [links EXCEPT ![l] = Append(@, @[i])]

LEMMA TakenIs ==
  ASSUME NEW l \in Links, NEW i, NetTyped
  PROVE  MultiLeader!Taken(l, i) = [links |-> Removed(net.links, l, i), timers |-> net.timers]
<1>1. net = [links |-> net.links, timers |-> net.timers]
  BY DEF NetTyped
<1>2. \A x, a, b : x = [links |-> a, timers |-> b] =>
        [x EXCEPT !.links[l] = MultiLeader!AllBut(@, i)] =
          [links |-> [a EXCEPT ![l] = MultiLeader!AllBut(a[l], i)], timers |-> b]
  OBVIOUS
<1>3. [net EXCEPT !.links[l] = MultiLeader!AllBut(@, i)] =
        [links |-> [net.links EXCEPT ![l] = MultiLeader!AllBut(net.links[l], i)], timers |-> net.timers]
  BY <1>1, <1>2
<1> QED
  BY <1>3, LeadersEngine DEF MultiLeader!Taken, Removed

LEMMA CopiedIs ==
  ASSUME NEW l \in Links, NEW i, NetTyped
  PROVE  [net EXCEPT !.links[l] = Append(@, @[i])] =
           [links |-> Copied(net.links, l, i), timers |-> net.timers]
<1>1. net = [links |-> net.links, timers |-> net.timers]
  BY DEF NetTyped
<1>2. \A x, a, b, c : x = [links |-> a, timers |-> b] =>
        [x EXCEPT !.links[l] = c] = [links |-> [a EXCEPT ![l] = c], timers |-> b]
  OBVIOUS
<1> DEFINE c == Append(net.links[l], net.links[l][i])
<1> HIDE DEF c
<1>3. [net EXCEPT !.links[l] = c] = [links |-> [net.links EXCEPT ![l] = c], timers |-> net.timers]
  BY <1>1, <1>2
<1> QED
  BY <1>3 DEF Copied, c

(* An update replaces what loses against it, or is discarded.              *)
Updating(l, i, n, m) ==
  /\ m = Link(l)[i] /\ n = l[2]
  /\ net' = [links |-> Removed(net.links, l, i), timers |-> net.timers]
  /\ env' = IF i = 1 THEN env ELSE [env EXCEPT !.late = @ + 1]
  /\ hist' = [hist EXCEPT !.known[n] = @ \cup {Id(m)} \cup hist.past[Id(m)]]
  /\ \/ /\ MultiLeader!Wins(m.write, Data(n, m.key))
        /\ state' = [state EXCEPT ![n].data[m.key] = m.write]
     \/ /\ ~MultiLeader!Wins(m.write, Data(n, m.key))
        /\ \/ state' = state
           \/ /\ Data(n, m.key) # NoWrite /\ Data(n, m.key).origin # m.write.origin
              /\ state' = [state EXCEPT ![n].discarded = @ \cup {<<m.key, m.write, Data(n, m.key)>>}]

LEMMA UpdateStep ==
  ASSUME LeadersInv, MultiLeader!Update
  PROVE  \E l \in Links : \E i \in DOMAIN Link(l), n \in Leaders, m \in Updates : Updating(l, i, n, m)
<1> USE TwoLeaders DEF LeadersInv
<1> DEFINE Arrives(l, i) ==
             /\ MultiLeader!Arrive(l, i, MultiLeader!OnUpdate)
             /\ hist' = [hist EXCEPT !.known[l[2]] = @ \cup {Id(Link(l)[i])} \cup hist.past[Id(Link(l)[i])]]
<1>0. PICK l \in Links : \E i \in DOMAIN Link(l) : Arrives(l, i)
  BY DEF MultiLeader!Update, Link, Links, Id
<1>1. PICK i \in DOMAIN Link(l) : Arrives(l, i)
  BY <1>0
<1> DEFINE m == Link(l)[i]
           n == l[2]
           out == MultiLeader!OnUpdate(l[1], n, m)
<1>2. n \in Leaders /\ m \in Updates
  BY LeadersTyped
<1>3. /\ env' = IF i = 1 THEN env ELSE [env EXCEPT !.late = @ + 1]
      /\ state' = out.state
      /\ net' = [links  |-> MultiLeader!WithMessages(MultiLeader!Taken(l, i).links, n, out.sends),
                 timers |-> MultiLeader!WithTimers(MultiLeader!Taken(l, i).timers, n, out.timers)]
  BY <1>1 DEF MultiLeader!Arrive, MultiLeader!MessageDue, MultiLeader!Happens, MultiLeader!Queued, Link
<1>4. out.sends = <<>> /\ out.timers = <<>>
  BY DEF MultiLeader!OnUpdate, MultiLeader!Quiet, MultiLeader!Out
<1>5. MultiLeader!Taken(l, i) = [links |-> Removed(net.links, l, i), timers |-> net.timers]
  BY TakenIs
<1>6. net' = [links |-> Removed(net.links, l, i), timers |-> net.timers]
  <2> HIDE DEF n, m, out
  <2>1. /\ MultiLeader!WithMessages(MultiLeader!Taken(l, i).links, n, <<>>) = MultiLeader!Taken(l, i).links
        /\ MultiLeader!WithTimers(MultiLeader!Taken(l, i).timers, n, <<>>) = MultiLeader!Taken(l, i).timers
    BY <1>5, NoneTimed, NoneSent, NoTimers, LeadersEngine
  <2> QED
    BY <1>3, <1>4, <1>5, <2>1
<1>7. Data(n, m.key) \in Writes \cup {NoWrite} /\ m.write \in Writes
  BY <1>2, LeadersTyped DEF Updates
<1>8. Data(n, m.key) = NoWrite => MultiLeader!Wins(m.write, Data(n, m.key))
  BY <1>7, WritesOrdered
<1>9. \/ /\ MultiLeader!Wins(m.write, Data(n, m.key))
         /\ state' = [state EXCEPT ![n].data[m.key] = m.write]
      \/ /\ ~MultiLeader!Wins(m.write, Data(n, m.key))
         /\ \/ state' = state
            \/ /\ Data(n, m.key) # NoWrite /\ Data(n, m.key).origin # m.write.origin
               /\ state' = [state EXCEPT ![n].discarded = @ \cup {<<m.key, m.write, Data(n, m.key)>>}]
  <2> HIDE DEF n, m
  <2>1. CASE MultiLeader!Wins(m.write, Data(n, m.key))
    BY <1>3, <2>1 DEF MultiLeader!OnUpdate, MultiLeader!Quiet, MultiLeader!Out, Data, NoWrite
  <2>2. CASE ~MultiLeader!Wins(m.write, Data(n, m.key)) /\ Data(n, m.key).origin = m.write.origin
    BY <1>3, <1>8, <2>2 DEF MultiLeader!OnUpdate, MultiLeader!Quiet, MultiLeader!Out, Data, NoWrite
  <2>3. CASE ~MultiLeader!Wins(m.write, Data(n, m.key)) /\ Data(n, m.key).origin # m.write.origin
    BY <1>3, <1>8, <2>3 DEF MultiLeader!OnUpdate, MultiLeader!Quiet, MultiLeader!Out, Data, NoWrite
  <2> QED
    BY <2>1, <2>2, <2>3
<1>10. hist' = [hist EXCEPT !.known[n] = @ \cup {Id(m)} \cup hist.past[Id(m)]]
  BY <1>1
<1>11. Updating(l, i, n, m)
  BY <1>3, <1>6, <1>9, <1>10 DEF Updating
<1> QED
  BY <1>2, <1>11

(* What a fault does to the counts of faults. *)
Worse(d) ==
  /\ env'.lost = env.lost + d[1] /\ env'.dups = env.dups + d[2] /\ env'.late = env.late
  /\ EnvTyped'

LEMMA FaultsCounted ==
  ASSUME EnvTyped
  PROVE  /\ \A n \in Leaders : MultiLeader!Kill(n) \/ MultiLeader!Revive(n) => Worse(<<0, 0>>)
         /\ \A l, i : MultiLeader!Drop(l, i) \/ MultiLeader!MessageToDead(l) => Worse(<<1, 0>>)
         /\ \A l, i : MultiLeader!Duplicate(l, i) => Worse(<<0, 1>>)
<1>1. /\ env.lost \in Nat /\ env.dups \in Nat /\ env.kills \in Nat /\ env.revives \in Nat
      /\ env.drops \in Nat /\ env.late \in Nat
      /\ env.dead \in SUBSET Leaders /\ env.falls \in [Leaders -> Nat]
  BY DEF EnvTyped
<1>2. ASSUME NEW n \in Leaders, MultiLeader!Kill(n) PROVE Worse(<<0, 0>>)
  <2>1. env' = [env EXCEPT !.dead = @ \cup {n}, !.kills = @ + 1, !.falls[n] = @ + 1]
    BY <1>2 DEF MultiLeader!Kill
  <2>2. env'.lost = env.lost /\ env'.dups = env.dups /\ env'.late = env.late
    BY <2>1 DEF EnvTyped
  <2>3. [env.falls EXCEPT ![n] = @ + 1] \in [Leaders -> Nat] /\ env.kills + 1 \in Nat
    BY <1>1
  <2>4. EnvTyped'
    BY <2>1, <2>3 DEF EnvTyped
  <2> QED
    BY <1>1, <2>2, <2>4 DEF Worse
<1>3. ASSUME NEW n \in Leaders, MultiLeader!Revive(n) PROVE Worse(<<0, 0>>)
  <2>1. env' = [env EXCEPT !.dead = @ \ {n}, !.revives = @ + 1]
    BY <1>3 DEF MultiLeader!Revive
  <2>2. env'.lost = env.lost /\ env'.dups = env.dups /\ env'.late = env.late
    BY <2>1 DEF EnvTyped
  <2>3. env.revives + 1 \in Nat /\ env.dead \ {n} \in SUBSET Leaders
    BY <1>1
  <2>4. EnvTyped'
    BY <2>1, <2>3 DEF EnvTyped
  <2> QED
    BY <1>1, <2>2, <2>4 DEF Worse
<1>4. ASSUME NEW l, NEW i, MultiLeader!Drop(l, i) PROVE Worse(<<1, 0>>)
  <2>1. env' = [env EXCEPT !.drops = @ + 1, !.lost = @ + 1]
    BY <1>4 DEF MultiLeader!Drop
  <2>2. env'.lost = env.lost + 1 /\ env'.dups = env.dups /\ env'.late = env.late
    BY <2>1 DEF EnvTyped
  <2>3. env.drops + 1 \in Nat /\ env.lost + 1 \in Nat
    BY <1>1
  <2>4. EnvTyped'
    BY <2>1, <2>3 DEF EnvTyped
  <2> QED
    BY <1>1, <2>2, <2>4 DEF Worse
<1>5. ASSUME NEW l, MultiLeader!MessageToDead(l) PROVE Worse(<<1, 0>>)
  <2>1. env' = [env EXCEPT !.lost = @ + 1]
    BY <1>5 DEF MultiLeader!MessageToDead
  <2>2. env'.lost = env.lost + 1 /\ env'.dups = env.dups /\ env'.late = env.late
    BY <2>1 DEF EnvTyped
  <2>3. env.lost + 1 \in Nat
    BY <1>1
  <2>4. EnvTyped'
    BY <2>1, <2>3 DEF EnvTyped
  <2> QED
    BY <1>1, <2>2, <2>4 DEF Worse
<1>6. ASSUME NEW l, NEW i, MultiLeader!Duplicate(l, i) PROVE Worse(<<0, 1>>)
  <2>1. env' = [env EXCEPT !.dups = @ + 1]
    BY <1>6 DEF MultiLeader!Duplicate
  <2>2. env'.dups = env.dups + 1 /\ env'.lost = env.lost /\ env'.late = env.late
    BY <2>1 DEF EnvTyped
  <2>3. env.dups + 1 \in Nat
    BY <1>1
  <2>4. EnvTyped'
    BY <2>1, <2>3 DEF EnvTyped
  <2> QED
    BY <1>1, <2>2, <2>4 DEF Worse
<1> QED
  BY <1>2, <1>3, <1>4, <1>5, <1>6

(* A fault loses a message, copies one or kills; nobody's data changes.    *)
Faulting ==
  /\ state' = state /\ hist' = hist
  /\ \/ Worse(<<0, 0>>) /\ net' = net
     \/ \E l \in Links : \E i \in DOMAIN Link(l) :
          Worse(<<1, 0>>) /\ net' = [links |-> Removed(net.links, l, i), timers |-> net.timers]
     \/ \E l \in Links : \E i \in DOMAIN Link(l) :
          Worse(<<0, 1>>) /\ net' = [links |-> Copied(net.links, l, i), timers |-> net.timers]

LEMMA FaultStep ==
  ASSUME LeadersInv, MultiLeader!Fault
  PROVE  Faulting
<1> USE TwoLeaders, FaultsCounted DEF LeadersInv
<1>1. state' = state /\ hist' = hist
  BY DEF MultiLeader!Fault
<1>2. ASSUME NEW n \in Leaders, MultiLeader!Kill(n) PROVE Faulting
  BY <1>1, <1>2 DEF MultiLeader!Kill, Faulting
<1>3. ASSUME NEW n \in Leaders, MultiLeader!Revive(n) PROVE Faulting
  BY <1>1, <1>3 DEF MultiLeader!Revive, Faulting
<1>4. ASSUME NEW l \in Links, NEW i \in DOMAIN Link(l), MultiLeader!Drop(l, i) PROVE Faulting
  BY <1>1, <1>4, TakenIs DEF MultiLeader!Drop, Faulting
<1>5. ASSUME NEW l \in Links, NEW i \in DOMAIN Link(l), MultiLeader!Duplicate(l, i) PROVE Faulting
  <2>1. net' = [links |-> Copied(net.links, l, i), timers |-> net.timers]
    BY <1>5, CopiedIs DEF MultiLeader!Duplicate
  <2>2. Worse(<<0, 1>>)
    BY <1>5
  <2> QED
    BY <1>1, <2>1, <2>2 DEF Faulting
<1>6. ASSUME NEW l \in Links, MultiLeader!MessageToDead(l) PROVE Faulting
  <2>1. Link(l) # <<>> /\ Link(l) \in Seq(Updates)
    BY <1>6, LeadersTyped DEF MultiLeader!MessageToDead, Link
  <2>2. 1 \in DOMAIN Link(l)
    BY <2>1, EmptySeq, LenProperties
  <2>3. net' = [links |-> Removed(net.links, l, 1), timers |-> net.timers]
    BY <1>6, TakenIs DEF MultiLeader!MessageToDead
  <2>4. Worse(<<1, 0>>)
    BY <1>6
  <2> QED
    BY <1>1, <2>2, <2>3, <2>4 DEF Faulting
<1>7. DOMAIN net.timers = {}
  BY DEF NetTyped, MultiLeader!NoEvents
<1> QED
  BY <1>2, <1>3, <1>4, <1>5, <1>6, <1>7 DEF MultiLeader!Fault, Leaders, Links, Link

(* What a write changes, piece by piece. *)
WriteChanges(n, p, k, w, m) ==
  /\ NodesTyped' /\ NetTyped' /\ EnvTyped' /\ HistTyped'
  /\ \A a \in Leaders, b \in Key : Data(a, b)' = IF a = n /\ b = k THEN w ELSE Data(a, b)
  /\ \A a \in Leaders : Discarded(a)' = Discarded(a)
  /\ \A l \in Links : Link(l)' = IF l = <<n, p>> THEN Append(Link(l), m) ELSE Link(l)
  /\ DOMAIN hist'.past = DOMAIN hist.past \cup {Id(m)}
  /\ \A x \in DOMAIN hist.past : hist'.past[x] = hist.past[x]
  /\ hist'.past[Id(m)] = hist.known[n]
  /\ \A a \in Leaders : hist'.known[a] = IF a = n THEN hist.known[a] \cup {Id(m)} ELSE hist.known[a]

LEMMA WriteFacts ==
  ASSUME LeadersInv, NEW n \in Leaders, NEW p \in Leaders, NEW k \in Key, NEW w \in Writes,
         NEW m \in Updates, Writing(n, p, k, w, m)
  PROVE  WriteChanges(n, p, k, w, m)
<1> USE TwoLeaders
<1>1. NodesTyped /\ NetTyped /\ EnvTyped /\ HistTyped
  BY DEF LeadersInv
<1>2. Id(m) = <<k, w>> /\ Id(m) \in Ids /\ Id(m) \notin DOMAIN hist.past
  BY DEF Writing, Id, Ids
<1>3. state' = [state EXCEPT ![n].data[k] = w, ![n].acked = @ \cup {<<k, w>>}]
  BY DEF Writing
<1>4. NodesTyped'
  <2> DEFINE node == [data |-> [state[n].data EXCEPT ![k] = w], acked |-> state[n].acked \cup {<<k, w>>},
                      discarded |-> state[n].discarded]
             One == [data : [Key -> Writes \cup {NoWrite}], acked : SUBSET Ids,
                     discarded : SUBSET (Key \X Writes \X Writes)]
  <2>1. state[n] \in One /\ <<k, w>> \in Ids
    BY <1>1, <1>2 DEF NodesTyped
  <2>2. node \in One
    <3>1. [state[n].data EXCEPT ![k] = w] \in [Key -> Writes \cup {NoWrite}]
      BY <2>1
    <3> QED
      BY <2>1, <3>1
  <2>3. state' = [state EXCEPT ![n] = node]
    <3> DEFINE r == state[n]
               data2 == [r.data EXCEPT ![k] = w]
               half == [data |-> data2, acked |-> r.acked, discarded |-> r.discarded]
               mid == [r EXCEPT !.data = data2]
               whole == [mid EXCEPT !.acked = @ \cup {<<k, w>>}]
    <3>1. state' = [state EXCEPT ![n] = whole]
      <4>1. state \in [Leaders -> One]
        BY <1>1 DEF NodesTyped
      <4>2. state' = [state EXCEPT ![n] = [state[n] EXCEPT !.data[k] = w, !.acked = @ \cup {<<k, w>>}]]
        BY <1>3, <4>1
      <4>3. [state[n] EXCEPT !.data[k] = w, !.acked = @ \cup {<<k, w>>}] = whole
        OBVIOUS
      <4> QED
        BY <4>2, <4>3
    <3>2. r = [data |-> r.data, acked |-> r.acked, discarded |-> r.discarded]
      BY <2>1
    <3> HIDE DEF r, data2
    <3>3. mid = half
      BY <3>2
    <3>4. [half EXCEPT !.acked = @ \cup {<<k, w>>}] = node
      <4> DEFINE more == r.acked \cup {<<k, w>>}
      <4>1. half.acked \cup {<<k, w>>} = more
        OBVIOUS
      <4>2. node = [data |-> data2, acked |-> more, discarded |-> r.discarded]
        BY DEF r, data2
      <4> HIDE DEF more, node
      <4>3. [half EXCEPT !.acked = more] = [data |-> data2, acked |-> more, discarded |-> r.discarded]
        OBVIOUS
      <4> HIDE DEF half
      <4> QED
        BY <4>1, <4>2, <4>3
    <3> HIDE DEF mid, half, node
    <3>5. whole = node
      BY <3>3, <3>4
    <3> HIDE DEF whole
    <3> QED
      BY <3>1, <3>5
  <2> HIDE DEF node
  <2> QED
    BY <1>1, <2>2, <2>3 DEF NodesTyped
<1>5. \A a \in Leaders, b \in Key : Data(a, b)' = IF a = n /\ b = k THEN w ELSE Data(a, b)
  BY <1>1, <1>3 DEF NodesTyped, Data
<1>6. \A a \in Leaders : Discarded(a)' = Discarded(a)
  BY <1>1, <1>3 DEF NodesTyped, Discarded
<1>7. net' = [links |-> Sent(net.links, n, p, m), timers |-> net.timers]
  BY DEF Writing
<1>8. net.links \in [Links -> Seq(Updates)] /\ net.timers = MultiLeader!NoEvents.timers
  BY <1>1 DEF NetTyped
<1>9. \A l \in Links : Link(l)' = IF l = <<n, p>> THEN Append(Link(l), m) ELSE Link(l)
  BY <1>7, <1>8 DEF Link, Sent
<1>10. Sent(net.links, n, p, m) \in [Links -> Seq(Updates)]
  BY <1>8, AppendProperties DEF Sent
<1>11. NetTyped'
  BY <1>7, <1>8, <1>10 DEF NetTyped
<1>12. EnvTyped'
  BY <1>1 DEF EnvTyped, Writing
<1>13. hist' = [hist EXCEPT !.writes = @ + 1,
                  !.past = [x \in DOMAIN @ \cup {Id(m)} |-> IF x = Id(m) THEN hist.known[n] ELSE @[x]],
                  !.known[n] = @ \cup {Id(m)}]
  BY <1>2 DEF Writing
<1>14. /\ hist.known \in [Leaders -> SUBSET Ids] /\ hist.now \in Nat /\ hist.writes \in Nat
       /\ hist = [now |-> hist.now, writes |-> hist.writes, past |-> hist.past, known |-> hist.known]
  BY <1>1 DEF HistTyped
<1> DEFINE past2  == [x \in DOMAIN hist.past \cup {Id(m)} |-> IF x = Id(m) THEN hist.known[n] ELSE hist.past[x]]
           known2 == [hist.known EXCEPT ![n] = @ \cup {Id(m)}]
<1>15. hist' = [now |-> hist.now, writes |-> hist.writes + 1, past |-> past2, known |-> known2]
  BY <1>13, <1>14
<1>16. past2 \in Pasts
  <2>1. /\ DOMAIN hist.past \subseteq Ids /\ hist.known[n] \subseteq Ids
        /\ \A id \in DOMAIN hist.past : hist.past[id] \subseteq Ids
    BY <1>1, LeadersTyped
  <2>2. past2 \in [DOMAIN hist.past \cup {Id(m)} -> SUBSET Ids]
    BY <2>1
  <2>3. DOMAIN hist.past \cup {Id(m)} \in SUBSET Ids
    BY <1>2, <2>1
  <2> QED
    BY <2>2, <2>3 DEF Pasts
<1>17. known2 \in [Leaders -> SUBSET Ids]
  BY <1>2, <1>14
<1>18. HistTyped'
  <2> HIDE DEF past2, known2
  <2> QED
    BY <1>14, <1>15, <1>16, <1>17 DEF HistTyped
<1>19. /\ DOMAIN past2 = DOMAIN hist.past \cup {Id(m)} /\ past2[Id(m)] = hist.known[n]
       /\ \A x \in DOMAIN hist.past : past2[x] = hist.past[x]
       /\ \A a \in Leaders : known2[a] = IF a = n THEN hist.known[a] \cup {Id(m)} ELSE hist.known[a]
  BY <1>2, <1>14
<1>20. hist'.past = past2 /\ hist'.known = known2
  BY <1>15
<1> HIDE DEF past2, known2
<1> QED
  BY <1>4, <1>5, <1>6, <1>9, <1>11, <1>12, <1>18, <1>19, <1>20 DEF WriteChanges

(* What an update applied changes, piece by piece. *)
UpdateChanges(l, i, n, m) ==
  /\ NodesTyped' /\ NetTyped' /\ EnvTyped' /\ HistTyped'
  /\ \A a \in Leaders, b \in Key :
       Data(a, b)' = IF a = n /\ b = m.key /\ MultiLeader!Wins(m.write, Data(a, b)) THEN m.write
                     ELSE Data(a, b)
  /\ \A a \in Leaders :
       \/ Discarded(a)' = Discarded(a)
       \/ /\ a = n /\ Data(n, m.key) \in Writes /\ Data(n, m.key).origin # m.write.origin
          /\ Discarded(a)' = Discarded(a) \cup {<<m.key, m.write, Data(n, m.key)>>}
  /\ \A x \in Links : Link(x)' = IF x = l THEN Without(Link(l), i) ELSE Link(x)
  /\ env'.lost = env.lost /\ (InOrder' => InOrder /\ i = 1)
  /\ hist'.past = hist.past
  /\ \A a \in Leaders : hist'.known[a] =
       IF a = n THEN hist.known[a] \cup {Id(m)} \cup hist.past[Id(m)] ELSE hist.known[a]

LEMMA UpdateFacts ==
  ASSUME LeadersInv, NEW l \in Links, NEW i \in DOMAIN Link(l), NEW n \in Leaders,
         NEW m \in Updates, Updating(l, i, n, m)
  PROVE  UpdateChanges(l, i, n, m)
<1> USE TwoLeaders
<1>1. NodesTyped /\ NetTyped /\ EnvTyped /\ HistTyped
  BY DEF LeadersInv
<1>2. UpdateRight(l, m)
  BY DEF LeadersInv, UpdatesRight, Coming, Updating
<1>3. Id(m) \in DOMAIN hist.past /\ Id(m) \in Ids /\ m.key \in Key /\ m.write \in Writes
  BY <1>2 DEF UpdateRight, Updates, Id, Ids
<1> DEFINE d == Data(n, m.key)
<1>4. d \in Writes \cup {NoWrite}
  BY <1>1, <1>3, LeadersTyped
<1>5. \/ MultiLeader!Wins(m.write, d) /\ state' = [state EXCEPT ![n].data[m.key] = m.write]
      \/ ~MultiLeader!Wins(m.write, d) /\ state' = state
      \/ /\ ~MultiLeader!Wins(m.write, d) /\ d \in Writes /\ d.origin # m.write.origin
         /\ state' = [state EXCEPT ![n].discarded = @ \cup {<<m.key, m.write, d>>}]
  BY <1>4 DEF Updating
<1> HIDE DEF d
<1>6. /\ NodesTyped'
      /\ \A a \in Leaders, b \in Key :
           Data(a, b)' = IF a = n /\ b = m.key /\ MultiLeader!Wins(m.write, d) THEN m.write
                         ELSE Data(a, b)
      /\ \A a \in Leaders :
           \/ Discarded(a)' = Discarded(a)
           \/ /\ a = n /\ d \in Writes /\ d.origin # m.write.origin
              /\ Discarded(a)' = Discarded(a) \cup {<<m.key, m.write, d>>}
  <2>1. CASE MultiLeader!Wins(m.write, d) /\ state' = [state EXCEPT ![n].data[m.key] = m.write]
    <3>1. NodesTyped'
      BY <1>1, <1>3, <2>1 DEF NodesTyped
    <3>2. \A a \in Leaders, b \in Key : Data(a, b)' = IF a = n /\ b = m.key THEN m.write ELSE Data(a, b)
      BY <1>1, <2>1 DEF NodesTyped, Data
    <3>3. \A a \in Leaders : Discarded(a)' = Discarded(a)
      BY <1>1, <2>1 DEF NodesTyped, Discarded
    <3> QED
      BY <2>1, <3>1, <3>2, <3>3
  <2>2. CASE ~MultiLeader!Wins(m.write, d) /\ state' = state
    <3>1. NodesTyped' /\ (\A a \in Leaders, b \in Key : Data(a, b)' = Data(a, b))
          /\ \A a \in Leaders : Discarded(a)' = Discarded(a)
      BY <1>1, <2>2 DEF NodesTyped, Data, Discarded
    <3> QED
      BY <2>2, <3>1
  <2>3. CASE /\ ~MultiLeader!Wins(m.write, d) /\ d \in Writes /\ d.origin # m.write.origin
             /\ state' = [state EXCEPT ![n].discarded = @ \cup {<<m.key, m.write, d>>}]
    <3>1. NodesTyped'
      <4>1. state[n] \in [data : [Key -> Writes \cup {NoWrite}], acked : SUBSET Ids,
                         discarded : SUBSET (Key \X Writes \X Writes)]
        BY <1>1 DEF NodesTyped
      <4>2. <<m.key, m.write, d>> \in Key \X Writes \X Writes
        BY <1>3, <2>3
      <4>3. [state[n] EXCEPT !.discarded = @ \cup {<<m.key, m.write, d>>}]
              \in [data : [Key -> Writes \cup {NoWrite}], acked : SUBSET Ids,
                   discarded : SUBSET (Key \X Writes \X Writes)]
        BY <4>1, <4>2
      <4> QED
        BY <1>1, <2>3, <4>3 DEF NodesTyped
    <3>2. \A a \in Leaders, b \in Key : Data(a, b)' = Data(a, b)
      BY <1>1, <2>3 DEF NodesTyped, Data
    <3>3. \A a \in Leaders : Discarded(a)' = IF a = n THEN Discarded(a) \cup {<<m.key, m.write, d>>}
                                             ELSE Discarded(a)
      <4> DEFINE more == {<<m.key, m.write, d>>}
           both == state[n].discarded \cup more
      <4>1. state' = [state EXCEPT ![n].discarded = both]
        BY <2>3
      <4> HIDE DEF more, both
      <4>2. \A a \in Leaders : state'[a].discarded = IF a = n THEN both ELSE state[a].discarded
        BY <1>1, <4>1 DEF NodesTyped
      <4> QED
        BY <4>2 DEF Discarded, more, both
    <3> QED
      BY <2>3, <3>1, <3>2, <3>3
  <2> QED
    BY <1>5, <2>1, <2>2, <2>3
<1>7. net' = [links |-> Removed(net.links, l, i), timers |-> net.timers]
  BY DEF Updating
<1>8. net.links \in [Links -> Seq(Updates)] /\ net.timers = MultiLeader!NoEvents.timers
  BY <1>1 DEF NetTyped
<1>9. \A x \in Links : Link(x)' = IF x = l THEN Without(Link(l), i) ELSE Link(x)
  BY <1>7, <1>8 DEF Link, Removed
<1>10. Removed(net.links, l, i) \in [Links -> Seq(Updates)]
  <2>1. Without(net.links[l], i) \in Seq(Updates)
    BY <1>8, WithoutIs DEF Link
  <2> QED
    BY <1>8, <2>1 DEF Removed
<1>11. NetTyped'
  BY <1>7, <1>8, <1>10 DEF NetTyped
<1>12. EnvTyped' /\ env'.lost = env.lost /\ (InOrder' => InOrder /\ i = 1)
  <2>1. env.late \in Nat /\ env.dups \in Nat
    BY <1>1 DEF EnvTyped
  <2>2. CASE i = 1
    BY <1>1, <2>2 DEF Updating, EnvTyped, InOrder
  <2>3. CASE i # 1
    <3>1. env' = [env EXCEPT !.late = @ + 1] /\ env.late + 1 \in Nat
      BY <2>1, <2>3 DEF Updating
    <3>2. env'.late = env.late + 1 /\ env'.lost = env.lost /\ env'.dups = env.dups
      BY <1>1, <3>1 DEF EnvTyped
    <3>3. EnvTyped'
      BY <1>1, <3>1 DEF EnvTyped
    <3>4. ~InOrder'
      BY <2>1, <3>2 DEF InOrder
    <3> QED
      BY <3>2, <3>3, <3>4
  <2> QED
    BY <2>2, <2>3
<1>13. hist' = [hist EXCEPT !.known[n] = @ \cup {Id(m)} \cup hist.past[Id(m)]]
  BY DEF Updating
<1>14. hist.past[Id(m)] \subseteq Ids /\ hist.known \in [Leaders -> SUBSET Ids]
  BY <1>1, <1>3, LeadersTyped DEF HistTyped
<1>15. /\ hist'.past = hist.past
       /\ hist'.known = [hist.known EXCEPT ![n] = @ \cup {Id(m)} \cup hist.past[Id(m)]]
       /\ hist' = [now |-> hist.now, writes |-> hist.writes, past |-> hist.past, known |-> hist'.known]
  BY <1>1, <1>13 DEF HistTyped
<1>16. HistTyped'
  <2>1. hist'.known \in [Leaders -> SUBSET Ids]
    BY <1>3, <1>14, <1>15
  <2> QED
    BY <1>1, <1>15, <2>1 DEF HistTyped
<1>17. \A a \in Leaders : hist'.known[a] =
         IF a = n THEN hist.known[a] \cup {Id(m)} \cup hist.past[Id(m)] ELSE hist.known[a]
  BY <1>14, <1>15
<1>18. \A a \in Leaders, b \in Key :
         Data(a, b)' = IF a = n /\ b = m.key /\ MultiLeader!Wins(m.write, Data(a, b)) THEN m.write
                       ELSE Data(a, b)
  BY <1>6 DEF d
<1>19. \A a \in Leaders :
         \/ Discarded(a)' = Discarded(a)
         \/ /\ a = n /\ Data(n, m.key) \in Writes /\ Data(n, m.key).origin # m.write.origin
            /\ Discarded(a)' = Discarded(a) \cup {<<m.key, m.write, Data(n, m.key)>>}
  BY <1>6 DEF d
<1> HIDE TwoLeaders
<1> QED
  BY <1>6, <1>9, <1>11, <1>12, <1>15, <1>16, <1>17, <1>18, <1>19 DEF UpdateChanges

LEMMA WriteKeeps ==
  ASSUME LeadersInv, NEW n \in Leaders, NEW p \in Leaders, NEW k \in Key, NEW w \in Writes,
         NEW m \in Updates, Writing(n, p, k, w, m)
  PROVE  LeadersInv'
<1>1. NodesTyped /\ NetTyped /\ EnvTyped /\ HistTyped
  BY DEF LeadersInv
<1>2. /\ n # p /\ w.origin = n /\ m.key = k /\ m.write = w /\ env' = env
      /\ Id(m) = <<k, w>> /\ Id(m) \in Ids /\ Id(m) \notin DOMAIN hist.past /\ Behind(Data(n, k), w)
  BY DEF Writing, Id, Ids
<1>3. /\ NodesTyped' /\ NetTyped' /\ EnvTyped' /\ HistTyped'
      /\ \A a \in Leaders, b \in Key : Data(a, b)' = IF a = n /\ b = k THEN w ELSE Data(a, b)
      /\ \A a \in Leaders : Discarded(a)' = Discarded(a)
      /\ \A l \in Links : Link(l)' = IF l = <<n, p>> THEN Append(Link(l), m) ELSE Link(l)
      /\ DOMAIN hist'.past = DOMAIN hist.past \cup {Id(m)}
      /\ \A x \in DOMAIN hist.past : hist'.past[x] = hist.past[x]
      /\ hist'.past[Id(m)] = hist.known[n]
      /\ \A a \in Leaders : hist'.known[a] = IF a = n THEN hist.known[a] \cup {Id(m)} ELSE hist.known[a]
  <2>1. WriteChanges(n, p, k, w, m)
    BY WriteFacts
  <2> QED
    BY <2>1 DEF WriteChanges
<1> USE TwoLeaders
<1>4. /\ \A a \in Leaders, b \in Key : Data(a, b) \in Writes \cup {NoWrite}
      /\ \A l \in Links : /\ Link(l) \in Seq(Updates) /\ Len(Link(l)) \in Nat
                          /\ DOMAIN Link(l) = 1..Len(Link(l))
                          /\ \A i \in DOMAIN Link(l) : Link(l)[i] \in Updates
      /\ DOMAIN hist.past \subseteq Ids
  BY <1>1, LeadersTyped
<1>5. /\ \A a \in Leaders : hist.known[a] \subseteq DOMAIN hist.past
      /\ \A id \in DOMAIN hist.past : /\ hist.past[id] \subseteq hist.known[id[2].origin]
                                      /\ id[2].ts <= Data(id[2].origin, id[1]).ts
      /\ \A a \in Leaders, b \in Key : Data(a, b) = NoWrite \/ <<b, Data(a, b)>> \in hist.known[a]
  BY DEF LeadersInv, Knowledge
<1>6. ASSUME NEW l \in Links
      PROVE  \A i \in DOMAIN Link(l)' : \/ i \in DOMAIN Link(l) /\ Link(l)'[i] = Link(l)[i]
                                        \/ /\ i = Len(Link(l)) + 1 /\ l = <<n, p>>
                                           /\ Link(l)'[i] = m
  BY <1>3, <1>4, AppendProperties
<1>7. Knowledge'
  <2>1. \A a \in Leaders : hist'.known[a] \subseteq DOMAIN hist'.past
    BY <1>3, <1>5
  <2>2. ASSUME NEW id \in DOMAIN hist'.past
        PROVE  /\ hist'.past[id] \subseteq hist'.known[id[2].origin]
               /\ id[2].ts <= Data(id[2].origin, id[1])'.ts
    <3>1. CASE id = Id(m)
      <4>1. id[1] = k /\ id[2] = w /\ w.ts \in Nat
        BY <1>2, <3>1 DEF Writes
      <4> QED
        BY <1>2, <1>3, <3>1, <4>1
    <3>2. CASE id # Id(m)
      <4>1. id \in DOMAIN hist.past
        BY <1>3, <3>2
      <4>2. id[1] \in Key /\ id[2] \in Writes /\ id[2].origin \in Leaders /\ id[2].ts \in Nat
        BY <1>4, <4>1 DEF Ids, Writes
      <4>3. hist'.past[id] \subseteq hist'.known[id[2].origin]
        BY <1>3, <1>5, <4>1, <4>2
      <4>4. id[2].ts <= Data(id[2].origin, id[1]).ts
        BY <1>5, <4>1
      <4>5. CASE id[2].origin = n /\ id[1] = k
        <5>1. Data(n, k).ts <= w.ts /\ Data(n, k).ts \in Nat /\ w.ts \in Nat
          <6>1. NoWrite.ts \in Nat
            BY DEF NoWrite, MultiLeader!NoWrite
          <6> QED
            BY <1>2, <1>4, <6>1, WritesOrdered DEF Writes
        <5>2. Data(id[2].origin, id[1])' = w
          BY <1>3, <4>2, <4>5
        <5>3. id[2].ts <= w.ts
          BY <4>2, <4>4, <4>5, <5>1
        <5> QED
          BY <4>3, <5>2, <5>3
      <4>6. CASE ~(id[2].origin = n /\ id[1] = k)
        <5>1. Data(id[2].origin, id[1])' = Data(id[2].origin, id[1])
          BY <1>3, <4>2, <4>6
        <5> QED
          BY <4>3, <4>4, <5>1
      <4> QED
        BY <4>5, <4>6
    <3> QED
      BY <3>1, <3>2
  <2>3. ASSUME NEW a \in Leaders, NEW b \in Key
        PROVE  Data(a, b)' = NoWrite \/ <<b, Data(a, b)'>> \in hist'.known[a]
    BY <1>2, <1>3, <1>5
  <2> QED
    BY <2>1, <2>2, <2>3 DEF Knowledge, NoWrite
<1>8. \A a \in Leaders, b \in Key : Behind(Data(a, b), Data(a, b)')
  BY <1>2, <1>3 DEF Behind
<1>9. UpdatesRight'
  <2> SUFFICES ASSUME NEW l \in Links, NEW u \in Coming(l)' PROVE UpdateRight(l, u)'
    BY DEF UpdatesRight
  <2>1. u \in Updates /\ u.key \in Key /\ u.write \in Writes /\ l[1] \in Leaders
    <3>1. u \in Updates
      BY <1>4, <1>6 DEF Coming
    <3> QED
      BY <3>1 DEF Updates
  <2>2. u \in Coming(l) \/ (u = m /\ l = <<n, p>>)
    BY <1>6 DEF Coming
  <2>3. CASE u \in Coming(l)
    <3>1. UpdateRight(l, u)
      BY <2>3 DEF LeadersInv, UpdatesRight
    <3>2. Behind(u.write, Data(l[1], u.key)) /\ Behind(Data(l[1], u.key), Data(l[1], u.key)')
      BY <1>8, <2>1, <3>1 DEF UpdateRight
    <3>3. Data(l[1], u.key) \in Writes \cup {NoWrite} /\ Data(l[1], u.key)' \in Writes \cup {NoWrite}
      BY <1>3, <1>4, <2>1
    <3>4. Behind(u.write, Data(l[1], u.key)')
      BY <2>1, <3>2, <3>3, WritesOrdered
    <3> QED
      BY <1>3, <3>1, <3>4 DEF UpdateRight, Behind
  <2>4. CASE u = m /\ l = <<n, p>>
    <3>1. l[1] = n /\ l[2] = p /\ Data(l[1], u.key)' = w /\ Id(u) \in DOMAIN hist'.past
      BY <1>2, <1>3, <2>4
    <3> QED
      BY <1>2, <2>4, <3>1 DEF UpdateRight, Behind
  <2> QED
    BY <2>2, <2>3, <2>4
<1>10. Reaches'
  <2> SUFFICES ASSUME env.lost = 0, NEW a \in Leaders, NEW b \in Leaders, NEW c \in Key, a # b
               PROVE  (Behind(Data(a, c), Data(b, c)) \/ OnItsWay(<<a, b>>, c))'
    BY <1>2 DEF Reaches
  <2>1. CASE a = n /\ c = k
    <3>1. <<a, b>> = <<n, p>> /\ Link(<<n, p>>)' = Append(Link(<<n, p>>), m) /\ Data(a, c)' = w
      BY <1>2, <1>3, <2>1
    <3>2. /\ Len(Link(<<n, p>>)) + 1 \in DOMAIN Link(<<n, p>>)'
          /\ Link(<<n, p>>)'[Len(Link(<<n, p>>)) + 1] = m
      <4>1. <<n, p>> \in Links
        OBVIOUS
      <4>2. Link(<<n, p>>) \in Seq(Updates) /\ Len(Link(<<n, p>>)) \in Nat
        BY <1>4, <4>1
      <4>3. /\ Len(Append(Link(<<n, p>>), m)) = Len(Link(<<n, p>>)) + 1
            /\ Append(Link(<<n, p>>), m) \in Seq(Updates)
            /\ Append(Link(<<n, p>>), m)[Len(Link(<<n, p>>)) + 1] = m
        BY <4>2, AppendProperties
      <4>4. DOMAIN Append(Link(<<n, p>>), m) = 1..(Len(Link(<<n, p>>)) + 1)
        BY <4>3, LenProperties
      <4> QED
        BY <3>1, <4>2, <4>3, <4>4
    <3>3. OnItsWay(<<a, b>>, c)'
      BY <1>2, <2>1, <3>1, <3>2 DEF OnItsWay
    <3> QED
      BY <3>3
  <2>2. CASE ~(a = n /\ c = k)
    <3>1. Data(a, c)' = Data(a, c)
      BY <1>3, <2>2
    <3>2. CASE Behind(Data(a, c), Data(b, c))
      <4>1. Behind(Data(a, c), Data(b, c)')
        BY <1>3, <1>4, <1>8, <3>2, WritesOrdered
      <4> QED
        BY <3>1, <4>1 DEF Behind
    <3>3. CASE OnItsWay(<<a, b>>, c)
      <4>1. PICK i \in DOMAIN Link(<<a, b>>) :
              Link(<<a, b>>)[i].key = c /\ Link(<<a, b>>)[i].write = Data(a, c)
        BY <3>3 DEF OnItsWay
      <4>2. <<a, b>> \in Links
        OBVIOUS
      <4>3. i \in DOMAIN Link(<<a, b>>)' /\ Link(<<a, b>>)'[i] = Link(<<a, b>>)[i]
        <5>1. CASE <<a, b>> = <<n, p>>
          <6>1. Link(<<a, b>>)' = Append(Link(<<a, b>>), m) /\ Link(<<a, b>>) \in Seq(Updates)
            BY <1>3, <1>4, <4>2, <5>1
          <6>2. i \in 1..Len(Link(<<a, b>>)) /\ Len(Link(<<a, b>>)) \in Nat
            BY <6>1, LenProperties
          <6>3. /\ Append(Link(<<a, b>>), m)[i] = Link(<<a, b>>)[i]
                /\ DOMAIN Append(Link(<<a, b>>), m) = 1..(Len(Link(<<a, b>>)) + 1)
            BY <6>1, <6>2, AppendProperties, LenProperties
          <6> QED
            BY <6>1, <6>2, <6>3
        <5>2. CASE <<a, b>> # <<n, p>>
          BY <1>3, <4>2, <5>2
        <5> QED
          BY <5>1, <5>2
      <4>4. OnItsWay(<<a, b>>, c)'
        BY <3>1, <4>1, <4>3 DEF OnItsWay
      <4> QED
        BY <4>4
    <3> QED
      BY <3>2, <3>3 DEF LeadersInv, Reaches
  <2> QED
    BY <2>1, <2>2
<1>11. Unseen'
  <2> SUFFICES ASSUME InOrder', NEW l \in Links, NEW i \in DOMAIN Link(l)'
               PROVE  /\ Id(Link(l)'[i]) \notin hist'.known[l[2]]
                      /\ \A j \in DOMAIN Link(l)' : i < j =>
                           /\ Id(Link(l)'[j]) # Id(Link(l)'[i])
                           /\ Id(Link(l)'[j]) \notin hist'.past[Id(Link(l)'[i])]
    BY DEF Unseen, UnseenOn, Id
  <2>1. UnseenOn(l)
    BY <1>2 DEF LeadersInv, Unseen, InOrder
  <2>2. \A j \in DOMAIN Link(l) : Id(Link(l)[j]) \in DOMAIN hist.past
    BY DEF LeadersInv, UpdatesRight, UpdateRight, Coming
  <2>3. l[2] \in Leaders
    OBVIOUS
  <2>4. Id(m) \notin hist.known[p] /\ \A id \in DOMAIN hist.past : Id(m) \notin hist.past[id]
    <3>1. \A id \in DOMAIN hist.past : id[2].origin \in Leaders
      BY <1>4 DEF Ids, Writes
    <3> QED
      BY <1>2, <1>5, <3>1
  <2>5. CASE i \in DOMAIN Link(l) /\ Link(l)'[i] = Link(l)[i]
    <3>1. Id(Link(l)'[i]) \in DOMAIN hist.past /\ Id(Link(l)'[i]) # Id(m)
      BY <1>2, <2>2, <2>5
    <3>2. Id(Link(l)'[i]) \notin hist'.known[l[2]]
      BY <1>3, <2>1, <2>3, <2>5, <3>1 DEF UnseenOn
    <3>3. ASSUME NEW j \in DOMAIN Link(l)', i < j
          PROVE  /\ Id(Link(l)'[j]) # Id(Link(l)'[i])
                 /\ Id(Link(l)'[j]) \notin hist'.past[Id(Link(l)'[i])]
      <4>1. hist'.past[Id(Link(l)'[i])] = hist.past[Id(Link(l)'[i])]
        BY <1>3, <3>1
      <4>2. CASE j \in DOMAIN Link(l) /\ Link(l)'[j] = Link(l)[j]
        BY <2>1, <2>5, <3>3, <4>1, <4>2 DEF UnseenOn
      <4>3. CASE Link(l)'[j] = m
        BY <2>4, <3>1, <4>1, <4>3
      <4> QED
        BY <1>6, <4>2, <4>3
    <3> QED
      BY <3>2, <3>3
  <2>6. CASE i = Len(Link(l)) + 1 /\ l = <<n, p>> /\ Link(l)'[i] = m
    <3>1. l[2] = p /\ Id(m) \notin hist'.known[p]
      BY <1>2, <1>3, <2>4, <2>6
    <3>2. \A j \in DOMAIN Link(l)' : ~(i < j)
      BY <1>4, <1>6, <2>6
    <3> QED
      BY <2>6, <3>1, <3>2
  <2> QED
    BY <1>6, <2>5, <2>6
<1>12. Concurrent'
  <2> SUFFICES ASSUME NEW a \in Leaders, NEW d \in Discarded(a)
               PROVE  /\ <<d[1], d[3]>> \in DOMAIN hist'.past
                      /\ InOrder' => <<d[1], d[2]>> \notin hist'.past[<<d[1], d[3]>>]
    BY <1>3 DEF Concurrent, Discarded
  <2>1. /\ <<d[1], d[3]>> \in DOMAIN hist.past
        /\ InOrder => <<d[1], d[2]>> \notin hist.past[<<d[1], d[3]>>]
    BY DEF LeadersInv, Concurrent, Discarded
  <2> QED
    BY <1>2, <1>3, <2>1 DEF InOrder
<1> QED
  BY <1>3, <1>7, <1>9, <1>10, <1>11, <1>12 DEF LeadersInv

LEMMA UpdateKeeps ==
  ASSUME LeadersInv, NEW l \in Links, NEW i \in DOMAIN Link(l), NEW n \in Leaders,
         NEW m \in Updates, Updating(l, i, n, m)
  PROVE  LeadersInv'
<1> DEFINE d == Data(n, m.key)
<1>1. NodesTyped /\ NetTyped /\ EnvTyped /\ HistTyped
  BY DEF LeadersInv
<1>2. /\ NodesTyped' /\ NetTyped' /\ EnvTyped' /\ HistTyped'
      /\ \A a \in Leaders, b \in Key :
           Data(a, b)' = IF a = n /\ b = m.key /\ MultiLeader!Wins(m.write, Data(a, b)) THEN m.write
                         ELSE Data(a, b)
      /\ \A a \in Leaders :
           \/ Discarded(a)' = Discarded(a)
           \/ /\ a = n /\ d \in Writes /\ d.origin # m.write.origin
              /\ Discarded(a)' = Discarded(a) \cup {<<m.key, m.write, d>>}
      /\ \A x \in Links : Link(x)' = IF x = l THEN Without(Link(l), i) ELSE Link(x)
      /\ env'.lost = env.lost /\ (InOrder' => InOrder /\ i = 1)
      /\ hist'.past = hist.past
      /\ \A a \in Leaders : hist'.known[a] =
           IF a = n THEN hist.known[a] \cup {Id(m)} \cup hist.past[Id(m)] ELSE hist.known[a]
  <2>1. UpdateChanges(l, i, n, m)
    BY UpdateFacts
  <2> QED
    BY <2>1 DEF UpdateChanges
<1> USE TwoLeaders
<1>3. /\ \A a \in Leaders, b \in Key : Data(a, b) \in Writes \cup {NoWrite}
      /\ \A x \in Links : /\ Link(x) \in Seq(Updates) /\ Len(Link(x)) \in Nat
                          /\ DOMAIN Link(x) = 1..Len(Link(x))
                          /\ \A j \in DOMAIN Link(x) : Link(x)[j] \in Updates
      /\ DOMAIN hist.past \subseteq Ids
  BY <1>1, LeadersTyped
<1>4. /\ m = Link(l)[i] /\ n = l[2] /\ m \in Coming(l) /\ UpdateRight(l, m)
      /\ m.key \in Key /\ m.write \in Writes
  BY DEF Updating, LeadersInv, UpdatesRight, Coming, Updates
<1>5. /\ l[1] \in Leaders /\ l[1] # n /\ m.write.origin = l[1] /\ l = <<l[1], n>>
      /\ Id(m) \in DOMAIN hist.past /\ Behind(m.write, Data(l[1], m.key))
  BY <1>4 DEF UpdateRight
<1>6. /\ \A a \in Leaders : hist.known[a] \subseteq DOMAIN hist.past
      /\ \A id \in DOMAIN hist.past : /\ hist.past[id] \subseteq hist.known[id[2].origin]
                                      /\ id[2].ts <= Data(id[2].origin, id[1]).ts
      /\ \A a \in Leaders, b \in Key : Data(a, b) = NoWrite \/ <<b, Data(a, b)>> \in hist.known[a]
  BY DEF LeadersInv, Knowledge
<1>7. /\ \A j \in DOMAIN Without(Link(l), i) :
           /\ Before(i, j) \in DOMAIN Link(l) /\ Before(i, j) # i
           /\ Without(Link(l), i)[j] = Link(l)[Before(i, j)]
      /\ \A j, k \in DOMAIN Without(Link(l), i) : j < k => Before(i, j) < Before(i, k)
      /\ \A k \in DOMAIN Link(l) \ {i} :
           \E j \in DOMAIN Without(Link(l), i) : Without(Link(l), i)[j] = Link(l)[k]
  BY <1>3, WithoutOrder
<1>8. \A a \in Leaders, b \in Key : Behind(Data(a, b), Data(a, b)')
  BY <1>2 DEF Behind
<1>9. \A id \in DOMAIN hist.past : id[1] \in Key /\ id[2].origin \in Leaders /\ id[2].ts \in Nat
  BY <1>3 DEF Ids, Writes
<1>10. Knowledge'
  <2>1. hist.past[Id(m)] \subseteq DOMAIN hist.past
    BY <1>5, <1>6, <1>9
  <2>2. \A a \in Leaders : hist'.known[a] \subseteq DOMAIN hist'.past
    BY <1>2, <1>5, <1>6, <2>1
  <2>3. ASSUME NEW id \in DOMAIN hist.past
        PROVE  /\ hist.past[id] \subseteq hist'.known[id[2].origin]
               /\ id[2].ts <= Data(id[2].origin, id[1])'.ts
    <3>1. hist.past[id] \subseteq hist'.known[id[2].origin]
      BY <1>2, <1>6, <1>9
    <3> DEFINE old == Data(id[2].origin, id[1])
    <3>2. old \in Writes \cup {NoWrite} /\ old' \in Writes \cup {NoWrite} /\ Behind(old, old')
      BY <1>2, <1>3, <1>4, <1>8, <1>9
    <3>3. old.ts <= old'.ts /\ old.ts \in Nat /\ old'.ts \in Nat
      <4>1. NoWrite.ts \in Nat
        BY DEF NoWrite, MultiLeader!NoWrite
      <4> QED
        BY <3>2, <4>1, WritesOrdered DEF Writes
    <3>4. id[2].ts <= old.ts /\ id[2].ts \in Nat
      BY <1>6, <1>9
    <3> HIDE DEF old
    <3>5. id[2].ts <= old'.ts
      BY <3>3, <3>4
    <3> QED
      BY <3>1, <3>5 DEF old
  <2>4. ASSUME NEW a \in Leaders, NEW b \in Key
        PROVE  Data(a, b)' = NoWrite \/ <<b, Data(a, b)'>> \in hist'.known[a]
    BY <1>2, <1>6 DEF Id
  <2> QED
    BY <1>2, <2>2, <2>3, <2>4 DEF Knowledge, NoWrite
<1>11. UpdatesRight'
  <2> SUFFICES ASSUME NEW x \in Links, NEW u \in Coming(x)' PROVE UpdateRight(x, u)'
    BY DEF UpdatesRight
  <2>1. u \in Coming(x)
    BY <1>2, <1>7 DEF Coming
  <2>2. u \in Updates /\ u.key \in Key /\ u.write \in Writes /\ x[1] \in Leaders
    BY <1>3, <2>1 DEF Coming, Updates
  <2>3. UpdateRight(x, u)
    BY <2>1 DEF LeadersInv, UpdatesRight
  <2>4. Behind(u.write, Data(x[1], u.key)) /\ Behind(Data(x[1], u.key), Data(x[1], u.key)')
    BY <1>8, <2>2, <2>3 DEF UpdateRight
  <2>5. Data(x[1], u.key) \in Writes \cup {NoWrite} /\ Data(x[1], u.key)' \in Writes \cup {NoWrite}
    BY <1>2, <1>3, <1>4, <2>2
  <2>6. Behind(u.write, Data(x[1], u.key)')
    BY <2>2, <2>4, <2>5, WritesOrdered
  <2> QED
    BY <1>2, <2>3, <2>6 DEF UpdateRight, Behind
<1>12. m.write = Data(n, m.key)' \/ Behind(m.write, Data(n, m.key)')
  <2>1. CASE MultiLeader!Wins(m.write, d)
    BY <1>2, <1>4, <2>1
  <2>2. CASE ~MultiLeader!Wins(m.write, d)
    <3>1. Data(n, m.key)' = d /\ d \in Writes \cup {NoWrite}
      BY <1>2, <1>3, <1>4, <2>2
    <3>2. Behind(m.write, d)
      BY <1>4, <2>2, <3>1, WritesOrdered DEF Behind
    <3> QED
      BY <3>1, <3>2
  <2> QED
    BY <2>1, <2>2
<1>13. Reaches'
  <2> SUFFICES ASSUME env.lost = 0, NEW a \in Leaders, NEW b \in Leaders, NEW c \in Key, a # b
               PROVE  (Behind(Data(a, c), Data(b, c)) \/ OnItsWay(<<a, b>>, c))'
    BY <1>2 DEF Reaches
  <2>1. CASE a = n /\ c = m.key /\ MultiLeader!Wins(m.write, d)
    <3>1. b = l[1] /\ Data(a, c)' = m.write /\ Data(b, c)' = Data(b, c)
      BY <1>2, <1>5, <2>1
    <3>2. Behind(m.write, Data(b, c)')
      BY <1>5, <2>1, <3>1
    <3> QED
      BY <3>1, <3>2 DEF Behind
  <2>2. CASE ~(a = n /\ c = m.key /\ MultiLeader!Wins(m.write, d))
    <3>1. Data(a, c)' = Data(a, c)
      BY <1>2, <2>2
    <3>2. CASE Behind(Data(a, c), Data(b, c))
      <4>1. Behind(Data(a, c), Data(b, c)')
        BY <1>2, <1>3, <1>4, <1>8, <3>2, WritesOrdered
      <4> QED
        BY <3>1, <4>1 DEF Behind
    <3>3. CASE OnItsWay(<<a, b>>, c)
      <4>1. PICK k \in DOMAIN Link(<<a, b>>) :
              Link(<<a, b>>)[k].key = c /\ Link(<<a, b>>)[k].write = Data(a, c)
        BY <3>3 DEF OnItsWay
      <4>2. <<a, b>> \in Links
        OBVIOUS
      <4>3. CASE <<a, b>> = l /\ k = i
        <5>1. b = n /\ m.key = c /\ m.write = Data(a, c)'
          BY <1>4, <1>5, <3>1, <4>1, <4>3
        <5> QED
          BY <1>12, <5>1 DEF Behind
      <4>4. CASE ~(<<a, b>> = l /\ k = i)
        <5>1. \E j \in DOMAIN Link(<<a, b>>)' : Link(<<a, b>>)'[j] = Link(<<a, b>>)[k]
          BY <1>2, <1>7, <4>2, <4>4
        <5>2. OnItsWay(<<a, b>>, c)'
          BY <3>1, <4>1, <5>1 DEF OnItsWay
        <5> QED
          BY <5>2
      <4> QED
        BY <4>3, <4>4
    <3> QED
      BY <3>2, <3>3 DEF LeadersInv, Reaches
  <2> QED
    BY <2>1, <2>2
<1>14. Unseen'
  <2> SUFFICES ASSUME InOrder', NEW x \in Links, NEW j \in DOMAIN Link(x)'
               PROVE  /\ Id(Link(x)'[j]) \notin hist'.known[x[2]]
                      /\ \A k \in DOMAIN Link(x)' : j < k =>
                           /\ Id(Link(x)'[k]) # Id(Link(x)'[j])
                           /\ Id(Link(x)'[k]) \notin hist'.past[Id(Link(x)'[j])]
    BY DEF Unseen, UnseenOn, Id
  <2>1. UnseenOn(x) /\ UnseenOn(l) /\ i = 1
    BY <1>2 DEF LeadersInv, Unseen
  <2>2. CASE x = l
    <3>1. /\ Before(i, j) \in DOMAIN Link(l) /\ Link(x)'[j] = Link(l)[Before(i, j)]
          /\ \A k \in DOMAIN Link(x)' : /\ Before(i, k) \in DOMAIN Link(l)
                                        /\ Link(x)'[k] = Link(l)[Before(i, k)]
                                        /\ j < k => Before(i, j) < Before(i, k)
      BY <1>2, <1>7, <2>2
    <3>2. i < Before(i, j)
      <4>1. Before(i, j) \in 1..Len(Link(l)) /\ Len(Link(l)) \in Nat
        BY <1>3, <3>1
      <4>2. Before(i, j) # i
        BY <1>2, <1>7, <2>2
      <4>3. Before(i, j) \in Nat /\ Before(i, j) >= 1
        BY <4>1
      <4> QED
        BY <2>1, <4>2, <4>3
    <3>3. /\ Id(Link(x)'[j]) \notin hist.known[n] /\ Id(Link(x)'[j]) # Id(m)
          /\ Id(Link(x)'[j]) \notin hist.past[Id(m)]
      BY <1>4, <2>1, <3>1, <3>2 DEF UnseenOn
    <3>4. Id(Link(x)'[j]) \notin hist'.known[x[2]]
      BY <1>2, <1>4, <2>2, <3>3
    <3> QED
      BY <1>2, <2>1, <3>1, <3>4 DEF UnseenOn
  <2>3. CASE x # l
    <3>1. Link(x)' = Link(x)
      BY <1>2, <2>3
    <3>2. x[1] # x[2]
      BY <3>1 DEF LeadersInv, UpdatesRight, UpdateRight, Coming
    <3>3. x[2] # n
      BY <1>5, <2>3, <3>2
    <3>4. hist'.known[x[2]] = hist.known[x[2]]
      BY <1>2, <3>3
    <3> QED
      BY <1>2, <2>1, <3>1, <3>4 DEF UnseenOn
  <2> QED
    BY <2>2, <2>3
<1>15. Concurrent'
  <2> SUFFICES ASSUME NEW a \in Leaders, NEW e \in Discarded(a)'
               PROVE  /\ <<e[1], e[3]>> \in DOMAIN hist'.past
                      /\ InOrder' => <<e[1], e[2]>> \notin hist'.past[<<e[1], e[3]>>]
    BY DEF Concurrent, Discarded
  <2>1. CASE e \in Discarded(a)
    <3>1. /\ <<e[1], e[3]>> \in DOMAIN hist.past
          /\ InOrder => <<e[1], e[2]>> \notin hist.past[<<e[1], e[3]>>]
      BY <2>1 DEF LeadersInv, Concurrent, Discarded
    <3> QED
      BY <1>2, <3>1
  <2>2. CASE e = <<m.key, m.write, d>> /\ d \in Writes /\ d.origin # m.write.origin
    <3>1. d.origin = n
      BY <1>4, <1>5, <2>2 DEF Writes
    <3>2. d # NoWrite
      BY <2>2, WritesOrdered
    <3>3. <<m.key, d>> \in hist.known[n] /\ <<m.key, d>> \in DOMAIN hist.past
      BY <1>4, <1>6, <3>2
    <3>4. hist.past[<<m.key, d>>] \subseteq hist.known[n]
      <4>1. <<m.key, d>>[2].origin = n
        BY <3>1
      <4> QED
        BY <1>6, <3>3, <4>1
    <3>5. InOrder' => Id(m) \notin hist.known[n]
      BY <1>2, <1>4 DEF LeadersInv, Unseen, UnseenOn
    <3> HIDE DEF d
    <3>6. e[1] = m.key /\ e[2] = m.write /\ e[3] = d
      BY <2>2
    <3> QED
      BY <1>2, <3>3, <3>4, <3>5, <3>6 DEF Id
  <2> QED
    BY <1>2, <2>1, <2>2
<1> QED
  BY <1>2, <1>10, <1>11, <1>13, <1>14, <1>15 DEF LeadersInv

(* Nobody's data and nothing in the past change: what else can, are the    *)
(* messages on their way.                                                  *)
LEMMA QuietKeeps ==
  ASSUME LeadersInv, state' = state, hist'.past = hist.past, hist'.known = hist.known,
         NetTyped', EnvTyped', HistTyped',
         \A l \in Links : Coming(l)' \subseteq Coming(l),
         env'.lost = 0 => env.lost = 0 /\ \A l \in Links : Coming(l) \subseteq Coming(l)',
         InOrder' => InOrder, Unseen'
  PROVE  LeadersInv'
<1> USE TwoLeaders
<1>1. /\ \A a \in Leaders, b \in Key : Data(a, b)' = Data(a, b)
      /\ \A a \in Leaders : Discarded(a)' = Discarded(a)
      /\ NodesTyped'
  BY DEF LeadersInv, NodesTyped, Data, Discarded
<1>2. Knowledge'
  <2>1. \A id \in DOMAIN hist.past : id[1] \in Key /\ id[2].origin \in Leaders
    BY LeadersTyped DEF LeadersInv, Ids, Writes
  <2>2. Knowledge
    BY DEF LeadersInv
  <2> QED
    BY <1>1, <2>1, <2>2 DEF Knowledge, NoWrite
<1>3. UpdatesRight'
  <2> SUFFICES ASSUME NEW x \in Links, NEW u \in Coming(x)' PROVE UpdateRight(x, u)'
    BY DEF UpdatesRight
  <2>1. u \in Coming(x) /\ UpdateRight(x, u)
    BY DEF LeadersInv, UpdatesRight
  <2>2. u.key \in Key /\ x[1] \in Leaders
    BY <2>1, LeadersTyped DEF LeadersInv, Coming, Updates
  <2> QED
    BY <1>1, <2>1, <2>2 DEF UpdateRight, Behind
<1>4. Reaches'
  <2> SUFFICES ASSUME env'.lost = 0, NEW a \in Leaders, NEW b \in Leaders, NEW c \in Key, a # b
               PROVE  (Behind(Data(a, c), Data(b, c)) \/ OnItsWay(<<a, b>>, c))'
    BY DEF Reaches
  <2>1. CASE Behind(Data(a, c), Data(b, c))
    BY <1>1, <2>1 DEF Behind
  <2>2. CASE OnItsWay(<<a, b>>, c)
    <3>1. PICK u \in Coming(<<a, b>>) : u.key = c /\ u.write = Data(a, c)
      BY <2>2 DEF OnItsWay, Coming
    <3>2. <<a, b>> \in Links
      OBVIOUS
    <3>3. u \in Coming(<<a, b>>)' /\ u.write = Data(a, c)'
      BY <1>1, <3>1, <3>2
    <3>4. OnItsWay(<<a, b>>, c)'
      BY <3>1, <3>3 DEF OnItsWay, Coming
    <3> QED
      BY <3>4
  <2> QED
    BY <2>1, <2>2 DEF LeadersInv, Reaches
<1>5. Concurrent'
  <2> SUFFICES ASSUME NEW a \in Leaders, NEW d \in Discarded(a)
               PROVE  /\ <<d[1], d[3]>> \in DOMAIN hist'.past
                      /\ InOrder' => <<d[1], d[2]>> \notin hist'.past[<<d[1], d[3]>>]
    BY <1>1 DEF Concurrent, Discarded
  <2> QED
    BY DEF LeadersInv, Concurrent, Discarded
<1> QED
  BY <1>1, <1>2, <1>3, <1>4, <1>5 DEF LeadersInv

LEMMA TickKeeps == LeadersInv /\ (MultiLeader!Tick \/ UNCHANGED MultiLeader!vars) => LeadersInv'
<1> SUFFICES ASSUME LeadersInv, MultiLeader!Tick \/ UNCHANGED MultiLeader!vars PROVE LeadersInv'
  OBVIOUS
<1>1. state' = state /\ net' = net /\ env' = env
  BY DEF MultiLeader!Tick, MultiLeader!vars
<1>2. hist' = hist \/ hist' = [hist EXCEPT !.now = @ + 1]
  BY DEF MultiLeader!Tick, MultiLeader!vars
<1>3. NetTyped /\ EnvTyped /\ HistTyped
  BY DEF LeadersInv
<1>4. hist'.past = hist.past /\ hist'.known = hist.known /\ HistTyped'
  BY <1>2, <1>3 DEF HistTyped
<1>5. NetTyped' /\ EnvTyped' /\ (InOrder' <=> InOrder) /\ env'.lost = env.lost
  BY <1>1, <1>3 DEF NetTyped, EnvTyped, InOrder
<1>6. \A l \in Links : Coming(l)' = Coming(l)
  BY <1>1 DEF Coming, Link
<1>7. Unseen'
  <2>1. Unseen
    BY DEF LeadersInv
  <2> QED
    BY <1>1, <1>4, <1>5, <2>1 DEF Unseen, UnseenOn, Link
<1> QED
  BY <1>4, <1>5, <1>6, <1>7, <1>1, QuietKeeps

LEMMA FaultKeeps ==
  ASSUME LeadersInv, Faulting
  PROVE  LeadersInv'
<1> USE TwoLeaders
<1>1. NetTyped /\ EnvTyped /\ HistTyped /\ Unseen
  BY DEF LeadersInv
<1>2. /\ state' = state /\ hist' = hist /\ HistTyped'
      /\ hist'.past = hist.past /\ hist'.known = hist.known
  BY <1>1 DEF Faulting, HistTyped
<1>3. /\ env.lost \in Nat /\ env.dups \in Nat /\ env.late \in Nat
      /\ net.links \in [Links -> Seq(Updates)] /\ net.timers = MultiLeader!NoEvents.timers
  BY <1>1 DEF EnvTyped, NetTyped
<1>4. \A l \in Links : Link(l) \in Seq(Updates) /\ \A i \in DOMAIN Link(l) : Link(l)[i] \in Updates
  BY <1>3, ElementOfSeq, LenProperties DEF Link
<1>5. CASE Worse(<<0, 0>>) /\ net' = net
  <2>1. env'.lost = env.lost /\ (InOrder' <=> InOrder) /\ EnvTyped' /\ NetTyped'
    <3>1. env'.lost = env.lost + 0 /\ env'.dups = env.dups + 0 /\ env'.late = env.late /\ EnvTyped'
      BY <1>5 DEF Worse
    <3> QED
      BY <1>1, <1>3, <1>5, <3>1 DEF InOrder, NetTyped
  <2>2. \A l \in Links : Coming(l)' = Coming(l)
    BY <1>5 DEF Coming, Link
  <2>3. Unseen'
    BY <1>1, <1>2, <1>5, <2>1 DEF Unseen, UnseenOn, Link
  <2> QED
    BY <1>2, <2>1, <2>2, <2>3, QuietKeeps
<1>6. ASSUME NEW l \in Links, NEW i \in DOMAIN Link(l), Worse(<<1, 0>>),
             net' = [links |-> Removed(net.links, l, i), timers |-> net.timers]
      PROVE  LeadersInv'
  <2>1. env'.lost # 0 /\ (InOrder' <=> InOrder) /\ EnvTyped'
    <3>1. env'.lost = env.lost + 1 /\ env'.dups = env.dups + 0 /\ env'.late = env.late /\ EnvTyped'
      BY <1>6 DEF Worse
    <3> QED
      BY <1>3, <3>1 DEF InOrder
  <2>2. Without(Link(l), i) \in Seq(Updates)
    BY <1>4, WithoutIs
  <2>3. \A x \in Links : Link(x)' = IF x = l THEN Without(Link(l), i) ELSE Link(x)
    BY <1>3, <1>6 DEF Link, Removed
  <2>4. NetTyped'
    <3>1. Removed(net.links, l, i) \in [Links -> Seq(Updates)]
      BY <1>3, <2>2 DEF Removed, Link
    <3> QED
      BY <1>3, <1>6, <3>1 DEF NetTyped
  <2>5. /\ \A j \in DOMAIN Without(Link(l), i) :
             /\ Before(i, j) \in DOMAIN Link(l) /\ Without(Link(l), i)[j] = Link(l)[Before(i, j)]
        /\ \A j, k \in DOMAIN Without(Link(l), i) : j < k => Before(i, j) < Before(i, k)
    BY <1>4, WithoutOrder
  <2>6. \A x \in Links : Coming(x)' \subseteq Coming(x)
    BY <2>3, <2>5 DEF Coming
  <2>7. Unseen'
    <3> SUFFICES ASSUME InOrder', NEW x \in Links PROVE UnseenOn(x)'
      BY DEF Unseen
    <3>1. UnseenOn(x)
      BY <1>1, <2>1 DEF Unseen
    <3>2. CASE x = l
      <4>1. ASSUME NEW j \in DOMAIN Link(x)'
            PROVE  /\ Id(Link(x)'[j]) \notin hist'.known[x[2]]
                   /\ \A k \in DOMAIN Link(x)' : j < k =>
                        /\ Id(Link(x)'[k]) # Id(Link(x)'[j])
                        /\ Id(Link(x)'[k]) \notin hist'.past[Id(Link(x)'[j])]
        <5>1. /\ Before(i, j) \in DOMAIN Link(x) /\ Link(x)'[j] = Link(x)[Before(i, j)]
              /\ \A k \in DOMAIN Link(x)' : /\ Before(i, k) \in DOMAIN Link(x)
                                            /\ Link(x)'[k] = Link(x)[Before(i, k)]
                                            /\ j < k => Before(i, j) < Before(i, k)
          BY <2>3, <2>5, <3>2
        <5> QED
          BY <1>2, <3>1, <5>1 DEF UnseenOn
      <4> QED
        BY <4>1 DEF UnseenOn, Id
    <3>3. CASE x # l
      <4>1. Link(x)' = Link(x)
        BY <2>3, <3>3
      <4> QED
        BY <1>2, <3>1, <4>1 DEF UnseenOn
    <3> QED
      BY <3>2, <3>3
  <2> QED
    BY <1>2, <2>1, <2>4, <2>6, <2>7, QuietKeeps
<1>7. ASSUME NEW l \in Links, NEW i \in DOMAIN Link(l), Worse(<<0, 1>>),
             net' = [links |-> Copied(net.links, l, i), timers |-> net.timers]
      PROVE  LeadersInv'
  <2>1. env'.lost = env.lost /\ ~InOrder' /\ EnvTyped'
    <3>1. env'.lost = env.lost + 0 /\ env'.dups = env.dups + 1 /\ env'.late = env.late /\ EnvTyped'
      BY <1>7 DEF Worse
    <3> QED
      BY <1>3, <3>1 DEF InOrder
  <2> DEFINE m == Link(l)[i]
  <2>2. m \in Updates /\ m \in Coming(l)
    BY <1>4 DEF Coming
  <2>3. \A x \in Links : Link(x)' = IF x = l THEN Append(Link(l), m) ELSE Link(x)
    BY <1>3, <1>7 DEF Link, Copied
  <2> HIDE DEF m
  <2>4. NetTyped'
    <3>1. Append(net.links[l], net.links[l][i]) \in Seq(Updates)
      BY <1>3, <1>4, <2>2, AppendProperties DEF Link, m
    <3>2. Copied(net.links, l, i) \in [Links -> Seq(Updates)]
      BY <1>3, <3>1 DEF Copied
    <3> QED
      BY <1>3, <1>7, <3>2 DEF NetTyped
  <2>5. ASSUME NEW s \in Seq(Updates)
        PROVE  LET t == Append(s, m)
               IN /\ \A j \in DOMAIN t : t[j] = m \/ (j \in DOMAIN s /\ t[j] = s[j])
                  /\ \A j \in DOMAIN s : j \in DOMAIN t /\ t[j] = s[j]
    BY <2>2, AppendProperties, LenProperties
  <2>6. \A x \in Links : Coming(x)' \subseteq Coming(x) /\ Coming(x) \subseteq Coming(x)'
    <3>1. Link(l)' = Append(Link(l), m) /\ \A x \in Links : x # l => Link(x)' = Link(x)
      BY <2>3
    <3>2. /\ \A j \in DOMAIN Link(l)' : Link(l)'[j] = m \/ (j \in DOMAIN Link(l) /\ Link(l)'[j] = Link(l)[j])
          /\ \A j \in DOMAIN Link(l) : j \in DOMAIN Link(l)' /\ Link(l)'[j] = Link(l)[j]
      BY <1>4, <2>5, <3>1
    <3>3. Coming(l)' \subseteq Coming(l) /\ Coming(l) \subseteq Coming(l)'
      BY <2>2, <3>2 DEF Coming
    <3>4. \A x \in Links : x # l => Coming(x)' = Coming(x)
      BY <3>1 DEF Coming
    <3> QED
      BY <3>3, <3>4
  <2>7. Unseen'
    BY <2>1 DEF Unseen
  <2> QED
    BY <1>2, <2>1, <2>4, <2>6, <2>7, QuietKeeps
<1> QED
  BY <1>5, <1>6, <1>7 DEF Faulting

LEMMA LeadersNext ==
  ASSUME LeadersInv, [MultiLeader!Next]_MultiLeader!vars
  PROVE  LeadersInv'
<1>1. CASE MultiLeader!Write
  BY <1>1, WriteStep, WriteKeeps
<1>2. CASE MultiLeader!Update
  BY <1>2, UpdateStep, UpdateKeeps
<1>3. CASE MultiLeader!Tick \/ UNCHANGED MultiLeader!vars
  BY <1>3, TickKeeps
<1>4. CASE MultiLeader!Fault
  BY <1>4, FaultStep, FaultKeeps
<1> QED
  BY <1>1, <1>2, <1>3, <1>4 DEF MultiLeader!Next

LEMMA LeadersMeans == LeadersInv => MultiLeader!LeadersConverge
<1> SUFFICES ASSUME LeadersInv PROVE MultiLeader!LeadersConverge
  OBVIOUS
<1> USE TwoLeaders
<1>1. MultiLeader!TypeOK
  BY DEF LeadersInv, Knowledge, MultiLeader!TypeOK, Data, Leaders, NoWrite
<1>2. MultiLeader!Converged
  <2> SUFFICES ASSUME env.lost = 0, \A l \in Links : Link(l) = <<>>, NEW k \in Key
               PROVE  Data("DC1", k) = Data("DC2", k)
    BY DEF MultiLeader!Converged, MultiLeader!NothingComes, Links, Link, Data
  <2>1. \A l \in Links : DOMAIN Link(l) = {}
    OBVIOUS
  <2>2. \A n, p \in Leaders : ~OnItsWay(<<n, p>>, k)
    BY <2>1 DEF OnItsWay
  <2>3. Behind(Data("DC1", k), Data("DC2", k)) /\ Behind(Data("DC2", k), Data("DC1", k))
    BY <2>2 DEF LeadersInv, Reaches
  <2>4. \A n \in Leaders : Data(n, k) \in Writes \cup {NoWrite}
    BY LeadersTyped DEF LeadersInv
  <2> QED
    BY <2>3, <2>4, WritesOrdered DEF Behind
<1>3. MultiLeader!DiscardsExact
  BY DEF LeadersInv, Concurrent, InOrder, MultiLeader!DiscardsExact, MultiLeader!DiscardsConcurrent,
         Leaders
<1> QED
  BY <1>1, <1>2, <1>3 DEF MultiLeader!LeadersConverge

(* Leaders with nothing lost and nothing on its way have the same data,    *)
(* and while updates come in order and once, each write they discard is    *)
(* one its winner did not know about: for any keys, any number of writes   *)
(* and any faults (multileader.ts:80-119).                                 *)
THEOREM LeadersCorrect == LabSpec => []LeadersConverge
<1> DEFINE Inv == lab = "multi-leader" => LeadersInv
<1>1. LabInit => Inv
  BY LeadersInit DEF LabInit
<1>2. Inv /\ [LabNext]_<<lab, state, net, env, hist>> => Inv'
  <2> SUFFICES ASSUME Inv, [LabNext]_<<lab, state, net, env, hist>>, lab' = "multi-leader"
               PROVE  LeadersInv'
    OBVIOUS
  <2>1. lab = "multi-leader" /\ [MultiLeader!Next]_MultiLeader!vars
    BY DEF LabNext, MultiLeader!vars
  <2> QED
    BY <2>1, LeadersNext
<1>3. Inv => LeadersConverge
  BY LeadersMeans DEF LeadersConverge
<1> QED
  BY <1>1, <1>2, <1>3, PTL DEF LabSpec

-----------------------------------------------------------------------------
(* The log.  While nothing is overtaken or dropped and nobody comes back,  *)
(* what a live consumer gets next is in order: all before it is processed, *)
(* or before it on the link.                                               *)

Consumers == Kafka!Consumers
Nodes     == {"P", "B"} \cup Consumers
Routes    == Kafka!Links

Publishes  == [kind : {"publish"}, id : Nat]
Deliveries == [kind : {"deliver"}, p : Partition, offset : Nat, id : Nat]
Acks       == [kind : {"fetched"}, p : Partition, offset : Nat]
Messages   == Publishes \cup Deliveries \cup Acks
Checks     == [kind : {"sessionCheck"}, p : Partition, offset : Nat]

LogTyped ==
  state \in [log : [Partition -> Seq(Nat)], assignment : [Partition -> Consumers],
             delivered : [Partition -> Nat], fetched : [Partition -> Nat],
             committed : [Partition -> Nat], sinceCommit : [Partition -> Nat],
             stalled : [Partition -> BOOLEAN], processed : [Consumers -> SUBSET Nat]]

TimersTyped(timers) == /\ timers \in [DOMAIN timers -> Nat]
                       /\ \A t \in DOMAIN timers : t[1] = "B" /\ t[2] \in Checks
QueueTyped ==
  /\ net = [links |-> net.links, timers |-> net.timers]
  /\ net.links \in [Routes -> Seq(Messages)] /\ TimersTyped(net.timers)

FaultsTyped ==
  env \in [dead : SUBSET Consumers, falls : [Nodes -> Nat], kills : Nat, revives : Nat,
           drops : Nat, dups : Nat, late : Nat, lost : Nat]

InputsTyped == hist \in [produced : Nat, moves : Nat]

(* Where a message may be, and that it speaks of what is in the log.       *)
AddressRight(l, m) ==
  /\ m \in Publishes => l = <<"P", "B">>
  /\ m \in Deliveries => /\ l[1] = "B" /\ l[2] \in Consumers
                         /\ m.offset < Len(state.log[m.p]) /\ m.id = state.log[m.p][m.offset + 1]
  /\ m \in Acks => l[1] \in Consumers /\ l[2] = "B" /\ m.offset < Len(state.log[m.p])
Addressed == \A l \in Routes : \A m \in Coming(l) : AddressRight(l, m)

(* The offsets of partitions that are processed, and those a consumer gets.*)
Done == {x \in Partition \X Nat : /\ x[2] < Len(state.log[x[1]])
                                  /\ state.log[x[1]][x[2] + 1] \in Kafka!Processed}

Reached(done, p, k) == \A o \in Nat : o < k => <<p, o>> \in done
Among(s, p, o, k)   == \E j \in DOMAIN s : j <= k /\ s[j].p = p /\ s[j].offset = o
Covered(done, s, p, o, k) == \A q \in Nat : q < o => <<p, q>> \in done \/ Among(s, p, q, k)
InOrderFor(done, s) == \A i \in DOMAIN s : Covered(done, s, s[i].p, s[i].offset, i - 1)

Orderly == env.late + env.drops + env.revives = 0

To(c) == Link(<<"B", c>>)
FetchedDone == \A p \in Partition : Reached(Done, p, state.fetched[p])
AcksDone == \A c \in Consumers : \A m \in Coming(<<c, "B">>) : Reached(Done, m.p, m.offset + 1)
OrderOf(c) == c \notin env.dead => InOrderFor(Done, To(c))
PushedOf(p) == state.assignment[p] \notin env.dead =>
                 Covered(Done, To(state.assignment[p]), p, state.delivered[p], Len(To(state.assignment[p])))
AllSound == /\ FetchedDone /\ AcksDone
            /\ \A c \in Consumers : OrderOf(c)
            /\ \A p \in Partition : PushedOf(p)

KafkaInv ==
  /\ LogTyped /\ QueueTyped /\ FaultsTyped /\ InputsTyped /\ Kafka!TypeOK /\ Addressed
  /\ Orderly => AllSound

-----------------------------------------------------------------------------
LEMMA OrderKept ==
  ASSUME NEW s \in Seq(Deliveries), NEW done, NEW more, done \subseteq more, InOrderFor(done, s)
  PROVE  InOrderFor(more, s)
BY DEF InOrderFor, Covered

LEMMA CoverKept ==
  ASSUME NEW done, NEW more, done \subseteq more
  PROVE  /\ \A s, p, o, k : Covered(done, s, p, o, k) => Covered(more, s, p, o, k)
         /\ \A p, k : Reached(done, p, k) => Reached(more, p, k)
         /\ \A s, p, o, k : Reached(done, p, o) => Covered(done, s, p, o, k)
BY DEF Covered, Reached

(* The first one goes and is done. *)
LEMMA OrderRest ==
  ASSUME NEW s \in Seq(Deliveries), s # <<>>, NEW done, NEW more, done \subseteq more,
         <<s[1].p, s[1].offset>> \in more, InOrderFor(done, s)
  PROVE  /\ InOrderFor(more, Without(s, 1))
         /\ \A p, k : Covered(done, s, p, k, Len(s)) =>
              Covered(more, Without(s, 1), p, k, Len(Without(s, 1)))
         /\ Reached(done, s[1].p, s[1].offset)
<1>1. 1 \in DOMAIN s /\ DOMAIN s = 1..Len(s) /\ Len(s) \in Nat
  BY EmptySeq, LenProperties
<1> DEFINE t == Without(s, 1)
<1>2. /\ t \in Seq(Deliveries) /\ Len(t) = Len(s) - 1
      /\ \A j \in 1..(Len(s) - 1) : t[j] = s[IF j < 1 THEN j ELSE j + 1]
  BY <1>1, WithoutIs
<1>3. DOMAIN t = 1..(Len(s) - 1) /\ \A j \in 1..(Len(s) - 1) : t[j] = s[j + 1]
  <2>1. DOMAIN t = 1..Len(t)
    BY <1>2, LenProperties
  <2>2. \A j \in 1..(Len(s) - 1) : ~(j < 1)
    OBVIOUS
  <2> QED
    BY <1>2, <2>1, <2>2
<1> HIDE DEF t
<1>4. ASSUME NEW p, NEW o, NEW k \in Nat, k <= Len(s), Among(s, p, o, k)
      PROVE  <<p, o>> \in more \/ Among(t, p, o, k - 1)
  <2>1. PICK j \in DOMAIN s : j <= k /\ s[j].p = p /\ s[j].offset = o
    BY <1>4 DEF Among
  <2>2. CASE j = 1
    BY <2>1, <2>2
  <2>3. CASE j # 1
    <3>1. j - 1 \in 1..(Len(s) - 1) /\ (j - 1) + 1 = j /\ j - 1 <= k - 1
      BY <1>1, <2>1, <2>3
    <3> QED
      BY <1>3, <2>1, <3>1 DEF Among
  <2> QED
    BY <2>2, <2>3
<1>5. InOrderFor(more, t)
  <2> SUFFICES ASSUME NEW i \in DOMAIN t, NEW q \in Nat, q < t[i].offset
               PROVE  <<t[i].p, q>> \in more \/ Among(t, t[i].p, q, i - 1)
    BY DEF InOrderFor, Covered
  <2>1. i + 1 \in DOMAIN s /\ t[i] = s[i + 1] /\ (i + 1) - 1 = i /\ i \in Nat /\ i <= Len(s)
    BY <1>1, <1>3
  <2>2. <<t[i].p, q>> \in done \/ Among(s, t[i].p, q, i)
    BY <2>1 DEF InOrderFor, Covered
  <2> QED
    BY <1>4, <2>1, <2>2
<1>6. ASSUME NEW p, NEW k, Covered(done, s, p, k, Len(s)) PROVE Covered(more, t, p, k, Len(t))
  BY <1>1, <1>2, <1>4, <1>6 DEF Covered
<1>7. Reached(done, s[1].p, s[1].offset)
  <2>1. \A p, q : ~Among(s, p, q, 0)
    BY <1>1 DEF Among
  <2>2. 1 - 1 = 0
    OBVIOUS
  <2>3. Covered(done, s, s[1].p, s[1].offset, 0)
    BY <1>1, <2>2 DEF InOrderFor
  <2> QED
    BY <2>1, <2>3 DEF Covered, Reached
<1> QED
  BY <1>5, <1>6, <1>7 DEF t

(* A copy comes last. *)
LEMMA OrderCopied ==
  ASSUME NEW s \in Seq(Deliveries), NEW i \in DOMAIN s, NEW done, InOrderFor(done, s)
  PROVE  /\ InOrderFor(done, Append(s, s[i]))
         /\ \A p, k : Covered(done, s, p, k, Len(s)) =>
              Covered(done, Append(s, s[i]), p, k, Len(Append(s, s[i])))
<1> DEFINE t == Append(s, s[i])
<1>1. DOMAIN s = 1..Len(s) /\ Len(s) \in Nat /\ s[i] \in Deliveries
  BY LenProperties, ElementOfSeq
<1>2. /\ Len(t) = Len(s) + 1 /\ DOMAIN t = 1..(Len(s) + 1) /\ t[Len(s) + 1] = s[i]
      /\ \A j \in 1..Len(s) : t[j] = s[j]
  BY <1>1, AppendProperties, LenProperties
<1> HIDE DEF t
<1>3. ASSUME NEW p, NEW o, NEW k, Among(s, p, o, k) PROVE Among(t, p, o, k)
  BY <1>1, <1>2, <1>3 DEF Among
<1>4. InOrderFor(done, t)
  <2> SUFFICES ASSUME NEW j \in DOMAIN t, NEW q \in Nat, q < t[j].offset
               PROVE  <<t[j].p, q>> \in done \/ Among(t, t[j].p, q, j - 1)
    BY DEF InOrderFor, Covered
  <2>1. CASE j \in DOMAIN s
    <3>1. t[j] = s[j]
      BY <1>1, <1>2, <2>1
    <3> QED
      BY <1>3, <2>1, <3>1 DEF InOrderFor, Covered
  <2>2. CASE j = Len(s) + 1
    <3>1. t[j] = s[i] /\ j - 1 = Len(s)
      BY <1>1, <1>2, <2>2
    <3>2. <<s[i].p, q>> \in done \/ Among(s, s[i].p, q, i - 1)
      BY <3>1 DEF InOrderFor, Covered
    <3>3. Among(s, s[i].p, q, i - 1) => Among(s, s[i].p, q, Len(s))
      BY <1>1 DEF Among
    <3> QED
      BY <1>3, <3>1, <3>2, <3>3
  <2> QED
    BY <1>1, <1>2, <2>1, <2>2
<1>5. ASSUME NEW p, NEW k, Covered(done, s, p, k, Len(s)) PROVE Covered(done, t, p, k, Len(t))
  <2>1. \A q : Among(s, p, q, Len(s)) => Among(t, p, q, Len(t))
    BY <1>1, <1>2 DEF Among
  <2> QED
    BY <1>5, <2>1 DEF Covered
<1> QED
  BY <1>4, <1>5 DEF t

(* A range of offsets comes last, in order. *)
LEMMA OrderPushed ==
  ASSUME NEW s \in Seq(Deliveries), NEW done, InOrderFor(done, s), NEW p, NEW from \in Nat,
         NEW k \in Nat, NEW pay \in [1..k -> Deliveries],
         \A j \in 1..k : pay[j].p = p /\ pay[j].offset = from + j - 1,
         Covered(done, s, p, from, Len(s))
  PROVE  /\ InOrderFor(done, s \o pay)
         /\ Covered(done, s \o pay, p, from + k, Len(s \o pay))
         /\ \A r, o : Covered(done, s, r, o, Len(s)) => Covered(done, s \o pay, r, o, Len(s \o pay))
<1> DEFINE t == s \o pay
<1>1. /\ pay \in Seq(Deliveries) /\ Len(pay) = k
      /\ DOMAIN s = 1..Len(s) /\ Len(s) \in Nat
  BY LenProperties
<1>2. /\ Len(t) = Len(s) + k /\ DOMAIN t = 1..(Len(s) + k)
      /\ \A j \in 1..Len(s) : t[j] = s[j]
      /\ \A j \in 1..k : t[Len(s) + j] = pay[j]
  <2>1. t \in Seq(Deliveries) /\ Len(t) = Len(s) + k
    BY <1>1, ConcatProperties
  <2>2. DOMAIN t = 1..(Len(s) + k)
    BY <2>1, LenProperties
  <2>3. \A j \in 1..Len(s) : t[j] = s[j]
    BY <1>1, ConcatProperties
  <2>4. ASSUME NEW j \in 1..k PROVE t[Len(s) + j] = pay[j]
    <3>1. Len(s) + j \in 1..(Len(s) + Len(pay)) /\ ~(Len(s) + j <= Len(s)) /\ (Len(s) + j) - Len(s) = j
      BY <1>1
    <3> QED
      BY <1>1, <3>1, ConcatProperties
  <2> QED
    BY <2>1, <2>2, <2>3, <2>4
<1> HIDE DEF t
<1>3. \A r, o, n : Among(s, r, o, n) => Among(t, r, o, n)
  BY <1>1, <1>2 DEF Among
<1>4. ASSUME NEW r, NEW o, Covered(done, s, r, o, Len(s)) PROVE Covered(done, t, r, o, Len(t))
  <2>1. \A q : Among(s, r, q, Len(s)) => Among(t, r, q, Len(t))
    BY <1>1, <1>2 DEF Among
  <2> QED
    BY <1>4, <2>1 DEF Covered
<1>5. ASSUME NEW j \in 1..(k + 1), NEW q \in Nat, q < from + j - 1
      PROVE  <<p, q>> \in done \/ Among(t, p, q, Len(s) + j - 1)
  <2>1. CASE q < from
    <3>1. Among(s, p, q, Len(s)) => Among(t, p, q, Len(s) + j - 1)
      BY <1>1, <1>2 DEF Among
    <3> QED
      BY <2>1, <3>1 DEF Covered
  <2>2. CASE ~(q < from)
    <3> DEFINE e == q - from + 1
    <3>1. e \in 1..k /\ e <= j - 1 /\ from + e - 1 = q
      BY <1>5, <2>2
    <3>2. t[Len(s) + e].p = p /\ t[Len(s) + e].offset = q
      BY <1>2, <3>1
    <3>3. Len(s) + e \in DOMAIN t /\ Len(s) + e <= Len(s) + j - 1
      BY <1>1, <1>2, <3>1
    <3> QED
      BY <3>2, <3>3 DEF Among
  <2> QED
    BY <2>1, <2>2
<1>6. InOrderFor(done, t)
  <2> SUFFICES ASSUME NEW j \in DOMAIN t, NEW q \in Nat, q < t[j].offset
               PROVE  <<t[j].p, q>> \in done \/ Among(t, t[j].p, q, j - 1)
    BY DEF InOrderFor, Covered
  <2>1. CASE j \in DOMAIN s
    <3>1. t[j] = s[j]
      BY <1>1, <1>2, <2>1
    <3> QED
      BY <1>3, <2>1, <3>1 DEF InOrderFor, Covered
  <2>2. CASE j \notin DOMAIN s
    <3> DEFINE e == j - Len(s)
    <3>1. e \in 1..k /\ j = Len(s) + e /\ e \in 1..(k + 1)
      BY <1>1, <1>2, <2>2
    <3>2. t[j].p = p /\ t[j].offset = from + e - 1
      BY <1>2, <3>1
    <3>3. j - 1 = Len(s) + e - 1
      BY <1>1, <3>1
    <3> HIDE DEF e
    <3> QED
      BY <1>5, <3>1, <3>2, <3>3
  <2> QED
    BY <2>1, <2>2
<1>7. Covered(done, t, p, from + k, Len(t))
  <2>1. k + 1 \in 1..(k + 1) /\ from + (k + 1) - 1 = from + k /\ Len(s) + (k + 1) - 1 = Len(s) + k
    BY <1>1
  <2> QED
    BY <1>2, <1>5, <2>1 DEF Covered
<1> QED
  BY <1>4, <1>6, <1>7 DEF t

-----------------------------------------------------------------------------
LEMMA LogNodes ==
  /\ Consumers = {"C1", "C2"} /\ Routes = Nodes \X Nodes /\ Nodes = {"P", "B"} \cup Consumers
  /\ "P" \notin Consumers /\ "B" \notin Consumers /\ "P" # "B"
  /\ \A c \in Consumers : <<"B", c>> \in Routes /\ <<c, "B">> \in Routes
  /\ <<"P", "B">> \in Routes /\ \A c \in Consumers : Kafka!Other(c) \in Consumers
BY DEF Consumers, Routes, Nodes, Kafka!Consumers, Kafka!Links, Kafka!Other

LEMMA LogEngine ==
  /\ \A links, n, sends : Kafka!WithMessages(links, n, sends) = Engine!WithMessages(links, n, sends)
  /\ \A timers, n, set : Kafka!WithTimers(timers, n, set) = Engine!WithTimers(timers, n, set)
  /\ \A s, i : Kafka!AllBut(s, i) = Without(s, i)
<1>1. \A links, n, sends : Kafka!WithMessages(links, n, sends) = Engine!WithMessages(links, n, sends)
  BY DEF Kafka!WithMessages, Engine!WithMessages
<1>2. \A S : Kafka!Cardinality(S) = Engine!Cardinality(S)
  BY DEF Kafka!Cardinality, Engine!Cardinality
<1>3. \A timers, n, set : Kafka!WithTimers(timers, n, set) = Engine!WithTimers(timers, n, set)
  BY <1>2 DEF Kafka!WithTimers, Engine!WithTimers
<1>4. \A s, i : Kafka!AllBut(s, i) = Without(s, i)
  BY DEF Kafka!AllBut, Engine!AllBut, Without
<1> QED
  BY <1>1, <1>3, <1>4

(* What is known of the pieces of a typed queue. *)
LEMMA QueuePieces ==
  ASSUME QueueTyped
  PROVE  \A l \in Routes : /\ Link(l) \in Seq(Messages) /\ Len(Link(l)) \in Nat
                           /\ DOMAIN Link(l) = 1..Len(Link(l))
                           /\ \A i \in DOMAIN Link(l) : Link(l)[i] \in Messages
                           /\ \A m \in Coming(l) : m \in Messages
<1> SUFFICES ASSUME NEW l \in Routes
             PROVE  /\ Link(l) \in Seq(Messages) /\ Len(Link(l)) \in Nat
                    /\ DOMAIN Link(l) = 1..Len(Link(l))
                    /\ \A i \in DOMAIN Link(l) : Link(l)[i] \in Messages
                    /\ \A m \in Coming(l) : m \in Messages
  OBVIOUS
<1>1. Link(l) \in Seq(Messages)
  BY DEF QueueTyped, Link
<1> QED
  BY <1>1, LenProperties, ElementOfSeq DEF Coming

(* Messages are of one kind.                                               *)
LEMMA Kinds ==
  \A m \in Messages :
    /\ m.kind = "publish" <=> m \in Publishes
    /\ m.kind = "deliver" <=> m \in Deliveries
    /\ m.kind = "fetched" <=> m \in Acks
    /\ m \in Publishes => m.id \in Nat
    /\ m \in Deliveries => m.p \in Partition /\ m.offset \in Nat /\ m.id \in Nat
    /\ m \in Acks => m.p \in Partition /\ m.offset \in Nat
BY DEF Messages, Publishes, Deliveries, Acks

LEMMA QueueTaken ==
  ASSUME QueueTyped, NEW l \in Routes, NEW i
  PROVE  Kafka!Taken(l, i) = [links |-> Removed(net.links, l, i), timers |-> net.timers]
<1>1. net = [links |-> net.links, timers |-> net.timers]
  BY DEF QueueTyped
<1>2. \A x, a, b : x = [links |-> a, timers |-> b] =>
        [x EXCEPT !.links[l] = Kafka!AllBut(@, i)] =
          [links |-> [a EXCEPT ![l] = Kafka!AllBut(a[l], i)], timers |-> b]
  OBVIOUS
<1>3. [net EXCEPT !.links[l] = Kafka!AllBut(@, i)] =
        [links |-> [net.links EXCEPT ![l] = Kafka!AllBut(net.links[l], i)], timers |-> net.timers]
  BY <1>1, <1>2
<1> QED
  BY <1>3, LogEngine DEF Kafka!Taken, Removed

(* The queue after a handler. *)
Left(links, timers, n, out) ==
  [links |-> Engine!WithMessages(links, n, out.sends), timers |-> Engine!WithTimers(timers, n, out.timers)]

Arrived(l, i, out) ==
  /\ l[2] \notin env.dead
  /\ env' = IF i = 1 THEN env ELSE [env EXCEPT !.late = @ + 1]
  /\ state' = out.state /\ hist' = hist
  /\ net' = Left(Removed(net.links, l, i), net.timers, l[2], out)

LEMMA LogReceive ==
  ASSUME QueueTyped, \/ Kafka!Receive("publish", Kafka!OnPublish) /\ UNCHANGED hist
                     \/ Kafka!Receive("deliver", Kafka!OnDeliver) /\ UNCHANGED hist
                     \/ Kafka!Receive("fetched", Kafka!OnFetched) /\ UNCHANGED hist
  PROVE  \E l \in Routes : \E i \in DOMAIN Link(l) :
           LET m == Link(l)[i]
           IN \/ m.kind = "publish" /\ Arrived(l, i, Kafka!OnPublish(l[1], l[2], m))
              \/ m.kind = "deliver" /\ Arrived(l, i, Kafka!OnDeliver(l[1], l[2], m))
              \/ m.kind = "fetched" /\ Arrived(l, i, Kafka!OnFetched(l[1], l[2], m))
<1>1. ASSUME NEW l \in Routes, NEW i, NEW out,
             Kafka!MessageDue(l, i), Kafka!Happens(l[2], out, Kafka!Taken(l, i)), UNCHANGED hist
      PROVE  Arrived(l, i, out)
  BY <1>1, QueueTaken, LogEngine DEF Kafka!MessageDue, Kafka!Happens, Kafka!Queued, Arrived, Left
<1>2. CASE Kafka!Receive("publish", Kafka!OnPublish) /\ UNCHANGED hist
  BY <1>1, <1>2 DEF Kafka!Receive, Kafka!Arrive, Link, Routes
<1>3. CASE Kafka!Receive("deliver", Kafka!OnDeliver) /\ UNCHANGED hist
  BY <1>1, <1>3 DEF Kafka!Receive, Kafka!Arrive, Link, Routes
<1>4. CASE Kafka!Receive("fetched", Kafka!OnFetched) /\ UNCHANGED hist
  BY <1>1, <1>4 DEF Kafka!Receive, Kafka!Arrive, Link, Routes
<1> QED
  BY <1>2, <1>3, <1>4

(* A push of a range: its messages and timers. *)
Span(log, p, from, k) ==
  [j \in 1..k |-> [kind |-> "deliver", p |-> p, offset |-> from + j - 1, id |-> log[from + j]]]

RangeOf(s, p, from, to, c, log) ==
  /\ p \in Partition /\ from \in Nat /\ to \in Nat /\ from <= to /\ c \in Consumers
  /\ log \in Seq(Nat) /\ s.log[p] = log /\ to <= Len(log)
PushOut(out, s, c, pay, k) ==
  /\ out.state = s /\ pay \in [1..k -> Deliveries] /\ ToOne(out.sends, c, pay, k)
  /\ DOMAIN out.timers = 1..k /\ \A j \in DOMAIN out.timers : out.timers[j] \in Checks

LEMMA RangePushed ==
  ASSUME NEW s, NEW p, NEW from, NEW to, NEW c, NEW log, RangeOf(s, p, from, to, c, log)
  PROVE  PushOut(Kafka!DeliverRange(s, p, from, to, c), s, c, Span(log, p, from, to - from), to - from)
<1>0. /\ p \in Partition /\ from \in Nat /\ to \in Nat /\ from <= to /\ c \in Consumers
      /\ log \in Seq(Nat) /\ s.log[p] = log /\ to <= Len(log)
  BY DEF RangeOf
<1> USE <1>0
<1> DEFINE k == to - from
           pay == Span(log, p, from, k)
           out == Kafka!DeliverRange(s, p, from, to, c)
           at == Kafka!Offsets(from, to)
<1>1. k \in Nat /\ at = [i \in 1..k |-> from + i - 1] /\ DOMAIN at = 1..k
  BY DEF Kafka!Offsets
<1>2. \A j \in 1..k : from + j - 1 \in Nat /\ (from + j - 1) + 1 = from + j /\ from + j \in 1..Len(log)
  BY <1>1, LenProperties
<1>3. pay \in [1..k -> Deliveries]
  <2>1. \A j \in 1..k : log[from + j] \in Nat
    BY <1>2, ElementOfSeq
  <2> QED
    BY <1>2, <2>1 DEF Span, Deliveries
<1>4. /\ out.state = s
      /\ out.sends = [i \in 1..k |-> <<c, Kafka!Deliver(s.log[p], p, at[i])>>]
      /\ out.timers = [i \in 1..k |-> Kafka!SessionCheck(p, at[i])]
  BY <1>1 DEF Kafka!DeliverRange, Kafka!Out
<1>5. \A i \in 1..k : Kafka!Deliver(s.log[p], p, at[i]) = pay[i] /\ Kafka!SessionCheck(p, at[i]) \in Checks
  <2> QED
    BY <1>1, <1>2 DEF Kafka!Deliver, Kafka!SessionCheck, Span, Checks
<1> HIDE DEF k, pay, at, out
<1>6. /\ ToOne(out.sends, c, pay, k)
      /\ DOMAIN out.timers = 1..k
      /\ \A i \in DOMAIN out.timers : out.timers[i] \in Checks
  BY <1>4, <1>5 DEF ToOne
<1> QED
  BY <1>3, <1>4, <1>6 DEF PushOut, k, pay, out

(* The log only grows, and so does what is processed.                      *)
Grows ==
  /\ \A p \in Partition : /\ Len(state.log[p]) <= Len(state'.log[p])
                          /\ \A k \in 1..Len(state.log[p]) : state'.log[p][k] = state.log[p][k]
  /\ \A c \in Consumers : state.processed[c] \subseteq state'.processed[c]

LEMMA LogFacts ==
  ASSUME LogTyped
  PROVE  /\ \A p \in Partition : /\ state.log[p] \in Seq(Nat) /\ Len(state.log[p]) \in Nat
                                 /\ state.assignment[p] \in Consumers
                                 /\ state.delivered[p] \in Nat /\ state.fetched[p] \in Nat
                                 /\ state.committed[p] \in Nat /\ state.sinceCommit[p] \in Nat
                                 /\ state.stalled[p] \in BOOLEAN
         /\ \A c \in Consumers : state.processed[c] \subseteq Nat
<1>1. \A p \in Partition : state.log[p] \in Seq(Nat)
  BY DEF LogTyped
<1>2. \A p \in Partition : Len(state.log[p]) \in Nat
  BY <1>1, LenProperties
<1> QED
  BY <1>1, <1>2 DEF LogTyped

LEMMA DoneGrows ==
  ASSUME LogTyped, LogTyped', Grows
  PROVE  Done \subseteq Done'
<1> SUFFICES ASSUME NEW x \in Done PROVE x \in Done'
  OBVIOUS
<1>1. x \in Partition \X Nat /\ x[2] < Len(state.log[x[1]]) /\ state.log[x[1]][x[2] + 1] \in Kafka!Processed
  BY DEF Done
<1>2. Len(state.log[x[1]]) \in Nat /\ Len(state'.log[x[1]]) \in Nat
  <2>1. x[1] \in Partition /\ state.log[x[1]] \in Seq(Nat) /\ state'.log[x[1]] \in Seq(Nat)
    BY <1>1 DEF LogTyped
  <2> QED
    BY <2>1, LenProperties
<1>3. x[2] + 1 \in 1..Len(state.log[x[1]]) /\ x[2] < Len(state'.log[x[1]])
  <2>1. x[2] \in Nat /\ Len(state.log[x[1]]) <= Len(state'.log[x[1]])
    BY <1>1 DEF Grows
  <2> QED
    BY <1>1, <1>2, <2>1
<1>4. state'.log[x[1]][x[2] + 1] = state.log[x[1]][x[2] + 1]
  BY <1>1, <1>3 DEF Grows
<1>5. Kafka!Processed \subseteq Kafka!Processed'
  BY DEF Grows, Kafka!Processed, Consumers
<1> QED
  BY <1>1, <1>3, <1>4, <1>5 DEF Done

(* What the consumers get are deliveries. *)
LEMMA ToTyped ==
  ASSUME QueueTyped, Addressed
  PROVE  \A c \in Consumers : To(c) \in Seq(Deliveries)
<1> SUFFICES ASSUME NEW c \in Consumers PROVE To(c) \in Seq(Deliveries)
  OBVIOUS
<1> DEFINE l == <<"B", c>>
<1>1. l \in Routes /\ l # <<"P", "B">> /\ l[2] # "B"
  BY LogNodes
<1>2. Link(l) \in Seq(Messages) /\ Len(Link(l)) \in Nat /\ DOMAIN Link(l) = 1..Len(Link(l))
  BY <1>1, QueuePieces
<1>3. ASSUME NEW i \in 1..Len(Link(l)) PROVE Link(l)[i] \in Deliveries
  <2>1. Link(l)[i] \in Messages /\ Link(l)[i] \in Coming(l)
    BY <1>1, <1>2, QueuePieces DEF Coming
  <2>2. AddressRight(l, Link(l)[i])
    BY <1>1, <2>1 DEF Addressed
  <2> QED
    BY <1>1, <2>1, <2>2 DEF AddressRight, Messages
<1>4. Link(l) \in Seq(Deliveries)
  <2>1. Link(l) \in [1..Len(Link(l)) -> Deliveries]
    BY <1>2, <1>3, LenProperties
  <2> QED
    BY <1>2, <2>1, SeqDef
<1> QED
  BY <1>4 DEF To

-----------------------------------------------------------------------------
(* Timers stay timers of the broker. *)
LEMMA TimersKept ==
  ASSUME NEW timers, TimersTyped(timers)
  PROVE  /\ Engine!WithTimers(timers, "B", <<>>) = timers
         /\ \A n : Engine!WithTimers(timers, n, <<>>) = timers
         /\ \A k \in Nat : \A set : DOMAIN set = 1..k /\ (\A j \in 1..k : set[j] \in Checks) =>
              TimersTyped(Engine!WithTimers(timers, "B", set))
         /\ \A t \in DOMAIN timers : TimersTyped(Kafka!WithoutTimer(timers, t))
<1>1. timers \in [DOMAIN timers -> Nat]
  BY DEF TimersTyped
<1>2. \A n : Engine!WithTimers(timers, n, <<>>) = timers
  BY <1>1, NoTimers
<1>3. ASSUME NEW k \in Nat, NEW set, DOMAIN set = 1..k, \A j \in 1..k : set[j] \in Checks
      PROVE  TimersTyped(Engine!WithTimers(timers, "B", set))
  <2> DEFINE D == DOMAIN timers \cup {<<"B", set[j]>> : j \in DOMAIN set}
             Times(t) == {j \in DOMAIN set : <<"B", set[j]>> = t}
             new == Engine!WithTimers(timers, "B", set)
  <2>1. new = [t \in D |-> Count(timers, t) + Cardinality(Times(t))]
    BY TimersSet
  <2>2. \A t : Cardinality(Times(t)) \in Nat
    <3>1. IsFiniteSet(1..k)
      BY FS_Interval
    <3>2. \A t : Times(t) \subseteq 1..k
      BY <1>3
    <3> QED
      BY <3>1, <3>2, FS_Subset, FS_CardinalityType
  <2>3. \A t \in D : Count(timers, t) \in Nat
    BY <1>1 DEF Count
  <2>4. \A t \in D : t[1] = "B" /\ t[2] \in Checks
    BY <1>3 DEF TimersTyped
  <2> HIDE DEF D, Times, new
  <2>5. DOMAIN new = D /\ new \in [D -> Nat]
    BY <2>1, <2>2, <2>3
  <2> QED
    BY <2>4, <2>5 DEF TimersTyped, new
<1>4. ASSUME NEW t \in DOMAIN timers PROVE TimersTyped(Kafka!WithoutTimer(timers, t))
  <2>1. CASE timers[t] > 1
    <3>1. timers[t] - 1 \in Nat
      BY <1>1, <2>1
    <3> QED
      BY <1>1, <2>1, <3>1 DEF TimersTyped, Kafka!WithoutTimer
  <2>2. CASE ~(timers[t] > 1)
    BY <1>1, <2>2 DEF TimersTyped, Kafka!WithoutTimer
  <2> QED
    BY <2>1, <2>2
<1> QED
  BY <1>2, <1>3, <1>4

(* A push leaves its messages at the end of the link of the consumer. *)
Pushing(links, p, c, from, to) ==
  \E timers : /\ TimersTyped(timers)
              /\ net' = [links  |-> Put(links, <<"B", c>>, Span(state'.log[p], p, from, to - from)),
                         timers |-> timers]

LEMMA PushLeft ==
  ASSUME NEW links \in [Routes -> Seq(Messages)], NEW timers, TimersTyped(timers),
         NEW s, NEW p, NEW from, NEW to, NEW c, NEW log, RangeOf(s, p, from, to, c, log),
         NEW out, out = Kafka!DeliverRange(s, p, from, to, c),
         state' = out.state, net' = Left(links, timers, "B", out)
  PROVE  state' = s /\ Pushing(links, p, c, from, to)
<1> DEFINE k == to - from
           pay == Span(log, p, from, k)
<1>1. PushOut(out, s, c, pay, k)
  BY RangePushed
<1>2. k \in Nat /\ c \in Consumers
  BY DEF RangeOf
<1>3. <<"B", c>> \in Routes
  BY <1>2, LogNodes
<1>4. state' = s /\ state'.log[p] = log
  BY <1>1 DEF PushOut, RangeOf
<1>5. pay = Span(state'.log[p], p, from, to - from)
  BY <1>4
<1> HIDE DEF k, pay
<1>6. pay \in [1..k -> Messages]
  BY <1>1 DEF PushOut, Messages
<1>7. Engine!WithMessages(links, "B", out.sends) = Put(links, <<"B", c>>, pay)
  BY <1>1, <1>2, <1>3, <1>6, ManySent DEF PushOut
<1>8. TimersTyped(Engine!WithTimers(timers, "B", out.timers))
  BY <1>1, <1>2, TimersKept DEF PushOut
<1>9. net' = [links |-> Put(links, <<"B", c>>, pay), timers |-> Engine!WithTimers(timers, "B", out.timers)]
  BY <1>7 DEF Left
<1>10. net' = [links  |-> Put(links, <<"B", c>>, Span(state'.log[p], p, from, to - from)),
               timers |-> Engine!WithTimers(timers, "B", out.timers)]
  BY <1>5, <1>9
<1>11. Pushing(links, p, c, from, to)
  BY <1>8, <1>10 DEF Pushing
<1> QED
  BY <1>4, <1>11

-----------------------------------------------------------------------------
(* The steps, as what they change.                                         *)

ArrivesAt(l, i) ==
  /\ l[2] \notin env.dead /\ hist' = hist
  /\ env' = IF i = 1 THEN env ELSE [env EXCEPT !.late = @ + 1]

Producing(m) ==
  /\ state' = state /\ env' = env /\ hist' = [hist EXCEPT !.produced = @ + 1]
  /\ net' = [links |-> Sent(net.links, "P", "B", m), timers |-> net.timers]

Publishing(l, i, m, p) ==
  /\ l = <<"P", "B">> /\ ArrivesAt(l, i)
  /\ state' = [state EXCEPT !.log[p] = Append(@, m.id), !.delivered[p] = Len(state.log[p]) + 1,
                            !.stalled[p] = FALSE]
  /\ Pushing(Removed(net.links, l, i), p, state.assignment[p], Len(state.log[p]), Len(state.log[p]) + 1)

Delivering(l, i, m, ack) ==
  /\ l[1] = "B" /\ l[2] \in Consumers /\ ArrivesAt(l, i) /\ ack.p = m.p /\ ack.offset = m.offset
  /\ state' = [state EXCEPT !.processed[l[2]] = @ \cup {m.id}]
  /\ net' = [links |-> Sent(Removed(net.links, l, i), l[2], "B", ack), timers |-> net.timers]

Fetched(m, fetched, commit) ==
  [state EXCEPT !.fetched[m.p] = fetched,
                !.sinceCommit[m.p] = IF commit THEN 0 ELSE @ + 1,
                !.committed[m.p] = IF commit THEN fetched ELSE @,
                !.stalled[m.p] = @ /\ ~commit]

Fetching(l, i, m) ==
  /\ l[1] \in Consumers /\ l[2] = "B" /\ ArrivesAt(l, i)
  /\ net' = [links |-> Removed(net.links, l, i), timers |-> net.timers]
  /\ \/ state' = state
     \/ \E fetched \in {state.fetched[m.p], m.offset + 1}, commit \in BOOLEAN :
          /\ state.fetched[m.p] <= fetched /\ commit = (state.sinceCommit[m.p] + 1 >= CommitEvery)
          /\ state' = Fetched(m, fetched, commit)

Moving(p) ==
  /\ env' = env
  /\ state' = [state EXCEPT !.assignment[p] = Kafka!Other(state.assignment[p]),
                            !.fetched[p] = state.committed[p],
                            !.sinceCommit[p] = 0, !.stalled[p] = TRUE]
  /\ Pushing(net.links, p, Kafka!Other(state.assignment[p]), state.committed[p], state.delivered[p])

Checking ==
  /\ env' = env /\ state' = state
  /\ \E timers : TimersTyped(timers) /\ net' = [links |-> net.links, timers |-> timers]

-----------------------------------------------------------------------------
Rules == CommitEvery \in Nat \ {0} /\ \A id \in Nat : PartitionOf(id) \in Partition

(* What arrives is typed and where it belongs. *)
LEMMA ArrivalFacts ==
  ASSUME QueueTyped, Addressed, NEW l \in Routes, NEW i \in DOMAIN Link(l), NEW m, m = Link(l)[i]
  PROVE  /\ m \in Messages /\ AddressRight(l, m) /\ m \in Coming(l)
         /\ Without(Link(l), i) \in Seq(Messages)
         /\ Removed(net.links, l, i) \in [Routes -> Seq(Messages)]
         /\ net.links \in [Routes -> Seq(Messages)] /\ TimersTyped(net.timers)
<1>1. net.links \in [Routes -> Seq(Messages)] /\ TimersTyped(net.timers)
  BY DEF QueueTyped
<1>2. Link(l) \in Seq(Messages) /\ m \in Messages /\ m \in Coming(l)
  BY QueuePieces DEF Coming
<1>3. AddressRight(l, m)
  BY <1>2 DEF Addressed
<1>4. Without(Link(l), i) \in Seq(Messages)
  BY <1>2, WithoutIs
<1>5. Removed(net.links, l, i) \in [Routes -> Seq(Messages)]
  BY <1>1, <1>4 DEF Removed, Link
<1> QED
  BY <1>1, <1>2, <1>3, <1>4, <1>5

LEMMA PublishStep ==
  ASSUME Rules, KafkaInv, NEW l \in Routes, NEW i \in DOMAIN Link(l), NEW m, m = Link(l)[i],
         m.kind = "publish", Arrived(l, i, Kafka!OnPublish(l[1], l[2], m))
  PROVE  m \in Publishes /\ \E p \in Partition : Publishing(l, i, m, p)
<1>1. LogTyped /\ QueueTyped /\ Addressed /\ Kafka!TypeOK
  BY DEF KafkaInv
<1>2. /\ m \in Messages /\ AddressRight(l, m)
      /\ Removed(net.links, l, i) \in [Routes -> Seq(Messages)] /\ TimersTyped(net.timers)
  BY <1>1, ArrivalFacts
<1>3. m \in Publishes /\ m.id \in Nat /\ l = <<"P", "B">>
  BY <1>2, Kinds DEF AddressRight
<1> DEFINE p == PartitionOf(m.id)
           log == Append(state.log[p], m.id)
           from == Len(state.log[p])
           c == state.assignment[p]
           s == [state EXCEPT !.log[p] = Append(@, m.id), !.delivered[p] = Len(state.log[p]) + 1,
                              !.stalled[p] = FALSE]
           out == Kafka!OnPublish(l[1], l[2], m)
<1>4. p \in Partition
  BY <1>3 DEF Rules
<1> HIDE DEF p
<1>5. state.delivered[p] = from /\ from \in Nat /\ c \in Consumers /\ state.log[p] \in Seq(Nat)
  BY <1>1, <1>4, LogFacts DEF Kafka!TypeOK
<1>6. log \in Seq(Nat) /\ Len(log) = from + 1
  BY <1>3, <1>5, AppendProperties
<1>7. s.log[p] = log /\ s.delivered[p] = from + 1
  BY <1>1, <1>4 DEF LogTyped
<1>8. out = Kafka!DeliverRange(s, p, from, from + 1, c)
  <2>1. out = Kafka!DeliverRange(s, p, state.delivered[p], s.delivered[p], c)
    BY DEF Kafka!OnPublish, p
  <2> QED
    BY <1>5, <1>7, <2>1
<1>9. RangeOf(s, p, from, from + 1, c, log)
  BY <1>4, <1>5, <1>6, <1>7 DEF RangeOf
<1>10. /\ state' = out.state /\ net' = Left(Removed(net.links, l, i), net.timers, "B", out)
       /\ ArrivesAt(l, i)
  BY <1>3 DEF Arrived, ArrivesAt
<1> HIDE DEF s, out, c, from, log
<1>11. state' = s /\ Pushing(Removed(net.links, l, i), p, c, from, from + 1)
  BY <1>2, <1>8, <1>9, <1>10, PushLeft
<1>12. Publishing(l, i, m, p)
  BY <1>3, <1>10, <1>11 DEF Publishing, s, c, from
<1> QED
  BY <1>3, <1>4, <1>12

LEMMA DeliverStep ==
  ASSUME KafkaInv, NEW l \in Routes, NEW i \in DOMAIN Link(l), NEW m, m = Link(l)[i],
         m.kind = "deliver", Arrived(l, i, Kafka!OnDeliver(l[1], l[2], m))
  PROVE  m \in Deliveries /\ \E ack \in Acks : Delivering(l, i, m, ack)
<1>1. LogTyped /\ QueueTyped /\ Addressed
  BY DEF KafkaInv
<1>2. m \in Messages /\ AddressRight(l, m) /\ TimersTyped(net.timers)
  BY <1>1, ArrivalFacts
<1>3. m \in Deliveries /\ m.p \in Partition /\ m.offset \in Nat /\ l[1] = "B" /\ l[2] \in Consumers
  BY <1>2, Kinds DEF AddressRight
<1> DEFINE ack == [kind |-> "fetched", p |-> m.p, offset |-> m.offset]
           out == Kafka!OnDeliver(l[1], l[2], m)
<1>4. ack \in Acks /\ ack.p = m.p /\ ack.offset = m.offset
  BY <1>3 DEF Acks
<1>5. /\ out.state = [state EXCEPT !.processed[l[2]] = @ \cup {m.id}]
      /\ out.sends = <<<<"B", ack>>>> /\ out.timers = <<>>
  BY DEF Kafka!OnDeliver, Kafka!Out
<1>6. /\ state' = out.state /\ net' = Left(Removed(net.links, l, i), net.timers, l[2], out)
      /\ ArrivesAt(l, i)
  BY DEF Arrived, ArrivesAt
<1> HIDE DEF ack, out
<1>7. net' = [links |-> Sent(Removed(net.links, l, i), l[2], "B", ack), timers |-> net.timers]
  <2>1. /\ Engine!WithMessages(Removed(net.links, l, i), l[2], out.sends)
             = Sent(Removed(net.links, l, i), l[2], "B", ack)
        /\ Engine!WithTimers(net.timers, l[2], out.timers) = net.timers
    BY <1>2, <1>5, OneSent, TimersKept
  <2> QED
    BY <1>6, <2>1 DEF Left
<1>8. Delivering(l, i, m, ack)
  BY <1>3, <1>4, <1>5, <1>6, <1>7 DEF Delivering
<1> QED
  BY <1>3, <1>4, <1>8

LEMMA FetchStep ==
  ASSUME Rules, KafkaInv, NEW l \in Routes, NEW i \in DOMAIN Link(l), NEW m, m = Link(l)[i],
         m.kind = "fetched", Arrived(l, i, Kafka!OnFetched(l[1], l[2], m))
  PROVE  m \in Acks /\ Fetching(l, i, m)
<1>1. LogTyped /\ QueueTyped /\ Addressed
  BY DEF KafkaInv
<1>2. m \in Messages /\ AddressRight(l, m) /\ TimersTyped(net.timers)
  BY <1>1, ArrivalFacts
<1>3. m \in Acks /\ m.p \in Partition /\ m.offset \in Nat /\ l[1] \in Consumers /\ l[2] = "B"
  BY <1>2, Kinds DEF AddressRight
<1> DEFINE out == Kafka!OnFetched(l[1], l[2], m)
           fetched == Kafka!Largest(state.fetched[m.p], m.offset + 1)
           commit  == state.sinceCommit[m.p] + 1 >= CommitEvery
<1>4. /\ state.fetched[m.p] \in Nat /\ state.sinceCommit[m.p] \in Nat /\ state.stalled[m.p] \in BOOLEAN
      /\ state.committed[m.p] \in Nat
  BY <1>1, <1>3, LogFacts
<1>5. fetched \in {state.fetched[m.p], m.offset + 1} /\ state.fetched[m.p] <= fetched
  BY <1>3, <1>4 DEF Kafka!Largest
<1>6. out.sends = <<>> /\ out.timers = <<>> /\ out.state \in {state, Fetched(m, fetched, commit)}
  BY DEF Kafka!OnFetched, Kafka!Quiet, Kafka!Out, Fetched
<1> HIDE DEF out, fetched
<1>7. /\ state' = out.state /\ net' = Left(Removed(net.links, l, i), net.timers, l[2], out)
      /\ ArrivesAt(l, i)
  BY DEF Arrived, ArrivesAt, out
<1>8. net' = [links |-> Removed(net.links, l, i), timers |-> net.timers]
  <2>1. /\ Engine!WithMessages(Removed(net.links, l, i), l[2], out.sends) = Removed(net.links, l, i)
        /\ Engine!WithTimers(net.timers, l[2], out.timers) = net.timers
    BY <1>2, <1>6, NoneSent, TimersKept
  <2> QED
    BY <1>7, <2>1 DEF Left
<1>9. commit \in BOOLEAN
  BY <1>4
<1>10. Fetching(l, i, m)
  <2>0. commit = (state.sinceCommit[m.p] + 1 >= CommitEvery)
    OBVIOUS
  <2> HIDE DEF commit
  <2>1. state' = state \/ state' = Fetched(m, fetched, commit)
    BY <1>6, <1>7
  <2>2. CASE state' = state
    BY <1>3, <1>7, <1>8, <2>2 DEF Fetching
  <2>3. CASE state' = Fetched(m, fetched, commit)
    BY <2>0, <1>3, <1>5, <1>7, <1>8, <1>9, <2>3 DEF Fetching
  <2> QED
    BY <2>1, <2>2, <2>3
<1> QED
  BY <1>3, <1>10

LEMMA ProduceStep ==
  ASSUME KafkaInv, Kafka!Produce
  PROVE  \E m \in Publishes : Producing(m)
<1>1. QueueTyped /\ InputsTyped
  BY DEF KafkaInv
<1> DEFINE m == [kind |-> "publish", id |-> hist'.produced]
           out == Kafka!Out(state, <<<<"B", m>>>>, <<>>)
<1>2. hist' = [hist EXCEPT !.produced = @ + 1] /\ Kafka!External("P", out)
  BY DEF Kafka!Produce
<1>3. hist'.produced \in Nat
  BY <1>1, <1>2 DEF InputsTyped
<1>4. m \in Publishes
  BY <1>3 DEF Publishes
<1>5. out.state = state /\ out.sends = <<<<"B", m>>>> /\ out.timers = <<>>
  BY DEF Kafka!Out
<1> HIDE DEF m, out
<1>6. /\ state' = out.state /\ env' = env
      /\ net' = [links |-> Engine!WithMessages(net.links, "P", out.sends),
                 timers |-> Engine!WithTimers(net.timers, "P", out.timers)]
  BY <1>2, LogEngine DEF Kafka!External, Kafka!Happens, Kafka!Queued
<1>7. /\ Engine!WithMessages(net.links, "P", out.sends) = Sent(net.links, "P", "B", m)
      /\ Engine!WithTimers(net.timers, "P", out.timers) = net.timers
  BY <1>1, <1>5, OneSent, TimersKept DEF QueueTyped
<1>8. Producing(m)
  BY <1>2, <1>5, <1>6, <1>7 DEF Producing
<1> QED
  BY <1>4, <1>8

LEMMA OffsetFacts ==
  ASSUME LogTyped, Kafka!TypeOK
  PROVE  \A p \in Partition : /\ state.committed[p] <= state.fetched[p] /\ state.fetched[p] <= state.delivered[p]
                              /\ state.committed[p] <= state.delivered[p]
                              /\ state.delivered[p] = Len(state.log[p])
<1> SUFFICES ASSUME NEW p \in Partition
             PROVE  /\ state.committed[p] <= state.fetched[p] /\ state.fetched[p] <= state.delivered[p]
                    /\ state.committed[p] <= state.delivered[p]
                    /\ state.delivered[p] = Len(state.log[p])
  OBVIOUS
<1>1. /\ state.committed[p] <= state.fetched[p] /\ state.fetched[p] <= state.delivered[p]
      /\ state.delivered[p] = Len(state.log[p])
  BY DEF Kafka!TypeOK
<1>2. state.committed[p] \in Nat /\ state.fetched[p] \in Nat /\ state.delivered[p] \in Nat
  BY LogFacts
<1> QED
  BY <1>1, <1>2

LEMMA CheckStep ==
  ASSUME KafkaInv, Kafka!CheckSession
  PROVE  InputsTyped' /\ (Checking \/ \E p \in Partition : Moving(p))
<1>1. LogTyped /\ QueueTyped /\ InputsTyped /\ Kafka!TypeOK
  BY DEF KafkaInv
<1>2. PICK t \in DOMAIN net.timers :
        /\ Kafka!TimerDue(t)
        /\ Kafka!Happens(t[1], Kafka!OnSessionCheck(t[1], t[2]),
                         [net EXCEPT !.timers = Kafka!WithoutTimer(@, t)])
  BY DEF Kafka!CheckSession, Kafka!Fire
<1>3. InputsTyped'
  <2>1. hist' = hist \/ hist' = [hist EXCEPT !.moves = @ + 1]
    BY DEF Kafka!CheckSession
  <2> QED
    BY <1>1, <2>1 DEF InputsTyped
<1>4. t[1] = "B" /\ t[2] \in Checks /\ net.links \in [Routes -> Seq(Messages)] /\ TimersTyped(net.timers)
  BY <1>1 DEF QueueTyped, TimersTyped
<1> DEFINE timers == Kafka!WithoutTimer(net.timers, t)
           out == Kafka!OnSessionCheck("B", t[2])
           p == t[2].p
           c == Kafka!Other(state.assignment[p])
           s == [state EXCEPT !.assignment[p] = Kafka!Other(state.assignment[p]),
                              !.fetched[p] = state.committed[p],
                              !.sinceCommit[p] = 0, !.stalled[p] = TRUE]
           from == state.committed[p]
           to == state.delivered[p]
<1>5. TimersTyped(timers)
  BY <1>4, TimersKept
<1>6. p \in Partition
  BY <1>4 DEF Checks
<1> HIDE DEF p
<1>7. [net EXCEPT !.timers = Kafka!WithoutTimer(@, t)] = [links |-> net.links, timers |-> timers]
  <2>1. net = [links |-> net.links, timers |-> net.timers]
    BY <1>1 DEF QueueTyped
  <2>2. \A x, a, b, d : x = [links |-> a, timers |-> b] => [x EXCEPT !.timers = d] = [links |-> a, timers |-> d]
    OBVIOUS
  <2> HIDE DEF timers
  <2>3. [net EXCEPT !.timers = timers] = [links |-> net.links, timers |-> timers]
    BY <2>1, <2>2
  <2> QED
    BY <2>3 DEF timers
<1> HIDE DEF timers
<1>8. env' = env /\ state' = out.state /\ net' = Left(net.links, timers, "B", out)
  BY <1>2, <1>4, <1>7, LogEngine DEF Kafka!TimerDue, Kafka!Happens, Kafka!Queued, Left
<1>9. \/ out = Kafka!Quiet(state)
      \/ out = Kafka!DeliverRange(s, p, from, to, c)
  BY DEF Kafka!OnSessionCheck, p
<1>10. CASE out = Kafka!Quiet(state)
  <2>1. out.state = state /\ out.sends = <<>> /\ out.timers = <<>>
    BY <1>10 DEF Kafka!Quiet, Kafka!Out
  <2> HIDE DEF out
  <2>2. /\ Engine!WithMessages(net.links, "B", out.sends) = net.links
        /\ Engine!WithTimers(timers, "B", out.timers) = timers
    BY <1>5, <2>1, NoneSent, TimersKept
  <2>3. Checking
    BY <1>5, <1>8, <2>1, <2>2 DEF Left, Checking
  <2> QED
    BY <1>3, <2>3
<1>11. CASE out = Kafka!DeliverRange(s, p, from, to, c)
  <2>1. /\ from \in Nat /\ to \in Nat /\ from <= to /\ to = Len(state.log[p])
        /\ state.log[p] \in Seq(Nat) /\ c \in Consumers
    BY <1>1, <1>6, LogFacts, OffsetFacts, LogNodes
  <2>2. s.log[p] = state.log[p]
    BY <1>1 DEF LogTyped
  <2>3. RangeOf(s, p, from, to, c, state.log[p])
    BY <1>6, <2>1, <2>2 DEF RangeOf
  <2> HIDE DEF s, from, to, c, out
  <2>4. state' = s /\ Pushing(net.links, p, c, from, to)
    BY <1>4, <1>5, <1>8, <1>11, <2>3, PushLeft
  <2>5. Moving(p)
    BY <1>8, <2>4 DEF Moving, s, c, from, to
  <2> QED
    BY <1>3, <1>6, <2>5
<1> QED
  BY <1>9, <1>10, <1>11

-----------------------------------------------------------------------------
(* Faults. *)
Fewer == env.dead \subseteq env'.dead /\ (Orderly' => Orderly)

Disturbing ==
  /\ state' = state /\ hist' = hist /\ FaultsTyped'
  /\ \/ ~Orderly' /\ net' = net
     \/ Fewer /\ \E timers : TimersTyped(timers) /\ net' = [links |-> net.links, timers |-> timers]
     \/ /\ ~Orderly'
        /\ \E l \in Routes : \E i \in DOMAIN Link(l) :
             net' = [links |-> Removed(net.links, l, i), timers |-> net.timers]
     \/ /\ Fewer
        /\ \E l \in Routes : \E i \in DOMAIN Link(l) :
             l[2] \in env'.dead /\ net' = [links |-> Removed(net.links, l, i), timers |-> net.timers]
     \/ /\ Fewer
        /\ \E l \in Routes : \E i \in DOMAIN Link(l) :
             net' = [links |-> Copied(net.links, l, i), timers |-> net.timers]

LEMMA LogFaultsCounted ==
  ASSUME FaultsTyped
  PROVE  /\ \A n \in Consumers : Kafka!Kill(n) => Fewer /\ FaultsTyped'
         /\ \A n \in Consumers : Kafka!Revive(n) => ~Orderly' /\ FaultsTyped'
         /\ \A l, i : Kafka!Drop(l, i) => ~Orderly' /\ FaultsTyped'
         /\ \A l, i : Kafka!Duplicate(l, i) => Fewer /\ FaultsTyped'
         /\ \A l : Kafka!MessageToDead(l) => Fewer /\ env'.dead = env.dead /\ FaultsTyped'
<1>1. /\ env.lost \in Nat /\ env.dups \in Nat /\ env.kills \in Nat /\ env.revives \in Nat
      /\ env.drops \in Nat /\ env.late \in Nat
      /\ env.dead \in SUBSET Consumers /\ env.falls \in [Nodes -> Nat]
  BY DEF FaultsTyped
<1>2. ASSUME NEW n \in Consumers, Kafka!Kill(n) PROVE Fewer /\ FaultsTyped'
  <2>1. env' = [env EXCEPT !.dead = @ \cup {n}, !.kills = @ + 1, !.falls[n] = @ + 1]
    BY <1>2 DEF Kafka!Kill
  <2>2. /\ env'.drops = env.drops /\ env'.late = env.late /\ env'.revives = env.revives
        /\ env'.dead = env.dead \cup {n}
    BY <2>1 DEF FaultsTyped
  <2>3. [env.falls EXCEPT ![n] = @ + 1] \in [Nodes -> Nat] /\ env.kills + 1 \in Nat
    BY <1>1, LogNodes
  <2>4. FaultsTyped'
    BY <2>1, <2>3 DEF FaultsTyped
  <2> QED
    BY <2>2, <2>4 DEF Fewer, Orderly
<1>3. ASSUME NEW n \in Consumers, Kafka!Revive(n) PROVE ~Orderly' /\ FaultsTyped'
  <2>1. env' = [env EXCEPT !.dead = @ \ {n}, !.revives = @ + 1]
    BY <1>3 DEF Kafka!Revive
  <2>2. env'.drops = env.drops /\ env'.late = env.late /\ env'.revives = env.revives + 1
    BY <2>1 DEF FaultsTyped
  <2>3. env.revives + 1 \in Nat /\ env.dead \ {n} \in SUBSET Consumers
    BY <1>1
  <2>4. FaultsTyped'
    BY <2>1, <2>3 DEF FaultsTyped
  <2> QED
    BY <1>1, <2>2, <2>4 DEF Orderly
<1>4. ASSUME NEW l, NEW i, Kafka!Drop(l, i) PROVE ~Orderly' /\ FaultsTyped'
  <2>1. env' = [env EXCEPT !.drops = @ + 1, !.lost = @ + 1]
    BY <1>4 DEF Kafka!Drop
  <2>2. env'.drops = env.drops + 1 /\ env'.late = env.late /\ env'.revives = env.revives
    BY <2>1 DEF FaultsTyped
  <2>3. env.drops + 1 \in Nat /\ env.lost + 1 \in Nat
    BY <1>1
  <2>4. FaultsTyped'
    BY <2>1, <2>3 DEF FaultsTyped
  <2> QED
    BY <1>1, <2>2, <2>4 DEF Orderly
<1>5. ASSUME NEW l, NEW i, Kafka!Duplicate(l, i) PROVE Fewer /\ FaultsTyped'
  <2>1. env' = [env EXCEPT !.dups = @ + 1]
    BY <1>5 DEF Kafka!Duplicate
  <2>2. /\ env'.drops = env.drops /\ env'.late = env.late /\ env'.revives = env.revives
        /\ env'.dead = env.dead
    BY <2>1 DEF FaultsTyped
  <2>3. env.dups + 1 \in Nat
    BY <1>1
  <2>4. FaultsTyped'
    BY <2>1, <2>3 DEF FaultsTyped
  <2> QED
    BY <2>2, <2>4 DEF Fewer, Orderly
<1>6. ASSUME NEW l, Kafka!MessageToDead(l) PROVE Fewer /\ env'.dead = env.dead /\ FaultsTyped'
  <2>1. env' = [env EXCEPT !.lost = @ + 1]
    BY <1>6 DEF Kafka!MessageToDead
  <2>2. /\ env'.drops = env.drops /\ env'.late = env.late /\ env'.revives = env.revives
        /\ env'.dead = env.dead
    BY <2>1 DEF FaultsTyped
  <2>3. env.lost + 1 \in Nat
    BY <1>1
  <2>4. FaultsTyped'
    BY <2>1, <2>3 DEF FaultsTyped
  <2> QED
    BY <2>2, <2>4 DEF Fewer, Orderly
<1> QED
  BY <1>2, <1>3, <1>4, <1>5, <1>6

LEMMA DisturbStep ==
  ASSUME KafkaInv, Kafka!Fault
  PROVE  Disturbing
<1>1. QueueTyped /\ FaultsTyped /\ state' = state /\ hist' = hist
  BY DEF KafkaInv, Kafka!Fault
<1>2. net = [links |-> net.links, timers |-> net.timers] /\ TimersTyped(net.timers)
  BY <1>1 DEF QueueTyped
<1>3. ASSUME NEW n \in Consumers, Kafka!Kill(n) PROVE Disturbing
  <2>1. net' = net /\ Fewer /\ FaultsTyped'
    BY <1>1, <1>3, LogFaultsCounted DEF Kafka!Kill
  <2>2. net' = [links |-> net.links, timers |-> net.timers]
    BY <1>2, <2>1
  <2> QED
    BY <1>1, <1>2, <2>1, <2>2 DEF Disturbing
<1>4. ASSUME NEW n \in Consumers, Kafka!Revive(n) PROVE Disturbing
  <2>1. net' = net /\ ~Orderly' /\ FaultsTyped'
    BY <1>1, <1>4, LogFaultsCounted DEF Kafka!Revive
  <2> QED
    BY <1>1, <2>1 DEF Disturbing
<1>5. ASSUME NEW l \in Routes, NEW i \in DOMAIN Link(l), Kafka!Drop(l, i) PROVE Disturbing
  <2>1. ~Orderly' /\ FaultsTyped'
    BY <1>1, <1>5, LogFaultsCounted
  <2>2. net' = [links |-> Removed(net.links, l, i), timers |-> net.timers]
    BY <1>1, <1>5, QueueTaken DEF Kafka!Drop
  <2> QED
    BY <1>1, <2>1, <2>2 DEF Disturbing
<1>6. ASSUME NEW l \in Routes, NEW i \in DOMAIN Link(l), Kafka!Duplicate(l, i) PROVE Disturbing
  <2>1. Fewer /\ FaultsTyped'
    BY <1>1, <1>6, LogFaultsCounted
  <2>2. net' = [links |-> Copied(net.links, l, i), timers |-> net.timers]
    <3> DEFINE c == Append(net.links[l], net.links[l][i])
    <3>1. net' = [net EXCEPT !.links[l] = c]
      BY <1>6 DEF Kafka!Duplicate
    <3> HIDE DEF c
    <3>2. \A x, a, b : x = [links |-> a, timers |-> b] =>
            [x EXCEPT !.links[l] = c] = [links |-> [a EXCEPT ![l] = c], timers |-> b]
      OBVIOUS
    <3>3. [net EXCEPT !.links[l] = c] = [links |-> [net.links EXCEPT ![l] = c], timers |-> net.timers]
      BY <1>2, <3>2
    <3> QED
      BY <3>1, <3>3 DEF Copied, c
  <2> QED
    BY <1>1, <2>1, <2>2 DEF Disturbing
<1>7. ASSUME NEW l \in Routes, Kafka!MessageToDead(l) PROVE Disturbing
  <2>1. Fewer /\ env'.dead = env.dead /\ FaultsTyped'
    BY <1>1, <1>7, LogFaultsCounted
  <2>2. /\ l[2] \in env.dead /\ Link(l) # <<>>
        /\ net' = [links |-> Removed(net.links, l, 1), timers |-> net.timers]
    BY <1>1, <1>7, QueueTaken DEF Kafka!MessageToDead, Link
  <2>3. 1 \in DOMAIN Link(l)
    BY <1>1, <2>2, QueuePieces, EmptySeq
  <2> QED
    BY <1>1, <2>1, <2>2, <2>3 DEF Disturbing
<1>8. ASSUME NEW t \in DOMAIN net.timers, Kafka!TimerOfDead(t) PROVE Disturbing
  <2> DEFINE timers == Kafka!WithoutTimer(net.timers, t)
  <2>1. env' = env /\ net' = [net EXCEPT !.timers = timers]
    BY <1>8 DEF Kafka!TimerOfDead
  <2>2. TimersTyped(timers)
    BY <1>2, TimersKept
  <2> HIDE DEF timers
  <2>3. \A x, a, b, d : x = [links |-> a, timers |-> b] => [x EXCEPT !.timers = d] = [links |-> a, timers |-> d]
    OBVIOUS
  <2>4. net' = [links |-> net.links, timers |-> timers]
    BY <1>2, <2>1, <2>3
  <2>5. Fewer /\ FaultsTyped'
    BY <1>1, <2>1 DEF Fewer, Orderly, FaultsTyped
  <2> QED
    BY <1>1, <2>2, <2>4, <2>5 DEF Disturbing
<1> QED
  BY <1>3, <1>4, <1>5, <1>6, <1>7, <1>8 DEF Kafka!Fault, Consumers, Routes, Link

-----------------------------------------------------------------------------
(* What every step keeps. *)
Items(s) == {s[i] : i \in DOMAIN s}

LEMMA ItemsOf ==
  ASSUME NEW S, NEW s \in Seq(S)
  PROVE  /\ \A i \in DOMAIN s : Items(Without(s, i)) \subseteq Items(s)
         /\ \A m \in S : Items(Append(s, m)) \subseteq Items(s) \cup {m}
         /\ \A n \in Nat : \A pay \in [1..n -> S] : Items(s \o pay) \subseteq Items(s) \cup Items(pay)
<1>1. Len(s) \in Nat /\ DOMAIN s = 1..Len(s)
  BY LenProperties
<1>2. ASSUME NEW i \in DOMAIN s PROVE Items(Without(s, i)) \subseteq Items(s)
  BY WithoutOrder DEF Items
<1>3. ASSUME NEW m \in S PROVE Items(Append(s, m)) \subseteq Items(s) \cup {m}
  BY <1>1, AppendProperties, LenProperties DEF Items
<1>4. ASSUME NEW n \in Nat, NEW pay \in [1..n -> S] PROVE Items(s \o pay) \subseteq Items(s) \cup Items(pay)
  <2>1. pay \in Seq(S) /\ Len(pay) = n /\ DOMAIN pay = 1..n
    OBVIOUS
  <2>2. /\ s \o pay \in Seq(S) /\ Len(s \o pay) = Len(s) + n
        /\ \A j \in 1..(Len(s) + n) : (s \o pay)[j] = IF j <= Len(s) THEN s[j] ELSE pay[j - Len(s)]
    BY <2>1, ConcatProperties
  <2>3. DOMAIN (s \o pay) = 1..(Len(s) + n)
    BY <2>2, LenProperties
  <2>4. ASSUME NEW j \in 1..(Len(s) + n) PROVE (s \o pay)[j] \in Items(s) \cup Items(pay)
    <3>1. CASE j <= Len(s)
      BY <1>1, <2>2, <3>1 DEF Items
    <3>2. CASE ~(j <= Len(s))
      <4>1. j - Len(s) \in 1..n
        BY <1>1, <3>2
      <4>2. (s \o pay)[j] = pay[j - Len(s)]
        BY <2>2, <3>2
      <4> QED
        BY <2>1, <4>1, <4>2 DEF Items
    <3> QED
      BY <3>1, <3>2
  <2> QED
    BY <2>3, <2>4 DEF Items
<1> QED
  BY <1>2, <1>3, <1>4

LEMMA KafkaKeeps ==
  ASSUME KafkaInv, LogTyped', QueueTyped', FaultsTyped', InputsTyped', Kafka!TypeOK', Grows,
         \A l \in Routes : \A m \in Coming(l)' : m \in Coming(l) \/ AddressRight(l, m)',
         Orderly' => AllSound'
  PROVE  KafkaInv'
<1>1. LogTyped /\ QueueTyped /\ Addressed
  BY DEF KafkaInv
<1>2. ASSUME NEW l \in Routes, NEW m \in Coming(l) PROVE AddressRight(l, m)'
  <2>1. m \in Messages /\ AddressRight(l, m)
    BY <1>1, QueuePieces DEF Addressed
  <2>2. ASSUME NEW p \in Partition, NEW o \in Nat, o < Len(state.log[p])
        PROVE  o < Len(state'.log[p]) /\ state'.log[p][o + 1] = state.log[p][o + 1]
    <3>1. Len(state.log[p]) \in Nat /\ Len(state'.log[p]) \in Nat /\ Len(state.log[p]) <= Len(state'.log[p])
      <4>1. state.log[p] \in Seq(Nat) /\ state'.log[p] \in Seq(Nat)
        BY <1>1 DEF LogTyped
      <4> QED
        BY <4>1, LenProperties DEF Grows
    <3>2. o + 1 \in 1..Len(state.log[p])
      BY <2>2, <3>1
    <3> QED
      BY <2>2, <3>1, <3>2 DEF Grows
  <2>3. CASE m \in Publishes
    BY <2>1, <2>3, Kinds DEF AddressRight
  <2>4. CASE m \in Deliveries
    <3>1. m.p \in Partition /\ m.offset \in Nat /\ m \notin Publishes /\ m \notin Acks
      BY <2>1, <2>4, Kinds
    <3> QED
      BY <2>1, <2>2, <2>4, <3>1 DEF AddressRight
  <2>5. CASE m \in Acks
    <3>1. m.p \in Partition /\ m.offset \in Nat /\ m \notin Publishes /\ m \notin Deliveries
      BY <2>1, <2>5, Kinds
    <3> QED
      BY <2>1, <2>2, <2>5, <3>1 DEF AddressRight
  <2> QED
    BY <2>1, <2>3, <2>4, <2>5 DEF Messages
<1>3. Addressed'
  BY <1>2 DEF Addressed
<1> QED
  BY <1>3 DEF KafkaInv

(* Nothing new for the consumers that live. *)
LEMMA QuietSound ==
  ASSUME KafkaInv, Orderly, Done \subseteq Done', env.dead \subseteq env'.dead, FetchedDone',
         \A c \in Consumers \ env'.dead : To(c)' = To(c),
         \A c \in Consumers : Coming(<<c, "B">>)' \subseteq Coming(<<c, "B">>),
         state'.assignment = state.assignment, state'.delivered = state.delivered
  PROVE  AllSound'
<1>1. AllSound /\ LogTyped /\ QueueTyped /\ Addressed
  BY DEF KafkaInv
<1> DEFINE done == Done
           more == Done'
<1>2. done \subseteq more
  OBVIOUS
<1>3. AcksDone'
  <2> SUFFICES ASSUME NEW c \in Consumers, NEW m \in Coming(<<c, "B">>)'
               PROVE  Reached(more, m.p, m.offset + 1)
    BY DEF AcksDone
  <2>1. Reached(done, m.p, m.offset + 1)
    BY <1>1 DEF AllSound, AcksDone
  <2> HIDE DEF done, more
  <2> QED
    BY <1>2, <2>1, CoverKept
<1>4. ASSUME NEW c \in Consumers PROVE OrderOf(c)'
  <2> SUFFICES ASSUME c \notin env'.dead PROVE InOrderFor(more, To(c)')
    BY DEF OrderOf
  <2>1. InOrderFor(done, To(c)) /\ To(c)' = To(c) /\ To(c) \in Seq(Deliveries)
    BY <1>1, ToTyped DEF AllSound, OrderOf
  <2> HIDE DEF done, more
  <2> QED
    BY <1>2, <2>1, OrderKept
<1>5. ASSUME NEW p \in Partition PROVE PushedOf(p)'
  <2> DEFINE c == state.assignment[p]
             o == state.delivered[p]
  <2> SUFFICES ASSUME c \notin env'.dead PROVE Covered(more, To(c)', p, o, Len(To(c)'))
    BY DEF PushedOf
  <2>1. c \in Consumers /\ Covered(done, To(c), p, o, Len(To(c)))
    BY <1>1, LogFacts DEF AllSound, PushedOf
  <2>2. To(c)' = To(c)
    BY <2>1
  <2> HIDE DEF done, more, c, o
  <2> QED
    BY <1>2, <2>1, <2>2, CoverKept
<1> QED
  BY <1>3, <1>4, <1>5 DEF AllSound

SpanRight(pay, log, p, from, k) ==
  /\ pay \in [1..k -> Deliveries] /\ pay \in Seq(Deliveries)
  /\ \A j \in 1..k : pay[j].p = p /\ pay[j].offset = from + j - 1
  /\ \A j \in 1..k : pay[j].offset < Len(log) /\ pay[j].id = log[pay[j].offset + 1]

LEMMA SpanIs ==
  ASSUME NEW log \in Seq(Nat), NEW p \in Partition, NEW from \in Nat, NEW k \in Nat, from + k <= Len(log)
  PROVE  SpanRight(Span(log, p, from, k), log, p, from, k)
<1> DEFINE pay == Span(log, p, from, k)
<1>1. Len(log) \in Nat
  BY LenProperties
<1>2. \A j \in 1..k : /\ from + j - 1 \in Nat /\ from + j \in 1..Len(log) /\ (from + j - 1) + 1 = from + j
                      /\ from + j - 1 < Len(log)
  BY <1>1
<1>3. \A j \in 1..k : log[from + j] \in Nat
  BY <1>2, ElementOfSeq
<1>4. pay \in [1..k -> Deliveries]
  BY <1>2, <1>3 DEF Span, Deliveries
<1>5. ASSUME NEW j \in 1..k
      PROVE  pay[j].p = p /\ pay[j].offset = from + j - 1 /\ pay[j].id = log[from + j]
  BY DEF Span
<1> HIDE DEF pay
<1>6. ASSUME NEW j \in 1..k
      PROVE  /\ pay[j].p = p /\ pay[j].offset = from + j - 1
             /\ pay[j].offset < Len(log) /\ pay[j].id = log[pay[j].offset + 1]
  <2> DEFINE o == from + j - 1
  <2>1. o < Len(log) /\ o + 1 = from + j
    BY <1>2
  <2>2. pay[j].p = p /\ pay[j].offset = o /\ pay[j].id = log[from + j]
    BY <1>5
  <2> HIDE DEF o
  <2>3. pay[j].offset < Len(log) /\ pay[j].id = log[pay[j].offset + 1]
    BY <2>1, <2>2
  <2> QED
    BY <2>2, <2>3 DEF o
<1>7. pay \in Seq(Deliveries)
  BY <1>4, SeqDef
<1> QED
  BY <1>4, <1>6, <1>7 DEF pay, SpanRight

(* A range pushed to the one assigned, who had all before it. *)
LEMMA PushSound ==
  ASSUME KafkaInv, Orderly, Done \subseteq Done', env'.dead = env.dead, FetchedDone',
         NEW p \in Partition, NEW c \in Consumers, NEW from \in Nat, NEW k \in Nat,
         NEW pay, NEW log, SpanRight(pay, log, p, from, k),
         To(c)' = To(c) \o pay, \A d \in Consumers : d # c => To(d)' = To(d),
         \A d \in Consumers : Coming(<<d, "B">>)' \subseteq Coming(<<d, "B">>),
         state'.assignment[p] = c, state'.delivered[p] = from + k,
         \A q \in Partition : q # p => /\ state'.assignment[q] = state.assignment[q]
                                       /\ state'.delivered[q] = state.delivered[q],
         c \notin env.dead => Covered(Done, To(c), p, from, Len(To(c)))
  PROVE  AllSound'
<1>1. AllSound /\ LogTyped /\ QueueTyped /\ Addressed
  BY DEF KafkaInv
<1>0. /\ pay \in [1..k -> Deliveries] /\ pay \in Seq(Deliveries)
      /\ \A j \in 1..k : pay[j].p = p /\ pay[j].offset = from + j - 1
  BY DEF SpanRight
<1> DEFINE done == Done
           more == Done'
           s == To(c)
<1>2. done \subseteq more
  OBVIOUS
<1>3. AcksDone'
  <2> SUFFICES ASSUME NEW d \in Consumers, NEW m \in Coming(<<d, "B">>)'
               PROVE  Reached(more, m.p, m.offset + 1)
    BY DEF AcksDone
  <2>1. Reached(done, m.p, m.offset + 1)
    BY <1>1 DEF AllSound, AcksDone
  <2> HIDE DEF done, more
  <2> QED
    BY <1>2, <2>1, CoverKept
<1>4. ASSUME c \notin env.dead
      PROVE  /\ InOrderFor(more, s \o pay)
             /\ Covered(more, s \o pay, p, from + k, Len(s \o pay))
             /\ \A r, o : Covered(done, s, r, o, Len(s)) => Covered(more, s \o pay, r, o, Len(s \o pay))
  <2>1. s \in Seq(Deliveries) /\ InOrderFor(done, s) /\ Covered(done, s, p, from, Len(s))
    BY <1>1, <1>4, ToTyped DEF AllSound, OrderOf
  <2>2. s \o pay \in Seq(Deliveries)
    BY <1>0, <2>1, ConcatProperties
  <2> HIDE DEF done, more, s
  <2>3. /\ InOrderFor(done, s \o pay)
        /\ Covered(done, s \o pay, p, from + k, Len(s \o pay))
        /\ \A r, o : Covered(done, s, r, o, Len(s)) => Covered(done, s \o pay, r, o, Len(s \o pay))
    BY <1>0, <2>1, OrderPushed
  <2> QED
    BY <1>2, <2>2, <2>3, OrderKept, CoverKept
<1>5. ASSUME NEW d \in Consumers PROVE OrderOf(d)'
  <2> SUFFICES ASSUME d \notin env.dead PROVE InOrderFor(more, To(d)')
    BY DEF OrderOf
  <2>1. CASE d = c
    BY <1>4, <2>1
  <2>2. CASE d # c
    <3>1. InOrderFor(done, To(d)) /\ To(d)' = To(d) /\ To(d) \in Seq(Deliveries)
      BY <1>1, <2>2, ToTyped DEF AllSound, OrderOf
    <3> HIDE DEF done, more
    <3> QED
      BY <1>2, <3>1, OrderKept
  <2> QED
    BY <2>1, <2>2
<1>6. ASSUME NEW q \in Partition, NEW d, NEW o, d = state'.assignment[q], o = state'.delivered[q],
             d \notin env.dead
      PROVE  Covered(more, To(d)', q, o, Len(To(d)'))
  <2>1. CASE q = p
    <3>1. d = c /\ o = from + k
      BY <1>6, <2>1
    <3> HIDE DEF more
    <3> QED
      BY <1>4, <1>6, <2>1, <3>1
  <2>2. CASE q # p
    <3>1. d = state.assignment[q] /\ o = state.delivered[q] /\ d \in Consumers
      BY <1>1, <1>6, <2>2, LogFacts
    <3>2. Covered(done, To(d), q, o, Len(To(d)))
      BY <1>1, <1>6, <3>1 DEF AllSound, PushedOf
    <3>3. CASE d = c
      <4> HIDE DEF more, done
      <4> QED
        BY <1>4, <1>6, <3>2, <3>3
    <3>4. CASE d # c
      <4>1. To(d)' = To(d)
        BY <3>1, <3>4
      <4>2. Covered(more, To(d), q, o, Len(To(d)))
        <5> HIDE DEF more, done
        <5> QED
          BY <1>2, <3>2, CoverKept
      <4> HIDE DEF more, done
      <4> QED
        BY <4>1, <4>2
    <3> QED
      BY <3>3, <3>4
  <2> QED
    BY <2>1, <2>2
<1>7. ASSUME NEW q \in Partition PROVE PushedOf(q)'
  <2> HIDE DEF done
  <2>1. state'.assignment[q] \notin env.dead =>
          Covered(more, net'.links[<<"B", state'.assignment[q]>>], q, state'.delivered[q],
                  Len(net'.links[<<"B", state'.assignment[q]>>]))
    BY <1>6 DEF To, Link
  <2> QED
    BY <2>1 DEF PushedOf, To, Link
<1> QED
  BY <1>3, <1>5, <1>7 DEF AllSound

LEMMA RestLinks ==
  ASSUME QueueTyped, NEW l \in Routes, NEW i
  PROVE  \A x \in Routes : Removed(net.links, l, i)[x] = IF x = l THEN Without(Link(l), i) ELSE Link(x)
BY DEF QueueTyped, Removed, Link

LEMMA PutLinks ==
  ASSUME NEW rest \in [Routes -> Seq(Messages)], NEW c \in Consumers, NEW pay \in Seq(Deliveries),
         NEW timers, TimersTyped(timers), net' = [links |-> Put(rest, <<"B", c>>, pay), timers |-> timers]
  PROVE  /\ QueueTyped'
         /\ \A x \in Routes : Link(x)' = IF x = <<"B", c>> THEN rest[x] \o pay ELSE rest[x]
<1> DEFINE l == <<"B", c>>
<1>1. l \in Routes
  BY LogNodes
<1>2. rest[l] \o pay \in Seq(Messages)
  <2>1. pay \in Seq(Messages)
    BY SeqMonotonic DEF Messages
  <2> QED
    BY <1>1, <2>1, ConcatProperties
<1>3. net'.links = [rest EXCEPT ![l] = rest[l] \o pay] /\ net'.timers = timers
  BY DEF Put
<1> HIDE DEF l
<1>4. net'.links \in [Routes -> Seq(Messages)]
  BY <1>2, <1>3
<1>5. net' = [links |-> net'.links, timers |-> net'.timers]
  OBVIOUS
<1>6. \A x \in Routes : net'.links[x] = IF x = l THEN rest[x] \o pay ELSE rest[x]
  BY <1>3
<1> QED
  BY <1>3, <1>4, <1>5, <1>6 DEF QueueTyped, Link, l

LEMMA ArrivesFacts ==
  ASSUME KafkaInv, NEW l \in Routes, NEW i \in DOMAIN Link(l), ArrivesAt(l, i)
  PROVE  /\ FaultsTyped' /\ InputsTyped' /\ (Orderly' => Orderly /\ i = 1 /\ env' = env)
         /\ env'.dead = env.dead
<1>1. FaultsTyped /\ InputsTyped
  BY DEF KafkaInv
<1>2. env.late \in Nat /\ env.drops \in Nat /\ env.revives \in Nat
  BY <1>1 DEF FaultsTyped
<1>3. InputsTyped'
  BY <1>1 DEF ArrivesAt, InputsTyped
<1>4. CASE i = 1
  <2>1. env' = env
    BY <1>4 DEF ArrivesAt
  <2> QED
    BY <1>1, <1>3, <1>4, <2>1 DEF FaultsTyped, Orderly
<1>5. CASE i # 1
  <2>1. env' = [env EXCEPT !.late = @ + 1]
    BY <1>5 DEF ArrivesAt
  <2>2. /\ env'.late = env.late + 1 /\ env'.drops = env.drops /\ env'.revives = env.revives
        /\ env'.dead = env.dead
    BY <1>1, <2>1 DEF FaultsTyped
  <2>3. FaultsTyped'
    BY <1>1, <1>2, <2>1 DEF FaultsTyped
  <2>4. ~Orderly'
    BY <1>2, <2>2 DEF Orderly
  <2> QED
    BY <1>3, <2>2, <2>3, <2>4
<1> QED
  BY <1>4, <1>5

LEMMA PublishKeeps ==
  ASSUME KafkaInv, NEW l \in Routes, NEW i \in DOMAIN Link(l), NEW m \in Publishes, m = Link(l)[i],
         NEW p \in Partition, NEW c, c = state.assignment[p], Publishing(l, i, m, p)
  PROVE  KafkaInv'
<1>1. LogTyped /\ QueueTyped /\ Addressed /\ Kafka!TypeOK /\ m.id \in Nat
  BY DEF KafkaInv, Publishes
<1> DEFINE log == Append(state.log[p], m.id)
           from == Len(state.log[p])
           pay == Span(log, p, from, 1)
           rest == Removed(net.links, l, i)
<1>2. from \in Nat /\ c \in Consumers /\ state.log[p] \in Seq(Nat)
  BY <1>1, LogFacts
<1>3. log \in Seq(Nat) /\ Len(log) = from + 1 /\ \A k \in 1..from : log[k] = state.log[p][k]
  BY <1>1, <1>2, AppendProperties
<1>4. /\ state'.log = [state.log EXCEPT ![p] = log] /\ state'.assignment = state.assignment
      /\ state'.delivered = [state.delivered EXCEPT ![p] = from + 1]
      /\ state'.fetched = state.fetched /\ state'.committed = state.committed
      /\ state'.sinceCommit = state.sinceCommit /\ state'.processed = state.processed
      /\ state'.stalled = [state.stalled EXCEPT ![p] = FALSE]
  BY <1>1 DEF Publishing, LogTyped
<1>5. LogTyped'
  <2>1. /\ [state.log EXCEPT ![p] = log] \in [Partition -> Seq(Nat)]
        /\ [state.delivered EXCEPT ![p] = from + 1] \in [Partition -> Nat]
        /\ [state.stalled EXCEPT ![p] = FALSE] \in [Partition -> BOOLEAN]
    BY <1>1, <1>2, <1>3 DEF LogTyped
  <2>2. state' = [log |-> [state.log EXCEPT ![p] = log], assignment |-> state.assignment,
                  delivered |-> [state.delivered EXCEPT ![p] = from + 1], fetched |-> state.fetched,
                  committed |-> state.committed, sinceCommit |-> state.sinceCommit,
                  stalled |-> [state.stalled EXCEPT ![p] = FALSE], processed |-> state.processed]
    BY <1>1 DEF Publishing, LogTyped
  <2> HIDE DEF log, from
  <2> QED
    BY <1>1, <2>1, <2>2 DEF LogTyped
<1>6. SpanRight(pay, log, p, from, 1)
  <2>1. from + 1 <= Len(log) /\ 1 \in Nat
    BY <1>2, <1>3
  <2> HIDE DEF log, from
  <2> QED
    BY <1>2, <1>3, <2>1, SpanIs
<1>7. \E timers : TimersTyped(timers) /\ net' = [links |-> Put(rest, <<"B", c>>, pay), timers |-> timers]
  <2>1. state'.log[p] = log /\ (from + 1) - from = 1
    BY <1>1, <1>2, <1>4 DEF LogTyped
  <2>2. Pushing(rest, p, c, from, from + 1)
    BY DEF Publishing
  <2> HIDE DEF log, from, rest
  <2> QED
    BY <2>1, <2>2 DEF Pushing
<1>8. l = <<"P", "B">> /\ ArrivesAt(l, i)
  BY DEF Publishing
<1>9. /\ Without(Link(l), i) \in Seq(Messages) /\ rest \in [Routes -> Seq(Messages)]
      /\ Link(<<"B", c>>) \in Seq(Messages) /\ <<"B", c>> \in Routes /\ <<"B", c>> # l
  BY <1>1, <1>2, <1>8, ArrivalFacts, QueuePieces, LogNodes
<1> HIDE DEF log, from, pay
<1>10. /\ QueueTyped' /\ pay \in Seq(Deliveries)
       /\ \A x \in Routes : Link(x)' = IF x = <<"B", c>> THEN rest[x] \o pay ELSE rest[x]
  <2> HIDE DEF rest
  <2>1. pay \in Seq(Deliveries) /\ c \in Consumers
    BY <1>2, <1>6 DEF SpanRight
  <2> QED
    BY <1>7, <1>9, <2>1, PutLinks
<1>11. \A x \in Routes : rest[x] = IF x = l THEN Without(Link(l), i) ELSE Link(x)
  BY <1>1, RestLinks
<1> HIDE DEF rest
<1>12. /\ Link(l)' = Without(Link(l), i) /\ Link(<<"B", c>>)' = Link(<<"B", c>>) \o pay
       /\ \A x \in Routes : x # l /\ x # <<"B", c>> => Link(x)' = Link(x)
  BY <1>9, <1>10, <1>11
<1>13. ASSUME NEW x \in Routes, NEW y \in Coming(x)' PROVE y \in Coming(x) \/ AddressRight(x, y)'
  <2>1. CASE x = l
    <3>1. Items(Without(Link(l), i)) \subseteq Items(Link(l))
      BY <1>1, QueuePieces, ItemsOf
    <3> QED
      BY <1>12, <2>1, <3>1 DEF Coming, Items
  <2>2. CASE x = <<"B", c>>
    <3>1. Items(Link(x) \o pay) \subseteq Items(Link(x)) \cup Items(pay)
      <4>1. 1 \in Nat /\ pay \in [1..1 -> Messages]
        BY <1>6 DEF Messages, SpanRight
      <4> QED
        BY <1>9, <2>2, <4>1, ItemsOf
    <3>2. y \in Coming(x) \/ y \in Items(pay)
      BY <1>12, <2>2, <3>1 DEF Coming, Items
    <3>3. ASSUME y \in Items(pay) PROVE AddressRight(x, y)'
      <4>1. /\ y \in Deliveries /\ y.p = p /\ y.offset < Len(log) /\ y.id = log[y.offset + 1]
        BY <1>6, <3>3 DEF Items, SpanRight
      <4>2. y \notin Publishes /\ y \notin Acks
        BY <4>1, Kinds DEF Messages
      <4>3. state'.log[p] = log
        BY <1>1, <1>4 DEF LogTyped
      <4>4. x[1] = "B" /\ x[2] \in Consumers
        BY <1>2, <2>2
      <4> QED
        BY <4>1, <4>2, <4>3, <4>4 DEF AddressRight
    <3> QED
      BY <3>2, <3>3
  <2>3. CASE x # l /\ x # <<"B", c>>
    BY <1>12, <2>3 DEF Coming
  <2> QED
    BY <2>1, <2>2, <2>3
<1>14. Grows
  <2>1. ASSUME NEW q \in Partition
        PROVE  /\ Len(state.log[q]) <= Len(state'.log[q])
               /\ \A k \in 1..Len(state.log[q]) : state'.log[q][k] = state.log[q][k]
    <3>1. CASE q = p
      <4>1. state'.log[q] = log /\ Len(state.log[q]) = from
        BY <1>1, <1>4, <3>1 DEF LogTyped, from
      <4> QED
        BY <1>2, <1>3, <3>1, <4>1
    <3>2. CASE q # p
      <4>1. state'.log[q] = state.log[q] /\ Len(state.log[q]) \in Nat
        BY <1>1, <1>4, <3>2, LogFacts DEF LogTyped
      <4> QED
        BY <4>1
    <3> QED
      BY <3>1, <3>2
  <2> QED
    BY <1>4, <2>1 DEF Grows
<1>15. Kafka!TypeOK'
  <2> SUFFICES ASSUME NEW q \in Partition
               PROVE  /\ state'.assignment[q] \in Consumers /\ state'.stalled[q] \in BOOLEAN
                      /\ state'.sinceCommit[q] \in 0..CommitEvery - 1
                      /\ state'.delivered[q] = Len(state'.log[q])
                      /\ state'.committed[q] <= state'.fetched[q] /\ state'.fetched[q] <= state'.delivered[q]
    BY DEF Kafka!TypeOK, Consumers
  <2>1. /\ state.sinceCommit[q] \in 0..CommitEvery - 1 /\ state.delivered[q] = Len(state.log[q])
        /\ state.committed[q] <= state.fetched[q] /\ state.fetched[q] <= state.delivered[q]
        /\ state.delivered[q] \in Nat /\ state.fetched[q] \in Nat /\ state.committed[q] \in Nat
    BY <1>1, LogFacts DEF Kafka!TypeOK
  <2>2. state'.assignment[q] \in Consumers /\ state'.stalled[q] \in BOOLEAN
    BY <1>5 DEF LogTyped
  <2>3. CASE q = p
    <3>1. state'.log[q] = log /\ state'.delivered[q] = from + 1 /\ Len(state.log[q]) = from
      BY <1>1, <1>4, <2>3 DEF LogTyped, from
    <3>2. state'.fetched[q] <= state'.delivered[q]
      BY <1>2, <1>4, <2>1, <3>1
    <3> QED
      BY <1>3, <1>4, <2>1, <2>2, <3>1, <3>2
  <2>4. CASE q # p
    <3>1. state'.log[q] = state.log[q] /\ state'.delivered[q] = state.delivered[q]
      BY <1>1, <1>4, <2>4 DEF LogTyped
    <3> QED
      BY <1>4, <2>1, <2>2, <3>1
  <2> QED
    BY <2>3, <2>4
<1>16. FaultsTyped' /\ InputsTyped' /\ env'.dead = env.dead /\ (Orderly' => Orderly)
  BY <1>8, ArrivesFacts
<1>17. ASSUME Orderly' PROVE AllSound'
  <2>1. Orderly /\ AllSound
    BY <1>16, <1>17 DEF KafkaInv
  <2>2. Done \subseteq Done'
    BY <1>1, <1>5, <1>14, DoneGrows
  <2>3. FetchedDone'
    <3> DEFINE done == Done
               more == Done'
    <3>1. done \subseteq more /\ \A q \in Partition : Reached(done, q, state.fetched[q])
      BY <2>1, <2>2 DEF AllSound, FetchedDone
    <3>2. \A q \in Partition : Reached(more, q, state.fetched[q])
      <4> HIDE DEF done, more
      <4> QED
        BY <3>1, CoverKept
    <3> QED
      BY <1>4, <3>2 DEF FetchedDone
  <2>4. /\ To(c)' = To(c) \o pay /\ \A d \in Consumers : d # c => To(d)' = To(d)
        /\ \A d \in Consumers : Coming(<<d, "B">>)' \subseteq Coming(<<d, "B">>)
    <3>1. \A d \in Consumers : /\ <<"B", d>> \in Routes /\ <<d, "B">> \in Routes
                                /\ <<"B", d>> # l /\ <<d, "B">> # l /\ <<d, "B">> # <<"B", c>>
                                /\ (<<"B", d>> = <<"B", c>> => d = c)
      BY <1>8, LogNodes
    <3>2. To(c)' = To(c) \o pay
      BY <1>12 DEF To
    <3>3. ASSUME NEW d \in Consumers, d # c PROVE To(d)' = To(d)
      BY <1>12, <3>1, <3>3 DEF To
    <3>4. ASSUME NEW d \in Consumers PROVE Coming(<<d, "B">>)' \subseteq Coming(<<d, "B">>)
      BY <1>12, <3>1 DEF Coming
    <3> QED
      BY <3>2, <3>3, <3>4
  <2>5. /\ state'.assignment[p] = c /\ state'.delivered[p] = from + 1
        /\ \A q \in Partition : q # p => /\ state'.assignment[q] = state.assignment[q]
                                         /\ state'.delivered[q] = state.delivered[q]
    BY <1>1, <1>4 DEF LogTyped
  <2>6. c \notin env.dead => Covered(Done, To(c), p, from, Len(To(c)))
    <3>1. state.delivered[p] = from
      BY <1>1 DEF Kafka!TypeOK, from
    <3> QED
      BY <2>1, <3>1 DEF AllSound, PushedOf
  <2>7. SpanRight(pay, log, p, from, 1) /\ from \in Nat /\ 1 \in Nat /\ c \in Consumers
    BY <1>2, <1>6 DEF from
  <2> QED
    BY <1>16, <2>1, <2>2, <2>3, <2>4, <2>5, <2>6, <2>7, PushSound
<1> QED
  BY <1>5, <1>10, <1>13, <1>14, <1>15, <1>16, <1>17, KafkaKeeps

LEMMA MoveKeeps ==
  ASSUME Rules, KafkaInv, NEW p \in Partition, NEW c, c = Kafka!Other(state.assignment[p]), Moving(p),
         InputsTyped'
  PROVE  KafkaInv'
<1>1. LogTyped /\ QueueTyped /\ Addressed /\ FaultsTyped /\ Kafka!TypeOK
  BY DEF KafkaInv
<1> DEFINE log == state.log[p]
           from == state.committed[p]
           to == state.delivered[p]
           k == to - from
           pay == Span(log, p, from, k)
<1>2. /\ from \in Nat /\ to \in Nat /\ from <= to /\ to = Len(log) /\ log \in Seq(Nat) /\ c \in Consumers
      /\ from <= state.fetched[p] /\ state.fetched[p] \in Nat
  BY <1>1, LogFacts, OffsetFacts, LogNodes
<1>3. k \in Nat /\ from + k = to /\ from + k <= Len(log)
  BY <1>2
<1>4. /\ state'.log = state.log /\ state'.assignment = [state.assignment EXCEPT ![p] = c]
      /\ state'.delivered = state.delivered /\ state'.fetched = [state.fetched EXCEPT ![p] = from]
      /\ state'.committed = state.committed /\ state'.sinceCommit = [state.sinceCommit EXCEPT ![p] = 0]
      /\ state'.processed = state.processed /\ state'.stalled = [state.stalled EXCEPT ![p] = TRUE]
  BY <1>1 DEF Moving, LogTyped
<1>5. LogTyped'
  <2>1. /\ [state.assignment EXCEPT ![p] = c] \in [Partition -> Consumers]
        /\ [state.fetched EXCEPT ![p] = from] \in [Partition -> Nat]
        /\ [state.sinceCommit EXCEPT ![p] = 0] \in [Partition -> Nat]
        /\ [state.stalled EXCEPT ![p] = TRUE] \in [Partition -> BOOLEAN]
    BY <1>1, <1>2 DEF LogTyped
  <2>2. state' = [log |-> state.log, assignment |-> [state.assignment EXCEPT ![p] = c],
                  delivered |-> state.delivered, fetched |-> [state.fetched EXCEPT ![p] = from],
                  committed |-> state.committed, sinceCommit |-> [state.sinceCommit EXCEPT ![p] = 0],
                  stalled |-> [state.stalled EXCEPT ![p] = TRUE], processed |-> state.processed]
    BY <1>1 DEF Moving, LogTyped
  <2> HIDE DEF from
  <2> QED
    BY <1>1, <2>1, <2>2 DEF LogTyped
<1>6. SpanRight(pay, log, p, from, k)
  <2> HIDE DEF log, from, k
  <2> QED
    BY <1>2, <1>3, SpanIs
<1>7. \E timers : TimersTyped(timers) /\ net' = [links |-> Put(net.links, <<"B", c>>, pay), timers |-> timers]
  <2>1. state'.log[p] = log
    BY <1>4
  <2>2. Pushing(net.links, p, c, from, to)
    BY DEF Moving
  <2> HIDE DEF log, from, to
  <2> QED
    BY <2>1, <2>2 DEF Pushing
<1> HIDE DEF log, from, k, to, pay
<1>8. net.links \in [Routes -> Seq(Messages)] /\ pay \in Seq(Deliveries) /\ <<"B", c>> \in Routes
  BY <1>1, <1>2, <1>6, LogNodes DEF QueueTyped, SpanRight
<1>9. /\ QueueTyped'
      /\ Link(<<"B", c>>)' = Link(<<"B", c>>) \o pay
      /\ \A x \in Routes : x # <<"B", c>> => Link(x)' = Link(x)
  <2>1. QueueTyped' /\ \A x \in Routes : Link(x)' = IF x = <<"B", c>> THEN net.links[x] \o pay ELSE net.links[x]
    BY <1>2, <1>7, <1>8, PutLinks
  <2> QED
    BY <1>8, <2>1 DEF Link
<1>10. ASSUME NEW x \in Routes, NEW y \in Coming(x)' PROVE y \in Coming(x) \/ AddressRight(x, y)'
  <2>1. CASE x = <<"B", c>>
    <3>1. Items(Link(x) \o pay) \subseteq Items(Link(x)) \cup Items(pay)
      <4>1. k \in Nat /\ pay \in [1..k -> Messages]
        BY <1>3, <1>6 DEF Messages, SpanRight
      <4>2. Link(x) \in Seq(Messages)
        BY <1>1, QueuePieces
      <4> QED
        BY <4>1, <4>2, ItemsOf
    <3>2. y \in Coming(x) \/ y \in Items(pay)
      BY <1>9, <2>1, <3>1 DEF Coming, Items
    <3>3. ASSUME y \in Items(pay) PROVE AddressRight(x, y)'
      <4>1. /\ y \in Deliveries /\ y.p = p /\ y.offset < Len(log) /\ y.id = log[y.offset + 1]
        BY <1>6, <3>3 DEF Items, SpanRight
      <4>2. y \notin Publishes /\ y \notin Acks
        BY <4>1, Kinds DEF Messages
      <4>3. state'.log[p] = log
        BY <1>4 DEF log
      <4>4. x[1] = "B" /\ x[2] \in Consumers
        BY <1>2, <2>1
      <4> QED
        BY <4>1, <4>2, <4>3, <4>4 DEF AddressRight
    <3> QED
      BY <3>2, <3>3
  <2>2. CASE x # <<"B", c>>
    BY <1>9, <2>2 DEF Coming
  <2> QED
    BY <2>1, <2>2
<1>11. Grows
  BY <1>1, <1>4, LogFacts DEF Grows
<1>12. Kafka!TypeOK'
  <2> SUFFICES ASSUME NEW q \in Partition
               PROVE  /\ state'.assignment[q] \in Consumers /\ state'.stalled[q] \in BOOLEAN
                      /\ state'.sinceCommit[q] \in 0..CommitEvery - 1
                      /\ state'.delivered[q] = Len(state'.log[q])
                      /\ state'.committed[q] <= state'.fetched[q] /\ state'.fetched[q] <= state'.delivered[q]
    BY DEF Kafka!TypeOK, Consumers
  <2>1. /\ state.sinceCommit[q] \in 0..CommitEvery - 1 /\ state.delivered[q] = Len(state.log[q])
        /\ state.committed[q] <= state.fetched[q] /\ state.fetched[q] <= state.delivered[q]
    BY <1>1 DEF Kafka!TypeOK
  <2>2. state'.assignment[q] \in Consumers /\ state'.stalled[q] \in BOOLEAN
    BY <1>5 DEF LogTyped
  <2>3. CASE q = p
    <3>1. state'.sinceCommit[q] = 0 /\ state'.fetched[q] = from
      BY <1>1, <1>4, <2>3 DEF LogTyped
    <3>2. 0 \in 0..CommitEvery - 1
      BY DEF Rules
    <3>3. /\ state'.committed[q] <= state'.fetched[q] /\ state'.fetched[q] <= state'.delivered[q]
          /\ state'.delivered[q] = Len(state'.log[q])
      BY <1>2, <1>4, <2>1, <2>3, <3>1 DEF from, to
    <3> QED
      BY <2>2, <3>1, <3>2, <3>3
  <2>4. CASE q # p
    <3>1. state'.sinceCommit[q] = state.sinceCommit[q] /\ state'.fetched[q] = state.fetched[q]
      BY <1>1, <1>4, <2>4 DEF LogTyped
    <3> QED
      BY <1>4, <2>1, <2>2, <3>1
  <2> QED
    BY <2>3, <2>4
<1>13. FaultsTyped' /\ env'.dead = env.dead /\ (Orderly' => Orderly)
  BY <1>1 DEF Moving, FaultsTyped, Orderly
<1>14. ASSUME Orderly' PROVE AllSound'
  <2>1. Orderly /\ AllSound
    BY <1>13, <1>14 DEF KafkaInv
  <2>2. Done \subseteq Done'
    BY <1>1, <1>5, <1>11, DoneGrows
  <2>3. \A q \in Partition : Reached(Done, q, state.fetched[q])
    BY <2>1 DEF AllSound, FetchedDone
  <2>4. Reached(Done, p, from)
    <3>1. Reached(Done, p, state.fetched[p])
      BY <2>3
    <3> QED
      BY <1>2, <3>1 DEF Reached
  <2>5. FetchedDone'
    <3>1. ASSUME NEW q \in Partition PROVE Reached(Done, q, state'.fetched[q])
      <4>1. state'.fetched[q] = IF q = p THEN from ELSE state.fetched[q]
        BY <1>1, <1>4 DEF LogTyped
      <4> QED
        BY <2>3, <2>4, <4>1
    <3>2. \A q \in Partition : Reached(Done', q, state'.fetched[q])
      BY <2>2, <3>1, CoverKept
    <3> QED
      BY <3>2 DEF FetchedDone
  <2>6. /\ To(c)' = To(c) \o pay /\ \A d \in Consumers : d # c => To(d)' = To(d)
        /\ \A d \in Consumers : Coming(<<d, "B">>)' \subseteq Coming(<<d, "B">>)
    <3>1. \A d \in Consumers : /\ <<"B", d>> \in Routes /\ <<d, "B">> \in Routes /\ <<d, "B">> # <<"B", c>>
                               /\ (<<"B", d>> = <<"B", c>> => d = c)
      BY LogNodes
    <3>2. To(c)' = To(c) \o pay
      BY <1>9 DEF To
    <3>3. ASSUME NEW d \in Consumers, d # c PROVE To(d)' = To(d)
      BY <1>9, <3>1, <3>3 DEF To
    <3>4. ASSUME NEW d \in Consumers PROVE Coming(<<d, "B">>)' \subseteq Coming(<<d, "B">>)
      BY <1>9, <3>1 DEF Coming
    <3> QED
      BY <3>2, <3>3, <3>4
  <2>7. /\ state'.assignment[p] = c /\ state'.delivered[p] = from + k
        /\ \A q \in Partition : q # p => /\ state'.assignment[q] = state.assignment[q]
                                         /\ state'.delivered[q] = state.delivered[q]
    BY <1>1, <1>3, <1>4 DEF LogTyped, to
  <2>8. Covered(Done, To(c), p, from, Len(To(c)))
    BY <2>4, CoverKept
  <2>9. SpanRight(pay, log, p, from, k) /\ from \in Nat /\ k \in Nat /\ c \in Consumers
    BY <1>2, <1>3, <1>6
  <2> QED
    BY <1>13, <2>1, <2>2, <2>5, <2>6, <2>7, <2>8, <2>9, PushSound
<1> QED
  BY <1>5, <1>9, <1>10, <1>11, <1>12, <1>13, <1>14, KafkaKeeps

LEMMA SentLinks ==
  ASSUME NEW rest \in [Routes -> Seq(Messages)], NEW n, NEW to, <<n, to>> \in Routes, NEW m \in Messages,
         NEW timers, TimersTyped(timers), net' = [links |-> Sent(rest, n, to, m), timers |-> timers]
  PROVE  /\ QueueTyped'
         /\ \A x \in Routes : Link(x)' = IF x = <<n, to>> THEN Append(rest[x], m) ELSE rest[x]
<1> DEFINE l == <<n, to>>
<1>1. Append(rest[l], m) \in Seq(Messages)
  BY AppendProperties
<1>2. net'.links = [rest EXCEPT ![l] = Append(rest[l], m)] /\ net'.timers = timers
  BY DEF Sent
<1> HIDE DEF l
<1>3. net'.links \in [Routes -> Seq(Messages)]
  BY <1>1, <1>2
<1>4. net' = [links |-> net'.links, timers |-> net'.timers]
  OBVIOUS
<1>5. \A x \in Routes : net'.links[x] = IF x = l THEN Append(rest[x], m) ELSE rest[x]
  BY <1>2
<1> QED
  BY <1>2, <1>3, <1>4, <1>5 DEF QueueTyped, Link, l

(* The consumer that got it did everything before it, and now this.        *)
LEMMA DeliverSound ==
  ASSUME KafkaInv, Orderly, Done \subseteq Done', env'.dead = env.dead,
         NEW c \in Consumers, c \notin env.dead, NEW m, NEW ack, To(c) # <<>>, m = To(c)[1],
         ack.p = m.p, ack.offset = m.offset, <<m.p, m.offset>> \in Done', m.offset \in Nat,
         To(c)' = Without(To(c), 1), \A d \in Consumers : d # c => To(d)' = To(d),
         \A d \in Consumers : \A y \in Coming(<<d, "B">>)' : y \in Coming(<<d, "B">>) \/ y = ack,
         state'.assignment = state.assignment, state'.delivered = state.delivered,
         state'.fetched = state.fetched
  PROVE  AllSound'
<1>1. AllSound /\ LogTyped /\ QueueTyped /\ Addressed
  BY DEF KafkaInv
<1> DEFINE done == Done
           more == Done'
           s == To(c)
<1>2. /\ done \subseteq more
      /\ s \in Seq(Deliveries) /\ InOrderFor(done, s)
  BY <1>1, ToTyped DEF AllSound, OrderOf
<1>3. /\ InOrderFor(more, Without(s, 1))
      /\ \A p, k : Covered(done, s, p, k, Len(s)) =>
           Covered(more, Without(s, 1), p, k, Len(Without(s, 1)))
      /\ Reached(done, m.p, m.offset)
  <2>1. <<s[1].p, s[1].offset>> \in more /\ s # <<>> /\ m = s[1]
    OBVIOUS
  <2> HIDE DEF done, more, s
  <2> QED
    BY <1>2, <2>1, OrderRest
<1>4. Reached(more, m.p, m.offset + 1)
  <2>1. <<m.p, m.offset>> \in more
    OBVIOUS
  <2> HIDE DEF done, more
  <2> SUFFICES ASSUME NEW o \in Nat, o < m.offset + 1 PROVE <<m.p, o>> \in more
    BY DEF Reached
  <2>2. CASE o < m.offset
    BY <1>2, <1>3, <2>2 DEF Reached
  <2>3. CASE ~(o < m.offset)
    <3>1. o = m.offset
      BY <2>3
    <3> QED
      BY <2>1, <3>1
  <2> QED
    BY <2>2, <2>3
<1>5. AcksDone'
  <2> SUFFICES ASSUME NEW d \in Consumers, NEW y \in Coming(<<d, "B">>)'
               PROVE  Reached(more, y.p, y.offset + 1)
    BY DEF AcksDone
  <2>1. CASE y = ack
    <3> HIDE DEF more
    <3> QED
      BY <1>4, <2>1
  <2>2. CASE y \in Coming(<<d, "B">>)
    <3>1. Reached(done, y.p, y.offset + 1)
      BY <1>1, <2>2 DEF AllSound, AcksDone
    <3> HIDE DEF done, more
    <3> QED
      BY <1>2, <3>1, CoverKept
  <2> QED
    BY <2>1, <2>2
<1>6. FetchedDone'
  <2>1. \A q \in Partition : Reached(done, q, state.fetched[q])
    BY <1>1 DEF AllSound, FetchedDone
  <2>2. \A q \in Partition : Reached(more, q, state.fetched[q])
    <3> HIDE DEF done, more
    <3> QED
      BY <1>2, <2>1, CoverKept
  <2> QED
    BY <2>2 DEF FetchedDone
<1>7. ASSUME NEW d \in Consumers PROVE OrderOf(d)'
  <2> SUFFICES ASSUME d \notin env.dead PROVE InOrderFor(more, To(d)')
    BY DEF OrderOf
  <2>1. CASE d = c
    <3> HIDE DEF more
    <3> QED
      BY <1>3, <2>1
  <2>2. CASE d # c
    <3>1. InOrderFor(done, To(d)) /\ To(d)' = To(d) /\ To(d) \in Seq(Deliveries)
      BY <1>1, <2>2, ToTyped DEF AllSound, OrderOf
    <3> HIDE DEF done, more
    <3> QED
      BY <1>2, <3>1, OrderKept
  <2> QED
    BY <2>1, <2>2
<1>8. ASSUME NEW q \in Partition, NEW d, NEW o, d = state.assignment[q], o = state.delivered[q],
             d \notin env.dead
      PROVE  Covered(more, To(d)', q, o, Len(To(d)'))
  <2>1. d \in Consumers /\ Covered(done, To(d), q, o, Len(To(d)))
    BY <1>1, <1>8, LogFacts DEF AllSound, PushedOf
  <2>2. CASE d = c
    <3> HIDE DEF more, done
    <3> QED
      BY <1>3, <2>1, <2>2
  <2>3. CASE d # c
    <3>1. To(d)' = To(d)
      BY <2>1, <2>3
    <3> HIDE DEF more, done
    <3> QED
      BY <1>2, <2>1, <3>1, CoverKept
  <2> QED
    BY <2>2, <2>3
<1>9. ASSUME NEW q \in Partition PROVE PushedOf(q)'
  <2> HIDE DEF done
  <2>1. state'.assignment[q] \notin env.dead =>
          Covered(more, net'.links[<<"B", state'.assignment[q]>>], q, state'.delivered[q],
                  Len(net'.links[<<"B", state'.assignment[q]>>]))
    BY <1>8 DEF To, Link
  <2> QED
    BY <2>1 DEF PushedOf, To, Link
<1> QED
  BY <1>5, <1>6, <1>7, <1>9 DEF AllSound

LEMMA DeliverKeeps ==
  ASSUME KafkaInv, NEW l \in Routes, NEW i \in DOMAIN Link(l), NEW m \in Deliveries, m = Link(l)[i],
         NEW ack \in Acks, Delivering(l, i, m, ack)
  PROVE  KafkaInv'
<1>1. LogTyped /\ QueueTyped /\ Addressed /\ FaultsTyped /\ Kafka!TypeOK
  BY DEF KafkaInv
<1> DEFINE c == l[2]
           rest == Removed(net.links, l, i)
           more == state.processed[c] \cup {m.id}
<1>2. /\ l[1] = "B" /\ c \in Consumers /\ ArrivesAt(l, i) /\ ack.p = m.p /\ ack.offset = m.offset
      /\ net' = [links |-> Sent(rest, c, "B", ack), timers |-> net.timers]
      /\ state' = [state EXCEPT !.processed[c] = @ \cup {m.id}]
  BY DEF Delivering
<1>3. m \in Messages /\ m \notin Publishes /\ m \notin Acks /\ m.p \in Partition /\ m.offset \in Nat
      /\ m.id \in Nat
  BY Kinds DEF Messages
<1>4. /\ m.offset < Len(state.log[m.p]) /\ m.id = state.log[m.p][m.offset + 1]
      /\ rest \in [Routes -> Seq(Messages)] /\ TimersTyped(net.timers)
  BY <1>1, <1>3, ArrivalFacts DEF AddressRight
<1>5. l = <<"B", c>> /\ <<c, "B">> \in Routes /\ l # <<c, "B">>
  BY <1>2, LogNodes
<1>6. /\ state'.log = state.log /\ state'.assignment = state.assignment
      /\ state'.delivered = state.delivered /\ state'.fetched = state.fetched
      /\ state'.committed = state.committed /\ state'.sinceCommit = state.sinceCommit
      /\ state'.stalled = state.stalled /\ state'.processed = [state.processed EXCEPT ![c] = more]
  BY <1>1, <1>2 DEF LogTyped
<1>7. LogTyped'
  <2>1. [state.processed EXCEPT ![c] = more] \in [Consumers -> SUBSET Nat]
    BY <1>1, <1>2, <1>3, LogFacts DEF LogTyped
  <2>2. state' = [log |-> state.log, assignment |-> state.assignment, delivered |-> state.delivered,
                  fetched |-> state.fetched, committed |-> state.committed,
                  sinceCommit |-> state.sinceCommit, stalled |-> state.stalled,
                  processed |-> [state.processed EXCEPT ![c] = more]]
    BY <1>1, <1>2 DEF LogTyped
  <2> HIDE DEF more
  <2> QED
    BY <1>1, <2>1, <2>2 DEF LogTyped
<1>8. /\ QueueTyped'
      /\ \A x \in Routes : Link(x)' = IF x = <<c, "B">> THEN Append(rest[x], ack) ELSE rest[x]
  <2>1. ack \in Messages
    BY DEF Messages
  <2> HIDE DEF rest, c
  <2> QED
    BY <1>2, <1>4, <1>5, <2>1, SentLinks
<1>9. \A x \in Routes : rest[x] = IF x = l THEN Without(Link(l), i) ELSE Link(x)
  BY <1>1, RestLinks
<1> HIDE DEF rest
<1>10. /\ Link(l)' = Without(Link(l), i) /\ Link(<<c, "B">>)' = Append(Link(<<c, "B">>), ack)
       /\ \A x \in Routes : x # l /\ x # <<c, "B">> => Link(x)' = Link(x)
  BY <1>5, <1>8, <1>9
<1>11. \A x \in Routes : \A y \in Coming(x)' : y \in Coming(x) \/ (x = <<c, "B">> /\ y = ack)
  <2> SUFFICES ASSUME NEW x \in Routes, NEW y \in Coming(x)'
               PROVE  y \in Coming(x) \/ (x = <<c, "B">> /\ y = ack)
    OBVIOUS
  <2>1. CASE x = l
    <3>1. Items(Without(Link(l), i)) \subseteq Items(Link(l))
      BY <1>1, QueuePieces, ItemsOf
    <3> QED
      BY <1>10, <2>1, <3>1 DEF Coming, Items
  <2>2. CASE x = <<c, "B">>
    <3>1. Items(Append(Link(x), ack)) \subseteq Items(Link(x)) \cup {ack}
      BY <1>1, QueuePieces, ItemsOf DEF Messages
    <3> QED
      BY <1>10, <2>2, <3>1 DEF Coming, Items
  <2>3. CASE x # l /\ x # <<c, "B">>
    BY <1>10, <2>3 DEF Coming
  <2> QED
    BY <2>1, <2>2, <2>3
<1>12. AddressRight(<<c, "B">>, ack)'
  <2>1. ack \notin Publishes /\ ack \notin Deliveries
    BY Kinds DEF Messages
  <2> QED
    BY <1>2, <1>4, <1>6, <2>1 DEF AddressRight
<1>13. ASSUME NEW x \in Routes, NEW y \in Coming(x)' PROVE y \in Coming(x) \/ AddressRight(x, y)'
  BY <1>11, <1>12
<1>14. Grows
  <2>1. \A d \in Consumers : state.processed[d] \subseteq state'.processed[d]
    BY <1>1, <1>6 DEF LogTyped
  <2> QED
    BY <1>1, <1>6, <2>1, LogFacts DEF Grows
<1>15. Kafka!TypeOK'
  BY <1>1, <1>6 DEF Kafka!TypeOK
<1>16. FaultsTyped' /\ InputsTyped' /\ env'.dead = env.dead /\ (Orderly' => Orderly /\ i = 1)
  BY <1>2, ArrivesFacts
<1>17. ASSUME Orderly' PROVE AllSound'
  <2>1. Orderly /\ i = 1 /\ Done \subseteq Done'
    BY <1>1, <1>7, <1>14, <1>16, <1>17, DoneGrows
  <2>2. c \notin env.dead /\ To(c) # <<>> /\ m = To(c)[1] /\ To(c)' = Without(To(c), 1)
    <3>1. To(c) = Link(l) /\ To(c)' = Link(l)'
      BY <1>5 DEF To
    <3>2. Link(l) # <<>>
      BY <1>1, QueuePieces, EmptySeq
    <3> QED
      BY <1>2, <1>10, <2>1, <3>1, <3>2 DEF ArrivesAt
  <2>3. <<m.p, m.offset>> \in Done'
    <3>1. m.id \in Kafka!Processed'
      BY <1>1, <1>2, <1>6 DEF Kafka!Processed, Consumers, LogTyped
    <3> QED
      BY <1>3, <1>4, <1>6, <3>1 DEF Done
  <2>4. ASSUME NEW d \in Consumers, d # c PROVE To(d)' = To(d)
    <3>1. <<"B", d>> \in Routes /\ <<"B", d>> # l /\ <<"B", d>> # <<c, "B">>
      BY <1>2, <1>5, <2>4, LogNodes
    <3> QED
      BY <1>10, <3>1 DEF To
  <2>5. \A d \in Consumers : \A y \in Coming(<<d, "B">>)' : y \in Coming(<<d, "B">>) \/ y = ack
    BY <1>11, LogNodes
  <2> HIDE DEF c
  <2> QED
    BY <1>2, <1>3, <1>6, <1>16, <2>1, <2>2, <2>3, <2>4, <2>5, DeliverSound
<1> QED
  BY <1>7, <1>8, <1>13, <1>14, <1>15, <1>16, <1>17, KafkaKeeps

(* A partition after an ack. *)
AfterAck(p, f, n, d, b) ==
  [state EXCEPT !.fetched[p] = f, !.sinceCommit[p] = n, !.committed[p] = d, !.stalled[p] = b]

AckCounts(p, o, f, n, d, b) ==
  /\ f \in {state.fetched[p], o + 1} /\ state.fetched[p] <= f
  /\ d \in {state.committed[p], f} /\ n \in 0..CommitEvery - 1 /\ b \in BOOLEAN

LEMMA FetchKeeps ==
  ASSUME Rules, KafkaInv, NEW l \in Routes, NEW i \in DOMAIN Link(l), NEW m \in Acks, m = Link(l)[i],
         Fetching(l, i, m)
  PROVE  KafkaInv'
<1>1. LogTyped /\ QueueTyped /\ Addressed /\ FaultsTyped /\ Kafka!TypeOK
  BY DEF KafkaInv
<1> DEFINE p == m.p
           rest == Removed(net.links, l, i)
<1>2. /\ l[1] \in Consumers /\ l[2] = "B" /\ ArrivesAt(l, i)
      /\ net' = [links |-> rest, timers |-> net.timers]
  BY DEF Fetching
<1>3. m \in Messages /\ m \notin Publishes /\ m \notin Deliveries /\ p \in Partition /\ m.offset \in Nat
  BY Kinds DEF Messages
<1>4. /\ m.offset < Len(state.log[p]) /\ m \in Coming(l)
      /\ rest \in [Routes -> Seq(Messages)] /\ TimersTyped(net.timers)
  BY <1>1, <1>3, ArrivalFacts DEF AddressRight
<1>5. \A x \in Routes : rest[x] = IF x = l THEN Without(Link(l), i) ELSE Link(x)
  BY <1>1, RestLinks
<1>6. /\ QueueTyped'
      /\ Link(l)' = Without(Link(l), i) /\ \A x \in Routes : x # l => Link(x)' = Link(x)
  BY <1>2, <1>4, <1>5 DEF QueueTyped, Link
<1> HIDE DEF rest
<1>7. ASSUME NEW x \in Routes PROVE Coming(x)' \subseteq Coming(x)
  <2>1. CASE x = l
    <3>1. Items(Without(Link(l), i)) \subseteq Items(Link(l))
      BY <1>1, QueuePieces, ItemsOf
    <3> QED
      BY <1>6, <2>1, <3>1 DEF Coming, Items
  <2>2. CASE x # l
    BY <1>6, <2>2 DEF Coming
  <2> QED
    BY <2>1, <2>2
<1>8. PICK f, n, d, b : AckCounts(p, m.offset, f, n, d, b) /\ state' = AfterAck(p, f, n, d, b)
  <2>0. /\ state.fetched[p] \in Nat /\ state.committed[p] \in Nat
        /\ state.sinceCommit[p] \in 0..CommitEvery - 1 /\ state.stalled[p] \in BOOLEAN
        /\ CommitEvery \in Nat \ {0}
    BY <1>1, <1>3, LogFacts DEF Kafka!TypeOK, Rules
  <2>1. CASE state' = state
    <3>1. state = AfterAck(p, state.fetched[p], state.sinceCommit[p], state.committed[p], state.stalled[p])
      BY <1>1 DEF LogTyped, AfterAck
    <3>2. AckCounts(p, m.offset, state.fetched[p], state.sinceCommit[p], state.committed[p], state.stalled[p])
      BY <2>0 DEF AckCounts
    <3> QED
      BY <2>1, <3>1, <3>2
  <2>2. CASE state' # state
    <3>1. PICK f \in {state.fetched[p], m.offset + 1}, commit \in BOOLEAN :
            /\ state.fetched[p] <= f /\ commit = (state.sinceCommit[p] + 1 >= CommitEvery)
            /\ state' = Fetched(m, f, commit)
      BY <2>2 DEF Fetching
    <3>2. CASE commit
      <4>1. AckCounts(p, m.offset, f, 0, f, FALSE)
        BY <2>0, <3>1 DEF AckCounts
      <4>2. state' = AfterAck(p, f, 0, f, FALSE)
        BY <1>1, <3>1, <3>2 DEF Fetched, LogTyped, AfterAck
      <4> QED
        BY <4>1, <4>2
    <3>3. CASE ~commit
      <4> DEFINE n == state.sinceCommit[p] + 1
      <4>1. n \in 0..CommitEvery - 1
        <5>1. ~(n >= CommitEvery)
          BY <3>1, <3>3
        <5> HIDE DEF p
        <5> QED
          BY <2>0, <5>1
      <4>2. AckCounts(p, m.offset, f, n, state.committed[p], state.stalled[p])
        BY <2>0, <3>1, <4>1 DEF AckCounts
      <4>3. state' = AfterAck(p, f, n, state.committed[p], state.stalled[p])
        BY <1>1, <2>0, <3>1, <3>3 DEF Fetched, LogTyped, AfterAck
      <4> QED
        BY <4>2, <4>3
    <3> QED
      BY <3>2, <3>3
  <2> QED
    BY <2>1, <2>2
<1> USE DEF AckCounts, AfterAck
<1> HIDE DEF p
<1>9. f \in Nat /\ d \in Nat /\ n \in Nat /\ f <= Len(state.log[p]) /\ d <= f
  <2>1. /\ state.fetched[p] \in Nat /\ state.committed[p] \in Nat /\ Len(state.log[p]) \in Nat
        /\ state.committed[p] <= state.fetched[p] /\ state.fetched[p] <= Len(state.log[p])
    BY <1>1, <1>3, LogFacts, OffsetFacts
  <2>2. n \in Nat
    BY <1>8 DEF Rules
  <2> QED
    BY <1>3, <1>4, <1>8, <2>1, <2>2
<1>10. /\ state'.log = state.log /\ state'.assignment = state.assignment
       /\ state'.delivered = state.delivered /\ state'.fetched = [state.fetched EXCEPT ![p] = f]
       /\ state'.committed = [state.committed EXCEPT ![p] = d]
       /\ state'.sinceCommit = [state.sinceCommit EXCEPT ![p] = n]
       /\ state'.stalled = [state.stalled EXCEPT ![p] = b] /\ state'.processed = state.processed
  BY <1>1, <1>8 DEF LogTyped
<1>11. LogTyped'
  <2>1. /\ [state.fetched EXCEPT ![p] = f] \in [Partition -> Nat]
        /\ [state.committed EXCEPT ![p] = d] \in [Partition -> Nat]
        /\ [state.sinceCommit EXCEPT ![p] = n] \in [Partition -> Nat]
        /\ [state.stalled EXCEPT ![p] = b] \in [Partition -> BOOLEAN]
    BY <1>1, <1>8, <1>9 DEF LogTyped
  <2>2. state' = [log |-> state.log, assignment |-> state.assignment, delivered |-> state.delivered,
                  fetched |-> [state.fetched EXCEPT ![p] = f],
                  committed |-> [state.committed EXCEPT ![p] = d],
                  sinceCommit |-> [state.sinceCommit EXCEPT ![p] = n],
                  stalled |-> [state.stalled EXCEPT ![p] = b], processed |-> state.processed]
    BY <1>1, <1>8 DEF LogTyped
  <2> QED
    BY <1>1, <2>1, <2>2 DEF LogTyped
<1>12. Grows
  BY <1>1, <1>10, LogFacts DEF Grows
<1>13. Kafka!TypeOK'
  <2> SUFFICES ASSUME NEW q \in Partition
               PROVE  /\ state'.assignment[q] \in Consumers /\ state'.stalled[q] \in BOOLEAN
                      /\ state'.sinceCommit[q] \in 0..CommitEvery - 1
                      /\ state'.delivered[q] = Len(state'.log[q])
                      /\ state'.committed[q] <= state'.fetched[q] /\ state'.fetched[q] <= state'.delivered[q]
    BY DEF Kafka!TypeOK, Consumers
  <2>1. /\ state.sinceCommit[q] \in 0..CommitEvery - 1 /\ state.delivered[q] = Len(state.log[q])
        /\ state.committed[q] <= state.fetched[q] /\ state.fetched[q] <= state.delivered[q]
    BY <1>1 DEF Kafka!TypeOK
  <2>2. state'.assignment[q] \in Consumers /\ state'.stalled[q] \in BOOLEAN
    BY <1>11 DEF LogTyped
  <2>3. CASE q = p
    <3>1. state'.sinceCommit[q] = n /\ state'.fetched[q] = f /\ state'.committed[q] = d
      BY <1>1, <1>10, <2>3 DEF LogTyped
    <3> QED
      BY <1>8, <1>9, <1>10, <2>1, <2>2, <2>3, <3>1
  <2>4. CASE q # p
    <3>1. /\ state'.sinceCommit[q] = state.sinceCommit[q] /\ state'.fetched[q] = state.fetched[q]
          /\ state'.committed[q] = state.committed[q]
      BY <1>1, <1>10, <2>4 DEF LogTyped
    <3> QED
      BY <1>10, <2>1, <2>2, <3>1
  <2> QED
    BY <2>3, <2>4
<1>14. FaultsTyped' /\ InputsTyped' /\ env'.dead = env.dead /\ (Orderly' => Orderly)
  BY <1>2, ArrivesFacts
<1>15. ASSUME Orderly' PROVE AllSound'
  <2>1. Orderly /\ AllSound /\ Done \subseteq Done'
    BY <1>1, <1>11, <1>12, <1>14, <1>15, DoneGrows DEF KafkaInv
  <2>2. Reached(Done, p, m.offset + 1)
    <3>1. l = <<l[1], "B">>
      BY <1>2, LogNodes
    <3> QED
      BY <1>2, <1>4, <2>1, <3>1 DEF AllSound, AcksDone, p
  <2>3. ASSUME NEW q \in Partition PROVE Reached(Done, q, state'.fetched[q])
    <3>1. Reached(Done, q, state.fetched[q])
      BY <2>1 DEF AllSound, FetchedDone
    <3>2. state'.fetched[q] = IF q = p THEN f ELSE state.fetched[q]
      BY <1>1, <1>10 DEF LogTyped
    <3> QED
      BY <1>8, <2>2, <3>1, <3>2
  <2>4. FetchedDone'
    <3>1. \A q \in Partition : Reached(Done', q, state'.fetched[q])
      BY <2>1, <2>3, CoverKept
    <3> QED
      BY <3>1 DEF FetchedDone
  <2>5. ASSUME NEW c \in Consumers PROVE To(c)' = To(c) /\ Coming(<<c, "B">>)' \subseteq Coming(<<c, "B">>)
    <3>1. <<"B", c>> \in Routes /\ <<c, "B">> \in Routes /\ <<"B", c>> # l
      BY <1>2, LogNodes
    <3> QED
      BY <1>6, <1>7, <3>1 DEF To
  <2> QED
    BY <1>10, <1>14, <2>1, <2>4, <2>5, QuietSound
<1> QED
  BY <1>6, <1>7, <1>11, <1>12, <1>13, <1>14, <1>15, KafkaKeeps

(* Steps that leave the state alone. *)
LEMMA StillKeeps ==
  ASSUME KafkaInv, state' = state, QueueTyped', FaultsTyped', InputsTyped',
         \A l \in Routes : \A m \in Coming(l)' : m \in Coming(l) \/ AddressRight(l, m)',
         Orderly' => AllSound'
  PROVE  KafkaInv'
<1>1. LogTyped /\ Kafka!TypeOK
  BY DEF KafkaInv
<1>2. LogTyped' /\ Kafka!TypeOK'
  BY <1>1 DEF LogTyped, Kafka!TypeOK
<1>3. Grows
  BY <1>1, LogFacts DEF Grows
<1> QED
  BY <1>2, <1>3, KafkaKeeps

LEMMA StillSound ==
  ASSUME KafkaInv, state' = state, Fewer, Orderly',
         \A c \in Consumers \ env'.dead : To(c)' = To(c),
         \A c \in Consumers : Coming(<<c, "B">>)' \subseteq Coming(<<c, "B">>)
  PROVE  AllSound'
<1>1. Orderly /\ env.dead \subseteq env'.dead /\ FetchedDone
  BY DEF Fewer, KafkaInv, AllSound
<1>2. Done' = Done
  BY DEF Done, Kafka!Processed
<1>3. FetchedDone'
  BY <1>1, <1>2 DEF FetchedDone
<1> QED
  BY <1>1, <1>2, <1>3, QuietSound

LEMMA ProduceKeeps ==
  ASSUME KafkaInv, NEW m \in Publishes, Producing(m)
  PROVE  KafkaInv'
<1>1. QueueTyped /\ FaultsTyped /\ InputsTyped
  BY DEF KafkaInv
<1>2. /\ state' = state /\ env' = env /\ FaultsTyped' /\ InputsTyped'
      /\ net' = [links |-> Sent(net.links, "P", "B", m), timers |-> net.timers]
  BY <1>1 DEF Producing, FaultsTyped, InputsTyped
<1>3. /\ QueueTyped'
      /\ Link(<<"P", "B">>)' = Append(Link(<<"P", "B">>), m)
      /\ \A x \in Routes : x # <<"P", "B">> => Link(x)' = Link(x)
  <2>1. <<"P", "B">> \in Routes /\ m \in Messages
    BY LogNodes DEF Messages
  <2>2. net.links \in [Routes -> Seq(Messages)] /\ TimersTyped(net.timers)
    BY <1>1 DEF QueueTyped
  <2>3. QueueTyped' /\ \A x \in Routes : Link(x)' = IF x = <<"P", "B">> THEN Append(net.links[x], m) ELSE net.links[x]
    BY <1>2, <2>1, <2>2, SentLinks
  <2> QED
    BY <2>1, <2>3 DEF Link
<1>4. ASSUME NEW x \in Routes, NEW y \in Coming(x)' PROVE y \in Coming(x) \/ AddressRight(x, y)'
  <2>1. CASE x = <<"P", "B">>
    <3>1. Items(Append(Link(x), m)) \subseteq Items(Link(x)) \cup {m}
      BY <1>1, QueuePieces, ItemsOf DEF Messages
    <3>2. y \in Coming(x) \/ y = m
      BY <1>3, <2>1, <3>1 DEF Coming, Items
    <3>3. m \notin Deliveries /\ m \notin Acks
      BY Kinds DEF Messages
    <3> QED
      BY <2>1, <3>2, <3>3 DEF AddressRight
  <2>2. CASE x # <<"P", "B">>
    BY <1>3, <2>2 DEF Coming
  <2> QED
    BY <2>1, <2>2
<1>5. ASSUME NEW c \in Consumers PROVE To(c)' = To(c) /\ Coming(<<c, "B">>)' \subseteq Coming(<<c, "B">>)
  <2>1. /\ <<"B", c>> \in Routes /\ <<c, "B">> \in Routes
        /\ <<"B", c>> # <<"P", "B">> /\ <<c, "B">> # <<"P", "B">>
    BY LogNodes
  <2> QED
    BY <1>3, <2>1 DEF To, Coming
<1>6. Fewer
  BY <1>2 DEF Fewer, Orderly
<1>7. Orderly' => AllSound'
  BY <1>2, <1>5, <1>6, StillSound
<1> QED
  BY <1>2, <1>3, <1>4, <1>7, StillKeeps

LEMMA CheckingKeeps ==
  ASSUME KafkaInv, state' = state, FaultsTyped', InputsTyped', Fewer, NEW timers, TimersTyped(timers),
         net' = [links |-> net.links, timers |-> timers]
  PROVE  KafkaInv'
<1>1. QueueTyped
  BY DEF KafkaInv
<1>2. QueueTyped' /\ \A x \in Routes : Link(x)' = Link(x)
  BY <1>1 DEF QueueTyped, Link
<1>3. \A x \in Routes : Coming(x)' = Coming(x)
  BY <1>2 DEF Coming
<1>4. \A c \in Consumers : To(c)' = To(c) /\ Coming(<<c, "B">>)' \subseteq Coming(<<c, "B">>)
  BY <1>2, <1>3, LogNodes DEF To
<1>5. Orderly' => AllSound'
  BY <1>4, StillSound
<1> QED
  BY <1>2, <1>3, <1>5, StillKeeps

(* A copy comes last on its link. *)
LEMMA CopySound ==
  ASSUME KafkaInv, state' = state, Fewer, Orderly', NEW l \in Routes, NEW i \in DOMAIN Link(l),
         Link(l)' = Append(Link(l), Link(l)[i]), \A x \in Routes : x # l => Link(x)' = Link(x),
         \A x \in Routes : Coming(x)' \subseteq Coming(x)
  PROVE  AllSound'
<1>1. Orderly /\ env.dead \subseteq env'.dead /\ AllSound /\ LogTyped /\ QueueTyped /\ Addressed
  BY DEF Fewer, KafkaInv
<1> DEFINE done == Done
<1>2. Done' = Done
  BY DEF Done, Kafka!Processed
<1>3. FetchedDone'
  BY <1>1, <1>2 DEF FetchedDone, AllSound
<1>4. AcksDone'
  BY <1>1, <1>2, LogNodes DEF AcksDone, AllSound
<1>5. ASSUME NEW c \in Consumers, c \notin env'.dead
      PROVE  /\ InOrderFor(done, To(c)')
             /\ \A p, k : Covered(done, To(c), p, k, Len(To(c))) => Covered(done, To(c)', p, k, Len(To(c)'))
  <2>1. InOrderFor(done, To(c)) /\ To(c) \in Seq(Deliveries) /\ <<"B", c>> \in Routes
    BY <1>1, <1>5, ToTyped, LogNodes DEF AllSound, OrderOf
  <2>2. CASE l = <<"B", c>>
    <3>1. To(c)' = Append(To(c), To(c)[i]) /\ i \in DOMAIN To(c)
      BY <2>2 DEF To
    <3> HIDE DEF done
    <3> QED
      BY <2>1, <3>1, OrderCopied
  <2>3. CASE l # <<"B", c>>
    <3>1. To(c)' = To(c)
      BY <2>1, <2>3 DEF To
    <3> HIDE DEF done
    <3> QED
      BY <2>1, <3>1
  <2> QED
    BY <2>2, <2>3
<1>6. ASSUME NEW c \in Consumers PROVE OrderOf(c)'
  BY <1>2, <1>5, <1>6 DEF OrderOf
<1>7. ASSUME NEW q \in Partition, NEW d, NEW o, d = state.assignment[q], o = state.delivered[q],
             d \notin env'.dead
      PROVE  Covered(done, To(d)', q, o, Len(To(d)'))
  <2>1. d \in Consumers /\ d \notin env.dead /\ Covered(done, To(d), q, o, Len(To(d)))
    BY <1>1, <1>7, LogFacts DEF AllSound, PushedOf
  <2> HIDE DEF done
  <2> QED
    BY <1>5, <1>7, <2>1
<1>8. ASSUME NEW q \in Partition PROVE PushedOf(q)'
  <2>1. state'.assignment[q] \notin env'.dead =>
          Covered(done, net'.links[<<"B", state'.assignment[q]>>], q, state'.delivered[q],
                  Len(net'.links[<<"B", state'.assignment[q]>>]))
    <3> HIDE DEF done
    <3> QED
      BY <1>7 DEF To, Link
  <2> QED
    BY <1>2, <2>1 DEF PushedOf, To, Link
<1> QED
  BY <1>3, <1>4, <1>6, <1>8 DEF AllSound

LEMMA DisturbKeeps ==
  ASSUME KafkaInv, Disturbing
  PROVE  KafkaInv'
<1>1. /\ QueueTyped /\ FaultsTyped /\ InputsTyped
      /\ net.links \in [Routes -> Seq(Messages)] /\ TimersTyped(net.timers)
  BY DEF KafkaInv, QueueTyped
<1>2. state' = state /\ FaultsTyped' /\ InputsTyped'
  BY <1>1 DEF Disturbing, InputsTyped
<1>3. CASE ~Orderly' /\ net' = net
  <2>1. QueueTyped' /\ \A x \in Routes : Coming(x)' = Coming(x)
    BY <1>1, <1>3 DEF QueueTyped, TimersTyped, Coming, Link
  <2> QED
    BY <1>2, <1>3, <2>1, StillKeeps
<1>4. ASSUME Fewer, NEW timers, TimersTyped(timers), net' = [links |-> net.links, timers |-> timers]
      PROVE  KafkaInv'
  BY <1>2, <1>4, CheckingKeeps
<1>5. ASSUME NEW l \in Routes, NEW i \in DOMAIN Link(l),
             net' = [links |-> Removed(net.links, l, i), timers |-> net.timers]
      PROVE  /\ QueueTyped' /\ \A x \in Routes : x # l => Link(x)' = Link(x)
             /\ \A x \in Routes : Coming(x)' \subseteq Coming(x)
  <2> DEFINE rest == Removed(net.links, l, i)
  <2>1. /\ \A x \in Routes : rest[x] = IF x = l THEN Without(Link(l), i) ELSE Link(x)
        /\ Link(l) \in Seq(Messages)
    BY <1>1, RestLinks, QueuePieces
  <2>2. rest \in [Routes -> Seq(Messages)]
    <3>1. Without(Link(l), i) \in Seq(Messages)
      BY <2>1, WithoutIs
    <3> QED
      BY <1>1, <3>1 DEF Removed, Link
  <2>3. /\ QueueTyped'
        /\ Link(l)' = Without(Link(l), i) /\ \A x \in Routes : x # l => Link(x)' = Link(x)
    BY <1>1, <1>5, <2>1, <2>2 DEF QueueTyped, Link
  <2>4. Items(Without(Link(l), i)) \subseteq Items(Link(l))
    BY <2>1, ItemsOf
  <2> HIDE DEF rest
  <2>5. Coming(l)' \subseteq Coming(l)
    BY <2>3, <2>4 DEF Coming, Items
  <2>6. \A x \in Routes : x # l => Coming(x)' = Coming(x)
    BY <2>3 DEF Coming
  <2> QED
    BY <2>3, <2>5, <2>6
<1>6. ASSUME ~Orderly', NEW l \in Routes, NEW i \in DOMAIN Link(l),
             net' = [links |-> Removed(net.links, l, i), timers |-> net.timers]
      PROVE  KafkaInv'
  <2>1. QueueTyped' /\ \A x \in Routes : Coming(x)' \subseteq Coming(x)
    BY <1>5, <1>6
  <2> QED
    BY <1>2, <1>6, <2>1, StillKeeps
<1>7. ASSUME Fewer, NEW l \in Routes, NEW i \in DOMAIN Link(l), l[2] \in env'.dead,
             net' = [links |-> Removed(net.links, l, i), timers |-> net.timers]
      PROVE  KafkaInv'
  <2>1. /\ QueueTyped' /\ \A x \in Routes : Coming(x)' \subseteq Coming(x)
        /\ \A x \in Routes : x # l => Link(x)' = Link(x)
    BY <1>5, <1>7
  <2>2. ASSUME NEW c \in Consumers \ env'.dead PROVE To(c)' = To(c)
    <3>1. <<"B", c>> \in Routes /\ <<"B", c>> # l
      BY <1>7, LogNodes
    <3> QED
      BY <2>1, <3>1 DEF To
  <2>3. \A c \in Consumers : Coming(<<c, "B">>)' \subseteq Coming(<<c, "B">>)
    BY <2>1, LogNodes
  <2>4. Orderly' => AllSound'
    BY <1>2, <1>7, <2>2, <2>3, StillSound
  <2> QED
    BY <1>2, <2>1, <2>4, StillKeeps
<1>8. ASSUME Fewer, NEW l \in Routes, NEW i \in DOMAIN Link(l),
             net' = [links |-> Copied(net.links, l, i), timers |-> net.timers]
      PROVE  KafkaInv'
  <2> DEFINE more == Append(Link(l), Link(l)[i])
  <2>1. Link(l) \in Seq(Messages) /\ Link(l)[i] \in Messages /\ Link(l)[i] \in Items(Link(l))
    BY <1>1, QueuePieces DEF Items
  <2>2. more \in Seq(Messages) /\ Items(more) \subseteq Items(Link(l))
    <3>1. more \in Seq(Messages)
      BY <2>1, AppendProperties
    <3>2. Items(more) \subseteq Items(Link(l)) \cup {Link(l)[i]}
      BY <2>1, ItemsOf
    <3> QED
      BY <2>1, <3>1, <3>2
  <2>3. net'.links = [net.links EXCEPT ![l] = more] /\ net' = [links |-> net'.links, timers |-> net.timers]
    BY <1>8 DEF Copied, Link
  <2> HIDE DEF more
  <2>4. QueueTyped' /\ Link(l)' = more /\ \A x \in Routes : x # l => Link(x)' = Link(x)
    BY <1>1, <2>2, <2>3 DEF QueueTyped, Link
  <2>5. Coming(l)' \subseteq Coming(l)
    BY <2>2, <2>4 DEF Coming, Items
  <2>6. \A x \in Routes : Coming(x)' \subseteq Coming(x)
    BY <2>4, <2>5 DEF Coming
  <2>7. Orderly' => AllSound'
    BY <1>2, <1>8, <2>4, <2>6, CopySound DEF more
  <2> QED
    BY <1>2, <2>4, <2>6, <2>7, StillKeeps
<1> QED
  BY <1>3, <1>4, <1>6, <1>7, <1>8 DEF Disturbing

-----------------------------------------------------------------------------
LEMMA KafkaInit == Rules /\ Kafka!Init => KafkaInv
<1> SUFFICES ASSUME Rules, Kafka!Init PROVE KafkaInv
  OBVIOUS
<1>1. /\ state = [log |-> [p \in Partition |-> <<>>],
                  assignment |-> [p \in Partition |-> IF p = "p0" THEN "C1" ELSE "C2"],
                  delivered |-> Kafka!Zero, fetched |-> Kafka!Zero, committed |-> Kafka!Zero,
                  sinceCommit |-> Kafka!Zero, stalled |-> [p \in Partition |-> FALSE],
                  processed |-> [c \in Consumers |-> {}]]
      /\ net = [links |-> [l \in Routes |-> <<>>], timers |-> [t \in {} |-> 0]]
      /\ env = [dead |-> {}, falls |-> [n \in Nodes |-> 0], kills |-> 0, revives |-> 0,
                drops |-> 0, dups |-> 0, late |-> 0, lost |-> 0]
      /\ hist = [produced |-> 0, moves |-> 0]
  BY DEF Kafka!Init, Kafka!NoEvents, Kafka!Calm, Consumers, Routes, Nodes
<1>2. LogTyped
  <2>1. /\ [p \in Partition |-> <<>>] \in [Partition -> Seq(Nat)]
        /\ [p \in Partition |-> IF p = "p0" THEN "C1" ELSE "C2"] \in [Partition -> Consumers]
        /\ Kafka!Zero \in [Partition -> Nat] /\ [p \in Partition |-> FALSE] \in [Partition -> BOOLEAN]
        /\ [c \in Consumers |-> {}] \in [Consumers -> SUBSET Nat]
    BY LogNodes DEF Kafka!Zero
  <2> QED
    BY <1>1, <2>1 DEF LogTyped
<1>3. QueueTyped /\ \A l \in Routes : Link(l) = <<>> /\ DOMAIN Link(l) = {}
  <2>1. [l \in Routes |-> <<>>] \in [Routes -> Seq(Messages)]
    OBVIOUS
  <2>2. TimersTyped([t \in {} |-> 0])
    BY DEF TimersTyped
  <2> QED
    BY <1>1, <2>1, <2>2 DEF QueueTyped, Link
<1>4. FaultsTyped /\ InputsTyped
  BY <1>1 DEF FaultsTyped, InputsTyped
<1>5. Kafka!TypeOK
  <2>1. 0 \in 0..CommitEvery - 1 /\ Len(<<>>) = 0
    BY DEF Rules
  <2>2. ASSUME NEW p \in Partition
        PROVE  state.assignment[p] \in Kafka!Consumers /\ state.stalled[p] \in BOOLEAN
    BY <1>1, LogNodes DEF Consumers
  <2>3. ASSUME NEW p \in Partition
        PROVE  /\ state.sinceCommit[p] = 0 /\ state.committed[p] = 0 /\ state.fetched[p] = 0
               /\ state.delivered[p] = 0 /\ state.log[p] = <<>>
    BY <1>1 DEF Kafka!Zero
  <2>4. ASSUME NEW p \in Partition
        PROVE  /\ state.sinceCommit[p] \in 0..CommitEvery - 1 /\ state.delivered[p] = Len(state.log[p])
               /\ state.committed[p] <= state.fetched[p] /\ state.fetched[p] <= state.delivered[p]
    BY <2>1, <2>3
  <2> QED
    BY <2>2, <2>4 DEF Kafka!TypeOK
<1>6. Addressed
  BY <1>3 DEF Addressed, Coming
<1>7. AllSound
  <2>1. \A p \in Partition : state.fetched[p] = 0 /\ state.delivered[p] = 0 /\ state.assignment[p] \in Consumers
    BY <1>1, LogNodes DEF Kafka!Zero
  <2>2. \A done, p, s, k : Reached(done, p, 0) /\ Covered(done, s, p, 0, k)
    BY DEF Reached, Covered
  <2>3. \A c \in Consumers : DOMAIN To(c) = {} /\ Coming(<<c, "B">>) = {}
    BY <1>3, LogNodes DEF To, Coming
  <2>4. FetchedDone /\ AcksDone
    BY <2>1, <2>2, <2>3 DEF FetchedDone, AcksDone
  <2>5. \A c \in Consumers : OrderOf(c)
    BY <2>3 DEF OrderOf, InOrderFor
  <2>6. \A p \in Partition : PushedOf(p)
    BY <2>1, <2>2 DEF PushedOf
  <2> QED
    BY <2>4, <2>5, <2>6 DEF AllSound
<1> QED
  BY <1>2, <1>3, <1>4, <1>5, <1>6, <1>7 DEF KafkaInv

LEMMA KafkaNext ==
  ASSUME Rules, KafkaInv, [Kafka!Next]_Kafka!vars
  PROVE  KafkaInv'
<1>1. CASE Kafka!Produce
  BY <1>1, ProduceStep, ProduceKeeps
<1>2. CASE \/ Kafka!Receive("publish", Kafka!OnPublish) /\ UNCHANGED hist
           \/ Kafka!Receive("deliver", Kafka!OnDeliver) /\ UNCHANGED hist
           \/ Kafka!Receive("fetched", Kafka!OnFetched) /\ UNCHANGED hist
  <2>1. PICK l \in Routes : \E i \in DOMAIN Link(l) :
          LET m == Link(l)[i]
          IN \/ m.kind = "publish" /\ Arrived(l, i, Kafka!OnPublish(l[1], l[2], m))
             \/ m.kind = "deliver" /\ Arrived(l, i, Kafka!OnDeliver(l[1], l[2], m))
             \/ m.kind = "fetched" /\ Arrived(l, i, Kafka!OnFetched(l[1], l[2], m))
    BY <1>2, LogReceive DEF KafkaInv
  <2>2. PICK i \in DOMAIN Link(l) :
          LET m == Link(l)[i]
          IN \/ m.kind = "publish" /\ Arrived(l, i, Kafka!OnPublish(l[1], l[2], m))
             \/ m.kind = "deliver" /\ Arrived(l, i, Kafka!OnDeliver(l[1], l[2], m))
             \/ m.kind = "fetched" /\ Arrived(l, i, Kafka!OnFetched(l[1], l[2], m))
    BY <2>1
  <2> DEFINE got == Link(l)[i]
  <2>6. PICK m : m = got
    OBVIOUS
  <2>3. CASE m.kind = "publish" /\ Arrived(l, i, Kafka!OnPublish(l[1], l[2], m))
    <3>1. m \in Publishes /\ \E p \in Partition : Publishing(l, i, m, p)
      BY <2>6, <2>3, PublishStep
    <3>2. PICK p \in Partition : Publishing(l, i, m, p)
      BY <3>1
    <3>3. PICK c : c = state.assignment[p]
      OBVIOUS
    <3> QED
      BY <2>6, <3>1, <3>2, <3>3, PublishKeeps
  <2>4. CASE m.kind = "deliver" /\ Arrived(l, i, Kafka!OnDeliver(l[1], l[2], m))
    <3>1. m \in Deliveries /\ \E ack \in Acks : Delivering(l, i, m, ack)
      BY <2>6, <2>4, DeliverStep
    <3> QED
      BY <2>6, <3>1, DeliverKeeps
  <2>5. CASE m.kind = "fetched" /\ Arrived(l, i, Kafka!OnFetched(l[1], l[2], m))
    <3>1. m \in Acks /\ Fetching(l, i, m)
      BY <2>6, <2>5, FetchStep
    <3> QED
      BY <2>6, <3>1, FetchKeeps
  <2> QED
    BY <2>2, <2>3, <2>4, <2>5, <2>6
<1>3. CASE Kafka!CheckSession
  <2>1. InputsTyped' /\ (Checking \/ \E p \in Partition : Moving(p))
    BY <1>3, CheckStep
  <2>2. CASE Checking
    <3>1. env' = env /\ state' = state /\ FaultsTyped
      BY <2>2 DEF Checking, KafkaInv
    <3>2. FaultsTyped' /\ Fewer
      BY <3>1 DEF FaultsTyped, Fewer, Orderly
    <3> QED
      BY <2>1, <2>2, <3>1, <3>2, CheckingKeeps DEF Checking
  <2>3. CASE \E p \in Partition : Moving(p)
    <3>1. PICK p \in Partition : Moving(p)
      BY <2>3
    <3>2. PICK c : c = Kafka!Other(state.assignment[p])
      OBVIOUS
    <3> QED
      BY <2>1, <3>1, <3>2, MoveKeeps
  <2> QED
    BY <2>1, <2>2, <2>3
<1>4. CASE Kafka!Fault
  BY <1>4, DisturbStep, DisturbKeeps
<1>5. CASE UNCHANGED Kafka!vars
  <2>1. state' = state /\ net' = net /\ env' = env /\ hist' = hist
    BY <1>5 DEF Kafka!vars
  <2>2. QueueTyped /\ FaultsTyped /\ InputsTyped
    BY DEF KafkaInv
  <2>3. FaultsTyped' /\ InputsTyped' /\ Fewer
    BY <2>1, <2>2 DEF FaultsTyped, InputsTyped, Fewer, Orderly
  <2>4. TimersTyped(net.timers) /\ net' = [links |-> net.links, timers |-> net.timers]
    BY <2>1, <2>2 DEF QueueTyped
  <2> QED
    BY <2>1, <2>3, <2>4, CheckingKeeps
<1> QED
  BY <1>1, <1>2, <1>3, <1>4, <1>5 DEF Kafka!Next

LEMMA KafkaMeans == KafkaInv => Kafka!KafkaSound
<1> SUFFICES ASSUME KafkaInv, Orderly,
                    NEW p \in Partition, NEW o \in 0..state.committed[p] - 1
             PROVE  state.log[p][o + 1] \in Kafka!Processed
  BY DEF KafkaInv, Orderly, Kafka!KafkaSound, Kafka!CommitSound, Kafka!CommittedProcessed
<1>1. /\ state.committed[p] \in Nat /\ state.fetched[p] \in Nat /\ state.committed[p] <= state.fetched[p]
  BY LogFacts, OffsetFacts DEF KafkaInv
<1>2. o \in Nat /\ o < state.fetched[p]
  BY <1>1
<1>3. <<p, o>> \in Done
  BY <1>2 DEF KafkaInv, AllSound, FetchedDone, Reached
<1> QED
  BY <1>3 DEF Done

(* While links keep their order, lose nothing and nobody comes back, the   *)
(* commit of a partition stays below what was processed, and it never      *)
(* passes how far the acks came nor they the end of the log: for any       *)
(* partitions, any number of messages, of copies and of consumers killed,  *)
(* and any number of acks between two commits (kafkalog.ts:118-163).       *)
THEOREM KafkaCorrect ==
  ASSUME CommitEvery \in Nat \ {0}, \A id \in Nat : PartitionOf(id) \in Partition
  PROVE  LabSpec => []KafkaSound
<1> DEFINE Inv == lab = "kafka" => KafkaInv
<1>1. Rules
  BY DEF Rules
<1>2. LabInit => Inv
  BY <1>1, KafkaInit DEF LabInit
<1>3. Inv /\ [LabNext]_<<lab, state, net, env, hist>> => Inv'
  <2> SUFFICES ASSUME Inv, [LabNext]_<<lab, state, net, env, hist>>, lab' = "kafka"
               PROVE  KafkaInv'
    OBVIOUS
  <2>1. lab = "kafka" /\ [Kafka!Next]_Kafka!vars
    BY DEF LabNext, Kafka!vars
  <2> QED
    BY <1>1, <2>1, KafkaNext
<1>4. Inv => KafkaSound
  BY KafkaMeans DEF KafkaSound
<1> QED
  BY <1>2, <1>3, <1>4, PTL DEF LabSpec
=============================================================================
