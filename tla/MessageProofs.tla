--------------------------- MODULE MessageProofs ---------------------------
(***************************************************************************)
(* Proofs about the ring, the queue, the channel and the page of Cluster,  *)
(* for any of their constants, and what they need of the engine, its       *)
(* faults and sums.                                                        *)
(***************************************************************************)
EXTENDS ClusterProofs

-----------------------------------------------------------------------------
(* What the other labs need of the engine: the queue as links of messages  *)
(* of M and counted timers, and the counts of faults.                      *)

Queue(n, L, M) ==
  /\ n = [links |-> n.links, timers |-> n.timers]
  /\ n.links \in [L -> Seq(M)] /\ n.timers \in [DOMAIN n.timers -> Nat \ {0}]

Counts ==
  /\ env = [dead |-> env.dead, falls |-> env.falls, kills |-> env.kills, revives |-> env.revives,
            drops |-> env.drops, dups |-> env.dups, late |-> env.late, lost |-> env.lost]
  /\ {env.kills, env.dups, env.late, env.lost} \subseteq Nat
  /\ env.kills = 0 => env.dead = {}

LEMMA ItemsSent ==
  ASSUME NEW L, NEW M, NEW links \in [L -> Seq(M)], NEW n, NEW to, <<n, to>> \in L, NEW m \in M
  PROVE  /\ Sent(links, n, to, m) \in [L -> Seq(M)]
         /\ \A k \in L : Sent(links, n, to, m)[k] = IF k = <<n, to>> THEN Append(links[k], m) ELSE links[k]
         /\ \A k \in L : Items(Sent(links, n, to, m)[k]) \subseteq
                           Items(links[k]) \cup (IF k = <<n, to>> THEN {m} ELSE {})
<1> DEFINE l == <<n, to>>
           new == Sent(links, n, to, m)
<1>1. links[l] \in Seq(M) /\ Append(links[l], m) \in Seq(M)
  BY AppendProperties
<1>2. new = [links EXCEPT ![l] = Append(links[l], m)]
  BY DEF Sent
<1> HIDE DEF new
<1>3. \A k \in L : new[k] = IF k = l THEN Append(links[k], m) ELSE links[k]
  BY <1>2
<1>4. Items(Append(links[l], m)) \subseteq Items(links[l]) \cup {m}
  BY <1>1, ItemsOf
<1>5. new \in [L -> Seq(M)]
  BY <1>1, <1>2
<1> QED
  BY <1>3, <1>4, <1>5 DEF new

LEMMA ItemsRemoved ==
  ASSUME NEW L, NEW M, NEW links \in [L -> Seq(M)], NEW l \in L, NEW i \in DOMAIN links[l]
  PROVE  /\ Removed(links, l, i) \in [L -> Seq(M)]
         /\ \A k \in L : Removed(links, l, i)[k] = IF k = l THEN Without(links[k], i) ELSE links[k]
         /\ \A k \in L : Items(Removed(links, l, i)[k]) \subseteq Items(links[k])
<1> DEFINE new == Removed(links, l, i)
<1>1. links[l] \in Seq(M) /\ Without(links[l], i) \in Seq(M)
  BY WithoutIs
<1>2. new = [links EXCEPT ![l] = Without(links[l], i)]
  BY DEF Removed
<1> HIDE DEF new
<1>3. \A k \in L : new[k] = IF k = l THEN Without(links[k], i) ELSE links[k]
  BY <1>2
<1>4. Items(Without(links[l], i)) \subseteq Items(links[l])
  BY <1>1, ItemsOf
<1>5. new \in [L -> Seq(M)]
  BY <1>1, <1>2
<1> QED
  BY <1>3, <1>4, <1>5 DEF new

LEMMA ItemsCopied ==
  ASSUME NEW L, NEW M, NEW links \in [L -> Seq(M)], NEW l \in L, NEW i \in DOMAIN links[l]
  PROVE  /\ Copied(links, l, i) \in [L -> Seq(M)]
         /\ \A k \in L : Copied(links, l, i)[k] =
                           IF k = l THEN Append(links[k], links[k][i]) ELSE links[k]
         /\ \A k \in L : Items(Copied(links, l, i)[k]) \subseteq Items(links[k])
<1> DEFINE new == Copied(links, l, i)
           m == links[l][i]
<1>1. links[l] \in Seq(M) /\ m \in M /\ m \in Items(links[l])
  BY ElementOfSeq, LenProperties DEF Items
<1>2. Append(links[l], m) \in Seq(M)
  BY <1>1, AppendProperties
<1>3. new = [links EXCEPT ![l] = Append(links[l], m)]
  BY DEF Copied
<1>4. Items(Append(links[l], m)) \subseteq Items(links[l])
  <2> HIDE DEF m
  <2> QED
    BY <1>1, ItemsOf
<1> HIDE DEF new
<1>5. \A k \in L : new[k] = IF k = l THEN Append(links[k], links[k][i]) ELSE links[k]
  BY <1>3
<1>6. new \in [L -> Seq(M)]
  <2> HIDE DEF m
  <2> QED
    BY <1>2, <1>3
<1> QED
  BY <1>4, <1>5, <1>6 DEF new

(* A timer set, and one taken away. *)
OneMore(timers, x) ==
  [t \in DOMAIN timers \cup {x} |-> Count(timers, t) + (IF t = x THEN 1 ELSE 0)]

LEMMA TimerSet ==
  ASSUME NEW timers, NEW n, NEW x
  PROVE  Engine!WithTimers(timers, n, <<x>>) = OneMore(timers, <<n, x>>)
<1> DEFINE set == <<x>>
           Times(t) == {k \in DOMAIN set : <<n, set[k]>> = t}
           E == DOMAIN timers \cup {<<n, x>>}
           new == Engine!WithTimers(timers, n, set)
<1>1. DOMAIN set = {1} /\ set[1] = x
  OBVIOUS
<1>2. {<<n, set[k]>> : k \in DOMAIN set} = {<<n, x>>}
  BY <1>1
<1>3. new = [t \in E |-> Count(timers, t) + Cardinality(Times(t))]
  BY <1>2, TimersSet
<1>4. \A t : Times(t) = IF t = <<n, x>> THEN {1} ELSE {}
  BY <1>1
<1>5. Cardinality({1}) = 1 /\ Cardinality({}) = 0
  BY FS_EmptySet, FS_Singleton
<1>6. \A t : Cardinality(Times(t)) = IF t = <<n, x>> THEN 1 ELSE 0
  BY <1>4, <1>5
<1> QED
  BY <1>3, <1>6 DEF OneMore

LEMMA TimerAdded ==
  ASSUME NEW timers, timers \in [DOMAIN timers -> Nat \ {0}], NEW n, NEW x
  PROVE  Engine!WithTimers(timers, n, <<x>>) \in [DOMAIN timers \cup {<<n, x>>} -> Nat \ {0}]
<1> DEFINE D == DOMAIN timers \cup {<<n, x>>}
           new == Engine!WithTimers(timers, n, <<x>>)
<1>1. \A t \in D : Count(timers, t) + (IF t = <<n, x>> THEN 1 ELSE 0) \in Nat \ {0}
  BY DEF Count
<1>2. new = OneMore(timers, <<n, x>>)
  BY TimerSet
<1> HIDE DEF new
<1>3. new \in [D -> Nat \ {0}]
  BY <1>1, <1>2 DEF OneMore, D
<1> QED
  BY <1>3 DEF new, D

LEMMA TimerCounted ==
  ASSUME NEW timers, timers \in [DOMAIN timers -> Nat \ {0}], NEW n, NEW x, NEW t
  PROVE  Count(Engine!WithTimers(timers, n, <<x>>), t) = Count(timers, t) + (IF t = <<n, x>> THEN 1 ELSE 0)
<1>1. Count(timers, t) \in Nat /\ (t \in DOMAIN timers <=> Count(timers, t) # 0)
  BY DEF Count
<1> DEFINE new == Engine!WithTimers(timers, n, <<x>>)
           D == DOMAIN timers \cup {<<n, x>>}
<1>2. new = OneMore(timers, <<n, x>>)
  BY TimerSet
<1> HIDE DEF new
<1>3. Count(new, t) = IF t \in D THEN Count(timers, t) + (IF t = <<n, x>> THEN 1 ELSE 0) ELSE 0
  BY <1>2 DEF Count, OneMore
<1> QED
  BY <1>1, <1>3 DEF new

LEMMA TimerTaken ==
  ASSUME NEW timers, timers \in [DOMAIN timers -> Nat \ {0}], NEW t \in DOMAIN timers
  PROVE  LET new == Engine!WithoutTimer(timers, t)
         IN /\ new \in [DOMAIN new -> Nat \ {0}]
            /\ DOMAIN new \subseteq DOMAIN timers /\ DOMAIN timers \ {t} \subseteq DOMAIN new
            /\ \A x : Count(new, x) = Count(timers, x) - (IF x = t THEN 1 ELSE 0)
<1> DEFINE new == Engine!WithoutTimer(timers, t)
<1>1. CASE timers[t] > 1
  <2>1. new = [timers EXCEPT ![t] = timers[t] - 1] /\ timers[t] - 1 \in Nat \ {0}
    BY <1>1 DEF Engine!WithoutTimer
  <2> HIDE DEF new
  <2>2. DOMAIN new = DOMAIN timers /\ new \in [DOMAIN timers -> Nat \ {0}]
    BY <2>1
  <2>3. \A x : Count(new, x) = Count(timers, x) - (IF x = t THEN 1 ELSE 0)
    BY <2>1, <2>2 DEF Count
  <2> QED
    BY <2>2, <2>3 DEF new
<1>2. CASE ~(timers[t] > 1)
  <2>1. new = [x \in DOMAIN timers \ {t} |-> timers[x]] /\ timers[t] = 1
    BY <1>2 DEF Engine!WithoutTimer
  <2> HIDE DEF new
  <2>2. DOMAIN new = DOMAIN timers \ {t} /\ new \in [DOMAIN timers \ {t} -> Nat \ {0}]
    BY <2>1
  <2>3. \A x : Count(new, x) = Count(timers, x) - (IF x = t THEN 1 ELSE 0)
    BY <2>1, <2>2 DEF Count
  <2> QED
    BY <2>2, <2>3 DEF new
<1> QED
  BY <1>1, <1>2

(* What changes of a queue. *)
LEMMA QueueChanges ==
  ASSUME NEW n, NEW L, NEW M, Queue(n, L, M)
  PROVE  /\ \A l \in L : \A i : [n EXCEPT !.links[l] = Engine!AllBut(@, i)] =
                              [links |-> Removed(n.links, l, i), timers |-> n.timers]
         /\ \A l \in L : \A i : [n EXCEPT !.links[l] = Append(@, @[i])] =
                              [links |-> Copied(n.links, l, i), timers |-> n.timers]
         /\ \A t : [n EXCEPT !.timers = Engine!WithoutTimer(@, t)] =
                     [links |-> n.links, timers |-> Engine!WithoutTimer(n.timers, t)]
<1>1. n = [links |-> n.links, timers |-> n.timers]
  BY DEF Queue
<1>2. \A x, a, b, c, l : x = [links |-> a, timers |-> b] =>
        /\ [x EXCEPT !.links[l] = c] = [links |-> [a EXCEPT ![l] = c], timers |-> b]
        /\ [x EXCEPT !.timers = c] = [links |-> a, timers |-> c]
  OBVIOUS
<1>3. ASSUME NEW l \in L, NEW i
      PROVE  [n EXCEPT !.links[l] = Engine!AllBut(@, i)] =
               [links |-> Removed(n.links, l, i), timers |-> n.timers]
  <2> DEFINE c == Engine!AllBut(n.links[l], i)
  <2> HIDE DEF c
  <2>1. [n EXCEPT !.links[l] = c] = [links |-> [n.links EXCEPT ![l] = c], timers |-> n.timers]
    BY <1>1, <1>2
  <2> QED
    BY <2>1 DEF c, Removed, Without
<1>4. ASSUME NEW l \in L, NEW i
      PROVE  [n EXCEPT !.links[l] = Append(@, @[i])] =
               [links |-> Copied(n.links, l, i), timers |-> n.timers]
  <2> DEFINE c == Append(n.links[l], n.links[l][i])
  <2> HIDE DEF c
  <2>1. [n EXCEPT !.links[l] = c] = [links |-> [n.links EXCEPT ![l] = c], timers |-> n.timers]
    BY <1>1, <1>2
  <2> QED
    BY <2>1 DEF c, Copied
<1>5. ASSUME NEW t
      PROVE  [n EXCEPT !.timers = Engine!WithoutTimer(@, t)] =
               [links |-> n.links, timers |-> Engine!WithoutTimer(n.timers, t)]
  <2> DEFINE c == Engine!WithoutTimer(n.timers, t)
  <2> HIDE DEF c
  <2>1. [n EXCEPT !.timers = c] = [links |-> n.links, timers |-> c]
    BY <1>1, <1>2
  <2> QED
    BY <2>1 DEF c
<1> QED
  BY <1>3, <1>4, <1>5

(* Faults, of nodes K and links L. *)
Dies(n)       == /\ env' = [env EXCEPT !.dead = @ \cup {n}, !.kills = @ + 1, !.falls[n] = @ + 1]
                 /\ net' = net
Returns(n)    == env' = [env EXCEPT !.dead = @ \ {n}, !.revives = @ + 1] /\ net' = net
IsLost(l, i)  == /\ env' = [env EXCEPT !.drops = @ + 1, !.lost = @ + 1]
                 /\ net' = [net EXCEPT !.links[l] = Engine!AllBut(@, i)]
IsTwice(l, i) == /\ env' = [env EXCEPT !.dups = @ + 1]
                 /\ net' = [net EXCEPT !.links[l] = Append(@, @[i])]
IsGone(l)     == /\ l[2] \in env.dead /\ net.links[l] # <<>>
                 /\ env' = [env EXCEPT !.lost = @ + 1]
                 /\ net' = [net EXCEPT !.links[l] = Engine!AllBut(@, 1)]
IsMissed(t)   == /\ t[1] \in env.dead /\ env' = env
                 /\ net' = [net EXCEPT !.timers = Engine!WithoutTimer(@, t)]
Faults(L) ==
  \/ \E n : Dies(n) \/ Returns(n)
  \/ \E l \in L : \E i \in DOMAIN net.links[l] : IsLost(l, i) \/ IsTwice(l, i)
  \/ \E l \in L : IsGone(l)
  \/ \E t \in DOMAIN net.timers : IsMissed(t)

(* In all: nothing, a message is lost or copied, or a timer of a dead node.*)
Same(lost) == env'.dups = env.dups /\ env'.late = env.late /\ env'.lost = env.lost + lost
Spared == Same(0) /\ net' = net
LosesAt(l, i) ==
  Same(1) /\ net' = [links |-> Removed(net.links, l, i), timers |-> net.timers]
CopiesAt(l, i) ==
  /\ env'.dups = env.dups + 1 /\ env'.late = env.late /\ env'.lost = env.lost
  /\ net' = [links |-> Copied(net.links, l, i), timers |-> net.timers]
MissesTimer(t) ==
  /\ Same(0) /\ env.kills # 0
  /\ net' = [links |-> net.links, timers |-> Engine!WithoutTimer(net.timers, t)]
Harmed(L) ==
  \/ Spared
  \/ \E l \in L : \E i \in DOMAIN net.links[l] : LosesAt(l, i) \/ CopiesAt(l, i)
  \/ \E t \in DOMAIN net.timers : MissesTimer(t)

LEMMA FaultHarms ==
  ASSUME NEW L, NEW M, Queue(net, L, M), Counts, Faults(L)
  PROVE  Harmed(L) /\ Counts' /\ (env'.kills = 0 => env.kills = 0)
<1>1. /\ env.kills \in Nat /\ env.dups \in Nat /\ env.late \in Nat /\ env.lost \in Nat
      /\ env = [dead |-> env.dead, falls |-> env.falls, kills |-> env.kills, revives |-> env.revives,
                drops |-> env.drops, dups |-> env.dups, late |-> env.late, lost |-> env.lost]
  BY DEF Counts
<1> DEFINE Kept == Counts' /\ (env'.kills = 0 => env.kills = 0)
<1>2. CASE \E n : Dies(n) \/ Returns(n)
  <2>1. ASSUME NEW n, Dies(n) PROVE Spared /\ Kept
    <3>1. env' = [dead |-> env.dead \cup {n}, falls |-> [env.falls EXCEPT ![n] = @ + 1],
                  kills |-> env.kills + 1, revives |-> env.revives,
                  drops |-> env.drops, dups |-> env.dups, late |-> env.late, lost |-> env.lost]
      BY <1>1, <2>1 DEF Dies
    <3>2. net' = net
      BY <2>1 DEF Dies
    <3> QED
      BY <1>1, <3>1, <3>2 DEF Counts, Spared, Same
  <2>2. ASSUME NEW n, Returns(n) PROVE Spared /\ Kept
    <3>1. env' = [dead |-> env.dead \ {n}, falls |-> env.falls,
                  kills |-> env.kills, revives |-> env.revives + 1,
                  drops |-> env.drops, dups |-> env.dups, late |-> env.late, lost |-> env.lost]
      BY <1>1, <2>2 DEF Returns
    <3>2. net' = net /\ (env.kills = 0 => env.dead = {})
      BY <2>2 DEF Returns, Counts
    <3> QED
      BY <1>1, <3>1, <3>2 DEF Counts, Spared, Same
  <2> QED
    BY <1>2, <2>1, <2>2 DEF Harmed
<1>3. CASE \E l \in L : \E i \in DOMAIN net.links[l] : IsLost(l, i) \/ IsTwice(l, i)
  <2>1. PICK l \in L : \E i \in DOMAIN net.links[l] : IsLost(l, i) \/ IsTwice(l, i)
    BY <1>3
  <2>2. PICK i \in DOMAIN net.links[l] : IsLost(l, i) \/ IsTwice(l, i)
    BY <2>1
  <2>3. CASE IsLost(l, i)
    <3>1. env' = [dead |-> env.dead, falls |-> env.falls, kills |-> env.kills, revives |-> env.revives,
                  drops |-> env.drops + 1, dups |-> env.dups, late |-> env.late, lost |-> env.lost + 1]
      BY <1>1, <2>3 DEF IsLost
    <3>2. net' = [links |-> Removed(net.links, l, i), timers |-> net.timers]
      BY <2>3, QueueChanges DEF IsLost
    <3> QED
      BY <1>1, <3>1, <3>2 DEF Counts, LosesAt, Same, Harmed
  <2>4. CASE IsTwice(l, i)
    <3>1. env' = [dead |-> env.dead, falls |-> env.falls, kills |-> env.kills, revives |-> env.revives,
                  drops |-> env.drops, dups |-> env.dups + 1, late |-> env.late, lost |-> env.lost]
      BY <1>1, <2>4 DEF IsTwice
    <3>2. net' = [links |-> Copied(net.links, l, i), timers |-> net.timers]
      BY <2>4, QueueChanges DEF IsTwice
    <3> QED
      BY <1>1, <3>1, <3>2 DEF Counts, CopiesAt, Harmed
  <2> QED
    BY <2>2, <2>3, <2>4
<1>4. CASE \E l \in L : IsGone(l)
  <2>1. PICK l \in L : IsGone(l)
    BY <1>4
  <2>2. env' = [dead |-> env.dead, falls |-> env.falls, kills |-> env.kills, revives |-> env.revives,
                drops |-> env.drops, dups |-> env.dups, late |-> env.late, lost |-> env.lost + 1]
    BY <1>1, <2>1 DEF IsGone
  <2>3. net' = [links |-> Removed(net.links, l, 1), timers |-> net.timers]
    BY <2>1, QueueChanges DEF IsGone
  <2>4. 1 \in DOMAIN net.links[l]
    <3>1. net.links[l] \in Seq(M) /\ net.links[l] # <<>>
      BY <2>1 DEF IsGone, Queue
    <3> QED
      BY <3>1, EmptySeq, LenProperties
  <2> QED
    BY <1>1, <2>2, <2>3, <2>4 DEF Counts, LosesAt, Same, Harmed
<1>5. CASE \E t \in DOMAIN net.timers : IsMissed(t)
  <2>1. PICK t \in DOMAIN net.timers : IsMissed(t)
    BY <1>5
  <2>2. net' = [links |-> net.links, timers |-> Engine!WithoutTimer(net.timers, t)]
    BY <2>1, QueueChanges DEF IsMissed
  <2>3. env' = env /\ env.kills # 0
    BY <2>1 DEF IsMissed, Counts
  <2> QED
    BY <1>1, <2>2, <2>3 DEF Counts, MissesTimer, Same, Harmed
<1> QED
  BY <1>2, <1>3, <1>4, <1>5 DEF Faults

(* What a fault leaves of the queue. *)
LEMMA HarmedQueue ==
  ASSUME NEW L, NEW M, Queue(net, L, M), Counts, Harmed(L)
  PROVE  /\ Queue(net', L, M)
         /\ \A l \in L : Items(net'.links[l]) \subseteq Items(net.links[l])
         /\ DOMAIN net'.timers \subseteq DOMAIN net.timers
         /\ env.kills = 0 => net'.timers = net.timers
         /\ \A t : Count(net'.timers, t) <= Count(net.timers, t)
<1>1. /\ net = [links |-> net.links, timers |-> net.timers]
      /\ net.links \in [L -> Seq(M)] /\ net.timers \in [DOMAIN net.timers -> Nat \ {0}]
  BY DEF Queue
<1>2. \A t : Count(net.timers, t) \in Nat
  BY <1>1 DEF Count
<1>3. CASE Spared
  BY <1>1, <1>2, <1>3 DEF Spared, Queue
<1>4. ASSUME NEW l \in L, NEW i \in DOMAIN net.links[l], NEW links \in [L -> Seq(M)],
             \A k \in L : Items(links[k]) \subseteq Items(net.links[k]),
             net' = [links |-> links, timers |-> net.timers]
      PROVE  /\ Queue(net', L, M)
             /\ \A k \in L : Items(net'.links[k]) \subseteq Items(net.links[k])
             /\ net'.timers = net.timers
  BY <1>1, <1>4 DEF Queue
<1>5. CASE \E l \in L : \E i \in DOMAIN net.links[l] : LosesAt(l, i) \/ CopiesAt(l, i)
  <2>1. PICK l \in L : \E i \in DOMAIN net.links[l] : LosesAt(l, i) \/ CopiesAt(l, i)
    BY <1>5
  <2>2. PICK i \in DOMAIN net.links[l] : LosesAt(l, i) \/ CopiesAt(l, i)
    BY <2>1
  <2>3. \E links \in [L -> Seq(M)] :
          /\ \A k \in L : Items(links[k]) \subseteq Items(net.links[k])
          /\ net' = [links |-> links, timers |-> net.timers]
    <3>1. CASE LosesAt(l, i)
      <4>1. /\ Removed(net.links, l, i) \in [L -> Seq(M)]
            /\ \A k \in L : Items(Removed(net.links, l, i)[k]) \subseteq Items(net.links[k])
        BY <1>1, ItemsRemoved
      <4> QED
        BY <3>1, <4>1 DEF LosesAt
    <3>2. CASE CopiesAt(l, i)
      <4>1. /\ Copied(net.links, l, i) \in [L -> Seq(M)]
            /\ \A k \in L : Items(Copied(net.links, l, i)[k]) \subseteq Items(net.links[k])
        BY <1>1, ItemsCopied
      <4> QED
        BY <3>2, <4>1 DEF CopiesAt
    <3> QED
      BY <2>2, <3>1, <3>2
  <2>4. /\ Queue(net', L, M)
        /\ \A k \in L : Items(net'.links[k]) \subseteq Items(net.links[k])
        /\ net'.timers = net.timers
    BY <1>4, <2>3
  <2> QED
    BY <1>2, <2>4
<1>6. CASE \E t \in DOMAIN net.timers : MissesTimer(t)
  <2>1. PICK t \in DOMAIN net.timers : MissesTimer(t)
    BY <1>6
  <2> DEFINE new == Engine!WithoutTimer(net.timers, t)
  <2>2. /\ new \in [DOMAIN new -> Nat \ {0}] /\ DOMAIN new \subseteq DOMAIN net.timers
        /\ \A x : Count(new, x) = Count(net.timers, x) - (IF x = t THEN 1 ELSE 0)
    BY <1>1, TimerTaken
  <2>3. net' = [links |-> net.links, timers |-> new] /\ env.kills # 0
    BY <2>1 DEF MissesTimer
  <2> HIDE DEF new
  <2>4. \A x : Count(new, x) <= Count(net.timers, x)
    BY <1>2, <2>2
  <2> QED
    BY <1>1, <2>2, <2>3, <2>4 DEF Queue
<1> QED
  BY <1>3, <1>5, <1>6 DEF Harmed

(* An arrival takes a message from its link; a fault if it is not the next.*)
Overtakes(i) == env' = IF i = 1 THEN env ELSE [env EXCEPT !.late = @ + 1]

LEMMA ArrivalCounts ==
  ASSUME Counts, NEW i, Overtakes(i)
  PROVE  /\ Counts' /\ env'.kills = env.kills /\ env'.dups = env.dups /\ env'.lost = env.lost
         /\ env'.dead = env.dead
<1>1. /\ env.kills \in Nat /\ env.dups \in Nat /\ env.late \in Nat /\ env.lost \in Nat
      /\ env = [dead |-> env.dead, falls |-> env.falls, kills |-> env.kills, revives |-> env.revives,
                drops |-> env.drops, dups |-> env.dups, late |-> env.late, lost |-> env.lost]
  BY DEF Counts
<1>2. CASE i = 1
  BY <1>2 DEF Overtakes, Counts
<1>3. CASE i # 1
  <2>1. env' = [dead |-> env.dead, falls |-> env.falls, kills |-> env.kills, revives |-> env.revives,
                drops |-> env.drops, dups |-> env.dups, late |-> env.late + 1, lost |-> env.lost]
    BY <1>1, <1>3 DEF Overtakes
  <2> QED
    BY <1>1, <2>1 DEF Counts
<1> QED
  BY <1>2, <1>3

-----------------------------------------------------------------------------
(* The ring.  In round B, a multiple of its length, the first h nodes have *)
(* passed on a token of the round and the others one of the round before;  *)
(* what is on its way or waits to be sent again is at most the next token. *)

N       == Len(Ring)
Seats   == {Ring[i] : i \in DOMAIN Ring}
Hops    == PingPong!Links
Tokens  == [kind : {"token"}, token : Nat]
Retries == [kind : {"retransmit"}, token : Nat]
Rounds  == {k * N : k \in Nat}
Latest(n) == state[n].lastDelivered
Last(i)   == Latest(Ring[i])
Pending(n) == state[n].pendingToken

(* A token the i-th node may send in this round: one round after another,  *)
(* the one after the one it delivers.                                      *)
Sends(B, h, n, t) == t <= B + h /\ \E i \in 1..N : \E C \in Rounds : n = Ring[i] /\ t = C + i

Turns(B, h) ==
  \A i \in 1..N : Last(i) = IF i <= h THEN B + i - 1 ELSE IF B = 0 THEN 0 ELSE B + i - 1 - N
TokensRight(B, h) ==
  \A l \in Hops : \A m \in Coming(l) : l[2] = PingPong!NextOf(l[1]) /\ Sends(B, h, l[1], m.token)
RetriesRight(B, h) ==
  \A t \in DOMAIN net.timers : t \in Seats \X Retries /\ Sends(B, h, t[1], t[2].token)
HolderTries(B, h) ==
  env.kills = 0 => /\ Pending(Ring[h]) = B + h
                   /\ <<Ring[h], PingPong!Retransmit(B + h)>> \in DOMAIN net.timers

RingAt(B, h) == Turns(B, h) /\ TokensRight(B, h) /\ RetriesRight(B, h) /\ HolderTries(B, h)

RingTyped == state \in [Seats -> [lastDelivered : Nat, pendingToken : Nat \cup {PingPong!None}]]
RingInv ==
  /\ RingTyped /\ Queue(net, Hops, Tokens) /\ Counts
  /\ \E B \in Rounds : \E h \in 1..N : RingAt(B, h)

LEMMA RingPlaces ==
  /\ N \in Nat \ {0} /\ DOMAIN Ring = 1..N /\ PingPong!Range(Ring) = Seats /\ Hops = Seats \X Seats
  /\ \A i \in 1..N : Ring[i] \in Seats
  /\ \A i, j \in 1..N : Ring[i] = Ring[j] => i = j
  /\ \A i \in 1..N : /\ PingPong!NextOf(Ring[i]) = Ring[IF i = N THEN 1 ELSE i + 1]
                     /\ PingPong!NextOf(Ring[i]) \in Seats
<1>1. Ring \in Seq(Seats) /\ Ring # <<>>
  BY RingAssumption DEF Seats
<1>2. N \in Nat \ {0} /\ DOMAIN Ring = 1..N
  <2>1. Len(Ring) \in Nat /\ DOMAIN Ring = 1..Len(Ring)
    BY <1>1, LenProperties
  <2>2. Len(Ring) # 0
    BY <1>1, EmptySeq
  <2> QED
    BY <2>1, <2>2 DEF N
<1>3. PingPong!Range(Ring) = Seats
  BY DEF PingPong!Range, Seats
<1>4. \A i, j \in 1..N : Ring[i] = Ring[j] => i = j
  BY <1>2, RingAssumption
<1>5. ASSUME NEW i \in 1..N PROVE PingPong!NextOf(Ring[i]) = Ring[IF i = N THEN 1 ELSE i + 1]
  <2>1. \A j \in DOMAIN Ring : Ring[j] = Ring[i] => j = i
    BY <1>2, <1>4
  <2>2. i \in DOMAIN Ring
    BY <1>2
  <2>3. (CHOOSE j \in DOMAIN Ring : Ring[j] = Ring[i]) = i
    BY <2>1, <2>2
  <2>4. PingPong!NextOf(Ring[i]) = Ring[(i % N) + 1]
    BY <2>3 DEF PingPong!NextOf, N
  <2>5. (i % N) + 1 = IF i = N THEN 1 ELSE i + 1
    BY <1>2
  <2> QED
    BY <2>4, <2>5
<1>6. \A i \in 1..N : Ring[i] \in Seats /\ PingPong!NextOf(Ring[i]) \in Seats
  BY <1>2, <1>5 DEF Seats
<1>7. Hops = Seats \X Seats
  BY <1>3 DEF Hops, PingPong!Links
<1> QED
  BY <1>2, <1>3, <1>4, <1>5, <1>6, <1>7

(* Rounds follow each other at the length of the ring. *)
LEMMA RoundsSpaced ==
  /\ 0 \in Rounds /\ \A B \in Rounds : B \in Nat /\ B + N \in Rounds
  /\ \A B, C \in Rounds : B < C => B + N <= C /\ C - N \in Rounds
  /\ \A B \in Rounds : \A r \in 0..(N - 1) : (B + r) % N = r
<1>0. N \in Nat \ {0}
  BY RingPlaces
<1>1. 0 \in Rounds
  <2>1. 0 = 0 * N
    BY <1>0
  <2> QED
    BY <2>1 DEF Rounds
<1>2. ASSUME NEW k \in Nat PROVE k * N \in Nat /\ k * N + N = (k + 1) * N /\ k + 1 \in Nat
  BY <1>0
<1>3. ASSUME NEW k \in Nat, NEW j \in Nat, k * N < j * N
      PROVE  k * N + N <= j * N /\ j * N - N \in Rounds
  <2>1. k < j
    BY <1>0, <1>3
  <2>2. k * N + N = (k + 1) * N /\ j * N - N = (j - 1) * N /\ j - 1 \in Nat /\ k + 1 <= j
    BY <1>0, <2>1
  <2>3. \A a, c \in Nat : a <= c => a * N <= c * N
    BY <1>0
  <2> QED
    BY <2>2, <2>3 DEF Rounds
<1>4. \A k \in Nat : \A r \in 0..(N - 1) : (k * N + r) % N = r
  BY <1>0
<1>5. \A B \in Rounds : B \in Nat /\ B + N \in Rounds
  BY <1>2 DEF Rounds
<1>6. ASSUME NEW B \in Rounds, NEW C \in Rounds, B < C PROVE B + N <= C /\ C - N \in Rounds
  <2>1. PICK k \in Nat : B = k * N
    BY DEF Rounds
  <2>2. PICK j \in Nat : C = j * N
    BY DEF Rounds
  <2> QED
    BY <1>3, <1>6, <2>1, <2>2
<1>7. \A B \in Rounds : \A r \in 0..(N - 1) : (B + r) % N = r
  BY <1>4 DEF Rounds
<1> QED
  BY <1>1, <1>5, <1>6, <1>7

LEMMA RingEngine ==
  /\ \A links, n, sends : PingPong!WithMessages(links, n, sends) = Engine!WithMessages(links, n, sends)
  /\ \A timers, n, set : PingPong!WithTimers(timers, n, set) = Engine!WithTimers(timers, n, set)
  /\ \A s, i : PingPong!AllBut(s, i) = Engine!AllBut(s, i)
  /\ \A timers, t : PingPong!WithoutTimer(timers, t) = Engine!WithoutTimer(timers, t)
<1>1. \A links, n, sends : PingPong!WithMessages(links, n, sends) = Engine!WithMessages(links, n, sends)
  BY DEF PingPong!WithMessages, Engine!WithMessages
<1>2. \A S : PingPong!Cardinality(S) = Engine!Cardinality(S)
  BY DEF PingPong!Cardinality, Engine!Cardinality
<1>3. \A timers, n, set : PingPong!WithTimers(timers, n, set) = Engine!WithTimers(timers, n, set)
  BY <1>2 DEF PingPong!WithTimers, Engine!WithTimers
<1>4. \A s, i : PingPong!AllBut(s, i) = Engine!AllBut(s, i)
  BY DEF PingPong!AllBut, Engine!AllBut
<1>5. \A timers, t : PingPong!WithoutTimer(timers, t) = Engine!WithoutTimer(timers, t)
  BY DEF PingPong!WithoutTimer, Engine!WithoutTimer
<1> QED
  BY <1>1, <1>3, <1>4, <1>5

(* A token that is news is the newest one, and its receiver is next.       *)
LEMMA NewsIsNext ==
  ASSUME NEW B \in Rounds, NEW h \in 1..N, Turns(B, h),
         NEW i \in 1..N, NEW C \in Rounds, C + i <= B + h,
         NEW j, j = (IF i = N THEN 1 ELSE i + 1), ~(C + i <= Last(j))
  PROVE  C + i = B + h /\ j = IF h = N THEN 1 ELSE h + 1
<1>0. N \in Nat \ {0}
  BY RingPlaces
<1>1. j \in 1..N /\ B \in Nat /\ C \in Nat
  <2>1. j \in 1..N
    BY <1>0
  <2> QED
    BY <2>1, RoundsSpaced
<1>2. PICK D \in Rounds : D \in Nat /\ C + i = D + j - 1
  <2>1. CASE i = N
    BY <1>0, <1>1, <2>1, RoundsSpaced
  <2>2. CASE i # N
    BY <1>0, <1>1, <2>2
  <2> QED
    BY <2>1, <2>2
<1>3. Last(j) = IF j <= h THEN B + j - 1 ELSE IF B = 0 THEN 0 ELSE B + j - 1 - N
  BY <1>1 DEF Turns
<1>4. CASE j <= h
  <2>1. B < D
    BY <1>0, <1>1, <1>2, <1>3, <1>4
  <2>2. B + N <= D
    BY <2>1, RoundsSpaced
  <2>3. j = 1 /\ h = N /\ C + i = B + h
    BY <1>0, <1>1, <1>2, <1>4, <2>2
  <2> QED
    BY <2>3
<1>5. CASE ~(j <= h)
  <2>1. B <= D
    <3>1. CASE B = 0
      BY <1>2, <3>1
    <3>2. CASE B # 0
      <4>1. 0 < B
        BY <1>1, <3>2
      <4>2. B - N \in Rounds
        BY <4>1, RoundsSpaced
      <4>3. B - N < D /\ B - N \in Nat
        <5>1. B - N \in Nat
          BY <4>2, RoundsSpaced
        <5> QED
          BY <1>0, <1>1, <1>2, <1>3, <1>5, <3>2, <5>1
      <4>4. (B - N) + N <= D
        BY <4>2, <4>3, RoundsSpaced
      <4> QED
        BY <1>0, <1>1, <4>4
    <3> QED
      BY <3>1, <3>2
  <2>2. j = h + 1 /\ C + i = B + h /\ h # N
    BY <1>0, <1>1, <1>2, <1>5, <2>1
  <2> QED
    BY <2>2
<1> QED
  BY <1>4, <1>5

(* What a handler leaves, with its node. *)
Handled(links, timers, n, out) == state' = out.state /\ net' = Left(links, timers, n, out)

LEMMA PassOnStep ==
  ASSUME RingInv, PingPong!PassOn
  PROVE  \E l \in Hops : \E i \in DOMAIN Link(l) :
           /\ Overtakes(i)
           /\ Handled(Removed(net.links, l, i), net.timers, l[2], PingPong!OnToken(l[1], l[2], Link(l)[i]))
<1>1. PICK l \in Hops : \E i \in DOMAIN Link(l) : PingPong!Arrive(l, i, PingPong!OnToken)
  BY DEF PingPong!PassOn, PingPong!Receive, Hops, Link
<1>2. PICK i \in DOMAIN Link(l) : PingPong!Arrive(l, i, PingPong!OnToken)
  BY <1>1
<1>3. Queue(net, Hops, Tokens)
  BY DEF RingInv
<1>4. PingPong!Taken(l, i) = [links |-> Removed(net.links, l, i), timers |-> net.timers]
  BY <1>3, QueueChanges, RingEngine DEF PingPong!Taken
<1>5. Overtakes(i)
  BY <1>2 DEF PingPong!Arrive, PingPong!MessageDue, Overtakes
<1>6. PingPong!Happens(l[2], PingPong!OnToken(l[1], l[2], Link(l)[i]), PingPong!Taken(l, i))
  BY <1>2 DEF PingPong!Arrive, Link
<1> QED
  BY <1>4, <1>5, <1>6, RingEngine DEF PingPong!Happens, PingPong!Queued, Handled, Left

LEMMA SendAgainStep ==
  ASSUME RingInv, PingPong!SendAgain
  PROVE  \E t \in DOMAIN net.timers :
           /\ env' = env
           /\ Handled(net.links, Engine!WithoutTimer(net.timers, t), t[1], PingPong!OnRetransmit(t[1], t[2]))
<1>1. PICK t \in DOMAIN net.timers :
        /\ PingPong!TimerDue(t)
        /\ PingPong!Happens(t[1], PingPong!OnRetransmit(t[1], t[2]),
                            [net EXCEPT !.timers = PingPong!WithoutTimer(@, t)])
  BY DEF PingPong!SendAgain, PingPong!Fire
<1>2. Queue(net, Hops, Tokens)
  BY DEF RingInv
<1>3. [net EXCEPT !.timers = PingPong!WithoutTimer(@, t)] =
        [links |-> net.links, timers |-> Engine!WithoutTimer(net.timers, t)]
  BY <1>2, QueueChanges, RingEngine
<1> QED
  BY <1>1, <1>3, RingEngine DEF PingPong!TimerDue, PingPong!Happens, PingPong!Queued, Handled, Left

LEMMA RingFaults ==
  ASSUME PingPong!Fault
  PROVE  Faults(Hops) /\ state' = state
<1> USE RingEngine
<1>1. \A n : PingPong!Kill(n) => Dies(n)
  BY DEF PingPong!Kill, Dies
<1>2. \A n : PingPong!Revive(n) => Returns(n)
  BY DEF PingPong!Revive, Returns
<1>3. \A l, i : PingPong!Drop(l, i) => IsLost(l, i)
  BY DEF PingPong!Drop, PingPong!Taken, IsLost
<1>4. \A l, i : PingPong!Duplicate(l, i) => IsTwice(l, i)
  BY DEF PingPong!Duplicate, IsTwice
<1>5. \A l : PingPong!MessageToDead(l) => IsGone(l)
  BY DEF PingPong!MessageToDead, PingPong!Taken, IsGone
<1>6. \A t : PingPong!TimerOfDead(t) => IsMissed(t)
  BY DEF PingPong!TimerOfDead, IsMissed
<1> HIDE RingEngine
<1> QED
  BY <1>1, <1>2, <1>3, <1>4, <1>5, <1>6 DEF PingPong!Fault, Faults, Hops

LEMMA RingTokens ==
  ASSUME Queue(net, Hops, Tokens)
  PROVE  /\ \A l \in Hops : \A m \in Coming(l) : m \in Tokens /\ m.token \in Nat
         /\ \A l \in Hops : \A i \in DOMAIN Link(l) : Link(l)[i] \in Tokens /\ Link(l)[i] \in Coming(l)
<1> SUFFICES ASSUME NEW l \in Hops, NEW i \in DOMAIN Link(l)
             PROVE  Link(l)[i] \in Tokens /\ Link(l)[i].token \in Nat
  BY DEF Coming
<1>1. Link(l) \in Seq(Tokens)
  BY DEF Queue, Link
<1>2. Link(l)[i] \in Tokens
  BY <1>1, ElementOfSeq, LenProperties
<1> QED
  BY <1>2 DEF Tokens

LEMMA SendsLater ==
  ASSUME NEW B \in Rounds, NEW h \in 1..N, NEW D \in Rounds, NEW g \in 1..N, B + h <= D + g,
         NEW n, NEW t, Sends(B, h, n, t)
  PROVE  Sends(D, g, n, t)
<1>1. PICK i \in 1..N : \E C \in Rounds : n = Ring[i] /\ t = C + i
  BY DEF Sends
<1>2. PICK C \in Rounds : n = Ring[i] /\ t = C + i
  BY <1>1
<1>3. B \in Nat /\ C \in Nat /\ D \in Nat /\ N \in Nat
  BY RoundsSpaced, RingPlaces
<1>4. t <= D + g
  BY <1>2, <1>3 DEF Sends
<1> QED
  BY <1>2, <1>4 DEF Sends

(* Steps after which nobody has delivered more. *)
LEMMA RingStill ==
  ASSUME RingInv, state' = state, Queue(net', Hops, Tokens), Counts',
         \A l \in Hops : \A m \in Coming(l)' :
           \/ m \in Coming(l)
           \/ l[2] = PingPong!NextOf(l[1]) /\ \E t \in DOMAIN net.timers : t[1] = l[1] /\ m.token = t[2].token,
         DOMAIN net'.timers \subseteq DOMAIN net.timers,
         env'.kills = 0 => /\ env.kills = 0
                           /\ \A t \in DOMAIN net.timers : Pending(t[1]) = t[2].token => t \in DOMAIN net'.timers
  PROVE  RingInv'
<1>1. PICK B \in Rounds : \E h \in 1..N : RingAt(B, h)
  BY DEF RingInv
<1>2. PICK h \in 1..N : RingAt(B, h)
  BY <1>1
<1>3. Turns(B, h)'
  BY <1>2 DEF RingAt, Turns, Last, Latest
<1>4. TokensRight(B, h)'
  <2> SUFFICES ASSUME NEW l \in Hops, NEW m \in Coming(l)'
               PROVE  l[2] = PingPong!NextOf(l[1]) /\ Sends(B, h, l[1], m.token)
    BY DEF TokensRight, Sends
  <2>1. CASE m \in Coming(l)
    BY <1>2, <2>1 DEF RingAt, TokensRight
  <2>2. CASE l[2] = PingPong!NextOf(l[1]) /\ \E t \in DOMAIN net.timers : t[1] = l[1] /\ m.token = t[2].token
    BY <1>2, <2>2 DEF RingAt, RetriesRight
  <2> QED
    BY <2>1, <2>2
<1>5. RetriesRight(B, h)'
  BY <1>2 DEF RingAt, RetriesRight, Sends
<1>6. HolderTries(B, h)'
  <2> SUFFICES ASSUME env'.kills = 0
               PROVE  /\ Pending(Ring[h])' = B + h
                      /\ <<Ring[h], PingPong!Retransmit(B + h)>> \in DOMAIN net'.timers
    BY DEF HolderTries
  <2> DEFINE t == <<Ring[h], PingPong!Retransmit(B + h)>>
  <2>1. Pending(Ring[h]) = B + h /\ t \in DOMAIN net.timers
    BY <1>2 DEF RingAt, HolderTries
  <2>2. t[1] = Ring[h] /\ t[2].token = B + h
    BY DEF PingPong!Retransmit
  <2> HIDE DEF t
  <2>3. t \in DOMAIN net'.timers
    BY <2>1, <2>2
  <2> QED
    BY <2>1, <2>3 DEF t, Pending
<1>7. RingTyped'
  BY DEF RingInv, RingTyped
<1> QED
  BY <1>3, <1>4, <1>5, <1>6, <1>7 DEF RingInv, RingAt

LEMMA RetryTypes ==
  ASSUME RingInv, NEW t \in DOMAIN net.timers
  PROVE  /\ t \in Seats \X Retries /\ t[1] \in Seats /\ t[2] \in Retries /\ t = <<t[1], t[2]>>
         /\ t[2].token \in Nat /\ t[2] = PingPong!Retransmit(t[2].token)
         /\ <<t[1], PingPong!NextOf(t[1])>> \in Hops
<1>1. t \in Seats \X Retries
  BY DEF RingInv, RingAt, RetriesRight
<1>2. PICK i \in 1..N : t[1] = Ring[i]
  BY <1>1, RingPlaces DEF Seats
<1>3. <<t[1], PingPong!NextOf(t[1])>> \in Seats \X Seats
  BY <1>1, <1>2, RingPlaces
<1>4. t[2] = PingPong!Retransmit(t[2].token) /\ t[2].token \in Nat
  BY <1>1 DEF Retries, PingPong!Retransmit
<1> QED
  BY <1>1, <1>3, <1>4, RingPlaces

(* A timer fires: of a token that is waited for, and it is set again, or   *)
(* of one that is not.                                                     *)
LEMMA SendAgainKeeps ==
  ASSUME RingInv, NEW t \in DOMAIN net.timers, env' = env,
         Handled(net.links, Engine!WithoutTimer(net.timers, t), t[1], PingPong!OnRetransmit(t[1], t[2]))
  PROVE  RingInv'
<1> DEFINE rest == Engine!WithoutTimer(net.timers, t)
           n == t[1]
           out == PingPong!OnRetransmit(n, t[2])
<1>1. /\ net.links \in [Hops -> Seq(Tokens)] /\ net.timers \in [DOMAIN net.timers -> Nat \ {0}]
      /\ RingTyped
  BY DEF RingInv, Queue
<1>2. /\ rest \in [DOMAIN rest -> Nat \ {0}]
      /\ DOMAIN rest \subseteq DOMAIN net.timers /\ DOMAIN net.timers \ {t} \subseteq DOMAIN rest
  BY <1>1, TimerTaken
<1> HIDE DEF rest
<1>3. Counts'
  BY DEF RingInv, Counts
<1>4. CASE Pending(n) # t[2].token
  <2>1. out.state = state /\ out.sends = <<>> /\ out.timers = <<>>
    BY <1>4 DEF PingPong!OnRetransmit, PingPong!Quiet, PingPong!Out, Pending
  <2> HIDE DEF out
  <2>2. Engine!WithMessages(net.links, n, <<>>) = net.links /\ Engine!WithTimers(rest, n, <<>>) = rest
    <3>1. rest \in [DOMAIN rest -> Nat]
      BY <1>2
    <3> QED
      BY <3>1, NoneSent, NoTimers
  <2>3. state' = state /\ net' = [links |-> net.links, timers |-> rest]
    BY <2>1, <2>2 DEF Handled, Left, out, n, rest
  <2>4. Queue(net', Hops, Tokens)
    BY <1>1, <1>2, <2>3 DEF Queue
  <2>5. \A l \in Hops : Coming(l)' = Coming(l)
    BY <2>3 DEF Coming, Link
  <2>6. \A x \in DOMAIN net.timers : Pending(x[1]) = x[2].token => x \in DOMAIN net'.timers
    BY <1>2, <1>4, <2>3
  <2> QED
    BY <1>2, <1>3, <2>3, <2>4, <2>5, <2>6, RingStill
<1>5. CASE Pending(n) = t[2].token
  <2> DEFINE m == PingPong!Token(t[2].token)
             to == PingPong!NextOf(n)
  <2>1. out.state = state /\ out.sends = <<<<to, m>>>> /\ out.timers = <<t[2]>>
    BY <1>5 DEF PingPong!OnRetransmit, PingPong!Out, Pending
  <2> HIDE DEF out
  <2>2. m \in Tokens /\ m.token = t[2].token
    BY RetryTypes DEF Tokens, PingPong!Token
  <2>3. <<n, to>> \in Hops /\ t = <<n, t[2]>>
    BY RetryTypes
  <2> HIDE DEF m, to
  <2> DEFINE links == Sent(net.links, n, to, m)
             timers == Engine!WithTimers(rest, n, <<t[2]>>)
  <2>4. /\ links \in [Hops -> Seq(Tokens)]
        /\ \A k \in Hops : Items(links[k]) \subseteq
                             Items(net.links[k]) \cup (IF k = <<n, to>> THEN {m} ELSE {})
    BY <1>1, <2>2, <2>3, ItemsSent
  <2>5. timers \in [DOMAIN rest \cup {t} -> Nat \ {0}]
    <3>1. timers \in [DOMAIN rest \cup {<<n, t[2]>>} -> Nat \ {0}]
      BY <1>2, TimerAdded
    <3> HIDE DEF timers
    <3> QED
      BY <2>3, <3>1
  <2>6. Engine!WithMessages(net.links, n, <<<<to, m>>>>) = links
    BY OneSent
  <2>7. state' = state /\ net' = [links |-> links, timers |-> timers]
    BY <2>1, <2>6 DEF Handled, Left, out, n, rest
  <2> HIDE DEF links, timers
  <2>8. DOMAIN timers = DOMAIN net.timers /\ timers \in [DOMAIN timers -> Nat \ {0}]
    BY <1>2, <2>5
  <2>9. Queue(net', Hops, Tokens)
    BY <2>4, <2>7, <2>8 DEF Queue
  <2>10. ASSUME NEW l \in Hops, NEW x \in Coming(l)'
         PROVE  \/ x \in Coming(l)
                \/ l[2] = PingPong!NextOf(l[1]) /\ t[1] = l[1] /\ x.token = t[2].token
    <3>1. x \in Items(links[l]) /\ Coming(l) = Items(net.links[l])
      BY <2>7 DEF Coming, Link, Items
    <3>2. CASE x \in Items(net.links[l])
      BY <3>1, <3>2
    <3>3. CASE l = <<n, to>> /\ x = m
      BY <2>2, <3>3 DEF to
    <3> QED
      BY <2>4, <3>1, <3>2, <3>3
  <2> QED
    BY <1>3, <2>7, <2>8, <2>9, <2>10, RingStill
<1> QED
  BY <1>4, <1>5

(* A token that is no news changes nothing. *)
LEMMA OldTokenKeeps ==
  ASSUME RingInv, NEW l \in Hops, NEW i \in DOMAIN Link(l), Overtakes(i),
         Link(l)[i].token <= Latest(l[2]),
         Handled(Removed(net.links, l, i), net.timers, l[2], PingPong!OnToken(l[1], l[2], Link(l)[i]))
  PROVE  RingInv'
<1> DEFINE rest == Removed(net.links, l, i)
           n == l[2]
           out == PingPong!OnToken(l[1], n, Link(l)[i])
<1>1. /\ net.links \in [Hops -> Seq(Tokens)] /\ net.timers \in [DOMAIN net.timers -> Nat \ {0}]
  BY DEF RingInv, Queue
<1>2. rest \in [Hops -> Seq(Tokens)] /\ \A k \in Hops : Items(rest[k]) \subseteq Items(net.links[k])
  BY <1>1, ItemsRemoved DEF Link
<1>3. out.state = state /\ out.sends = <<>> /\ out.timers = <<>>
  BY DEF PingPong!OnToken, PingPong!Quiet, PingPong!Out, Latest
<1> HIDE DEF rest, out
<1>4. Engine!WithMessages(rest, n, <<>>) = rest /\ Engine!WithTimers(net.timers, n, <<>>) = net.timers
  <2>1. net.timers \in [DOMAIN net.timers -> Nat]
    BY <1>1
  <2> QED
    BY <2>1, NoneSent, NoTimers
<1>5. state' = state /\ net' = [links |-> rest, timers |-> net.timers]
  BY <1>3, <1>4 DEF Handled, Left, out, rest
<1>6. Queue(net', Hops, Tokens)
  BY <1>1, <1>2, <1>5 DEF Queue
<1>7. \A k \in Hops : Coming(k)' \subseteq Coming(k)
  BY <1>2, <1>5 DEF Coming, Link, Items
<1>8. Counts' /\ env'.kills = env.kills
  BY ArrivalCounts DEF RingInv
<1>9. DOMAIN net'.timers = DOMAIN net.timers
  BY <1>5
<1> QED
  BY <1>5, <1>6, <1>7, <1>8, <1>9, RingStill

(* A token that is: its receiver is the next, and sends the next.          *)
LEMMA NewTokenKeeps ==
  ASSUME RingInv, NEW l \in Hops, NEW i \in DOMAIN Link(l), Overtakes(i),
         ~(Link(l)[i].token <= Latest(l[2])),
         Handled(Removed(net.links, l, i), net.timers, l[2], PingPong!OnToken(l[1], l[2], Link(l)[i]))
  PROVE  RingInv'
<1>1. PICK B \in Rounds : \E h \in 1..N : RingAt(B, h)
  BY DEF RingInv
<1>2. PICK h \in 1..N : RingAt(B, h)
  BY <1>1
<1>3. /\ RingTyped /\ Queue(net, Hops, Tokens) /\ Link(l)[i] \in Tokens /\ Link(l)[i] \in Coming(l)
      /\ net.links \in [Hops -> Seq(Tokens)] /\ net.timers \in [DOMAIN net.timers -> Nat \ {0}]
  BY RingTokens DEF RingInv, Queue
<1>4. N \in Nat \ {0} /\ B \in Nat /\ B + N \in Rounds /\ h \in Nat
  BY RingPlaces, RoundsSpaced
<1> DEFINE t == Link(l)[i].token
           D == IF h = N THEN B + N ELSE B
           g == IF h = N THEN 1 ELSE h + 1
           n == Ring[g]
           to == PingPong!NextOf(n)
           m == PingPong!Token(t + 1)
           again == PingPong!Retransmit(t + 1)
           rest == Removed(net.links, l, i)
           links == Sent(rest, n, to, m)
           timers == Engine!WithTimers(net.timers, n, <<again>>)
           out == PingPong!OnToken(l[1], l[2], Link(l)[i])
<1>5. D \in Rounds /\ g \in 1..N /\ D + g = B + h + 1 /\ D \in Nat /\ g \in Nat
  BY <1>4
<1>6. t = B + h /\ l[2] = n
  <2>1. l[2] = PingPong!NextOf(l[1]) /\ Sends(B, h, l[1], t)
    BY <1>2, <1>3 DEF RingAt, TokensRight
  <2>2. PICK j \in 1..N : \E C \in Rounds : l[1] = Ring[j] /\ t = C + j
    BY <2>1 DEF Sends
  <2>3. PICK C \in Rounds : l[1] = Ring[j] /\ t = C + j
    BY <2>2
  <2> DEFINE k == IF j = N THEN 1 ELSE j + 1
  <2>4. l[2] = Ring[k] /\ k \in 1..N
    BY <1>4, <2>1, <2>3, RingPlaces
  <2>5. C + j <= B + h /\ ~(C + j <= Last(k)) /\ Turns(B, h)
    BY <1>2, <2>1, <2>3, <2>4 DEF Sends, Last, RingAt
  <2> HIDE DEF t
  <2>6. C + j = B + h /\ k = g
    BY <2>5, NewsIsNext
  <2> QED
    BY <2>3, <2>4, <2>6
<1>7. n \in Seats /\ <<n, to>> \in Hops
  BY <1>5, RingPlaces
<1>8. /\ out.sends = <<<<to, m>>>> /\ out.timers = <<again>>
      /\ out.state = [[state EXCEPT ![n].lastDelivered = t] EXCEPT ![n].pendingToken = t + 1]
  BY <1>6 DEF PingPong!OnToken, PingPong!SendToken, PingPong!Out, Latest
<1>9. t \in Nat /\ m \in Tokens /\ m.token = t + 1 /\ again \in Retries /\ again.token = t + 1
  BY <1>4, <1>6 DEF Tokens, Retries, PingPong!Token, PingPong!Retransmit
<1>10. again = PingPong!Retransmit(D + g) /\ t + 1 = D + g
  BY <1>4, <1>5, <1>6
<1> HIDE DEF out, again, m, to, n, D, g
<1>11. rest \in [Hops -> Seq(Tokens)] /\ \A k \in Hops : Items(rest[k]) \subseteq Items(net.links[k])
  BY <1>3, ItemsRemoved DEF Link
<1> HIDE DEF rest
<1>12. /\ links \in [Hops -> Seq(Tokens)]
       /\ \A k \in Hops : Items(links[k]) \subseteq
                            Items(rest[k]) \cup (IF k = <<n, to>> THEN {m} ELSE {})
  BY <1>7, <1>9, <1>11, ItemsSent
<1>13. timers \in [DOMAIN net.timers \cup {<<n, again>>} -> Nat \ {0}]
  BY <1>3, TimerAdded
<1>14. Engine!WithMessages(rest, n, <<<<to, m>>>>) = links
  BY OneSent
<1>15. net' = [links |-> links, timers |-> timers] /\ state' = out.state
  BY <1>6, <1>8, <1>14 DEF Handled, Left, out, rest
<1> HIDE DEF links, timers, t
<1>16. Queue(net', Hops, Tokens) /\ DOMAIN net'.timers = DOMAIN net.timers \cup {<<n, again>>}
  BY <1>12, <1>13, <1>15 DEF Queue
<1>17. Counts' /\ env'.kills = env.kills
  BY ArrivalCounts DEF RingInv
<1>18. /\ RingTyped' /\ state'[n].lastDelivered = t /\ state'[n].pendingToken = t + 1
       /\ \A x \in Seats \ {n} : state'[x] = state[x]
  BY <1>3, <1>7, <1>8, <1>9, <1>15 DEF RingTyped
<1>19. Sends(D, g, n, t + 1)
  <2>1. D + g <= D + g /\ n = Ring[g]
    BY <1>5 DEF n
  <2> QED
    BY <1>5, <1>10, <2>1 DEF Sends
<1>20. Turns(D, g)'
  <2> SUFFICES ASSUME NEW j \in 1..N
               PROVE  Last(j)' = IF j <= g THEN D + j - 1 ELSE IF D = 0 THEN 0 ELSE D + j - 1 - N
    BY DEF Turns
  <2>1. Last(j) = IF j <= h THEN B + j - 1 ELSE IF B = 0 THEN 0 ELSE B + j - 1 - N
    BY <1>2 DEF RingAt, Turns
  <2>2. CASE j = g
    <3>1. Last(j)' = t
      BY <1>18, <2>2 DEF Last, n, Latest
    <3>2. t = D + j - 1
      BY <1>4, <1>5, <1>6, <2>2
    <3> QED
      BY <2>2, <3>1, <3>2
  <2>3. CASE j # g
    <3>1. Ring[j] \in Seats \ {n}
      BY <1>5, <2>3, RingPlaces DEF n
    <3>2. Last(j)' = Last(j)
      BY <1>18, <3>1 DEF Last, Latest
    <3>3. CASE h = N
      BY <1>4, <2>1, <2>3, <3>2, <3>3 DEF D, g
    <3>4. CASE h # N
      BY <1>4, <2>1, <2>3, <3>2, <3>4 DEF D, g
    <3> QED
      BY <3>3, <3>4
  <2> QED
    BY <2>2, <2>3
<1>21. TokensRight(D, g)'
  <2> SUFFICES ASSUME NEW k \in Hops, NEW x \in Coming(k)'
               PROVE  k[2] = PingPong!NextOf(k[1]) /\ Sends(D, g, k[1], x.token)
    BY DEF TokensRight, Sends
  <2>1. x \in Items(links[k]) /\ Coming(k) = Items(net.links[k])
    BY <1>15 DEF Coming, Link, Items
  <2>2. CASE x \in Items(net.links[k])
    <3>1. k[2] = PingPong!NextOf(k[1]) /\ Sends(B, h, k[1], x.token)
      BY <1>2, <2>1, <2>2 DEF RingAt, TokensRight
    <3>2. B + h <= D + g
      BY <1>4, <1>5
    <3> QED
      BY <1>5, <3>1, <3>2, SendsLater
  <2>3. CASE k = <<n, to>> /\ x = m
    BY <1>9, <1>19, <2>3 DEF to
  <2> QED
    BY <1>11, <1>12, <2>1, <2>2, <2>3
<1>22. RetriesRight(D, g)'
  <2> SUFFICES ASSUME NEW x \in DOMAIN net'.timers
               PROVE  x \in Seats \X Retries /\ Sends(D, g, x[1], x[2].token)
    BY DEF RetriesRight, Sends
  <2>1. CASE x \in DOMAIN net.timers
    <3>1. x \in Seats \X Retries /\ Sends(B, h, x[1], x[2].token)
      BY <1>2, <2>1 DEF RingAt, RetriesRight
    <3>2. B + h <= D + g
      BY <1>4, <1>5
    <3> QED
      BY <1>5, <3>1, <3>2, SendsLater
  <2>2. CASE x = <<n, again>>
    BY <1>7, <1>9, <1>19, <2>2
  <2> QED
    BY <1>16, <2>1, <2>2
<1>23. HolderTries(D, g)'
  <2>1. state'[n].pendingToken = D + g
    BY <1>10, <1>18
  <2>2. <<n, PingPong!Retransmit(D + g)>> \in DOMAIN net'.timers
    BY <1>10, <1>16
  <2> QED
    BY <2>1, <2>2 DEF HolderTries, n, Pending
<1> QED
  BY <1>5, <1>16, <1>17, <1>18, <1>20, <1>21, <1>22, <1>23 DEF RingInv, RingAt

LEMMA RingInit == PingPong!Init => RingInv
<1> SUFFICES ASSUME PingPong!Init PROVE RingInv
  OBVIOUS
<1> DEFINE idle == [n \in Seats |-> PingPong!Idle]
           n == Ring[1]
           to == PingPong!NextOf(n)
           m == PingPong!Token(1)
           again == PingPong!Retransmit(1)
           none == [l \in Hops |-> <<>>]
           bare == [t \in {} |-> 0]
           links == Sent(none, n, to, m)
           timers == Engine!WithTimers(bare, n, <<again>>)
<1>1. N \in Nat \ {0} /\ 1 \in 1..N /\ n \in Seats /\ <<n, to>> \in Hops
  BY RingPlaces
<1>2. /\ state = [idle EXCEPT ![n].pendingToken = 1]
      /\ net = [links |-> Engine!WithMessages(none, n, <<<<to, m>>>>), timers |-> timers]
      /\ env = [dead |-> {}, falls |-> [x \in Seats |-> 0], kills |-> 0, revives |-> 0,
                drops |-> 0, dups |-> 0, late |-> 0, lost |-> 0]
  BY RingEngine, RingPlaces
     DEF PingPong!Init, PingPong!SendToken, PingPong!Out, PingPong!Queued, PingPong!NoEvents, PingPong!Calm,
         PingPong!Starter, Hops
<1>3. m \in Tokens /\ m.token = 1 /\ again \in Retries /\ again.token = 1
  BY DEF Tokens, Retries, PingPong!Token, PingPong!Retransmit
<1> HIDE DEF m, to
<1>4. none \in [Hops -> Seq(Tokens)] /\ \A k \in Hops : Items(none[k]) = {}
  BY DEF Items
<1> HIDE DEF none
<1>5. /\ links \in [Hops -> Seq(Tokens)]
      /\ \A k \in Hops : Items(links[k]) \subseteq (IF k = <<n, to>> THEN {m} ELSE {})
  <2>1. /\ links \in [Hops -> Seq(Tokens)]
        /\ \A k \in Hops : Items(links[k]) \subseteq
                             Items(none[k]) \cup (IF k = <<n, to>> THEN {m} ELSE {})
    BY <1>1, <1>3, <1>4, ItemsSent
  <2> HIDE DEF links
  <2> QED
    BY <1>4, <2>1
<1>6. bare \in [DOMAIN bare -> Nat \ {0}] /\ DOMAIN bare = {}
  OBVIOUS
<1> HIDE DEF bare
<1>7. timers \in [{<<n, again>>} -> Nat \ {0}]
  <2>1. timers \in [DOMAIN bare \cup {<<n, again>>} -> Nat \ {0}]
    BY <1>6, TimerAdded
  <2> HIDE DEF timers
  <2> QED
    BY <1>6, <2>1
<1>8. net = [links |-> links, timers |-> timers]
  BY <1>2, OneSent
<1> HIDE DEF links, timers
<1>9. Queue(net, Hops, Tokens) /\ DOMAIN net.timers = {<<n, again>>}
  BY <1>5, <1>7, <1>8 DEF Queue
<1>10. Counts
  BY <1>2 DEF Counts
<1>11. RingTyped /\ Pending(n) = 1 /\ \A x \in Seats : Latest(x) = 0
  BY <1>1, <1>2 DEF RingTyped, PingPong!Idle, PingPong!None, Pending, Latest
<1>12. 0 \in Rounds
  BY RoundsSpaced
<1>13. Turns(0, 1)
  <2>1. \A i \in 1..N : Last(i) = 0
    BY <1>11, RingPlaces DEF Last
  <2>2. \A i \in 1..N : i <= 1 => 0 + i - 1 = 0
    BY <1>1
  <2> QED
    BY <2>1, <2>2 DEF Turns
<1>14. Sends(0, 1, n, 1)
  <2>1. 1 <= 0 + 1 /\ 1 = 0 + 1
    OBVIOUS
  <2> QED
    BY <1>1, <1>12, <2>1 DEF Sends
<1>15. TokensRight(0, 1)
  <2> SUFFICES ASSUME NEW k \in Hops, NEW x \in Items(links[k])
               PROVE  k[2] = PingPong!NextOf(k[1]) /\ Sends(0, 1, k[1], x.token)
    BY <1>8 DEF TokensRight, Coming, Link, Items
  <2>1. k = <<n, to>> /\ x = m
    BY <1>5
  <2> QED
    BY <1>3, <1>14, <2>1 DEF to
<1>16. RetriesRight(0, 1)
  BY <1>1, <1>3, <1>9, <1>14 DEF RetriesRight
<1>17. HolderTries(0, 1)
  BY <1>9, <1>11 DEF HolderTries
<1> QED
  BY <1>1, <1>9, <1>10, <1>11, <1>12, <1>13, <1>15, <1>16, <1>17 DEF RingInv, RingAt

LEMMA RingNext ==
  ASSUME RingInv, [PingPong!Next]_PingPong!vars
  PROVE  RingInv'
<1>1. CASE PingPong!PassOn
  <2>1. PICK l \in Hops : \E i \in DOMAIN Link(l) :
          /\ Overtakes(i)
          /\ Handled(Removed(net.links, l, i), net.timers, l[2], PingPong!OnToken(l[1], l[2], Link(l)[i]))
    BY <1>1, PassOnStep
  <2>2. PICK i \in DOMAIN Link(l) :
          /\ Overtakes(i)
          /\ Handled(Removed(net.links, l, i), net.timers, l[2], PingPong!OnToken(l[1], l[2], Link(l)[i]))
    BY <2>1
  <2> QED
    BY <2>2, OldTokenKeeps, NewTokenKeeps
<1>2. CASE PingPong!SendAgain
  BY <1>2, SendAgainStep, SendAgainKeeps
<1>3. CASE PingPong!Fault
  <2>1. Queue(net, Hops, Tokens) /\ Counts /\ Faults(Hops) /\ state' = state
    BY <1>3, RingFaults DEF RingInv
  <2>2. Harmed(Hops) /\ Counts' /\ (env'.kills = 0 => env.kills = 0)
    BY <2>1, FaultHarms
  <2>3. /\ Queue(net', Hops, Tokens)
        /\ \A l \in Hops : Items(net'.links[l]) \subseteq Items(net.links[l])
        /\ DOMAIN net'.timers \subseteq DOMAIN net.timers
        /\ env.kills = 0 => net'.timers = net.timers
    BY <2>1, <2>2, HarmedQueue
  <2>4. \A l \in Hops : Coming(l)' \subseteq Coming(l)
    BY <2>3 DEF Coming, Link, Items
  <2> QED
    BY <2>1, <2>2, <2>3, <2>4, RingStill
<1>4. CASE UNCHANGED PingPong!vars
  <2>1. state' = state /\ net' = net /\ env' = env
    BY <1>4 DEF PingPong!vars
  <2>2. Queue(net', Hops, Tokens) /\ Counts'
    BY <2>1 DEF RingInv, Counts
  <2>3. \A l \in Hops : Coming(l)' = Coming(l)
    BY <2>1 DEF Coming, Link
  <2> QED
    BY <2>1, <2>2, <2>3, RingStill
<1> QED
  BY <1>1, <1>2, <1>3, <1>4 DEF PingPong!Next

LEMMA RingMeans ==
  ASSUME RingInv
  PROVE  PingPong!TypeOK /\ PingPong!InTurn /\ PingPong!KeepsTrying
<1>1. PICK B \in Rounds : \E h \in 1..N : RingAt(B, h)
  BY DEF RingInv
<1>2. PICK h \in 1..N : RingAt(B, h)
  BY <1>1
<1>3. N \in Nat \ {0} /\ B \in Nat /\ h \in Nat
  BY RingPlaces, RoundsSpaced
<1>4. \A i \in 1..N : Last(i) = IF i <= h THEN B + i - 1 ELSE IF B = 0 THEN 0 ELSE B + i - 1 - N
  BY <1>2 DEF RingAt, Turns
<1>5. PingPong!TypeOK
  BY RingPlaces DEF RingInv, RingTyped, PingPong!TypeOK
<1>6. PingPong!InTurn
  <2> SUFFICES ASSUME NEW i \in 2..N
               PROVE  \/ Last(i) = 0 /\ Last(i - 1) \in {0, i - 2}
                      \/ /\ Last(i) \in {Last(i - 1) + 1, Last(i - 1) + 1 - N}
                         /\ Last(i) % N = i - 1
    BY DEF PingPong!InTurn, Last, Latest, N
  <2>1. /\ i \in 1..N /\ i - 1 \in 1..N /\ i - 1 \in 0..(N - 1)
    BY <1>3
  <2>2. (B + (i - 1)) % N = i - 1
    BY <2>1, RoundsSpaced
  <2>3. CASE i <= h
    <3>1. Last(i) = B + (i - 1) /\ Last(i - 1) + 1 = Last(i)
      BY <1>3, <1>4, <2>1, <2>3
    <3> QED
      BY <2>2, <3>1
  <2>4. CASE ~(i <= h) /\ B = 0
    <3>1. Last(i) = 0
      BY <1>4, <2>1, <2>4
    <3>2. Last(i - 1) \in {0, i - 2}
      BY <1>3, <1>4, <2>1, <2>4
    <3> QED
      BY <3>1, <3>2
  <2>5. CASE ~(i <= h) /\ B # 0
    <3>1. Last(i) = B + (i - 1) - N
      BY <1>3, <1>4, <2>1, <2>5
    <3>2. Last(i) \in {Last(i - 1) + 1, Last(i - 1) + 1 - N}
      BY <1>3, <1>4, <2>1, <2>5, <3>1
    <3>3. 0 \in Rounds /\ 0 < B
      BY <1>3, <2>5, RoundsSpaced
    <3>4. B - N \in Rounds
      BY <3>3, RoundsSpaced
    <3>5. ((B - N) + (i - 1)) % N = i - 1
      BY <2>1, <3>4, RoundsSpaced
    <3>6. (B - N) + (i - 1) = B + (i - 1) - N
      BY <1>3
    <3> QED
      BY <3>1, <3>2, <3>5, <3>6
  <2> QED
    BY <2>3, <2>4, <2>5
<1>7. PingPong!Newest = B + h
  <2> DEFINE S == {state[n].lastDelivered : n \in PingPong!Range(Ring)}
             top == B + h - 1
  <2>1. top \in S
    <3>1. Last(h) = top /\ Ring[h] \in Seats
      BY <1>3, <1>4, RingPlaces
    <3> QED
      BY <3>1, RingPlaces DEF Last, Latest
  <2>2. \A x \in S : x \in Nat /\ x <= top
    <3> SUFFICES ASSUME NEW i \in 1..N PROVE Last(i) \in Nat /\ Last(i) <= top
      BY RingPlaces DEF Last, Latest, Seats
    <3>1. i <= h => Last(i) = B + i - 1
      BY <1>4
    <3>2. ~(i <= h) /\ B = 0 => Last(i) = 0
      BY <1>4
    <3>3. ~(i <= h) /\ B # 0 => Last(i) = B + i - 1 - N /\ N <= B
      <4>1. 0 \in Rounds /\ (B # 0 => 0 < B)
        BY <1>3, RoundsSpaced
      <4>2. B # 0 => 0 + N <= B
        BY <4>1, RoundsSpaced
      <4> QED
        BY <1>3, <1>4, <4>2
    <3> QED
      BY <1>3, <3>1, <3>2, <3>3
  <2> HIDE DEF S
  <2>3. PingPong!Max(S) = top
    <3>1. top \in Nat
      BY <2>1, <2>2
    <3>2. \A x \in S : (\A y \in S : x >= y) <=> x = top
      BY <2>1, <2>2, <3>1
    <3> QED
      BY <2>1, <3>2 DEF PingPong!Max
  <2> QED
    BY <1>3, <2>3 DEF PingPong!Newest, S
<1>8. PingPong!KeepsTrying
  <2>1. Ring[h] \in PingPong!Range(Ring)
    BY RingPlaces
  <2> QED
    BY <1>2, <1>7, <2>1 DEF PingPong!KeepsTrying, RingAt, HolderTries, Pending
<1> QED
  BY <1>5, <1>6, <1>8

(* Tokens are delivered in turn and once, whatever is lost, copied or late *)
(* and whoever is killed, and until a kill the newest is sent until it is  *)
(* passed on: for any ring, any number of rounds and any faults            *)
(* (pingpong.ts:56-72).                                                    *)
THEOREM TokensCorrect == LabSpec => []TokenInTurn
<1> DEFINE Inv == lab = "ping-pong" => RingInv
<1>1. LabInit => Inv
  BY RingInit DEF LabInit
<1>2. Inv /\ [LabNext]_<<lab, state, net, env, hist>> => Inv'
  <2> SUFFICES ASSUME Inv, [LabNext]_<<lab, state, net, env, hist>>, lab' = "ping-pong"
               PROVE  RingInv'
    OBVIOUS
  <2>1. lab = "ping-pong" /\ [PingPong!Next]_PingPong!vars
    BY DEF LabNext, PingPong!vars
  <2> QED
    BY <2>1, RingNext
<1>3. Inv => TokenInTurn
  BY RingMeans DEF TokenInTurn
<1> QED
  BY <1>1, <1>2, <1>3, PTL DEF LabSpec

-----------------------------------------------------------------------------
(* What a handler leaves that sends nothing, a message, or sets a timer. *)
LEMMA LeftQuiet ==
  ASSUME NEW links, NEW D, NEW timers \in [D -> Nat \ {0}], NEW n, NEW out
  PROVE  /\ out.sends = <<>> => Left(links, timers, n, out).links = links
         /\ out.timers = <<>> => Left(links, timers, n, out).timers = timers
<1>1. timers \in [D -> Nat]
  OBVIOUS
<1> QED
  BY <1>1, NoneSent, NoTimers DEF Left

LEMMA LeftOne ==
  ASSUME NEW links, NEW timers, NEW n, NEW out
  PROVE  /\ \A to, m : out.sends = <<<<to, m>>>> => Left(links, timers, n, out).links = Sent(links, n, to, m)
         /\ \A x : out.timers = <<x>> =>
                     Left(links, timers, n, out).timers = Engine!WithTimers(timers, n, <<x>>)
BY OneSent DEF Left

LEMMA LeftShape ==
  ASSUME NEW links, NEW timers, NEW n, NEW out, Handled(links, timers, n, out)
  PROVE  /\ state' = out.state /\ net' = [links |-> net'.links, timers |-> net'.timers]
         /\ net'.links = Left(links, timers, n, out).links
         /\ net'.timers = Left(links, timers, n, out).timers
BY DEF Handled, Left

(* No two messages have the same id. *)
Distinct(s) == \A a, b \in DOMAIN s : s[a].id = s[b].id => a = b

LEMMA DistinctKept ==
  ASSUME NEW S, NEW s \in Seq(S), Distinct(s)
  PROVE  /\ \A i \in DOMAIN s : /\ Distinct(Without(s, i))
                                /\ \A m \in Items(Without(s, i)) : m.id # s[i].id
         /\ \A m \in S : (\A x \in Items(s) : x.id # m.id) => Distinct(Append(s, m))
<1>1. ASSUME NEW i \in DOMAIN s
      PROVE  Distinct(Without(s, i)) /\ \A m \in Items(Without(s, i)) : m.id # s[i].id
  <2>1. /\ \A j \in DOMAIN Without(s, i) : /\ Before(i, j) \in DOMAIN s /\ Before(i, j) # i
                                            /\ Without(s, i)[j] = s[Before(i, j)]
        /\ \A j, k \in DOMAIN Without(s, i) : j < k => Before(i, j) < Before(i, k)
    BY WithoutOrder
  <2>2. DOMAIN Without(s, i) \subseteq Nat /\ DOMAIN s \subseteq Nat
    BY WithoutIs, LenProperties
  <2>3. ASSUME NEW j \in DOMAIN Without(s, i), NEW k \in DOMAIN Without(s, i),
               Without(s, i)[j].id = Without(s, i)[k].id
        PROVE  j = k
    <3>1. Before(i, j) = Before(i, k)
      BY <2>1, <2>3 DEF Distinct
    <3>2. ~(j < k) /\ ~(k < j)
      BY <2>1, <2>2, <3>1
    <3> QED
      BY <2>2, <3>2
  <2>4. \A j \in DOMAIN Without(s, i) : Without(s, i)[j].id # s[i].id
    BY <2>1 DEF Distinct
  <2> QED
    BY <2>3, <2>4 DEF Distinct, Items
<1>2. ASSUME NEW m \in S, \A x \in Items(s) : x.id # m.id PROVE Distinct(Append(s, m))
  <2> DEFINE t == Append(s, m)
  <2>1. /\ Len(s) \in Nat /\ DOMAIN s = 1..Len(s) /\ t \in Seq(S) /\ Len(t) = Len(s) + 1
        /\ \A j \in 1..Len(s) : t[j] = s[j]
        /\ t[Len(s) + 1] = m
    BY AppendProperties, LenProperties
  <2>2. DOMAIN t = 1..(Len(s) + 1)
    BY <2>1, LenProperties
  <2> HIDE DEF t
  <2>3. \A j \in 1..Len(s) : t[j].id # m.id
    BY <1>2, <2>1 DEF Items
  <2>4. ASSUME NEW j \in DOMAIN t, NEW k \in DOMAIN t, t[j].id = t[k].id PROVE j = k
    <3>1. CASE j = Len(s) + 1 \/ k = Len(s) + 1
      BY <2>1, <2>2, <2>3, <2>4, <3>1
    <3>2. CASE j # Len(s) + 1 /\ k # Len(s) + 1
      BY <2>1, <2>2, <2>4, <3>2 DEF Distinct
    <3> QED
      BY <3>1, <3>2
  <2> QED
    BY <2>4 DEF Distinct, t
<1> QED
  BY <1>1, <1>2

-----------------------------------------------------------------------------
(* The queue.  Without copies a message is published once and looked after *)
(* by one timer, from its publication until it is held no more.            *)

Takers  == Rabbit!Consumer
Wires   == Rabbit!Links
Inbox   == <<"P", "B">>
Letters == [kind : {"publish", "deliver", "ack"}, id : MessageId]
Look(id) == <<"B", Rabbit!CheckAck(id)>>
Watch(id) == Count(net.timers, Look(id))
Held    == DOMAIN state.unacked

HoldTyped ==
  /\ state = [unacked |-> state.unacked, deadLetter |-> state.deadLetter, rr |-> state.rr,
              delivery |-> state.delivery, produced |-> state.produced, processed |-> state.processed]
  /\ state.unacked \in [Held -> Takers] /\ state.rr \in {1, 2}
  /\ state.delivery \in [MessageId -> Nat] /\ state.processed \in [Takers -> SUBSET MessageId]
  /\ hist = [produced |-> hist.produced]
  /\ Held \cup state.deadLetter \subseteq state.produced
  /\ state.produced \subseteq hist.produced /\ hist.produced \subseteq MessageId

LetterRight(l, m) ==
  /\ m.kind = "publish" => l = Inbox /\ m.id \in hist.produced
  /\ m.kind = "deliver" => l[1] = "B" /\ l[2] \in Takers
  /\ m.kind = "ack" => l[1] \in Takers /\ l[2] = "B" /\ m.id \in Rabbit!Processed
LettersRight == \A l \in Wires : \A m \in Coming(l) : LetterRight(l, m)
LooksRight == DOMAIN net.timers \subseteq {Look(id) : id \in MessageId}
NoneMissing == state.produced \subseteq Rabbit!Processed \cup Held \cup state.deadLetter

(* What a message went through. *)
OnceOf(id) ==
  /\ Watch(id) <= 1
  /\ id \notin state.produced => Watch(id) = 0 /\ state.delivery[id] = 0
  /\ id \in state.produced => state.delivery[id] <= DeliveryLimit
  /\ id \in state.deadLetter => state.delivery[id] = DeliveryLimit
  /\ id \in Held => /\ id \notin state.deadLetter /\ state.delivery[id] < DeliveryLimit
                    /\ env.kills = 0 => Watch(id) = 1
InboxOnce == Distinct(Link(Inbox)) /\ \A m \in Coming(Inbox) : m.id \notin state.produced
Once == env.dups = 0 => InboxOnce /\ \A id \in MessageId : OnceOf(id)

HoldInv ==
  /\ HoldTyped /\ Queue(net, Wires, Letters) /\ Counts
  /\ LettersRight /\ LooksRight /\ NoneMissing /\ Once

LEMMA QueueNodes ==
  /\ Takers = {"C1", "C2"} /\ Wires = ({"P", "B"} \cup Takers) \X ({"P", "B"} \cup Takers)
  /\ Inbox \in Wires /\ \A c \in Takers : <<"B", c>> \in Wires /\ <<c, "B">> \in Wires
  /\ \A c \in Takers : Rabbit!Other(c) \in Takers /\ c # "P" /\ c # "B"
  /\ \A i \in {1, 2} : Rabbit!Consumers[i] \in Takers /\ (i % Len(Rabbit!Consumers)) + 1 \in {1, 2}
<1>1. Takers = {"C1", "C2"} /\ Wires = ({"P", "B"} \cup Takers) \X ({"P", "B"} \cup Takers)
  BY DEF Takers, Wires, Rabbit!Consumer, Rabbit!Links
<1>2. \A c \in Takers : Rabbit!Other(c) \in Takers /\ c # "P" /\ c # "B"
  BY <1>1 DEF Rabbit!Other, Rabbit!Consumer
<1>3. ASSUME NEW i \in {1, 2}
      PROVE  Rabbit!Consumers[i] \in Takers /\ (i % Len(Rabbit!Consumers)) + 1 \in {1, 2}
  <2>1. Len(Rabbit!Consumers) = 2 /\ Rabbit!Consumers[1] = "C1" /\ Rabbit!Consumers[2] = "C2"
    BY DEF Rabbit!Consumers
  <2> QED
    BY <1>1, <2>1
<1> QED
  BY <1>1, <1>2, <1>3 DEF Inbox

LEMMA QueueEngine ==
  /\ \A links, n, sends : Rabbit!WithMessages(links, n, sends) = Engine!WithMessages(links, n, sends)
  /\ \A timers, n, set : Rabbit!WithTimers(timers, n, set) = Engine!WithTimers(timers, n, set)
  /\ \A s, i : Rabbit!AllBut(s, i) = Engine!AllBut(s, i)
  /\ \A timers, t : Rabbit!WithoutTimer(timers, t) = Engine!WithoutTimer(timers, t)
<1>1. \A links, n, sends : Rabbit!WithMessages(links, n, sends) = Engine!WithMessages(links, n, sends)
  BY DEF Rabbit!WithMessages, Engine!WithMessages
<1>2. \A S : Rabbit!Cardinality(S) = Engine!Cardinality(S)
  BY DEF Rabbit!Cardinality, Engine!Cardinality
<1>3. \A timers, n, set : Rabbit!WithTimers(timers, n, set) = Engine!WithTimers(timers, n, set)
  BY <1>2 DEF Rabbit!WithTimers, Engine!WithTimers
<1>4. \A s, i : Rabbit!AllBut(s, i) = Engine!AllBut(s, i)
  BY DEF Rabbit!AllBut, Engine!AllBut
<1>5. \A timers, t : Rabbit!WithoutTimer(timers, t) = Engine!WithoutTimer(timers, t)
  BY DEF Rabbit!WithoutTimer, Engine!WithoutTimer
<1> QED
  BY <1>1, <1>3, <1>4, <1>5

LEMMA QueueReceive ==
  ASSUME Queue(net, Wires, Letters),
         \/ Rabbit!Receive("publish", Rabbit!OnPublish) /\ UNCHANGED hist
         \/ Rabbit!Receive("deliver", Rabbit!OnDeliver) /\ UNCHANGED hist
         \/ Rabbit!Receive("ack", Rabbit!OnAck) /\ UNCHANGED hist
  PROVE  \E l \in Wires : \E i \in DOMAIN Link(l) :
           /\ Overtakes(i) /\ hist' = hist
           /\ LET Runs(out) == Handled(Removed(net.links, l, i), net.timers, l[2], out)
                  m == Link(l)[i]
              IN \/ m.kind = "publish" /\ Runs(Rabbit!OnPublish(l[1], l[2], m))
                 \/ m.kind = "deliver" /\ Runs(Rabbit!OnDeliver(l[1], l[2], m))
                 \/ m.kind = "ack" /\ Runs(Rabbit!OnAck(l[1], l[2], m))
<1>1. ASSUME NEW l \in Wires, NEW i, NEW out,
             Rabbit!MessageDue(l, i), Rabbit!Happens(l[2], out, Rabbit!Taken(l, i))
      PROVE  Overtakes(i) /\ Handled(Removed(net.links, l, i), net.timers, l[2], out)
  <2>1. Rabbit!Taken(l, i) = [links |-> Removed(net.links, l, i), timers |-> net.timers]
    BY QueueChanges, QueueEngine DEF Rabbit!Taken
  <2> QED
    BY <1>1, <2>1, QueueEngine
       DEF Rabbit!MessageDue, Rabbit!Happens, Rabbit!Queued, Overtakes, Handled, Left
<1>2. CASE Rabbit!Receive("publish", Rabbit!OnPublish) /\ UNCHANGED hist
  BY <1>1, <1>2 DEF Rabbit!Receive, Rabbit!Arrive, Link, Wires
<1>3. CASE Rabbit!Receive("deliver", Rabbit!OnDeliver) /\ UNCHANGED hist
  BY <1>1, <1>3 DEF Rabbit!Receive, Rabbit!Arrive, Link, Wires
<1>4. CASE Rabbit!Receive("ack", Rabbit!OnAck) /\ UNCHANGED hist
  BY <1>1, <1>4 DEF Rabbit!Receive, Rabbit!Arrive, Link, Wires
<1> QED
  BY <1>2, <1>3, <1>4

LEMMA CheckAckStep ==
  ASSUME Queue(net, Wires, Letters), Rabbit!Fire("checkAck", Rabbit!OnCheckAck) /\ UNCHANGED hist
  PROVE  \E t \in DOMAIN net.timers :
           /\ env' = env /\ hist' = hist
           /\ Handled(net.links, Engine!WithoutTimer(net.timers, t), t[1], Rabbit!OnCheckAck(t[1], t[2]))
<1>1. PICK t \in DOMAIN net.timers :
        /\ Rabbit!TimerDue(t)
        /\ Rabbit!Happens(t[1], Rabbit!OnCheckAck(t[1], t[2]),
                          [net EXCEPT !.timers = Rabbit!WithoutTimer(@, t)])
  BY DEF Rabbit!Fire
<1>2. [net EXCEPT !.timers = Rabbit!WithoutTimer(@, t)] =
        [links |-> net.links, timers |-> Engine!WithoutTimer(net.timers, t)]
  BY QueueChanges, QueueEngine
<1> QED
  BY <1>1, <1>2, QueueEngine DEF Rabbit!TimerDue, Rabbit!Happens, Rabbit!Queued, Handled, Left

LEMMA QueueFaults ==
  ASSUME Rabbit!Fault
  PROVE  Faults(Wires) /\ state' = state /\ hist' = hist
<1> USE QueueEngine
<1>1. \A n : Rabbit!Kill(n) => Dies(n)
  BY DEF Rabbit!Kill, Dies
<1>2. \A n : Rabbit!Revive(n) => Returns(n)
  BY DEF Rabbit!Revive, Returns
<1>3. \A l, i : Rabbit!Drop(l, i) => IsLost(l, i)
  BY DEF Rabbit!Drop, Rabbit!Taken, IsLost
<1>4. \A l, i : Rabbit!Duplicate(l, i) => IsTwice(l, i)
  BY DEF Rabbit!Duplicate, IsTwice
<1>5. \A l : Rabbit!MessageToDead(l) => IsGone(l)
  BY DEF Rabbit!MessageToDead, Rabbit!Taken, IsGone
<1>6. \A t : Rabbit!TimerOfDead(t) => IsMissed(t)
  BY DEF Rabbit!TimerOfDead, IsMissed
<1> HIDE QueueEngine
<1> QED
  BY <1>1, <1>2, <1>3, <1>4, <1>5, <1>6 DEF Rabbit!Fault, Faults, Wires

(* What a handler that sends at most one message, and sets at most one     *)
(* timer, leaves of links and timers.                                      *)
Leaves(L, M, links, timers, n, out, to, m, x) ==
  /\ state' = out.state /\ Queue(net', L, M)
  /\ \A k \in L : Items(net'.links[k]) \subseteq
       Items(links[k]) \cup (IF out.sends # <<>> /\ k = <<n, to>> THEN {m} ELSE {})
  /\ \A k \in L : net'.links[k] = IF out.sends # <<>> /\ k = <<n, to>> THEN Append(links[k], m)
                                  ELSE links[k]
  /\ DOMAIN net'.timers \subseteq DOMAIN timers \cup (IF out.timers = <<>> THEN {} ELSE {<<n, x>>})
  /\ \A t : Count(net'.timers, t) =
       Count(timers, t) + (IF out.timers # <<>> /\ t = <<n, x>> THEN 1 ELSE 0)

LEMMA HandlerLeaves ==
  ASSUME NEW L, NEW M, NEW links \in [L -> Seq(M)], NEW timers, timers \in [DOMAIN timers -> Nat \ {0}],
         NEW n, NEW out, Handled(links, timers, n, out), NEW to, NEW m, NEW x,
         out.sends = <<>> \/ (out.sends = <<<<to, m>>>> /\ <<n, to>> \in L /\ m \in M),
         out.timers = <<>> \/ out.timers = <<x>>
  PROVE  Leaves(L, M, links, timers, n, out, to, m, x)
<1>0. links \in [L -> Seq(M)] /\ timers \in [DOMAIN timers -> Nat \ {0}]
  OBVIOUS
<1>1. /\ state' = out.state /\ net' = [links |-> net'.links, timers |-> net'.timers]
      /\ net'.links = Left(links, timers, n, out).links
      /\ net'.timers = Left(links, timers, n, out).timers
  BY LeftShape
<1> DEFINE sent == Sent(links, n, to, m)
           set == Engine!WithTimers(timers, n, <<x>>)
           Left0 == Left(links, timers, n, out)
<1>2. /\ out.sends = <<>> => Left0.links = links
      /\ out.sends = <<<<to, m>>>> => Left0.links = sent
      /\ out.timers = <<>> => Left0.timers = timers
      /\ out.timers = <<x>> => Left0.timers = set
  BY <1>0, LeftQuiet, LeftOne
<1>3. <<n, to>> \in L /\ m \in M =>
        /\ sent \in [L -> Seq(M)]
        /\ \A k \in L : sent[k] = IF k = <<n, to>> THEN Append(links[k], m) ELSE links[k]
        /\ \A k \in L : Items(sent[k]) \subseteq Items(links[k]) \cup (IF k = <<n, to>> THEN {m} ELSE {})
  BY <1>0, ItemsSent
<1>4. /\ set \in [DOMAIN timers \cup {<<n, x>>} -> Nat \ {0}]
      /\ \A t : Count(set, t) = Count(timers, t) + (IF t = <<n, x>> THEN 1 ELSE 0)
  <2>2. set \in [DOMAIN timers \cup {<<n, x>>} -> Nat \ {0}]
    BY <1>0, TimerAdded
  <2>3. \A t : Count(set, t) = Count(timers, t) + (IF t = <<n, x>> THEN 1 ELSE 0)
    BY <1>0, TimerCounted
  <2> QED
    BY <2>2, <2>3
<1>5. <<>> # <<<<to, m>>>> /\ <<>> # <<x>> /\ \A t : Count(timers, t) \in Nat
  BY <1>0 DEF Count
<1> HIDE DEF sent, set, Left0
<1>6. /\ net'.links \in [L -> Seq(M)]
      /\ \A k \in L : net'.links[k] = IF out.sends # <<>> /\ k = <<n, to>> THEN Append(links[k], m)
                                      ELSE links[k]
      /\ \A k \in L : Items(net'.links[k]) \subseteq
           Items(links[k]) \cup (IF out.sends # <<>> /\ k = <<n, to>> THEN {m} ELSE {})
  <2>1. CASE out.sends = <<>>
    <3>1. net'.links = links
      BY <1>1, <1>2, <2>1 DEF Left0
    <3> QED
      BY <1>0, <2>1, <3>1
  <2>2. CASE out.sends = <<<<to, m>>>> /\ <<n, to>> \in L /\ m \in M
    <3>1. net'.links = sent /\ out.sends # <<>>
      BY <1>1, <1>2, <1>5, <2>2 DEF Left0
    <3> QED
      BY <1>3, <2>2, <3>1
  <2> QED
    BY <2>1, <2>2
<1>7. /\ net'.timers \in [DOMAIN net'.timers -> Nat \ {0}]
      /\ DOMAIN net'.timers \subseteq DOMAIN timers \cup (IF out.timers = <<>> THEN {} ELSE {<<n, x>>})
      /\ \A t : Count(net'.timers, t) =
           Count(timers, t) + (IF out.timers # <<>> /\ t = <<n, x>> THEN 1 ELSE 0)
  <2>1. CASE out.timers = <<>>
    <3>1. net'.timers = timers
      BY <1>1, <1>2, <2>1 DEF Left0
    <3> QED
      BY <1>0, <1>5, <2>1, <3>1
  <2>2. CASE out.timers = <<x>>
    <3>1. net'.timers = set /\ out.timers # <<>>
      BY <1>1, <1>2, <1>5, <2>2 DEF Left0
    <3> QED
      BY <1>4, <2>2, <3>1
  <2> QED
    BY <2>1, <2>2
<1>8. Queue(net', L, M)
  BY <1>1, <1>6, <1>7 DEF Queue
<1> QED
  BY <1>1, <1>6, <1>7, <1>8 DEF Leaves

LEMMA WatchCounts ==
  ASSUME Queue(net, Wires, Letters)
  PROVE  /\ \A id : Watch(id) \in Nat /\ (Look(id) \in DOMAIN net.timers <=> Watch(id) # 0)
         /\ \A id \in DOMAIN net.timers : Count(net.timers, id) \in Nat \ {0}
         /\ \A id, jd : Look(id) = Look(jd) => id = jd
<1>1. net.timers \in [DOMAIN net.timers -> Nat \ {0}]
  BY DEF Queue
<1>2. \A id, jd : Look(id) = Look(jd) => id = jd
  BY DEF Look, Rabbit!CheckAck
<1> QED
  BY <1>1, <1>2 DEF Watch, Count

(* A message the step does not concern, and the link of the publisher. *)
LEMMA OnceKept ==
  ASSUME NEW id, OnceOf(id), Watch(id) \in Nat, Watch(id)' \in Nat, Watch(id)' <= Watch(id),
         state'.delivery[id] = state.delivery[id],
         id \in state'.produced <=> id \in state.produced,
         id \in state'.deadLetter <=> id \in state.deadLetter,
         id \in Held' => id \in Held,
         id \in Held' /\ env'.kills = 0 => env.kills = 0 /\ Watch(id)' = Watch(id)
  PROVE  OnceOf(id)'
BY DEF OnceOf

LEMMA InboxKept ==
  ASSUME Queue(net, Wires, Letters), InboxOnce, state'.produced = state.produced,
         \/ Link(Inbox)' = Link(Inbox)
         \/ \E i \in DOMAIN Link(Inbox) : Link(Inbox)' = Without(Link(Inbox), i)
  PROVE  InboxOnce'
<1>1. Link(Inbox) \in Seq(Letters)
  BY QueueNodes DEF Queue, Link
<1>2. Distinct(Link(Inbox)')
  BY <1>1, DistinctKept DEF InboxOnce
<1>3. Items(Link(Inbox)') \subseteq Items(Link(Inbox))
  BY <1>1, ItemsOf
<1>4. Coming(Inbox)' \subseteq Coming(Inbox)
  BY <1>3 DEF Coming, Items, Link
<1> QED
  BY <1>2, <1>4 DEF InboxOnce, Distinct, Link

(* What is left of the letters. *)
LEMMA LettersKept ==
  ASSUME HoldInv, hist.produced \subseteq hist'.produced, Rabbit!Processed \subseteq Rabbit!Processed',
         \A l \in Wires : \A m \in Coming(l)' : m \in Coming(l) \/ LetterRight(l, m)'
  PROVE  LettersRight'
<1>1. \A l \in Wires : \A m \in Coming(l) : LetterRight(l, m)'
  BY DEF HoldInv, LettersRight, LetterRight
<1> QED
  BY <1>1 DEF LettersRight

(* Nothing but the queue changes: letters and timers may go, or a link     *)
(* gets a copy.                                                            *)
LEMMA QueueStill ==
  ASSUME HoldInv, state' = state, hist' = hist, Queue(net', Wires, Letters), Counts',
         \A l \in Wires : Coming(l)' \subseteq Coming(l),
         DOMAIN net'.timers \subseteq DOMAIN net.timers,
         env'.dups = 0 => /\ env.dups = 0
                          /\ \/ Link(Inbox)' = Link(Inbox)
                             \/ \E i \in DOMAIN Link(Inbox) : Link(Inbox)' = Without(Link(Inbox), i),
         \A t : Count(net'.timers, t) <= Count(net.timers, t),
         env'.kills = 0 => /\ env.kills = 0
                           /\ \A id \in Held : Watch(id)' = Watch(id)
  PROVE  HoldInv'
<1>1. HoldTyped' /\ LooksRight' /\ NoneMissing'
  <2>1. HoldTyped'
    BY DEF HoldInv, HoldTyped, Held
  <2> QED
    BY <2>1 DEF HoldInv, LooksRight, NoneMissing, Held, Rabbit!Processed
<1>2. LettersRight'
  BY LettersKept DEF Rabbit!Processed
<1>3. Once'
  <2> SUFFICES ASSUME env'.dups = 0 PROVE InboxOnce' /\ \A id \in MessageId : OnceOf(id)'
    BY DEF Once
  <2>1. InboxOnce /\ \A id \in MessageId : OnceOf(id)
    BY DEF HoldInv, Once
  <2>2. InboxOnce'
    BY <2>1, InboxKept DEF HoldInv
  <2>3. ASSUME NEW id \in MessageId PROVE OnceOf(id)'
    <3>1. Watch(id) \in Nat /\ Watch(id)' \in Nat
      BY DEF Watch, Count, HoldInv, Queue
    <3>2. Watch(id)' <= Watch(id)
      BY DEF Watch, Look
    <3> QED
      BY <2>1, <3>1, <3>2, OnceKept DEF Held
  <2> QED
    BY <2>2, <2>3
<1> QED
  BY <1>1, <1>2, <1>3 DEF HoldInv

(* What is on its way and waits after a handler. *)
LEMMA QueueAfter ==
  ASSUME HoldInv, NEW links, NEW timers, NEW n, NEW out, NEW to, NEW m, NEW x,
         Leaves(Wires, Letters, links, timers, n, out, to, m, x),
         \A k \in Wires : Items(links[k]) \subseteq Coming(k), DOMAIN timers \subseteq DOMAIN net.timers,
         out.sends # <<>> => LetterRight(<<n, to>>, m)',
         out.timers # <<>> => \E id \in MessageId : <<n, x>> = Look(id),
         hist.produced \subseteq hist'.produced, Rabbit!Processed \subseteq Rabbit!Processed'
  PROVE  Queue(net', Wires, Letters) /\ LettersRight' /\ LooksRight'
<1>1. Queue(net', Wires, Letters)
  BY DEF Leaves
<1>2. LettersRight'
  <2>1. ASSUME NEW l \in Wires, NEW y \in Coming(l)' PROVE y \in Coming(l) \/ LetterRight(l, y)'
    <3>1. y \in Items(net'.links[l])
      BY DEF Coming, Link, Items
    <3>2. y \in Items(links[l]) \/ (out.sends # <<>> /\ l = <<n, to>> /\ y = m)
      BY <3>1 DEF Leaves
    <3> QED
      BY <3>2
  <2> QED
    BY <2>1, LettersKept
<1>3. LooksRight'
  <2>1. ASSUME NEW t \in DOMAIN net'.timers
        PROVE  t \in DOMAIN net.timers \/ \E id \in MessageId : t = Look(id)
    BY DEF Leaves
  <2>2. DOMAIN net.timers \subseteq {Look(id) : id \in MessageId}
    BY DEF HoldInv, LooksRight
  <2>3. DOMAIN net'.timers \subseteq {Look(id) : id \in MessageId}
    BY <2>1, <2>2
  <2> QED
    BY <2>3 DEF LooksRight, Look
<1> QED
  BY <1>1, <1>2, <1>3

LEMMA ProducedOnce ==
  ASSUME HoldInv, Rabbit!Produce
  PROVE  HoldInv'
<1>1. PICK id \in MessageId \ hist.produced :
        /\ hist' = [produced |-> hist.produced \cup {id}]
        /\ Rabbit!External("P", Rabbit!Out(state, <<<<"B", [kind |-> "publish", id |-> id]>>>>, <<>>))
  BY DEF Rabbit!Produce
<1> DEFINE m == [kind |-> "publish", id |-> id]
           out == Rabbit!Out(state, <<<<"B", m>>>>, <<>>)
<1>2. /\ out.state = state /\ out.sends = <<<<"B", m>>>> /\ out.timers = <<>>
      /\ m \in Letters /\ m.kind = "publish" /\ m.id = id
  BY DEF Rabbit!Out, Letters
<1>3. Handled(net.links, net.timers, "P", out) /\ env' = env
  BY <1>1, QueueEngine DEF Rabbit!External, Rabbit!Happens, Rabbit!Queued, Handled, Left
<1> HIDE DEF m, out
<1>4. /\ net.links \in [Wires -> Seq(Letters)] /\ net.timers \in [DOMAIN net.timers -> Nat \ {0}]
      /\ Inbox \in Wires /\ Inbox = <<"P", "B">>
  BY QueueNodes DEF HoldInv, Queue, Inbox
<1>5. Leaves(Wires, Letters, net.links, net.timers, "P", out, "B", m, "checkAck")
  BY <1>2, <1>3, <1>4, HandlerLeaves
<1>6. state' = state /\ <<>> # <<<<"B", m>>>> /\ hist'.produced = hist.produced \cup {id}
  BY <1>1, <1>2, <1>5 DEF Leaves
<1>7. Queue(net', Wires, Letters) /\ LettersRight' /\ LooksRight'
  <2>1. \A k \in Wires : Items(net.links[k]) \subseteq Coming(k)
    BY DEF Coming, Link, Items
  <2>2. LetterRight(Inbox, m)'
    BY <1>2, <1>6 DEF LetterRight
  <2>3. Rabbit!Processed' = Rabbit!Processed
    BY <1>6 DEF Rabbit!Processed
  <2> QED
    BY <1>2, <1>4, <1>5, <1>6, <2>1, <2>2, <2>3, QueueAfter
<1>8. HoldTyped' /\ NoneMissing' /\ Counts'
  <2>1. HoldTyped'
    BY <1>1, <1>6 DEF HoldInv, HoldTyped, Held
  <2>2. NoneMissing' /\ Counts'
    BY <1>3, <1>6 DEF HoldInv, NoneMissing, Held, Rabbit!Processed, Counts
  <2> QED
    BY <2>1, <2>2
<1>9. Once'
  <2> SUFFICES ASSUME env'.dups = 0 PROVE InboxOnce' /\ \A jd \in MessageId : OnceOf(jd)'
    BY DEF Once
  <2>1. InboxOnce /\ \A jd \in MessageId : OnceOf(jd)
    BY <1>3 DEF HoldInv, Once
  <2>2. Link(Inbox)' = Append(Link(Inbox), m) /\ Link(Inbox) \in Seq(Letters)
    BY <1>2, <1>4, <1>5, <1>6 DEF Leaves, Link
  <2>3. \A x \in Coming(Inbox) : x.id \in hist.produced /\ x.id # m.id
    <3>1. \A x \in Coming(Inbox) : x \in Letters
      BY <2>2, ElementOfSeq, LenProperties DEF Coming
    <3>2. \A x \in Coming(Inbox) : LetterRight(Inbox, x)
      BY <1>4 DEF HoldInv, LettersRight
    <3>3. Inbox[1] = "P" /\ "P" \notin Takers /\ Inbox[1] # "B"
      BY <1>4, QueueNodes
    <3> QED
      BY <1>2, <3>1, <3>2, <3>3 DEF LetterRight, Letters
  <2>4. Distinct(Append(Link(Inbox), m))
    <3>1. \A x \in Items(Link(Inbox)) : x.id # m.id
      BY <2>3 DEF Coming, Items
    <3> QED
      BY <1>2, <2>1, <2>2, <3>1, DistinctKept DEF InboxOnce
  <2>5. \A x \in Coming(Inbox)' : x.id \notin state.produced
    <3>1. \A x \in Items(Append(Link(Inbox), m)) : x \in Items(Link(Inbox)) \/ x = m
      BY <1>2, <2>2, ItemsOf
    <3>2. Coming(Inbox)' = Items(Append(Link(Inbox), m)) /\ Coming(Inbox) = Items(Link(Inbox))
      BY <2>2 DEF Coming, Items
    <3>3. m.id \notin state.produced
      BY <1>2 DEF HoldInv, HoldTyped
    <3> QED
      BY <2>1, <3>1, <3>2, <3>3 DEF InboxOnce
  <2>6. InboxOnce'
    BY <1>6, <2>2, <2>4, <2>5 DEF InboxOnce, Distinct
  <2>7. ASSUME NEW jd \in MessageId PROVE OnceOf(jd)'
    <3>1. Watch(jd) \in Nat /\ Watch(jd)' = Watch(jd) + 0
      BY <1>2, <1>5, WatchCounts DEF Leaves, Watch, Look, HoldInv
    <3> QED
      BY <1>3, <1>6, <2>1, <3>1, OnceKept DEF Held
  <2> QED
    BY <2>6, <2>7
<1> QED
  BY <1>7, <1>8, <1>9 DEF HoldInv

(* What an arrival leaves of its link, and the kinds of letters. *)
LEMMA LetterTaken ==
  ASSUME HoldInv, NEW l \in Wires, NEW i \in DOMAIN Link(l), Overtakes(i)
  PROVE  /\ Removed(net.links, l, i) \in [Wires -> Seq(Letters)]
         /\ \A k \in Wires : Items(Removed(net.links, l, i)[k]) \subseteq Coming(k)
         /\ Removed(net.links, l, i)[Inbox] = IF l = Inbox THEN Without(Link(Inbox), i) ELSE Link(Inbox)
         /\ net.timers \in [DOMAIN net.timers -> Nat \ {0}]
         /\ Link(l)[i] \in Letters /\ LetterRight(l, Link(l)[i])
         /\ Counts' /\ env'.kills = env.kills /\ env'.dups = env.dups
<1>1. net.links \in [Wires -> Seq(Letters)] /\ net.timers \in [DOMAIN net.timers -> Nat \ {0}]
  BY DEF HoldInv, Queue
<1>2. /\ Removed(net.links, l, i) \in [Wires -> Seq(Letters)]
      /\ \A k \in Wires : Items(Removed(net.links, l, i)[k]) \subseteq Coming(k)
      /\ \A k \in Wires : Removed(net.links, l, i)[k] = IF k = l THEN Without(Link(k), i) ELSE Link(k)
  <2>1. l \in Wires /\ i \in DOMAIN net.links[l]
    BY DEF Link
  <2>2. /\ Removed(net.links, l, i) \in [Wires -> Seq(Letters)]
        /\ \A k \in Wires : Removed(net.links, l, i)[k] =
                             IF k = l THEN Without(net.links[k], i) ELSE net.links[k]
        /\ \A k \in Wires : Items(Removed(net.links, l, i)[k]) \subseteq Items(net.links[k])
    BY <1>1, <2>1, ItemsRemoved
  <2>3. \A k : Coming(k) = Items(net.links[k])
    BY DEF Coming, Link, Items
  <2> QED
    BY <2>2, <2>3 DEF Link
<1>3. Link(l)[i] \in Letters /\ Link(l)[i] \in Coming(l)
  BY <1>1, ElementOfSeq, LenProperties DEF Link, Coming
<1>4. LetterRight(l, Link(l)[i])
  BY <1>3 DEF HoldInv, LettersRight
<1>5. Counts' /\ env'.kills = env.kills /\ env'.dups = env.dups
  BY ArrivalCounts DEF HoldInv
<1> QED
  BY <1>1, <1>2, <1>3, <1>4, <1>5, QueueNodes

LEMMA PublishHeld ==
  ASSUME HoldInv, NEW l \in Wires, NEW i \in DOMAIN Link(l), Overtakes(i), hist' = hist,
         Link(l)[i].kind = "publish",
         Handled(Removed(net.links, l, i), net.timers, l[2], Rabbit!OnPublish(l[1], l[2], Link(l)[i]))
  PROVE  HoldInv'
<1>0. PICK id, c : id = Link(l)[i].id /\ c = Rabbit!Consumers[state.rr]
  OBVIOUS
<1> DEFINE links == Removed(net.links, l, i)
           m == [kind |-> "deliver", id |-> id]
           out == Rabbit!OnPublish(l[1], l[2], Link(l)[i])
<1>1. /\ links \in [Wires -> Seq(Letters)] /\ \A k \in Wires : Items(links[k]) \subseteq Coming(k)
      /\ net.timers \in [DOMAIN net.timers -> Nat \ {0}]
      /\ Counts' /\ env'.kills = env.kills /\ env'.dups = env.dups
      /\ links[Inbox] = IF l = Inbox THEN Without(Link(Inbox), i) ELSE Link(Inbox)
  BY LetterTaken
<1>2. l = Inbox /\ id \in hist.produced /\ id \in MessageId /\ l[2] = "B" /\ HoldTyped
  BY <1>0, LetterTaken DEF LetterRight, Letters, HoldInv, Inbox
<1>3. /\ c \in Takers /\ (state.rr % Len(Rabbit!Consumers)) + 1 \in {1, 2}
      /\ <<"B", c>> \in Wires /\ <<"B", c>> # Inbox
  BY <1>0, <1>2, QueueNodes DEF HoldTyped, Inbox
<1>4. /\ out.state = [unacked |-> Rabbit!With(state.unacked, id, c), deadLetter |-> state.deadLetter,
                      rr |-> (state.rr % Len(Rabbit!Consumers)) + 1, delivery |-> state.delivery,
                      produced |-> state.produced \cup {id}, processed |-> state.processed]
      /\ out.sends = <<<<c, m>>>> /\ out.timers = <<Rabbit!CheckAck(id)>>
  BY <1>0, <1>2 DEF Rabbit!OnPublish, Rabbit!Dispatch, Rabbit!Out, HoldTyped
<1>5. m \in Letters /\ m.kind = "deliver" /\ <<"B", Rabbit!CheckAck(id)>> = Look(id)
  BY <1>2 DEF Letters, Look
<1>6. Handled(links, net.timers, "B", out)
  BY <1>2
<1> HIDE DEF out, links, m
<1>7. Leaves(Wires, Letters, links, net.timers, "B", out, c, m, Rabbit!CheckAck(id))
  BY <1>1, <1>3, <1>4, <1>5, <1>6, HandlerLeaves
<1>8. state' = out.state /\ out.sends # <<>> /\ out.timers # <<>>
  BY <1>4, <1>7 DEF Leaves
<1>9. Held' = Held \cup {id} /\ state'.unacked \in [Held' -> Takers]
  <2>1. state.unacked \in [Held -> Takers] /\ state'.unacked = Rabbit!With(state.unacked, id, c)
    BY <1>2, <1>4, <1>8 DEF HoldTyped
  <2> QED
    BY <1>3, <2>1 DEF Held, Rabbit!With
<1>10. HoldTyped' /\ NoneMissing' /\ Rabbit!Processed' = Rabbit!Processed
  <2>1. HoldTyped'
    BY <1>2, <1>3, <1>4, <1>8, <1>9 DEF HoldTyped
  <2>2. Rabbit!Processed' = Rabbit!Processed
    BY <1>4, <1>8 DEF Rabbit!Processed
  <2> QED
    BY <1>4, <1>8, <1>9, <2>1, <2>2 DEF HoldInv, NoneMissing
<1>11. Queue(net', Wires, Letters) /\ LettersRight' /\ LooksRight'
  <2>1. LetterRight(<<"B", c>>, m)'
    BY <1>3, <1>5 DEF LetterRight
  <2> QED
    BY <1>1, <1>2, <1>5, <1>7, <1>10, <2>1, QueueAfter
<1>12. Once'
  <2> SUFFICES ASSUME env'.dups = 0 PROVE InboxOnce' /\ \A jd \in MessageId : OnceOf(jd)'
    BY DEF Once
  <2>1. InboxOnce /\ \A jd \in MessageId : OnceOf(jd)
    BY <1>1 DEF HoldInv, Once
  <2>2. Link(Inbox) \in Seq(Letters) /\ id = Link(Inbox)[i].id /\ i \in DOMAIN Link(Inbox)
    BY <1>0, <1>2, QueueNodes DEF HoldInv, Queue, Link
  <2>3. id \notin state.produced
    BY <2>1, <2>2 DEF InboxOnce, Coming
  <2>4. Link(Inbox)' = Without(Link(Inbox), i)
    BY <1>1, <1>2, <1>3, <1>7, QueueNodes DEF Leaves, Link
  <2>5. InboxOnce'
    <3>1. Distinct(Without(Link(Inbox), i)) /\ \A y \in Items(Without(Link(Inbox), i)) : y.id # id
      BY <2>1, <2>2, DistinctKept DEF InboxOnce
    <3>2. Items(Without(Link(Inbox), i)) \subseteq Coming(Inbox)
      <4>1. Items(Without(Link(Inbox), i)) \subseteq Items(Link(Inbox))
        BY <2>2, ItemsOf
      <4> QED
        BY <4>1 DEF Coming, Items
    <3>3. Coming(Inbox)' = Items(Without(Link(Inbox), i))
      BY <2>4 DEF Coming, Items
    <3>4. Distinct(Link(Inbox))'
      BY <2>4, <3>1 DEF Distinct
    <3> QED
      BY <1>4, <1>8, <2>1, <3>1, <3>2, <3>3, <3>4 DEF InboxOnce
  <2>6. ASSUME NEW jd \in MessageId PROVE OnceOf(jd)'
    <3>1. /\ Watch(jd) \in Nat /\ Watch(jd)' = Watch(jd) + (IF jd = id THEN 1 ELSE 0)
      BY <1>5, <1>7, <1>8, WatchCounts DEF Leaves, Watch, Look, HoldInv
    <3>2. CASE jd = id
      <4>1. OnceOf(id)
        BY <2>1, <3>2
      <4>2. Watch(id)' = 1 /\ state'.delivery[id] = 0 /\ id \notin state'.deadLetter /\ id \in state'.produced
        BY <1>2, <1>4, <1>8, <2>3, <3>1, <3>2, <4>1 DEF OnceOf, HoldTyped
      <4> QED
        BY <3>2, <4>2, LimitAssumption DEF OnceOf
    <3>3. CASE jd # id
      <4>1. /\ Watch(jd)' = Watch(jd) /\ state'.delivery[jd] = state.delivery[jd]
            /\ (jd \in state'.produced <=> jd \in state.produced)
            /\ state'.deadLetter = state.deadLetter /\ (jd \in Held' => jd \in Held)
        BY <1>4, <1>8, <1>9, <3>1, <3>3
      <4> QED
        BY <1>1, <2>1, <3>1, <4>1, OnceKept
    <3> QED
      BY <3>2, <3>3
  <2> QED
    BY <2>5, <2>6
<1> QED
  BY <1>1, <1>10, <1>11, <1>12 DEF HoldInv

(* A consumer processes a delivery and acknowledges it. *)
LEMMA DeliverHeld ==
  ASSUME HoldInv, NEW l \in Wires, NEW i \in DOMAIN Link(l), Overtakes(i), hist' = hist,
         Link(l)[i].kind = "deliver",
         Handled(Removed(net.links, l, i), net.timers, l[2], Rabbit!OnDeliver(l[1], l[2], Link(l)[i]))
  PROVE  HoldInv'
<1>0. PICK id : id = Link(l)[i].id
  OBVIOUS
<1> DEFINE links == Removed(net.links, l, i)
           n == l[2]
           m == [kind |-> "ack", id |-> id]
           out == Rabbit!OnDeliver(l[1], l[2], Link(l)[i])
<1>1. /\ links \in [Wires -> Seq(Letters)] /\ \A k \in Wires : Items(links[k]) \subseteq Coming(k)
      /\ net.timers \in [DOMAIN net.timers -> Nat \ {0}]
      /\ Counts' /\ env'.kills = env.kills /\ env'.dups = env.dups
      /\ links[Inbox] = IF l = Inbox THEN Without(Link(Inbox), i) ELSE Link(Inbox)
  BY LetterTaken
<1>2. n \in Takers /\ id \in MessageId /\ HoldTyped
  BY <1>0, LetterTaken DEF LetterRight, Letters, HoldInv
<1>3. <<n, "B">> \in Wires /\ <<n, "B">> # Inbox
  BY <1>2, QueueNodes DEF Inbox
<1>4. /\ out.state = [unacked |-> state.unacked, deadLetter |-> state.deadLetter, rr |-> state.rr,
                      delivery |-> state.delivery, produced |-> state.produced,
                      processed |-> [state.processed EXCEPT ![n] = @ \cup {id}]]
      /\ out.sends = <<<<"B", m>>>> /\ out.timers = <<>>
  BY <1>0, <1>2 DEF Rabbit!OnDeliver, Rabbit!Out, HoldTyped
<1>5. m \in Letters /\ m.kind = "ack" /\ m.id = id
  BY <1>2 DEF Letters
<1>6. Handled(links, net.timers, n, out)
  OBVIOUS
<1> HIDE DEF out, links, m, n
<1>7. Leaves(Wires, Letters, links, net.timers, n, out, "B", m, "checkAck")
  BY <1>1, <1>3, <1>4, <1>5, <1>6, HandlerLeaves
<1>8. state' = out.state /\ out.sends # <<>>
  BY <1>4, <1>7 DEF Leaves
<1>9. Rabbit!Processed' = Rabbit!Processed \cup {id} /\ state'.processed \in [Takers -> SUBSET MessageId]
  <2>1. /\ state.processed \in [Takers -> SUBSET MessageId]
        /\ state'.processed = [state.processed EXCEPT ![n] = @ \cup {id}]
    BY <1>2, <1>4, <1>8 DEF HoldTyped
  <2> QED
    BY <1>2, <2>1 DEF Rabbit!Processed, Takers
<1>10. HoldTyped' /\ NoneMissing'
  <2>1. HoldTyped'
    BY <1>2, <1>4, <1>8, <1>9 DEF HoldTyped, Held
  <2> QED
    BY <1>4, <1>8, <1>9, <2>1 DEF HoldInv, NoneMissing, Held
<1>11. Queue(net', Wires, Letters) /\ LettersRight' /\ LooksRight'
  <2>1. LetterRight(<<n, "B">>, m)'
    BY <1>2, <1>5, <1>9 DEF LetterRight, n
  <2> QED
    BY <1>1, <1>4, <1>7, <1>9, <2>1, QueueAfter
<1>12. Once'
  <2> SUFFICES ASSUME env'.dups = 0 PROVE InboxOnce' /\ \A jd \in MessageId : OnceOf(jd)'
    BY DEF Once
  <2>1. InboxOnce /\ \A jd \in MessageId : OnceOf(jd)
    BY <1>1 DEF HoldInv, Once
  <2>2. Link(Inbox)' = IF l = Inbox THEN Without(Link(Inbox), i) ELSE Link(Inbox)
    BY <1>1, <1>3, <1>7, QueueNodes DEF Leaves, Link
  <2>3. InboxOnce'
    BY <1>4, <1>8, <2>1, <2>2, InboxKept DEF HoldInv
  <2>4. ASSUME NEW jd \in MessageId PROVE OnceOf(jd)'
    <3>1. Watch(jd) \in Nat /\ Watch(jd)' = Watch(jd) + 0
      BY <1>4, <1>7, WatchCounts DEF Leaves, Watch, Look, HoldInv
    <3> QED
      BY <1>1, <1>4, <1>8, <2>1, <3>1, OnceKept DEF Held
  <2> QED
    BY <2>3, <2>4
<1> QED
  BY <1>1, <1>10, <1>11, <1>12 DEF HoldInv

(* The broker lets go of what is acknowledged: it was processed. *)
LEMMA AckHeld ==
  ASSUME HoldInv, NEW l \in Wires, NEW i \in DOMAIN Link(l), Overtakes(i), hist' = hist,
         Link(l)[i].kind = "ack",
         Handled(Removed(net.links, l, i), net.timers, l[2], Rabbit!OnAck(l[1], l[2], Link(l)[i]))
  PROVE  HoldInv'
<1>0. PICK id : id = Link(l)[i].id
  OBVIOUS
<1> DEFINE links == Removed(net.links, l, i)
           n == l[2]
           m == [kind |-> "ack", id |-> id]
           out == Rabbit!OnAck(l[1], l[2], Link(l)[i])
<1>1. /\ links \in [Wires -> Seq(Letters)] /\ \A k \in Wires : Items(links[k]) \subseteq Coming(k)
      /\ net.timers \in [DOMAIN net.timers -> Nat \ {0}]
      /\ Counts' /\ env'.kills = env.kills /\ env'.dups = env.dups
      /\ links[Inbox] = IF l = Inbox THEN Without(Link(Inbox), i) ELSE Link(Inbox)
  BY LetterTaken
<1>2. id \in MessageId /\ id \in Rabbit!Processed /\ HoldTyped
  BY <1>0, LetterTaken DEF LetterRight, Letters, HoldInv
<1>3. /\ out.state = [unacked |-> Rabbit!Without(state.unacked, id), deadLetter |-> state.deadLetter,
                      rr |-> state.rr, delivery |-> state.delivery, produced |-> state.produced,
                      processed |-> state.processed]
      /\ out.sends = <<>> /\ out.timers = <<>>
  BY <1>0, <1>2 DEF Rabbit!OnAck, Rabbit!Quiet, Rabbit!Out, HoldTyped
<1>4. Handled(links, net.timers, n, out)
  OBVIOUS
<1> HIDE DEF out, links, m, n
<1>5. Leaves(Wires, Letters, links, net.timers, n, out, "B", m, "checkAck")
  BY <1>1, <1>3, <1>4, HandlerLeaves
<1>6. state' = out.state
  BY <1>5 DEF Leaves
<1>7. Held' = Held \ {id} /\ state'.unacked \in [Held' -> Takers]
  <2>1. state.unacked \in [Held -> Takers] /\ state'.unacked = Rabbit!Without(state.unacked, id)
    BY <1>2, <1>3, <1>6 DEF HoldTyped
  <2> QED
    BY <2>1 DEF Held, Rabbit!Without
<1>8. HoldTyped' /\ NoneMissing' /\ Rabbit!Processed' = Rabbit!Processed
  <2>1. HoldTyped'
    BY <1>2, <1>3, <1>6, <1>7 DEF HoldTyped
  <2>2. Rabbit!Processed' = Rabbit!Processed
    BY <1>3, <1>6 DEF Rabbit!Processed
  <2> QED
    BY <1>2, <1>3, <1>6, <1>7, <2>1, <2>2 DEF HoldInv, NoneMissing
<1>9. Queue(net', Wires, Letters) /\ LettersRight' /\ LooksRight'
  BY <1>1, <1>3, <1>5, <1>8, QueueAfter
<1>10. Once'
  <2> SUFFICES ASSUME env'.dups = 0 PROVE InboxOnce' /\ \A jd \in MessageId : OnceOf(jd)'
    BY DEF Once
  <2>1. InboxOnce /\ \A jd \in MessageId : OnceOf(jd)
    BY <1>1 DEF HoldInv, Once
  <2>2. Link(Inbox)' = IF l = Inbox THEN Without(Link(Inbox), i) ELSE Link(Inbox)
    BY <1>1, <1>3, <1>5, QueueNodes DEF Leaves, Link
  <2>3. InboxOnce'
    BY <1>3, <1>6, <2>1, <2>2, InboxKept DEF HoldInv
  <2>4. ASSUME NEW jd \in MessageId PROVE OnceOf(jd)'
    <3>1. Watch(jd) \in Nat /\ Watch(jd)' = Watch(jd) + 0
      BY <1>3, <1>5, WatchCounts DEF Leaves, Watch, Look, HoldInv
    <3> QED
      BY <1>1, <1>3, <1>6, <1>7, <2>1, <3>1, OnceKept
  <2> QED
    BY <2>3, <2>4
<1> QED
  BY <1>1, <1>8, <1>9, <1>10 DEF HoldInv

(* The timer of a message: it is held no more, or given up, or sent to the *)
(* other consumer with a new timer.                                        *)
LEMMA CheckAckHeld ==
  ASSUME HoldInv, NEW t \in DOMAIN net.timers, env' = env, hist' = hist,
         Handled(net.links, Engine!WithoutTimer(net.timers, t), t[1], Rabbit!OnCheckAck(t[1], t[2]))
  PROVE  HoldInv'
<1>0. PICK id \in MessageId : t = Look(id)
  BY DEF HoldInv, LooksRight
<1>1. PICK a, c : a = state.delivery[id] + 1 /\ c = Rabbit!Other(state.unacked[id])
  OBVIOUS
<1> DEFINE rest == Engine!WithoutTimer(net.timers, t)
           m == [kind |-> "deliver", id |-> id]
           out == Rabbit!OnCheckAck("B", t[2])
           x == Rabbit!CheckAck(id)
           checked == [state.delivery EXCEPT ![id] = a]
<1>2. /\ t = <<"B", x>> /\ t[2].id = id /\ t[1] = "B"
      /\ m \in Letters /\ m.kind = "deliver"
  BY <1>0 DEF Look, Rabbit!CheckAck, Letters
<1>3. /\ HoldTyped /\ net.links \in [Wires -> Seq(Letters)]
      /\ net.timers \in [DOMAIN net.timers -> Nat \ {0}] /\ Queue(net, Wires, Letters)
  BY DEF HoldInv, Queue
<1>4. /\ rest \in [DOMAIN rest -> Nat \ {0}] /\ DOMAIN rest \subseteq DOMAIN net.timers
      /\ \A y : Count(rest, y) = Count(net.timers, y) - (IF y = t THEN 1 ELSE 0)
  BY <1>3, TimerTaken
<1>5. /\ state.delivery[id] \in Nat /\ a \in Nat /\ checked \in [MessageId -> Nat]
      /\ id \in Held => c \in Takers /\ <<"B", c>> \in Wires /\ <<"B", c>> # Inbox
  <2>1. state.delivery[id] \in Nat /\ a \in Nat
    BY <1>1, <1>3 DEF HoldTyped
  <2>2. checked \in [MessageId -> Nat]
    BY <1>3, <2>1 DEF HoldTyped
  <2>3. id \in Held => state.unacked[id] \in Takers
    BY <1>3 DEF HoldTyped
  <2>4. id \in Held => c \in Takers
    BY <1>1, <2>3, QueueNodes
  <2> QED
    BY <2>1, <2>2, <2>4, QueueNodes DEF Inbox
<1>6. id \notin Held => out.state = state /\ out.sends = <<>> /\ out.timers = <<>>
  BY <1>2 DEF Rabbit!OnCheckAck, Rabbit!Quiet, Rabbit!Out, Held
<1>7. id \in Held /\ a >= DeliveryLimit =>
        /\ out.state = [unacked |-> Rabbit!Without(state.unacked, id),
                        deadLetter |-> state.deadLetter \cup {id}, rr |-> state.rr,
                        delivery |-> checked, produced |-> state.produced, processed |-> state.processed]
        /\ out.sends = <<>> /\ out.timers = <<>>
  BY <1>1, <1>2, <1>3 DEF Rabbit!OnCheckAck, Rabbit!Quiet, Rabbit!Out, Held, HoldTyped
<1>8. id \in Held /\ ~(a >= DeliveryLimit) =>
        /\ out.state = [unacked |-> Rabbit!With(state.unacked, id, c),
                        deadLetter |-> state.deadLetter, rr |-> state.rr,
                        delivery |-> checked, produced |-> state.produced, processed |-> state.processed]
        /\ out.sends = <<<<c, m>>>> /\ out.timers = <<x>>
  BY <1>1, <1>2, <1>3 DEF Rabbit!OnCheckAck, Rabbit!Dispatch, Rabbit!Out, Held, HoldTyped
<1>9. Handled(net.links, rest, "B", out)
  BY <1>2
<1> HIDE DEF out, m, x, rest
<1>10. Leaves(Wires, Letters, net.links, rest, "B", out, c, m, x)
  <2>1. out.timers = <<>> \/ out.timers = <<x>>
    BY <1>6, <1>7, <1>8
  <2>2. out.sends = <<>> \/ (out.sends = <<<<c, m>>>> /\ <<"B", c>> \in Wires /\ m \in Letters)
    BY <1>2, <1>5, <1>6, <1>7, <1>8
  <2> QED
    BY <1>3, <1>4, <1>9, <2>1, <2>2, HandlerLeaves
<1>11. state' = out.state /\ Counts' /\ env'.dups = env.dups /\ env'.kills = env.kills
  BY <1>10 DEF Leaves, HoldInv, Counts
<1>12. /\ Rabbit!Processed' = Rabbit!Processed /\ state'.produced = state.produced
       /\ state'.processed = state.processed
  <2>1. state'.processed = state.processed /\ state'.produced = state.produced
    BY <1>6, <1>7, <1>8, <1>11
  <2> QED
    BY <2>1 DEF Rabbit!Processed
<1>13. Queue(net', Wires, Letters) /\ LettersRight' /\ LooksRight'
  <2>1. out.sends # <<>> => LetterRight(<<"B", c>>, m)'
    BY <1>2, <1>5, <1>6, <1>7, <1>8 DEF LetterRight
  <2>2. <<"B", x>> = Look(id)
    BY <1>0, <1>2
  <2>3. \A k \in Wires : Items(net.links[k]) \subseteq Coming(k)
    BY DEF Coming, Link, Items
  <2> QED
    BY <1>4, <1>10, <1>12, <2>1, <2>2, <2>3, QueueAfter
<1>14. \A jd : Watch(jd)' = Watch(jd) - (IF jd = id THEN 1 ELSE 0)
                              + (IF out.timers # <<>> /\ jd = id THEN 1 ELSE 0)
  <2> SUFFICES ASSUME NEW jd
               PROVE  Watch(jd)' = Watch(jd) - (IF jd = id THEN 1 ELSE 0)
                                     + (IF out.timers # <<>> /\ jd = id THEN 1 ELSE 0)
    OBVIOUS
  <2>1. Look(jd) = t <=> jd = id
    BY <1>0, <1>3, WatchCounts
  <2>2. Watch(jd)' = Count(rest, Look(jd)) + (IF out.timers # <<>> /\ Look(jd) = t THEN 1 ELSE 0)
    BY <1>2, <1>10 DEF Leaves, Watch, Look
  <2> QED
    BY <1>4, <2>1, <2>2 DEF Watch
<1>15. Link(Inbox)' = Link(Inbox)
  BY <1>5, <1>6, <1>7, <1>8, <1>10, QueueNodes DEF Leaves, Link
<1>16. CASE id \notin Held
  <2>1. state' = state /\ <<>> = out.timers
    BY <1>6, <1>11, <1>16
  <2>2. HoldTyped' /\ NoneMissing'
    BY <2>1, <1>3, <1>12 DEF HoldTyped, HoldInv, NoneMissing, Held
  <2>3. Once'
    <3> SUFFICES ASSUME env'.dups = 0 PROVE InboxOnce' /\ \A jd \in MessageId : OnceOf(jd)'
      BY DEF Once
    <3>1. InboxOnce /\ \A jd \in MessageId : OnceOf(jd)
      BY <1>11 DEF HoldInv, Once
    <3>2. InboxOnce'
      BY <1>3, <1>12, <1>15, <3>1, InboxKept
    <3>3. ASSUME NEW jd \in MessageId PROVE OnceOf(jd)'
      <4>1. Watch(jd) \in Nat /\ Watch(jd)' = Watch(jd) - (IF jd = id THEN 1 ELSE 0)
        BY <1>3, <1>14, <2>1, WatchCounts
      <4>2. Watch(jd)' \in Nat /\ Watch(jd)' <= Watch(jd) /\ (jd \in Held => Watch(jd)' = Watch(jd))
        <5>1. Watch(id) # 0
          BY <1>0, <1>3, WatchCounts
        <5> QED
          BY <1>16, <4>1, <5>1
      <4> QED
        BY <1>11, <2>1, <3>1, <4>1, <4>2, OnceKept DEF Held
    <3> QED
      BY <3>2, <3>3
  <2> QED
    BY <1>11, <1>13, <2>2, <2>3 DEF HoldInv
<1>17. ASSUME id \in Held,
              Held' \subseteq Held, Held \ {id} \subseteq Held', state'.unacked \in [Held' -> Takers],
              state'.delivery = checked, state'.deadLetter \subseteq state.deadLetter \cup {id},
              state.deadLetter \subseteq state'.deadLetter, state'.rr = state.rr,
              state' = [unacked |-> state'.unacked, deadLetter |-> state'.deadLetter, rr |-> state'.rr,
                        delivery |-> state'.delivery, produced |-> state'.produced,
                        processed |-> state'.processed],
              id \in Held' \/ id \in state'.deadLetter,
              OnceOf(id) => OnceOf(id)'
       PROVE  HoldInv'
  <2>1. HoldTyped'
    BY <1>3, <1>5, <1>12, <1>17 DEF HoldTyped
  <2>2. NoneMissing'
    BY <1>12, <1>17 DEF HoldInv, NoneMissing
  <2>3. Once'
    <3> SUFFICES ASSUME env'.dups = 0 PROVE InboxOnce' /\ \A jd \in MessageId : OnceOf(jd)'
      BY DEF Once
    <3>1. InboxOnce /\ \A jd \in MessageId : OnceOf(jd)
      BY <1>11 DEF HoldInv, Once
    <3>2. InboxOnce'
      BY <1>3, <1>12, <1>15, <3>1, InboxKept
    <3>3. ASSUME NEW jd \in MessageId PROVE OnceOf(jd)'
      <4>1. CASE jd = id
        BY <1>17, <3>1, <4>1
      <4>2. CASE jd # id
        <5>1. Watch(jd) \in Nat /\ Watch(jd)' = Watch(jd)
          BY <1>3, <1>14, <4>2, WatchCounts
        <5>2. state'.delivery[jd] = state.delivery[jd]
          BY <1>3, <1>17, <4>2 DEF HoldTyped
        <5> QED
          BY <1>11, <1>12, <1>17, <3>1, <4>2, <5>1, <5>2, OnceKept
      <4> QED
        BY <4>1, <4>2
    <3> QED
      BY <3>2, <3>3
  <2> QED
    BY <1>11, <1>13, <2>1, <2>2, <2>3 DEF HoldInv
<1>18. CASE id \in Held /\ a >= DeliveryLimit
  <2>1. state' = out.state /\ <<>> = out.timers
    BY <1>7, <1>11, <1>18
  <2>2. Held' = Held \ {id} /\ state'.unacked \in [Held' -> Takers]
    <3>1. state.unacked \in [Held -> Takers] /\ state'.unacked = Rabbit!Without(state.unacked, id)
      BY <1>3, <1>7, <1>18, <2>1 DEF HoldTyped
    <3> QED
      BY <3>1 DEF Held, Rabbit!Without
  <2>3. OnceOf(id) => OnceOf(id)'
    <3> SUFFICES ASSUME OnceOf(id) PROVE OnceOf(id)'
      OBVIOUS
    <3>1. state'.delivery[id] = a /\ a = DeliveryLimit /\ Watch(id)' <= 1 /\ id \in state.produced
      <4>1. state.delivery[id] < DeliveryLimit /\ Watch(id) <= 1 /\ Watch(id) \in Nat
        BY <1>3, <1>18, WatchCounts DEF OnceOf
      <4>2. a = DeliveryLimit
        BY <1>1, <1>5, <1>18, <4>1, LimitAssumption
      <4>3. Watch(id)' = Watch(id) - 1
        BY <1>14, <2>1, <4>1
      <4>4. state'.delivery[id] = a
        BY <1>3, <1>7, <1>18, <2>1 DEF HoldTyped
      <4>5. id \in state.produced
        BY <1>3, <1>18 DEF HoldTyped
      <4> QED
        BY <4>1, <4>2, <4>3, <4>4, <4>5
    <3> QED
      BY <1>12, <2>2, <3>1, LimitAssumption DEF OnceOf
  <2> QED
    BY <1>7, <1>17, <1>18, <2>1, <2>2, <2>3
<1>19. CASE id \in Held /\ ~(a >= DeliveryLimit)
  <2>1. state' = out.state /\ out.timers # <<>>
    BY <1>8, <1>11, <1>19
  <2>2. Held' = Held /\ state'.unacked \in [Held' -> Takers]
    <3>1. state.unacked \in [Held -> Takers] /\ state'.unacked = Rabbit!With(state.unacked, id, c)
      BY <1>3, <1>8, <1>19, <2>1 DEF HoldTyped
    <3> QED
      BY <1>5, <1>19, <3>1 DEF Held, Rabbit!With
  <2>3. OnceOf(id) => OnceOf(id)'
    <3> SUFFICES ASSUME OnceOf(id) PROVE OnceOf(id)'
      OBVIOUS
    <3>1. state'.delivery[id] = a /\ a < DeliveryLimit /\ Watch(id)' = Watch(id) /\ id \in state.produced
      <4>1. Watch(id) \in Nat
        BY <1>3, WatchCounts
      <4>2. Watch(id)' = Watch(id)
        BY <1>14, <2>1, <4>1
      <4>3. state'.delivery[id] = a
        BY <1>3, <1>8, <1>19, <2>1 DEF HoldTyped
      <4>4. id \in state.produced /\ a < DeliveryLimit
        BY <1>3, <1>5, <1>19, LimitAssumption DEF HoldTyped
      <4> QED
        BY <4>2, <4>3, <4>4
    <3>2. state'.deadLetter = state.deadLetter
      BY <1>8, <1>19, <2>1
    <3> QED
      BY <1>5, <1>11, <1>12, <1>19, <2>2, <3>1, <3>2, LimitAssumption DEF OnceOf
  <2> QED
    BY <1>8, <1>17, <1>19, <2>1, <2>2, <2>3
<1> QED
  BY <1>16, <1>18, <1>19

LEMMA HoldNext ==
  ASSUME HoldInv, [Rabbit!Next]_Rabbit!vars
  PROVE  HoldInv'
<1>1. CASE Rabbit!Produce
  BY <1>1, ProducedOnce
<1>2. CASE \/ Rabbit!Receive("publish", Rabbit!OnPublish) /\ UNCHANGED hist
           \/ Rabbit!Receive("deliver", Rabbit!OnDeliver) /\ UNCHANGED hist
           \/ Rabbit!Receive("ack", Rabbit!OnAck) /\ UNCHANGED hist
  <2>1. Queue(net, Wires, Letters)
    BY DEF HoldInv
  <2>2. PICK l \in Wires : \E i \in DOMAIN Link(l) :
          /\ Overtakes(i) /\ hist' = hist
          /\ LET Runs(out) == Handled(Removed(net.links, l, i), net.timers, l[2], out)
                 m == Link(l)[i]
             IN \/ m.kind = "publish" /\ Runs(Rabbit!OnPublish(l[1], l[2], m))
                \/ m.kind = "deliver" /\ Runs(Rabbit!OnDeliver(l[1], l[2], m))
                \/ m.kind = "ack" /\ Runs(Rabbit!OnAck(l[1], l[2], m))
    BY <1>2, <2>1, QueueReceive
  <2> QED
    BY <2>2, PublishHeld, DeliverHeld, AckHeld
<1>3. CASE Rabbit!Fire("checkAck", Rabbit!OnCheckAck) /\ UNCHANGED hist
  <2>1. Queue(net, Wires, Letters)
    BY DEF HoldInv
  <2> QED
    BY <1>3, <2>1, CheckAckStep, CheckAckHeld
<1>4. CASE Rabbit!Fault
  <2>1. Queue(net, Wires, Letters) /\ Counts /\ Faults(Wires) /\ state' = state /\ hist' = hist
    BY <1>4, QueueFaults DEF HoldInv
  <2>2. Harmed(Wires) /\ Counts' /\ (env'.kills = 0 => env.kills = 0)
    BY <2>1, FaultHarms
  <2>3. /\ Queue(net', Wires, Letters)
        /\ \A l \in Wires : Items(net'.links[l]) \subseteq Items(net.links[l])
        /\ DOMAIN net'.timers \subseteq DOMAIN net.timers
        /\ env.kills = 0 => net'.timers = net.timers
        /\ \A t : Count(net'.timers, t) <= Count(net.timers, t)
    BY <2>1, <2>2, HarmedQueue
  <2>4. \A l \in Wires : Coming(l)' \subseteq Coming(l)
    BY <2>3 DEF Coming, Link, Items
  <2>5. env'.dups = 0 =>
          /\ env.dups = 0
          /\ \/ Link(Inbox)' = Link(Inbox)
             \/ \E i \in DOMAIN Link(Inbox) : Link(Inbox)' = Without(Link(Inbox), i)
    <3> SUFFICES ASSUME env'.dups = 0
                 PROVE  /\ env.dups = 0
                        /\ \/ Link(Inbox)' = Link(Inbox)
                           \/ \E i \in DOMAIN Link(Inbox) : Link(Inbox)' = Without(Link(Inbox), i)
      OBVIOUS
    <3>1. env.dups \in Nat
      BY <2>1 DEF Counts
    <3>2. CASE Spared
      BY <3>2 DEF Spared, Same, Link
    <3>3. CASE \E l \in Wires : \E i \in DOMAIN net.links[l] : LosesAt(l, i)
      <4>1. PICK l \in Wires : \E i \in DOMAIN net.links[l] : LosesAt(l, i)
        BY <3>3
      <4>2. PICK i \in DOMAIN net.links[l] : LosesAt(l, i)
        BY <4>1
      <4>3. net.links \in [Wires -> Seq(Letters)]
        BY <2>1 DEF Queue
      <4>4. Removed(net.links, l, i)[Inbox] = IF Inbox = l THEN Without(Link(Inbox), i) ELSE Link(Inbox)
        <5>1. \A k \in Wires : Removed(net.links, l, i)[k] =
                               IF k = l THEN Without(net.links[k], i) ELSE net.links[k]
          BY <4>2, <4>3, ItemsRemoved
        <5> QED
          BY <5>1, QueueNodes DEF Link
      <4> QED
        BY <4>2, <4>4 DEF LosesAt, Same, Link
    <3>4. CASE \E l \in Wires : \E i \in DOMAIN net.links[l] : CopiesAt(l, i)
      BY <3>1, <3>4 DEF CopiesAt
    <3>5. CASE \E t \in DOMAIN net.timers : MissesTimer(t)
      <4>1. PICK t \in DOMAIN net.timers : MissesTimer(t)
        BY <3>5
      <4> QED
        BY <4>1 DEF MissesTimer, Same, Link
    <3> QED
      BY <2>2, <3>2, <3>3, <3>4, <3>5 DEF Harmed
  <2>6. env'.kills = 0 => env.kills = 0 /\ \A id \in Held : Watch(id)' = Watch(id)
    BY <2>2, <2>3 DEF Watch, Look
  <2> QED
    BY <2>1, <2>2, <2>3, <2>4, <2>5, <2>6, QueueStill
<1>5. CASE UNCHANGED Rabbit!vars
  <2>1. state' = state /\ net' = net /\ env' = env /\ hist' = hist
    BY <1>5 DEF Rabbit!vars
  <2>2. Queue(net', Wires, Letters) /\ Counts'
    BY <2>1 DEF HoldInv, Counts
  <2>3. \A l \in Wires : Coming(l)' = Coming(l)
    BY <2>1 DEF Coming, Link
  <2>4. \A t : Count(net.timers, t) \in Nat
    BY DEF Count, HoldInv, Queue
  <2>5. \A id : Watch(id)' = Watch(id)
    BY <2>1 DEF Watch, Look
  <2> QED
    BY <2>1, <2>2, <2>3, <2>4, <2>5, QueueStill DEF Link
<1> QED
  BY <1>1, <1>2, <1>3, <1>4, <1>5 DEF Rabbit!Next

LEMMA HoldInit == Rabbit!Init => HoldInv
<1> SUFFICES ASSUME Rabbit!Init PROVE HoldInv
  OBVIOUS
<1>1. /\ state = [unacked |-> [i \in {} |-> "C1"], deadLetter |-> {}, rr |-> 1,
                  delivery |-> [i \in MessageId |-> 0], produced |-> {},
                  processed |-> [c \in Takers |-> {}]]
      /\ net = [links |-> [l \in Wires |-> <<>>], timers |-> [t \in {} |-> 0]]
      /\ env = [dead |-> {}, falls |-> env.falls, kills |-> 0, revives |-> 0,
                drops |-> 0, dups |-> 0, late |-> 0, lost |-> 0]
      /\ hist = [produced |-> {}]
  BY DEF Rabbit!Init, Rabbit!NoEvents, Rabbit!Calm, Takers, Wires
<1>2. Held = {} /\ DOMAIN net.timers = {}
  BY <1>1 DEF Held
<1>3. HoldTyped
  BY <1>1 DEF HoldTyped, Held
<1>4. Queue(net, Wires, Letters)
  <2>1. net.links \in [Wires -> Seq(Letters)]
    BY <1>1
  <2> QED
    BY <1>1, <1>2, <2>1 DEF Queue
<1>5. Counts
  BY <1>1 DEF Counts
<1>6. \A l \in Wires : Coming(l) = {}
  BY <1>1 DEF Coming, Link
<1>7. LettersRight /\ LooksRight /\ NoneMissing
  BY <1>1, <1>2, <1>6 DEF LettersRight, LooksRight, NoneMissing
<1>8. Once
  <2>1. InboxOnce
    <3>1. Link(Inbox) = <<>>
      BY <1>1, QueueNodes DEF Link
    <3>2. DOMAIN Link(Inbox) = {}
      BY <3>1
    <3> QED
      BY <1>6, <3>2, QueueNodes DEF InboxOnce, Distinct
  <2>2. ASSUME NEW id \in MessageId PROVE OnceOf(id)
    <3>1. Watch(id) = 0
      BY <1>2 DEF Watch, Count
    <3> QED
      BY <1>1, <1>2, <3>1 DEF OnceOf
  <2> QED
    BY <2>1, <2>2 DEF Once
<1> QED
  BY <1>3, <1>4, <1>5, <1>7, <1>8 DEF HoldInv

LEMMA HoldMeans == HoldInv => Rabbit!TypeOK /\ Rabbit!HeldOrDone
<1> SUFFICES ASSUME HoldInv PROVE Rabbit!TypeOK /\ Rabbit!HeldOrDone
  OBVIOUS
<1>1. Rabbit!TypeOK
  <2>1. DOMAIN Rabbit!Consumers = {1, 2}
    BY DEF Rabbit!Consumers
  <2> QED
    BY <2>1 DEF Rabbit!TypeOK, HoldInv, HoldTyped, Held
<1>2. state.produced \subseteq Rabbit!Processed \cup DOMAIN state.unacked \cup state.deadLetter
  BY DEF HoldInv, NoneMissing, Held
<1>3. ASSUME env.dups = 0, NEW id \in state.produced
      PROVE  /\ state.delivery[id] <= DeliveryLimit
             /\ id \in state.deadLetter => state.delivery[id] = DeliveryLimit
             /\ id \in DOMAIN state.unacked =>
                  /\ id \notin state.deadLetter
                  /\ \/ /\ <<"B", Rabbit!CheckAck(id)>> \in DOMAIN net.timers
                        /\ net.timers[<<"B", Rabbit!CheckAck(id)>>] = 1
                     \/ env.kills > 0
  <2>1. id \in MessageId /\ env.kills \in Nat
    BY DEF HoldInv, HoldTyped, Counts
  <2>2. OnceOf(id)
    BY <1>3, <2>1 DEF HoldInv, Once
  <2>3. Watch(id) = 1 => Look(id) \in DOMAIN net.timers /\ net.timers[Look(id)] = 1
    BY DEF Watch, Count
  <2> QED
    BY <2>1, <2>2, <2>3 DEF OnceOf, Held, Look
<1> QED
  BY <1>1, <1>2, <1>3 DEF Rabbit!HeldOrDone

-----------------------------------------------------------------------------
(* Sums over finite sets, as the community modules fold them: g adds up f  *)
(* over the subsets of S.                                                  *)
Some(s) == CHOOSE x \in s : TRUE
AddsUp(g, f, S) ==
  g = [s \in SUBSET S |-> IF s = {} THEN 0 ELSE f[Some(s)] + g[s \ {Some(s)}]]
Total(f, S) == (CHOOSE g : AddsUp(g, f, S))[S]

LEMMA SubsetPicked ==
  ASSUME NEW S, IsFiniteSet(S), NEW s \in SUBSET S
  PROVE  /\ IsFiniteSet(s) /\ Cardinality(s) \in Nat /\ (Cardinality(s) = 0 <=> s = {})
         /\ s # {} => /\ Some(s) \in s /\ s \ {Some(s)} \in SUBSET S
                      /\ Cardinality(s \ {Some(s)}) = Cardinality(s) - 1
<1>1. IsFiniteSet(s) /\ Cardinality(s) \in Nat /\ (Cardinality(s) = 0 <=> s = {})
  BY FS_Subset, FS_CardinalityType, FS_EmptySet
<1>2. s # {} => Some(s) \in s
  BY DEF Some
<1>3. ASSUME NEW x \in s PROVE Cardinality(s \ {x}) = Cardinality(s) - 1
  BY <1>1, FS_RemoveElement
<1> QED
  BY <1>1, <1>2, <1>3

LEMMA SumsExist ==
  ASSUME NEW S, IsFiniteSet(S), NEW f, \A x \in S : f[x] \in Int
  PROVE  \E g : AddsUp(g, f, S)
<1> DEFINE Fs == [SUBSET S -> Int]
           none == [s \in SUBSET S |-> 0]
           F == [g \in Fs |-> [s \in SUBSET S |-> IF s = {} THEN 0 ELSE f[Some(s)] + g[s \ {Some(s)}]]]
<1>1. none \in Fs
  OBVIOUS
<1>2. F \in [Fs -> Fs]
  <2>1. ASSUME NEW g \in Fs, NEW s \in SUBSET S
        PROVE  (IF s = {} THEN 0 ELSE f[Some(s)] + g[s \ {Some(s)}]) \in Int
    <3>1. CASE s = {}
      BY <3>1
    <3>2. CASE s # {}
      <4>1. Some(s) \in S /\ s \ {Some(s)} \in SUBSET S
        BY <3>2, SubsetPicked
      <4>2. f[Some(s)] \in Int /\ g[s \ {Some(s)}] \in Int
        BY <4>1
      <4> QED
        BY <3>2, <4>2
    <3> QED
      BY <3>1, <3>2
  <2> QED
    BY <2>1
<1> HIDE DEF none
<1>3. \A g \in Fs : \A s \in SUBSET S : F[g][s] = IF s = {} THEN 0 ELSE f[Some(s)] + g[s \ {Some(s)}]
  OBVIOUS
<1> HIDE DEF F
<1>4. PICK h \in [Nat -> Fs] : h[0] = none /\ \A k \in Nat : h[k + 1] = F[h[k]]
  <2> HIDE DEF Fs
  <2> QED
    BY <1>1, <1>2, DefinedOnward
<1> DEFINE g == [s \in SUBSET S |-> h[Cardinality(s)][s]]
<1>5. ASSUME NEW s \in SUBSET S
      PROVE  g[s] = IF s = {} THEN 0 ELSE f[Some(s)] + g[s \ {Some(s)}]
  <2>1. CASE s = {}
    <3>1. Cardinality(s) = 0
      BY <2>1, FS_EmptySet
    <3> QED
      BY <1>4, <2>1, <3>1 DEF none
  <2>2. CASE s # {}
    <3> DEFINE r == s \ {Some(s)}
               k == Cardinality(r)
    <3>1. r \in SUBSET S /\ k \in Nat /\ Cardinality(s) = k + 1
      <4>1. r \in SUBSET S /\ k = Cardinality(s) - 1 /\ Cardinality(s) \in Nat
        BY <2>2, SubsetPicked
      <4> HIDE DEF r
      <4>2. k \in Nat
        BY <4>1, SubsetPicked
      <4> HIDE DEF k
      <4> QED
        BY <4>1, <4>2
    <3>2. h[k] \in Fs /\ h[k + 1] = F[h[k]]
      BY <1>4, <3>1
    <3> HIDE DEF Fs
    <3>3. F[h[k]][s] = f[Some(s)] + h[k][r]
      BY <1>3, <2>2, <3>2
    <3>4. g[s] = h[k + 1][s] /\ g[r] = h[k][r]
      BY <3>1
    <3> QED
      BY <2>2, <3>2, <3>3, <3>4
  <2> QED
    BY <2>1, <2>2
<1>6. g = [s \in SUBSET S |-> IF s = {} THEN 0 ELSE f[Some(s)] + g[s \ {Some(s)}]]
  <2>1. g = [s \in SUBSET S |-> g[s]]
    OBVIOUS
  <2> HIDE DEF g
  <2> QED
    BY <1>5, <2>1
<1> HIDE DEF g
<1> QED
  BY <1>6 DEF AddsUp

(* One of them changes. *)
LEMMA SumsDiffer ==
  ASSUME NEW S, IsFiniteSet(S), NEW e \in S, NEW f, NEW f2, \A x \in S : f[x] \in Int,
         f2[e] \in Int, \A x \in S \ {e} : f2[x] = f[x],
         NEW g, AddsUp(g, f, S), NEW k, AddsUp(k, f2, S)
  PROVE  g[S] \in Int /\ k[S] \in Int /\ k[S] = g[S] + f2[e] - f[e]
<1> DEFINE Right(s) == g[s] \in Int /\ k[s] \in Int /\ k[s] = g[s] + (IF e \in s THEN f2[e] - f[e] ELSE 0)
           T == {n \in Nat : \A s \in SUBSET S : Cardinality(s) = n => Right(s)}
<1>1. \A x \in S : f[x] \in Int /\ f2[x] \in Int
  OBVIOUS
<1>2. \A s \in SUBSET S : /\ g[s] = IF s = {} THEN 0 ELSE f[Some(s)] + g[s \ {Some(s)}]
                          /\ k[s] = IF s = {} THEN 0 ELSE f2[Some(s)] + k[s \ {Some(s)}]
  <2>1. g = [s \in SUBSET S |-> IF s = {} THEN 0 ELSE f[Some(s)] + g[s \ {Some(s)}]]
    BY DEF AddsUp
  <2>2. k = [s \in SUBSET S |-> IF s = {} THEN 0 ELSE f2[Some(s)] + k[s \ {Some(s)}]]
    BY DEF AddsUp
  <2>3. \A s \in SUBSET S : g[s] = IF s = {} THEN 0 ELSE f[Some(s)] + g[s \ {Some(s)}]
    BY <2>1
  <2>4. \A s \in SUBSET S : k[s] = IF s = {} THEN 0 ELSE f2[Some(s)] + k[s \ {Some(s)}]
    BY <2>2
  <2> QED
    BY <2>3, <2>4
<1>3. 0 \in T
  <2>1. ASSUME NEW s \in SUBSET S, Cardinality(s) = 0 PROVE Right(s)
    <3>1. s = {}
      BY <2>1, SubsetPicked
    <3>2. g[s] = 0 /\ k[s] = 0 /\ e \notin s
      BY <1>2, <3>1
    <3> QED
      BY <3>2
  <2> QED
    BY <2>1
<1>4. ASSUME NEW n \in T PROVE n + 1 \in T
  <2>1. ASSUME NEW s \in SUBSET S, Cardinality(s) = n + 1 PROVE Right(s)
    <3> DEFINE x == Some(s)
               r == s \ {x}
    <3>1. n \in Nat /\ s # {} /\ x \in s /\ x \in S /\ r \in SUBSET S
      BY <2>1, SubsetPicked
    <3>2. Cardinality(r) = n
      <4>1. Cardinality(r) = Cardinality(s) - 1
        BY <3>1, SubsetPicked
      <4> QED
        BY <2>1, <3>1, <4>1
    <3>3. Right(r)
      BY <3>1, <3>2
    <3>4. g[s] = f[x] + g[r] /\ k[s] = f2[x] + k[r]
      BY <1>2, <3>1
    <3> HIDE DEF x
    <3>5. f[x] \in Int /\ f2[x] \in Int /\ f[e] \in Int
      BY <1>1, <3>1
    <3>6. CASE x = e
      BY <1>1, <3>1, <3>3, <3>4, <3>5, <3>6
    <3>7. CASE x # e
      <4>1. f2[x] = f[x] /\ (e \in r <=> e \in s)
        BY <1>1, <3>1, <3>7
      <4> QED
        BY <3>3, <3>4, <3>5, <4>1
    <3> QED
      BY <3>6, <3>7
  <2>2. n + 1 \in Nat
    OBVIOUS
  <2> HIDE DEF Right
  <2> QED
    BY <2>1, <2>2
<1>5. T = Nat
  <2>1. T \in SUBSET Nat
    OBVIOUS
  <2> HIDE DEF T
  <2> QED
    BY <1>3, <1>4, <2>1, AllNaturals
<1>6. Right(S)
  <2>1. Cardinality(S) \in Nat /\ S \in SUBSET S
    BY FS_CardinalityType
  <2> HIDE DEF Right
  <2> QED
    BY <1>5, <2>1
<1>7. f[e] \in Int
  OBVIOUS
<1> QED
  BY <1>6, <1>7

LEMMA TotalChanged ==
  ASSUME NEW S, IsFiniteSet(S), NEW e \in S, NEW f, NEW f2,
         \A x \in S : f[x] \in Int /\ f2[x] \in Int, \A x \in S \ {e} : f2[x] = f[x]
  PROVE  Total(f, S) \in Int /\ Total(f2, S) = Total(f, S) + f2[e] - f[e]
<1>1. (\E g : AddsUp(g, f, S)) /\ \E g : AddsUp(g, f2, S)
  <2>1. (\A x \in S : f[x] \in Int) /\ \A x \in S : f2[x] \in Int
    OBVIOUS
  <2> QED
    BY <2>1, SumsExist
<1>2. PICK g : g = CHOOSE h : AddsUp(h, f, S)
  OBVIOUS
<1>3. PICK k : k = CHOOSE h : AddsUp(h, f2, S)
  OBVIOUS
<1>4. AddsUp(g, f, S)
  BY <1>1, <1>2
<1>5. AddsUp(k, f2, S)
  BY <1>1, <1>3
<1>6. \A x \in S : f[x] \in Int /\ f2[x] \in Int
  OBVIOUS
<1>7. g[S] \in Int /\ k[S] \in Int /\ k[S] = g[S] + f2[e] - f[e]
  BY <1>4, <1>5, <1>6, SumsDiffer
<1> QED
  BY <1>2, <1>3, <1>7 DEF Total

LEMMA TotalNone ==
  ASSUME NEW S, IsFiniteSet(S), NEW f \in [S -> Int], \A x \in S : f[x] = 0
  PROVE  Total(f, S) = 0
<1>1. PICK g : g = CHOOSE h : AddsUp(h, f, S)
  OBVIOUS
<1>2. AddsUp(g, f, S)
  BY <1>1, SumsExist
<1>3. g = [s \in SUBSET S |-> IF s = {} THEN 0 ELSE f[Some(s)] + g[s \ {Some(s)}]]
  BY <1>2 DEF AddsUp
<1>4. \A s \in SUBSET S : g[s] = IF s = {} THEN 0 ELSE f[Some(s)] + g[s \ {Some(s)}]
  BY <1>3
<1> DEFINE T == {n \in Nat : \A s \in SUBSET S : Cardinality(s) = n => g[s] = 0}
<1>5. 0 \in T
  <2>1. ASSUME NEW s \in SUBSET S, Cardinality(s) = 0 PROVE g[s] = 0
    <3>1. s = {}
      BY <2>1, SubsetPicked
    <3> QED
      BY <1>4, <3>1
  <2> QED
    BY <2>1
<1>6. ASSUME NEW n \in T PROVE n + 1 \in T
  <2>1. ASSUME NEW s \in SUBSET S, Cardinality(s) = n + 1 PROVE g[s] = 0
    <3> DEFINE x == Some(s)
               r == s \ {x}
    <3>1. n \in Nat /\ s # {} /\ x \in S /\ r \in SUBSET S
      BY <2>1, SubsetPicked
    <3>2. Cardinality(r) = n
      <4>1. Cardinality(r) = Cardinality(s) - 1
        BY <3>1, SubsetPicked
      <4> QED
        BY <2>1, <3>1, <4>1
    <3>3. g[r] = 0 /\ g[s] = f[x] + g[r] /\ f[x] = 0
      BY <1>4, <3>1, <3>2
    <3> QED
      BY <3>3
  <2>2. n + 1 \in Nat
    OBVIOUS
  <2> QED
    BY <2>1, <2>2
<1>7. T = Nat
  <2>1. T \in SUBSET Nat
    OBVIOUS
  <2> HIDE DEF T
  <2> QED
    BY <1>5, <1>6, <2>1, AllNaturals
<1>8. g[S] = 0
  <2>1. Cardinality(S) \in Nat /\ S \in SUBSET S
    BY FS_CardinalityType
  <2> QED
    BY <1>7, <2>1
<1> QED
  BY <1>1, <1>8 DEF Total

(* Two messages sent at once. *)
LEMMA TwoSent ==
  ASSUME NEW links, NEW n, NEW a, NEW x, NEW b, NEW y
  PROVE  Engine!WithMessages(links, n, <<<<a, x>>, <<b, y>>>>) = Sent(Sent(links, n, a, x), n, b, y)
<1> DEFINE sends == <<<<a, x>>, <<b, y>>>>
           Add(z, k) == [z EXCEPT ![<<n, sends[k][1]>>] = Append(@, sends[k][2])]
           Is(g) == g = [k \in 0..2 |-> IF k = 0 THEN links ELSE Add(g[k - 1], k)]
           f == [k \in 0..2 |-> IF k = 0 THEN links
                                ELSE IF k = 1 THEN Add(links, 1) ELSE Add(Add(links, 1), 2)]
<1>1. Len(sends) = 2 /\ \A z : Add(z, 1) = Sent(z, n, a, x) /\ Add(z, 2) = Sent(z, n, b, y)
  BY DEF Sent
<1>2. Engine!WithMessages(links, n, sends) = (CHOOSE g : Is(g))[2]
  BY <1>1 DEF Engine!WithMessages
<1> HIDE DEF Add, sends
<1>3. Is(f)
  <2>1. f[0] = links /\ f[1] = Add(links, 1) /\ f[2] = Add(Add(links, 1), 2)
    OBVIOUS
  <2>2. \A k \in 0..2 : k = 0 \/ (k = 1 /\ k - 1 = 0) \/ (k = 2 /\ k - 1 = 1)
    OBVIOUS
  <2>3. \A k \in 0..2 : (IF k = 0 THEN links ELSE Add(f[k - 1], k)) =
          (IF k = 0 THEN links ELSE IF k = 1 THEN Add(links, 1) ELSE Add(Add(links, 1), 2))
    BY <2>1, <2>2
  <2> QED
    BY <2>3
<1>4. \A g : Is(g) => g[2] = Add(Add(links, 1), 2)
  <2> SUFFICES ASSUME NEW g, Is(g) PROVE g[2] = Add(Add(links, 1), 2)
    OBVIOUS
  <2>1. g[0] = links /\ g[1] = Add(g[0], 1) /\ g[2] = Add(g[1], 2)
    OBVIOUS
  <2> QED
    BY <2>1
<1> HIDE DEF Is, f
<1>5. Is(CHOOSE g : Is(g))
  BY <1>3
<1>6. Engine!WithMessages(links, n, sends) = Add(Add(links, 1), 2)
  BY <1>2, <1>4, <1>5
<1> QED
  BY <1>1, <1>6 DEF sends

-----------------------------------------------------------------------------
(* The channel.  Every published id goes to each subscriber, over the same *)
(* links as the queue's.                                                   *)

Notes == [kind : {"publish", "notify"}, id : MessageId]
Heard(c) == Items(state.processed[c])
Open  == hist.produced \ state.published          \* not at the broker yet
Unheard(c) == state.published \ Heard(c)
Loads == [l \in Wires |-> Len(Link(l))]

ChannelTyped ==
  /\ state = [published |-> state.published, processed |-> state.processed]
  /\ state.processed \in [Takers -> Seq(MessageId)]
  /\ hist = [produced |-> hist.produced] /\ hist.produced \subseteq MessageId /\ IsFiniteSet(hist.produced)
  /\ state.published \subseteq hist.produced /\ \A c \in Takers : Heard(c) \subseteq state.published

NoteRight(l, m) ==
  /\ m.kind = "publish" => l = Inbox /\ m.id \in hist.produced
  /\ m.kind = "notify" => l[1] = "B" /\ l[2] \in Takers /\ m.id \in state.published
NotesRight == \A l \in Wires : \A m \in Coming(l) : NoteRight(l, m)

(* An id comes once: to the broker before it is published, to a subscriber *)
(* before it is heard.                                                     *)
PublishedOnce == Distinct(Link(Inbox)) /\ \A m \in Coming(Inbox) : m.id \notin state.published
HeardOnce(c) == /\ Distinct(Link(<<"B", c>>)) /\ \A m \in Coming(<<"B", c>>) : m.id \notin Heard(c)
                /\ \A i, j \in DOMAIN state.processed[c] : state.processed[c][i] = state.processed[c][j] => i = j
Balance ==
  Cardinality(Unheard("C1")) + Cardinality(Unheard("C2")) + Cardinality(Open) = Total(Loads, Wires) + env.lost

ChannelInv ==
  /\ ChannelTyped /\ Queue(net, Wires, Notes) /\ Counts /\ NotesRight
  /\ env.dups = 0 => PublishedOnce /\ Balance /\ \A c \in Takers : HeardOnce(c)

LEMMA ChannelNodes ==
  /\ Redis!Links = Wires /\ Redis!Consumer = Takers /\ IsFiniteSet(Wires)
  /\ <<"B", "C1">> # <<"B", "C2">> /\ \A c \in Takers : <<"B", c>> # Inbox
<1>1. Redis!Consumer = Takers /\ Redis!Links = Wires
  BY DEF Redis!Consumer, Rabbit!Consumer, Takers, Wires, Redis!Links, Rabbit!Links
<1>2. IsFiniteSet({"P", "B"} \cup Takers)
  <2>1. {"P", "B"} \cup Takers = ((({} \cup {"P"}) \cup {"B"}) \cup {"C1"}) \cup {"C2"}
    BY QueueNodes
  <2>2. IsFiniteSet({} \cup {"P"})
    BY FS_EmptySet, FS_AddElement
  <2>3. IsFiniteSet(({} \cup {"P"}) \cup {"B"})
    BY <2>2, FS_AddElement
  <2>4. IsFiniteSet((({} \cup {"P"}) \cup {"B"}) \cup {"C1"})
    BY <2>3, FS_AddElement
  <2> QED
    BY <2>1, <2>4, FS_AddElement
<1>3. IsFiniteSet(Wires)
  BY <1>2, QueueNodes, FS_Product
<1> QED
  BY <1>1, <1>3, QueueNodes DEF Inbox

(* What the lab counts, as these sums. *)
LEMMA ChannelSums ==
  /\ Redis!OnTheWay = Total(Loads, Wires)
  /\ Redis!Lost = Total([c \in Takers |-> Cardinality(Unheard(c))], Takers)
<1>1. \A s : Some(s) = CHOOSE x \in s : TRUE
  BY DEF Some
<1>2. ASSUME NEW S, NEW s \in SUBSET S, s # {} PROVE Some(s) \in S
  BY <1>2 DEF Some
<1>3. Redis!OnTheWay = Total(Loads, Wires)
  <2> DEFINE Is(g) == g = [s \in SUBSET Wires |->
                             IF s = {} THEN 0 ELSE Len(net.links[Some(s)]) + g[s \ {Some(s)}]]
  <2>1. Redis!OnTheWay = (CHOOSE g : Is(g))[Wires]
    BY ChannelNodes DEF Redis!OnTheWay, Redis!MapThenSumSet, Redis!MapThenFoldSet, Some
  <2>2. ASSUME NEW g PROVE Is(g) <=> AddsUp(g, Loads, Wires)
    <3>1. \A s \in SUBSET Wires : s # {} => Loads[Some(s)] = Len(net.links[Some(s)])
      BY <1>2 DEF Loads, Link
    <3> HIDE DEF Is
    <3>2. Is(g) => AddsUp(g, Loads, Wires)
      BY <3>1 DEF Is, AddsUp
    <3>3. AddsUp(g, Loads, Wires) => Is(g)
      BY <3>1 DEF Is, AddsUp
    <3> QED
      BY <3>2, <3>3
  <2> HIDE DEF Is
  <2> QED
    BY <2>1, <2>2 DEF Total
<1>4. Redis!Lost = Total([c \in Takers |-> Cardinality(Unheard(c))], Takers)
  <2> DEFINE f == [c \in Takers |-> Cardinality(Unheard(c))]
             Is(g) == g = [s \in SUBSET Takers |->
                             IF s = {} THEN 0
                             ELSE Cardinality(state.published \ Redis!Range(state.processed[Some(s)]))
                                    + g[s \ {Some(s)}]]
  <2>0. \A S : Redis!Cardinality(S) = Cardinality(S)
    BY DEF Redis!Cardinality, Cardinality
  <2>1. Redis!Lost = (CHOOSE g : Is(g))[Takers]
    BY <2>0, ChannelNodes DEF Redis!Lost, Redis!MapThenSumSet, Redis!MapThenFoldSet, Some
  <2>2. ASSUME NEW g PROVE Is(g) <=> AddsUp(g, f, Takers)
    <3>1. \A s \in SUBSET Takers : s # {} =>
            f[Some(s)] = Cardinality(state.published \ Redis!Range(state.processed[Some(s)]))
      BY <1>2 DEF Unheard, Heard, Items, Redis!Range
    <3> HIDE DEF Is, f
    <3>2. Is(g) => AddsUp(g, f, Takers)
      BY <3>1 DEF Is, AddsUp
    <3>3. AddsUp(g, f, Takers) => Is(g)
      BY <3>1 DEF Is, AddsUp
    <3> QED
      BY <3>2, <3>3
  <2> HIDE DEF Is, f
  <2>3. Redis!Lost = Total(f, Takers)
    BY <2>1, <2>2 DEF Total
  <2> QED
    BY <2>3 DEF f
<1> QED
  BY <1>3, <1>4

(* Over two subscribers the sum is their sum. *)
LEMMA TotalOfTwo ==
  ASSUME NEW f \in [Takers -> Int]
  PROVE  Total(f, Takers) = f["C1"] + f["C2"]
<1> DEFINE z == [c \in Takers |-> 0]
           h == [c \in Takers |-> IF c = "C1" THEN f["C1"] ELSE 0]
<1>1. Takers = {"C1", "C2"} /\ "C1" # "C2"
  BY QueueNodes
<1>2. IsFiniteSet(Takers)
  <2>1. Takers = {"C1"} \cup {"C2"}
    BY <1>1
  <2> QED
    BY <2>1, FS_Singleton, FS_AddElement
<1>3. z \in [Takers -> Int] /\ \A c \in Takers : z[c] \in Int /\ h[c] \in Int /\ f[c] \in Int
  BY <1>1
<1>4. /\ \A c \in Takers : z[c] = 0
      /\ \A c \in Takers \ {"C1"} : h[c] = z[c]
      /\ \A c \in Takers \ {"C2"} : f[c] = h[c]
      /\ h["C1"] = f["C1"] /\ z["C1"] = 0 /\ h["C2"] = 0
  BY <1>1
<1> HIDE DEF z, h
<1>5. Total(z, Takers) = 0
  BY <1>2, <1>3, <1>4, TotalNone
<1>6. Total(h, Takers) = Total(z, Takers) + h["C1"] - z["C1"]
  <2>1. \A c \in Takers : z[c] \in Int /\ h[c] \in Int
    BY <1>3
  <2>2. "C1" \in Takers /\ \A c \in Takers \ {"C1"} : h[c] = z[c]
    BY <1>1, <1>4
  <2> QED
    BY <1>2, <2>1, <2>2, TotalChanged
<1>7. Total(f, Takers) = Total(h, Takers) + f["C2"] - h["C2"]
  BY <1>1, <1>2, <1>3, <1>4, TotalChanged
<1> QED
  BY <1>1, <1>3, <1>4, <1>5, <1>6, <1>7

LEMMA ChannelCards ==
  ASSUME ChannelTyped
  PROVE  /\ IsFiniteSet(Open) /\ \A c \in Takers : IsFiniteSet(Unheard(c))
         /\ Cardinality(Open) \in Nat /\ \A c \in Takers : Cardinality(Unheard(c)) \in Nat
<1>1. IsFiniteSet(hist.produced) /\ Open \in SUBSET hist.produced
      /\ \A c \in Takers : Unheard(c) \in SUBSET hist.produced
  BY DEF ChannelTyped, Open, Unheard
<1>2. IsFiniteSet(Open) /\ \A c \in Takers : IsFiniteSet(Unheard(c))
  BY <1>1, FS_Subset
<1> QED
  BY <1>2, FS_CardinalityType

LEMMA ChannelMeans == ChannelInv => Redis!TypeOK /\ Redis!LostExact
<1> SUFFICES ASSUME ChannelInv PROVE Redis!TypeOK /\ Redis!LostExact
  OBVIOUS
<1>0. \A S : Redis!Cardinality(S) = Cardinality(S)
  BY DEF Redis!Cardinality, Cardinality
<1>1. Redis!TypeOK
  BY ChannelNodes DEF Redis!TypeOK, ChannelInv, ChannelTyped, Heard, Items, Redis!Range
<1>2. Redis!Lost = Cardinality(Unheard("C1")) + Cardinality(Unheard("C2"))
  <2> DEFINE f == [c \in Takers |-> Cardinality(Unheard(c))]
  <2>1. f \in [Takers -> Int]
    BY ChannelCards DEF ChannelInv
  <2>2. f["C1"] = Cardinality(Unheard("C1")) /\ f["C2"] = Cardinality(Unheard("C2"))
    BY QueueNodes
  <2> HIDE DEF f
  <2>3. Redis!Lost = f["C1"] + f["C2"]
    BY <2>1, ChannelSums, TotalOfTwo DEF f
  <2> QED
    BY <2>2, <2>3
<1>3. env.dups = 0 => /\ \A c \in Takers : Redis!IsInjective(state.processed[c])
                      /\ Redis!Lost + Cardinality(Open) = Redis!OnTheWay + env.lost
  BY <1>2, ChannelSums DEF ChannelInv, HeardOnce, Balance, Redis!IsInjective
<1> QED
  BY <1>0, <1>1, <1>3, ChannelNodes DEF Redis!LostExact, Open

(* The load of all links, as one of them gains or loses a message. *)
Loaded(links) == Total([l \in Wires |-> Len(links[l])], Wires)

LEMMA LoadChanged ==
  ASSUME NEW links, NEW new, links \in [Wires -> Seq(Notes)], new \in [Wires -> Seq(Notes)],
         NEW l \in Wires, \A k \in Wires \ {l} : new[k] = links[k]
  PROVE  Loaded(links) \in Int /\ Loaded(new) = Loaded(links) + Len(new[l]) - Len(links[l])
<1> DEFINE f == [k \in Wires |-> Len(links[k])]
           g == [k \in Wires |-> Len(new[k])]
<1>1. ASSUME NEW k \in Wires PROVE Len(links[k]) \in Nat /\ Len(new[k]) \in Nat
  <2>1. links[k] \in Seq(Notes) /\ new[k] \in Seq(Notes)
    OBVIOUS
  <2> QED
    BY <2>1, LenProperties
<1>2. (\A k \in Wires : f[k] \in Int /\ g[k] \in Int) /\ \A k \in Wires \ {l} : g[k] = f[k]
  BY <1>1
<1>3. f[l] = Len(links[l]) /\ g[l] = Len(new[l])
  OBVIOUS
<1>4. Loaded(links) = Total(f, Wires) /\ Loaded(new) = Total(g, Wires)
  BY DEF Loaded
<1> HIDE DEF f, g
<1>5. Total(f, Wires) \in Int /\ Total(g, Wires) = Total(f, Wires) + g[l] - f[l]
  <2>1. PICK S, x, y, e : S = Wires /\ x = f /\ y = g /\ e = l
    OBVIOUS
  <2>2. IsFiniteSet(S) /\ e \in S
    BY <2>1, ChannelNodes
  <2>3. \A k \in S : x[k] \in Int /\ y[k] \in Int
    BY <1>2, <2>1
  <2>4. \A k \in S \ {e} : y[k] = x[k]
    BY <1>2, <2>1
  <2>5. Total(x, S) \in Int /\ Total(y, S) = Total(x, S) + y[e] - x[e]
    BY <2>2, <2>3, <2>4, TotalChanged
  <2> QED
    BY <2>1, <2>5
<1> QED
  BY <1>3, <1>4, <1>5

LEMMA LoadSent ==
  ASSUME NEW links, links \in [Wires -> Seq(Notes)], NEW n, NEW to, <<n, to>> \in Wires, NEW m \in Notes
  PROVE  Loaded(links) \in Int /\ Loaded(Sent(links, n, to, m)) = Loaded(links) + 1
<1>1. PICK l, new : l = <<n, to>> /\ new = Sent(links, n, to, m)
  OBVIOUS
<1>2. new \in [Wires -> Seq(Notes)] /\ \A k \in Wires : new[k] = IF k = l THEN Append(links[k], m) ELSE links[k]
  BY <1>1, ItemsSent
<1>3. Len(links[l]) \in Nat /\ Len(new[l]) = Len(links[l]) + 1
  <2>1. links[l] \in Seq(Notes) /\ new[l] = Append(links[l], m)
    BY <1>1, <1>2
  <2> QED
    BY <2>1, AppendProperties, LenProperties
<1>4. l \in Wires /\ \A k \in Wires \ {l} : new[k] = links[k]
  BY <1>1, <1>2
<1>5. Loaded(links) \in Int /\ Loaded(new) = Loaded(links) + Len(new[l]) - Len(links[l])
  BY <1>2, <1>4, LoadChanged
<1> QED
  BY <1>1, <1>3, <1>5

LEMMA LoadRemoved ==
  ASSUME NEW links, links \in [Wires -> Seq(Notes)], NEW l \in Wires, NEW i \in DOMAIN links[l]
  PROVE  Loaded(links) \in Int /\ Loaded(Removed(links, l, i)) = Loaded(links) - 1
<1>1. PICK new : new = Removed(links, l, i)
  OBVIOUS
<1>2. new \in [Wires -> Seq(Notes)] /\ \A k \in Wires : new[k] = IF k = l THEN Without(links[k], i) ELSE links[k]
  BY <1>1, ItemsRemoved
<1>3. Len(links[l]) \in Nat /\ Len(new[l]) = Len(links[l]) - 1
  <2>1. links[l] \in Seq(Notes) /\ new[l] = Without(links[l], i)
    BY <1>2
  <2> QED
    BY <2>1, WithoutIs
<1>4. \A k \in Wires \ {l} : new[k] = links[k]
  BY <1>2
<1>5. Loaded(links) \in Int /\ Loaded(new) = Loaded(links) + Len(new[l]) - Len(links[l])
  BY <1>2, <1>4, LoadChanged
<1> QED
  BY <1>1, <1>3, <1>5

LEMMA ChannelEngine ==
  /\ \A links, n, sends : Redis!WithMessages(links, n, sends) = Engine!WithMessages(links, n, sends)
  /\ \A timers, n, set : Redis!WithTimers(timers, n, set) = Engine!WithTimers(timers, n, set)
  /\ \A s, i : Redis!AllBut(s, i) = Engine!AllBut(s, i)
  /\ \A timers, t : Redis!WithoutTimer(timers, t) = Engine!WithoutTimer(timers, t)
<1>1. \A links, n, sends : Redis!WithMessages(links, n, sends) = Engine!WithMessages(links, n, sends)
  BY DEF Redis!WithMessages, Engine!WithMessages
<1>2. \A S : Redis!Cardinality(S) = Engine!Cardinality(S)
  BY DEF Redis!Cardinality, Engine!Cardinality
<1>3. \A timers, n, set : Redis!WithTimers(timers, n, set) = Engine!WithTimers(timers, n, set)
  BY <1>2 DEF Redis!WithTimers, Engine!WithTimers
<1>4. \A s, i : Redis!AllBut(s, i) = Engine!AllBut(s, i)
  BY DEF Redis!AllBut, Engine!AllBut
<1>5. \A timers, t : Redis!WithoutTimer(timers, t) = Engine!WithoutTimer(timers, t)
  BY DEF Redis!WithoutTimer, Engine!WithoutTimer
<1> QED
  BY <1>1, <1>3, <1>4, <1>5

LEMMA ChannelReceive ==
  ASSUME Queue(net, Wires, Notes),
         \/ Redis!Receive("publish", Redis!OnPublish) /\ UNCHANGED hist
         \/ Redis!Receive("notify", Redis!OnNotify) /\ UNCHANGED hist
  PROVE  \E l \in Wires : \E i \in DOMAIN Link(l) :
           /\ Overtakes(i) /\ hist' = hist
           /\ LET Runs(out) == Handled(Removed(net.links, l, i), net.timers, l[2], out)
                  m == Link(l)[i]
              IN \/ m.kind = "publish" /\ Runs(Redis!OnPublish(l[1], l[2], m))
                 \/ m.kind = "notify" /\ Runs(Redis!OnNotify(l[1], l[2], m))
<1>1. ASSUME NEW l \in Wires, NEW i, NEW out,
             Redis!MessageDue(l, i), Redis!Happens(l[2], out, Redis!Taken(l, i))
      PROVE  Overtakes(i) /\ Handled(Removed(net.links, l, i), net.timers, l[2], out)
  <2>1. Redis!Taken(l, i) = [links |-> Removed(net.links, l, i), timers |-> net.timers]
    BY QueueChanges, ChannelEngine DEF Redis!Taken
  <2> QED
    BY <1>1, <2>1, ChannelEngine
       DEF Redis!MessageDue, Redis!Happens, Redis!Queued, Overtakes, Handled, Left
<1>2. Redis!Links = Wires
  BY ChannelNodes
<1>3. CASE Redis!Receive("publish", Redis!OnPublish) /\ UNCHANGED hist
  BY <1>1, <1>2, <1>3 DEF Redis!Receive, Redis!Arrive, Link
<1>4. CASE Redis!Receive("notify", Redis!OnNotify) /\ UNCHANGED hist
  BY <1>1, <1>2, <1>4 DEF Redis!Receive, Redis!Arrive, Link
<1> QED
  BY <1>3, <1>4

LEMMA ChannelFaults ==
  ASSUME Redis!Fault
  PROVE  Faults(Wires) /\ state' = state /\ hist' = hist
<1> USE ChannelEngine
<1>1. \A n : Redis!Kill(n) => Dies(n)
  BY DEF Redis!Kill, Dies
<1>2. \A n : Redis!Revive(n) => Returns(n)
  BY DEF Redis!Revive, Returns
<1>3. \A l, i : Redis!Drop(l, i) => IsLost(l, i)
  BY DEF Redis!Drop, Redis!Taken, IsLost
<1>4. \A l, i : Redis!Duplicate(l, i) => IsTwice(l, i)
  BY DEF Redis!Duplicate, IsTwice
<1>5. \A l : Redis!MessageToDead(l) => IsGone(l)
  BY DEF Redis!MessageToDead, Redis!Taken, IsGone
<1>6. \A t : Redis!TimerOfDead(t) => IsMissed(t)
  BY DEF Redis!TimerOfDead, IsMissed
<1> HIDE ChannelEngine
<1>7. Redis!Links = Wires
  BY ChannelNodes
<1> QED
  BY <1>1, <1>2, <1>3, <1>4, <1>5, <1>6, <1>7 DEF Redis!Fault, Faults

LEMMA NotesKept ==
  ASSUME ChannelInv, hist.produced \subseteq hist'.produced, state.published \subseteq state'.published,
         \A l \in Wires : \A m \in Coming(l)' : m \in Coming(l) \/ NoteRight(l, m)'
  PROVE  NotesRight'
<1>1. \A l \in Wires : \A m \in Coming(l) : NoteRight(l, m)'
  BY DEF ChannelInv, NotesRight, NoteRight
<1> QED
  BY <1>1 DEF NotesRight

(* What the links carry. *)
LEMMA NotesMean ==
  ASSUME ChannelInv
  PROVE  /\ \A l \in Wires : Link(l) \in Seq(Notes) /\ Coming(l) \subseteq Notes
         /\ \A m \in Coming(Inbox) : m.kind = "publish" /\ m.id \in hist.produced
         /\ \A c \in Takers : \A m \in Coming(<<"B", c>>) : m.kind = "notify" /\ m.id \in state.published
<1>1. \A l \in Wires : Link(l) \in Seq(Notes)
  BY DEF ChannelInv, Queue, Link
<1>2. \A l \in Wires : Coming(l) \subseteq Notes
  BY <1>1, ElementOfSeq, LenProperties DEF Coming
<1>3. \A l \in Wires : \A m \in Coming(l) : (m.kind = "publish" \/ m.kind = "notify") /\ NoteRight(l, m)
  BY <1>2 DEF Notes, ChannelInv, NotesRight
<1>4. ASSUME NEW m \in Coming(Inbox) PROVE m.kind = "publish" /\ m.id \in hist.produced
  <2>1. Inbox[1] # "B" /\ Inbox \in Wires
    BY QueueNodes DEF Inbox
  <2> QED
    BY <1>3, <2>1 DEF NoteRight
<1>5. ASSUME NEW c \in Takers, NEW m \in Coming(<<"B", c>>)
      PROVE  m.kind = "notify" /\ m.id \in state.published
  <2>1. <<"B", c>> # Inbox /\ <<"B", c>> \in Wires
    BY QueueNodes, ChannelNodes
  <2> QED
    BY <1>3, <2>1 DEF NoteRight
<1> QED
  BY <1>1, <1>2, <1>4, <1>5

(* A message added to a link, and one taken from it. *)
LEMMA LinkGains ==
  ASSUME NEW s \in Seq(Notes), NEW m \in Notes, Distinct(s), \A x \in Items(s) : x.id # m.id
  PROVE  Distinct(Append(s, m)) /\ Items(Append(s, m)) \subseteq Items(s) \cup {m}
<1>1. Distinct(Append(s, m))
  BY DistinctKept
<1> QED
  BY <1>1, ItemsOf

LEMMA LinkLoses ==
  ASSUME NEW s \in Seq(Notes), NEW i \in DOMAIN s, Distinct(s)
  PROVE  /\ Distinct(Without(s, i)) /\ Items(Without(s, i)) \subseteq Items(s)
         /\ \A m \in Items(Without(s, i)) : m.id # s[i].id
<1>1. Distinct(Without(s, i)) /\ \A m \in Items(Without(s, i)) : m.id # s[i].id
  BY DistinctKept
<1> QED
  BY <1>1, ItemsOf

(* Whoever is published to sends to both subscribers; the sender of an id  *)
(* sends one the lab never sent.                                           *)
LEMMA ProducedTyped ==
  ASSUME ChannelInv, NEW id \in MessageId, state' = state, hist' = [produced |-> hist.produced \cup {id}]
  PROVE  ChannelTyped'
<1>1. IsFiniteSet(hist.produced \cup {id})
  BY FS_AddElement DEF ChannelInv, ChannelTyped
<1> QED
  BY <1>1 DEF ChannelInv, ChannelTyped, Heard, Items

LEMMA CardIs ==
  ASSUME NEW S, IsFiniteSet(S), NEW x
  PROVE  /\ Cardinality(S) \in Nat
         /\ x \notin S => Cardinality(S \cup {x}) = Cardinality(S) + 1
         /\ x \in S => Cardinality(S \ {x}) = Cardinality(S) - 1
BY FS_AddElement, FS_RemoveElement, FS_CardinalityType

LEMMA ProducedOpen ==
  ASSUME ChannelInv, Redis!Produce
  PROVE  ChannelInv'
<1>1. PICK id \in MessageId \ hist.produced :
        /\ hist' = [produced |-> hist.produced \cup {id}]
        /\ Redis!External("P", Redis!Out(state, <<<<"B", [kind |-> "publish", id |-> id]>>>>, <<>>))
  BY DEF Redis!Produce
<1> DEFINE m == [kind |-> "publish", id |-> id]
           out == Redis!Out(state, <<<<"B", m>>>>, <<>>)
<1>2. /\ out.state = state /\ out.sends = <<<<"B", m>>>> /\ out.timers = <<>>
      /\ m \in Notes /\ m.kind = "publish" /\ m.id = id
  BY DEF Redis!Out, Notes
<1>3. Handled(net.links, net.timers, "P", out) /\ env' = env
  BY <1>1, ChannelEngine DEF Redis!External, Redis!Happens, Redis!Queued, Handled, Left
<1> HIDE DEF m, out
<1>4. /\ net.links \in [Wires -> Seq(Notes)] /\ net.timers \in [DOMAIN net.timers -> Nat \ {0}]
      /\ Inbox \in Wires /\ Inbox = <<"P", "B">>
  BY QueueNodes DEF ChannelInv, Queue, Inbox
<1>5. /\ state' = state /\ hist'.produced = hist.produced \cup {id}
      /\ net' = [links |-> Sent(net.links, "P", "B", m), timers |-> net.timers]
  <2>1. /\ state' = out.state /\ net' = [links |-> net'.links, timers |-> net'.timers]
        /\ net'.links = Left(net.links, net.timers, "P", out).links
        /\ net'.timers = Left(net.links, net.timers, "P", out).timers
    BY <1>3, LeftShape
  <2>2. net'.links = Sent(net.links, "P", "B", m)
    BY <1>2, <2>1, LeftOne
  <2>3. net'.timers = net.timers
    BY <1>2, <1>4, <2>1, LeftQuiet
  <2> QED
    BY <1>1, <1>2, <2>1, <2>2, <2>3
<1>6. /\ Sent(net.links, "P", "B", m) \in [Wires -> Seq(Notes)]
      /\ \A k \in Wires : Link(k)' = IF k = Inbox THEN Append(Link(k), m) ELSE Link(k)
  <2>1. /\ Sent(net.links, "P", "B", m) \in [Wires -> Seq(Notes)]
        /\ \A k \in Wires : Sent(net.links, "P", "B", m)[k] =
                             IF k = <<"P", "B">> THEN Append(net.links[k], m) ELSE net.links[k]
    BY <1>2, <1>4, ItemsSent
  <2> QED
    BY <1>4, <1>5, <2>1 DEF Link
<1>7. Queue(net', Wires, Notes) /\ Counts' /\ ChannelTyped'
  <2>1. ChannelTyped'
    BY <1>1, <1>5, ProducedTyped
  <2>2. Counts'
    BY <1>3 DEF ChannelInv, Counts
  <2> QED
    BY <1>4, <1>5, <1>6, <2>1, <2>2 DEF Queue
<1>8. Coming(Inbox)' \subseteq Coming(Inbox) \cup {m} /\ \A k \in Wires : k # Inbox => Coming(k)' = Coming(k)
  <2>1. Link(Inbox) \in Seq(Notes) /\ Link(Inbox)' = Append(Link(Inbox), m)
    BY <1>4, <1>6, NotesMean
  <2>2. Items(Append(Link(Inbox), m)) \subseteq Items(Link(Inbox)) \cup {m}
    BY <1>2, <2>1, ItemsOf
  <2> QED
    BY <1>6, <2>1, <2>2 DEF Coming, Items
<1>9. NotesRight'
  <2>1. NoteRight(Inbox, m)'
    BY <1>2, <1>5 DEF NoteRight
  <2> QED
    BY <1>5, <1>8, <2>1, NotesKept
<1>10. ASSUME env'.dups = 0 PROVE PublishedOnce' /\ Balance' /\ \A c \in Takers : HeardOnce(c)'
  <2>1. PublishedOnce /\ Balance /\ \A c \in Takers : HeardOnce(c)
    BY <1>3, <1>10 DEF ChannelInv
  <2>2. id \notin state.published /\ \A x \in Coming(Inbox) : x.id # id
    BY <1>1, NotesMean DEF ChannelInv, ChannelTyped
  <2>3. PublishedOnce'
    <3>1. Distinct(Append(Link(Inbox), m))
      <4>1. Link(Inbox) \in Seq(Notes) /\ Distinct(Link(Inbox)) /\ \A x \in Items(Link(Inbox)) : x.id # m.id
        BY <1>2, <1>4, <2>1, <2>2, NotesMean DEF PublishedOnce, Coming, Items
      <4> QED
        BY <1>2, <4>1, LinkGains
    <3>2. Distinct(Link(Inbox))'
      BY <1>4, <1>6, <3>1 DEF Distinct
    <3> QED
      BY <1>2, <1>5, <1>8, <2>1, <2>2, <3>2 DEF PublishedOnce
  <2>4. ASSUME NEW c \in Takers PROVE HeardOnce(c)'
    <3>1. /\ HeardOnce(c) /\ Link(<<"B", c>>)' = Link(<<"B", c>>) /\ Coming(<<"B", c>>)' = Coming(<<"B", c>>)
          /\ state' = state
      BY <1>5, <1>6, <1>8, <2>1, QueueNodes, ChannelNodes
    <3> QED
      BY <3>1 DEF HeardOnce, Distinct, Heard, Items
  <2>5. Balance'
    <3>1. Cardinality(Open)' = Cardinality(Open) + 1
      <4>1. Open' = Open \cup {id} /\ id \notin Open /\ IsFiniteSet(Open)
        BY <1>1, <1>5, <2>2, ChannelCards DEF Open, ChannelInv
      <4> QED
        BY <4>1, CardIs
    <3>2. \A c \in Takers : Unheard(c)' = Unheard(c)
      BY <1>5 DEF Unheard, Heard, Items
    <3>3. Loaded(net.links) \in Int /\ Loaded(net'.links) = Loaded(net.links) + 1
      BY <1>2, <1>4, <1>5, LoadSent
    <3>4. Total(Loads, Wires) = Loaded(net.links) /\ Total(Loads, Wires)' = Loaded(net'.links)
      BY DEF Loaded, Loads, Link
    <3>5. /\ Cardinality(Open) \in Nat /\ Cardinality(Unheard("C1")) \in Nat
          /\ Cardinality(Unheard("C2")) \in Nat /\ env.lost \in Nat
          /\ Unheard("C1")' = Unheard("C1") /\ Unheard("C2")' = Unheard("C2")
      BY <3>2, ChannelCards, QueueNodes DEF ChannelInv, Counts
    <3> QED
      BY <1>3, <2>1, <3>1, <3>3, <3>4, <3>5 DEF Balance
  <2> QED
    BY <2>3, <2>4, <2>5
<1> QED
  BY <1>7, <1>9, <1>10 DEF ChannelInv

(* A message sent, and what an arrival leaves of the links. *)
LEMMA NoteSent ==
  ASSUME NEW links, links \in [Wires -> Seq(Notes)], NEW n, NEW to, <<n, to>> \in Wires, NEW m \in Notes
  PROVE  /\ Sent(links, n, to, m) \in [Wires -> Seq(Notes)]
         /\ \A k \in Wires : Sent(links, n, to, m)[k] =
                              IF k = <<n, to>> THEN Append(links[k], m) ELSE links[k]
BY ItemsSent

LEMMA NoteTaken ==
  ASSUME ChannelInv, NEW l \in Wires, NEW i \in DOMAIN Link(l), Overtakes(i)
  PROVE  /\ Removed(net.links, l, i) \in [Wires -> Seq(Notes)]
         /\ \A k \in Wires : Removed(net.links, l, i)[k] = IF k = l THEN Without(Link(k), i) ELSE Link(k)
         /\ Loaded(net.links) \in Int /\ Loaded(Removed(net.links, l, i)) = Loaded(net.links) - 1
         /\ Link(l)[i] \in Notes /\ Link(l)[i] \in Coming(l) /\ NoteRight(l, Link(l)[i])
         /\ Counts' /\ env'.dups = env.dups /\ env'.lost = env.lost
<1>1. net.links \in [Wires -> Seq(Notes)] /\ l \in Wires /\ i \in DOMAIN net.links[l]
  BY DEF ChannelInv, Queue, Link
<1>2. /\ Removed(net.links, l, i) \in [Wires -> Seq(Notes)]
      /\ \A k \in Wires : Removed(net.links, l, i)[k] = IF k = l THEN Without(Link(k), i) ELSE Link(k)
  <2>1. /\ Removed(net.links, l, i) \in [Wires -> Seq(Notes)]
        /\ \A k \in Wires : Removed(net.links, l, i)[k] =
                             IF k = l THEN Without(net.links[k], i) ELSE net.links[k]
    BY <1>1, ItemsRemoved
  <2> QED
    BY <2>1 DEF Link
<1>3. Loaded(net.links) \in Int /\ Loaded(Removed(net.links, l, i)) = Loaded(net.links) - 1
  BY <1>1, LoadRemoved
<1>4. Link(l)[i] \in Coming(l) /\ Link(l)[i] \in Notes
  BY NotesMean DEF Coming
<1>5. NoteRight(l, Link(l)[i])
  BY <1>4 DEF ChannelInv, NotesRight
<1>6. Counts' /\ env'.dups = env.dups /\ env'.lost = env.lost
  BY ArrivalCounts DEF ChannelInv
<1> QED
  BY <1>2, <1>3, <1>4, <1>5, <1>6

(* The broker publishes an id to both subscribers. *)
LEMMA PublishSent ==
  ASSUME ChannelInv, NEW l \in Wires, NEW i \in DOMAIN Link(l), Overtakes(i), hist' = hist,
         Link(l)[i].kind = "publish", NEW id, id = Link(l)[i].id, NEW m, m = [kind |-> "notify", id |-> id],
         Handled(Removed(net.links, l, i), net.timers, l[2], Redis!OnPublish(l[1], l[2], Link(l)[i]))
  PROVE  /\ l = Inbox /\ id \in hist.produced /\ m \in Notes /\ m.kind = "notify" /\ m.id = id
         /\ state' = [published |-> state.published \cup {id}, processed |-> state.processed]
         /\ Queue(net', Wires, Notes)
         /\ Link(Inbox)' = Without(Link(Inbox), i)
         /\ \A c \in Takers : Link(<<"B", c>>)' = Append(Link(<<"B", c>>), m)
         /\ \A k \in Wires : k # Inbox /\ (\A c \in Takers : k # <<"B", c>>) => Link(k)' = Link(k)
         /\ Loaded(net.links) \in Int /\ Loaded(net'.links) = Loaded(net.links) + 1
<1> DEFINE links == Removed(net.links, l, i)
           one == Sent(links, "B", "C1", m)
           two == Sent(one, "B", "C2", m)
           out == Redis!OnPublish(l[1], l[2], Link(l)[i])
<1>1. /\ links \in [Wires -> Seq(Notes)]
      /\ \A k \in Wires : links[k] = IF k = l THEN Without(Link(k), i) ELSE Link(k)
      /\ Loaded(net.links) \in Int /\ Loaded(links) = Loaded(net.links) - 1
      /\ Link(l)[i] \in Notes /\ NoteRight(l, Link(l)[i])
      /\ net.timers \in [DOMAIN net.timers -> Nat \ {0}]
  BY NoteTaken DEF ChannelInv, Queue
<1>2. /\ l = Inbox /\ id \in hist.produced /\ id \in MessageId /\ l[2] = "B"
      /\ m \in Notes /\ m.kind = "notify" /\ m.id = id
  BY <1>1 DEF NoteRight, Notes, Inbox
<1>3. /\ out.state = [published |-> state.published \cup {id}, processed |-> state.processed]
      /\ out.sends = <<<<"C1", m>>, <<"C2", m>>>> /\ out.timers = <<>>
  BY <1>2 DEF Redis!OnPublish, Redis!Out, Redis!Notify, ChannelInv, ChannelTyped
<1>4. Handled(links, net.timers, "B", out)
  BY <1>2
<1>5. <<"B", "C1">> \in Wires /\ <<"B", "C2">> \in Wires /\ Takers = {"C1", "C2"}
      /\ <<"B", "C1">> # <<"B", "C2">> /\ \A c \in Takers : <<"B", c>> # Inbox
  BY QueueNodes, ChannelNodes
<1> HIDE DEF out, links
<1>6. state' = out.state /\ net' = [links |-> two, timers |-> net.timers]
  <2>1. /\ state' = out.state /\ net' = [links |-> net'.links, timers |-> net'.timers]
        /\ net'.links = Left(links, net.timers, "B", out).links
        /\ net'.timers = Left(links, net.timers, "B", out).timers
    BY <1>4, LeftShape
  <2>2. net'.links = two
    BY <1>3, <2>1, TwoSent DEF Left
  <2>3. net'.timers = net.timers
    BY <1>1, <1>3, <2>1, LeftQuiet
  <2> QED
    BY <2>1, <2>2, <2>3
<1>7. /\ one \in [Wires -> Seq(Notes)] /\ Loaded(one) = Loaded(links) + 1
      /\ \A k \in Wires : one[k] = IF k = <<"B", "C1">> THEN Append(links[k], m) ELSE links[k]
  <2>1. Loaded(one) = Loaded(links) + 1
    BY <1>1, <1>2, <1>5, LoadSent
  <2>2. /\ one \in [Wires -> Seq(Notes)]
        /\ \A k \in Wires : one[k] = IF k = <<"B", "C1">> THEN Append(links[k], m) ELSE links[k]
    <3>1. links \in [Wires -> Seq(Notes)] /\ <<"B", "C1">> \in Wires /\ m \in Notes
      BY <1>1, <1>2, <1>5
    <3>2. PICK old, m0 : old = links /\ m0 = m
      OBVIOUS
    <3>3. Sent(old, "B", "C1", m0) \in [Wires -> Seq(Notes)]
      BY <3>1, <3>2, NoteSent
    <3>4. \A k \in Wires : Sent(old, "B", "C1", m0)[k] = IF k = <<"B", "C1">> THEN Append(old[k], m0) ELSE old[k]
      BY <3>1, <3>2, NoteSent
    <3> QED
      BY <3>2, <3>3, <3>4
  <2> QED
    BY <2>1, <2>2
<1> HIDE DEF one
<1>8. /\ two \in [Wires -> Seq(Notes)] /\ Loaded(two) = Loaded(one) + 1
      /\ \A k \in Wires : two[k] = IF k = <<"B", "C2">> THEN Append(one[k], m) ELSE one[k]
  <2>1. Loaded(two) = Loaded(one) + 1
    BY <1>2, <1>5, <1>7, LoadSent
  <2>2. /\ two \in [Wires -> Seq(Notes)]
        /\ \A k \in Wires : two[k] = IF k = <<"B", "C2">> THEN Append(one[k], m) ELSE one[k]
    BY <1>2, <1>5, <1>7, NoteSent
  <2> QED
    BY <2>1, <2>2
<1> HIDE DEF two
<1>9. net'.links = two
  BY <1>6
<1>10. Queue(net', Wires, Notes)
  BY <1>1, <1>6, <1>8 DEF Queue
<1>11. \A k \in Wires : Link(k)' = two[k]
  BY <1>9 DEF Link
<1>12. Link(Inbox)' = Without(Link(Inbox), i)
  BY <1>1, <1>2, <1>5, <1>7, <1>8, <1>11
<1>13. ASSUME NEW c \in Takers PROVE Link(<<"B", c>>)' = Append(Link(<<"B", c>>), m)
  <2>1. CASE c = "C1"
    BY <1>1, <1>2, <1>5, <1>7, <1>8, <1>11, <2>1
  <2>2. CASE c = "C2"
    BY <1>1, <1>2, <1>5, <1>7, <1>8, <1>11, <2>2
  <2> QED
    BY <1>5, <2>1, <2>2
<1>14. \A k \in Wires : k # Inbox /\ (\A c \in Takers : k # <<"B", c>>) => Link(k)' = Link(k)
  BY <1>1, <1>2, <1>5, <1>7, <1>8, <1>11
<1>15. Loaded(net.links) \in Int /\ Loaded(net'.links) = Loaded(net.links) + 1
  BY <1>1, <1>7, <1>8, <1>9
<1>16. state' = [published |-> state.published \cup {id}, processed |-> state.processed]
  BY <1>3, <1>6
<1> QED
  BY <1>2, <1>10, <1>12, <1>13, <1>14, <1>15, <1>16

LEMMA PublishHeard ==
  ASSUME ChannelInv, NEW l \in Wires, NEW i \in DOMAIN Link(l), Overtakes(i), hist' = hist,
         Link(l)[i].kind = "publish",
         Handled(Removed(net.links, l, i), net.timers, l[2], Redis!OnPublish(l[1], l[2], Link(l)[i]))
  PROVE  ChannelInv'
<1>1. PICK id, m : id = Link(l)[i].id /\ m = [kind |-> "notify", id |-> id]
  OBVIOUS
<1>2. /\ l = Inbox /\ id \in hist.produced /\ m \in Notes /\ m.kind = "notify" /\ m.id = id
      /\ state' = [published |-> state.published \cup {id}, processed |-> state.processed]
      /\ Queue(net', Wires, Notes)
      /\ Link(Inbox)' = Without(Link(Inbox), i)
      /\ \A c \in Takers : Link(<<"B", c>>)' = Append(Link(<<"B", c>>), m)
      /\ \A k \in Wires : k # Inbox /\ (\A c \in Takers : k # <<"B", c>>) => Link(k)' = Link(k)
      /\ Loaded(net.links) \in Int /\ Loaded(net'.links) = Loaded(net.links) + 1
  BY <1>1, PublishSent
<1>3. Counts' /\ env'.dups = env.dups /\ env'.lost = env.lost
  BY NoteTaken
<1>4. /\ Inbox \in Wires /\ \A c \in Takers : <<"B", c>> \in Wires /\ <<"B", c>> # Inbox
      /\ Link(Inbox) \in Seq(Notes) /\ \A c \in Takers : Link(<<"B", c>>) \in Seq(Notes)
      /\ i \in DOMAIN Link(Inbox) /\ id = Link(Inbox)[i].id
  BY <1>1, <1>2, QueueNodes, ChannelNodes, NotesMean
<1>5. /\ state'.published = state.published \cup {id} /\ state'.processed = state.processed
      /\ \A c : Heard(c)' = Heard(c)
  BY <1>2 DEF Heard, Items
<1>6. ChannelTyped'
  BY <1>2, <1>5 DEF ChannelInv, ChannelTyped
<1>7. /\ Coming(Inbox)' \subseteq Coming(Inbox)
      /\ \A c \in Takers : Coming(<<"B", c>>)' \subseteq Coming(<<"B", c>>) \cup {m}
  <2>1. Items(Without(Link(Inbox), i)) \subseteq Items(Link(Inbox))
    BY <1>4, ItemsOf
  <2>2. \A c \in Takers : Items(Append(Link(<<"B", c>>), m)) \subseteq Items(Link(<<"B", c>>)) \cup {m}
    BY <1>2, <1>4, ItemsOf
  <2> QED
    BY <1>2, <2>1, <2>2 DEF Coming, Items
<1>8. NotesRight'
  <2>1. ASSUME NEW k \in Wires, NEW y \in Coming(k)' PROVE y \in Coming(k) \/ NoteRight(k, y)'
    <3>1. CASE k = Inbox
      BY <1>7, <2>1, <3>1
    <3>2. CASE \E c \in Takers : k = <<"B", c>>
      <4>1. PICK c \in Takers : k = <<"B", c>>
        BY <3>2
      <4>2. y \in Coming(k) \/ y = m
        BY <1>7, <2>1, <4>1
      <4>3. NoteRight(k, m)'
        BY <1>2, <1>5, <4>1 DEF NoteRight
      <4> QED
        BY <4>2, <4>3
    <3>3. CASE k # Inbox /\ \A c \in Takers : k # <<"B", c>>
      BY <1>2, <2>1, <3>3 DEF Coming
    <3> QED
      BY <3>1, <3>2, <3>3
  <2> QED
    BY <1>5, <2>1, NotesKept
<1>9. ASSUME env'.dups = 0 PROVE PublishedOnce' /\ Balance' /\ \A c \in Takers : HeardOnce(c)'
  <2>1. PublishedOnce /\ Balance /\ \A c \in Takers : HeardOnce(c)
    BY <1>3, <1>9 DEF ChannelInv
  <2>2. id \notin state.published
    BY <1>4, <2>1 DEF PublishedOnce, Coming
  <2>3. PublishedOnce'
    <3>1. Distinct(Without(Link(Inbox), i)) /\ \A y \in Items(Without(Link(Inbox), i)) : y.id # id
      <4>1. Distinct(Link(Inbox))
        BY <2>1 DEF PublishedOnce
      <4> QED
        BY <1>4, <4>1, LinkLoses
    <3>2. Distinct(Link(Inbox))' /\ \A y \in Coming(Inbox)' : y.id # id
      BY <1>2, <3>1 DEF Distinct, Coming, Items
    <3> QED
      BY <1>5, <1>7, <2>1, <3>2 DEF PublishedOnce
  <2>4. ASSUME NEW c \in Takers PROVE HeardOnce(c)'
    <3>1. HeardOnce(c) /\ id \notin Heard(c)
      BY <2>1, <2>2 DEF ChannelInv, ChannelTyped
    <3>2. \A y \in Items(Link(<<"B", c>>)) : y.id # m.id
      BY <1>2, <2>2, NotesMean DEF Coming, Items
    <3>3. Distinct(Append(Link(<<"B", c>>), m))
      <4>1. Link(<<"B", c>>) \in Seq(Notes) /\ Distinct(Link(<<"B", c>>))
        BY <1>4, <3>1 DEF HeardOnce
      <4> QED
        BY <1>2, <3>2, <4>1, LinkGains
    <3>4. Distinct(Link(<<"B", c>>))'
      <4>1. Link(<<"B", c>>)' = Append(Link(<<"B", c>>), m)
        BY <1>2
      <4> QED
        BY <3>3, <4>1 DEF Distinct
    <3> QED
      BY <1>2, <1>5, <1>7, <3>1, <3>4 DEF HeardOnce
  <2>5. Balance'
    <3>1. Cardinality(Open)' = Cardinality(Open) - 1
      <4>1. Open' = Open \ {id} /\ id \in Open /\ IsFiniteSet(Open)
        BY <1>2, <1>5, <2>2, ChannelCards DEF Open, ChannelInv
      <4> QED
        BY <4>1, CardIs
    <3>2. ASSUME NEW c \in Takers PROVE Cardinality(Unheard(c))' = Cardinality(Unheard(c)) + 1
      <4>1. id \notin Heard(c)
        BY <2>2 DEF ChannelInv, ChannelTyped
      <4>2. Unheard(c)' = Unheard(c) \cup {id} /\ id \notin Unheard(c) /\ IsFiniteSet(Unheard(c))
        BY <1>5, <2>2, <4>1, ChannelCards DEF Unheard, ChannelInv
      <4> QED
        BY <4>2, CardIs
    <3>3. Total(Loads, Wires) = Loaded(net.links) /\ Total(Loads, Wires)' = Loaded(net'.links)
      BY DEF Loaded, Loads, Link
    <3>4. /\ Cardinality(Open) \in Nat /\ Cardinality(Unheard("C1")) \in Nat
          /\ Cardinality(Unheard("C2")) \in Nat /\ env.lost \in Nat
          /\ Cardinality(Unheard("C1"))' = Cardinality(Unheard("C1")) + 1
          /\ Cardinality(Unheard("C2"))' = Cardinality(Unheard("C2")) + 1
      BY <3>2, ChannelCards, QueueNodes DEF ChannelInv, Counts
    <3>5. /\ Loaded(net.links) \in Int /\ Loaded(net'.links) = Loaded(net.links) + 1
          /\ env'.lost = env.lost /\ Balance
      BY <1>2, <1>3, <2>1
    <3> QED
      BY <3>1, <3>3, <3>4, <3>5 DEF Balance
  <2> QED
    BY <2>3, <2>4, <2>5
<1> QED
  BY <1>2, <1>3, <1>6, <1>8, <1>9 DEF ChannelInv

(* A subscriber hears an id: once more on its list, once less on the link. *)
LEMMA HeardMore ==
  ASSUME NEW s \in Seq(MessageId), NEW id \in MessageId
  PROVE  /\ Append(s, id) \in Seq(MessageId) /\ Items(Append(s, id)) = Items(s) \cup {id}
         /\ (id \notin Items(s) /\ \A i, j \in DOMAIN s : s[i] = s[j] => i = j) =>
              \A i, j \in DOMAIN Append(s, id) : Append(s, id)[i] = Append(s, id)[j] => i = j
<1> DEFINE t == Append(s, id)
<1>1. /\ Len(s) \in Nat /\ DOMAIN s = 1..Len(s) /\ t \in Seq(MessageId) /\ Len(t) = Len(s) + 1
      /\ \A j \in 1..Len(s) : t[j] = s[j]
      /\ t[Len(s) + 1] = id
  BY AppendProperties, LenProperties
<1>2. DOMAIN t = 1..(Len(s) + 1)
  BY <1>1, LenProperties
<1> HIDE DEF t
<1>3. Items(t) = Items(s) \cup {id}
  <2>1. Items(t) \subseteq Items(s) \cup {id}
    <3>1. \A j \in 1..(Len(s) + 1) : j \in 1..Len(s) \/ j = Len(s) + 1
      BY <1>1
    <3> QED
      BY <1>1, <1>2, <3>1 DEF Items
  <2>2. Items(s) \subseteq Items(t)
    <3>1. \A j \in 1..Len(s) : j \in 1..(Len(s) + 1)
      BY <1>1
    <3> QED
      BY <1>1, <1>2, <3>1 DEF Items
  <2>3. id \in Items(t)
    <3>1. Len(s) + 1 \in 1..(Len(s) + 1)
      BY <1>1
    <3> QED
      BY <1>1, <1>2, <3>1 DEF Items
  <2> QED
    BY <2>1, <2>2, <2>3
<1>4. ASSUME id \notin Items(s), \A i, j \in DOMAIN s : s[i] = s[j] => i = j,
             NEW i \in DOMAIN t, NEW j \in DOMAIN t, t[i] = t[j]
      PROVE  i = j
  <2>1. \A k \in 1..Len(s) : s[k] # id
    BY <1>1, <1>4 DEF Items
  <2>2. CASE i = Len(s) + 1 \/ j = Len(s) + 1
    BY <1>1, <1>2, <1>4, <2>1, <2>2
  <2>3. CASE i # Len(s) + 1 /\ j # Len(s) + 1
    <3>1. i \in 1..Len(s) /\ j \in 1..Len(s)
      BY <1>1, <1>2, <2>3
    <3> QED
      BY <1>1, <1>4, <3>1
  <2> QED
    BY <2>2, <2>3
<1>5. (id \notin Items(s) /\ \A i, j \in DOMAIN s : s[i] = s[j] => i = j) =>
        \A i, j \in DOMAIN t : t[i] = t[j] => i = j
  BY <1>4
<1> QED
  BY <1>1, <1>3, <1>5 DEF t

LEMMA NotifyTaken ==
  ASSUME ChannelInv, NEW l \in Wires, NEW i \in DOMAIN Link(l), Overtakes(i), hist' = hist,
         Link(l)[i].kind = "notify", NEW id, id = Link(l)[i].id, NEW c, c = l[2],
         Handled(Removed(net.links, l, i), net.timers, l[2], Redis!OnNotify(l[1], l[2], Link(l)[i]))
  PROVE  /\ l = <<"B", c>> /\ c \in Takers /\ id \in MessageId /\ id \in state.published
         /\ state' = [published |-> state.published,
                      processed |-> [state.processed EXCEPT ![c] = Append(@, id)]]
         /\ Queue(net', Wires, Notes)
         /\ Link(l)' = Without(Link(l), i) /\ \A k \in Wires : k # l => Link(k)' = Link(k)
         /\ Loaded(net.links) \in Int /\ Loaded(net'.links) = Loaded(net.links) - 1
<1> DEFINE links == Removed(net.links, l, i)
           out == Redis!OnNotify(l[1], l[2], Link(l)[i])
<1>1. /\ links \in [Wires -> Seq(Notes)]
      /\ \A k \in Wires : links[k] = IF k = l THEN Without(Link(k), i) ELSE Link(k)
      /\ Loaded(net.links) \in Int /\ Loaded(links) = Loaded(net.links) - 1
      /\ Link(l)[i] \in Notes /\ NoteRight(l, Link(l)[i])
      /\ net.timers \in [DOMAIN net.timers -> Nat \ {0}]
  BY NoteTaken DEF ChannelInv, Queue
<1>2. l[1] = "B" /\ c \in Takers /\ id \in MessageId /\ id \in state.published
  BY <1>1 DEF NoteRight, Notes
<1>3. l = <<"B", c>>
  BY <1>2, QueueNodes
<1>4. /\ out.state = [published |-> state.published,
                      processed |-> [state.processed EXCEPT ![c] = Append(@, id)]]
      /\ out.sends = <<>> /\ out.timers = <<>>
  BY <1>2 DEF Redis!OnNotify, Redis!Out, Redis!Quiet, ChannelInv, ChannelTyped
<1> HIDE DEF out, links
<1>5. state' = out.state /\ net' = [links |-> links, timers |-> net.timers]
  <2>1. /\ state' = out.state /\ net' = [links |-> net'.links, timers |-> net'.timers]
        /\ net'.links = Left(links, net.timers, l[2], out).links
        /\ net'.timers = Left(links, net.timers, l[2], out).timers
    BY LeftShape DEF out, links
  <2>2. net'.links = links /\ net'.timers = net.timers
    BY <1>1, <1>4, <2>1, LeftQuiet
  <2> QED
    BY <2>1, <2>2
<1>6. net'.links = links /\ Queue(net', Wires, Notes)
  BY <1>1, <1>5 DEF Queue
<1>7. \A k \in Wires : Link(k)' = links[k]
  BY <1>6 DEF Link
<1> QED
  BY <1>1, <1>2, <1>3, <1>4, <1>5, <1>6, <1>7

LEMMA NotifyHeard ==
  ASSUME ChannelInv, NEW l \in Wires, NEW i \in DOMAIN Link(l), Overtakes(i), hist' = hist,
         Link(l)[i].kind = "notify",
         Handled(Removed(net.links, l, i), net.timers, l[2], Redis!OnNotify(l[1], l[2], Link(l)[i]))
  PROVE  ChannelInv'
<1>1. PICK id, c : id = Link(l)[i].id /\ c = l[2]
  OBVIOUS
<1>2. /\ l = <<"B", c>> /\ c \in Takers /\ id \in MessageId /\ id \in state.published
      /\ state' = [published |-> state.published,
                   processed |-> [state.processed EXCEPT ![c] = Append(@, id)]]
      /\ Queue(net', Wires, Notes)
      /\ Link(l)' = Without(Link(l), i) /\ \A k \in Wires : k # l => Link(k)' = Link(k)
      /\ Loaded(net.links) \in Int /\ Loaded(net'.links) = Loaded(net.links) - 1
  BY <1>1, NotifyTaken
<1>3. Counts' /\ env'.dups = env.dups /\ env'.lost = env.lost
  BY NoteTaken
<1>4. /\ l # Inbox /\ Inbox \in Wires /\ \A d \in Takers : <<"B", d>> \in Wires
      /\ Link(l) \in Seq(Notes) /\ state.processed \in [Takers -> Seq(MessageId)]
  BY <1>2, QueueNodes, ChannelNodes, NotesMean DEF ChannelInv, ChannelTyped
<1>5. state'.published = state.published /\ state'.processed = [state.processed EXCEPT ![c] = Append(@, id)]
  BY <1>2
<1>6. /\ state'.processed[c] = Append(state.processed[c], id) /\ Heard(c)' = Heard(c) \cup {id}
      /\ state'.processed \in [Takers -> Seq(MessageId)]
      /\ \A d \in Takers : d # c => state'.processed[d] = state.processed[d] /\ Heard(d)' = Heard(d)
  <2>1. state'.processed[c] = Append(state.processed[c], id) /\ state.processed[c] \in Seq(MessageId)
    BY <1>2, <1>4, <1>5
  <2>2. Append(state.processed[c], id) \in Seq(MessageId)
        /\ Items(Append(state.processed[c], id)) = Items(state.processed[c]) \cup {id}
    BY <1>2, <2>1, HeardMore
  <2>3. \A d \in Takers : d # c => state'.processed[d] = state.processed[d]
    BY <1>4, <1>5
  <2>4. state'.processed \in [Takers -> Seq(MessageId)]
    BY <1>4, <1>5, <2>1, <2>2
  <2> QED
    BY <2>1, <2>2, <2>3, <2>4 DEF Heard, Items
<1>7. ChannelTyped'
  BY <1>2, <1>5, <1>6 DEF ChannelInv, ChannelTyped
<1>8. /\ Coming(l)' \subseteq Coming(l) /\ \A k \in Wires : k # l => Coming(k)' = Coming(k)
  <2>1. Items(Without(Link(l), i)) \subseteq Items(Link(l))
    BY <1>4, ItemsOf
  <2> QED
    BY <1>2, <2>1 DEF Coming, Items
<1>9. NotesRight'
  BY <1>5, <1>8, NotesKept
<1>10. ASSUME env'.dups = 0 PROVE PublishedOnce' /\ Balance' /\ \A d \in Takers : HeardOnce(d)'
  <2>1. PublishedOnce /\ Balance /\ \A d \in Takers : HeardOnce(d)
    BY <1>3, <1>10 DEF ChannelInv
  <2>2. id \notin Heard(c)
    BY <1>1, <1>2, <2>1 DEF HeardOnce, Coming
  <2>3. PublishedOnce'
    <3>1. Link(Inbox)' = Link(Inbox) /\ Coming(Inbox)' = Coming(Inbox)
      BY <1>2, <1>4, <1>8
    <3> QED
      BY <1>5, <2>1, <3>1 DEF PublishedOnce, Distinct
  <2>4. HeardOnce(c)'
    <3>1. Distinct(Without(Link(l), i)) /\ \A y \in Items(Without(Link(l), i)) : y.id # id
      <4>1. Distinct(Link(l))
        BY <1>2, <2>1 DEF HeardOnce
      <4> QED
        BY <1>1, <1>4, <4>1, LinkLoses
    <3>2. Distinct(Link(l))' /\ \A y \in Coming(l)' : y.id # id
      BY <1>2, <3>1 DEF Distinct, Coming, Items
    <3>3. \A y \in Coming(l)' : y.id \notin Heard(c)'
      BY <1>2, <1>6, <1>8, <2>1, <3>2 DEF HeardOnce
    <3>4. \A a, b \in DOMAIN state'.processed[c] : state'.processed[c][a] = state'.processed[c][b] => a = b
      <4>1. /\ state.processed[c] \in Seq(MessageId) /\ id \notin Items(state.processed[c])
            /\ \A a, b \in DOMAIN state.processed[c] : state.processed[c][a] = state.processed[c][b] => a = b
        BY <1>2, <1>4, <2>1, <2>2 DEF HeardOnce, Heard
      <4>2. \A a, b \in DOMAIN Append(state.processed[c], id) :
              Append(state.processed[c], id)[a] = Append(state.processed[c], id)[b] => a = b
        BY <1>2, <4>1, HeardMore
      <4> QED
        BY <1>6, <4>2
    <3> QED
      BY <1>2, <3>2, <3>3, <3>4 DEF HeardOnce
  <2>5. ASSUME NEW d \in Takers, d # c PROVE HeardOnce(d)'
    <3>1. <<"B", d>> \in Wires /\ <<"B", d>> # l
      BY <1>2, <1>4, <2>5
    <3>2. /\ HeardOnce(d) /\ Link(<<"B", d>>)' = Link(<<"B", d>>) /\ Coming(<<"B", d>>)' = Coming(<<"B", d>>)
          /\ Heard(d)' = Heard(d) /\ state'.processed[d] = state.processed[d]
      BY <1>2, <1>6, <1>8, <2>1, <2>5, <3>1
    <3> QED
      BY <3>2 DEF HeardOnce, Distinct
  <2>6. Balance'
    <3>1. Open' = Open
      BY <1>5 DEF Open
    <3>2. Cardinality(Unheard(c))' = Cardinality(Unheard(c)) - 1
      <4>1. Unheard(c)' = Unheard(c) \ {id} /\ id \in Unheard(c) /\ IsFiniteSet(Unheard(c))
        BY <1>2, <1>5, <1>6, <2>2, ChannelCards DEF Unheard, ChannelInv
      <4> QED
        BY <4>1, CardIs
    <3>3. \A d \in Takers : d # c => Unheard(d)' = Unheard(d)
      BY <1>5, <1>6 DEF Unheard
    <3>4. Total(Loads, Wires) = Loaded(net.links) /\ Total(Loads, Wires)' = Loaded(net'.links)
      BY DEF Loaded, Loads, Link
    <3>5. /\ Cardinality(Open) \in Nat /\ Cardinality(Unheard("C1")) \in Nat
          /\ Cardinality(Unheard("C2")) \in Nat /\ env.lost \in Nat
      BY ChannelCards, QueueNodes DEF ChannelInv, Counts
    <3>6. Cardinality(Unheard("C1"))' + Cardinality(Unheard("C2"))' =
            Cardinality(Unheard("C1")) + Cardinality(Unheard("C2")) - 1
      <4>1. CASE c = "C1"
        <5>1. Unheard("C2")' = Unheard("C2")
          BY <3>3, <4>1, QueueNodes
        <5> QED
          BY <3>2, <3>5, <4>1, <5>1
      <4>2. CASE c = "C2"
        <5>1. Unheard("C1")' = Unheard("C1")
          BY <3>3, <4>2, QueueNodes
        <5> QED
          BY <3>2, <3>5, <4>2, <5>1
      <4> QED
        BY <1>2, <4>1, <4>2, QueueNodes
    <3>7. /\ Loaded(net.links) \in Int /\ Loaded(net'.links) = Loaded(net.links) - 1
          /\ env'.lost = env.lost /\ Balance
      BY <1>2, <1>3, <2>1
    <3> QED
      BY <3>1, <3>4, <3>5, <3>6, <3>7 DEF Balance
  <2> QED
    BY <2>3, <2>4, <2>5, <2>6
<1> QED
  BY <1>2, <1>3, <1>7, <1>9, <1>10 DEF ChannelInv

(* Nothing but the links changes, and what they lose is counted. *)
Lessened(l) == Link(l)' = Link(l) \/ \E i \in DOMAIN Link(l) : Link(l)' = Without(Link(l), i)

LEMMA ChannelStill ==
  ASSUME ChannelInv, state' = state, hist' = hist, Queue(net', Wires, Notes), Counts',
         \A l \in Wires : Coming(l)' \subseteq Coming(l),
         env'.dups = 0 => /\ env.dups = 0 /\ \A l \in Wires : Lessened(l)
                          /\ Loaded(net.links) \in Int
                          /\ Loaded(net'.links) + env'.lost = Loaded(net.links) + env.lost
  PROVE  ChannelInv'
<1>1. ChannelTyped' /\ \A c : Heard(c)' = Heard(c) /\ Unheard(c)' = Unheard(c)
  BY DEF ChannelInv, ChannelTyped, Heard, Items, Unheard
<1>2. NotesRight'
  BY NotesKept
<1>3. ASSUME env'.dups = 0 PROVE PublishedOnce' /\ Balance' /\ \A c \in Takers : HeardOnce(c)'
  <2>1. PublishedOnce /\ Balance /\ \A c \in Takers : HeardOnce(c)
    BY <1>3 DEF ChannelInv
  <2>2. ASSUME NEW l \in Wires, Distinct(Link(l)) PROVE Distinct(Link(l))'
    <3>1. Link(l) \in Seq(Notes) /\ Lessened(l)
      BY <1>3, NotesMean
    <3>2. \A i \in DOMAIN Link(l) : Distinct(Without(Link(l), i))
      BY <2>2, <3>1, LinkLoses
    <3> QED
      BY <2>2, <3>1, <3>2 DEF Lessened, Distinct
  <2>3. PublishedOnce'
    <3>1. Distinct(Link(Inbox))'
      BY <2>1, <2>2, QueueNodes DEF PublishedOnce
    <3> QED
      BY <2>1, <3>1, QueueNodes DEF PublishedOnce
  <2>4. ASSUME NEW c \in Takers PROVE HeardOnce(c)'
    <3>1. Distinct(Link(<<"B", c>>))'
      BY <2>1, <2>2, QueueNodes DEF HeardOnce
    <3> QED
      BY <1>1, <2>1, <3>1, QueueNodes DEF HeardOnce
  <2>5. Balance'
    <3>1. Open' = Open /\ Unheard("C1")' = Unheard("C1") /\ Unheard("C2")' = Unheard("C2")
      BY <1>1 DEF Open
    <3>2. Total(Loads, Wires) = Loaded(net.links) /\ Total(Loads, Wires)' = Loaded(net'.links)
      BY DEF Loaded, Loads, Link
    <3>3. /\ Loaded(net.links) \in Int /\ Loaded(net'.links) + env'.lost = Loaded(net.links) + env.lost
      BY <1>3
    <3> QED
      BY <2>1, <3>1, <3>2, <3>3 DEF Balance
  <2> QED
    BY <2>3, <2>4, <2>5
<1> QED
  BY <1>1, <1>2, <1>3 DEF ChannelInv

LEMMA ChannelHarmed ==
  ASSUME ChannelInv, Redis!Fault
  PROVE  ChannelInv'
<1>1. Queue(net, Wires, Notes) /\ Counts /\ Faults(Wires) /\ state' = state /\ hist' = hist
  BY ChannelFaults DEF ChannelInv
<1>2. Harmed(Wires) /\ Counts'
  BY <1>1, FaultHarms
<1>3. Queue(net', Wires, Notes) /\ \A l \in Wires : Items(net'.links[l]) \subseteq Items(net.links[l])
  BY <1>1, <1>2, HarmedQueue
<1>4. \A l \in Wires : Coming(l)' \subseteq Coming(l)
  BY <1>3 DEF Coming, Link, Items
<1>5. net.links \in [Wires -> Seq(Notes)] /\ env.dups \in Nat /\ env.lost \in Nat
  BY <1>1 DEF Queue, Counts
<1>6. PICK x : x \in Wires
  BY QueueNodes
<1>7. Loaded(net.links) \in Int
  BY <1>5, <1>6, LoadChanged
<1>8. ASSUME env'.dups = 0
      PROVE  /\ env.dups = 0 /\ \A l \in Wires : Lessened(l)
             /\ Loaded(net.links) \in Int
             /\ Loaded(net'.links) + env'.lost = Loaded(net.links) + env.lost
  <2>1. ASSUME Same(0), net'.links = net.links
        PROVE  /\ env.dups = 0 /\ \A l \in Wires : Lessened(l)
               /\ Loaded(net'.links) + env'.lost = Loaded(net.links) + env.lost
    <3>1. env.dups = 0 /\ env'.lost = env.lost
      BY <1>5, <1>8, <2>1 DEF Same
    <3>2. \A l \in Wires : Lessened(l)
      BY <2>1 DEF Lessened, Link
    <3> QED
      BY <2>1, <3>1, <3>2
  <2>2. CASE Spared
    BY <1>7, <2>1, <2>2 DEF Spared
  <2>3. CASE \E l \in Wires : \E i \in DOMAIN net.links[l] : LosesAt(l, i)
    <3>1. PICK l \in Wires : \E i \in DOMAIN net.links[l] : LosesAt(l, i)
      BY <2>3
    <3>2. PICK i \in DOMAIN net.links[l] : LosesAt(l, i)
      BY <3>1
    <3>3. \A k \in Wires : Removed(net.links, l, i)[k] = IF k = l THEN Without(net.links[k], i) ELSE net.links[k]
      BY <1>5, <3>2, ItemsRemoved
    <3>4. net'.links = Removed(net.links, l, i) /\ env'.lost = env.lost + 1 /\ env.dups = 0
      BY <1>8, <3>2 DEF LosesAt, Same
    <3>5. \A k \in Wires : Lessened(k)
      BY <3>2, <3>3, <3>4 DEF Lessened, Link
    <3>6. Loaded(Removed(net.links, l, i)) = Loaded(net.links) - 1
      BY <1>5, <3>2, LoadRemoved
    <3>7. Loaded(net'.links) = Loaded(net.links) - 1
      BY <3>4, <3>6
    <3>8. Loaded(net'.links) + env'.lost = Loaded(net.links) + env.lost
      <4>1. env'.lost = env.lost + 1 /\ env.lost \in Nat
        BY <1>5, <3>4
      <4> QED
        BY <1>7, <3>7, <4>1
    <3> QED
      BY <1>7, <3>4, <3>5, <3>8
  <2>4. CASE \E l \in Wires : \E i \in DOMAIN net.links[l] : CopiesAt(l, i)
    BY <1>5, <1>8, <2>4 DEF CopiesAt
  <2>5. CASE \E t \in DOMAIN net.timers : MissesTimer(t)
    <3>1. Same(0) /\ net'.links = net.links
      BY <2>5 DEF MissesTimer
    <3> QED
      BY <1>7, <2>1, <3>1
  <2> QED
    BY <1>2, <2>2, <2>3, <2>4, <2>5 DEF Harmed
<1> QED
  BY <1>1, <1>2, <1>3, <1>4, <1>8, ChannelStill

LEMMA ChannelNext ==
  ASSUME ChannelInv, [Redis!Next]_Redis!vars
  PROVE  ChannelInv'
<1>1. CASE Redis!Produce
  BY <1>1, ProducedOpen
<1>2. CASE \/ Redis!Receive("publish", Redis!OnPublish) /\ UNCHANGED hist
           \/ Redis!Receive("notify", Redis!OnNotify) /\ UNCHANGED hist
  <2>1. Queue(net, Wires, Notes)
    BY DEF ChannelInv
  <2>2. PICK l \in Wires : \E i \in DOMAIN Link(l) :
          /\ Overtakes(i) /\ hist' = hist
          /\ LET Runs(out) == Handled(Removed(net.links, l, i), net.timers, l[2], out)
                 m == Link(l)[i]
             IN \/ m.kind = "publish" /\ Runs(Redis!OnPublish(l[1], l[2], m))
                \/ m.kind = "notify" /\ Runs(Redis!OnNotify(l[1], l[2], m))
    BY <1>2, <2>1, ChannelReceive
  <2> QED
    BY <2>2, PublishHeard, NotifyHeard
<1>3. CASE Redis!Fault
  BY <1>3, ChannelHarmed
<1>4. CASE UNCHANGED Redis!vars
  <2>1. state' = state /\ net' = net /\ env' = env /\ hist' = hist
    BY <1>4 DEF Redis!vars
  <2>2. Queue(net', Wires, Notes) /\ Counts'
    BY <2>1 DEF ChannelInv, Counts
  <2>3. \A l \in Wires : Coming(l)' = Coming(l) /\ Lessened(l)
    BY <2>1 DEF Coming, Link, Lessened
  <2>4. Loaded(net.links) \in Int
    <3>1. net.links \in [Wires -> Seq(Notes)] /\ \E x : x \in Wires
      BY QueueNodes DEF ChannelInv, Queue
    <3> QED
      BY <3>1, LoadChanged
  <2> QED
    BY <2>1, <2>2, <2>3, <2>4, ChannelStill
<1> QED
  BY <1>1, <1>2, <1>3, <1>4 DEF Redis!Next

LEMMA ChannelInit == Redis!Init => ChannelInv
<1> SUFFICES ASSUME Redis!Init PROVE ChannelInv
  OBVIOUS
<1>1. /\ state = [published |-> {}, processed |-> [c \in Takers |-> <<>>]]
      /\ net = [links |-> [l \in Wires |-> <<>>], timers |-> [t \in {} |-> 0]]
      /\ env = [dead |-> {}, falls |-> env.falls, kills |-> 0, revives |-> 0,
                drops |-> 0, dups |-> 0, late |-> 0, lost |-> 0]
      /\ hist = [produced |-> {}]
  BY ChannelNodes DEF Redis!Init, Redis!NoEvents, Redis!Calm
<1>2. DOMAIN net.timers = {} /\ \A l \in Wires : Link(l) = <<>> /\ Coming(l) = {} /\ DOMAIN Link(l) = {}
  BY <1>1 DEF Coming, Link
<1>3. Open = {} /\ \A c \in Takers : Heard(c) = {} /\ Unheard(c) = {} /\ DOMAIN state.processed[c] = {}
  BY <1>1 DEF Open, Heard, Items, Unheard
<1>4. ChannelTyped
  <2>1. state.processed \in [Takers -> Seq(MessageId)]
    BY <1>1
  <2> QED
    BY <1>1, <1>3, <2>1, FS_EmptySet DEF ChannelTyped
<1>5. Queue(net, Wires, Notes)
  <2>1. net.links \in [Wires -> Seq(Notes)]
    BY <1>1
  <2> QED
    BY <1>1, <1>2, <2>1 DEF Queue
<1>6. Counts /\ NotesRight
  BY <1>1, <1>2 DEF Counts, NotesRight
<1>7. PublishedOnce /\ \A c \in Takers : HeardOnce(c)
  BY <1>2, <1>3, QueueNodes DEF PublishedOnce, HeardOnce, Distinct
<1>8. Balance
  <2>1. Loads = [l \in Wires |-> 0]
    BY <1>2 DEF Loads
  <2>2. PICK S, f : S = Wires /\ f = Loads
    OBVIOUS
  <2>3. IsFiniteSet(S) /\ f \in [S -> Int] /\ \A l \in S : f[l] = 0
    BY <2>1, <2>2, ChannelNodes
  <2>4. Total(f, S) = 0
    BY <2>3, TotalNone
  <2>5. Cardinality({}) = 0 /\ Unheard("C1") = {} /\ Unheard("C2") = {} /\ env.lost = 0
    BY <1>1, <1>3, QueueNodes, FS_EmptySet
  <2> QED
    BY <1>3, <2>2, <2>4, <2>5 DEF Balance
<1> QED
  BY <1>4, <1>5, <1>6, <1>7, <1>8 DEF ChannelInv

(* The queue never loses a message it took and, copies aside, sends each   *)
(* again no more often than its limit and watches it until a kill; the     *)
(* channel, copies aside, hands a subscriber an id at most once and counts *)
(* as lost exactly what is missing: for any messages, any limit and any    *)
(* faults (rabbitqueue.ts:76-110, 204-217, redispubsub.ts:37-53, 101-122). *)
THEOREM MessagesCorrect == LabSpec => []MessagesAccounted
<1> DEFINE Inv == (lab = "rabbit" => HoldInv) /\ (lab = "redis" => ChannelInv)
<1>1. LabInit => Inv
  BY HoldInit, ChannelInit DEF LabInit
<1>2. Inv /\ [LabNext]_<<lab, state, net, env, hist>> => Inv'
  <2> SUFFICES ASSUME Inv, [LabNext]_<<lab, state, net, env, hist>> PROVE Inv'
    OBVIOUS
  <2>1. ASSUME lab' = "rabbit" PROVE HoldInv'
    <3>1. lab = "rabbit" /\ [Rabbit!Next]_Rabbit!vars
      BY <2>1 DEF LabNext, Rabbit!vars
    <3> QED
      BY <3>1, HoldNext
  <2>2. ASSUME lab' = "redis" PROVE ChannelInv'
    <3>1. lab = "redis" /\ [Redis!Next]_Redis!vars
      BY <2>2 DEF LabNext, Redis!vars
    <3> QED
      BY <3>1, ChannelNext
  <2> QED
    BY <2>1, <2>2
<1>3. Inv => MessagesAccounted
  BY HoldMeans, ChannelMeans DEF MessagesAccounted
<1> QED
  BY <1>1, <1>2, <1>3, PTL DEF LabSpec

-----------------------------------------------------------------------------
(* The page.  What is on its way says what its kind always says, and a     *)
(* client counts a request where it takes it off its list.                 *)

Posts     == {PagePosts[i] : i \in DOMAIN PagePosts}
Spots     == Api!Links
Profiles  == {[kind |-> "profile", postIds |-> PagePosts, tags |-> Api!RequiredTags,
               bytes |-> 150],
              [kind |-> "profile", postIds |-> PagePosts, tags |-> Api!RequiredTags \cup {Api!V2AddedTag},
               bytes |-> 170]}
Asked     == [kind : {"getUser", "query", "getProfile"}, key : {"user", "q", "rpc"}]
AskedPost == [kind : {"getPost"}, key : Posts]
Users     == [kind : {"user"}, bytes : {220}, postIds : {PagePosts}]
PostMail  == [kind : {"post"}, bytes : {160}, postId : Posts]
Results   == [kind : {"result"}, postIds : {PagePosts}, resolverCalls : {1 + Api!NPosts}, bytes : {360}]
Mail      == Asked \cup AskedPost \cup Users \cup PostMail \cup Results \cup Profiles

Keys == {"user", "q", "rpc"} \cup Posts
Clients ==
  [started : BOOLEAN, gotUser : BOOLEAN, expected : Nat, delivered : Nat, failed : Nat,
   live : SUBSET Keys, bytes : Nat, roundTrips : Nat,
   resolverCalls : Nat, unknownSkipped : Nat]

(* A page of many requests: each post is delivered, failed or awaited. *)
ManyRight(c) ==
  /\ ~c.started => c.live = {} /\ ~c.gotUser
  /\ ~c.gotUser => /\ c.live \subseteq {"user"}
                   /\ c.expected = 0 /\ c.delivered = 0 /\ c.failed = 0 /\ c.bytes = 0
  /\ c.gotUser => /\ c.live \subseteq Posts /\ c.expected = Api!NPosts
                  /\ c.delivered + c.failed + Cardinality(c.live) = Api!NPosts
                  /\ c.bytes = 220 + 160 * c.delivered

(* A page of one request, of this key: awaited, failed or whole. *)
OneRight(c, key) ==
  /\ c.live \subseteq {key}
  /\ ~c.started => c.live = {} /\ c.failed = 0 /\ c.delivered = 0
  /\ \/ /\ c.expected = 0 /\ c.delivered = 0 /\ c.failed = 0 /\ c.bytes = 0 /\ c.unknownSkipped = 0
        /\ c.started => c.live = {key}
     \/ c.live = {} /\ c.failed = 1 /\ c.expected = 0 /\ c.delivered = 0 /\ c.bytes = 0
     \/ /\ c.live = {} /\ c.failed = 0 /\ c.expected = Api!NPosts /\ c.delivered = Api!NPosts
        /\ c.bytes > 0 /\ (c.unknownSkipped >= 1 => c.bytes = 170)

ClientRight(style, c) ==
  /\ c \in Clients
  /\ style = "rest" => ManyRight(c)
  /\ style = "graphql" => OneRight(c, "q")
  /\ style = "grpc" => OneRight(c, "rpc")

(* What a client counts: a post, a timeout, a page; and what a handler     *)
(* makes of it.                                                            *)
Begins(c, d, key) == d = [c EXCEPT !.started = TRUE, !.roundTrips = 1, !.live = {key}]
Delivers(c, d, p) == d = [c EXCEPT !.delivered = @ + 1, !.bytes = @ + 160, !.live = @ \ {p}]
LetsGo(c, d, key) == d = [c EXCEPT !.live = @ \ {key}, !.failed = IF key = "user" THEN @ ELSE @ + 1]
GivesUp(c, d)     == d = [c EXCEPT !.live = {}, !.failed = 1]
Completes(c, d, b, s, r) ==
  d = [started |-> c.started, gotUser |-> c.gotUser, expected |-> Api!NPosts,
       delivered |-> Api!NPosts, failed |-> c.failed, live |-> {}, bytes |-> b,
       roundTrips |-> c.roundTrips, resolverCalls |-> r, unknownSkipped |-> s]
Leads(out, d) ==
  /\ out.sends = <<>> /\ out.timers = <<>>
  /\ out.state = [state EXCEPT !.client = d] \/ (out.state = state /\ d = state.client)

PageTyped == state \in [style : {"rest", "graphql", "grpc"}, client : Clients, schema : {"v1", "v2"}]
UsersHome == \A l \in Spots : \A m \in Coming(l) : m.kind = "user" => l[2] = "Client"
Fallen ==
  /\ env.falls \in [{"Client", "Server"} -> Nat]
  /\ env.falls["Client"] = 0 => "Client" \notin env.dead

PageInv ==
  /\ PageTyped /\ ClientRight(state.style, state.client)
  /\ Queue(net, Spots, Mail) /\ UsersHome /\ Counts /\ Fallen /\ Api!WaitIsTimed

LEMMA PageFacts ==
  /\ PagePosts \in Seq(Posts) /\ Len(PagePosts) = Api!NPosts /\ Api!NPosts \in Nat \ {0}
  /\ DOMAIN PagePosts = 1..Api!NPosts /\ Posts \cap {"user", "q", "rpc"} = {}
  /\ IsFiniteSet(Posts) /\ Cardinality(Posts) = Api!NPosts
  /\ Api!Range(PagePosts) = Posts
  /\ Spots = {"Client", "Server"} \X {"Client", "Server"}
  /\ \A S : Api!Cardinality(S) = Cardinality(S)
<1>1. /\ PagePosts \in Seq(Posts) /\ Posts \cap {"user", "q", "rpc"} = {} /\ PagePosts # <<>>
      /\ \A i, j \in DOMAIN PagePosts : PagePosts[i] = PagePosts[j] => i = j
  BY PostsAssumption DEF Posts
<1>2. Len(PagePosts) = Api!NPosts
  BY DEF Api!NPosts
<1>3. Api!NPosts \in Nat \ {0} /\ DOMAIN PagePosts = 1..Api!NPosts
  BY <1>1, <1>2, EmptySeq, LenProperties
<1>4. IsFiniteSet(Posts) /\ Cardinality(Posts) = Api!NPosts
  <2> DEFINE n == Api!NPosts
             f == [i \in 1..n |-> PagePosts[i]]
  <2>1. n \in Nat
    BY <1>3
  <2> HIDE DEF n
  <2>2. f \in Bijection(1..n, Posts)
    <3>1. f \in Injection(1..n, Posts) /\ f \in Surjection(1..n, Posts)
      BY <1>1, <1>3 DEF n, Posts, Injection, Surjection, IsInjective
    <3> QED
      BY <3>1 DEF Bijection
  <2>3. IsFiniteSet(1..n) /\ Cardinality(1..n) = n
    <3>1. IsFiniteSet(1..n) /\ Cardinality(1..n) = IF 1 > n THEN 0 ELSE n - 1 + 1
      BY <2>1, FS_Interval
    <3> QED
      BY <2>1, <3>1
  <2>4. ExistsBijection(1..n, Posts)
    BY <2>2 DEF ExistsBijection
  <2> QED
    BY <2>3, <2>4, FS_Bijection DEF n
<1>5. Api!Range(PagePosts) = Posts
  BY DEF Api!Range, Posts
<1>6. Spots = {"Client", "Server"} \X {"Client", "Server"}
  BY DEF Spots, Api!Links
<1>7. \A S : Api!Cardinality(S) = Cardinality(S)
  BY DEF Api!Cardinality, Cardinality
<1> QED
  BY <1>1, <1>2, <1>3, <1>4, <1>5, <1>6, <1>7

LEMMA PageEngine ==
  /\ \A links, n, sends : Api!WithMessages(links, n, sends) = Engine!WithMessages(links, n, sends)
  /\ \A timers, n, set : Api!WithTimers(timers, n, set) = Engine!WithTimers(timers, n, set)
  /\ \A s, i : Api!AllBut(s, i) = Engine!AllBut(s, i)
  /\ \A timers, t : Api!WithoutTimer(timers, t) = Engine!WithoutTimer(timers, t)
<1>1. \A links, n, sends : Api!WithMessages(links, n, sends) = Engine!WithMessages(links, n, sends)
  BY DEF Api!WithMessages, Engine!WithMessages
<1>2. \A S : Api!Cardinality(S) = Engine!Cardinality(S)
  BY DEF Api!Cardinality, Engine!Cardinality
<1>3. \A timers, n, set : Api!WithTimers(timers, n, set) = Engine!WithTimers(timers, n, set)
  BY <1>2 DEF Api!WithTimers, Engine!WithTimers
<1>4. \A s, i : Api!AllBut(s, i) = Engine!AllBut(s, i)
  BY DEF Api!AllBut, Engine!AllBut
<1>5. \A timers, t : Api!WithoutTimer(timers, t) = Engine!WithoutTimer(timers, t)
  BY DEF Api!WithoutTimer, Engine!WithoutTimer
<1> QED
  BY <1>1, <1>3, <1>4, <1>5

LEMMA PageFaults ==
  ASSUME Api!Fault
  PROVE  Faults(Spots) /\ state' = state /\ hist' = hist
<1> USE PageEngine
<1>1. \A n : Api!Kill(n) => Dies(n)
  BY DEF Api!Kill, Dies
<1>2. \A n : Api!Revive(n) => Returns(n)
  BY DEF Api!Revive, Returns
<1>3. \A l, i : Api!Drop(l, i) => IsLost(l, i)
  BY DEF Api!Drop, Api!Taken, IsLost
<1>4. \A l, i : Api!Duplicate(l, i) => IsTwice(l, i)
  BY DEF Api!Duplicate, IsTwice
<1>5. \A l : Api!MessageToDead(l) => IsGone(l)
  BY DEF Api!MessageToDead, Api!Taken, IsGone
<1>6. \A t : Api!TimerOfDead(t) => IsMissed(t)
  BY DEF Api!TimerOfDead, IsMissed
<1> HIDE PageEngine
<1> QED
  BY <1>1, <1>2, <1>3, <1>4, <1>5, <1>6 DEF Api!Fault, Faults, Spots

LEMMA PageReceive ==
  ASSUME Queue(net, Spots, Mail), Api!Answer \/ Api!Answered
  PROVE  \E l \in Spots : \E i \in DOMAIN Link(l) :
           /\ Overtakes(i)
           /\ LET Runs(out) == Handled(Removed(net.links, l, i), net.timers, l[2], out)
                  m == Link(l)[i]
              IN \/ m.kind \in {"getUser", "getPost"} /\ Runs(Api!RestServer(l[1], l[2], m))
                 \/ m.kind = "query" /\ Runs(Api!GqlServer(l[1], l[2], m))
                 \/ m.kind = "getProfile" /\ Runs(Api!GrpcServer(l[1], l[2], m))
                 \/ m.kind = "user" /\ Runs(Api!OnUser(l[1], l[2], m))
                 \/ m.kind = "post" /\ Runs(Api!OnPost(l[1], l[2], m))
                 \/ m.kind = "result" /\ Runs(Api!OnResult(l[1], l[2], m))
                 \/ m.kind = "profile" /\ Runs(Api!OnProfile(l[1], l[2], m))
<1>1. ASSUME NEW l \in Spots, NEW i, NEW out,
             Api!MessageDue(l, i), Api!Happens(l[2], out, Api!Taken(l, i))
      PROVE  Overtakes(i) /\ Handled(Removed(net.links, l, i), net.timers, l[2], out)
  <2>1. Api!Taken(l, i) = [links |-> Removed(net.links, l, i), timers |-> net.timers]
    BY QueueChanges, PageEngine DEF Api!Taken
  <2> QED
    BY <1>1, <2>1, PageEngine
       DEF Api!MessageDue, Api!Happens, Api!Queued, Overtakes, Handled, Left
<1>2. CASE Api!Answer
  BY <1>1, <1>2 DEF Api!Answer, Api!Receive, Api!Arrive, Link, Spots
<1>3. CASE Api!Answered
  BY <1>1, <1>3 DEF Api!Answered, Api!Receive, Api!Arrive, Link, Spots
<1> QED
  BY <1>2, <1>3

LEMMA PageTimeout ==
  ASSUME Queue(net, Spots, Mail), Api!TimesOut
  PROVE  \E t \in DOMAIN net.timers :
           /\ env' = env
           /\ LET Runs(out) == Handled(net.links, Engine!WithoutTimer(net.timers, t), t[1], out)
              IN \/ state.style = "rest" /\ Runs(Api!RestTimeout(t[1], t[2]))
                 \/ state.style = "graphql" /\ Runs(Api!GqlTimeout(t[1], t[2]))
                 \/ state.style = "grpc" /\ Runs(Api!GrpcTimeout(t[1], t[2]))
<1>1. ASSUME NEW t \in DOMAIN net.timers, NEW out, Api!TimerDue(t),
             Api!Happens(t[1], out, [net EXCEPT !.timers = Api!WithoutTimer(@, t)])
      PROVE  env' = env /\ Handled(net.links, Engine!WithoutTimer(net.timers, t), t[1], out)
  <2>1. [net EXCEPT !.timers = Api!WithoutTimer(@, t)] =
          [links |-> net.links, timers |-> Engine!WithoutTimer(net.timers, t)]
    BY QueueChanges, PageEngine
  <2> QED
    BY <1>1, <2>1, PageEngine DEF Api!TimerDue, Api!Happens, Api!Queued, Handled, Left
<1> QED
  BY <1>1 DEF Api!TimesOut, Api!Fire

-----------------------------------------------------------------------------
(* What the handlers make of a client.                                     *)

LEMMA CardLess ==
  ASSUME NEW S, IsFiniteSet(S), NEW x \in S
  PROVE  Cardinality(S) \in Nat /\ Cardinality(S \ {x}) = Cardinality(S) - 1
BY FS_RemoveElement, FS_CardinalityType

LEMMA StartRight ==
  ASSUME NEW c, NEW key,
         \/ key = "user" /\ ClientRight("rest", c)
         \/ key = "q" /\ ClientRight("graphql", c)
         \/ key = "rpc" /\ ClientRight("grpc", c),
         ~c.started, NEW d, Begins(c, d, key)
  PROVE  /\ d \in Clients /\ d.live = {key}
         /\ key = "user" => ClientRight("rest", d)
         /\ key = "q" => ClientRight("graphql", d)
         /\ key = "rpc" => ClientRight("grpc", d)
<1>1. c \in Clients /\ {key} \in SUBSET Keys
  BY DEF ClientRight, Keys
<1>2. /\ d \in Clients /\ d.started /\ d.live = {key} /\ d.gotUser = c.gotUser
      /\ d.expected = c.expected /\ d.delivered = c.delivered /\ d.failed = c.failed
      /\ d.bytes = c.bytes /\ d.unknownSkipped = c.unknownSkipped
  BY <1>1 DEF Clients, Begins
<1>3. key = "user" => ClientRight("rest", d)
  BY <1>2 DEF ClientRight, ManyRight
<1>4. key = "q" => ClientRight("graphql", d)
  BY <1>2, PageFacts DEF ClientRight, OneRight
<1>5. key = "rpc" => ClientRight("grpc", d)
  BY <1>2, PageFacts DEF ClientRight, OneRight
<1> QED
  BY <1>2, <1>3, <1>4, <1>5

LEMMA UserRight ==
  ASSUME NEW style, NEW c, ClientRight(style, c), style \in {"rest", "graphql", "grpc"}, "user" \in c.live
  PROVE  LET d == [c EXCEPT !.gotUser = TRUE, !.expected = Len(PagePosts), !.bytes = @ + 220,
                            !.roundTrips = @ + Len(PagePosts), !.live = (@ \ {"user"}) \cup Posts]
         IN d \in Clients /\ ClientRight(style, d) /\ d.live = Posts
<1> DEFINE d == [c EXCEPT !.gotUser = TRUE, !.expected = Len(PagePosts), !.bytes = @ + 220,
                          !.roundTrips = @ + Len(PagePosts), !.live = (@ \ {"user"}) \cup Posts]
<1>1. c \in Clients /\ style = "rest" /\ ManyRight(c)
  BY DEF ClientRight, OneRight
<1>2. /\ c.started /\ ~c.gotUser /\ c.live = {"user"} /\ c.delivered = 0 /\ c.failed = 0 /\ c.bytes = 0
  BY <1>1, PageFacts DEF ManyRight, Clients
<1>3. Len(PagePosts) \in Nat /\ Len(PagePosts) = Api!NPosts
  BY PageFacts
<1>4. /\ d \in Clients /\ d.started /\ d.gotUser /\ d.live = (c.live \ {"user"}) \cup Posts
      /\ d.expected = Len(PagePosts) /\ d.delivered = 0 /\ d.failed = 0 /\ d.bytes = 220
  <2> DEFINE live == (c.live \ {"user"}) \cup Posts
             bytes == c.bytes + 220
             trips == c.roundTrips + Len(PagePosts)
             size == Len(PagePosts)
  <2>1. bytes = 220 /\ bytes \in Nat /\ trips \in Nat /\ size \in Nat /\ live \in SUBSET Keys
    BY <1>1, <1>2, <1>3 DEF Clients, Keys
  <2>2. d = [c EXCEPT !.gotUser = TRUE, !.expected = size, !.bytes = bytes, !.roundTrips = trips,
                      !.live = live]
    OBVIOUS
  <2> HIDE DEF live, bytes, trips, size
  <2> HIDE DEF d
  <2>3. d = [started |-> c.started, gotUser |-> TRUE, expected |-> size, delivered |-> c.delivered,
             failed |-> c.failed, live |-> live, bytes |-> bytes, roundTrips |-> trips,
             resolverCalls |-> c.resolverCalls, unknownSkipped |-> c.unknownSkipped]
    BY <1>1, <2>2 DEF Clients
  <2>4. d \in Clients
    BY <1>1, <2>1, <2>3 DEF Clients
  <2>5. /\ d.started /\ d.gotUser /\ d.live = live
        /\ d.expected = size /\ d.delivered = 0 /\ d.failed = 0 /\ d.bytes = 220
    BY <1>2, <2>1, <2>3
  <2> QED
    BY <2>4, <2>5 DEF live, size
<1> HIDE DEF d
<1>5. d.live = Posts
  BY <1>2, <1>4
<1>6. ManyRight(d)
  <2>1. Cardinality(d.live) = Api!NPosts /\ Api!NPosts \in Nat
    BY <1>5, PageFacts
  <2>2. 0 + 0 + Cardinality(d.live) = Api!NPosts /\ 220 = 220 + 160 * 0
    BY <2>1
  <2> QED
    BY <1>3, <1>4, <1>5, <2>2 DEF ManyRight
<1> QED
  BY <1>1, <1>4, <1>5, <1>6 DEF ClientRight, d

LEMMA PostRight ==
  ASSUME NEW style, NEW c, ClientRight(style, c), style \in {"rest", "graphql", "grpc"},
         NEW p \in Posts, p \in c.live,
         NEW d, Delivers(c, d, p)
  PROVE  d \in Clients /\ ClientRight(style, d) /\ d.live = c.live \ {p}
<1>1. c \in Clients /\ style = "rest" /\ ManyRight(c)
  BY PageFacts DEF ClientRight, OneRight
<1>2. c.started /\ c.gotUser /\ c.live \subseteq Posts
  BY <1>1, PageFacts DEF ManyRight, Clients
<1>3. /\ Cardinality(c.live) \in Nat /\ Cardinality(c.live \ {p}) = Cardinality(c.live) - 1
  BY <1>2, PageFacts, FS_Subset, CardLess
<1>4. /\ d \in Clients /\ d.started = c.started /\ d.gotUser = c.gotUser /\ d.live = c.live \ {p}
      /\ d.expected = c.expected /\ d.delivered = c.delivered + 1 /\ d.failed = c.failed
      /\ d.bytes = c.bytes + 160
  <2>1. c.delivered + 1 \in Nat /\ c.bytes + 160 \in Nat /\ c.live \ {p} \in SUBSET Keys
    BY <1>1 DEF Clients
  <2> QED
    BY <1>1, <2>1 DEF Clients, Delivers
<1>5. c.delivered \in Nat /\ c.failed \in Nat
  BY <1>1 DEF Clients
<1>6. ManyRight(d)
  <2>1. /\ c.expected = Api!NPosts /\ c.delivered + c.failed + Cardinality(c.live) = Api!NPosts
        /\ c.bytes = 220 + 160 * c.delivered
    BY <1>1, <1>2 DEF ManyRight
  <2>2. Cardinality(d.live) = Cardinality(c.live) - 1
    BY <1>3, <1>4
  <2>3. /\ d.delivered + d.failed + Cardinality(d.live) = Api!NPosts
        /\ d.bytes = 220 + 160 * d.delivered
    BY <1>3, <1>4, <1>5, <2>1, <2>2
  <2> QED
    BY <1>2, <1>4, <2>1, <2>3 DEF ManyRight
<1> QED
  BY <1>1, <1>4, <1>6 DEF ClientRight

LEMMA ManyTimeoutRight ==
  ASSUME NEW c, ClientRight("rest", c), NEW key, key \in c.live,
         NEW d, LetsGo(c, d, key)
  PROVE  d \in Clients /\ ClientRight("rest", d) /\ d.live = c.live \ {key}
<1>1. c \in Clients /\ ManyRight(c)
  BY DEF ClientRight
<1>2. c.failed + 1 \in Nat /\ c.delivered \in Nat /\ c.failed \in Nat
  BY <1>1 DEF Clients
<1>3. /\ d \in Clients /\ d.started = c.started /\ d.gotUser = c.gotUser /\ d.live = c.live \ {key}
      /\ d.expected = c.expected /\ d.delivered = c.delivered /\ d.bytes = c.bytes
      /\ d.failed = IF key = "user" THEN c.failed ELSE c.failed + 1
  BY <1>1, <1>2 DEF Clients, LetsGo
<1>4. c.started /\ c.gotUser \in BOOLEAN
  BY <1>1 DEF ManyRight, Clients
<1>5. CASE c.gotUser
  <2>1. c.live \subseteq Posts /\ key # "user"
    BY <1>1, <1>5, PageFacts DEF ManyRight
  <2>2. /\ Cardinality(c.live) \in Nat /\ Cardinality(c.live \ {key}) = Cardinality(c.live) - 1
    BY <2>1, PageFacts, FS_Subset, CardLess
  <2>3. d.delivered + d.failed + Cardinality(d.live) = Api!NPosts
    <3>1. c.delivered + c.failed + Cardinality(c.live) = Api!NPosts /\ d.failed = c.failed + 1
      BY <1>1, <1>3, <1>5, <2>1 DEF ManyRight
    <3> QED
      BY <1>2, <1>3, <2>2, <3>1
  <2>4. ManyRight(d)
    BY <1>1, <1>3, <1>4, <1>5, <2>1, <2>3 DEF ManyRight
  <2> QED
    BY <1>3, <2>4 DEF ClientRight
<1>6. CASE ~c.gotUser
  <2>1. key = "user"
    BY <1>1, <1>6 DEF ManyRight
  <2>2. ManyRight(d)
    BY <1>1, <1>3, <1>4, <1>6, <2>1 DEF ManyRight
  <2> QED
    BY <1>3, <2>2 DEF ClientRight
<1> QED
  BY <1>4, <1>5, <1>6

(* Of one request. *)
LEMMA OneTimeoutRight ==
  ASSUME NEW style \in {"graphql", "grpc"}, NEW c, ClientRight(style, c), NEW key, key \in c.live,
         NEW d, GivesUp(c, d)
  PROVE  d \in Clients /\ ClientRight(style, d) /\ d.live = {}
<1>1. c \in Clients
  BY DEF ClientRight
<1>2. /\ d \in Clients /\ d.started = c.started /\ d.live = {} /\ d.failed = 1
      /\ d.expected = c.expected /\ d.delivered = c.delivered /\ d.bytes = c.bytes
      /\ d.unknownSkipped = c.unknownSkipped
  BY <1>1 DEF Clients, GivesUp
<1>3. \A k : OneRight(c, k) => OneRight(d, k)
  BY <1>2 DEF OneRight
<1>4. ClientRight(style, d)
  BY <1>2, <1>3 DEF ClientRight
<1> QED
  BY <1>2, <1>4

LEMMA AwaitedRight ==
  ASSUME NEW style \in {"rest", "graphql", "grpc"}, NEW c, ClientRight(style, c),
         NEW key \in {"q", "rpc"}, key \in c.live
  PROVE  /\ style = IF key = "q" THEN "graphql" ELSE "grpc"
         /\ c \in Clients /\ OneRight(c, key) /\ c.started /\ c.live = {key}
         /\ c.failed = 0 /\ c.bytes = 0 /\ c.unknownSkipped = 0
<1>1. c \in Clients /\ style # "rest"
  BY PageFacts DEF ClientRight, ManyRight
<1>2. /\ OneRight(c, key) /\ style = IF key = "q" THEN "graphql" ELSE "grpc"
  BY <1>1 DEF ClientRight, OneRight
<1> QED
  BY <1>1, <1>2 DEF OneRight, Clients

LEMMA WholeRight ==
  ASSUME NEW style \in {"rest", "graphql", "grpc"}, NEW c, ClientRight(style, c),
         NEW key \in {"q", "rpc"}, key \in c.live,
         NEW b \in Nat, b > 0, NEW s \in Nat, s >= 1 => b = 170, NEW r \in Nat,
         NEW d, Completes(c, d, b, s, r)
  PROVE  d \in Clients /\ ClientRight(style, d) /\ d.live = {}
<1>1. /\ style = IF key = "q" THEN "graphql" ELSE "grpc"
      /\ c \in Clients /\ c.started /\ c.failed = 0
  BY AwaitedRight
<1>2. Api!NPosts \in Nat /\ {} \in SUBSET Keys
  BY PageFacts
<1>3. d \in Clients
  BY <1>1, <1>2 DEF Clients, Completes
<1>4. OneRight(d, key)
  BY <1>1, <1>2 DEF OneRight, Completes
<1> QED
  BY <1>1, <1>3, <1>4 DEF ClientRight, Completes

-----------------------------------------------------------------------------
(* What a step leaves of the mail, the faults and the timeouts to come.    *)

(* A mailbox as it should be after a handler that sends at most one message*)
(* and sets at most one timer.                                             *)
LEMMA MailAfter ==
  ASSUME PageInv, NEW links, NEW timers, NEW n, NEW out, NEW to, NEW m, NEW x,
         Leaves(Spots, Mail, links, timers, n, out, to, m, x),
         \A k \in Spots : Items(links[k]) \subseteq Coming(k),
         m.kind = "user" => to = "Client"
  PROVE  Queue(net', Spots, Mail) /\ UsersHome'
<1>1. ASSUME NEW l \in Spots, NEW y \in Coming(l)', y.kind = "user" PROVE l[2] = "Client"
  <2>1. y \in Items(net'.links[l])
    BY DEF Coming, Link, Items
  <2>2. y \in Items(links[l]) \/ (l = <<n, to>> /\ y = m)
    BY <2>1 DEF Leaves
  <2> QED
    BY <1>1, <2>2 DEF PageInv, UsersHome
<1> QED
  BY <1>1 DEF Leaves, UsersHome

(* A request taken from its link. *)
LEMMA MailTaken ==
  ASSUME PageInv, NEW l \in Spots, NEW i \in DOMAIN Link(l)
  PROVE  /\ Link(l)[i] \in Mail /\ Link(l)[i] \in Coming(l)
         /\ Removed(net.links, l, i) \in [Spots -> Seq(Mail)]
         /\ \A k \in Spots : Items(Removed(net.links, l, i)[k]) \subseteq Coming(k)
         /\ net.timers \in [DOMAIN net.timers -> Nat \ {0}]
<1>1. net.links \in [Spots -> Seq(Mail)] /\ net.timers \in [DOMAIN net.timers -> Nat \ {0}]
  BY DEF PageInv, Queue
<1>2. Link(l) \in Seq(Mail) /\ \A k : Items(net.links[k]) = Coming(k)
  BY <1>1 DEF Link, Coming, Items
<1>3. Link(l)[i] \in Mail
  BY <1>2, ElementOfSeq, LenProperties
<1>4. /\ Removed(net.links, l, i) \in [Spots -> Seq(Mail)]
      /\ \A k \in Spots : Items(Removed(net.links, l, i)[k]) \subseteq Items(net.links[k])
  BY <1>1, ItemsRemoved DEF Link
<1> QED
  BY <1>1, <1>2, <1>3, <1>4 DEF Coming

(* An arrival leaves who fell. *)
LEMMA FallenKept ==
  ASSUME PageInv, NEW i, env' = env \/ Overtakes(i)
  PROVE  Counts' /\ Fallen' /\ env'.falls["Client"] = env.falls["Client"]
<1>1. CASE env' = env
  BY <1>1 DEF PageInv, Counts, Fallen
<1>2. CASE Overtakes(i)
  <2>1. Counts' /\ env'.dead = env.dead
    BY <1>2, ArrivalCounts DEF PageInv
  <2>2. env'.falls = env.falls
    <3>1. env = [dead |-> env.dead, falls |-> env.falls, kills |-> env.kills, revives |-> env.revives,
                 drops |-> env.drops, dups |-> env.dups, late |-> env.late, lost |-> env.lost]
      BY DEF PageInv, Counts
    <3> QED
      BY <1>2, <3>1 DEF Overtakes
  <2> QED
    BY <2>1, <2>2 DEF PageInv, Fallen
<1> QED
  BY <1>1, <1>2

LEMMA WaitKept ==
  ASSUME PageInv, env'.falls["Client"] = env.falls["Client"],
         \A key \in state'.client.live :
           \/ key \in state.client.live
              /\ (<<"Client", Api!Timeout(key)>> \in DOMAIN net.timers
                   => <<"Client", Api!Timeout(key)>> \in DOMAIN net'.timers)
           \/ <<"Client", Api!Timeout(key)>> \in DOMAIN net'.timers
  PROVE  Api!WaitIsTimed'
<1>1. Api!WaitIsTimed /\ \A key : Api!Timeout(key)' = Api!Timeout(key)
  BY DEF PageInv, Api!Timeout
<1> QED
  BY <1>1 DEF Api!WaitIsTimed

(* A fault: a live client misses no timeout. *)
LEMMA PageFault ==
  ASSUME PageInv, Api!Fault
  PROVE  PageInv'
<1>1. Queue(net, Spots, Mail) /\ Counts /\ Faults(Spots) /\ state' = state
  BY PageFaults DEF PageInv
<1>2. Harmed(Spots) /\ Counts'
  BY <1>1, FaultHarms
<1>3. /\ Queue(net', Spots, Mail)
      /\ \A l \in Spots : Items(net'.links[l]) \subseteq Items(net.links[l])
  BY <1>1, <1>2, HarmedQueue
<1>4. UsersHome'
  <2>1. \A l \in Spots : Coming(l)' \subseteq Coming(l)
    BY <1>3 DEF Coming, Link, Items
  <2> QED
    BY <2>1 DEF PageInv, UsersHome
<1>5. /\ env.falls \in [{"Client", "Server"} -> Nat]
      /\ env = [dead |-> env.dead, falls |-> env.falls, kills |-> env.kills, revives |-> env.revives,
                drops |-> env.drops, dups |-> env.dups, late |-> env.late, lost |-> env.lost]
      /\ net = [links |-> net.links, timers |-> net.timers]
      /\ net.timers \in [DOMAIN net.timers -> Nat \ {0}]
  BY DEF PageInv, Counts, Fallen, Queue
<1> DEFINE Safe == /\ Fallen'
                   /\ env'.falls["Client"] = 0 =>
                        /\ env.falls["Client"] = 0
                        /\ \A t \in DOMAIN net.timers : t[1] = "Client" => t \in DOMAIN net'.timers
<1>6. Safe
  <2>1. ASSUME NEW n, Dies(n) PROVE Safe
    <3>1. /\ env'.dead = env.dead \cup {n} /\ env'.falls = [env.falls EXCEPT ![n] = @ + 1] /\ net' = net
      BY <1>5, <2>1 DEF Dies
    <3>2. \A S : \A f \in [S -> Nat] :
            /\ [f EXCEPT ![n] = f[n] + 1] \in [S -> Nat]
            /\ \A k \in S : [f EXCEPT ![n] = f[n] + 1][k] = IF n = k THEN f[k] + 1 ELSE f[k]
      <4> SUFFICES ASSUME NEW S, NEW f \in [S -> Nat]
                   PROVE  /\ [f EXCEPT ![n] = f[n] + 1] \in [S -> Nat]
                          /\ \A k \in S : [f EXCEPT ![n] = f[n] + 1][k] = IF n = k THEN f[k] + 1 ELSE f[k]
        OBVIOUS
      <4> DEFINE g == [f EXCEPT ![n] = f[n] + 1]
      <4>1. DOMAIN g = S /\ g = [k \in S |-> g[k]]
        OBVIOUS
      <4>2. \A k \in S : g[k] = IF n = k THEN f[k] + 1 ELSE f[k]
        OBVIOUS
      <4>3. \A k \in S : g[k] \in Nat
        BY <4>2
      <4> HIDE DEF g
      <4>4. g \in [S -> Nat]
        BY <4>1, <4>3
      <4> QED
        BY <4>2, <4>4 DEF g
    <3>3. /\ env'.falls \in [{"Client", "Server"} -> Nat]
          /\ env'.falls["Client"] = IF n = "Client" THEN env.falls["Client"] + 1 ELSE env.falls["Client"]
      <4> DEFINE f == env.falls
      <4>1. f \in [{"Client", "Server"} -> Nat] /\ env'.falls = [f EXCEPT ![n] = f[n] + 1]
        BY <1>5, <3>1
      <4> HIDE DEF f
      <4>2. /\ env'.falls \in [{"Client", "Server"} -> Nat]
            /\ env'.falls["Client"] = IF n = "Client" THEN f["Client"] + 1 ELSE f["Client"]
        BY <3>2, <4>1
      <4> QED
        BY <4>2 DEF f
    <3> QED
      BY <1>5, <3>1, <3>3 DEF PageInv, Fallen
  <2>2. ASSUME NEW n, Returns(n) PROVE Safe
    <3>1. env'.dead = env.dead \ {n} /\ env'.falls = env.falls /\ net' = net
      BY <1>5, <2>2 DEF Returns
    <3> QED
      BY <3>1 DEF PageInv, Fallen
  <2>3. ASSUME NEW l \in Spots, NEW i \in DOMAIN net.links[l], IsLost(l, i) \/ IsTwice(l, i)
        PROVE  Safe
    <3>1. env'.dead = env.dead /\ env'.falls = env.falls
      BY <1>5, <2>3 DEF IsLost, IsTwice
    <3>2. \/ net' = [links |-> Removed(net.links, l, i), timers |-> net.timers]
          \/ net' = [links |-> Copied(net.links, l, i), timers |-> net.timers]
      <4>1. CASE IsLost(l, i)
        BY <1>1, <4>1, QueueChanges DEF IsLost
      <4>2. CASE IsTwice(l, i)
        BY <1>1, <4>2, QueueChanges DEF IsTwice
      <4> QED
        BY <2>3, <4>1, <4>2
    <3> QED
      BY <3>1, <3>2 DEF PageInv, Fallen
  <2>4. ASSUME NEW l \in Spots, IsGone(l) PROVE Safe
    <3>1. env'.dead = env.dead /\ env'.falls = env.falls
      BY <1>5, <2>4 DEF IsGone
    <3>2. net'.timers = net.timers
      BY <1>1, <2>4, QueueChanges DEF IsGone
    <3> QED
      BY <3>1, <3>2 DEF PageInv, Fallen
  <2>5. ASSUME NEW t \in DOMAIN net.timers, IsMissed(t) PROVE Safe
    <3>1. env' = env /\ t[1] \in env.dead
      BY <2>5 DEF IsMissed
    <3>2. net'.timers = Engine!WithoutTimer(net.timers, t)
      BY <1>1, <2>5, QueueChanges DEF IsMissed
    <3>3. DOMAIN net.timers \ {t} \subseteq DOMAIN net'.timers
      BY <1>5, <3>2, TimerTaken
    <3> QED
      BY <3>1, <3>3 DEF PageInv, Fallen
  <2> QED
    BY <1>1, <2>1, <2>2, <2>3, <2>4, <2>5 DEF Faults
<1>7. Api!WaitIsTimed'
  <2>1. \A key : Api!Timeout(key)' = Api!Timeout(key)
    BY DEF Api!Timeout
  <2>2. Api!WaitIsTimed
    BY DEF PageInv
  <2> QED
    BY <1>1, <1>6, <2>1, <2>2 DEF Api!WaitIsTimed
<1> QED
  BY <1>1, <1>2, <1>3, <1>4, <1>6, <1>7 DEF PageInv, PageTyped

-----------------------------------------------------------------------------
(* The steps.                                                              *)

LEMMA ClientSet ==
  ASSUME PageTyped, NEW d \in Clients,
         state' = [state EXCEPT !.client = d] \/ (state' = state /\ d = state.client)
  PROVE  PageTyped' /\ state'.client = d /\ state'.style = state.style
BY DEF PageTyped

(* A message taken, and nothing sent. *)
LEMMA PageQuiet ==
  ASSUME PageInv, NEW links \in [Spots -> Seq(Mail)], NEW timers, timers \in [DOMAIN timers -> Nat \ {0}],
         \A k \in Spots : Items(links[k]) \subseteq Coming(k),
         NEW n, NEW out, Handled(links, timers, n, out), NEW i, env' = env \/ Overtakes(i),
         NEW d \in Clients, ClientRight(state.style, d), Leads(out, d),
         \A key \in d.live : /\ key \in state.client.live
                             /\ <<"Client", Api!Timeout(key)>> \in DOMAIN net.timers
                                  => <<"Client", Api!Timeout(key)>> \in DOMAIN timers
  PROVE  PageInv'
<1>0. links \in [Spots -> Seq(Mail)] /\ timers \in [DOMAIN timers -> Nat \ {0}]
  OBVIOUS
<1>1. Leaves(Spots, Mail, links, timers, n, out, "Client", 0, 0)
  BY <1>0, HandlerLeaves DEF Leads
<1>2. Queue(net', Spots, Mail) /\ UsersHome'
  BY <1>1, MailAfter
<1>3. Counts' /\ Fallen' /\ env'.falls["Client"] = env.falls["Client"]
  BY FallenKept
<1>4. state' = out.state /\ net'.timers = timers
  BY <1>0, LeftShape, LeftQuiet DEF Leads
<1>5. PageTyped' /\ state'.client = d /\ state'.style = state.style
  BY <1>4, ClientSet DEF PageInv, Leads
<1>6. Api!WaitIsTimed'
  BY <1>3, <1>4, <1>5, WaitKept
<1>7. ClientRight(state.style, state.client)'
  BY <1>5
<1> QED
  BY <1>2, <1>3, <1>5, <1>6, <1>7 DEF PageInv

(* The server answers. *)
LEMMA PageAnswer ==
  ASSUME PageInv, NEW l \in Spots, NEW i \in DOMAIN Link(l), Overtakes(i), NEW y \in Mail,
         Handled(Removed(net.links, l, i), net.timers, l[2], Api!ToClient(y))
  PROVE  PageInv'
<1> DEFINE links == Removed(net.links, l, i)
           out == Api!ToClient(y)
           n == l[2]
<1>1. /\ links \in [Spots -> Seq(Mail)] /\ net.timers \in [DOMAIN net.timers -> Nat \ {0}]
      /\ \A k \in Spots : Items(links[k]) \subseteq Coming(k)
  BY MailTaken
<1>2. out.state = state /\ out.sends = <<<<"Client", y>>>> /\ out.timers = <<>>
  BY DEF Api!ToClient, Api!Out
<1>3. <<n, "Client">> \in Spots
  BY PageFacts
<1>4. Handled(links, net.timers, n, out)
  OBVIOUS
<1> HIDE DEF links, out, n
<1>5. Leaves(Spots, Mail, links, net.timers, n, out, "Client", y, 0)
  BY <1>1, <1>2, <1>3, <1>4, HandlerLeaves
<1>6. Queue(net', Spots, Mail) /\ UsersHome'
  BY <1>1, <1>5, MailAfter
<1>7. Counts' /\ Fallen' /\ env'.falls["Client"] = env.falls["Client"]
  BY FallenKept
<1>8. state' = state /\ net'.timers = net.timers
  BY <1>1, <1>2, <1>4, LeftShape, LeftQuiet
<1>9. Api!WaitIsTimed'
  BY <1>7, <1>8, WaitKept
<1> QED
  BY <1>6, <1>7, <1>8, <1>9 DEF PageInv, PageTyped

LEMMA ServerHeld ==
  ASSUME PageInv, NEW l \in Spots, NEW i \in DOMAIN Link(l), Overtakes(i), NEW out,
         Handled(Removed(net.links, l, i), net.timers, l[2], out),
         \/ Link(l)[i].kind \in {"getUser", "getPost"} /\ out = Api!RestServer(l[1], l[2], Link(l)[i])
         \/ Link(l)[i].kind = "query" /\ out = Api!GqlServer(l[1], l[2], Link(l)[i])
         \/ Link(l)[i].kind = "getProfile" /\ out = Api!GrpcServer(l[1], l[2], Link(l)[i])
  PROVE  PageInv'
<1> DEFINE m == Link(l)[i]
<1>1. m \in Mail
  BY MailTaken
<1> SUFFICES \E y \in Mail : out = Api!ToClient(y)
  BY PageAnswer
<1> HIDE DEF m
<1>2. ASSUME m.kind \in {"getUser", "getPost"} PROVE \E y \in Mail : Api!RestServer(l[1], l[2], m) = Api!ToClient(y)
  <2>1. CASE m.kind = "getUser"
    <3> DEFINE y == [kind |-> "user", bytes |-> 220, postIds |-> PagePosts]
    <3>1. y \in Mail
      BY DEF Mail, Users
    <3>2. Api!RestServer(l[1], l[2], m) = Api!ToClient(y)
      BY <2>1 DEF Api!RestServer, Api!Bytes
    <3> QED
      BY <3>1, <3>2
  <2>2. CASE m.kind = "getPost"
    <3> DEFINE y == [kind |-> "post", bytes |-> 160, postId |-> m.key]
    <3>1. m.key \in Posts
      BY <1>1, <2>2 DEF Mail, Asked, AskedPost, Users, PostMail, Results, Profiles
    <3>2. y \in Mail
      BY <3>1 DEF Mail, PostMail
    <3>3. Api!RestServer(l[1], l[2], m) = Api!ToClient(y)
      BY <2>2 DEF Api!RestServer, Api!Bytes
    <3> QED
      BY <3>2, <3>3
  <2> QED
    BY <1>2, <2>1, <2>2
<1>3. \E y \in Mail : Api!GqlServer(l[1], l[2], m) = Api!ToClient(y)
  <2> DEFINE y == [kind |-> "result", postIds |-> PagePosts, resolverCalls |-> 1 + Api!NPosts, bytes |-> 360]
  <2>1. y \in Mail
    BY DEF Mail, Results
  <2>2. Api!GqlServer(l[1], l[2], m) = Api!ToClient(y)
    BY DEF Api!GqlServer, Api!Bytes
  <2> QED
    BY <2>1, <2>2
<1>4. \E y \in Mail : Api!GrpcServer(l[1], l[2], m) = Api!ToClient(y)
  <2>1. CASE state.schema = "v2"
    <3> DEFINE y == [kind |-> "profile", postIds |-> PagePosts,
                     tags |-> Api!RequiredTags \cup {Api!V2AddedTag}, bytes |-> 170]
    <3>1. y \in Mail
      BY DEF Mail, Profiles
    <3>2. Api!GrpcServer(l[1], l[2], m) = Api!ToClient(y)
      BY <2>1 DEF Api!GrpcServer, Api!Bytes
    <3> QED
      BY <3>1, <3>2
  <2>2. CASE state.schema # "v2"
    <3> DEFINE y == [kind |-> "profile", postIds |-> PagePosts, tags |-> Api!RequiredTags, bytes |-> 150]
    <3>1. y \in Mail
      BY DEF Mail, Profiles
    <3>2. Api!GrpcServer(l[1], l[2], m) = Api!ToClient(y)
      BY <2>2 DEF Api!GrpcServer, Api!Bytes
    <3> QED
      BY <3>1, <3>2
  <2> QED
    BY <2>1, <2>2
<1> QED
  BY <1>2, <1>3, <1>4 DEF m

LEMMA PageKinds ==
  ASSUME NEW m \in Mail
  PROVE  /\ m.kind = "user" => m.bytes = 220 /\ m.postIds = PagePosts
         /\ m.kind = "post" => m.bytes = 160 /\ m.postId \in Posts
         /\ m.kind = "result" => m.bytes = 360 /\ m.postIds = PagePosts /\ m.resolverCalls = 1 + Api!NPosts
         /\ m.kind = "profile" =>
              /\ m.postIds = PagePosts
              /\ \/ m.tags = Api!RequiredTags /\ m.bytes = 150
                 \/ m.tags = Api!RequiredTags \cup {Api!V2AddedTag} /\ m.bytes = 170
BY DEF Mail, Asked, AskedPost, Users, PostMail, Results, Profiles

(* The client takes an answer of one post, or of the page. *)
LEMMA PostHeld ==
  ASSUME PageInv, NEW l \in Spots, NEW i \in DOMAIN Link(l), Overtakes(i), Link(l)[i].kind = "post",
         Handled(Removed(net.links, l, i), net.timers, l[2], Api!OnPost(l[1], l[2], Link(l)[i]))
  PROVE  PageInv'
<1> DEFINE m == Link(l)[i]
           c == state.client
           links == Removed(net.links, l, i)
           out == Api!OnPost(l[1], l[2], m)
           d == [c EXCEPT !.delivered = @ + 1, !.bytes = @ + 160, !.live = @ \ {m.postId}]
<1>1. /\ m \in Mail /\ links \in [Spots -> Seq(Mail)] /\ net.timers \in [DOMAIN net.timers -> Nat \ {0}]
      /\ \A k \in Spots : Items(links[k]) \subseteq Coming(k)
  BY MailTaken
<1>2. m.bytes = 160 /\ m.postId \in Posts
  <2> HIDE DEF m
  <2> QED
    BY <1>1, PageKinds DEF m
<1>3. ClientRight(state.style, c) /\ c \in Clients /\ state.style \in {"rest", "graphql", "grpc"}
  BY DEF PageInv, PageTyped
<1>4. Handled(links, net.timers, l[2], out)
  OBVIOUS
<1>5. CASE m.postId \in c.live
  <2>1. Leads(out, d)
    BY <1>2, <1>5 DEF Leads, Api!OnPost, Api!Quiet, Api!Out, Api!Client
  <2>2. d \in Clients /\ ClientRight(state.style, d) /\ d.live = c.live \ {m.postId}
    <3>1. m.postId \in Posts /\ Delivers(c, d, m.postId)
      BY <1>2 DEF Delivers
    <3> HIDE DEF c, m, d
    <3> QED
      BY <1>3, <1>5, <3>1, PostRight
  <2> HIDE DEF m, links, out, d
  <2> QED
    BY <1>1, <1>4, <2>1, <2>2, PageQuiet DEF c
<1>6. CASE m.postId \notin c.live
  <2>1. Leads(out, c)
    BY <1>6 DEF Leads, Api!OnPost, Api!Quiet, Api!Out
  <2> HIDE DEF m, links, out, d
  <2> QED
    BY <1>1, <1>3, <1>4, <2>1, PageQuiet DEF c
<1> QED
  BY <1>5, <1>6

LEMMA ResultHeld ==
  ASSUME PageInv, NEW l \in Spots, NEW i \in DOMAIN Link(l), Overtakes(i), Link(l)[i].kind = "result",
         Handled(Removed(net.links, l, i), net.timers, l[2], Api!OnResult(l[1], l[2], Link(l)[i]))
  PROVE  PageInv'
<1> DEFINE m == Link(l)[i]
           c == state.client
           links == Removed(net.links, l, i)
           out == Api!OnResult(l[1], l[2], m)
           d == [Api!Assembled(c, m) EXCEPT !.resolverCalls = m.resolverCalls]
<1>1. /\ m \in Mail /\ links \in [Spots -> Seq(Mail)] /\ net.timers \in [DOMAIN net.timers -> Nat \ {0}]
      /\ \A k \in Spots : Items(links[k]) \subseteq Coming(k)
  BY MailTaken
<1>2. m.bytes = 360 /\ m.postIds = PagePosts /\ m.resolverCalls = 1 + Api!NPosts
  <2> HIDE DEF m
  <2> QED
    BY <1>1, PageKinds DEF m
<1>3. ClientRight(state.style, c) /\ c \in Clients /\ state.style \in {"rest", "graphql", "grpc"}
  BY DEF PageInv, PageTyped
<1>4. Handled(links, net.timers, l[2], out)
  OBVIOUS
<1>5. CASE "q" \in c.live
  <2>1. Leads(out, d)
    BY <1>5 DEF Leads, Api!OnResult, Api!Quiet, Api!Out, Api!Client
  <2>2. d = [c EXCEPT !.live = {}, !.delivered = Len(PagePosts), !.expected = Len(PagePosts),
                      !.bytes = c.bytes + 360, !.resolverCalls = 1 + Api!NPosts]
    BY <1>2 DEF Api!Assembled
  <2>3. Len(PagePosts) = Api!NPosts /\ 1 + Api!NPosts \in Nat
    BY PageFacts
  <2> HIDE DEF m, links, out, d, c
  <2>4. c.bytes = 0 /\ c.unknownSkipped = 0
    BY <1>3, <1>5, AwaitedRight
  <2>5. Completes(c, d, 360, 0, 1 + Api!NPosts)
    <3> DEFINE b == c.bytes + 360
               r == 1 + Api!NPosts
               size == Api!NPosts
    <3>1. d = [c EXCEPT !.live = {}, !.delivered = size, !.expected = size, !.bytes = b, !.resolverCalls = r]
      BY <2>2, <2>3
    <3>2. b = 360
      BY <2>4
    <3> HIDE DEF b, r, size
    <3>3. d = [started |-> c.started, gotUser |-> c.gotUser, expected |-> size,
               delivered |-> size, failed |-> c.failed, live |-> {}, bytes |-> b,
               roundTrips |-> c.roundTrips, resolverCalls |-> r, unknownSkipped |-> c.unknownSkipped]
      BY <1>3, <3>1 DEF Clients
    <3> QED
      BY <2>4, <3>2, <3>3 DEF Completes, size, r
  <2>6. d \in Clients /\ ClientRight(state.style, d) /\ d.live = {}
    <3>1. 360 \in Nat /\ 360 > 0 /\ 0 \in Nat /\ (0 >= 1 => 360 = 170)
      OBVIOUS
    <3>2. "q" \in {"q", "rpc"}
      OBVIOUS
    <3> QED
      BY <1>3, <1>5, <2>3, <2>5, <3>1, <3>2, WholeRight
  <2>7. \A key \in d.live : /\ key \in state.client.live
                            /\ <<"Client", Api!Timeout(key)>> \in DOMAIN net.timers
                                 => <<"Client", Api!Timeout(key)>> \in DOMAIN net.timers
    BY <2>6
  <2> QED
    BY <1>1, <1>4, <2>1, <2>6, <2>7, PageQuiet
<1>6. CASE "q" \notin c.live
  <2>1. Leads(out, c)
    BY <1>6 DEF Leads, Api!OnResult, Api!Quiet, Api!Out
  <2> HIDE DEF m, links, out, d
  <2> QED
    BY <1>1, <1>3, <1>4, <2>1, PageQuiet DEF c
<1> QED
  BY <1>5, <1>6

LEMMA ProfileHeld ==
  ASSUME PageInv, NEW l \in Spots, NEW i \in DOMAIN Link(l), Overtakes(i), Link(l)[i].kind = "profile",
         Handled(Removed(net.links, l, i), net.timers, l[2], Api!OnProfile(l[1], l[2], Link(l)[i]))
  PROVE  PageInv'
<1> DEFINE m == Link(l)[i]
           c == state.client
           links == Removed(net.links, l, i)
           out == Api!OnProfile(l[1], l[2], m)
           s == c.unknownSkipped + Api!Cardinality(m.tags \ Api!RequiredTags)
           d == Api!Assembled([c EXCEPT !.unknownSkipped = s], m)
<1>1. /\ m \in Mail /\ links \in [Spots -> Seq(Mail)] /\ net.timers \in [DOMAIN net.timers -> Nat \ {0}]
      /\ \A k \in Spots : Items(links[k]) \subseteq Coming(k)
  BY MailTaken
<1>2. /\ m.postIds = PagePosts
      /\ \/ m.tags = Api!RequiredTags /\ m.bytes = 150
         \/ m.tags = Api!RequiredTags \cup {Api!V2AddedTag} /\ m.bytes = 170
  <2> HIDE DEF m
  <2> QED
    BY <1>1, PageKinds DEF m
<1>3. ClientRight(state.style, c) /\ c \in Clients /\ state.style \in {"rest", "graphql", "grpc"}
  BY DEF PageInv, PageTyped
<1>4. Handled(links, net.timers, l[2], out)
  OBVIOUS
<1>5. ~(\E t \in Api!RequiredTags : t \notin m.tags)
  BY <1>2
<1>6. CASE "rpc" \in c.live
  <2>1. Leads(out, d)
    BY <1>5, <1>6 DEF Leads, Api!OnProfile, Api!Quiet, Api!Out, Api!Client
  <2>2. Len(PagePosts) = Api!NPosts /\ Api!NPosts \in Nat
    BY PageFacts
  <2>3. c.bytes = 0 /\ c.unknownSkipped = 0
    <3> HIDE DEF c
    <3> QED
      BY <1>3, <1>6, AwaitedRight
  <2>4. s \in Nat /\ (s >= 1 => m.bytes = 170) /\ m.bytes \in Nat /\ m.bytes > 0
    <3>1. CASE m.tags = Api!RequiredTags /\ m.bytes = 150
      <4>1. m.tags \ Api!RequiredTags = {}
        BY <3>1
      <4>2. Api!Cardinality({}) = 0
        BY PageFacts, FS_EmptySet
      <4>3. s = 0
        BY <2>3, <4>1, <4>2
      <4> QED
        BY <3>1, <4>3
    <3>2. CASE m.tags = Api!RequiredTags \cup {Api!V2AddedTag} /\ m.bytes = 170
      <4>1. m.tags \ Api!RequiredTags = {Api!V2AddedTag}
        BY <3>2 DEF Api!RequiredTags, Api!V2AddedTag
      <4>2. Api!Cardinality({Api!V2AddedTag}) = 1
        BY PageFacts, FS_Singleton
      <4>3. s = 1
        BY <2>3, <4>1, <4>2
      <4> QED
        BY <3>2, <4>3
    <3> QED
      BY <1>2, <3>1, <3>2
  <2>5. d = [c EXCEPT !.unknownSkipped = s, !.live = {}, !.delivered = Len(PagePosts),
                      !.expected = Len(PagePosts), !.bytes = c.bytes + m.bytes]
    <3> HIDE DEF s, c
    <3> QED
      BY <1>2, <1>3 DEF Api!Assembled, Clients
  <2> HIDE DEF m, links, out, d, c, s
  <2>6. Completes(c, d, m.bytes, s, c.resolverCalls)
    <3> DEFINE b == c.bytes + m.bytes
               size == Api!NPosts
    <3>1. d = [c EXCEPT !.unknownSkipped = s, !.live = {}, !.delivered = size, !.expected = size, !.bytes = b]
      BY <2>2, <2>5
    <3>2. b = m.bytes
      BY <2>3, <2>4
    <3> HIDE DEF b, size
    <3>3. d = [started |-> c.started, gotUser |-> c.gotUser, expected |-> size,
               delivered |-> size, failed |-> c.failed, live |-> {}, bytes |-> b,
               roundTrips |-> c.roundTrips, resolverCalls |-> c.resolverCalls, unknownSkipped |-> s]
      BY <1>3, <3>1 DEF Clients
    <3> QED
      BY <3>2, <3>3 DEF Completes, size
  <2>7. d \in Clients /\ ClientRight(state.style, d) /\ d.live = {}
    <3>1. c.resolverCalls \in Nat
      BY <1>3 DEF Clients
    <3> QED
      BY <1>3, <1>6, <2>4, <2>6, <3>1, WholeRight
  <2>8. \A key \in d.live : /\ key \in state.client.live
                            /\ <<"Client", Api!Timeout(key)>> \in DOMAIN net.timers
                                 => <<"Client", Api!Timeout(key)>> \in DOMAIN net.timers
    BY <2>7
  <2> QED
    BY <1>1, <1>4, <2>1, <2>7, <2>8, PageQuiet
<1>7. CASE "rpc" \notin c.live
  <2>1. Leads(out, c)
    BY <1>7 DEF Leads, Api!OnProfile, Api!Quiet, Api!Out
  <2> HIDE DEF m, links, out, d, s
  <2> QED
    BY <1>1, <1>3, <1>4, <2>1, PageQuiet DEF c
<1> QED
  BY <1>6, <1>7

(* A request times out, answered or not. *)
LEMMA TimeoutHeld ==
  ASSUME PageInv, Api!TimesOut
  PROVE  PageInv'
<1>1. Queue(net, Spots, Mail)
  BY DEF PageInv
<1>2. PICK t \in DOMAIN net.timers :
        /\ env' = env
        /\ LET Runs(out) == Handled(net.links, Engine!WithoutTimer(net.timers, t), t[1], out)
           IN \/ state.style = "rest" /\ Runs(Api!RestTimeout(t[1], t[2]))
              \/ state.style = "graphql" /\ Runs(Api!GqlTimeout(t[1], t[2]))
              \/ state.style = "grpc" /\ Runs(Api!GrpcTimeout(t[1], t[2]))
  BY <1>1, PageTimeout
<1> DEFINE c == state.client
           timers == Engine!WithoutTimer(net.timers, t)
           key == t[2].key
<1>3. /\ net.links \in [Spots -> Seq(Mail)] /\ net.timers \in [DOMAIN net.timers -> Nat \ {0}]
      /\ \A k \in Spots : Items(net.links[k]) \subseteq Coming(k)
  BY <1>1 DEF Queue, Coming, Link, Items
<1>4. timers \in [DOMAIN timers -> Nat \ {0}] /\ DOMAIN net.timers \ {t} \subseteq DOMAIN timers
  BY <1>3, TimerTaken
<1>5. ClientRight(state.style, c) /\ c \in Clients /\ state.style \in {"rest", "graphql", "grpc"}
  BY DEF PageInv, PageTyped
<1>6. \A k : k # key => <<"Client", Api!Timeout(k)>> # t
  BY DEF Api!Timeout
<1> DEFINE out == IF state.style = "rest" THEN Api!RestTimeout(t[1], t[2])
                  ELSE IF state.style = "graphql" THEN Api!GqlTimeout(t[1], t[2])
                  ELSE Api!GrpcTimeout(t[1], t[2])
           d == IF key \notin c.live THEN c
                ELSE IF state.style = "rest"
                  THEN [c EXCEPT !.live = @ \ {key}, !.failed = IF key = "user" THEN @ ELSE @ + 1]
                  ELSE [c EXCEPT !.live = {}, !.failed = 1]
<1>7. Handled(net.links, timers, t[1], out)
  BY <1>2
<1>8. Leads(out, d)
  BY <1>5 DEF Leads, Api!RestTimeout, Api!GqlTimeout, Api!GrpcTimeout, Api!Quiet, Api!Out, Api!Client
<1>9. d \in Clients /\ ClientRight(state.style, d) /\ \A k \in d.live : k \in c.live \ {key}
  <2>1. CASE key \notin c.live
    BY <1>5, <2>1
  <2>2. CASE key \in c.live /\ state.style = "rest"
    <3>1. LetsGo(c, d, key)
      BY <2>2 DEF LetsGo
    <3> HIDE DEF c, key, d
    <3>2. d \in Clients /\ ClientRight(state.style, d) /\ d.live = c.live \ {key}
      BY <1>5, <2>2, <3>1, ManyTimeoutRight
    <3> QED
      BY <3>2
  <2>3. CASE key \in c.live /\ state.style # "rest"
    <3>1. GivesUp(c, d)
      BY <2>3 DEF GivesUp
    <3> HIDE DEF c, key, d
    <3>2. d \in Clients /\ ClientRight(state.style, d) /\ d.live = {}
      BY <1>5, <2>3, <3>1, OneTimeoutRight
    <3> QED
      BY <3>2
  <2> QED
    BY <2>1, <2>2, <2>3
<1>10. \A k \in d.live : <<"Client", Api!Timeout(k)>> \in DOMAIN net.timers => <<"Client", Api!Timeout(k)>> \in DOMAIN timers
  <2> HIDE DEF d, timers, key
  <2> QED
    BY <1>4, <1>6, <1>9
<1> HIDE DEF timers, out, d
<1> QED
  BY <1>2, <1>3, <1>4, <1>7, <1>8, <1>9, <1>10, PageQuiet

(* The client hears of its posts, and asks for each of them. *)
Rung(timers, n, set, k) == DOMAIN timers \cup {<<n, set[j]>> : j \in 1..k}

LEMMA ManyTimers ==
  ASSUME NEW timers, timers \in [DOMAIN timers -> Nat \ {0}], NEW n, NEW k \in Nat,
         NEW set, DOMAIN set = 1..k
  PROVE  Engine!WithTimers(timers, n, set) \in [Rung(timers, n, set, k) -> Nat \ {0}]
<1> DEFINE D == Rung(timers, n, set, k)
           Times(t) == {j \in DOMAIN set : <<n, set[j]>> = t}
           new == Engine!WithTimers(timers, n, set)
<1>1. new = [t \in D |-> Count(timers, t) + Cardinality(Times(t))]
  BY TimersSet DEF Rung
<1>2. \A t : IsFiniteSet(Times(t)) /\ Cardinality(Times(t)) \in Nat
  <2>1. IsFiniteSet(1..k) /\ \A t : Times(t) \subseteq 1..k
    BY FS_Interval
  <2> QED
    BY <2>1, FS_Subset, FS_CardinalityType
<1>3. ASSUME NEW t \in D PROVE Count(timers, t) + Cardinality(Times(t)) \in Nat \ {0}
  <2>1. CASE t \in DOMAIN timers
    <3>1. Count(timers, t) \in Nat \ {0}
      BY <2>1 DEF Count
    <3> HIDE DEF Times
    <3> QED
      BY <1>2, <3>1
  <2>2. CASE t \notin DOMAIN timers
    <3>1. Times(t) # {} /\ Count(timers, t) = 0
      BY <2>2 DEF Count, Rung
    <3>2. Cardinality(Times(t)) # 0
      BY <1>2, <3>1, FS_EmptySet
    <3> HIDE DEF Times
    <3> QED
      BY <1>2, <3>1, <3>2
  <2> QED
    BY <2>1, <2>2
<1> HIDE DEF new, Times, D
<1>4. new \in [D -> Nat \ {0}]
  BY <1>1, <1>3
<1> QED
  BY <1>4 DEF new, D

(* Many messages put at the end of one link.                               *)
Posting(links, l, pay, k, L, M) == links \in [L -> Seq(M)] /\ l \in L /\ k \in Nat /\ pay \in [1..k -> M]
Posted(after, links, pay, L, M) ==
  /\ after \in [L -> Seq(M)]
  /\ \A x \in L : Items(after[x]) \subseteq Items(links[x]) \cup Items(pay)

LEMMA ManyPut ==
  ASSUME NEW L, NEW M, NEW links, NEW n, NEW to, NEW k, NEW pay, Posting(links, <<n, to>>, pay, k, L, M),
         NEW sends, ToOne(sends, to, pay, k), NEW after, after = Engine!WithMessages(links, n, sends)
  PROVE  Posted(after, links, pay, L, M)
<1> DEFINE l == <<n, to>>
           whole == links[l] \o pay
<1>a. /\ links \in [L -> Seq(M)] /\ <<n, to>> \in L /\ k \in Nat /\ pay \in [1..k -> M]
      /\ ToOne(sends, to, pay, k)
  BY DEF Posting
<1>1. pay \in Seq(M) /\ links[l] \in Seq(M) /\ whole \in Seq(M)
  <2>1. pay \in Seq(M)
    BY ONLY <1>a
  <2> QED
    BY <1>a, <2>1, ConcatProperties
<1>2. Items(whole) \subseteq Items(links[l]) \cup Items(pay)
  BY <1>1, ItemsOf
<1>3. Engine!WithMessages(links, n, sends) = Put(links, <<n, to>>, pay)
  BY ONLY <1>a, ManySent
<1>4. after = [links EXCEPT ![l] = whole]
  BY <1>3 DEF Put
<1>5. l \in L
  BY <1>a
<1> HIDE DEF whole, l
<1>6. after \in [L -> Seq(M)] /\ \A x \in L : after[x] = IF x = l THEN whole ELSE links[x]
  BY <1>a, <1>1, <1>4, <1>5
<1> QED
  BY <1>2, <1>6 DEF Posted

LEMMA UserHeld ==
  ASSUME PageInv, NEW l \in Spots, NEW i \in DOMAIN Link(l), Overtakes(i), Link(l)[i].kind = "user",
         Handled(Removed(net.links, l, i), net.timers, l[2], Api!OnUser(l[1], l[2], Link(l)[i]))
  PROVE  PageInv'
<1> DEFINE m == Link(l)[i]
           c == state.client
           links == Removed(net.links, l, i)
           out == Api!OnUser(l[1], l[2], m)
           d == [c EXCEPT !.gotUser = TRUE, !.expected = Len(PagePosts), !.bytes = @ + 220,
                          !.roundTrips = @ + Len(PagePosts), !.live = (@ \ {"user"}) \cup Posts]
           size == Api!NPosts
           pay == [j \in 1..size |-> [kind |-> "getPost", key |-> PagePosts[j]]]
           set == [j \in 1..size |-> Api!Timeout(PagePosts[j])]
<1>1. /\ m \in Mail /\ links \in [Spots -> Seq(Mail)] /\ net.timers \in [DOMAIN net.timers -> Nat \ {0}]
      /\ \A k \in Spots : Items(links[k]) \subseteq Coming(k)
      /\ m \in Coming(l)
  BY MailTaken
<1>2. m.bytes = 220 /\ m.postIds = PagePosts
  <2> HIDE DEF m
  <2> QED
    BY <1>1, PageKinds DEF m
<1>3. ClientRight(state.style, c) /\ c \in Clients /\ state.style \in {"rest", "graphql", "grpc"}
  BY DEF PageInv, PageTyped
<1>4. Handled(links, net.timers, "Client", out)
  <2>1. l[2] = "Client"
    BY <1>1 DEF PageInv, UsersHome
  <2> QED
    BY <2>1
<1>5. CASE "user" \notin c.live
  <2>1. Leads(out, c)
    BY <1>5 DEF Leads, Api!OnUser, Api!Quiet, Api!Out
  <2> HIDE DEF m, links, out, d
  <2> QED
    BY <1>1, <1>3, <1>4, <2>1, PageQuiet DEF c
<1>6. CASE "user" \in c.live
  <2>0. /\ size \in Nat /\ DOMAIN PagePosts = 1..size /\ Api!Range(PagePosts) = Posts
        /\ \A j \in 1..size : PagePosts[j] \in Posts
    BY PageFacts DEF Posts
  <2>1. /\ out.state = [state EXCEPT !.client = d]
        /\ out.sends = [j \in 1..size |-> <<"Server", pay[j]>>] /\ out.timers = set
    <3>1. /\ out.state = [state EXCEPT !.client =
                           [c EXCEPT !.gotUser = TRUE, !.expected = Len(m.postIds),
                                     !.bytes = @ + m.bytes, !.roundTrips = @ + Len(m.postIds),
                                     !.live = (@ \ {"user"}) \cup Api!Range(m.postIds)]]
          /\ out.sends = [j \in DOMAIN m.postIds |-> Api!ToServer("getPost", m.postIds[j])]
          /\ out.timers = [j \in DOMAIN m.postIds |-> Api!Timeout(m.postIds[j])]
      BY <1>6 DEF Api!OnUser, Api!Out, Api!Client
    <3> HIDE DEF out, m, c
    <3>2. out.state = [state EXCEPT !.client = d]
      BY <1>2, <2>0, <3>1
    <3>3. out.sends = [j \in 1..size |-> <<"Server", pay[j]>>]
      BY <1>2, <2>0, <3>1 DEF Api!ToServer
    <3>4. out.timers = set
      BY <1>2, <2>0, <3>1
    <3> QED
      BY <3>2, <3>3, <3>4
  <2>2. d \in Clients /\ ClientRight(state.style, d) /\ d.live = Posts
    <3> HIDE DEF c
    <3> QED
      BY <1>3, <1>6, UserRight
  <2>3. pay \in [1..size -> Mail] /\ \A j \in 1..size : pay[j].kind = "getPost"
    BY <2>0 DEF Mail, AskedPost
  <2>4. DOMAIN set = 1..size /\ \A key \in Posts : \E j \in 1..size : set[j] = Api!Timeout(key)
    BY <2>0 DEF Posts
  <2> HIDE DEF m, links, out, d, c, size, pay, set
  <2> DEFINE n == "Client"
             to == "Server"
  <2>5. <<n, to>> \in Spots /\ ToOne(out.sends, to, pay, size)
    BY <2>1, PageFacts DEF ToOne
  <2> HIDE DEF n, to
  <2>6. /\ state' = out.state /\ Queue(net', Spots, Mail)
        /\ \A x \in Spots : Items(net'.links[x]) \subseteq Items(links[x]) \cup Items(pay)
        /\ DOMAIN net'.timers = DOMAIN net.timers \cup {<<n, set[j]>> : j \in 1..size}
    <3>1. Handled(links, net.timers, n, out)
      BY <1>4 DEF n
    <3>2. /\ links \in [Spots -> Seq(Mail)] /\ net.timers \in [DOMAIN net.timers -> Nat \ {0}]
          /\ size \in Nat /\ pay \in [1..size -> Mail] /\ DOMAIN set = 1..size /\ out.timers = set
      BY <1>1, <2>0, <2>1, <2>3, <2>4
    <3> DEFINE sends == out.sends
    <3>3. ToOne(sends, to, pay, size)
      BY <2>5
    <3>4. /\ state' = out.state /\ net' = [links |-> net'.links, timers |-> net'.timers]
          /\ net'.links = Engine!WithMessages(links, n, sends)
          /\ net'.timers = Engine!WithTimers(net.timers, n, set)
      BY <3>1, <3>2, LeftShape DEF Left
    <3> HIDE DEF sends
    <3>6. net'.timers \in [Rung(net.timers, n, set, size) -> Nat \ {0}]
      <4>1. /\ net.timers \in [DOMAIN net.timers -> Nat \ {0}] /\ size \in Nat /\ DOMAIN set = 1..size
        BY <3>2
      <4>2. Engine!WithTimers(net.timers, n, set) \in [Rung(net.timers, n, set, size) -> Nat \ {0}]
        BY ONLY <4>1, ManyTimers
      <4> QED
        BY <3>4, <4>2
    <3>7. /\ net'.links \in [Spots -> Seq(Mail)]
          /\ \A x \in Spots : Items(net'.links[x]) \subseteq Items(links[x]) \cup Items(pay)
      <4> DEFINE after == net'.links
      <4>1. Posting(links, <<n, to>>, pay, size, Spots, Mail)
        BY <2>5, <3>2 DEF Posting
      <4>2. after = Engine!WithMessages(links, n, sends)
        BY <3>4
      <4> HIDE DEF after
      <4>3. Posted(after, links, pay, Spots, Mail)
        BY ONLY <3>3, <4>1, <4>2, ManyPut
      <4> QED
        BY <4>3 DEF Posted, after
    <3>8. DOMAIN net'.timers = Rung(net.timers, n, set, size)
      BY <3>6
    <3> QED
      BY <3>4, <3>6, <3>7, <3>8 DEF Queue, Rung
  <2>7. UsersHome'
    <3>1. ASSUME NEW x \in Spots, NEW y \in Coming(x)', y.kind = "user" PROVE x[2] = "Client"
      <4>1. y \in Items(net'.links[x])
        BY DEF Coming, Link, Items
      <4>2. \A z \in Items(pay) : z.kind = "getPost"
        BY <2>3 DEF Items
      <4>3. y \in Items(links[x])
        BY <2>6, <3>1, <4>1, <4>2
      <4> QED
        BY <1>1, <3>1, <4>3 DEF PageInv, UsersHome
    <3> QED
      BY <3>1 DEF UsersHome
  <2>8. Counts' /\ Fallen' /\ env'.falls["Client"] = env.falls["Client"]
    BY FallenKept
  <2>9. PageTyped' /\ state'.client = d /\ state'.style = state.style
    BY <2>1, <2>2, <2>6, ClientSet DEF PageInv
  <2>10. Api!WaitIsTimed'
    <3>1. \A key \in Posts : <<"Client", Api!Timeout(key)>> \in DOMAIN net'.timers
      BY <2>4, <2>6 DEF n
    <3> QED
      BY <2>2, <2>8, <2>9, <3>1, WaitKept
  <2>11. ClientRight(state.style, state.client)'
    BY <2>2, <2>9
  <2> QED
    BY <2>6, <2>7, <2>8, <2>9, <2>10, <2>11 DEF PageInv
<1> QED
  BY <1>5, <1>6

(* The page is asked for. *)
LEMMA LoadHeld ==
  ASSUME PageInv, Api!Load
  PROVE  PageInv'
<1> DEFINE kind == IF state.style = "rest" THEN "getUser" ELSE IF state.style = "graphql" THEN "query" ELSE "getProfile"
           key == IF state.style = "rest" THEN "user" ELSE IF state.style = "graphql" THEN "q" ELSE "rpc"
           m == [kind |-> kind, key |-> key]
           c == state.client
           d == [c EXCEPT !.started = TRUE, !.roundTrips = 1, !.live = {key}]
           out == Api!Started(kind, key)
<1>1. ClientRight(state.style, c) /\ c \in Clients /\ state.style \in {"rest", "graphql", "grpc"}
  BY DEF PageInv, PageTyped
<1>2. ~c.started /\ env' = env /\ Api!Happens("Client", out, net)
  <2>1. CASE state.style = "rest"
    BY <2>1 DEF Api!Load, Api!External
  <2>2. CASE state.style = "graphql"
    BY <2>2 DEF Api!Load, Api!External
  <2>3. CASE state.style = "grpc"
    BY <2>3 DEF Api!Load, Api!External
  <2> QED
    BY <1>1, <2>1, <2>2, <2>3
<1>3. Handled(net.links, net.timers, "Client", out)
  BY <1>2, PageEngine DEF Api!Happens, Api!Queued, Handled, Left
<1>4. /\ net.links \in [Spots -> Seq(Mail)] /\ net.timers \in [DOMAIN net.timers -> Nat \ {0}]
      /\ \A k \in Spots : Items(net.links[k]) \subseteq Coming(k)
  BY DEF PageInv, Queue, Coming, Link, Items
<1>5. /\ out.state = [state EXCEPT !.client = d] /\ out.sends = <<<<"Server", m>>>>
      /\ out.timers = <<Api!Timeout(key)>>
  BY DEF Api!Started, Api!Out, Api!Client, Api!ToServer
<1>6. m \in Mail /\ m.kind # "user" /\ <<"Client", "Server">> \in Spots
  BY <1>1, PageFacts DEF Mail, Asked
<1>7. d \in Clients /\ ClientRight(state.style, d) /\ d.live = {key}
  <2>1. Begins(c, d, key)
    BY DEF Begins
  <2>2. \/ state.style = "rest" /\ key = "user"
        \/ state.style = "graphql" /\ key = "q"
        \/ state.style = "grpc" /\ key = "rpc"
    BY <1>1
  <2> HIDE DEF c, key, d
  <2>3. /\ d \in Clients /\ d.live = {key}
        /\ key = "user" => ClientRight("rest", d)
        /\ key = "q" => ClientRight("graphql", d)
        /\ key = "rpc" => ClientRight("grpc", d)
    BY <1>1, <1>2, <2>1, <2>2, StartRight
  <2> QED
    BY <2>2, <2>3
<1> DEFINE x == Api!Timeout(key)
<1> HIDE DEF m, c, d, out, kind, key, x
<1>8. Leaves(Spots, Mail, net.links, net.timers, "Client", out, "Server", m, x)
  BY <1>3, <1>4, <1>5, <1>6, HandlerLeaves DEF x
<1>9. Queue(net', Spots, Mail) /\ UsersHome'
  BY <1>4, <1>6, <1>8, MailAfter
<1>10. Counts' /\ Fallen' /\ env'.falls["Client"] = env.falls["Client"]
  BY <1>2, FallenKept
<1>11. PageTyped' /\ state'.client = d /\ state'.style = state.style
  <2>1. state' = out.state
    BY <1>3 DEF Handled
  <2> QED
    BY <1>5, <1>7, <2>1, ClientSet DEF PageInv
<1>12. <<"Client", x>> \in DOMAIN net'.timers
  <2>1. net'.timers = Engine!WithTimers(net.timers, "Client", <<x>>)
    BY <1>3, <1>5, LeftShape, LeftOne DEF x
  <2>2. Engine!WithTimers(net.timers, "Client", <<x>>) \in
          [DOMAIN net.timers \cup {<<"Client", x>>} -> Nat \ {0}]
    BY <1>4, TimerAdded
  <2> QED
    BY <2>1, <2>2
<1>13. Api!WaitIsTimed'
  BY <1>7, <1>10, <1>11, <1>12, WaitKept DEF x
<1>14. ClientRight(state.style, state.client)'
  BY <1>7, <1>11
<1> QED
  BY <1>9, <1>10, <1>11, <1>13, <1>14 DEF PageInv

LEMMA SchemaHeld ==
  ASSUME PageInv, Api!SetSchema
  PROVE  PageInv'
<1>1. PICK version \in {"v1", "v2"} \ {state.schema} :
        Api!External("Server", Api!Quiet([state EXCEPT !.schema = version]))
  BY DEF Api!SetSchema
<1> DEFINE new == [state EXCEPT !.schema = version]
           out == Api!Quiet(new)
<1>2. env' = env /\ Handled(net.links, net.timers, "Server", out)
  BY <1>1, PageEngine DEF Api!External, Api!Happens, Api!Queued, Handled, Left
<1>3. out.state = new /\ out.sends = <<>> /\ out.timers = <<>>
  BY DEF Api!Quiet, Api!Out
<1>4. net = [links |-> net.links, timers |-> net.timers] /\ net.timers \in [DOMAIN net.timers -> Nat \ {0}]
  BY DEF PageInv, Queue
<1> HIDE DEF out, new
<1>5. state' = new /\ net' = net
  BY <1>2, <1>3, <1>4, LeftShape, LeftQuiet
<1>6. PageTyped' /\ state'.client = state.client /\ state'.style = state.style
  BY <1>5 DEF PageInv, PageTyped, new
<1>7. Counts' /\ Fallen' /\ env'.falls["Client"] = env.falls["Client"]
  BY <1>2, FallenKept
<1>8. Api!WaitIsTimed'
  BY <1>5, <1>6, <1>7, WaitKept
<1>9. Queue(net', Spots, Mail) /\ UsersHome'
  BY <1>5 DEF PageInv, UsersHome, Coming, Link
<1> QED
  BY <1>6, <1>7, <1>8, <1>9 DEF PageInv

LEMMA PageNext ==
  ASSUME PageInv, [Api!Next]_Api!vars
  PROVE  PageInv'
<1>1. CASE Api!Answer \/ Api!Answered
  <2>1. Queue(net, Spots, Mail)
    BY DEF PageInv
  <2>2. PICK l \in Spots : \E i \in DOMAIN Link(l) :
          /\ Overtakes(i)
          /\ LET Runs(out) == Handled(Removed(net.links, l, i), net.timers, l[2], out)
                 m == Link(l)[i]
             IN \/ m.kind \in {"getUser", "getPost"} /\ Runs(Api!RestServer(l[1], l[2], m))
                \/ m.kind = "query" /\ Runs(Api!GqlServer(l[1], l[2], m))
                \/ m.kind = "getProfile" /\ Runs(Api!GrpcServer(l[1], l[2], m))
                \/ m.kind = "user" /\ Runs(Api!OnUser(l[1], l[2], m))
                \/ m.kind = "post" /\ Runs(Api!OnPost(l[1], l[2], m))
                \/ m.kind = "result" /\ Runs(Api!OnResult(l[1], l[2], m))
                \/ m.kind = "profile" /\ Runs(Api!OnProfile(l[1], l[2], m))
    BY <1>1, <2>1, PageReceive
  <2> QED
    BY <2>2, ServerHeld, UserHeld, PostHeld, ResultHeld, ProfileHeld
<1>2. CASE UNCHANGED Api!vars
  <2>1. state' = state /\ net' = net /\ env' = env
    BY <1>2 DEF Api!vars
  <2>2. Counts' /\ Fallen' /\ env'.falls["Client"] = env.falls["Client"]
    BY <2>1, FallenKept
  <2>3. Api!WaitIsTimed'
    BY <2>1, <2>2, WaitKept
  <2> QED
    BY <2>1, <2>2, <2>3 DEF PageInv, PageTyped, UsersHome, Coming, Link
<1> QED
  BY <1>1, <1>2, LoadHeld, SchemaHeld, TimeoutHeld, PageFault DEF Api!Next

LEMMA PageInit == Api!Init => PageInv
<1> SUFFICES ASSUME Api!Init PROVE PageInv
  OBVIOUS
<1> DEFINE c == Api!NewClient
<1>1. PICK style \in {"rest", "graphql", "grpc"} : state = [style |-> style, client |-> c, schema |-> "v1"]
  BY DEF Api!Init
<1>2. /\ net = [links |-> [l \in Spots |-> <<>>], timers |-> [t \in {} |-> 0]]
      /\ env = [dead |-> {}, falls |-> [n \in {"Client", "Server"} |-> 0], kills |-> 0, revives |-> 0,
                drops |-> 0, dups |-> 0, late |-> 0, lost |-> 0]
  BY DEF Api!Init, Api!NoEvents, Api!Calm, Spots
<1>3. /\ c \in Clients /\ ~c.started /\ ~c.gotUser /\ c.live = {} /\ c.expected = 0 /\ c.delivered = 0
      /\ c.failed = 0 /\ c.bytes = 0 /\ c.unknownSkipped = 0
  BY DEF Api!NewClient, Clients
<1> HIDE DEF c
<1>4. PageTyped /\ state.client = c /\ state.style = style
  BY <1>1, <1>3 DEF PageTyped
<1>5. ClientRight(state.style, state.client)
  BY <1>3, <1>4 DEF ClientRight, ManyRight, OneRight
<1>6. Queue(net, Spots, Mail)
  <2>1. net.links \in [Spots -> Seq(Mail)] /\ DOMAIN net.timers = {}
    BY <1>2
  <2> QED
    BY <1>2, <2>1 DEF Queue
<1>7. \A l \in Spots : Coming(l) = {}
  BY <1>2 DEF Coming, Link
<1>8. Counts /\ Fallen
  BY <1>2 DEF Counts, Fallen
<1>9. Api!WaitIsTimed
  BY <1>3, <1>4 DEF Api!WaitIsTimed
<1> QED
  BY <1>4, <1>5, <1>6, <1>7, <1>8, <1>9 DEF PageInv, UsersHome

LEMMA PageMeans ==
  PageInv => Api!TypeOK /\ Api!EachPostOnce /\ Api!AllOrNothing /\ Api!WaitIsTimed
<1> SUFFICES ASSUME PageInv PROVE Api!TypeOK /\ Api!EachPostOnce /\ Api!AllOrNothing
  BY DEF PageInv
<1> DEFINE c == state.client
           n == Api!NPosts
<1>1. ClientRight(state.style, c) /\ c \in Clients /\ state.style \in {"rest", "graphql", "grpc"}
      /\ state.schema \in {"v1", "v2"}
  BY DEF PageInv, PageTyped
<1>2. n \in Nat \ {0} /\ \A S : Api!Cardinality(S) = Cardinality(S)
  BY PageFacts
<1>3. /\ c.delivered \in Nat /\ c.failed \in Nat /\ c.expected \in Nat /\ c.bytes \in Nat
      /\ c.live \subseteq Keys /\ c.unknownSkipped \in Nat
  BY <1>1 DEF Clients
<1>4. CASE state.style = "rest"
  <2>1. ManyRight(c)
    BY <1>1, <1>4 DEF ClientRight
  <2>2. c.gotUser =>
          /\ c.started /\ c.expected = n /\ Cardinality(c.live) \in Nat
          /\ c.delivered + c.failed + Cardinality(c.live) = n
          /\ c.bytes = 220 + 160 * c.delivered /\ (c.live = {} <=> Cardinality(c.live) = 0)
    BY <2>1, PageFacts, FS_Subset, FS_CardinalityType, FS_EmptySet DEF ManyRight
  <2>3. {c.expected, c.delivered} \subseteq 0..n /\ c.failed \in 0..n
    BY <1>2, <1>3, <2>1, <2>2 DEF ManyRight
  <2>4. Api!EachPostOnce
    <3> SUFFICES ASSUME c.gotUser
                 PROVE  /\ c.delivered + c.failed + Cardinality(c.live) = c.expected
                        /\ c.bytes = 220 + c.delivered * 160
                        /\ Api!RestPartial(c) <=> c.live = {} /\ c.failed > 0
      BY <1>2 DEF Api!EachPostOnce, Api!Bytes
    <3>1. Api!RestPartial(c) <=> c.live = {} /\ c.delivered < n
      BY <2>2 DEF Api!RestPartial, Api!Settled
    <3> HIDE DEF c, n
    <3> QED
      BY <1>2, <1>3, <2>2, <3>1
  <2>5. Api!TypeOK
    BY <1>1, <1>3, <2>3, PageFacts DEF Api!TypeOK, Keys
  <2>6. Api!AllOrNothing
    BY <1>4 DEF Api!AllOrNothing
  <2> QED
    BY <2>4, <2>5, <2>6
<1>5. CASE state.style # "rest"
  <2>1. PICK key : OneRight(c, key)
    BY <1>1, <1>5 DEF ClientRight
  <2>2. {c.expected, c.delivered} \subseteq 0..n /\ c.failed \in 0..n
    BY <1>2, <2>1 DEF OneRight
  <2>3. Api!TypeOK
    BY <1>1, <1>3, <2>2, PageFacts DEF Api!TypeOK, Keys
  <2>4. Api!EachPostOnce
    BY <1>5 DEF Api!EachPostOnce
  <2>5. Api!AllOrNothing
    <3> SUFFICES ASSUME c.started, c.live = {}
                 PROVE  /\ Api!GqlAllOrNothing(c) <=> c.delivered # n
                        /\ c.bytes = 0 <=> c.failed = 1
                        /\ Api!GrpcEvolution(c) => c.bytes = 170
      BY DEF Api!AllOrNothing, Api!Settled, Api!Bytes
    <3>1. \/ c.failed = 1 /\ c.delivered = 0 /\ c.bytes = 0
          \/ /\ c.failed = 0 /\ c.delivered = n /\ c.bytes > 0
             /\ c.unknownSkipped >= 1 => c.bytes = 170
      BY <2>1 DEF OneRight
    <3>2. /\ Api!GqlAllOrNothing(c) <=> c.failed = 1 /\ c.delivered = 0
          /\ Api!GrpcEvolution(c) => c.failed = 0 /\ c.unknownSkipped >= 1
      BY DEF Api!GqlAllOrNothing, Api!GrpcEvolution, Api!Settled
    <3> HIDE DEF c, n
    <3> QED
      BY <1>2, <1>3, <3>1, <3>2
  <2> QED
    BY <2>3, <2>4, <2>5
<1> QED
  BY <1>4, <1>5

(* A page counts every answer or its timeout, once, and never waits without*)
(* a timeout to come unless the client was killed: for any posts, any      *)
(* bounds and any faults (rest.ts:60-86, graphql.ts:51-62, grpc.ts:59-75). *)
THEOREM PageCorrect == LabSpec => []PageAccounted
<1> DEFINE Inv == lab = "api" => PageInv
<1>1. LabInit => Inv
  BY PageInit DEF LabInit
<1>2. Inv /\ [LabNext]_<<lab, state, net, env, hist>> => Inv'
  <2> SUFFICES ASSUME Inv, [LabNext]_<<lab, state, net, env, hist>>, lab' = "api" PROVE PageInv'
    OBVIOUS
  <2>1. lab = "api" /\ [Api!Next]_Api!vars
    BY DEF LabNext, Api!vars
  <2> QED
    BY <2>1, PageNext
<1>3. Inv => PageAccounted
  BY PageMeans DEF PageAccounted
<1> QED
  BY <1>1, <1>2, <1>3, PTL DEF LabSpec

=============================================================================
