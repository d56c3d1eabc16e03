---------------------------- MODULE MCLeaderless ----------------------------
(* Instances of Leaderless: home replicas A, B and C or A and B, and a     *)
(* fallback D.                                                             *)
EXTENDS Leaderless

CONSTANTS A, B, C, D

Setting(homes, others, w, r, sloppy, clients) ==
  [home |-> homes, fallbacks |-> others, w |-> w, r |-> r, sloppy |-> sloppy,
   clients |-> clients]

(* Quorums of two among three; a quorum of one write and two reads among   *)
(* two; hints for two homes that miss a write, one of them on D.           *)
Quorums  == Setting(<<A, B, C>>, <<>>, 2, 2, FALSE, {A})
ReadAll  == Setting(<<A, B>>, <<>>, 1, 2, FALSE, {A})
Hints    == Setting(<<A, B>>, <<D>>, 2, 2, TRUE, {A})
Settings == {Quorums, ReadAll, Hints}

(* The same with a fallback that takes the writes and hints of others.     *)
HintsOfOne == {Setting(<<A, B, C>>, <<D>>, 1, 1, TRUE, {D})}

Fits(used, writes_, reads_, kills_, dups_) ==
  /\ used.writes <= writes_ /\ used.reads <= reads_
  /\ used.kills <= kills_ /\ used.dups <= dups_

(* Two writes and a late copy of a message; a write and a read beside a    *)
(* kill; two writes and a read; a write and a read that may be hinted.     *)
Bounds(p, used) ==
  CASE p = Quorums -> Fits(used, 2, 0, 0, 1) \/ Fits(used, 1, 1, 1, 0)
    [] p = ReadAll -> Fits(used, 2, 1, 0, 0)
    [] p = Hints   -> Fits(used, 1, 1, 0, 0)

TwoWrites(p, used) == Fits(used, 2, 0, 0, 0)

(* Messages whose delivery changes nothing, now or later: the operation    *)
(* they answer has ended, or has this answer.                              *)
Ignored(m) ==
  \/ /\ m.msg = "storeAck" /\ m.handoffOf = NoSlot
     /\ Pending(m.to, m.opId, "write") => Among(pending[m.to][m.opId].acks, m.from)
  \/ /\ m.msg = "getReply"
     /\ Pending(m.to, m.opId, "read") =>
          \E i \in DOMAIN pending[m.to][m.opId].replies :
            pending[m.to][m.opId].replies[i].from = m.from
  \/ m.msg = "get" /\ m.opId \notin DOMAIN pending[m.from]

View == <<params, data, hints, handoffs, opVars, faultVars, {m \in net : ~Ignored(m)}>>
=============================================================================
