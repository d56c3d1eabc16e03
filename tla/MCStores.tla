------------------------------- MODULE MCStores -------------------------------
(***************************************************************************)
(* The labs that run on one node: storage engines, transactions, derived   *)
(* views, the load lab, the data models and the linearizability check.  A  *)
(* behaviour is one of one lab, with the bounds of that lab; net is the    *)
(* timers of a lab that has any.  The views and the tree of runs are those *)
(* of Stores.                                                              *)
(***************************************************************************)
EXTENDS Stores, FiniteSetsExt

(* Two transactions of up to two steps out of a read, an increment, a      *)
(* blind write and a check over both keys, at any level, interleaved.      *)
Steps == {[op |-> "read", key |-> "x"], [op |-> "inc", key |-> "x", value |-> 1],
          [op |-> "write", key |-> "y", value |-> 0], [op |-> "ensure", atLeast |-> 2]}
Txn == INSTANCE Txn WITH TxnId <- {1, 2}, Body <- Steps, MaxBody <- 2, OpKeys <- <<"x", "y">>

Total(faults) == MapThenSumSet(LAMBDA f : faults[f], DOMAIN faults)

(* Runs of two keys, merged two at a time: four writes and any fault, or   *)
(* three and two.  Filters of two bits in five. *)
LsmBound(h) == h.writes <= 4 /\ Total(h.faults) <= 2 /\ h.writes + Total(h.faults) <= 5
OneTear(h) ==
  h.writes <= 4 /\ h.faults["torn-write"] <= 1 /\ Total(h.faults) = h.faults["torn-write"]
TwoBits == [k \in {1, 2, 3} |-> {k % 3, (2 * k + 1) % 5}]

(* Pages of two keys: five writes, one of them a deletion or a fault beside *)
(* them, split a root twice over. *)
BTreeBound(h) == h.writes <= 5 /\ h.deletes + Total(h.faults) <= 1
BTree == INSTANCE BTree WITH Key <- 1..5, Order <- 2, Within <- BTreeBound

(* A write and three commands to the views of a log of one record. *)
ViewsBound(h) == h.writes <= 1 /\ h.commands <= 3
ViewsRest(h) == FALSE
OneRecord == <<[key |-> "p1", title |-> {"raft"}, category |-> "book"]>>

LoadBound(h) == h.arrivals <= 3 /\ h.turns <= 3
LoadLab == INSTANCE LoadLab WITH Servers <- {1, 2}, Fanouts <- {1, 2}, Within <- LoadBound

(* The fixture of the lab, and a triangle of friends with one more. *)
Fixture ==
  [users |-> <<"alice", "bob", "carol", "dan", "eve", "frank">>,
   friendships |-> <<<<"alice", "bob">>, <<"alice", "carol">>, <<"bob", "dan">>,
                     <<"carol", "eve">>, <<"carol", "frank">>, <<"dan", "eve">>>>,
   posts |-> <<"t1", "t2", "c1", "g1">>,
   category |-> [t1 |-> "tech", t2 |-> "tech", c1 |-> "cooking", g1 |-> "garden"],
   likes |-> <<<<"bob", "t1">>, <<"dan", "t2">>, <<"frank", "t1">>, <<"carol", "c1">>,
               <<"eve", "g1">>, <<"alice", "c1">>>>]
Triangle ==
  [Fixture EXCEPT !.users = <<"alice", "bob", "carol", "dan">>,
     !.friendships = <<<<"alice", "bob">>, <<"bob", "carol">>, <<"carol", "alice">>, <<"carol", "dan">>>>,
     !.likes = <<<<"bob", "t1">>, <<"bob", "t2">>>>]
TwoQuestions(h) == h.commands <= 2
Models == INSTANCE Models WITH
  Fixtures <- {Fixture, Triangle}, Within <- TwoQuestions, steps <- net

(* Every history of three operations on three values within three instants. *)
Check == INSTANCE Linearizable WITH
  CheckCap <- 3, Value <- {1, 2}, Instant <- 0..2, MaxOps <- 3, ops <- state

-----------------------------------------------------------------------------
NoTimers == net = 0

Init ==
  \/ LabInit
  \/ lab = "txn" /\ Txn!Init /\ NoTimers
  \/ lab = "btree" /\ BTree!Init /\ NoTimers
  \/ lab = "load" /\ LoadLab!Init
  \/ lab = "models" /\ Models!Init
  \/ lab = "check" /\ Check!Init /\ NoTimers /\ hist = 0

Next ==
  \/ LabNext
  \/ /\ UNCHANGED lab
     /\ \/ lab = "txn" /\ Txn!Next /\ UNCHANGED net
        \/ lab = "btree" /\ BTree!Next /\ UNCHANGED net
        \/ lab = "load" /\ LoadLab!Next
        \/ lab = "models" /\ Models!Next
        \/ lab = "check" /\ Check!Next /\ UNCHANGED <<net, hist>>

vars == <<lab, state, net, hist>>

Views == {"search", "cache", "analytics"}
Advance(view) == lab = "unbundled" /\ Unbundled!Advance(view) /\ UNCHANGED <<lab, net>>

Spec == Init /\ [][Next]_vars /\ \A view \in Views : WF_vars(Advance(view))

-----------------------------------------------------------------------------
(* Properties, each that of its lab with its types.                        *)

(* SI and SER: what is flagged is what is wrong, and nobody waits for ever *)
(* (txn.ts: doCommit, pickVersion, detectWriteSkew).                       *)
FlagsExact == lab = "txn" => Txn!TypeOK /\ Txn!FlagsExact /\ Txn!QueueDrains

(* Descents find the last write, in a tree that is one (btree.ts:118-185). *)
TreeSound == lab = "btree" => BTree!TypeOK /\ BTree!ReadsLatest /\ BTree!Balanced

(* A view that is not paused for ever catches up with the log              *)
(* (unbundled.ts:162).                                                     *)
CatchesUp ==
  \A view \in Views :
    <>[](lab = "unbundled" => ~state[view].paused)
      => <>[](lab = "unbundled" => state[view].offset = Len(state.log))

(* Slots are taken by parts that complete, a request ends with its last    *)
(* part, and nobody queues beside an idle server (load.ts:54-114).         *)
LoadAccounted == lab = "load" => LoadLab!TypeOK /\ LoadLab!Accounted /\ LoadLab!NoIdleServer

(* Three engines, one answer, and an animation that goes on to its end     *)
(* (models-shared.ts:95-183, models.ts:98, 108); a verdict that is right   *)
(* (linearizable.ts:26-51).                                                *)
AnswersRight ==
  /\ lab = "models" => Models!TypeOK /\ Models!SameAnswer /\ Models!KeepsStepping
  /\ lab = "check" => Check!VerdictExact
=============================================================================
