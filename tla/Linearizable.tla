---------------------------- MODULE Linearizable ----------------------------
(***************************************************************************)
(* The linearizability check of the consensus lab,                         *)
(* src/src/modules/linearizable.ts: a search over the orders of the        *)
(* completed operations on one register, that remembers which sets of      *)
(* seated operations, with which value, lead nowhere.  The search is       *)
(* compared with the definition of linearizability on every history the    *)
(* bounds allow, one more completed operation a step.                      *)
(***************************************************************************)
EXTENDS Integers, Sequences, SequencesExt, FiniteSetsExt

CONSTANTS
  CheckCap,    \* CHECK_CAP, the longest history checked
  Value,       \* bound: the values written
  Instant,     \* bound: the times of invocations and responses
  MaxOps       \* bound: the length of a history

VARIABLE ops

CompletedOp ==
  {o \in [op : {"write", "read"}, value : Value \cup {0}, invokedAt : Instant, respondedAt : Instant] :
     o.invokedAt <= o.respondedAt /\ (o.op = "write" => o.value # 0)}

Init == ops = <<>>

Complete ==
  /\ Len(ops) < MaxOps
  /\ \E o \in CompletedOp : ops' = Append(ops, o)

Next == Complete

Spec == Init /\ [][Next]_ops

-----------------------------------------------------------------------------
(* The search.  A set of indices is the bit mask of the code.              *)

Precedes(j) == {i \in DOMAIN ops : ops[i].respondedAt < ops[j].invokedAt}

(* An operation that may be the next one, and the register after it. *)
Seats(mask, reg, j) ==
  /\ j \notin mask /\ Precedes(j) \subseteq mask
  /\ ops[j].op = "read" => ops[j].value = reg

After(reg, j) == IF ops[j].op = "read" THEN reg ELSE ops[j].value

(* The search remembers the operations seated only. *)
KeyOfMask(mask, reg) == mask

Key(mask, reg) == <<mask, reg>>

RECURSIVE Dfs(_, _, _)
Dfs(mask, reg, s) ==
  IF mask = DOMAIN ops THEN [s EXCEPT !.ok = TRUE]
  ELSE IF Key(mask, reg) \in s.seen THEN s
  ELSE LET entered == [s EXCEPT !.seen = @ \cup {Key(mask, reg)},
                                !.best = IF Cardinality(mask) > Cardinality(@) THEN mask ELSE @]
       IN FoldLeft(LAMBDA r, j : IF r.ok \/ ~Seats(mask, reg, j) THEN r
                                 ELSE Dfs(mask \cup {j}, After(reg, j), r),
                   entered, [j \in DOMAIN ops |-> j])

Ok == [verdict |-> "ok"]

CheckLinearizable ==
  IF Len(ops) > CheckCap THEN [verdict |-> "too-long"]
  ELSE LET search == Dfs({}, 0, [ok |-> FALSE, seen |-> {}, best |-> {}])
       IN IF search.ok THEN Ok
          ELSE [verdict |-> "violation", culprit |-> Min(DOMAIN ops \ search.best)]

-----------------------------------------------------------------------------
(* The definition: an order of some operations that respects real time,    *)
(* leaves out nothing that had to come before, and answers each read with  *)
(* the last value written.                                                 *)

ValueBefore(order, k) ==
  LET writes == {i \in 1..(k - 1) : ops[order[i]].op = "write"}
  IN IF writes = {} THEN 0 ELSE ops[order[Max(writes)]].value

LegalOrder(order) ==
  \A k \in DOMAIN order :
    /\ Precedes(order[k]) \subseteq {order[i] : i \in 1..(k - 1)}
    /\ ops[order[k]].op = "read" => ops[order[k]].value = ValueBefore(order, k)

LegalOrders(set) == {order \in SetToSeqs(set) : LegalOrder(order)}

(* The verdict is ok exactly when a legal order of all the operations      *)
(* exists: forgetting how a place was reached loses no order, and an       *)
(* operation found culpable is left out by a longest legal order           *)
(* (linearizable.ts:26-51).                                                *)
VerdictExact ==
  LET v == CheckLinearizable
  IN IF LegalOrders(DOMAIN ops) # {} THEN v = Ok
     ELSE /\ v.verdict = "violation"
          /\ \E left \in SUBSET DOMAIN ops :
               /\ v.culprit \in left /\ LegalOrders(DOMAIN ops \ left) # {}
               /\ \A fewer \in SUBSET DOMAIN ops :
                    Cardinality(fewer) < Cardinality(left) => LegalOrders(DOMAIN ops \ fewer) = {}
=============================================================================
