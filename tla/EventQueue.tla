----------------------------- MODULE EventQueue -----------------------------
(***************************************************************************)
(* The binary min-heap of src/src/engine/events.ts, and how the simulation *)
(* uses it: every event is pushed at or after the present time with the    *)
(* next seq, and popping one moves the time on.                            *)
(***************************************************************************)
EXTENDS Integers, Sequences, SequencesExt

CONSTANTS
  MaxDelay,   \* bound: how far ahead of the present an event is scheduled
  MaxSeq      \* bound: events scheduled in one behaviour

VARIABLES heap, time, seq, taken

vars == <<heap, time, seq, taken>>

Event == [time : Nat, seq : Nat]

Before(a, b) == a.time < b.time \/ (a.time = b.time /\ a.seq < b.seq)

Swap(h, i, j) == [h EXCEPT ![i] = h[j], ![j] = h[i]]

Parent(i) == i \div 2

(* A sift that looks at the left child only. *)
LeastWithLeft(h, i) == IF 2 * i <= Len(h) /\ Before(h[2 * i], h[i]) THEN 2 * i ELSE i

(* The least of a slot and its two children. *)
LeastOfThree(h, i) ==
  LET slots == {j \in {i, 2 * i, 2 * i + 1} : j <= Len(h)}
  IN CHOOSE j \in slots : \A k \in slots : ~Before(h[k], h[j])

RECURSIVE SiftUp(_, _), SiftDown(_, _)
SiftUp(h, i) ==
  IF i > 1 /\ Before(h[i], h[Parent(i)])
  THEN SiftUp(Swap(h, i, Parent(i)), Parent(i)) ELSE h

SiftDown(h, i) ==
  LET m == LeastOfThree(h, i)
  IN IF m = i THEN h ELSE SiftDown(Swap(h, i, m), m)

Pushed(h, e) == SiftUp(Append(h, e), Len(h) + 1)

(* The last element takes the root's place and sinks. *)
Popped(h) == IF Len(h) = 1 THEN <<>> ELSE SiftDown(Front([h EXCEPT ![1] = Last(h)]), 1)

Init == heap = <<>> /\ time = 0 /\ seq = 0 /\ taken = {}

Schedule(delay) ==
  /\ seq < MaxSeq /\ seq' = seq + 1
  /\ heap' = Pushed(heap, [time |-> time + delay, seq |-> seq])
  /\ UNCHANGED <<time, taken>>

Step ==
  /\ heap # <<>>
  /\ heap' = Popped(heap) /\ time' = heap[1].time /\ taken' = {heap[1]}
  /\ UNCHANGED seq

Next == Step \/ \E delay \in 0..MaxDelay : Schedule(delay)

Spec == Init /\ [][Next]_vars

-----------------------------------------------------------------------------
(* Properties.                                                             *)

(* The heap is an array of events, each scheduled once.                    *)
TypeOK == heap \in Seq(Event) /\ time \in Nat /\ seq \in 0..MaxSeq /\ IsInjective(heap)

(* The heap implements the priority queue: no event is lost or invented,   *)
(* and each pop takes the first in the order of (time, seq).               *)
PQ == INSTANCE PriorityQueue WITH queue <- {heap[i] : i \in DOMAIN heap}
PriorityQueueSpec == PQ!Spec

(* Virtual time never runs backwards, and ties go by insertion: an event   *)
(* is popped before everything scheduled after it for the same time.       *)
TakenInOrder ==
  [][\A a \in taken, b \in taken' : a # b => Before(a, b)]_vars
=============================================================================
