--------------------------- MODULE PriorityQueue ----------------------------
(***************************************************************************)
(* What the engine needs of its event queue: events go in, and the one     *)
(* that comes out is always the first in the order of (time, seq).         *)
(***************************************************************************)
EXTENDS Integers

CONSTANT Event      \* records with a time and a seq

VARIABLES queue,    \* the set of events waiting
          taken     \* the events taken last: none or one

Before(a, b) == a.time < b.time \/ (a.time = b.time /\ a.seq < b.seq)

First(e) == \A x \in queue \ {e} : Before(e, x)

Init == queue = {} /\ taken = {}

Add(e) == e \in Event /\ queue' = queue \cup {e} /\ UNCHANGED taken

Take(e) == First(e) /\ queue' = queue \ {e} /\ taken' = {e}

Next == (\E e \in queue' \ queue : Add(e)) \/ (\E e \in queue : Take(e))

Spec == Init /\ [][Next]_<<queue, taken>>
=============================================================================
