------------------------------ MODULE LoadLab -------------------------------
(***************************************************************************)
(* The service of the load lab, src/src/modules/load.ts: requests of some  *)
(* number of parts each, served by a number of servers, queued when these  *)
(* are all busy, or answered from a cache at once.  Service times are left *)
(* out: a part may be complete at any time.                                *)
(***************************************************************************)
EXTENDS Integers, Sequences, SequencesExt, FiniteSets, FiniteSetsExt, Bags

CONSTANTS
  Servers, Fanouts,    \* the values of the knobs
  Within(_)            \* bound: hist counts arrivals and turns of a knob

VARIABLES state, net, hist

vars == <<state, net, hist>>

(* net: the completions that are due, a bag of [parentId, cached].         *)
Init ==
  /\ state = [servers |-> 1, cacheHitRate |-> "none", fanout |-> 1, inService |-> 0,
              queue |-> <<>>, pending |-> [p \in {} |-> 0], nextId |-> 0, completed |-> {}]
  /\ net = EmptyBag
  /\ hist = [arrivals |-> 0, turns |-> 0, raised |-> FALSE]

Due(parentId, cached) == SetToBag({[parentId |-> parentId, cached |-> cached]})

(* One part: [s, due] with the part served, or queued. *)
Admit(x, parentId, cached) ==
  CASE cached -> [x EXCEPT !.due = @ (+) Due(parentId, TRUE)]
    [] ~cached /\ x.s.inService < x.s.servers ->
         [s |-> [x.s EXCEPT !.inService = @ + 1], due |-> x.due (+) Due(parentId, FALSE)]
    [] OTHER -> [x EXCEPT !.s.queue = Append(@, parentId)]

Draws == CASE state.cacheHitRate = "none" -> {FALSE}
           [] state.cacheHitRate = "all"  -> {TRUE}
           [] OTHER -> BOOLEAN

(* raised: servers were added while parts were queued and some still are.  *)
Noted(h) == [h EXCEPT !.raised = @ /\ state'.queue # <<>>]

OnArrival ==
  LET id == state.nextId
      s == [state EXCEPT !.nextId = @ + 1,
                         !.pending = [p \in DOMAIN @ \cup {id} |->
                                        IF p = id THEN state.fanout ELSE @[p]]]
  IN \E draws \in [1..state.fanout -> Draws] :
       LET x == FoldLeft(LAMBDA y, cached : Admit(y, id, cached), [s |-> s, due |-> net], draws)
       IN /\ state' = x.s /\ net' = x.due
          /\ hist' = Noted([hist EXCEPT !.arrivals = @ + 1]) /\ Within(hist')

Joined(s, p) ==
  IF p \notin DOMAIN s.pending THEN s
  ELSE IF s.pending[p] > 1 THEN [s EXCEPT !.pending[p] = @ - 1]
  ELSE [s EXCEPT !.pending = [q \in DOMAIN @ \ {p} |-> @[q]], !.completed = @ \cup {p}]

(* A part answered from the cache frees a slot as well. *)
OnCompleteFreeingAlways ==
  \E c \in BagToSet(net) :
    LET freed == [state EXCEPT !.inService = @ - 1]
        next  == freed.queue # <<>> /\ freed.inService < freed.servers
        s == IF next THEN [freed EXCEPT !.queue = Tail(@), !.inService = @ + 1] ELSE freed
        rest == net (-) Due(c.parentId, c.cached)
    IN /\ state' = Joined(s, c.parentId)
       /\ net' = IF next THEN rest (+) Due(Head(freed.queue), FALSE) ELSE rest
       /\ hist' = Noted(hist)

(* A part is complete: the slot goes to the head of the queue, if there is *)
(* one and there are not too many in service, and the request has a part   *)
(* less to wait for.                                                       *)
OnComplete ==
  \E c \in BagToSet(net) :
    LET freed == IF c.cached THEN state ELSE [state EXCEPT !.inService = @ - 1]
        next  == ~c.cached /\ freed.queue # <<>> /\ freed.inService < freed.servers
        s == IF next THEN [freed EXCEPT !.queue = Tail(@), !.inService = @ + 1] ELSE freed
        rest == net (-) Due(c.parentId, c.cached)
    IN /\ state' = Joined(s, c.parentId)
       /\ net' = IF next THEN rest (+) Due(Head(freed.queue), FALSE) ELSE rest
       /\ hist' = Noted(hist)

(* The knobs: nothing that is queued or in service moves. *)
OnExternal ==
  /\ \/ \E c \in Servers : state' = [state EXCEPT !.servers = c]
     \/ \E h \in {"none", "some", "all"} : state' = [state EXCEPT !.cacheHitRate = h]
     \/ \E n \in Fanouts : state' = [state EXCEPT !.fanout = n]
  /\ net' = net
  /\ hist' = Noted([hist EXCEPT !.turns = @ + 1,
                                !.raised = @ \/ state'.servers > state.servers])
  /\ Within(hist')

Next == OnArrival \/ OnComplete \/ OnExternal

Spec == Init /\ [][Next]_vars

-----------------------------------------------------------------------------
(* Properties.                                                             *)

TypeOK ==
  /\ state.inService \in Nat /\ state.servers \in Servers /\ state.fanout \in Fanouts
  /\ Range(state.queue) \subseteq DOMAIN state.pending
  /\ \A p \in DOMAIN state.pending : p < state.nextId /\ state.pending[p] > 0

(* A slot is taken by a part that will complete, and nothing else; a       *)
(* request waits for its parts that are queued or due, and is counted when *)
(* and only when there are none, once (load.ts:62-114).                    *)
Accounted ==
  LET DueOf(Test(_)) == MapThenSumSet(LAMBDA c : IF Test(c) THEN CopiesIn(c, net) ELSE 0, BagToSet(net))
      Queued(p) == Len(SelectSeq(state.queue, LAMBDA q : q = p))
  IN /\ state.inService = DueOf(LAMBDA c : ~c.cached)
     /\ \A p \in DOMAIN state.pending :
          state.pending[p] = DueOf(LAMBDA c : c.parentId = p) + Queued(p)
     /\ \A p \in 0..state.nextId - 1 : p \in state.completed <=> p \notin DOMAIN state.pending

(* Nobody queues while a server is idle, unless servers were added, which  *)
(* find what was queued before still queued until parts complete           *)
(* (load.ts:54-60, 82-89).                                                 *)
NoIdleServer ==
  ~hist.raised /\ state.queue # <<>> => state.inService >= state.servers
=============================================================================
