------------------------------ MODULE MCEngine ------------------------------
(***************************************************************************)
(* The engine under the labs: Timeline simulates a module that ticks and   *)
(* answers commands, over the set of events that EventQueue's heap stands  *)
(* for.  A behaviour is one of the heap or one of the recorder.            *)
(***************************************************************************)
EXTENDS Timeline

VARIABLES heap, now, count, taken, part

Whats == {"tick", "tock", "last", "cmd", "echo"}

Start == <<"tick", "tick">>

Commands == {"cmd"}

Then(delay, what) == [delay |-> delay, what |-> what]

(* Two nodes tick for a while; a command is answered at once and once more *)
(* later.                                                                  *)
Effect ==
  [w \in Whats |->
     CASE w = "tick" -> <<Then(1, "tock"), Then(2, "last")>>
       [] w = "tock" -> <<Then(1, "last"), Then(0, "last")>>
       [] w = "last" -> <<>>
       [] w = "cmd"  -> <<Then(0, "echo"), Then(2, "echo")>>
       [] w = "echo" -> <<>>]

(* Up to seven events, at most two ticks ahead: a heap of three levels. *)
Queue == INSTANCE EventQueue WITH time <- now, seq <- count, MaxDelay <- 2, MaxSeq <- 7

-----------------------------------------------------------------------------
EngineInit == part \in {"queue", "recorder"} /\ Init /\ Queue!Init

EngineNext ==
  /\ UNCHANGED part
  /\ \/ part = "queue" /\ Queue!Next /\ UNCHANGED vars
     \/ part = "recorder" /\ Next /\ UNCHANGED <<heap, now, count, taken>>

EngineSpec == EngineInit /\ [][EngineNext]_<<vars, heap, now, count, taken, part>>

-----------------------------------------------------------------------------
(* Properties.                                                             *)

(* The heap implements a priority queue on (time, seq): no event is lost   *)
(* or invented, each pop takes the first (events.ts:28-65), and virtual    *)
(* time never runs backwards.                                              *)
HeapIsQueue == Queue!PriorityQueueSpec /\ Queue!TakenInOrder /\ []Queue!TypeOK
=============================================================================
