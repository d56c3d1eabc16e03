-------------------------------- MODULE Models --------------------------------
(***************************************************************************)
(* The data-models lab: one social graph stored three ways, queried three  *)
(* ways, and stepped through: src/src/modules/models.ts and                *)
(* models-shared.ts.  The fixture of the code is one value of Fixtures; a  *)
(* step of a trace is what it touches.                                     *)
(***************************************************************************)
EXTENDS Integers, Sequences, SequencesExt, FiniteSetsExt

CONSTANTS
  Fixtures,       \* records of users, friendships, posts, category and likes, as
                  \* sequences in the order of the code; the first user is the root
  Within(_)       \* bound: the commands of a behaviour (hist)

VARIABLES state, steps, hist   \* steps: the step timers set and not yet fired

vars == <<state, steps, hist>>

ModelIds == {"relational", "document", "graph"}
Queries == {"fof", "m2m"}
FofMult == 2
M2mMult == 2
Tech == "tech"

Trace(touched, result, roundTrips) ==
  [steps |-> touched, result |-> result, roundTrips |-> roundTrips]

Concat(seq, Op(_)) == FlattenSeq([i \in DOMAIN seq |-> Op(seq[i])])

-----------------------------------------------------------------------------
(* The three query engines over fixture f.                                 *)

(* The neighbours of u, in the order of the friendships. *)
Adjacency(f, u) ==
  Concat(f.friendships, LAMBDA p : IF p[1] = u THEN <<p[2]>> ELSE IF p[2] = u THEN <<p[1]>> ELSE <<>>)

LikesOf(f, u) == LET mine == SelectSeq(f.likes, LAMBDA l : l[1] = u)
                 IN [i \in DOMAIN mine |-> mine[i][2]]

LikersOf(f, p) == LET rows == SelectSeq(f.likes, LAMBDA l : l[2] = p)
                  IN [i \in DOMAIN rows |-> rows[i][1]]

NotKnown(f, root, u) == u # root /\ u \notin Range(Adjacency(f, root))

GraphFof(f, root) ==
  LET direct == Adjacency(f, root)
      second == Concat(direct, LAMBDA u : [i \in DOMAIN Adjacency(f, u) |-> <<u, Adjacency(f, u)[i]>>])
  IN Trace([i \in DOMAIN direct |-> <<root, direct[i]>>] \o second,
           {hop[2] : hop \in {h \in Range(second) : NotKnown(f, root, h[2])}}, 1)

GraphM2m(f) ==
  LET tech == SelectSeq(f.posts, LAMBDA p : f.category[p] = Tech)
  IN Trace(Concat(tech, LAMBDA p : <<<<p>>>> \o [i \in DOMAIN LikersOf(f, p) |-> <<p, LikersOf(f, p)[i]>>]),
           UNION {Range(LikersOf(f, p)) : p \in Range(tech)}, 1)

DocumentFof(f, root) ==
  LET direct == Adjacency(f, root)
      fof    == {u \in UNION {Range(Adjacency(f, d)) : d \in Range(direct)} : NotKnown(f, root, u)}
      all    == <<<<root>>>> \o [i \in DOMAIN direct |-> <<direct[i]>>]
                  \o [i \in DOMAIN SetToSeq(fof) |-> <<SetToSeq(fof)[i]>>]
  IN Trace(all, fof, Len(all))

DocumentM2m(f) ==
  LET all == Concat(f.users, LAMBDA u : <<<<u>>>> \o [i \in DOMAIN LikesOf(f, u) |-> <<u, LikesOf(f, u)[i]>>])
  IN Trace(all, {u \in Range(f.users) : \E p \in Range(LikesOf(f, u)) : f.category[p] = Tech}, Len(all))

RelationalFof(f, root) ==
  LET rows   == Concat(f.friendships, LAMBDA p : <<p, <<p[2], p[1]>>>>)
      Of(u)  == SelectSeq(rows, LAMBDA r : r[1] = u)
      second == Concat(Of(root), LAMBDA r : Of(r[2]))
      direct == {r[2] : r \in Range(Of(root))}
  IN Trace(Of(root) \o second, {r[2] : r \in Range(second)} \ (direct \cup {root}), 1)

RelationalM2m(f) ==
  Trace(f.likes, {l[1] : l \in {x \in Range(f.likes) : f.category[x[2]] = Tech}}, 1)

ComputeTraces(f, query, root) ==
  IF query = "fof"
  THEN [relational |-> RelationalFof(f, root), document |-> DocumentFof(f, root), graph |-> GraphFof(f, root)]
  ELSE [relational |-> RelationalM2m(f), document |-> DocumentM2m(f), graph |-> GraphM2m(f)]

MigrationCost(f, m, nicknameAdded) ==
  IF nicknameAdded /\ m = "relational" THEN Len(f.users) ELSE 0

-----------------------------------------------------------------------------
(* The stepping.                                                           *)

ZeroCursor == [m \in ModelIds |-> 0]

Init ==
  /\ \E f \in Fixtures :
       state = [fixture |-> f, query |-> "fof", root |-> f.users[1],
                traces |-> ComputeTraces(f, "fof", f.users[1]), cursor |-> ZeroCursor,
                nicknameAdded |-> FALSE, ch |-> [c1 |-> FALSE, c2 |-> FALSE, c3 |-> FALSE]]
  /\ steps = 1
  /\ hist = [commands |-> 0]

AnyRunning(s) == \E m \in ModelIds : s.cursor[m] < Len(s.traces[m].steps)

(* evalQuery: a challenge is met once every model has finished. *)
EvalQuery(s) ==
  LET Trips(m) == s.traces[m].roundTrips
      c1 == s.ch.c1 \/ (s.query = "fof" /\ Trips("document") >= FofMult * Trips("graph"))
      c2 == s.ch.c2 \/ (s.query = "m2m" /\ Trips("document") >= M2mMult * Trips("relational"))
  IN IF AnyRunning(s) THEN s ELSE [s EXCEPT !.ch.c1 = c1, !.ch.c2 = c2]

Stepped(s) ==
  EvalQuery([s EXCEPT !.cursor = [m \in ModelIds |->
    IF @[m] < Len(s.traces[m].steps) THEN @[m] + 1 ELSE @[m]]])

Step ==
  /\ steps > 0
  /\ state' = Stepped(state)
  /\ steps' = steps - 1 + IF AnyRunning(state') THEN 1 ELSE 0
  /\ UNCHANGED hist

Commanded ==
  /\ hist' = [hist EXCEPT !.commands = @ + 1]
  /\ Within(hist')

SetQuery ==
  /\ Commanded
  /\ \E query \in Queries, root \in Range(state.fixture.users) :
       state' = [state EXCEPT !.query = query, !.root = root, !.cursor = ZeroCursor,
                              !.traces = ComputeTraces(state.fixture, query, root),
                              !.ch.c1 = @ /\ query # "fof", !.ch.c2 = @ /\ query = "fof"]
  /\ steps' = steps + 1

AddField ==
  /\ Commanded
  /\ LET Free(m) == MigrationCost(state.fixture, m, TRUE) = 0
     IN state' = [state EXCEPT !.nicknameAdded = TRUE,
                               !.ch.c3 = Free("document") /\ Free("graph") /\ ~Free("relational")]
  /\ UNCHANGED steps

ResetSchema ==
  /\ Commanded
  /\ state' = [state EXCEPT !.nicknameAdded = FALSE]
  /\ UNCHANGED steps

Next == Step \/ SetQuery \/ AddField \/ ResetSchema

Spec == Init /\ [][Next]_vars

-----------------------------------------------------------------------------
(* Properties.                                                             *)

TypeOK == steps \in Nat /\ \A m \in ModelIds : state.cursor[m] \in 0..Len(state.traces[m].steps)

Friends(u, v) == \E p \in Range(state.fixture.friendships) : p \in {<<u, v>>, <<v, u>>}

(* The three engines give one answer, that of the question: those two      *)
(* friendships away and no nearer, or those who like a post on the topic   *)
(* (models-shared.ts:95-183).                                              *)
SameAnswer ==
  LET f == state.fixture
      asked == IF state.query = "fof"
               THEN {u \in Range(f.users) \ {state.root} :
                       /\ ~Friends(state.root, u)
                       /\ \E v \in Range(f.users) : Friends(state.root, v) /\ Friends(v, u)}
               ELSE {u \in Range(f.users) : \E l \in Range(f.likes) : l[1] = u /\ f.category[l[2]] = Tech}
  IN \A m \in ModelIds : state.traces[m].result = asked

(* The animation never stops before every model has its answer, however    *)
(* often the question changes meanwhile (models.ts:98, 108).               *)
KeepsStepping == AnyRunning(state) => steps > 0
=============================================================================
