---------------------------------- MODULE Api ----------------------------------
(***************************************************************************)
(* The API-styles lab: one profile page loaded over REST, GraphQL or gRPC, *)
(* src/src/modules/rest.ts, graphql.ts, grpc.ts and api-shared.ts.  The    *)
(* three modules have a client of one shape, so one state machine holds    *)
(* whichever of them the user picked.                                      *)
(***************************************************************************)
EXTENDS Integers, Sequences, SequencesExt, FiniteSetsExt

CONSTANTS
  PostIds,                 \* POST_IDS, the posts of the one user
  Within(_, _), Backlog    \* bounds: see Simulation; hist counts schema changes

VARIABLES state, net, env, hist

INSTANCE Simulation WITH Node <- {"Client", "Server"}, Killable <- {"Client", "Server"}

vars == <<state, net, env, hist>>

NPosts == Len(PostIds)
Bytes == [restUser |-> 220, restPost |-> 160, gqlResult |-> 360, grpcProfile |-> 150]
RequiredTags == {1, 2, 3, 4}
V2AddedTag == 5

Timeout(key) == [kind |-> "timeout", key |-> key]

NewClient == [started |-> FALSE, gotUser |-> FALSE, expected |-> 0, delivered |-> 0, failed |-> 0,
              live |-> {}, bytes |-> 0, roundTrips |-> 0, resolverCalls |-> 0, unknownSkipped |-> 0]

Init ==
  /\ \E style \in {"rest", "graphql", "grpc"} :
       state = [style |-> style, client |-> NewClient, schema |-> "v1"]
  /\ net = NoEvents /\ env = Calm /\ hist = [changes |-> 0]

Client(c) == [state EXCEPT !.client = c]
ToServer(kind, key) == <<"Server", [kind |-> kind, key |-> key]>>
ToClient(m) == Out(state, <<<<"Client", m>>>>, <<>>)

(* The load command: the first request and its timeout. *)
Started(kind, key) ==
  Out(Client([state.client EXCEPT !.started = TRUE, !.roundTrips = 1, !.live = {key}]),
      <<ToServer(kind, key)>>, <<Timeout(key)>>)

-----------------------------------------------------------------------------
(* REST: the user, then a request per post.                                *)

RestServer(from, n, m) ==
  IF m.kind = "getUser" THEN ToClient([kind |-> "user", bytes |-> Bytes.restUser, postIds |-> PostIds])
  ELSE ToClient([kind |-> "post", bytes |-> Bytes.restPost, postId |-> m.key])

OnUser(from, n, m) ==
  LET c == state.client
  IN IF "user" \notin c.live THEN Quiet(state)
     ELSE Out(Client([c EXCEPT !.gotUser = TRUE, !.expected = Len(m.postIds),
                               !.bytes = @ + m.bytes, !.roundTrips = @ + Len(m.postIds),
                               !.live = (@ \ {"user"}) \cup Range(m.postIds)]),
              [i \in DOMAIN m.postIds |-> ToServer("getPost", m.postIds[i])],
              [i \in DOMAIN m.postIds |-> Timeout(m.postIds[i])])

OnPost(from, n, m) ==
  LET c == state.client
  IN IF m.postId \notin c.live THEN Quiet(state)
     ELSE Quiet(Client([c EXCEPT !.delivered = @ + 1, !.bytes = @ + m.bytes,
                                 !.live = @ \ {m.postId}]))

(* A timeout does not look whether its request was answered. *)
RestTimeoutAnyway(n, t) ==
  LET c == state.client
  IN Quiet(Client([c EXCEPT !.live = @ \ {t.key},
                            !.failed = IF t.key = "user" THEN @ ELSE @ + 1]))

RestTimeout(n, t) ==
  LET c == state.client
  IN IF t.key \notin c.live THEN Quiet(state)
     ELSE Quiet(Client([c EXCEPT !.live = @ \ {t.key},
                                 !.failed = IF t.key = "user" THEN @ ELSE @ + 1]))

Settled(c) == c.started /\ c.live = {}
RestPartial(c) == Settled(c) /\ c.gotUser /\ c.delivered < c.expected

-----------------------------------------------------------------------------
(* GraphQL: one query, resolved post by post on the server.                *)

GqlServer(from, n, m) ==
  ToClient([kind |-> "result", postIds |-> PostIds, resolverCalls |-> 1 + NPosts,
            bytes |-> Bytes.gqlResult])

(* The whole page in one answer. *)
Assembled(c, m) ==
  [c EXCEPT !.live = {}, !.delivered = Len(m.postIds), !.expected = Len(m.postIds), !.bytes = @ + m.bytes]

OnResult(from, n, m) ==
  IF "q" \notin state.client.live THEN Quiet(state)
  ELSE Quiet(Client([Assembled(state.client, m) EXCEPT !.resolverCalls = m.resolverCalls]))

GqlTimeout(n, t) ==
  IF t.key \notin state.client.live THEN Quiet(state)
  ELSE Quiet(Client([state.client EXCEPT !.live = {}, !.failed = 1]))

GqlAllOrNothing(c) == Settled(c) /\ c.failed = 1 /\ c.delivered = 0

-----------------------------------------------------------------------------
(* gRPC: one call; the schema may change between the request and the       *)
(* answer.                                                                 *)

GrpcServer(from, n, m) ==
  LET v2 == state.schema = "v2"
  IN ToClient([kind |-> "profile", postIds |-> PostIds,
               tags |-> IF v2 THEN RequiredTags \cup {V2AddedTag} ELSE RequiredTags,
               bytes |-> Bytes.grpcProfile + IF v2 THEN 20 ELSE 0])

OnProfile(from, n, m) ==
  LET c == [state.client EXCEPT !.unknownSkipped = @ + Cardinality(m.tags \ RequiredTags)]
  IN IF "rpc" \notin c.live THEN Quiet(state)
     ELSE IF \E t \in RequiredTags : t \notin m.tags
       THEN Quiet(Client([c EXCEPT !.live = {}, !.failed = 1, !.bytes = @ + m.bytes]))
       ELSE Quiet(Client(Assembled(c, m)))

GrpcTimeout(n, t) ==
  IF t.key \notin state.client.live THEN Quiet(state)
  ELSE Quiet(Client([state.client EXCEPT !.live = {}, !.failed = 1]))

GrpcEvolution(c) ==
  Settled(c) /\ c.failed = 0 /\ c.delivered = c.expected /\ c.expected > 0 /\ c.unknownSkipped >= 1

SetSchema ==
  \E version \in {"v1", "v2"} \ {state.schema} :
    /\ state.style = "grpc"
    /\ hist' = [hist EXCEPT !.changes = @ + 1] /\ Within(env, hist')
    /\ External("Server", Quiet([state EXCEPT !.schema = version]))

-----------------------------------------------------------------------------
Load ==
  /\ ~state.client.started
  /\ External("Client", CASE state.style = "rest"    -> Started("getUser", "user")
                          [] state.style = "graphql" -> Started("query", "q")
                          [] state.style = "grpc"    -> Started("getProfile", "rpc"))
  /\ UNCHANGED hist

Answer ==
  /\ \/ Receive("getUser", RestServer)
     \/ Receive("getPost", RestServer)
     \/ Receive("query", GqlServer)
     \/ Receive("getProfile", GrpcServer)
  /\ UNCHANGED hist

Answered ==
  /\ \/ Receive("user", OnUser)
     \/ Receive("post", OnPost)
     \/ Receive("result", OnResult)
     \/ Receive("profile", OnProfile)
  /\ UNCHANGED hist

TimesOut ==
  /\ \/ state.style = "rest" /\ Fire("timeout", RestTimeout)
     \/ state.style = "graphql" /\ Fire("timeout", GqlTimeout)
     \/ state.style = "grpc" /\ Fire("timeout", GrpcTimeout)
  /\ UNCHANGED hist

Next == Load \/ SetSchema \/ Answer \/ Answered \/ TimesOut \/ Fault

Spec == Init /\ [][Next]_vars

-----------------------------------------------------------------------------
(* Properties.                                                             *)

TypeOK ==
  LET c == state.client
  IN /\ c.live \subseteq {"user", "q", "rpc"} \cup Range(PostIds)
     /\ {c.expected, c.delivered} \subseteq 0..NPosts /\ c.failed \in 0..NPosts
     /\ state.schema \in {"v1", "v2"}

(* Every post a REST page asked for is delivered, failed or awaited, once, *)
(* and its bytes count once, however its answer and its timeout race       *)
(* (rest.ts:60, 74, 81).                                                   *)
EachPostOnce ==
  LET c == state.client
  IN state.style = "rest" /\ c.gotUser =>
       /\ c.delivered + c.failed + Cardinality(c.live) = c.expected
       /\ c.bytes = Bytes.restUser + c.delivered * Bytes.restPost
       /\ RestPartial(c) <=> c.live = {} /\ c.failed > 0

(* A page of one request fails or comes whole, and its answer counts once; *)
(* with the tag of a newer schema it is still whole (graphql.ts:51-62;     *)
(* grpc.ts:59-75).                                                         *)
AllOrNothing ==
  LET c == state.client
  IN state.style # "rest" /\ Settled(c) =>
       /\ GqlAllOrNothing(c) <=> c.delivered # NPosts
       /\ c.bytes = 0 <=> c.failed = 1
       /\ GrpcEvolution(c) => c.bytes = Bytes.grpcProfile + 20

(* A client that was never killed does not wait for ever: each request it  *)
(* waits on has a timeout to come (api-shared.ts:14).                      *)
WaitIsTimed ==
  env.falls["Client"] = 0 =>
    \A key \in state.client.live : <<"Client", Timeout(key)>> \in DOMAIN net.timers
=============================================================================
