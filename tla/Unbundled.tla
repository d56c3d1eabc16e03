----------------------------- MODULE Unbundled ------------------------------
(***************************************************************************)
(* The unbundled database of chapter 12, src/src/modules/unbundled.ts: one *)
(* log, and three views that follow it, each at its own pace.  A title is  *)
(* the set of its terms.                                                   *)
(***************************************************************************)
EXTENDS Integers, Sequences, FiniteSets

CONSTANTS
  Key, Term, Category,
  Seed,           \* the records the log starts with
  Within(_)       \* bound: hist counts the writes and the other commands, and
                  \* what the tally counted again

VARIABLES state, hist

vars == <<state, hist>>

ViewId == {"search", "cache", "analytics"}
Record == [key : Key, title : SUBSET Term, category : Category]
Nothing == [key |-> "none", title |-> {}, category |-> "none"]

(* The contents a view starts with: search has the index, by term, and the *)
(* terms each key occupies; cache the last value; analytics a tally.       *)
FreshContent(view) ==
  CASE view = "search" -> [index |-> [t \in Term |-> {}], keyTerms |-> [k \in Key |-> {}]]
    [] view = "cache" -> [k \in Key |-> Nothing]
    [] view = "analytics" -> [c \in Category |-> 0]

Fresh(view) == [offset |-> 0, paused |-> FALSE, dedup |-> FALSE, wipes |-> 0,
                content |-> FreshContent(view)]

(* The terms a key had stay in the index. *)
ApplyContentAdding(view, content, r) ==
  CASE view = "search" ->
         [index |-> [t \in Term |-> IF t \in r.title THEN content.index[t] \cup {r.key} ELSE content.index[t]],
          keyTerms |-> [content.keyTerms EXCEPT ![r.key] = r.title]]
    [] view = "cache" -> [content EXCEPT ![r.key] = r]
    [] view = "analytics" -> [content EXCEPT ![r.category] = @ + 1]

(* One record.  A key is taken out of the terms of its last value first.   *)
ApplyContent(view, content, r) ==
  CASE view = "search" ->
         [index |-> [t \in Term |->
            LET others == IF t \in content.keyTerms[r.key] THEN content.index[t] \ {r.key}
                          ELSE content.index[t]
            IN IF t \in r.title THEN others \cup {r.key} ELSE others],
          keyTerms |-> [content.keyTerms EXCEPT ![r.key] = r.title]]
    [] view = "cache" -> [content EXCEPT ![r.key] = r]
    [] view = "analytics" -> [content EXCEPT ![r.category] = @ + 1]

(* A view that leaves the last record of the log. *)
AdvancedShort(s, view) ==
  LET v == s[view] IN
  IF v.paused \/ v.offset >= Len(s.log) - 1 THEN s
  ELSE [s EXCEPT ![view] = [v EXCEPT !.content = ApplyContent(view, v.content, s.log[v.offset + 1]),
                                     !.offset = @ + 1]]

(* A step of a view: nothing when it is paused or has all of the log.      *)
Advanced(s, view) ==
  LET v == s[view] IN
  IF v.paused \/ v.offset >= Len(s.log) THEN s
  ELSE [s EXCEPT ![view] = [v EXCEPT !.content = ApplyContent(view, v.content, s.log[v.offset + 1]),
                                     !.offset = @ + 1]]

(* Every view starts with the seed: it advances while it is behind the log. *)
Empty == [log |-> Seed, search |-> Fresh("search"), cache |-> Fresh("cache"),
          analytics |-> Fresh("analytics")]
Advances(view) ==
  LET run[k \in Nat] == IF k = 0 THEN Empty ELSE Advanced(run[k - 1], view) IN run
CaughtUp(view) == Advances(view)[Len(Seed)][view]

Init ==
  /\ state = [log |-> Seed, search |-> CaughtUp("search"), cache |-> CaughtUp("cache"),
              analytics |-> CaughtUp("analytics")]
  /\ hist = [writes |-> 0, commands |-> 0, again |-> [c \in Category |-> 0]]

(* The timer of a view, which is always set again. *)
Advance(view) ==
  /\ state' = Advanced(state, view)
  /\ UNCHANGED hist

Write ==
  \E r \in Record :
    /\ state' = [state EXCEPT !.log = Append(@, r)]
    /\ hist' = [hist EXCEPT !.writes = @ + 1] /\ Within(hist')

Command(hist1) == hist' = [hist1 EXCEPT !.commands = @ + 1] /\ Within(hist')

Pause(view)  == Command(hist) /\ state' = [state EXCEPT ![view].paused = TRUE]
Resume(view) == Command(hist) /\ state' = [state EXCEPT ![view].paused = FALSE]
ToggleDedup(view) == Command(hist) /\ state' = [state EXCEPT ![view].dedup = ~@]

(* The offset is kept. *)
WipedButOffset(v, view) ==
  [Fresh(view) EXCEPT !.dedup = v.dedup, !.wipes = v.wipes + 1, !.offset = v.offset]

Wiped(v, view) == [Fresh(view) EXCEPT !.dedup = v.dedup, !.wipes = v.wipes + 1]

Wipe(view) ==
  /\ Command(IF view = "analytics" THEN [hist EXCEPT !.again = [c \in Category |-> 0]] ELSE hist)
  /\ state' = [state EXCEPT ![view] = Wiped(@, view)]

(* A crash and retry: the last record again, unless the view tells copies. *)
Redeliver(view) ==
  LET v == state[view]
      skip == v.offset = 0 \/ v.dedup
      r == state.log[v.offset]
  IN /\ state' = IF skip THEN state
                 ELSE [state EXCEPT ![view].content = ApplyContent(view, @, r)]
     /\ Command(IF skip \/ view # "analytics" THEN hist
                ELSE [hist EXCEPT !.again[r.category] = @ + 1])

Next ==
  \/ Write
  \/ \E view \in ViewId :
       \/ Advance(view) \/ Pause(view) \/ Resume(view) \/ ToggleDedup(view)
       \/ Wipe(view) \/ Redeliver(view)

Spec == Init /\ [][Next]_vars /\ \A view \in ViewId : WF_vars(Advance(view))

-----------------------------------------------------------------------------
(* Properties.                                                             *)

TypeOK ==
  /\ \A view \in ViewId : state[view].offset \in 0..Len(state.log)
  /\ \A i \in DOMAIN state.log : state.log[i] \in Record

(* deriveSearch, deriveCache and deriveAnalytics: what a view of a prefix  *)
(* of the log should have, from the log alone.                             *)
Latest(log, k) ==
  LET at == {i \in DOMAIN log : log[i].key = k}
  IN IF at = {} THEN Nothing ELSE log[CHOOSE i \in at : \A j \in at : j <= i]

DeriveSearch(log) ==
  [t \in Term |-> {k \in Key : Latest(log, k) # Nothing /\ t \in Latest(log, k).title}]

DeriveAnalytics(log) ==
  [c \in Category |-> Cardinality({i \in DOMAIN log : log[i].category = c})]

(* Every view has what its offset says, derived anew: pauses, wipes in the *)
(* middle of a rebuild, retries and toggles leave no trace - but in the    *)
(* tally, which counts every record a retry applied again since the last   *)
(* wipe (unbundled.ts:78-136).                                             *)
ViewsDerived ==
  LET Read(view) == SubSeq(state.log, 1, state[view].offset)
  IN /\ state.search.content.index = DeriveSearch(Read("search"))
     /\ state.cache.content = [k \in Key |-> Latest(Read("cache"), k)]
     /\ \A c \in Category :
          state.analytics.content[c] = DeriveAnalytics(Read("analytics"))[c] + hist.again[c]

(* A view that is not paused for ever catches up with a log that is no     *)
(* longer written to (unbundled.ts:162).                                   *)
CatchesUp ==
  \A view \in ViewId :
    <>[](~state[view].paused) => <>[](state[view].offset = Len(state.log))
=============================================================================
