---------------------------- MODULE RoutePlanner ----------------------------
(***************************************************************************)
(* The route planner of the relay server (internal/routeplanner): callers  *)
(* of Route share one graph, loaded when the active build changes, and a   *)
(* cache of answers kept for a time.  A search visits one system in a step *)
(* and looks at its caller's context before each.                          *)
(***************************************************************************)
EXTENDS Integers, Sequences, FiniteSets, Functions

CONSTANTS RouteCallers, \* concurrent requests
          NoCaller,     \* not a caller
          Builds,       \* the builds of the map: systems (security) and links
          Routes,       \* the queries: from, to, security, jumps
          MaxEntries,   \* entries of the cache, 4096 in the code
          MaxJumps      \* the longest route, 256 in the code

VARIABLES activeBuild, \* the active build, an index of Builds
          graph,       \* the build the planner holds, 0 for none
          loadMu,      \* the caller inside loadMu, if any
          routeCache,  \* answers by key, and whether they have expired
          routeCall,   \* each caller's progress
          leaving      \* callers whose context has ended

routeVars == <<activeBuild, graph, loadMu, routeCache, routeCall, leaving>>

NoRoute == [status |-> "no_route"]
RouteFailed == [status |-> "error"]
InvalidQuery == [status |-> "invalid"]

NoCall == [pc |-> "idle"]

ValidQuery(q) == q.from > 0 /\ q.to > 0 /\ q.security \in -10..10 /\ q.jumps \in 0..MaxJumps

\* No limit asked for is the longest route.
NormalizedQuery(q) == [q EXCEPT !.jumps = IF @ = 0 THEN MaxJumps ELSE @]

Systems(v) == DOMAIN Builds[v].security
Passable(v, q, n) == n \in Systems(v) /\ Builds[v].security[n] >= q.security
Neighbors(v, n) == IF n \in DOMAIN Builds[v].links THEN Builds[v].links[n] ELSE {}

ASSUME RouteAssumption ==
    /\ NoCaller \notin RouteCallers
    /\ Len(Builds) \in Nat \ {0} /\ DOMAIN Builds = 1..Len(Builds)
    /\ \A v \in DOMAIN Builds : \A n \in Systems(v) : IsFiniteSet(Neighbors(v, n))
    /\ Routes \subseteq [from : Int, to : Int, security : Int, jumps : Int]
    /\ MaxEntries \in Nat \ {0} /\ MaxJumps \in Nat \ {0}

-----------------------------------------------------------------------------
(* The breadth-first search. *)

LowestSecurity(S) == CHOOSE x \in S : \A y \in S : x <= y

\* The answer along a path.
Ready(v, path) ==
    [status |-> "ready", version |-> v, jumps |-> Len(path) - 1, systems |-> path,
     security |-> LowestSecurity({Builds[v].security[path[i]] : i \in DOMAIN path})]

SearchFrom(n) == [queue |-> <<n>>, prev |-> << >>, depth |-> [m \in {n} |-> 0]]

Met(s) == DOMAIN s.depth

\* The systems next to the first of the queue that the search has not met and may
\* pass, unless it is as deep as allowed.
Unmet(v, q, s) ==
    {m \in Neighbors(v, Head(s.queue)) :
        s.depth[Head(s.queue)] < q.jumps /\ m \notin Met(s) /\ Passable(v, q, m)}

\* The first of the queue has been expanded: the systems of new, in their order,
\* are met from it and join the queue.
Expanded(s, new) ==
    [queue |-> Tail(s.queue) \o new,
     prev  |-> [m \in DOMAIN s.prev \cup Range(new) |->
                  IF m \in DOMAIN s.prev THEN s.prev[m] ELSE Head(s.queue)],
     depth |-> [m \in Met(s) \cup Range(new) |->
                  IF m \in Met(s) THEN s.depth[m] ELSE s.depth[Head(s.queue)] + 1]]

\* The systems from n back, each that from which the one before was met.
Back(s, n) ==
    LET back[k \in 0..s.depth[n]] == IF k = 0 THEN n ELSE s.prev[back[k - 1]]
    IN  back

PathTo(s, n) == [i \in 1..(s.depth[n] + 1) |-> Back(s, n)[s.depth[n] + 1 - i]]

-----------------------------------------------------------------------------
RouteInit ==
    /\ activeBuild = 1 /\ graph = 0 /\ loadMu = NoCaller /\ routeCache = << >>
    /\ routeCall = [c \in RouteCallers |-> NoCall]
    /\ leaving = {}

CallAt(c, pc) == routeCall[c].pc = pc

SetCall(c, r) == routeCall' = [routeCall EXCEPT ![c] = r]

\* The caller goes on with the build it has read.
Proceed(c, pc) ==
    SetCall(c, [pc |-> pc, query |-> routeCall[c].query, asked |-> routeCall[c].asked,
                version |-> routeCall[c].version])

SearchOn(c, s) ==
    SetCall(c, [pc |-> "search", query |-> routeCall[c].query, asked |-> routeCall[c].asked,
                version |-> routeCall[c].version, search |-> s])

\* The search is over with this result.
Result(c, a) ==
    SetCall(c, [pc |-> "store", query |-> routeCall[c].query, asked |-> routeCall[c].asked,
                version |-> routeCall[c].version, found |-> a])

AnswerRoute(c, a) ==
    SetCall(c, [pc |-> "done", query |-> routeCall[c].query, asked |-> routeCall[c].asked,
                answer |-> a])

\* Mutant: the key has the build of the graph, not that of the answer.
GraphKey(c) == [version |-> graph, query |-> routeCall[c].query]

\* The key of an answer: the build and the normalised query.
RouteKey(c) == [version |-> routeCall[c].version, query |-> routeCall[c].query]

\* Route: the query is checked, then the active build is read from the database.
AskRoute(c) ==
    /\ CallAt(c, "idle")
    /\ \E q \in Routes :
          SetCall(c, IF ValidQuery(q)
                     THEN [pc |-> "version", query |-> NormalizedQuery(q), asked |-> activeBuild]
                     ELSE [pc |-> "done", query |-> q, asked |-> activeBuild,
                           answer |-> InvalidQuery])
    /\ UNCHANGED <<activeBuild, graph, loadMu, routeCache, leaving>>

\* ActiveVersion, then the graph in memory when it is of that build.
ReadVersion(c) ==
    /\ CallAt(c, "version")
    /\ SetCall(c, [pc |-> IF graph = activeBuild THEN "lookup" ELSE "load",
                   query |-> routeCall[c].query, asked |-> routeCall[c].asked,
                   version |-> activeBuild])
    /\ UNCHANGED <<activeBuild, graph, loadMu, routeCache, leaving>>

\* loadMu is taken and the graph looked at once more.
LockLoad(c) ==
    /\ CallAt(c, "load") /\ loadMu = NoCaller
    /\ IF graph = routeCall[c].version
       THEN Proceed(c, "lookup") /\ UNCHANGED loadMu
       ELSE Proceed(c, "loading") /\ loadMu' = c
    /\ UNCHANGED <<activeBuild, graph, routeCache, leaving>>

\* The build is loaded in the graph's place and every answer is forgotten.
LoadGraph(c) ==
    /\ CallAt(c, "loading")
    /\ graph' = routeCall[c].version
    /\ routeCache' = << >>
    /\ loadMu' = NoCaller
    /\ Proceed(c, "lookup")
    /\ UNCHANGED <<activeBuild, leaving>>

\* The loader failed or its context ended: the error is the answer.
LoadFails(c) ==
    /\ CallAt(c, "version") \/ CallAt(c, "loading")
    /\ loadMu' = IF loadMu = c THEN NoCaller ELSE loadMu
    /\ AnswerRoute(c, RouteFailed)
    /\ UNCHANGED <<activeBuild, graph, routeCache, leaving>>

\* A cached answer that has not expired is returned; otherwise a search begins.
LookupRoute(c) ==
    /\ CallAt(c, "lookup")
    /\ LET v == routeCall[c].version
           q == routeCall[c].query
       IN  IF RouteKey(c) \in DOMAIN routeCache /\ ~routeCache[RouteKey(c)].expired
           THEN AnswerRoute(c, routeCache[RouteKey(c)].answer)
           ELSE IF ~Passable(v, q, q.from) \/ q.to \notin Systems(v) THEN Result(c, NoRoute)
           ELSE IF q.from = q.to THEN Result(c, Ready(v, <<q.from>>))
           ELSE SearchOn(c, SearchFrom(q.from))
    /\ UNCHANGED <<activeBuild, graph, loadMu, routeCache, leaving>>

\* One turn of the search: the first system of the queue is expanded; reaching the
\* destination ends the search.  The loader sorts the links by ID; here any order of
\* them will do.
SearchRoute(c) ==
    /\ CallAt(c, "search") /\ routeCall[c].search.queue # << >> /\ c \notin leaving
    /\ LET v == routeCall[c].version
           q == routeCall[c].query
           s == routeCall[c].search
           unmet == Unmet(v, q, s)
       IN  \E new \in Bijection(1..Cardinality(unmet), unmet) :
              IF q.to \in unmet THEN Result(c, Ready(v, PathTo(Expanded(s, new), q.to)))
              ELSE SearchOn(c, Expanded(s, new))
    /\ UNCHANGED <<activeBuild, graph, loadMu, routeCache, leaving>>

\* The queue is empty, or the context has ended.
SearchEnds(c) ==
    /\ CallAt(c, "search")
    /\ \/ routeCall[c].search.queue = << >> /\ Result(c, NoRoute)
       \/ routeCall[c].search.queue # << >> /\ c \in leaving /\ Result(c, RouteFailed)
    /\ UNCHANGED <<activeBuild, graph, loadMu, routeCache, leaving>>

\* The entries a full cache keeps: those that have not expired, or if that is not
\* enough, all of these but one.
Kept ==
    LET current == {k \in DOMAIN routeCache : ~routeCache[k].expired}
        full(S) == Cardinality(S) >= MaxEntries
    IN  IF ~full(DOMAIN routeCache) THEN {DOMAIN routeCache}
        ELSE IF ~full(current) THEN {current}
        ELSE {current \ {k} : k \in current}

\* The result, whatever it is, is cached and returned.
StoreRoute(c) ==
    /\ CallAt(c, "store")
    /\ LET entry == [answer |-> routeCall[c].found, expired |-> FALSE]
       IN  \E S \in Kept :
              routeCache' = [k \in S \cup {RouteKey(c)} |->
                               IF k = RouteKey(c) THEN entry ELSE routeCache[k]]
    /\ AnswerRoute(c, routeCall[c].found)
    /\ UNCHANGED <<activeBuild, graph, loadMu, leaving>>

\* The caller's context ends, as when its client goes away.
LeaveRoute(c) ==
    /\ routeCall[c].pc \notin {"idle", "done"}
    /\ leaving' = leaving \cup {c}
    /\ UNCHANGED <<activeBuild, graph, loadMu, routeCache, routeCall>>

\* The next request takes the caller's place.
ReturnRoute(c) ==
    /\ CallAt(c, "done")
    /\ SetCall(c, NoCall)
    /\ leaving' = leaving \ {c}
    /\ UNCHANGED <<activeBuild, graph, loadMu, routeCache>>

\* The time an answer is kept has passed.
ExpireAnswer ==
    /\ \E k \in DOMAIN routeCache :
          /\ ~routeCache[k].expired
          /\ routeCache' = [routeCache EXCEPT ![k] = [answer |-> @.answer, expired |-> TRUE]]
    /\ UNCHANGED <<activeBuild, graph, loadMu, routeCall, leaving>>

\* The import activates the next build.
NewBuild ==
    /\ activeBuild < Len(Builds)
    /\ activeBuild' = activeBuild + 1
    /\ UNCHANGED <<graph, loadMu, routeCache, routeCall, leaving>>

RouteNext ==
    \/ ExpireAnswer \/ NewBuild
    \/ \E c \in RouteCallers :
          \/ AskRoute(c) \/ ReadVersion(c) \/ LockLoad(c) \/ LoadGraph(c) \/ LoadFails(c)
          \/ LookupRoute(c) \/ SearchRoute(c) \/ SearchEnds(c) \/ StoreRoute(c)
          \/ LeaveRoute(c) \/ ReturnRoute(c)

RouteSpec == RouteInit /\ [][RouteNext]_routeVars

-----------------------------------------------------------------------------
(* What a caller may rely on. *)

RouteTypeOK ==
    /\ activeBuild \in DOMAIN Builds
    /\ graph \in 0..Len(Builds)
    /\ loadMu \in RouteCallers \cup {NoCaller}
    /\ \A k \in DOMAIN routeCache : k.version \in DOMAIN Builds /\ routeCache[k].expired \in BOOLEAN
    /\ Cardinality(DOMAIN routeCache) <= MaxEntries
    /\ DOMAIN routeCall = RouteCallers /\ leaving \subseteq RouteCallers

\* The ways of k jumps through a build: passable systems, each linked from the one
\* before.
WaysOf(v, q, k) ==
    {w \in [0..k -> Systems(v)] : /\ w[0] = q.from /\ w[k] = q.to
                                  /\ \A i \in 0..k : Passable(v, q, w[i])
                                  /\ \A i \in 1..k : w[i] \in Neighbors(v, w[i - 1])}

\* A route is a shortest one of the build within the limits; "no route" says that
\* there is none.
RightAnswer(v, q, a) ==
    /\ a.status = "ready" =>
         /\ a.version = v /\ a.jumps \in 0..q.jumps /\ Len(a.systems) = a.jumps + 1
         /\ [i \in 0..a.jumps |-> a.systems[i + 1]] \in WaysOf(v, q, a.jumps)
         /\ \A k \in 0..(a.jumps - 1) : WaysOf(v, q, k) = {}
    /\ a.status = "no_route" => \A k \in 0..q.jumps : WaysOf(v, q, k) = {}

\* Every variable has its type, the cache does not outgrow its bound, and whatever
\* was cached, loaded or cancelled around it, an answer is the right one of a build
\* that was active while its caller waited.
RoutesAreShortest ==
    /\ RouteTypeOK
    /\ \A c \in RouteCallers : CallAt(c, "done") =>
         \E v \in routeCall[c].asked..activeBuild :
            RightAnswer(v, routeCall[c].query, routeCall[c].answer)
=============================================================================
