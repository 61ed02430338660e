----------------------------- MODULE LocalRoute -----------------------------
(***************************************************************************)
(* The desktop application's own route search over the star gates of its   *)
(* static data (desktop-app/internal/evesde/route.go): Dijkstra's search   *)
(* with two orders of cost and an optional security floor.                 *)
(***************************************************************************)
EXTENDS Integers, Sequences, FiniteSets, FiniteSetsExt, Functions, SequencesExt

CONSTANTS Charts,   \* maps: the security of each system, in tenths, and the gates
          Floors    \* security floors asked for

VARIABLES chart, query,   \* the map and the request
          costs, prev,    \* systems reached: cost, and the system before it
          visited,
          found           \* the answer

searchVars == <<chart, query, costs, prev, visited, found>>

Searching == [kind |-> "searching"]
NoPath == [kind |-> "no route"]
Zero == [null |-> 0, low |-> 0, jumps |-> 0]

Stars == DOMAIN chart.security

SearchTypeOK ==
    /\ DOMAIN costs \subseteq Stars /\ visited \subseteq DOMAIN costs
    /\ DOMAIN prev \subseteq DOMAIN costs
    /\ found.kind \in {"searching", "no route", "route"}

Less(a, b, mode) ==
    IF mode = "shortest" \/ (a.null = b.null /\ a.low = b.low) THEN a.jumps < b.jumps
    ELSE a.null < b.null \/ (a.null = b.null /\ a.low < b.low)

EqualPriority(a, b, mode) == IF mode = "safest" THEN a = b ELSE a.jumps = b.jumps

SearchInit ==
    /\ chart \in Charts
    /\ query \in [from : Stars, to : Stars, mode : {"shortest", "safest"}, floor : Floors]
    /\ costs = (query.from :> Zero) /\ prev = << >>
    /\ visited = {} /\ found = Searching

Security(s) == chart.security[s]
Entering(c, s) == [null |-> c.null + (IF Security(s) < 0 THEN 1 ELSE 0),
                   low |-> c.low + (IF Security(s) \in 0..4 THEN 1 ELSE 0),
                   jumps |-> c.jumps + 1]

\* The floor is for the systems that are entered, the origin is always allowed.
Allowed(s) == Security(s) >= query.floor
GatesOf(s) == {n \in Stars : <<s, n>> \in chart.gates /\ Allowed(n)}

\* Of the systems reached and not visited, the cheapest; of equals, the lowest id.
Open == DOMAIN costs \ visited
Next1 == CHOOSE s \in Open : \A t \in Open \ {s} :
            Less(costs[s], costs[t], query.mode)
            \/ (EqualPriority(costs[s], costs[t], query.mode) /\ s < t)

\* A neighbour is reached anew, more cheaply, or as cheaply from a lower id.
Better(n, cur) ==
    LET nc == Entering(costs[cur], n)
    IN  \/ n \notin DOMAIN costs
        \/ Less(nc, costs[n], query.mode)
        \/ EqualPriority(nc, costs[n], query.mode) /\ n \in DOMAIN prev /\ cur < prev[n]

Relaxed(cur) == {n \in GatesOf(cur) : Better(n, cur)}

Visit ==
    /\ found = Searching /\ query.from # query.to
    /\ Open # {} /\ Next1 # query.to
    /\ LET cur == Next1
           R == Relaxed(cur)
       IN  /\ visited' = visited \cup {cur}
           /\ costs' = [s \in DOMAIN costs \cup R |->
                          IF s \in R THEN Entering(costs[cur], s) ELSE costs[s]]
           /\ prev' = [s \in DOMAIN prev \cup R |-> IF s \in R THEN cur ELSE prev[s]]
    /\ UNCHANGED <<chart, query, found>>

\* The way back from the destination.
WayTo(s) ==
    LET back[n \in Nat] == IF n = 0 THEN <<s>>
                           ELSE LET b == back[n - 1]
                                IN  IF Head(b) = query.from THEN b ELSE <<prev[Head(b)]>> \o b
    IN  back[Cardinality(Stars)]

\* summarizeRoute counts the systems entered.
Summary(path) ==
    [kind |-> "route", systems |-> path, jumps |-> Len(path) - 1,
     lowest |-> Min({Security(path[i]) : i \in DOMAIN path}),
     low |-> Cardinality({i \in 2..Len(path) : Security(path[i]) \in 0..4}),
     null |-> Cardinality({i \in 2..Len(path) : Security(path[i]) < 0})]

Finish ==
    /\ found = Searching
    /\ \/ query.from = query.to
       \/ Open = {}
       \/ Open # {} /\ Next1 = query.to
    /\ found' = IF query.to \in DOMAIN costs THEN Summary(WayTo(query.to)) ELSE NoPath
    /\ UNCHANGED <<chart, query, costs, prev, visited>>

SearchNext == Visit \/ Finish

-----------------------------------------------------------------------------
\* Every way from the origin to the destination that enters allowed systems only
\* and none twice.
Ways == {w \in UNION {[1..n -> Stars] : n \in 1..Cardinality(Stars)} :
           /\ w[1] = query.from /\ w[Len(w)] = query.to
           /\ IsInjective(w)
           /\ \A i \in 1..Len(w) - 1 : w[i + 1] \in GatesOf(w[i])}

CostOf(w) ==
    [null |-> Cardinality({i \in 2..Len(w) : Security(w[i]) < 0}),
     low |-> Cardinality({i \in 2..Len(w) : Security(w[i]) \in 0..4}),
     jumps |-> Len(w) - 1]

\* Seen from the destination, w takes the lower id where it and v part.
LowerBack(w, v) ==
    \E k \in 1..Len(w) : /\ k <= Len(v)
                         /\ w[Len(w) + 1 - k] < v[Len(v) + 1 - k]
                         /\ \A j \in 1..k - 1 : w[Len(w) + 1 - j] = v[Len(v) + 1 - j]

\* The search finds a way exactly when there is one, no allowed way is cheaper in
\* the order asked for, and of the equally cheap ones it is the one that the ids
\* choose, read back from the destination (route.go "Equal-cost choices are
\* resolved by ascending system ID").
LocalRoutesAreOptimal ==
    /\ found = NoPath => Ways = {}
    /\ found.kind = "route" =>
         LET w == found.systems
         IN  /\ w \in Ways
             /\ \A v \in Ways : /\ ~Less(CostOf(v), CostOf(w), query.mode)
                                /\ EqualPriority(CostOf(v), CostOf(w), query.mode)
                                     => v = w \/ LowerBack(w, v)
=============================================================================
