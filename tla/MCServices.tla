----------------------------- MODULE MCServices -----------------------------
(***************************************************************************)
(* Small instances of the components that are checked for safety alone and *)
(* share no state: each behaviour runs one of them, named by part, and the *)
(* others keep their initial states.                                       *)
(***************************************************************************)
EXTENDS TradePlanner, LegacyRelay, DesktopOutbox, Documents, PushTokens, SdeIndex, DatabaseSetup,
        PublicData, Login, DesktopSession, RoutePlanner, TLC

CONSTANTS Charts, Floors,
          a1, a2, s1, s2, l1, l2, x2     \* members of Accounts, Subjects, LoginHandlers, Txns

VARIABLES
    part,                                                                   \* which runs
    chart, query, costs, prev, visited, found                               \* LocalRoute

searchVars == <<chart, query, costs, prev, visited, found>>

Local == INSTANCE LocalRoute

-----------------------------------------------------------------------------
(* Trade: offers between three stations, budgets and cargo holds that bind.  *)

Book(p, v, m) == [price |-> p * 100, volume |-> v, minimum |-> m]

Offer(type, from, to, q, volume, asks, bids, net, jumps) ==
    [type |-> type, from |-> from, to |-> to, maxQuantity |-> q, unitVolume |-> volume,
     unitCost |-> 200, unitReturn |-> 400, netPerUnit |-> net, asks |-> asks, bids |-> bids,
     tax |-> 5, broker |-> 1, score |-> 50 + 10 * type, jumps |-> jumps]

Cheap == <<Book(1, 1, 1), Book(2, 2, 1)>>
Lumpy == <<Book(1, 2, 2), Book(2, 2, 1)>>
Dear == <<Book(4, 2, 1), Book(3, 2, 1)>>

Offers == {Offer(1, 1, 2, 3, 1, Cheap, Dear, 100, 1),
           Offer(2, 1, 2, 3, 1, Lumpy, << >>, 90, 1),
           Offer(3, 1, 2, 4, 2, << >>, << >>, 300, 1),
           Offer(1, 1, 3, 2, 1, Cheap, Dear, 80, 2),
           Offer(2, 2, 3, 2, 1, << >>, << >>, 200, 1),
           Offer(1, 3, 1, 2, 1, Cheap, << >>, 150, 1)}

Limits(budget, reserve, cargo, concentration, states, penalty) ==
    [budget |-> budget * 100, reserve |-> reserve * 100, cargo |-> cargo, load |-> 0,
     concentration |-> concentration, stops |-> 0, legs |-> 0, beam |-> 2, items |-> 2,
     states |-> states, jumpPenalty |-> penalty, stopPenalty |-> penalty, transport |-> 5]

SomeLimits == {Limits(6, 1, 3, 0, 0, 0), Limits(8, 0, 4, 25, 0, 10),
               Limits(4, 0, 5, 0, 2, 0), Limits(1, 2, 4, 0, 0, 0)}

SomeRoads == <<[from |-> 1, to |-> 2, jumps |-> 1, safe |-> TRUE],
               [from |-> 2, to |-> 3, jumps |-> 1, safe |-> TRUE],
               [from |-> 1, to |-> 3, jumps |-> 2, safe |-> TRUE],
               [from |-> 3, to |-> 1, jumps |-> 1, safe |-> FALSE]>>

SomeRequests == {[cands |-> SetToSeq(S), routes |-> SomeRoads, c |-> c, start |-> 1] :
                    S \in {T \in SUBSET Offers : Cardinality(T) \in 1..3}, c \in SomeLimits}

SomeQuotes == {[asks |-> a, bids |-> b, quantity |-> q, tax |-> 5, broker |-> 1,
                unitVolume |-> 1, transport |-> 1, daily |-> 1, days |-> 20, cargo |-> 3,
                c |-> 0] :
                  a \in {Cheap, Dear, Lumpy, << >>}, b \in {Cheap, Dear, << >>}, q \in 0..5}

-----------------------------------------------------------------------------
(* Routes: two builds of a map of four systems.  The second closes the way   *)
(* through the unsafe system and opens one past it.                          *)

SomeBuilds ==
    <<[security |-> (1 :> 9 @@ 2 :> 4 @@ 3 :> 8 @@ 4 :> 7),
       links |-> (1 :> {2, 3} @@ 2 :> {4, 1} @@ 3 :> {2})],
      [security |-> (1 :> 9 @@ 2 :> 4 @@ 3 :> 8 @@ 4 :> 7),
       links |-> (1 :> {3} @@ 2 :> {4} @@ 3 :> {2, 4})]>>

SomeRoutes == {[from |-> 1, to |-> 4, security |-> 5, jumps |-> 0],
               [from |-> 1, to |-> 4, security |-> 0, jumps |-> 2],
               [from |-> 0, to |-> 4, security |-> 0, jumps |-> 1]}

\* The desktop's search: every map of four systems, of three securities.
SomeGates == {<<1, 2>>, <<1, 3>>, <<1, 4>>, <<2, 3>>, <<2, 4>>, <<3, 4>>}
SomeCharts ==
    {[security |-> s, gates |-> E \cup {<<p[2], p[1]>> : p \in E}] :
        s \in {t \in [1..4 -> {-5, 3, 8}] : t[1] = 8 /\ t[4] = 3}, E \in SUBSET SomeGates}
SomeFloors == {-10, 5}

\* Two requests of one process; releases of which one has another's migration
\* under a different checksum.
OneServer == "c1" :> 1 @@ "c2" :> 1
Mig(v, c) == [version |-> v, checksum |-> c]
SomeReleases == {{Mig(1, "a"), Mig(3, "a")}, {Mig(1, "a"), Mig(2, "a"), Mig(3, "a")},
                 {Mig(1, "b"), Mig(2, "a")}}

-----------------------------------------------------------------------------
Parts == {"trade", "routes", "relay", "outbox", "public", "documents", "push", "setup", "local",
          "sde", "session", "login"}

\* A part that does not run keeps one of its initial states.
Start(p, S, s) == IF part = p THEN S ELSE {s}

ServicesInit ==
    /\ part \in Parts
    /\ attemptLimit \in Start("outbox", AttemptLimits, 0)
    /\ store \in Start("documents", {"settings", "preferences", "preferences table"}, "settings")
    /\ inTable \in Start("push", BOOLEAN, FALSE)
    /\ durable \in Start("relay", BOOLEAN, TRUE)
    /\ devices \in Start("relay", {<< >>, [d \in {Desktop, Phone} |-> "live"]}, << >>)
    /\ SessionInit /\ (part # "session" => devs = << >>)
    /\ LoginInit /\ (part # "login" => ~echoes /\ ~unverified)
    /\ TradeInit /\ RouteInit /\ RelayInit /\ OutboxInit /\ PublicInit
    /\ DocInit /\ PushInit /\ SetupInit /\ SdeInit
    /\ IF part = "local" THEN Local!SearchInit
       ELSE chart = "none" /\ query = "none" /\ costs = "none" /\ prev = "none"
            /\ visited = "none" /\ found = "none"

Only(p) ==
    /\ part = p /\ UNCHANGED part
    /\ IF p = "trade" THEN TRUE ELSE UNCHANGED tradeVars
    /\ IF p = "routes" THEN TRUE ELSE UNCHANGED routeVars
    /\ IF p = "relay" THEN TRUE ELSE UNCHANGED relayVars
    /\ IF p = "outbox" THEN TRUE ELSE UNCHANGED outboxVars
    /\ IF p = "public" THEN TRUE ELSE UNCHANGED publicVars
    /\ IF p = "documents" THEN TRUE ELSE UNCHANGED docVars
    /\ IF p = "push" THEN TRUE ELSE UNCHANGED pushVars
    /\ IF p = "setup" THEN TRUE ELSE UNCHANGED setupVars
    /\ IF p = "local" THEN TRUE ELSE UNCHANGED searchVars
    /\ IF p = "sde" THEN TRUE ELSE UNCHANGED sdeVars
    /\ IF p = "session" THEN TRUE ELSE UNCHANGED sessionVars
    /\ IF p = "login" THEN TRUE ELSE UNCHANGED loginVars

\* Accounts are made, subjects get identities and idle handlers get requests in
\* one order, of which any other is a renaming.  Two transactions are pending
\* together where the provider echoes the nonce and no challenge is made beside them.
LoginBounds ==
    /\ a2 \in DOMAIN accounts' => a1 \in DOMAIN accounts'
    /\ s2 \in DOMAIN identities' => s1 \in DOMAIN identities'
    /\ flow[l2] = Free /\ flow'[l2] # Free => flow[l1] # Free
    /\ unverified \/ ~echoes \/ challenges' # << >> => x2 \notin DOMAIN records'

ServicesNext ==
    \/ Only("trade") /\ TradeNext
    \/ Only("routes") /\ RouteNext
    \/ Only("relay") /\ RelayNext
    \/ Only("outbox") /\ OutboxNext
    \/ Only("public") /\ PublicNext
    \/ Only("documents") /\ DocNext
    \/ Only("push") /\ PushNext
    \/ Only("setup") /\ SetupNext
    \/ Only("local") /\ Local!SearchNext
    \/ Only("sde") /\ SdeNext
    \/ Only("session") /\ SessionNext
    \/ Only("login") /\ LoginNext /\ LoginBounds

-----------------------------------------------------------------------------
(* The properties of the parts.                                              *)

\* Every plan of the planner can be carried out with the cash and the hold at
\* hand, and its bounded search loses nothing while its bounds do not bite; a
\* route of the desktop's search is the cheapest in the order asked for.
PlansHold ==
    /\ part = "trade" => TradeTypeOK /\ PlansAreExecutable /\ MatchesExhaustiveSearch
    /\ part = "local" => Local!SearchTypeOK /\ Local!LocalRoutesAreOptimal
=============================================================================
