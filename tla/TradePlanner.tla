---------------------------- MODULE TradePlanner ----------------------------
(***************************************************************************)
(* One request to the trade planner (internal/trade, served by             *)
(* internal/api/trade_planner.go and by the market planning engine): whole *)
(* loads per station pair, a pickup-and-delivery chain, a multi-leg plan,  *)
(* or the evaluation of one item between two stations.  The two searches   *)
(* advance one level of their beam in a step.                              *)
(***************************************************************************)
EXTENDS TradePacking

CONSTANTS Requests,    \* the requests: cands, routes, c, start
          Quotes,      \* the evaluations: asks, bids, quantity, tax, broker, ...
          MaxChainJumps,    \* longest chain considered, 256 in the code
          MinProfit    \* least profit of an eligible trade, 50 000 000 ISK in the code

VARIABLES kind,        \* what was asked
          request,     \* its input
          depth,       \* levels of the beam expanded
          beam,        \* the states to expand next
          completed,   \* every state that is a plan
          answer,      \* what the caller gets
          status       \* "running", "done", "rejected", "cancelled"

tradeVars == <<kind, request, depth, beam, completed, answer, status>>

-----------------------------------------------------------------------------
(* SimulatePickupDelivery. *)

Unload(lots, station) == SelectSeq(lots, LAMBDA l : l.to = station)
Keep(lots, station) == SelectSeq(lots, LAMBDA l : l.to # station)

LotCapital(lots) == FoldLeft(LAMBDA n, l : n + l.item.capital, 0, lots)
LotVolume(lots) == FoldLeft(LAMBDA n, l : n + l.item.volume, 0, lots)
LotProfit(lots) == FoldLeft(LAMBDA n, l : n + l.item.net, 0, lots)

\* The destination of a lot is that of the first eligible candidate of its type.
LotOf(it, eligible, station) ==
    LET first == CHOOSE k \in DOMAIN eligible :
                    /\ eligible[k].type = it.type
                    /\ \A j \in 1..(k - 1) : eligible[j].type # it.type
    IN  [item |-> it, from |-> station, to |-> eligible[first].to]

\* What is loaded at a station with this cash and what is kept on board.
LoadsAt(station, eligible, cash, kept, c) ==
    LET lots(items) == [k \in DOMAIN items |-> LotOf(items[k], eligible, station)]
    IN  lots(PackCandidates(eligible, [c EXCEPT !.budget = cash, !.reserve = 0,
                                                !.cargo = c.cargo - LotVolume(kept)]))

\* One station of the chain: sell what is committed to it, then load what the
\* cash and the hold that are left allow.
Visit(p, station, cands, c) ==
    LET eligible == SelectSeq(cands, LAMBDA x : x.from = station /\ x.to # station)
        leave(sold, kept, cash, loads) ==
            [p EXCEPT !.cash = cash - LotCapital(loads),
                      !.inventory = kept \o loads,
                      !.stops = Append(@, [station |-> station, loads |-> loads,
                                           unloads |-> sold,
                                           cashAfter |-> cash - LotCapital(loads),
                                           cargoAfter |-> LotVolume(kept \o loads)]),
                      !.profit = @ + LotProfit(sold),
                      !.capital = @ + LotCapital(loads),
                      !.volume = Max({@, LotVolume(kept \o loads)}),
                      !.ok = /\ @ /\ cash >= LotCapital(loads)
                             /\ LotVolume(kept \o loads) <= c.cargo]
        load(sold, kept, cash) ==
            leave(sold, kept, cash, LoadsAt(station, eligible, cash, kept, c))
        sell(sold, kept) == load(sold, kept, p.cash + LotCapital(sold) + LotProfit(sold))
    IN  sell(Unload(p.inventory, station), Keep(p.inventory, station))

SimulatePickupDelivery(visits, cands, c) ==
    FoldLeft(LAMBDA p, station : Visit(p, station, cands, c),
             [cash |-> c.budget - c.reserve, inventory |-> << >>, stops |-> << >>,
              profit |-> 0, capital |-> 0, volume |-> 0, ok |-> TRUE],
             visits)

-----------------------------------------------------------------------------
(* The levels of the two beam searches. *)

At(s) == s.visits[Len(s.visits)]

\* The routes the search may follow from a state: safe ones to a new station.
Onward(s) ==
    SelectSeq(request.routes, LAMBDA r :
        /\ r.from = At(s) /\ r.to # At(s) /\ r.safe
        /\ \A k \in DOMAIN s.visits : s.visits[k] # r.to)

\* Every state of the beam followed by every child of it, in the code's order.
Children(child(_, _), keep(_)) ==
    FoldLeft(LAMBDA all, s :
                 LET routes == Onward(s)
                 IN  all \o SelectSeq([k \in DOMAIN routes |-> child(s, routes[k])], keep),
             << >>, beam)

ChainChild(s, r) ==
    LET child(visits, plan, jumps) ==
            [visits |-> visits, plan |-> plan, jumps |-> jumps,
             utility |-> plan.profit - jumps * request.c.jumpPenalty
                           - (Len(visits) - 1) * request.c.stopPenalty]
        visits == Append(s.visits, r.to)
    IN  child(visits, SimulatePickupDelivery(visits, request.cands, request.c),
              s.jumps + r.jumps)

BetterChain(s, t) ==
    \/ s.utility > t.utility
    \/ s.utility = t.utility /\ KeyBefore(s.visits, t.visits)

\* One leg: the load of one route, its penalties taken from the profit.
LegChild(s, r) ==
    LET eligible == SelectSeq(request.cands, LAMBDA x : x.from = r.from /\ x.to = r.to)
        weighted(items) == FoldLeft(LAMBDA n, it : n + it.score * it.capital, 0, items)
        net(items) == Profit(items) - Volume(items) * request.c.transport
                        - r.jumps * request.c.jumpPenalty - request.c.stopPenalty
        child(items) ==
            [visits |-> Append(s.visits, r.to),
             legs |-> Append(s.legs, [from |-> r.from, to |-> r.to,
                                      items |-> items, net |-> net(items)]),
             profit |-> s.profit + net(items),
             score |-> s.score + (IF items = << >> THEN 0
                                  ELSE weighted(items) \div Capital(items))]
    IN  child(PackCandidates(eligible, [request.c EXCEPT !.budget = @ + s.profit]))

BetterLegs(s, t) ==
    \/ s.score > t.score
    \/ s.score = t.score /\ s.profit > t.profit
    \/ s.score = t.score /\ s.profit = t.profit /\ KeyBefore(s.visits, t.visits)

LastLeg(s) == s.legs[Len(s.legs)]

-----------------------------------------------------------------------------
(* Evaluate: one item between two stations. *)

\* vwap: the units the levels fill and their total price; a level whose minimum
\* is above what is still wanted is passed over.
Filled(levels, q) ==
    LET take(acc, l) ==
            LET n == Least(l.volume, q - acc.units)
            IN  IF acc.units = q \/ (l.minimum > 0 /\ q - acc.units < l.minimum) THEN acc
                ELSE [units |-> acc.units + n, total |-> acc.total + n * l.price]
    IN  FoldLeft(take, [units |-> 0, total |-> 0], levels)

\* stationLevels: a side of the book at the station, best price first.
StationLevels(orders, buy) ==
    StableSort(SelectSeq(orders, LAMBDA o : o.price > 0 /\ o.volume > 0),
               LAMBDA o, p : IF buy THEN o.price > p.price ELSE o.price < p.price)

\* Both sides are priced again at the quantity both can fill; the average price
\* of the units filled is then applied to that whole quantity.
Evaluate(e) ==
    LET asks == StationLevels(e.asks, FALSE)
        bids == StationLevels(e.bids, TRUE)
        q == Least(Filled(asks, e.quantity).units, Filled(bids, e.quantity).units)
        priced(levels) == LET f == Filled(levels, q)
                          IN  IF f.units = 0 THEN 0 ELSE (f.total * q) \div f.units
        capital == priced(asks)
        revenue == priced(bids)
        net == revenue - capital - (revenue * e.tax + capital * e.broker) \div 100
                 - q * e.unitVolume * e.transport
        reason(name, holds) == IF holds THEN {name} ELSE {}
    IN  IF e.quantity <= 0
        THEN [quantity |-> e.quantity, capital |-> 0, net |-> 0, reasons |-> {"quantity_invalid"}]
        ELSE IF q = 0
        THEN [quantity |-> 0, capital |-> 0, net |-> 0, reasons |-> {"no_executable_depth"}]
        ELSE [quantity |-> q, capital |-> capital, net |-> net,
              reasons |-> reason("insufficient_depth", q * 100 < 95 * e.quantity)
                     \cup reason("net_profit_below_threshold", net < MinProfit)
                     \cup reason("margin_below_threshold", net * 100 < 5 * capital)
                     \cup reason("demand_too_low", e.daily * 3 < q)
                     \cup reason("history_insufficient", e.days < 14)
                     \cup reason("cargo_exceeded", e.cargo > 0 /\ q * e.unitVolume > e.cargo)]

-----------------------------------------------------------------------------
TradeTypeOK ==
    /\ kind \in {"none", "compose", "chain", "legs", "evaluate"}
    /\ status \in {"idle", "running", "done", "rejected", "cancelled"}
    /\ depth \in 0..MaxPlanStops
    /\ kind \in {"compose", "chain", "legs"} =>
           request \in {[r EXCEPT !.c = Normalized(@)] : r \in Requests}
    /\ kind = "evaluate" => request \in Quotes
    /\ kind = "none" => status = "idle" /\ beam = << >> /\ completed = << >>

TradeInit ==
    /\ kind = "none" /\ request = << >> /\ depth = 0
    /\ beam = << >> /\ completed = << >> /\ answer = << >>
    /\ status = "idle"

\* Only the packing of a load looks at the constraint of a composition.
Refused(k, r) ==
    /\ ~ValidConstraint(r.c)
    /\ k = "compose" => \E x \in ToSet(r.cands) : x.from # x.to

\* A request arrives; an invalid constraint is refused.
Ask(k, r) ==
    /\ status = "idle"
    /\ kind' = k
    /\ request' = [r EXCEPT !.c = Normalized(@)]
    /\ status' = IF Refused(k, r) THEN "rejected" ELSE "running"
    /\ beam' = IF Refused(k, r) \/ k = "compose" THEN << >>
               ELSE <<[visits |-> <<r.start>>, legs |-> << >>, jumps |-> 0,
                       profit |-> 0, score |-> 0]>>
    /\ UNCHANGED <<depth, completed, answer>>

\* PackByRoute.
Compose ==
    /\ kind = "compose" /\ status = "running"
    /\ answer' = PackByRoute(request.cands, request.c, 0)
    /\ status' = "done"
    /\ UNCHANGED <<kind, request, depth, beam, completed>>

\* One level of SearchPickupDeliveryPlans.
ExpandChain ==
    /\ kind = "chain" /\ status = "running"
    /\ depth < request.c.stops - 1 /\ beam # << >>
    /\ LET next == Children(ChainChild, LAMBDA s : s.plan.ok /\ s.jumps <= MaxChainJumps)
       IN  /\ beam' = Cut(StableSort(next, BetterChain), request.c.beam)
           /\ completed' = completed \o SelectSeq(next, LAMBDA s : s.plan.profit > 0)
    /\ depth' = depth + 1
    /\ UNCHANGED <<kind, request, answer, status>>

\* One level of SearchPlans.
ExpandLegs ==
    /\ kind = "legs" /\ status = "running"
    /\ depth < request.c.legs /\ beam # << >>
    /\ LET next == Children(LegChild,
                       LAMBDA s : /\ Len(s.visits) <= request.c.stops
                                  /\ LastLeg(s).items # << >> /\ LastLeg(s).net > 0)
       IN  /\ beam' = Cut(StableSort(next, BetterLegs), request.c.beam)
           /\ completed' = completed \o next
    /\ depth' = depth + 1
    /\ UNCHANGED <<kind, request, answer, status>>

\* The search ends at its bound or when nothing is left to expand.
Finish ==
    /\ kind \in {"chain", "legs"} /\ status = "running"
    /\ \/ beam = << >>
       \/ kind = "chain" /\ depth >= request.c.stops - 1
       \/ kind = "legs" /\ depth >= request.c.legs
    /\ answer' = StableSort(completed, LAMBDA s, t :
                    IF kind = "chain" THEN BetterChain(s, t) ELSE BetterLegs(s, t))
    /\ status' = "done"
    /\ UNCHANGED <<kind, request, depth, beam, completed>>

\* The context of a chain search ended.
CancelSearch ==
    /\ kind = "chain" /\ status = "running" /\ beam # << >>
    /\ status' = "cancelled"
    /\ UNCHANGED <<kind, request, depth, beam, completed, answer>>

AskQuote(e) ==
    /\ status = "idle"
    /\ kind' = "evaluate" /\ request' = e
    /\ answer' = Evaluate(e)
    /\ status' = "done"
    /\ UNCHANGED <<depth, beam, completed>>

TradeNext ==
    \/ \E k \in {"compose", "chain", "legs"}, r \in Requests : Ask(k, r)
    \/ \E e \in Quotes : AskQuote(e)
    \/ Compose \/ ExpandChain \/ ExpandLegs \/ Finish \/ CancelSearch

-----------------------------------------------------------------------------
(* What a caller may rely on. *)

SumOver(S, f(_)) == FoldSet(LAMBDA k, n : n + f(k), 0, S)

\* The books of a chain, recounted from its stops: what was paid and loaded up
\* to stop k, and what was sold and unloaded.
ChainHolds(p) ==
    LET money(k) == request.c.budget - request.c.reserve
                      - SumOver(1..k, LAMBDA j : LotCapital(p.stops[j].loads))
                      + SumOver(1..k, LAMBDA j : LotCapital(p.stops[j].unloads)
                                                   + LotProfit(p.stops[j].unloads))
        hold(k) == SumOver(1..k, LAMBDA j : LotVolume(p.stops[j].loads)
                                              - LotVolume(p.stops[j].unloads))
        count(lots, l) == Cardinality({i \in DOMAIN lots : lots[i] = l})
    IN  /\ \A k \in DOMAIN p.stops :
               /\ money(k) = p.stops[k].cashAfter /\ money(k) >= 0
               /\ hold(k) \in 0..request.c.cargo
               /\ \A j \in 1..(k - 1) : p.stops[j].station # p.stops[k].station
               /\ \A l \in ToSet(p.stops[k].unloads) :
                      \E j \in 1..(k - 1) :
                          count(p.stops[k].unloads, l) <= count(p.stops[j].loads, l)
        /\ p.profit = SumOver(DOMAIN p.stops, LAMBDA j : LotProfit(p.stops[j].unloads))

\* The legs of a plan, paid one after the other from the budget and the
\* proceeds of the legs before.
LegsHold(s) ==
    \A k \in DOMAIN s.legs :
        LET cash == request.c.budget - request.c.reserve
                      + SumOver(1..(k - 1), LAMBDA j : Profit(s.legs[j].items))
        IN  /\ Capital(s.legs[k].items) <= cash
            /\ Volume(s.legs[k].items) <= request.c.cargo
            /\ s.legs[k].net > 0

\* Every plan handed to a caller can be carried out as it stands: at no stop
\* does the spendable cash fall below zero or the cargo exceed the hold, what
\* is sold was bought at an earlier stop, and no station is visited twice.
PlansAreExecutable ==
    status = "done" =>
        /\ kind = "chain" => \A k \in DOMAIN answer : ChainHolds(answer[k].plan)
        /\ kind = "legs" => \A k \in DOMAIN answer : LegsHold(answer[k])
        /\ kind = "compose" =>
               \A k \in DOMAIN answer :
                   /\ answer[k].capital <= request.c.budget - request.c.reserve
                   /\ answer[k].volume <= request.c.cargo
                   /\ answer[k].from # answer[k].to

\* The quantities a load may hold of a candidate.
Amounts(x, cap) ==
    IF Usable(x) /\ MaxQuantity(x, request.c, cap) > 0
    THEN QuantityChoicesForCandidate(x, MaxQuantity(x, request.c, cap))
    ELSE {0}

\* Every load within the limits, as a function from the candidates.
Loads(cands, cap) ==
    {f \in [DOMAIN cands -> UNION {Amounts(x, cap) : x \in ToSet(cands)}] :
        /\ \A k \in DOMAIN cands :
               f[k] \in Amounts(cands[k], cap) /\ CandidateValue(cands[k], f[k]).ok
        /\ SumOver(DOMAIN cands, LAMBDA k : CandidateValue(cands[k], f[k]).capital)
               <= request.c.budget - request.c.reserve
        /\ SumOver(DOMAIN cands, LAMBDA k : f[k] * cands[k].unitVolume) <= request.c.cargo}

\* The bounds of the knapsack cut nothing off.
NothingCut(cands, cap) ==
    /\ Len(cands) <= request.c.items
    /\ FoldLeft(LAMBDA n, x : n * Cardinality(Amounts(x, cap)), 1, cands) <= request.c.states

\* While no state was cut off, the load of a station pair is at least as
\* profitable as every other load within the same limits, and no concentration
\* that was tried fills more of the hold, unless the target was met.
PacksAreBest ==
    \A k \in DOMAIN answer :
        LET cands == SelectSeq(request.cands,
                               LAMBDA x : x.from = answer[k].from /\ x.to = answer[k].to)
            best(cap) == PackCandidatesAtConcentration(cands, request.c, cap)
        IN  \A cap \in ToSet(Concentrations(request.c)) :
                NothingCut(cands, cap) =>
                /\ \A f \in Loads(cands, cap) :
                       SumOver(DOMAIN cands, LAMBDA i : CandidateValue(cands[i], f[i]).net)
                           <= Profit(best(cap))
                /\ \/ Volume(best(cap)) <= answer[k].volume
                   \/ answer[k].volume * 100 >= request.c.load * request.c.cargo

\* The least a buyer pays for q units of a book, over every way to take them.
LeastCost(levels, q) ==
    LET takes == {t \in [DOMAIN levels -> 0..q] :
                     /\ \A k \in DOMAIN levels : t[k] <= levels[k].volume
                     /\ SumOver(DOMAIN levels, LAMBDA k : t[k]) = q}
    IN  Min({SumOver(DOMAIN levels, LAMBDA k : t[k] * levels[k].price) : t \in takes})

\* An evaluation is priced at what the book really asks for its quantity, when
\* no order has a minimum.
EvaluatedAtTheBook ==
    (\A o \in ToSet(request.asks) \cup ToSet(request.bids) : o.minimum <= 1 /\ o.volume > 0) =>
        (answer.quantity > 0 => answer.capital = LeastCost(request.asks, answer.quantity))

\* The bounded searches lose nothing while their bounds do not bite.
MatchesExhaustiveSearch ==
    status = "done" =>
        /\ kind = "compose" => PacksAreBest
        /\ kind = "evaluate" => EvaluatedAtTheBook
=============================================================================
