---------------------------- MODULE TradePacking ----------------------------
(***************************************************************************)
(* Packing one cargo hold from priced candidates, and whole loads per      *)
(* station pair (internal/trade/planner.go).  Money is in hundredths,      *)
(* rates and concentrations in per cent, so that every amount the code     *)
(* keeps as a float is an integer here.  TradePlanner runs the searches.   *)
(***************************************************************************)
EXTENDS Integers, Sequences, FiniteSets, SequencesExt, FiniteSetsExt, Folds

MaxPlanStops == 4
MaxPlanLegs == 3

Least(a, b) == IF a < b THEN a ELSE b

\* sort.SliceStable: equal elements keep their order.
StableSort(s, Before(_, _)) ==
    LET inOrder(order) == [k \in DOMAIN s |-> s[order[k]]]
    IN  inOrder(SortSeq([i \in DOMAIN s |-> i],
                        LAMBDA i, j : \/ Before(s[i], s[j])
                                      \/ ~Before(s[j], s[i]) /\ i < j))

Cut(s, n) == SubSeq(s, 1, Least(n, Len(s)))

\* The order of the concatenated keys the code compares as strings; numbers
\* of one digit and names compare as their position.
KeyBefore(s, t) ==
    \E k \in 1..Len(t) :
        /\ \A i \in 1..(k - 1) : i <= Len(s) /\ s[i] = t[i]
        /\ k > Len(s) \/ s[k] < t[k]

-----------------------------------------------------------------------------
(* Constraints. *)

ValidConstraint(c) ==
    /\ c.budget >= 0 /\ c.reserve >= 0 /\ c.cargo >= 0
    /\ c.reserve <= c.budget
    /\ c.load \in 0..100 /\ c.concentration \in 0..100
    /\ c.jumpPenalty >= 0 /\ c.stopPenalty >= 0 /\ c.transport >= 0

Default(x, d) == IF x <= 0 THEN d ELSE x

Normalized(c) ==
    [c EXCEPT !.concentration = Default(@, 100),
              !.load = Default(@, 90),
              !.stops = IF @ = 0 \/ @ > MaxPlanStops THEN MaxPlanStops ELSE @,
              !.legs = IF @ = 0 \/ @ > MaxPlanLegs THEN MaxPlanLegs ELSE @,
              !.beam = Default(@, 16),
              !.items = Default(@, 12),
              !.states = Least(Default(@, 256), 4096)]

-----------------------------------------------------------------------------
(* The value of a quantity of one candidate. *)

\* Buys or sells q units down the levels of a book; `left' is what the book
\* could not fill.  A level whose minimum exceeds what is left is passed over.
Consume(levels, q) ==
    LET fill(acc, l) ==
            LET take == Least(acc.left, l.volume)
            IN  IF l.price <= 0 \/ l.volume <= 0 \/ acc.left = 0
                   \/ (l.minimum > 1 /\ take < l.minimum)
                THEN acc
                ELSE [left |-> acc.left - take, total |-> acc.total + take * l.price]
    IN  FoldLeft(fill, [left |-> q, total |-> 0], levels)

NoValue == [ok |-> FALSE, capital |-> 0, revenue |-> 0, net |-> 0]

\* One side of the trade: the book when there is one, the unit price otherwise.
Side(levels, q, unit) ==
    IF levels # << >>
    THEN LET filled(r) == [ok |-> r.left = 0, total |-> r.total]
         IN  filled(Consume(levels, q))
    ELSE [ok |-> unit > 0, total |-> q * unit]

\* What is left of selling what was bought, after the fees.
Settled(x, buy, sell) ==
    LET net == sell.total - buy.total
                 - (sell.total * x.tax + buy.total * x.broker) \div 100
    IN  IF ~buy.ok \/ ~sell.ok THEN NoValue
        ELSE [ok |-> net > 0, capital |-> buy.total, revenue |-> sell.total, net |-> net]

CandidateValue(x, q) ==
    IF q = 0 THEN [NoValue EXCEPT !.ok = TRUE]
    ELSE IF x.asks = << >> /\ x.bids = << >>
    THEN [ok |-> x.unitCost > 0 /\ x.netPerUnit > 0,
          capital |-> q * x.unitCost,
          revenue |-> q * (x.unitCost + x.netPerUnit),
          net |-> q * x.netPerUnit]
    ELSE Settled(x, Side(x.asks, q, x.unitCost), Side(x.bids, q, x.unitReturn))

\* The volumes at which a level of the book ends.
Breakpoints(levels) ==
    {FoldLeft(LAMBDA n, l : n + l.volume, 0, SubSeq(levels, 1, k)) : k \in DOMAIN levels}

QuantityChoices(maxQ) ==
    {0, 1, maxQ \div 4, maxQ \div 2, (3 * maxQ) \div 4, maxQ} \cap 0..maxQ

QuantityChoicesForCandidate(x, maxQ) ==
    QuantityChoices(maxQ)
        \cup {b \in Breakpoints(x.asks) \cup Breakpoints(x.bids) : b <= maxQ}

-----------------------------------------------------------------------------
(* Packing one hold: the bounded knapsack. *)

ItemKey(items) == FoldLeft(LAMBDA k, it : k \o <<it.type, it.quantity>>, << >>, items)

FirstState == [items |-> << >>, capital |-> 0, volume |-> 0, profit |-> 0,
               destinations |-> {}, utility |-> 0]

BetterState(s, t) ==
    \/ s.utility > t.utility
    \/ s.utility = t.utility /\ s.profit > t.profit
    \/ /\ s.utility = t.utility /\ s.profit = t.profit
       /\ KeyBefore(ItemKey(s.items), ItemKey(t.items))

\* The candidates by their return on the capital, the first `items' of them.
Ranked(cands, c) ==
    Cut(StableSort(cands,
            LAMBDA x, y : LET px == x.netPerUnit * y.unitCost
                              py == y.netPerUnit * x.unitCost
                          IN  \/ px > py
                              \/ px = py /\ x.type < y.type
                              \/ px = py /\ x.type = y.type /\ x.to < y.to),
        c.items)

MinCost(x) == IF x.asks # << >> THEN x.asks[1].price ELSE x.unitCost

Usable(x) ==
    /\ x.type > 0 /\ x.maxQuantity > 0 /\ x.unitVolume > 0
    /\ x.asks # << >> \/ (x.unitCost > 0 /\ x.netPerUnit > 0)
    /\ MinCost(x) > 0

MaxQuantity(x, c, cap) ==
    Least(x.maxQuantity,
          Least((((c.budget - c.reserve) * cap) \div (100 * MinCost(x))),
                c.cargo \div x.unitVolume))

\* The lot of q units of x; `for' remembers the destination it was priced for,
\* which the code's LoadItem does not keep.
LoadItem(x, q, v) ==
    [type |-> x.type, quantity |-> q, capital |-> v.capital,
     volume |-> q * x.unitVolume, net |-> v.net, score |-> x.score, for |-> x.to]

\* A state with q units of x, worth v, loaded on top.
With(s, x, q, v, c) ==
    LET dests == IF q > 0 THEN s.destinations \cup {x.to} ELSE s.destinations
    IN  [items |-> IF q > 0 THEN Append(s.items, LoadItem(x, q, v)) ELSE s.items,
         capital |-> s.capital + v.capital,
         volume |-> s.volume + q * x.unitVolume,
         profit |-> s.profit + v.net,
         destinations |-> dests,
         utility |-> s.profit + v.net - x.jumps * c.jumpPenalty
                       - (IF dests = {} THEN 0 ELSE Cardinality(dests) - 1) * c.stopPenalty]

WithLot(s, x, q, c) == With(s, x, q, CandidateValue(x, q), c)

\* Mutant: only the money is looked at.
Affordable(s, c) == s.capital <= c.budget - c.reserve

Fits(s, c) == s.capital <= c.budget - c.reserve /\ s.volume <= c.cargo

\* Every state extended by every quantity of x, the best `states' of them kept.
ExpandItem(states, x, c, cap) ==
    LET upTo(maxQ) == SelectSeq([q \in 1..(maxQ + 1) |-> q - 1],
                                LAMBDA q : /\ q \in QuantityChoicesForCandidate(x, maxQ)
                                           /\ CandidateValue(x, q).ok)
        of(s, choices) == SelectSeq([k \in DOMAIN choices |-> WithLot(s, x, choices[k], c)],
                                    LAMBDA t : Fits(t, c))
        all(choices) == FoldLeft(LAMBDA sum, s : sum \o of(s, choices), << >>, states)
    IN  IF ~Usable(x) \/ MaxQuantity(x, c, cap) <= 0 THEN states
        ELSE Cut(StableSort(all(upTo(MaxQuantity(x, c, cap))), BetterState), c.states)

PackCandidatesAtConcentration(cands, c, cap) ==
    IF c.budget <= c.reserve \/ c.cargo <= 0 THEN << >>
    ELSE FoldLeft(LAMBDA states, x : ExpandItem(states, x, c, cap),
                  <<FirstState>>, Ranked(cands, c))[1].items

Total(items, f(_)) == FoldLeft(LAMBDA n, it : n + f(it), 0, items)
Capital(items) == Total(items, LAMBDA it : it.capital)
Volume(items) == Total(items, LAMBDA it : it.volume)
Profit(items) == Total(items, LAMBDA it : it.net)

\* The concentrations tried in turn: the requested one, then looser ones.
Concentrations(c) ==
    <<c.concentration>> \o SelectSeq(<<40, 60, 100>>, LAMBDA x : x > c.concentration)

\* Tries each concentration until the hold is full enough; otherwise the
\* fullest load, the more profitable of equally full ones.
PackCandidates(cands, constraint) ==
    LET c == Normalized(constraint)
        fuller(items, best) ==
            \/ Volume(items) > Volume(best)
            \/ Volume(items) = Volume(best) /\ Profit(items) > Profit(best)
        better(items, best) ==
            IF c.cargo > 0 /\ Volume(items) * 100 >= c.load * c.cargo
            THEN [items |-> items, done |-> TRUE, tried |-> TRUE]
            ELSE IF ~best.tried \/ fuller(items, best.items)
            THEN [items |-> items, done |-> FALSE, tried |-> TRUE]
            ELSE best
        try(best, cap) ==
            IF best.done THEN best
            ELSE better(PackCandidatesAtConcentration(cands, c, cap), best)
    IN  FoldLeft(try, [items |-> << >>, done |-> FALSE, tried |-> FALSE],
                 Concentrations(c)).items

-----------------------------------------------------------------------------
(* Whole loads per station pair. *)

PackFixedRoute(cands, c) ==
    LET filtered == SelectSeq(cands, LAMBDA x : x.from = cands[1].from /\ x.to = cands[1].to)
        loaded(items) ==
            [from |-> cands[1].from, to |-> cands[1].to, items |-> items,
             capital |-> Capital(items), volume |-> Volume(items), profit |-> Profit(items),
             jumps |-> Max({x.jumps : x \in ToSet(filtered)}),
             unfilled |-> IF Volume(items) >= c.cargo THEN "full"
                          ELSE IF Capital(items) >= c.budget - c.reserve THEN "budget_exhausted"
                          ELSE IF items = << >> THEN "no_profitable_depth"
                          ELSE "profitable_depth_or_volume_fragment_exhausted"]
    IN  loaded(PackCandidates(filtered, c))

PackByRoute(cands, c, limit) ==
    LET pairs == {<<x.from, x.to>> : x \in {y \in ToSet(cands) : y.from # y.to}}
        sorted == SetToSortSeq(pairs, LAMBDA p, r : KeyBefore(p, r))
        of(p) == PackFixedRoute(SelectSeq(cands, LAMBDA x : <<x.from, x.to>> = p), c)
    IN  Cut(StableSort(SelectSeq([k \in DOMAIN sorted |-> of(sorted[k])],
                                 LAMBDA p : p.items # << >>),
                LAMBDA p, r :
                \/ p.profit > r.profit
                \/ p.profit = r.profit /\ p.volume > r.volume
                \/ p.profit = r.profit /\ p.volume = r.volume /\ p.from < r.from),
            IF limit \in 1..50 THEN limit ELSE 20)
=============================================================================
