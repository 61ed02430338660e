----------------------------- MODULE PublicData -----------------------------
(***************************************************************************)
(* Public data of ESI (relay-server/internal/esipublic, the client and the *)
(* limiter of internal/esi, and the cache of internal/esidata): requests   *)
(* that read the cache, wait for the service's mutex and for the limiter,  *)
(* ask ESI and store the answer.  Each server process has one mutex and    *)
(* one limiter; the cache is shared.  Trade quotes go past cache and mutex.*)
(***************************************************************************)
EXTENDS Integers

CONSTANTS Callers,
          ServerOf,       \* the process each caller's request runs in
          PublicKinds,    \* keys of the cache, and "quote" for a trade quote
          Posted,         \* those asked with a POST: the names
          MaxWait,        \* in units of degradedDelay
          Fallback,       \* lifetime of an entry whose answer gives none
          MaxHold, MaxClock, \* bounds: the holds ESI asks for, the clock,
          MaxBacklog        \* slow slots taken ahead of the clock

ASSUME PublicConstants ==
    /\ MaxWait \in Nat /\ MaxHold \in Nat /\ MaxClock \in Nat /\ MaxBacklog \in Nat
    /\ Fallback \in Nat \ {0}

Servers == {ServerOf[c] : c \in Callers}

VARIABLES cache,     \* the expiry of each entry, 0 when there is none
          limiter,   \* per process: whether 20 to 50 errors are left, the end of
                     \* the hold and the next slow start, 0 when they have passed
          mu,        \* per process: the caller inside refreshWithStale
          clock,
          call,      \* each caller's request
          announced  \* per process: the latest end of a hold it was told of

publicVars == <<cache, limiter, mu, clock, call, announced>>

IdleCall == [at |-> "idle"]

Places == {"idle", "read", "lock", "wait", "sleep", "sent", "store", "done"}

PublicTypeOK ==
    /\ \A k \in PublicKinds : cache[k] \in 0..(MaxClock + Fallback)
    /\ \A s \in Servers : /\ limiter[s].scarce \in BOOLEAN
                          /\ mu[s] = "none" \/ ServerOf[mu[s]] = s
    /\ clock \in 0..MaxClock
    /\ \A c \in Callers : call[c].at \in Places

PublicInit ==
    /\ cache = [k \in PublicKinds |-> 0]
    /\ limiter = [s \in Servers |-> [scarce |-> FALSE, until |-> 0, next |-> 0]]
    /\ mu = [s \in Servers |-> "none"]
    /\ clock = 0
    /\ call = [c \in Callers |-> IdleCall]
    /\ announced = [s \in Servers |-> 0]

AtPlace(c, place) == call[c].at = place
Go(c, r) == call' = [call EXCEPT ![c] = r]
Later(a, b) == IF a >= b THEN a ELSE b

\* An answer to the caller: whether it is marked stale, whether this request
\* fetched it, and whether it was unexpired when the request came.
Done(c, expires, stale) ==
    Go(c, [at |-> "done", stale |-> stale, own |-> AtPlace(c, "store"),
           unexpired |-> expires > call[c].asked])

-----------------------------------------------------------------------------
(* The service. *)

\* The service reads the clock before the cache; a quote is not cached.
AskPublicData(c, k) ==
    /\ call[c].at \in {"idle", "done"}
    /\ \E forced \in BOOLEAN :
          Go(c, IF k = "quote" THEN [at |-> "wait", kind |-> k, asked |-> clock, cached |-> 0]
                ELSE [at |-> "read", kind |-> k, asked |-> clock, forced |-> forced])
    /\ UNCHANGED <<cache, limiter, mu, clock, announced>>

Unexpired(c, e) == e > call[c].asked

\* load answers an unexpired entry; refresh does not look at the expiry.  A
\* cache that cannot be read fails load and counts as empty in refresh.
ReadCache(c) ==
    /\ AtPlace(c, "read")
    /\ LET e == cache[call[c].kind]
           refreshing(cached) == [at |-> "lock", kind |-> call[c].kind,
                                  asked |-> call[c].asked, cached |-> cached]
       IN  \/ ~call[c].forced /\ Unexpired(c, e) /\ Done(c, e, FALSE)
           \/ (call[c].forced \/ ~Unexpired(c, e)) /\ Go(c, refreshing(e))
           \/ Go(c, IF call[c].forced THEN refreshing(0) ELSE IdleCall)
    /\ UNCHANGED <<cache, limiter, mu, clock, announced>>

LockService(c) ==
    /\ AtPlace(c, "lock") /\ mu[ServerOf[c]] = "none"
    /\ mu' = [mu EXCEPT ![ServerOf[c]] = c]
    /\ Go(c, [at |-> "wait", kind |-> call[c].kind, asked |-> call[c].asked,
              cached |-> call[c].cached])
    /\ UNCHANGED <<cache, limiter, clock, announced>>

Unlocked(c) == [mu EXCEPT ![ServerOf[c]] = IF @ = c THEN "none" ELSE @]

\* A failed fetch is answered with the entry read before the lock, or fails.
FetchFailed(c) ==
    /\ mu' = Unlocked(c)
    /\ IF call[c].cached = 0 THEN Go(c, IdleCall) ELSE Done(c, call[c].cached, TRUE)

-----------------------------------------------------------------------------
(* The limiter. *)

\* A mutated form: the slot is not taken.
SlotNotTaken(l, start) == l
TakeSlot(l, start) == [scarce |-> l.scarce, until |-> l.until, next |-> start + 1]

\* When a request may start by what the limiter knows: at the end of a hold, in
\* the next slow slot, or now.
Slow(l) == l.until <= clock /\ l.scarce
StartTime(l) == IF l.until > clock THEN l.until
                ELSE IF Slow(l) THEN Later(l.next, clock) ELSE clock

\* A start too far ahead is refused, and has taken its slot all the same.
Wait(c) ==
    LET s == ServerOf[c]
        l == limiter[s]
        start == StartTime(l)
    IN  /\ AtPlace(c, "wait") /\ l.next <= clock + MaxBacklog
        /\ limiter' = IF Slow(l) THEN [limiter EXCEPT ![s] = TakeSlot(l, start)] ELSE limiter
        /\ IF start - clock > MaxWait
           THEN FetchFailed(c)
           ELSE /\ Go(c, [at |-> "sleep", kind |-> call[c].kind, asked |-> call[c].asked,
                          cached |-> call[c].cached, since |-> clock, start |-> start,
                          slow |-> Slow(l), hold |-> announced[s]])
                /\ mu' = mu
        /\ UNCHANGED <<cache, clock, announced>>

\* The timer fires, or the request's context ends first.
Awake(c) ==
    /\ AtPlace(c, "sleep")
    /\ \/ /\ call[c].start <= clock
          /\ Go(c, [at |-> "sent", kind |-> call[c].kind, asked |-> call[c].asked,
                    cached |-> call[c].cached])
          /\ mu' = mu
       \/ call[c].start > call[c].since /\ FetchFailed(c)
    /\ UNCHANGED <<cache, limiter, clock, announced>>

\* What an answer says: errors left before the limit, the reset of that limit,
\* and the Retry-After of a refusal (420 or 429).
Answers == [level : {"unset", "free", "scarce", "low"}, reset : {0, MaxHold}, refused : BOOLEAN]
HoldOf(m) == IF m.refused \/ m.level = "low" THEN clock + m.reset ELSE 0

Observe(l, m) ==
    LET until == Later(l.until, HoldOf(m))
    IN  [scarce |-> IF m.level = "unset" THEN l.scarce ELSE m.level = "scarce",
         until |-> IF until > clock THEN until ELSE 0, next |-> l.next]

-----------------------------------------------------------------------------
\* ESI answers, or the network fails.  Only postJSON hands what it says to the
\* limiter.
Answer(c) ==
    /\ AtPlace(c, "sent")
    /\ \E m \in Answers, fails \in BOOLEAN :
          /\ m.refused => fails
          /\ IF call[c].kind \in Posted
             THEN LET s == ServerOf[c] IN
                  /\ limiter' = [limiter EXCEPT ![s] = Observe(@, m)]
                  /\ announced' = [announced EXCEPT ![s] = Later(@, HoldOf(m))]
             ELSE UNCHANGED <<limiter, announced>>
          /\ \/ fails /\ FetchFailed(c)
             \/ /\ ~fails /\ mu' = mu
                /\ IF call[c].kind = "quote" THEN Go(c, IdleCall)
                   ELSE Go(c, [at |-> "store", kind |-> call[c].kind, asked |-> call[c].asked,
                               value |-> clock])
    /\ UNCHANGED <<cache, clock>>

NetworkFails(c) ==
    /\ AtPlace(c, "sent") /\ FetchFailed(c)
    /\ UNCHANGED <<cache, limiter, clock, announced>>

\* The store, whatever the cache holds by now: the answer's expiry, or
\* the fallback when it gives none or one that has passed.
UpsertPublicData(c) ==
    /\ AtPlace(c, "store") /\ mu' = Unlocked(c)
    /\ \/ \E lifetime \in {-1, 0, 1, Fallback} :
             LET given == call[c].value + lifetime
                 e == IF lifetime < 0 \/ given < clock THEN clock + Fallback ELSE given
             IN  /\ cache' = [cache EXCEPT ![call[c].kind] = e]
                 /\ Done(c, e, FALSE)
       \/ cache' = cache /\ Go(c, IdleCall)
    /\ UNCHANGED <<limiter, clock, announced>>

\* A time of the limiter that has passed says no more than none.
Ahead(t) == IF t > clock + 1 THEN t ELSE 0

PublicTick ==
    /\ clock < MaxClock /\ clock' = clock + 1
    /\ limiter' = [s \in Servers |-> [scarce |-> limiter[s].scarce, until |-> Ahead(limiter[s].until),
                                      next |-> Ahead(limiter[s].next)]]
    /\ announced' = [s \in Servers |-> Ahead(announced[s])]
    /\ UNCHANGED <<cache, mu, call>>

PublicNext ==
    \/ \E c \in Callers :
          \/ \E k \in PublicKinds \cup {"quote"} : AskPublicData(c, k)
          \/ ReadCache(c) \/ LockService(c) \/ Wait(c) \/ Awake(c) \/ Answer(c)
          \/ NetworkFails(c) \/ UpsertPublicData(c)
    \/ PublicTick

PublicSpec == PublicInit /\ [][PublicNext]_publicVars

-----------------------------------------------------------------------------
\* However requests of a process race and whatever the answers observed in the
\* meantime say, two starts planned under a scarce error budget are a delay
\* apart, a request planned under a hold starts no earlier than the latest end
\* the process had been told of, and none sleeps longer than the limit
\* (limiter.go:33 "below 20 new work is held until the server's reset").
RequestsArePaced ==
    \A c \in Callers : AtPlace(c, "sleep") =>
        /\ call[c].start - call[c].since <= MaxWait
        /\ call[c].hold > call[c].since => call[c].start >= call[c].hold
        /\ \A d \in Callers \ {c} :
              AtPlace(d, "sleep") /\ ServerOf[c] = ServerOf[d] /\ call[c].slow /\ call[d].slow
                  => call[c].start # call[d].start

\* However reads, fetches and writes of the processes interleave, an answer that
\* is not marked stale was fetched after its request came, or was unexpired then.
UnmarkedIsCurrent ==
    \A c \in Callers : AtPlace(c, "done") =>
        call[c].stale \/ call[c].own \/ call[c].unexpired

\* ESI requests are paced as its answers ask for, and an answer not marked stale
\* was fetched, or unexpired, while its caller waited.
PublicDataIsSound == PublicTypeOK /\ RequestsArePaced /\ UnmarkedIsCurrent
=============================================================================
