-------------------------- MODULE MarketScheduler --------------------------
(***************************************************************************)
(* Market collection: the scheduler's leased jobs and the collector        *)
(* (relay-server/internal/marketdata).                                     *)
(*                                                                         *)
(* Every server process runs Scheduler.tick in a loop: fail the jobs whose *)
(* lease ended, queue a job for each region that is due, claim as many as  *)
(* it has free slots.  A claimed job is processed by a goroutine with a    *)
(* heartbeat: collect a batch, publish it as the region's snapshot, close  *)
(* the job, then do the schedule's bookkeeping.  A job has the priority of *)
(* its region's schedule row, or a client's.                               *)
(*                                                                         *)
(* A job leaves `jobs` when its state becomes terminal: the partial unique *)
(* index knows active jobs only, and at most one per region.  The states   *)
(* "collecting" and "publishing" are never assigned by the code.  A lease  *)
(* is "none", "current" or "expired"; a region is due or waits (next_run_at*)
(* and backoff_until are only compared with the time).  Of published_at the   *)
(* model keeps what can be wrong with it: a claim is `passed` when a         *)
(* snapshot stamped after its own has been published.  A batch is whole or   *)
(* has failed: its pages are one Collect step.                               *)
(***************************************************************************)
EXTENDS Integers, Sequences, FiniteSets, SequencesExt

CONSTANTS Regions,     \* regions with an enabled row of region_market_schedule
          Schedules,   \* the priorities those rows may have, by region
          ClientPriority, \* of a client's refresh: the greatest there is
          Procs,       \* server processes running a Scheduler
          Tokens,      \* claim tokens (gen_random_uuid); fresh = unused
          NoToken,     \* NULL
          MaxRegions,  \* SchedulerConfig.MaxRegions, the slots of a process
          Refreshed,   \* bound: the regions that clients refresh
          MaxRequests, \* bound: client refreshes that queue a job
          Faulty,      \* bound: the processes that faults befall
          MaxFaults    \* bound: crashes, stalls, failed statements

ASSUME SchedulerAssumption ==
    /\ IsFiniteSet(Regions)
    /\ MaxRegions \in Nat \ {0}
    /\ MaxRequests \in Nat /\ MaxFaults \in Nat
    /\ NoToken \notin Tokens
    /\ ClientPriority \in Int
    /\ Schedules \subseteq [Regions -> {n \in Int : n <= ClientPriority}]

VARIABLES priority,  \* region_market_schedule.priority: no code writes it
          jobs,      \* the active row of region_market_collection_jobs
          queue,     \* queued regions by requested_at
          due,       \* regions whose schedule row is due
          outdated,  \* regions whose snapshot replaced a newer one
          claims,    \* the jobs goroutines are processing
          step,      \* where each process is in tick
          requests,  \* client refreshes queued so far
          faults,    \* faults so far
          overrun    \* history: regions whose lease ended under its worker

vars == <<priority, jobs, queue, due, outdated, claims, step, requests, faults,
          overrun>>

Job   == [state : {"none", "queued", "claimed"}, token : Tokens \cup {NoToken},
          lease : {"none", "current", "expired"}, priority : Int]
Claim == [region : Regions, proc : Procs, token : Tokens,
          at : {"collect", "publish", "cancelled", "finish", "book"},
          after : SUBSET Tokens, passed : BOOLEAN]

Terminal == [state |-> "none", token |-> NoToken, lease |-> "none",
             priority |-> 0]
Queued(n) == [state |-> "queued", token |-> NoToken, lease |-> "none",
              priority |-> n]

Init ==
    /\ priority \in Schedules
    /\ jobs = [r \in Regions |-> Terminal]
    /\ queue = << >>
    /\ due = Regions
    /\ outdated = {}
    /\ claims = {}
    /\ step = [p \in Procs |-> "recover"]
    /\ requests = 0
    /\ faults = 0
    /\ overrun = {}

-----------------------------------------------------------------------------
Fault(p) == p \in Faulty /\ faults < MaxFaults /\ faults' = faults + 1

Active(r)    == jobs[r].state # "none"
Collecting   == {c \in claims : c.at # "book"}
\* WHERE claim_token = $2 AND state IN (...) AND claim_expires_at > $3
Holds(c)     == jobs[c.region].token = c.token /\ jobs[c.region].lease = "current"
Advance(c, d) == claims' = (claims \ {c}) \cup {d}
Drop(c)      == claims' = claims \ {c}

\* gen_random_uuid(): an unused token.  Which one does not matter, and tokens
\* are only compared within a row.
FreeTokens(r) == Tokens \ ({jobs[r].token} \cup
                           {c.token : c \in {d \in claims : d.region = r}})
NewToken(r)   == CHOOSE t \in FreeTokens(r) : TRUE

Slots(p)     == MaxRegions - Cardinality({c \in claims : c.proc = p})

\* ORDER BY priority DESC, requested_at
Ahead(q, r)  == \E i, j \in DOMAIN queue : i < j /\ queue[i] = q /\ queue[j] = r
LowestFirst(q, r) == \/ jobs[q].priority < jobs[r].priority
                     \/ jobs[q].priority = jobs[r].priority /\ Ahead(q, r)
Before(q, r) == \/ jobs[q].priority > jobs[r].priority
                \/ jobs[q].priority = jobs[r].priority /\ Ahead(q, r)
Waiting      == {r \in Regions : jobs[r].state = "queued"}

\* The first n of them.
First(n)     == {r \in Waiting : Cardinality({q \in Waiting : Before(q, r)}) < n}

\* The others, in the order they had.
Remaining(won) == {rest \in SetToSeqs(Waiting \ won) :
                     \A i, j \in DOMAIN rest : i < j => Ahead(rest[i], rest[j])}

-----------------------------------------------------------------------------
(* The schedule and the clients *)

\* The time of a region comes: next_run_at and backoff_until are past.
TimePasses(r) ==
    /\ r \notin due
    /\ due' = due \cup {r}
    /\ UNCHANGED <<priority, jobs, queue, outdated, claims, step, requests,
                   faults, overrun>>

\* POST /api/v1/trade/market/regions/{r}: an active job is returned as it is,
\* which changes nothing.
RequestRefresh(r) ==
    /\ r \in Refreshed /\ ~ Active(r)
    /\ requests < MaxRequests /\ requests' = requests + 1
    /\ jobs' = [jobs EXCEPT ![r] = Queued(ClientPriority)]
    /\ queue' = Append(queue, r)
    /\ UNCHANGED <<priority, due, outdated, claims, step, faults, overrun>>

-----------------------------------------------------------------------------
(* Scheduler.tick.  BatchSize exceeds the number of regions, so its limits *)
(* on the statements never apply.                                          *)

Recover(p, lost) ==
    /\ step[p] = "recover"
    /\ jobs' = [r \in Regions |-> IF r \in lost THEN Terminal ELSE jobs[r]]
    /\ step' = [step EXCEPT ![p] = "enqueue"]
    /\ UNCHANGED <<priority, queue, due, outdated, claims, requests, faults,
                   overrun>>

RecoverClaimed(p)    == Recover(p, {r \in Regions : jobs[r].state = "claimed"})
RecoverExpired(p)    == Recover(p, {r \in Regions : jobs[r].lease = "expired"})

\* One requested_at for the whole statement: ties are broken by a random id.
Enqueue(p, new) ==
    /\ step[p] = "enqueue"
    /\ jobs' = [r \in Regions |-> IF r \in new THEN Queued(priority[r]) ELSE jobs[r]]
    /\ \E s \in SetToSeqs(new) : queue' = queue \o s
    /\ step' = [step EXCEPT ![p] = "claim"]
    /\ UNCHANGED <<priority, due, outdated, claims, requests, faults, overrun>>

EnqueueUnlessQueued(p) == Enqueue(p, {r \in due : jobs[r].state # "queued"})
EnqueueDue(p)          == Enqueue(p, {r \in due : ~ Active(r)})

NewClaim(p, r, t) == [region |-> r, proc |-> p, token |-> t, at |-> "collect",
                      after |-> {}, passed |-> FALSE]

\* The first `available` queued jobs, each with a new token.  The priority of a
\* job that is not queued orders nothing any more.
ClaimJobs(p) ==
    /\ step[p] = "claim"
    /\ LET won == First(Slots(p))
       IN  /\ \A r \in won : FreeTokens(r) # {}
           /\ jobs' = [r \in Regions |->
                         IF r \in won
                         THEN [state |-> "claimed", token |-> NewToken(r),
                               lease |-> "current", priority |-> 0]
                         ELSE jobs[r]]
           /\ claims' = claims \cup {NewClaim(p, r, NewToken(r)) : r \in won}
           /\ queue' \in Remaining(won)
    /\ step' = [step EXCEPT ![p] = "recover"]
    /\ UNCHANGED <<priority, due, outdated, requests, faults, overrun>>

-----------------------------------------------------------------------------
(* Scheduler.process and its heartbeat *)

\* The context of Collect is cancelled.
Cancelled(c) == [c EXCEPT !.at = "cancelled", !.after = {}, !.passed = FALSE]

\* RenewLease finds the claim lost and cancels the collection.
HeartbeatLost(c) ==
    /\ c.at \in {"collect", "publish"} /\ ~ Holds(c)
    /\ Advance(c, Cancelled(c))
    /\ UNCHANGED <<priority, jobs, queue, due, outdated, step, requests, faults,
                   overrun>>

\* RenewLease fails for another reason: the collection is cancelled as well.
HeartbeatFails(c) ==
    /\ c.at \in {"collect", "publish"} /\ Fault(c.proc)
    /\ Advance(c, Cancelled(c))
    /\ UNCHANGED <<priority, jobs, queue, due, outdated, step, requests,
                   overrun>>

InFlight(r) == {c \in claims : c.region = r /\ c.at = "publish"}

\* Every page is appended; completedAt := now() before the publication begins.
Collect(c) ==
    /\ c.at = "collect"
    /\ Advance(c, [c EXCEPT !.at = "publish",
                            !.after = {d.token : d \in InFlight(c.region)}])
    /\ UNCHANGED <<priority, jobs, queue, due, outdated, step, requests,
                   faults, overrun>>

\* Collect has returned and the heartbeat has ended.
Collected(c) == [c EXCEPT !.at = "finish", !.after = {}, !.passed = FALSE]

\* A page fails, the page count changes, the context is cancelled, or the
\* publishing transaction rolls back: the batch is marked failed.
CollectFails(c) ==
    /\ c.at \in {"collect", "publish", "cancelled"}
    /\ Advance(c, Collected(c))
    /\ UNCHANGED <<priority, jobs, queue, due, outdated, step, requests, faults,
                   overrun>>

Passed(c) == {d \in InFlight(c.region) : d.token \in c.after}

\* The publishing transaction commits: published_at := completedAt, whatever
\* the snapshot's was and whoever holds the lease.
Publish(c) ==
    /\ c.at = "publish"
    /\ outdated' = IF c.passed THEN outdated \cup {c.region}
                              ELSE outdated \ {c.region}
    /\ claims' = (claims \ ({c} \cup Passed(c)))
                   \cup {[d EXCEPT !.passed = TRUE] : d \in Passed(c)}
                   \cup {Collected(c)}
    /\ UNCHANGED <<priority, jobs, queue, due, step, requests, faults, overrun>>

\* CompleteJob or FailJob, fenced by token and lease.
Finish(c) ==
    /\ c.at = "finish"
    /\ IF Holds(c)
       THEN /\ jobs' = [jobs EXCEPT ![c.region] = Terminal]
            /\ Advance(c, [c EXCEPT !.at = "book"])
       ELSE Drop(c) /\ UNCHANGED jobs
    /\ UNCHANGED <<priority, queue, due, outdated, step, requests, faults,
                   overrun>>

\* MarkScheduleSuccess or MarkScheduleFailure: a later next_run_at.
Book(c) ==
    /\ c.at = "book"
    /\ due' = due \ {c.region}
    /\ Drop(c)
    /\ UNCHANGED <<priority, jobs, queue, outdated, step, requests, faults,
                   overrun>>

\* The statement of Finish or Book fails; its error is dropped.
StatementFails(c) ==
    /\ c.at \in {"finish", "book"} /\ Fault(c.proc)
    /\ Drop(c)
    /\ UNCHANGED <<priority, jobs, queue, due, outdated, step, requests,
                   overrun>>

-----------------------------------------------------------------------------
(* Failures *)

\* A process dies with the goroutines it runs, and starts again.
Crash(p) ==
    /\ Fault(p)
    /\ claims' = {c \in claims : c.proc # p}
    /\ step' = [step EXCEPT ![p] = "recover"]
    /\ UNCHANGED <<priority, jobs, queue, due, outdated, requests, overrun>>

Workers(r) == {c \in Collecting : c.region = r /\ c.token = jobs[r].token}

\* Nobody renews the lease of a dead worker.
LeaseExpires(r) ==
    /\ jobs[r].lease = "current" /\ Workers(r) = {}
    /\ jobs' = [jobs EXCEPT ![r].lease = "expired"]
    /\ UNCHANGED <<priority, queue, due, outdated, claims, step, requests,
                   faults,
                   overrun>>

\* A worker is held up, heartbeat and all, for longer than its lease.
Stall(r) ==
    /\ jobs[r].lease = "current" /\ \E c \in Workers(r) : Fault(c.proc)
    /\ jobs' = [jobs EXCEPT ![r].lease = "expired"]
    /\ overrun' = overrun \cup {r}
    /\ UNCHANGED <<priority, queue, due, outdated, claims, step, requests>>

-----------------------------------------------------------------------------
Tick(p)    == RecoverExpired(p) \/ EnqueueDue(p) \/ ClaimJobs(p)
Process(c) == Collect(c) \/ CollectFails(c) \/ Publish(c) \/ Finish(c) \/ Book(c)
Spoil(c)   == HeartbeatLost(c) \/ HeartbeatFails(c) \/ StatementFails(c)

Next == \/ \E p \in Procs : Tick(p) \/ Crash(p)
        \/ \E c \in claims : Process(c) \/ Spoil(c)
        \/ \E r \in Regions : TimePasses(r) \/ RequestRefresh(r)
                              \/ LeaseExpires(r) \/ Stall(r)

Work(p) == \E c \in claims : c.proc = p /\ Process(c)

\* run() ticks until it is closed; requests and statements have deadlines, so
\* goroutines come to their end; time passes.
Fairness == /\ \A p \in Procs : WF_vars(Tick(p)) /\ WF_vars(Work(p))
            /\ \A r \in Regions : WF_vars(LeaseExpires(r)) /\ WF_vars(TimePasses(r))

Spec     == Init /\ [][Next]_vars
FairSpec == Spec /\ Fairness

-----------------------------------------------------------------------------
(* Properties *)

\* Type correctness; a job has a token and a lease exactly while it is
\* claimed (the CHECKs of migration 022), and the queue lists the queued ones.
TypeOK ==
    /\ jobs \in [Regions -> Job]
    /\ queue \in Seq(Regions) /\ IsInjective(queue) /\ ToSet(queue) = Waiting
    /\ priority \in Schedules
    /\ due \subseteq Regions /\ outdated \subseteq Regions
    /\ claims \subseteq Claim
    /\ step \in [Procs -> {"recover", "enqueue", "claim"}]
    /\ requests \in 0 .. MaxRequests
    /\ faults \in 0 .. MaxFaults /\ overrun \subseteq Regions
    /\ \A r \in Regions : /\ (jobs[r].token # NoToken) <=> (jobs[r].state = "claimed")
                          /\ (jobs[r].lease # "none") <=> (jobs[r].state = "claimed")

\* As long as no worker overstays its lease, one goroutine of all processes
\* collects a region: heartbeats, recovery and crashes never double the work.
OneCollector ==
    \A c, d \in Collecting :
        c.region = d.region /\ c.region \notin overrun => c = d

\* What every state of the queue and its workers satisfies.
SchedulerInvariant == TypeOK /\ OneCollector

\* A snapshot is replaced by a newer one only, unless a worker that overstayed
\* its lease commits late: the planning jobs rely on published_at growing.
SnapshotsMoveForward == outdated \subseteq overrun

\* Region r waits in the queue while a region of higher priority is collected.
Outranked(r) == /\ r \in Waiting
                /\ \E c \in claims : priority[c.region] > priority[r]

\* Whatever crashed, stalled or failed, every region is collected again and
\* again, unless regions that the schedule ranks higher go on being collected
\* before it: among equals nobody starves.
EveryRegionTried ==
    \A r \in Regions : []<>(Outranked(r) \/ \E c \in claims : c.region = r)
=============================================================================
