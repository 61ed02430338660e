--------------------------- MODULE MarketPlanJobs ---------------------------
(***************************************************************************)
(* Durable market planning jobs (relay-server/internal/marketplan).        *)
(*                                                                         *)
(* HTTP handlers create and cancel rows of market_plan_jobs; one or more   *)
(* server processes run Worker.RunOnce in a loop: re-queue the watching    *)
(* plans a newer market snapshot concerns, claim a batch of rows under a   *)
(* lease and a fresh fencing token, run the engine on each claim, and      *)
(* persist the outcome with Commit or Fail.  Region snapshots are stamped  *)
(* by the collector and become visible when its transaction commits.       *)
(*                                                                         *)
(* Time is abstracted to what the code compares: a lease is "none",        *)
(* "current" or "expired"; updated_at is the strict order in which rows    *)
(* were last touched; published_at is a counter.  The states "routing",    *)
(* "optimizing" and "completed" of the schema are never assigned by the    *)
(* code and are left out; the opportunities of a plan and its revision,    *)
(* which nothing compares, are represented by what they were computed from.*)
(***************************************************************************)
EXTENDS Naturals, FiniteSets, FiniteSetsExt, Functions

CONSTANTS Jobs,         \* identities of rows of market_plan_jobs
          Slots,        \* (account, character, mode) triples
          Hashes,       \* constraint hashes a client asks for
          Procs,        \* server processes running a Worker
          Tokens,       \* fencing tokens (gen_random_uuid); fresh = unused
          Regions,      \* market regions every plan watches
          NoJob,        \* no row: the token and process that are not there
          BatchSize,    \* WorkerConfig.BatchSize
          MaxAttempts,  \* the 5 of PostgresRepository.Fail
          MaxStamp,     \* bound: snapshot stamps handed out
          MaxFaults     \* bound: crashes, late leases, lost statements

ASSUME ConstantsAssumption ==
    /\ BatchSize \in Nat \ {0}
    /\ MaxAttempts \in Nat \ {0}
    /\ MaxStamp \in Nat
    /\ MaxFaults \in Nat
    /\ NoJob \notin Tokens \cup Procs

VARIABLES jobs,      \* the rows of market_plan_jobs
          older,     \* <<i, j>>: row i was last updated before row j
          claims,    \* the Claim values workers (and late statements) hold
          phase,     \* where each process is in RunOnce
          snap,      \* published_at of the visible snapshot of each region
          stamping,  \* completedAt of a snapshot not yet committed, or 0
          clock,     \* the last stamp handed out
          basis,     \* history: snapshots behind a row's last commit
          cancelled, \* history: rows cancelled through the endpoint
          faults     \* faults so far

vars == <<jobs, older, claims, phase, snap, stamping, clock, basis,
          cancelled, faults>>

Active   == {"queued", "discovering"}
Live     == Active \cup {"watching"}
Terminal == {"failed", "cancelled"}
Absent   == "absent"

Stamps == 0 .. MaxStamp
Reads  == [Regions -> Stamps]

Row == [slot : Slots, hash : Hashes, state : Live \cup Terminal \cup {Absent},
        token : Tokens \cup {NoJob}, lease : {"none", "current", "expired"},
        attempt : 0 .. MaxAttempts, signature : Stamps]

ClaimRecord == [job : Jobs, token : Tokens, owner : Procs \cup {NoJob},
                at : {"search", "plan", "commit", "fail"}, read : Reads,
                late : BOOLEAN]

NothingRead == [r \in Regions |-> 0]

Init ==
    /\ \E s \in Slots, h \in Hashes :
         jobs = [j \in Jobs |->
                   [slot |-> s, hash |-> h, state |-> Absent, token |-> NoJob,
                    lease |-> "none", attempt |-> 0, signature |-> 0]]
    /\ older = {}
    /\ claims = {}
    /\ phase = [p \in Procs |-> "requeue"]
    /\ snap = NothingRead
    /\ stamping = NothingRead
    /\ clock = 0
    /\ basis = [j \in Jobs |-> NothingRead]
    /\ cancelled = {}
    /\ faults = 0

-----------------------------------------------------------------------------
(* Helpers *)

\* Rows in S get updated_at = now(); within one statement they tie.
Touched(S) ==
    {e \in older : e[1] \notin S /\ e[2] \notin S} \cup ((Jobs \ S) \X S)

LiveRow(j)  == jobs[j].state \in Live
Unsigned(j) == \E r \in Regions : snap[r] > jobs[j].signature
Fault       == faults < MaxFaults /\ faults' = faults + 1
UsedTokens  == {jobs[j].token : j \in Jobs} \cup {c.token : c \in claims}

\* The partial unique index market_plan_jobs_active_dedupe_idx would reject
\* row j in a live state.
Duplicate(j) ==
    \E k \in Jobs \ {j} : /\ LiveRow(k)
                          /\ jobs[k].slot = jobs[j].slot
                          /\ jobs[k].hash = jobs[j].hash

Released(row, state) ==
    [row EXCEPT !.state = state, !.token = NoJob, !.lease = "none"]

-----------------------------------------------------------------------------
(* HTTP handlers *)

SupersededKeepingToken(row) == [row EXCEPT !.state = "cancelled"]
Superseded(row) == Released(row, "cancelled")

\* One transaction under an advisory lock on the slot: cancel every live row
\* of the slot, insert the new one.
Create(j, s, h) ==
    /\ jobs[j].state = Absent
    /\ LET gone == {k \in Jobs : LiveRow(k) /\ jobs[k].slot = s}
       IN  /\ jobs' = [k \in Jobs |->
                         IF k = j THEN [jobs[j] EXCEPT !.slot = s, !.hash = h,
                                                       !.state = "queued"]
                         ELSE IF k \in gone THEN Superseded(jobs[k])
                         ELSE jobs[k]]
           /\ older' = Touched(gone \cup {j})
    /\ UNCHANGED <<claims, phase, snap, stamping, clock, basis, cancelled, faults>>

\* A row that is already terminal is returned as it is.
Cancel(j) ==
    /\ LiveRow(j)
    /\ jobs' = [jobs EXCEPT ![j].state = "cancelled"]
    /\ older' = Touched({j})
    /\ cancelled' = cancelled \cup {j}
    /\ UNCHANGED <<claims, phase, snap, stamping, clock, basis, faults>>

-----------------------------------------------------------------------------
(* Worker.RunOnce *)

\* max(published_at) of the plan's regions.
NewestIsNow(m) == m = clock

Newest(m) == m \in {0} \cup Range(snap) /\ \A r \in Regions : snap[r] <= m

RequeueWatching(p) ==
    /\ phase[p] = "requeue"
    /\ LET stale == {j \in Jobs : jobs[j].state = "watching" /\ Unsigned(j)}
       IN  /\ \E m \in Stamps :
                /\ Newest(m)
                /\ jobs' = [j \in Jobs |->
                     IF j \in stale
                     THEN [jobs[j] EXCEPT !.state = "queued", !.signature = m]
                     ELSE jobs[j]]
           /\ older' = Touched(stale)
    /\ phase' = [phase EXCEPT ![p] = "claim"]
    /\ UNCHANGED <<claims, snap, stamping, clock, basis, cancelled, faults>>

LeasedFence(c) == jobs[c.job].lease = "current"

\* The row still carries the fencing token of the claim.
Fenced(c) == jobs[c.job].token = c.token

ClaimableIfFree(j) == jobs[j].state \in Active /\ jobs[j].lease = "none"

Claimable(j) == jobs[j].state \in Active /\ jobs[j].lease # "current"

\* ORDER BY updated_at, id LIMIT BatchSize: the id breaks ties arbitrarily.
Picked(S) ==
    LET ready == {j \in Jobs : Claimable(j)}
    IN  /\ S \subseteq ready
        /\ Cardinality(S) = Min({BatchSize, Cardinality(ready)})
        /\ \A j \in S, i \in ready : <<i, j>> \in older => i \in S

\* Bound: attempts beyond MaxAttempts are not told apart.
Attempted(n) == IF n < MaxAttempts THEN n + 1 ELSE n

\* A claim that may keep the token a row already carries.
KeptTokens == Tokens \ {c.token : c \in {d \in claims : ~Fenced(d)}}

FreshTokens == Tokens \ UsedTokens

\* Rows S leave the statement leased to p, row j under token f[j].
Grant(p, S, f) ==
    /\ jobs' = [j \in Jobs |->
                 IF j \in S
                 THEN [jobs[j] EXCEPT !.state = "discovering", !.token = f[j],
                                      !.lease = "current",
                                      !.attempt = Attempted(@)]
                 ELSE jobs[j]]
    /\ claims' = claims \cup
                   {[job |-> j, token |-> f[j], owner |-> p, at |-> "search",
                     read |-> NothingRead, late |-> FALSE] :
                       j \in S}
    /\ older' = Touched(S)

\* Bound: a claim waits until enough tokens are fresh.
Claim(p) ==
    /\ phase[p] = "claim"
    /\ \E S \in SUBSET Jobs : \E f \in Injection(S, FreshTokens) :
          Picked(S) /\ Grant(p, S, f)
    /\ phase' = [phase EXCEPT ![p] = "work"]
    /\ UNCHANGED <<snap, stamping, clock, basis, cancelled, faults>>

Moved(c, d) == claims' = (claims \ {c}) \cup {d}

\* PlanningEngine.Step reads the visible snapshots ...
Search(c) ==
    /\ c.at = "search"
    /\ Moved(c, [c EXCEPT !.at = "plan", !.read = snap])
    /\ UNCHANGED <<jobs, older, phase, snap, stamping, clock, basis, cancelled, faults>>

\* ... and then plans on what it read; now() is taken when Step returns,
\* before the statement that compares it with lease_until runs.
Planned(c) ==
    /\ c.at = "plan"
    /\ Moved(c, [c EXCEPT !.at = "commit",
                          !.late = jobs[c.job].lease # "current"])
    /\ UNCHANGED <<jobs, older, phase, snap, stamping, clock, basis, cancelled, faults>>

\* An error or the slice budget ends Step early.
StepFails(c) ==
    /\ c.at \in {"search", "plan"}
    /\ Fault
    /\ Moved(c, [c EXCEPT !.at = "fail"])
    /\ UNCHANGED <<jobs, older, phase, snap, stamping, clock, basis, cancelled>>

\* Commit's UPDATE does not look at the state of the row.
Commits(c) == c.at = "commit" /\ Fenced(c) /\ ~c.late

Committed(row) == Released(row, "watching")

Commit(c) ==
    /\ Commits(c)
    /\ ~Duplicate(c.job)
    /\ jobs' = [jobs EXCEPT ![c.job] = Committed(@)]
    /\ basis' = [basis EXCEPT ![c.job] = c.read]
    /\ older' = Touched({c.job})
    /\ claims' = claims \ {c}
    /\ UNCHANGED <<phase, snap, stamping, clock, cancelled, faults>>

RetryState(row) == IF row.attempt >= MaxAttempts THEN "failed" ELSE "queued"

\* Fail compares the token only, neither the lease nor the state.
Fails(c) == c.at = "fail" /\ Fenced(c)

Fail(c) ==
    /\ Fails(c)
    /\ RetryState(jobs[c.job]) = "failed" \/ ~Duplicate(c.job)
    /\ jobs' = [jobs EXCEPT ![c.job] = Released(@, RetryState(@))]
    /\ older' = Touched({c.job})
    /\ claims' = claims \ {c}
    /\ UNCHANGED <<phase, snap, stamping, clock, basis, cancelled, faults>>

\* ErrLeaseLost, or the unique index rolls the transaction back: the error is
\* logged and the claim forgotten.
PersistRefused(c) ==
    /\ \/ c.at = "commit" /\ (~Commits(c) \/ Duplicate(c.job))
       \/ c.at = "fail" /\ (~Fails(c) \/ (/\ Duplicate(c.job)
                                          /\ RetryState(jobs[c.job]) # "failed"))
    /\ claims' = claims \ {c}
    /\ UNCHANGED <<jobs, older, phase, snap, stamping, clock, basis, cancelled, faults>>

\* wg.Wait() returns once every claim of the batch was persisted or dropped.
CycleEnds(p) ==
    /\ phase[p] = "work"
    /\ \A c \in claims : c.owner # p
    /\ phase' = [phase EXCEPT ![p] = "requeue"]
    /\ UNCHANGED <<jobs, older, claims, snap, stamping, clock, basis, cancelled, faults>>

-----------------------------------------------------------------------------
(* Time and failures *)

\* The claim of a running process whose lease this is.
Alive(j) == \E c \in claims : /\ c.job = j
                              /\ c.token = jobs[j].token
                              /\ c.owner # NoJob

\* A lease outlives a slice unless its process stalls (a fault).
LeaseExpires(j) ==
    /\ jobs[j].lease = "current"
    /\ IF Alive(j) THEN Fault ELSE UNCHANGED faults
    /\ jobs' = [jobs EXCEPT ![j].lease = "expired"]
    /\ UNCHANGED <<older, claims, phase, snap, stamping, clock, basis, cancelled>>

\* The five second persist timeout: the process goes on, the statement may
\* still run in the database.
PersistTimeout(c) ==
    /\ c.at \in {"commit", "fail"}
    /\ c.owner # NoJob
    /\ Fault
    /\ Moved(c, [c EXCEPT !.owner = NoJob])
    /\ UNCHANGED <<jobs, older, phase, snap, stamping, clock, basis, cancelled>>

\* A statement fails without effect.
PersistLost(c) ==
    /\ c.at \in {"commit", "fail"}
    /\ Fault
    /\ claims' = claims \ {c}
    /\ UNCHANGED <<jobs, older, phase, snap, stamping, clock, basis, cancelled>>

\* The process dies or Close cancels its context: running steps are gone,
\* statements already sent may still run.
Crash(p) ==
    /\ Fault
    /\ claims' = {c \in claims : c.owner # p} \cup
                 {[c EXCEPT !.owner = NoJob] :
                     c \in {d \in claims : /\ d.owner = p
                                           /\ d.at \in {"commit", "fail"}}}
    /\ phase' = [phase EXCEPT ![p] = "requeue"]
    /\ UNCHANGED <<jobs, older, snap, stamping, clock, basis, cancelled>>

-----------------------------------------------------------------------------
(* Region snapshots: the collector takes completedAt, then Publish commits *)

Stamp(r) ==
    /\ stamping[r] = 0
    /\ clock < MaxStamp
    /\ clock' = clock + 1
    /\ stamping' = [stamping EXCEPT ![r] = clock']
    /\ UNCHANGED <<jobs, older, claims, phase, snap, basis, cancelled, faults>>

Publish(r) ==
    /\ stamping[r] # 0
    /\ snap' = [snap EXCEPT ![r] = stamping[r]]
    /\ stamping' = [stamping EXCEPT ![r] = 0]
    /\ UNCHANGED <<jobs, older, claims, phase, clock, basis, cancelled, faults>>

PublishFails(r) ==
    /\ stamping[r] # 0
    /\ Fault
    /\ stamping' = [stamping EXCEPT ![r] = 0]
    /\ UNCHANGED <<jobs, older, claims, phase, snap, clock, basis, cancelled>>

-----------------------------------------------------------------------------
Persist(c) == Commit(c) \/ Fail(c) \/ PersistRefused(c)

Next ==
    \/ \E j \in Jobs, s \in Slots, h \in Hashes : Create(j, s, h)
    \/ \E j \in Jobs : Cancel(j) \/ LeaseExpires(j)
    \/ \E p \in Procs : RequeueWatching(p) \/ Claim(p) \/ CycleEnds(p) \/ Crash(p)
    \/ \E c \in claims : Search(c) \/ Planned(c) \/ StepFails(c) \/ Persist(c)
                            \/ PersistTimeout(c) \/ PersistLost(c)
    \/ \E r \in Regions : Stamp(r) \/ Publish(r) \/ PublishFails(r)

Spec == Init /\ [][Next]_vars

\* The polling loop of each process runs, its engine steps and statements end,
\* an abandoned lease expires and a collected snapshot is published.
Fairness ==
    /\ \A p \in Procs : WF_vars(RequeueWatching(p) \/ Claim(p) \/ CycleEnds(p))
    /\ \A t \in Tokens :
         WF_vars(\E c \in claims :
                    c.token = t /\ (Search(c) \/ Planned(c) \/ Persist(c)))
    /\ \A j \in Jobs : WF_vars(LeaseExpires(j) /\ ~Alive(j))
    /\ \A r \in Regions : WF_vars(Publish(r))

FairSpec == Spec /\ Fairness

-----------------------------------------------------------------------------
(* Properties *)

\* Every variable has its type; a row has a lease exactly while it has a
\* fencing token.
TypeOK ==
    /\ jobs \in [Jobs -> Row]
    /\ \A j \in Jobs : jobs[j].lease = "none" <=> jobs[j].token = NoJob
    /\ older \subseteq Jobs \X Jobs
    /\ claims \subseteq ClaimRecord
    /\ phase \in [Procs -> {"requeue", "claim", "work"}]
    /\ snap \in Reads
    /\ stamping \in Reads
    /\ clock \in Stamps
    /\ basis \in [Jobs -> Reads]
    /\ cancelled \subseteq Jobs
    /\ faults \in 0 .. MaxFaults

\* Fencing: of all the claims workers hold on a row, however late, duplicated
\* or abandoned, at most one can still persist an outcome.
LeaseExclusive ==
    \A c, d \in claims :
        c.job = d.job /\ Fenced(c) /\ Fenced(d) => c = d

\* A slow worker never replaces newer results: what a row's results were
\* computed from only moves forward, region by region.
ResultsNeverGoBack ==
    [][\A j \in Jobs, r \in Regions : basis'[j][r] >= basis[j][r]]_vars

\* A watching plan that has not seen a visible snapshot will be re-queued for
\* it: the signature never covers a snapshot the plan did not read.
NoMissedSnapshot ==
    \A j \in Jobs : jobs[j].state = "watching" /\ basis[j] # snap => Unsigned(j)

\* Of the plans nobody cancelled through the endpoint at most one per account,
\* character and mode is live, whatever the workers do with superseded ones.
OneUncancelledPlan ==
    \A i, j \in Jobs \ cancelled :
        /\ i # j
        /\ jobs[i].slot = jobs[j].slot
        => ~(LiveRow(i) /\ LiveRow(j))

\* Every live plan is eventually computed from each snapshot that became
\* visible, unless it is superseded, cancelled or fails for good.
SnapshotsReachPlans ==
    \A j \in Jobs, r \in Regions, n \in 1 .. MaxStamp :
        LiveRow(j) /\ snap[r] >= n ~> ~LiveRow(j) \/ basis[j][r] >= n

=============================================================================
