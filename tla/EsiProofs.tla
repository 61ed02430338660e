----------------------------- MODULE EsiProofs -----------------------------
(***************************************************************************)
(* Proofs about what asks ESI, for any number of kinds, workers, logins,   *)
(* processes, requests and faults.                                         *)
(*                                                                         *)
(* EsiSync: one worker is at a kind of data, and stored data are replaced  *)
(* by newer ones, unless a job was taken from a worker still at it.  The   *)
(* inductive invariant: who works at a kind owns its running job, and the  *)
(* lease of a job somebody works at has not ended.                         *)
(*                                                                         *)
(* PublicData: requests are paced as ESI asks for, and an answer not       *)
(* marked stale is current.  The inductive invariant: a limiter keeps the  *)
(* latest hold it was told of, and a slow start that is not past lies      *)
(* before the next free slot of its process.                               *)
(***************************************************************************)
EXTENDS EsiSync, PublicData, OrderLemmas, TLAPS

(* Synchronisation                                                         *)

JobRecord(r) == r = [status |-> r.status, owner |-> r.owner, lease |-> r.lease]

WorkerRecord(r) ==
    /\ r = [at |-> r.at, kind |-> r.kind, token |-> r.token, new |-> r.new,
            scope |-> r.scope, to |-> r.to, after |-> r.after, passed |-> r.passed]
    /\ r.at = "idle" => r.kind = None
    /\ r.at # "idle" => r.kind \in Kinds
    /\ r.passed \in BOOLEAN

Records == /\ DOMAIN job = Kinds /\ \A k \in Kinds : JobRecord(job[k])
           /\ DOMAIN worker = Workers /\ \A w \in Workers : WorkerRecord(worker[w])

\* Who is at a kind owns its job, unless it was taken away.
WorkersOwn ==
    \A w \in Workers : worker[w].at # "idle" =>
        worker[w].kind \in overrun \/ Owns(w, worker[w].kind)

\* The lease of a job somebody is at has not ended.
NobodyPastLease ==
    \A k \in Kinds : job[k].lease = "expired" /\ k \notin overrun =>
        \A w \in Workers : ~ Running(w, k)

\* Data fetched later is on its way beside a worker's only after an overrun.
OvertakenOverran ==
    \A w \in Workers : worker[w].after # {} \/ worker[w].passed => worker[w].kind \in overrun

SyncInv == /\ Records /\ WorkersOwn /\ NobodyPastLease /\ OvertakenOverran
           /\ outdated \subseteq overrun

-----------------------------------------------------------------------------
LEMMA InvGivesOneWorker == SyncInv => OneWorkerPerKind
<1> SUFFICES ASSUME SyncInv, NEW v \in Workers, NEW w \in Workers, v # w,
                    worker[v].at # "idle", worker[v].kind = worker[w].kind,
                    worker[v].kind \notin overrun
             PROVE  FALSE
  BY DEF OneWorkerPerKind
<1>1. worker[v].kind \in Kinds /\ worker[w].at # "idle"
  BY EsiSyncAssumption DEF SyncInv, Records, WorkerRecord
<1>2. Owns(v, worker[v].kind) /\ Owns(w, worker[v].kind)
  BY <1>1 DEF SyncInv, WorkersOwn
<1> QED BY <1>2 DEF Owns

LEMMA RestRecord == WorkerRecord(Rest) /\ Rest.at = "idle" /\ Rest.after = {} /\ Rest.passed = FALSE
BY DEF At, Rest, WorkerRecord

LEMMA InitSync == Init => SyncInv
BY RestRecord DEF Init, SyncInv, Records, JobRecord, WorkersOwn, NobodyPastLease,
                  OvertakenOverran

LEMMA FinishingRecord ==
    ASSUME NEW w \in Workers, NEW to, worker[w].kind \in Kinds
    PROVE  /\ WorkerRecord(Finishing(w, to)) /\ Finishing(w, to).at = "finish"
           /\ Finishing(w, to).kind = worker[w].kind
           /\ Finishing(w, to).after = {} /\ Finishing(w, to).passed = FALSE
BY DEF At, Finishing, WorkerRecord

\* A busy worker goes on at its kind, or rests; the jobs stay, or one that it
\* owned is given back as it rests.
LEMMA WorkerGoesOn ==
    ASSUME SyncInv, NEW w \in Workers, NEW r, worker' = [worker EXCEPT ![w] = r],
           worker[w].at # "idle", WorkerRecord(r),
           r.at = "idle" \/ r.kind = worker[w].kind,
           r.after = worker[w].after \/ r.after = {}, r.passed => worker[w].passed,
           r.at = "idle" => r.after = {} /\ ~ r.passed,
           job' = job, overrun \subseteq overrun', outdated' = outdated
    PROVE  SyncInv'
<1>1. /\ DOMAIN worker' = Workers /\ worker'[w] = r
      /\ \A v \in Workers : v # w => worker'[v] = worker[v]
  BY DEF SyncInv, Records
<1>2. Records'
  BY <1>1 DEF SyncInv, Records
<1>3. WorkersOwn'
  BY <1>1 DEF SyncInv, WorkersOwn, Owns
<1>4. NobodyPastLease'
  BY <1>1 DEF SyncInv, NobodyPastLease, Running
<1>5. OvertakenOverran'
  BY <1>1 DEF SyncInv, OvertakenOverran
<1> QED BY <1>2, <1>3, <1>4, <1>5 DEF SyncInv

\* Nothing of the jobs, workers, data and overruns changes.
LEMMA Elsewhere ==
    ASSUME SyncInv, UNCHANGED <<job, worker, outdated>>, overrun \subseteq overrun'
    PROVE  SyncInv'
BY DEF SyncInv, Records, WorkersOwn, Owns, NobodyPastLease, Running, OvertakenOverran

\* A job that nobody is at, or that has been taken from whoever is, changes.
LEMMA JobChanges ==
    ASSUME SyncInv, NEW k \in Kinds, NEW r, JobRecord(r), job' = [job EXCEPT ![k] = r],
           worker' = worker, outdated' = outdated, overrun \subseteq overrun',
           k \in overrun' \/ \A w \in Workers : ~ Running(w, k)
    PROVE  SyncInv'
<1>1. /\ DOMAIN job' = Kinds /\ job'[k] = r
      /\ \A j \in Kinds : j # k => job'[j] = job[j]
  BY DEF SyncInv, Records
<1>2. Records'
  BY <1>1 DEF SyncInv, Records
<1>3. WorkersOwn'
  <2> SUFFICES ASSUME NEW w \in Workers, worker[w].at # "idle", worker[w].kind \notin overrun'
               PROVE  job'[worker[w].kind].owner = w /\ job'[worker[w].kind].status = "running"
    BY DEF WorkersOwn, Owns
  <2>1. worker[w].kind \in Kinds /\ worker[w].kind # k
    BY DEF SyncInv, Records, WorkerRecord, Running
  <2> QED BY <1>1, <2>1 DEF SyncInv, WorkersOwn, Owns
<1>4. NobodyPastLease'
  BY <1>1 DEF SyncInv, NobodyPastLease, Running
<1>5. OvertakenOverran'
  BY DEF SyncInv, OvertakenOverran
<1> QED BY <1>2, <1>3, <1>4, <1>5 DEF SyncInv

-----------------------------------------------------------------------------
LEMMA ClaimStep ==
    ASSUME SyncInv, NEW w \in Workers, Claim(w)
    PROVE  SyncInv'
<1>1. PICK k \in Kinds :
         /\ Claimable(k)
         /\ job' = [job EXCEPT ![k] = [status |-> "running", owner |-> w, lease |-> "current"]]
         /\ worker' = [worker EXCEPT ![w] = At("load", k, "none")]
  BY DEF Claim, First
<1> DEFINE r == At("load", k, "none")
<1>2. /\ WorkerRecord(r) /\ r.at = "load" /\ r.kind = k /\ r.after = {} /\ r.passed = FALSE
  BY DEF At, WorkerRecord
<1>3. worker' = [worker EXCEPT ![w] = r]
  BY <1>1
<1> HIDE DEF r
<1>4. /\ DOMAIN worker' = Workers /\ worker'[w] = r
      /\ \A v \in Workers : v # w => worker'[v] = worker[v]
  BY <1>3 DEF SyncInv, Records
<1>5. /\ DOMAIN job' = Kinds /\ JobRecord(job'[k]) /\ job'[k].owner = w
      /\ job'[k].status = "running" /\ job'[k].lease = "current"
      /\ \A j \in Kinds : j # k => job'[j] = job[j]
  BY <1>1 DEF SyncInv, Records, JobRecord
<1>6. overrun' = overrun /\ outdated' = outdated
  BY DEF Claim
<1>7. k \notin overrun => \A v \in Workers : ~ Running(v, k)
  <2> SUFFICES ASSUME k \notin overrun, NEW v \in Workers, Running(v, k)
               PROVE  FALSE
    OBVIOUS
  <2>1. Owns(v, k)
    BY DEF SyncInv, WorkersOwn, Running
  <2>2. job[k].lease = "expired"
    BY <1>1, <2>1 DEF Owns, Claimable
  <2> QED BY <2>2 DEF SyncInv, NobodyPastLease
<1>8. Records'
  BY <1>2, <1>4, <1>5 DEF SyncInv, Records
<1>9. WorkersOwn'
  <2> SUFFICES ASSUME NEW v \in Workers, worker'[v].at # "idle", worker'[v].kind \notin overrun
               PROVE  /\ job'[worker'[v].kind].owner = v
                      /\ job'[worker'[v].kind].status = "running"
    BY <1>6 DEF WorkersOwn, Owns
  <2>1. CASE v = w
    BY <1>2, <1>4, <1>5, <2>1
  <2>2. CASE v # w
    <3>1. worker'[v] = worker[v] /\ worker[v].kind \in Kinds
      BY <1>4, <2>2 DEF SyncInv, Records, WorkerRecord
    <3>2. worker[v].kind # k
      BY <1>7, <3>1 DEF Running
    <3> QED BY <1>5, <3>1, <3>2 DEF SyncInv, WorkersOwn, Owns
  <2> QED BY <2>1, <2>2
<1>10. NobodyPastLease'
  BY <1>2, <1>4, <1>5, <1>6 DEF SyncInv, NobodyPastLease, Running
<1>11. OvertakenOverran'
  BY <1>2, <1>4, <1>6 DEF SyncInv, OvertakenOverran
<1> QED BY <1>6, <1>8, <1>9, <1>10, <1>11 DEF SyncInv

LEMMA FetchStep ==
    ASSUME SyncInv, NEW w \in Workers, Fetch(w)
    PROVE  SyncInv'
<1>1. /\ worker[w].at = "fetch" /\ UNCHANGED <<job, overrun, outdated>>
      /\ WorkerRecord(worker[w])
  BY DEF Fetch, SyncInv, Records
<1>2. DOMAIN worker' = Workers
  BY DEF Fetch
<1>3. ASSUME NEW v \in Workers
      PROVE  /\ WorkerRecord(worker'[v]) /\ worker'[v].kind = worker[v].kind
             /\ (worker'[v].at # "idle" <=> worker[v].at # "idle")
             /\ worker'[v].passed = worker[v].passed
             /\ (worker'[v].after # worker[v].after => worker[v].kind \in overrun)
  <2>0. WorkerRecord(worker[v])
    BY DEF SyncInv, Records
  <2>1. CASE v = w
    <3>1. worker'[v] = [worker[w] EXCEPT !.at = "store"]
      BY <2>1 DEF Fetch
    <3> QED BY <1>1, <2>1, <3>1 DEF WorkerRecord
  <2>2. CASE v # w /\ worker[v].at = "store" /\ worker[v].kind = worker[w].kind
    <3>1. worker'[v] = [worker[v] EXCEPT !.after = @ \cup {w}]
      BY <2>2 DEF Fetch
    <3>2. worker[v].kind \in overrun
      BY <2>2, InvGivesOneWorker DEF OneWorkerPerKind
    <3> QED BY <2>0, <3>1, <3>2 DEF WorkerRecord
  <2>3. CASE v # w /\ ~(worker[v].at = "store" /\ worker[v].kind = worker[w].kind)
    <3>1. worker'[v] = worker[v]
      BY <2>3 DEF Fetch
    <3> QED BY <2>0, <3>1
  <2> QED BY <2>1, <2>2, <2>3
<1>4. Records' /\ OvertakenOverran'
  BY <1>1, <1>2, <1>3 DEF SyncInv, Records, OvertakenOverran
<1>5. WorkersOwn' /\ NobodyPastLease'
  BY <1>1, <1>3 DEF SyncInv, WorkersOwn, NobodyPastLease, Owns, Running
<1> QED BY <1>1, <1>4, <1>5 DEF SyncInv

LEMMA StoreStep ==
    ASSUME SyncInv, NEW w \in Workers, Store(w)
    PROVE  SyncInv'
<1>1. /\ worker[w].at = "store" /\ UNCHANGED <<job, overrun>> /\ WorkerRecord(worker[w])
      /\ outdated' = IF worker[w].passed THEN outdated \cup {worker[w].kind}
                                         ELSE outdated \ {worker[w].kind}
  BY DEF Store, SyncInv, Records
<1>2. DOMAIN worker' = Workers
  BY DEF Store
<1>3. ASSUME NEW v \in Workers
      PROVE  /\ WorkerRecord(worker'[v]) /\ worker'[v].kind = worker[v].kind
             /\ (worker'[v].at # "idle" <=> worker[v].at # "idle")
             /\ (worker'[v].after # {} \/ worker'[v].passed =>
                   worker[v].after # {} \/ worker[v].passed)
  <2>0. WorkerRecord(worker[v])
    BY DEF SyncInv, Records
  <2>1. CASE v = w
    <3>1. worker'[v] = Finishing(w, "pending") /\ worker[w].kind \in Kinds
      BY <1>1, <2>1 DEF Store, WorkerRecord
    <3> QED BY <1>1, <2>1, <3>1, FinishingRecord
  <2>2. CASE v # w
    <3>1. worker'[v] = [worker[v] EXCEPT !.after = @ \ {w}, !.passed = @ \/ w \in worker[v].after]
      BY <2>2 DEF Store
    <3> QED BY <2>0, <3>1 DEF WorkerRecord
  <2> QED BY <2>1, <2>2
<1>4. Records' /\ OvertakenOverran'
  BY <1>1, <1>2, <1>3 DEF SyncInv, Records, OvertakenOverran
<1>5. WorkersOwn' /\ NobodyPastLease'
  BY <1>1, <1>3 DEF SyncInv, WorkersOwn, NobodyPastLease, Owns, Running
<1>6. outdated' \subseteq overrun'
  BY <1>1 DEF SyncInv, OvertakenOverran
<1> QED BY <1>4, <1>5, <1>6 DEF SyncInv

LEMMA FinishStep ==
    ASSUME SyncInv, NEW w \in Workers, Finish(w)
    PROVE  SyncInv'
<1> DEFINE k == worker[w].kind
<1>1. /\ worker[w].at = "finish" /\ worker' = [worker EXCEPT ![w] = Rest]
      /\ UNCHANGED <<overrun, outdated>> /\ k \in Kinds
  BY DEF Finish, SyncInv, Records, WorkerRecord
<1>2. CASE job' = job
  BY <1>1, <1>2, RestRecord, WorkerGoesOn
<1>3. CASE /\ Owns(w, k)
           /\ job' = [job EXCEPT ![k] = [status |-> worker[w].to, owner |-> None, lease |-> "none"]]
  <2>1. /\ DOMAIN worker' = Workers /\ worker'[w] = Rest
        /\ \A v \in Workers : v # w => worker'[v] = worker[v]
    BY <1>1 DEF SyncInv, Records
  <2>2. /\ DOMAIN job' = Kinds /\ JobRecord(job'[k]) /\ job'[k].lease = "none"
        /\ \A j \in Kinds : j # k => job'[j] = job[j]
    BY <1>1, <1>3 DEF SyncInv, Records, JobRecord
  <2>3. Records'
    BY <2>1, <2>2, RestRecord DEF SyncInv, Records
  <2>4. WorkersOwn'
    <3> SUFFICES ASSUME NEW v \in Workers, worker'[v].at # "idle", worker'[v].kind \notin overrun
                 PROVE  /\ job'[worker'[v].kind].owner = v
                        /\ job'[worker'[v].kind].status = "running"
      BY <1>1 DEF WorkersOwn, Owns
    <3>1. v # w /\ worker'[v] = worker[v] /\ worker[v].kind \in Kinds
      BY <2>1, RestRecord DEF SyncInv, Records, WorkerRecord
    <3>2. worker[v].kind # k
      BY <1>1, <3>1, InvGivesOneWorker DEF OneWorkerPerKind
    <3> QED BY <2>2, <3>1, <3>2 DEF SyncInv, WorkersOwn, Owns
  <2>5. NobodyPastLease'
    BY <1>1, <2>1, <2>2, RestRecord DEF SyncInv, NobodyPastLease, Running
  <2>6. OvertakenOverran'
    BY <1>1, <2>1, RestRecord DEF SyncInv, OvertakenOverran
  <2> QED BY <1>1, <2>3, <2>4, <2>5, <2>6 DEF SyncInv
<1> QED BY <1>2, <1>3 DEF Finish

LEMMA CrashStep ==
    ASSUME SyncInv, NEW w \in Workers, Crash(w)
    PROVE  SyncInv'
<1>1. UNCHANGED <<job, overrun, outdated>> /\ DOMAIN worker' = Workers
  BY DEF Crash
<1>2. ASSUME NEW v \in Workers
      PROVE  /\ WorkerRecord(worker'[v])
             /\ (worker'[v].at # "idle" => /\ worker[v].at # "idle"
                                           /\ worker'[v].kind = worker[v].kind)
             /\ (worker'[v].after # {} \/ worker'[v].passed =>
                   /\ worker'[v].kind = worker[v].kind
                   /\ worker[v].after # {} \/ worker[v].passed)
  <2>1. CASE v = w
    <3>1. worker'[v] = Rest
      BY <2>1 DEF Crash
    <3> QED BY <3>1, RestRecord
  <2>2. CASE v # w
    <3>1. worker'[v] = [worker[v] EXCEPT !.after = @ \ {w}] /\ WorkerRecord(worker[v])
      BY <2>2 DEF Crash, SyncInv, Records
    <3> QED BY <3>1 DEF WorkerRecord
  <2> QED BY <2>1, <2>2
<1>3. Records' /\ OvertakenOverran'
  BY <1>1, <1>2 DEF SyncInv, Records, OvertakenOverran
<1>4. WorkersOwn' /\ NobodyPastLease'
  BY <1>1, <1>2 DEF SyncInv, WorkersOwn, NobodyPastLease, Owns, Running
<1> QED BY <1>1, <1>3, <1>4 DEF SyncInv

\* The steps of a worker that only move it on.
LEMMA MovingSteps ==
    ASSUME SyncInv, NEW w \in Workers,
           \/ Load(w) \/ RefreshRefused(w) \/ Save(w) \/ CallFails(w)
           \/ \E t \in Tokens : RefreshAccepted(w, t)
    PROVE  SyncInv'
<1>0. /\ UNCHANGED <<job, overrun, outdated>>
      /\ worker[w].at \in {"load", "refresh", "save", "fetch", "store"}
  BY DEF Load, RefreshRefused, Save, CallFails, RefreshAccepted
<1>1. worker[w].at # "idle" /\ WorkerRecord(worker[w]) /\ worker[w].kind \in Kinds
  BY <1>0 DEF SyncInv, Records, WorkerRecord
<1>2. ASSUME NEW to, worker' = [worker EXCEPT ![w] = Finishing(w, to)]
      PROVE  SyncInv'
  BY <1>0, <1>1, <1>2, FinishingRecord, WorkerGoesOn
<1>3. CASE Load(w)
  <2>1. CASE \E to : worker' = [worker EXCEPT ![w] = Finishing(w, to)]
    BY <1>2, <2>1
  <2>2. CASE worker' = [worker EXCEPT ![w] =
                 [@ EXCEPT !.at = "refresh", !.token = grant.token, !.scope = grant.scope]]
    <3>1. worker'[w] = [worker[w] EXCEPT !.at = "refresh", !.token = grant.token,
                                         !.scope = grant.scope]
      BY <2>2 DEF SyncInv, Records
    <3>2. worker' = [worker EXCEPT ![w] = worker'[w]]
      BY <2>2, <3>1
    <3>3. /\ WorkerRecord(worker'[w]) /\ worker'[w].at = "refresh"
          /\ worker'[w].kind = worker[w].kind
          /\ worker'[w].after = worker[w].after /\ worker'[w].passed = worker[w].passed
      BY <1>1, <3>1 DEF WorkerRecord
    <3> QED BY <1>0, <1>1, <3>2, <3>3, WorkerGoesOn
  <2> QED BY <1>3, <2>1, <2>2 DEF Load
<1>4. CASE RefreshRefused(w) \/ CallFails(w)
  <2>1. \E to : worker' = [worker EXCEPT ![w] = Finishing(w, to)]
    BY <1>4 DEF RefreshRefused, CallFails
  <2> QED BY <1>2, <2>1
<1>5. CASE Save(w)
  <2> DEFINE r == At("fetch", worker[w].kind, "none")
  <2>1. worker' = [worker EXCEPT ![w] = r]
    BY <1>5 DEF Save
  <2>2. WorkerRecord(r) /\ r.at = "fetch" /\ r.kind = worker[w].kind /\ r.after = {} /\ r.passed = FALSE
    BY <1>1 DEF At, WorkerRecord
  <2> HIDE DEF r
  <2> QED BY <1>0, <1>1, <2>1, <2>2, WorkerGoesOn
<1>6. ASSUME NEW t \in Tokens, RefreshAccepted(w, t)
      PROVE  SyncInv'
  <2>1. worker'[w] = [worker[w] EXCEPT !.at = "save", !.new = t]
    BY <1>6 DEF RefreshAccepted, SyncInv, Records
  <2>2. worker' = [worker EXCEPT ![w] = worker'[w]]
    BY <1>6, <2>1 DEF RefreshAccepted, SyncInv, Records
  <2>3. /\ WorkerRecord(worker'[w]) /\ worker'[w].at = "save"
        /\ worker'[w].kind = worker[w].kind
        /\ worker'[w].after = worker[w].after /\ worker'[w].passed = worker[w].passed
    BY <1>1, <2>1 DEF WorkerRecord
  <2> QED BY <1>0, <1>1, <2>2, <2>3, WorkerGoesOn
<1> QED BY <1>3, <1>4, <1>5, <1>6

LEMMA StepSync == SyncInv /\ [Next]_vars => SyncInv'
<1> SUFFICES ASSUME SyncInv, [Next]_vars
             PROVE  SyncInv'
  OBVIOUS
<1>1. ASSUME NEW k \in Kinds, Enqueue(k)
      PROVE  SyncInv'
  <2> DEFINE r == [status |-> "pending", owner |-> None, lease |-> "none"]
  <2>1. /\ job' = [job EXCEPT ![k] = r] /\ UNCHANGED <<worker, outdated>>
        /\ overrun' = IF job[k].status = "running" THEN overrun \cup {k} ELSE overrun
    BY <1>1 DEF Enqueue
  <2>2. JobRecord(r)
    BY DEF JobRecord
  <2>3. k \in overrun' \/ \A w \in Workers : ~ Running(w, k)
    BY <2>1 DEF SyncInv, WorkersOwn, Owns, Running
  <2>4. overrun \subseteq overrun'
    BY <2>1
  <2> HIDE DEF r
  <2> QED BY <2>1, <2>2, <2>3, <2>4, JobChanges
<1>2. ASSUME NEW k \in Kinds, LeaseExpires(k) \/ Stall(k)
      PROVE  SyncInv'
  <2> DEFINE r == [job[k] EXCEPT !.lease = "expired"]
  <2>1. /\ job' = [job EXCEPT ![k] = r] /\ UNCHANGED <<worker, outdated>>
        /\ overrun \subseteq overrun'
        /\ k \in overrun' \/ ~ Running(job[k].owner, k)
    BY <1>2 DEF LeaseExpires, Stall, Expire
  <2>2. JobRecord(r)
    BY DEF JobRecord, SyncInv, Records
  <2>3. k \in overrun' \/ \A w \in Workers : ~ Running(w, k)
    BY <2>1 DEF SyncInv, WorkersOwn, Owns, Running
  <2> HIDE DEF r
  <2> QED BY <2>1, <2>2, <2>3, JobChanges
<1>3. ASSUME NEW k \in Kinds, TimePasses(k)
      PROVE  SyncInv'
  BY <1>3, Elsewhere DEF TimePasses
<1>4. ASSUME NEW w \in Workers, Work(w) \/ CallFails(w) \/ Crash(w)
      PROVE  SyncInv'
  BY <1>4, ClaimStep, MovingSteps, FetchStep, StoreStep, FinishStep, CrashStep DEF Work
<1>5. ASSUME NEW scope \in SUBSET Kinds, Login(scope)
      PROVE  SyncInv'
  BY <1>5, Elsewhere DEF Login
<1>6. CASE EnqueueFails \/ LoadDetail \/ \E t \in Tokens : RefreshDetail(t)
  BY <1>6, Elsewhere DEF EnqueueFails, LoadDetail, RefreshDetail
<1>7. CASE UNCHANGED vars
  BY <1>7, Elsewhere DEF vars
<1> QED BY <1>1, <1>2, <1>3, <1>4, <1>5, <1>6, <1>7 DEF Next

-----------------------------------------------------------------------------
(* Types.  A running job is in line, so that its worker can postpone it.   *)

Lined == \A k \in Kinds : job[k].status = "running" => k \in ToSet(line)

Counters == [logins : 0 .. MaxLogins, details : 0 .. MaxDetails, faults : 0 .. MaxFaults]

GrantTyped == grant \in Grant /\ accepted \subseteq Tokens /\ detail \in Tokens \cup {None}
JobsTyped == job \in [Kinds -> Job] /\ LineOver(Kinds, line) /\ Lined
SetsTyped == login \subseteq Kinds /\ outdated \subseteq Kinds /\ overrun \subseteq Kinds
WorkersTyped == worker \in [Workers -> Worker]
CountsTyped == counts \in Counters

Typed == /\ GrantTyped /\ JobsTyped /\ SetsTyped /\ WorkersTyped /\ CountsTyped
         /\ broken \in BOOLEAN

LEMMA TypedIsTypeOK == Typed => TypeOK
BY DEF Typed, TypeOK, GrantTyped, JobsTyped, SetsTyped, WorkersTyped, CountsTyped, Counters,
       LineOver

LEMMA FreshIsFree == \A t \in Fresh : t \in Tokens /\ t \notin Held /\ t \notin accepted
<1>1. CASE Free = {}
  BY <1>1 DEF Fresh
<1>2. CASE Free # {}
  <2> DEFINE new == CHOOSE t \in Free : TRUE
  <2>1. new \in Free
    BY <1>2
  <2> HIDE DEF new
  <2>2. new \in Tokens /\ new \notin Held /\ new \notin accepted
    BY <2>1 DEF Free
  <2>3. Fresh = {new}
    BY <1>2 DEF Fresh, new
  <2> QED BY <2>2, <2>3
<1> QED BY <1>1, <1>2

LEMMA Counts ==
    ASSUME CountsTyped, NEW what, NEW max \in Nat, Count(what, max),
           \/ what = "logins" /\ max = MaxLogins
           \/ what = "details" /\ max = MaxDetails
           \/ what = "faults" /\ max = MaxFaults
    PROVE  CountsTyped'
<1>1. counts[what] < max /\ counts' = [counts EXCEPT ![what] = counts[what] + 1]
  BY DEF Count
<1>2. /\ counts.logins \in 0 .. MaxLogins /\ counts.details \in 0 .. MaxDetails
      /\ counts.faults \in 0 .. MaxFaults
  BY DEF CountsTyped, Counters
<1>3. MaxLogins \in Nat /\ MaxDetails \in Nat /\ MaxFaults \in Nat
  BY EsiSyncAssumption
<1> QED BY <1>1, <1>2, <1>3 DEF CountsTyped, Counters

LEMMA TypedWorkers ==
    /\ Rest \in Worker
    /\ \A w \in Workers, to \in {"pending", "failed", "blocked"} :
         worker[w] \in Worker => Finishing(w, to) \in Worker
    /\ \A k \in Kinds : At("load", k, "none") \in Worker /\ At("fetch", k, "none") \in Worker
<1>1. \A st \in Stages, k \in Kinds \cup {None}, to \in {"none", "pending", "failed", "blocked"} :
        At(st, k, to) \in Worker
  BY DEF At, Worker
<1> QED BY <1>1 DEF Rest, Finishing, Worker, Stages

LEMMA InitTyped == Init => Typed
<1> SUFFICES ASSUME Init
             PROVE  Typed
  OBVIOUS
<1>1. GrantTyped /\ SetsTyped
  BY DEF Init, GrantTyped, SetsTyped, Grant
<1>2. JobsTyped
  BY EmptyLine DEF Init, JobsTyped, Job, Lined
<1>3. WorkersTyped
  BY TypedWorkers DEF Init, WorkersTyped
<1>4. CountsTyped
  BY EsiSyncAssumption DEF Init, CountsTyped, Counters
<1> QED BY <1>1, <1>2, <1>3, <1>4 DEF Init, Typed

\* The job of a kind changes; the line gets longer.
LEMMA TypedJob ==
    ASSUME JobsTyped, NEW k \in Kinds, NEW r \in Job, job' = [job EXCEPT ![k] = r],
           LineOver(Kinds, line'), ToSet(line) \subseteq ToSet(line'),
           r.status = "running" => k \in ToSet(line')
    PROVE  JobsTyped'
BY DEF JobsTyped, Lined

LEMMA TypedDue ==
    ASSUME JobsTyped, NEW k \in Kinds
    PROVE  LineOver(Kinds, Due(k)) /\ ToSet(line) \subseteq ToSet(Due(k))
<1>1. CASE k \in ToSet(line)
  BY <1>1 DEF Due, JobsTyped
<1>2. CASE k \notin ToSet(line)
  <2>1. Due(k) = Append(line, k) /\ LineOver(Kinds, line)
    BY <1>2 DEF Due, JobsTyped
  <2> QED BY <1>2, <2>1, JoinLine
<1> QED BY <1>1, <1>2

LEMMA FinishTyped ==
    ASSUME Typed, SyncInv, NEW w \in Workers, Finish(w)
    PROVE  JobsTyped'
<1> DEFINE k == worker[w].kind
           to == worker[w].to
           r == [status |-> to, owner |-> None, lease |-> "none"]
<1>1. worker[w] \in Worker /\ worker[w].at = "finish" /\ k \in Kinds
  BY DEF Typed, WorkersTyped, Finish, SyncInv, Records, WorkerRecord
<1>2. r \in Job
  BY <1>1 DEF Worker, Job
<1>3. CASE ~ Owns(w, k)
  BY <1>3 DEF Finish, Typed, JobsTyped, Lined
<1>4. CASE Owns(w, k)
  <2>1. job' = [job EXCEPT ![k] = r] /\ line' = IF to = "blocked" THEN line ELSE Postponed(k)
    BY <1>4 DEF Finish
  <2>2. k \in ToSet(line) /\ LineOver(Kinds, line)
    BY <1>1, <1>4 DEF Owns, Typed, JobsTyped, Lined
  <2> DEFINE i == CHOOSE j \in DOMAIN line : line[j] = k
  <2>3. i \in DOMAIN line /\ line[i] = k
    BY <2>2 DEF ToSet
  <2>4. Postponed(k) = RemoveAt(line, i)
    BY DEF Postponed
  <2> HIDE DEF i, r
  <2>5. LineOver(Kinds, Postponed(k)) /\ ToSet(Postponed(k)) = ToSet(line) \ {k}
    BY <2>2, <2>3, <2>4, LeaveLine
  <2>6. LineOver(Kinds, line') /\ \A j \in Kinds : j # k /\ j \in ToSet(line) => j \in ToSet(line')
    BY <2>1, <2>2, <2>5
  <2>7. r.status # "running"
    BY <1>1 DEF r, Worker
  <2> HIDE DEF k
  <2> QED BY <1>1, <1>2, <2>1, <2>6, <2>7 DEF Typed, JobsTyped, Lined
<1> QED BY <1>3, <1>4

\* What a worker may become, whoever else is told of it.
LEMMA TypedTogether ==
    ASSUME WorkersTyped, NEW w \in Workers, Fetch(w) \/ Store(w) \/ Crash(w)
    PROVE  WorkersTyped'
<1>1. ASSUME NEW v \in Workers
      PROVE  worker'[v] \in Worker
  <2>0. worker[v] \in Worker
    BY DEF WorkersTyped
  <2>1. CASE Fetch(w)
    <3>1. \/ worker'[v] = [worker[v] EXCEPT !.at = "store"]
          \/ worker'[v] = [worker[v] EXCEPT !.after = @ \cup {w}]
          \/ worker'[v] = worker[v]
      BY <2>1 DEF Fetch
    <3> QED BY <2>0, <3>1 DEF Worker, Stages
  <2>2. CASE Store(w)
    <3> DEFINE told == worker[v].passed \/ w \in worker[v].after
    <3>1. \/ worker'[v] = Finishing(v, "pending")
          \/ worker'[v] = [worker[v] EXCEPT !.after = @ \ {w}, !.passed = told]
      BY <2>2 DEF Store
    <3>2. told \in BOOLEAN
      OBVIOUS
    <3>3. worker[v].after \ {w} \in SUBSET Workers
      BY <2>0 DEF Worker
    <3> HIDE DEF told
    <3>4. [worker[v] EXCEPT !.after = @ \ {w}, !.passed = told] \in Worker
      BY <2>0, <3>2, <3>3 DEF Worker
    <3> QED BY <2>0, <3>1, <3>4, TypedWorkers
  <2>3. CASE Crash(w)
    <3>1. worker'[v] = Rest \/ worker'[v] = [worker[v] EXCEPT !.after = @ \ {w}]
      BY <2>3 DEF Crash
    <3> QED BY <2>0, <3>1, TypedWorkers DEF Worker, Stages
  <2> QED BY <2>1, <2>2, <2>3
<1>2. worker' = [v \in Workers |-> worker'[v]]
  BY DEF Fetch, Store, Crash
<1> QED BY <1>1, <1>2 DEF WorkersTyped

LEMMA StepTyped == Typed /\ SyncInv /\ [Next]_vars => Typed'
<1> SUFFICES ASSUME Typed, SyncInv, [Next]_vars
             PROVE  Typed'
  OBVIOUS
<1> USE DEF Typed
<1>a. MaxLogins \in Nat /\ MaxDetails \in Nat /\ MaxFaults \in Nat
  BY EsiSyncAssumption
<1>1. ASSUME NEW scope \in SUBSET Kinds, Login(scope)
      PROVE  Typed'
  <2>1. GrantTyped'
    BY <1>1, FreshIsFree DEF Login, Accepts, GrantTyped, Grant
  <2>2. CountsTyped'
    BY <1>1, <1>a, Counts DEF Login
  <2>3. JobsTyped' /\ SetsTyped' /\ WorkersTyped'
    BY <1>1 DEF Login, JobsTyped, Lined, SetsTyped, WorkersTyped
  <2>4. broken' \in BOOLEAN
    BY <1>1 DEF Login, InUse
  <2> QED BY <2>1, <2>2, <2>3, <2>4
<1>2. ASSUME NEW k \in Kinds, Enqueue(k)
      PROVE  Typed'
  <2>1. JobsTyped'
    <3> DEFINE r == [status |-> "pending", owner |-> None, lease |-> "none"]
    <3>1. r \in Job /\ r.status # "running"
      BY DEF Job
    <3>2. job' = [job EXCEPT ![k] = r] /\ line' = Due(k)
      BY <1>2 DEF Enqueue
    <3> HIDE DEF r
    <3> QED BY <3>1, <3>2, TypedDue, TypedJob
  <2>2. SetsTyped'
    BY <1>2 DEF Enqueue, SetsTyped
  <2>3. GrantTyped' /\ WorkersTyped' /\ CountsTyped'
    BY <1>2 DEF Enqueue, GrantTyped, WorkersTyped, CountsTyped
  <2> QED BY <1>2, <2>1, <2>2, <2>3 DEF Enqueue
<1>3. ASSUME NEW k \in Kinds, LeaseExpires(k) \/ Stall(k)
      PROVE  Typed'
  <2>1. JobsTyped'
    <3> DEFINE r == [job[k] EXCEPT !.lease = "expired"]
    <3>1. r \in Job /\ r.status = job[k].status
      BY DEF JobsTyped, Job
    <3>2. job' = [job EXCEPT ![k] = r] /\ line' = line
      BY <1>3 DEF LeaseExpires, Stall, Expire
    <3>3. LineOver(Kinds, line) /\ (r.status = "running" => k \in ToSet(line))
      BY <3>1 DEF JobsTyped, Lined
    <3> HIDE DEF r
    <3> QED BY <3>1, <3>2, <3>3, TypedJob
  <2>2. CountsTyped'
    BY <1>3, <1>a, Counts DEF LeaseExpires, Stall, CountsTyped
  <2>3. SetsTyped' /\ GrantTyped' /\ WorkersTyped' /\ broken' = broken
    BY <1>3 DEF LeaseExpires, Stall, SetsTyped, GrantTyped, WorkersTyped
  <2> QED BY <2>1, <2>2, <2>3
<1>4. ASSUME NEW k \in Kinds, TimePasses(k)
      PROVE  Typed'
  <2>1. job' = job /\ line' = Append(line, k) /\ k \notin ToSet(line)
    BY <1>4 DEF TimePasses
  <2>2. LineOver(Kinds, line') /\ ToSet(line) \subseteq ToSet(line')
    BY <2>1, JoinLine DEF JobsTyped
  <2>3. JobsTyped'
    BY <2>1, <2>2 DEF JobsTyped, Lined
  <2>4. SetsTyped' /\ GrantTyped' /\ WorkersTyped' /\ CountsTyped' /\ broken' = broken
    BY <1>4 DEF TimePasses, SetsTyped, GrantTyped, WorkersTyped, CountsTyped
  <2> QED BY <2>3, <2>4
<1>5. CASE EnqueueFails
  <2>1. CountsTyped'
    BY <1>5, <1>a, Counts DEF EnqueueFails
  <2>2. SetsTyped' /\ GrantTyped' /\ WorkersTyped' /\ JobsTyped' /\ broken' = broken
    BY <1>5 DEF EnqueueFails, SetsTyped, GrantTyped, WorkersTyped, JobsTyped, Lined
  <2> QED BY <2>1, <2>2
<1>6. ASSUME NEW w \in Workers, Claim(w)
      PROVE  Typed'
  <2>1. PICK k \in Kinds :
          /\ First(k) /\ worker' = [worker EXCEPT ![w] = At("load", k, "none")]
          /\ job' = [job EXCEPT ![k] = [status |-> "running", owner |-> w, lease |-> "current"]]
    BY <1>6 DEF Claim
  <2>2. WorkersTyped'
    BY <2>1, TypedWorkers DEF WorkersTyped
  <2>3. JobsTyped'
    <3> DEFINE r == [status |-> "running", owner |-> w, lease |-> "current"]
    <3>1. r \in Job
      BY DEF Job
    <3>2. job' = [job EXCEPT ![k] = r] /\ line' = line
      BY <1>6, <2>1 DEF Claim
    <3>3. LineOver(Kinds, line) /\ k \in ToSet(line)
      BY <2>1 DEF JobsTyped, First, ToSet
    <3> HIDE DEF r
    <3> QED BY <3>1, <3>2, <3>3, TypedJob
  <2>4. SetsTyped' /\ GrantTyped' /\ CountsTyped' /\ broken' = broken
    BY <1>6 DEF Claim, SetsTyped, GrantTyped, CountsTyped
  <2> QED BY <2>2, <2>3, <2>4
<1>7. ASSUME NEW w \in Workers, Load(w)
      PROVE  Typed'
  <2>1. worker[w] \in Worker /\ worker[w].at = "load"
    BY <1>7 DEF WorkersTyped, Load
  <2>2. WorkersTyped'
    <3> DEFINE r == [worker[w] EXCEPT !.at = "refresh", !.token = grant.token, !.scope = grant.scope]
    <3>1. r \in Worker
      BY <2>1 DEF Worker, Stages, GrantTyped, Grant
    <3>2. worker' = [worker EXCEPT ![w] = worker'[w]]
      BY <1>7 DEF Load, WorkersTyped
    <3>3. worker'[w] \in {r, Finishing(w, "failed"), Finishing(w, "blocked")}
      BY <1>7 DEF Load, WorkersTyped
    <3> HIDE DEF r
    <3>4. worker'[w] \in Worker
      BY <2>1, <3>1, <3>3, TypedWorkers
    <3> QED BY <3>2, <3>4 DEF WorkersTyped
  <2>3. SetsTyped' /\ GrantTyped' /\ CountsTyped' /\ JobsTyped'
    BY <1>7 DEF Load, SetsTyped, GrantTyped, CountsTyped, JobsTyped, Lined
  <2>4. broken' \in BOOLEAN
    BY <1>7 DEF Load, InUse
  <2> QED BY <2>2, <2>3, <2>4
<1>8. ASSUME NEW w \in Workers, NEW t \in Tokens, RefreshAccepted(w, t)
      PROVE  Typed'
  <2>1. WorkersTyped'
    <3> DEFINE r == [worker[w] EXCEPT !.at = "save", !.new = t]
    <3>0. worker[w] \in Worker /\ t \in Tokens
      BY DEF WorkersTyped
    <3>1. r \in Worker
      BY <3>0 DEF Worker, Stages
    <3>2. worker' = [worker EXCEPT ![w] = r]
      BY <1>8 DEF RefreshAccepted, WorkersTyped
    <3> HIDE DEF r
    <3> QED BY <3>1, <3>2 DEF WorkersTyped
  <2>2. GrantTyped'
    BY <1>8 DEF RefreshAccepted, Accepts, GrantTyped
  <2>3. SetsTyped' /\ CountsTyped' /\ JobsTyped' /\ broken' = broken
    BY <1>8 DEF RefreshAccepted, SetsTyped, CountsTyped, JobsTyped, Lined
  <2> QED BY <2>1, <2>2, <2>3
<1>9. ASSUME NEW w \in Workers, RefreshRefused(w)
      PROVE  Typed'
  <2>1. WorkersTyped'
    BY <1>9, TypedWorkers DEF RefreshRefused, WorkersTyped
  <2>2. GrantTyped'
    BY <1>9 DEF RefreshRefused, GrantTyped, Grant
  <2>3. SetsTyped' /\ CountsTyped' /\ JobsTyped' /\ broken' = broken
    BY <1>9 DEF RefreshRefused, SetsTyped, CountsTyped, JobsTyped, Lined
  <2> QED BY <2>1, <2>2, <2>3
<1>10. ASSUME NEW w \in Workers, Save(w)
       PROVE  Typed'
  <2>1. worker[w] \in Worker /\ worker[w].kind \in Kinds
    BY <1>10 DEF Save, WorkersTyped, SyncInv, Records, WorkerRecord
  <2>2. WorkersTyped'
    BY <1>10, <2>1, TypedWorkers DEF Save, WorkersTyped
  <2>3. GrantTyped'
    BY <1>10, <2>1 DEF Save, GrantTyped, Grant, Worker
  <2>4. SetsTyped' /\ CountsTyped' /\ JobsTyped' /\ broken' = broken
    BY <1>10 DEF Save, SetsTyped, CountsTyped, JobsTyped, Lined
  <2> QED BY <2>2, <2>3, <2>4
<1>11. ASSUME NEW w \in Workers, Fetch(w)
       PROVE  Typed'
  <2>1. SetsTyped' /\ GrantTyped' /\ CountsTyped' /\ JobsTyped' /\ broken' = broken
    BY <1>11 DEF Fetch, SetsTyped, GrantTyped, CountsTyped, JobsTyped, Lined
  <2> QED BY <1>11, <2>1, TypedTogether
<1>12. ASSUME NEW w \in Workers, Store(w)
       PROVE  Typed'
  <2>1. SetsTyped'
    BY <1>12 DEF Store, SetsTyped, SyncInv, Records, WorkerRecord
  <2>2. GrantTyped' /\ CountsTyped' /\ JobsTyped' /\ broken' = broken
    BY <1>12 DEF Store, GrantTyped, CountsTyped, JobsTyped, Lined
  <2> QED BY <1>12, <2>1, <2>2, TypedTogether
<1>13. ASSUME NEW w \in Workers, Finish(w)
       PROVE  Typed'
  <2>1. WorkersTyped'
    BY <1>13, TypedWorkers DEF Finish, WorkersTyped
  <2>2. SetsTyped' /\ GrantTyped' /\ CountsTyped' /\ broken' = broken
    BY <1>13 DEF Finish, SetsTyped, GrantTyped, CountsTyped
  <2> QED BY <1>13, <2>1, <2>2, FinishTyped
<1>14. ASSUME NEW w \in Workers, CallFails(w)
       PROVE  Typed'
  <2>1. WorkersTyped'
    BY <1>14, TypedWorkers DEF CallFails, WorkersTyped
  <2>2. GrantTyped'
    BY <1>14 DEF CallFails, Accepts, GrantTyped
  <2>3. CountsTyped'
    BY <1>14, <1>a, Counts DEF CallFails
  <2>4. SetsTyped' /\ JobsTyped'
    BY <1>14 DEF CallFails, SetsTyped, JobsTyped, Lined
  <2>5. broken' \in BOOLEAN
    BY <1>14 DEF CallFails
  <2> QED BY <2>1, <2>2, <2>3, <2>4, <2>5
<1>15. ASSUME NEW w \in Workers, Crash(w)
       PROVE  Typed'
  <2>1. CountsTyped'
    BY <1>15, <1>a, Counts DEF Crash
  <2>2. SetsTyped' /\ GrantTyped' /\ JobsTyped'
    BY <1>15 DEF Crash, SetsTyped, GrantTyped, JobsTyped, Lined
  <2>3. broken' \in BOOLEAN
    BY <1>15 DEF Crash
  <2> QED BY <1>15, <2>1, <2>2, <2>3, TypedTogether
<1>16. CASE LoadDetail
  <2>1. GrantTyped'
    BY <1>16 DEF LoadDetail, GrantTyped, Grant
  <2>2. CountsTyped'
    BY <1>16, <1>a, Counts DEF LoadDetail
  <2>3. SetsTyped' /\ JobsTyped' /\ WorkersTyped'
    BY <1>16 DEF LoadDetail, SetsTyped, JobsTyped, Lined, WorkersTyped
  <2>4. broken' \in BOOLEAN
    BY <1>16 DEF LoadDetail, InUse
  <2> QED BY <2>1, <2>2, <2>3, <2>4
<1>17. ASSUME NEW t \in Tokens, RefreshDetail(t)
       PROVE  Typed'
  <2>1. GrantTyped'
    BY <1>17 DEF RefreshDetail, Accepts, GrantTyped
  <2>2. SetsTyped' /\ JobsTyped' /\ WorkersTyped' /\ CountsTyped'
    BY <1>17 DEF RefreshDetail, SetsTyped, JobsTyped, Lined, WorkersTyped, CountsTyped
  <2>3. broken' \in BOOLEAN
    BY <1>17 DEF RefreshDetail
  <2> QED BY <2>1, <2>2, <2>3
<1>18. CASE UNCHANGED vars
  BY <1>18 DEF vars, GrantTyped, JobsTyped, Lined, SetsTyped, WorkersTyped, CountsTyped
<1> QED BY <1>1, <1>2, <1>3, <1>4, <1>5, <1>6, <1>7, <1>8, <1>9, <1>10, <1>11, <1>12, <1>13,
           <1>14, <1>15, <1>16, <1>17, <1>18 DEF Next, Work

-----------------------------------------------------------------------------
(* The grant, as long as nothing is broken: one reader at a time, which    *)
(* holds the stored token, so that what it saves succeeds what is stored.  *)

Reads(w) == worker[w].at \in {"refresh", "save"}

OneReader == /\ \A v, w \in Workers : Reads(v) /\ Reads(w) => v = w
             /\ \A w \in Workers : Reads(w) => detail = None

ReadersHold ==
    /\ \A w \in Workers : Reads(w) => grant.status = "active" /\ worker[w].token = grant.token
    /\ detail # None => detail = grant.token

NewAccepted == \A w \in Workers : worker[w].at = "save" => worker[w].new \in accepted

Usable == /\ grant.status # "revoked"
          /\ grant.status = "active" =>
               grant.token \in accepted \/ \E w \in Workers : worker[w].at = "save"

GrantInv == OneReader /\ ReadersHold /\ NewAccepted /\ Usable

LEMMA GrantInvGives == Typed /\ (~ broken => GrantInv) => GrantStaysUsable
<1>1. Typed => grant.status \in {"none", "active", "revoked"}
  BY DEF Typed, GrantTyped, Grant
<1>2. GrantInv /\ grant.status \in {"none", "active", "revoked"} /\ grant.status # "none" =>
        /\ grant.status = "active"
        /\ grant.token \in accepted \/ \E w \in Workers : worker[w].at = "save"
  BY DEF GrantInv, Usable
<1> QED BY <1>1, <1>2, Zenon DEF GrantStaysUsable

LEMMA InitGrant == Init => (~ broken => GrantInv)
BY RestRecord DEF Init, GrantInv, OneReader, ReadersHold, NewAccepted, Usable, Reads

LEMMA NotInUse == ~ InUse => detail = None /\ \A w \in Workers : ~ Reads(w)
BY DEF InUse, Reads

\* Nothing changes but a worker, which is no reader before and after.
LEMMA NoReader ==
    ASSUME GrantInv, UNCHANGED <<grant, accepted, detail>>, NEW w \in Workers,
           ~ Reads(w), worker'[w].at \notin {"refresh", "save"},
           \A v \in Workers : v # w =>
               /\ worker'[v].at = worker[v].at /\ worker'[v].token = worker[v].token
               /\ worker'[v].new = worker[v].new
    PROVE  GrantInv'
<1>1. \A v \in Workers : worker'[v].at \in {"refresh", "save"} <=> Reads(v)
  BY DEF Reads
<1>2. OneReader'
  BY <1>1 DEF GrantInv, OneReader, Reads
<1>3. ReadersHold'
  BY <1>1 DEF GrantInv, ReadersHold, Reads
<1>4. NewAccepted' /\ Usable'
  BY <1>1 DEF GrantInv, NewAccepted, Usable, Reads
<1> QED BY <1>2, <1>3, <1>4 DEF GrantInv

LEMMA GrantElsewhere ==
    ASSUME GrantInv, UNCHANGED <<grant, accepted, detail, worker>>
    PROVE  GrantInv'
BY DEF GrantInv, OneReader, ReadersHold, NewAccepted, Usable, Reads

LEMMA LoginKeepsGrant ==
    ASSUME Typed, NEW scope \in SUBSET Kinds, Login(scope), ~ InUse
    PROVE  GrantInv'
<1>1. PICK new \in Fresh : /\ grant' = [status |-> "active", token |-> new, scope |-> scope]
                           /\ new \in accepted'
  BY DEF Login, Accepts
<1>2. worker' = worker /\ detail' = None /\ \A w \in Workers : ~ Reads(w)
  BY NotInUse DEF Login
<1> QED BY <1>1, <1>2 DEF GrantInv, OneReader, ReadersHold, NewAccepted, Usable, Reads

LEMMA LoadKeepsGrant ==
    ASSUME GrantInv, Typed, NEW w \in Workers, Load(w), ~ InUse
    PROVE  GrantInv'
<1>0. worker[w] \in Worker /\ UNCHANGED <<grant, accepted, detail>> /\ worker[w].at = "load"
  BY DEF Load, Typed, WorkersTyped
<1>1. detail = None /\ \A v \in Workers : ~ Reads(v)
  BY NotInUse
<1>2. \A v \in Workers : v # w => worker'[v] = worker[v]
  BY DEF Load, Typed, WorkersTyped
<1>3. \/ worker'[w].at = "finish"
      \/ /\ worker'[w].at = "refresh" /\ worker'[w].token = grant.token
         /\ grant.status = "active"
  <2>1. CASE grant.status = "active" /\ worker[w].kind \in grant.scope
    <3>1. worker'[w] = [worker[w] EXCEPT !.at = "refresh", !.token = grant.token,
                                         !.scope = grant.scope]
      BY <2>1 DEF Load, Typed, WorkersTyped
    <3> QED BY <1>0, <2>1, <3>1 DEF Worker
  <2>2. CASE ~ (grant.status = "active" /\ worker[w].kind \in grant.scope)
    <3>1. worker'[w] \in {Finishing(w, "failed"), Finishing(w, "blocked")}
      BY <2>2 DEF Load, Typed, WorkersTyped
    <3> QED BY <3>1 DEF Finishing, At
  <2> QED BY <2>1, <2>2
<1>4. \A v \in Workers : v # w => worker'[v].at \notin {"refresh", "save"}
  BY <1>1, <1>2 DEF Reads
<1>5. OneReader' /\ ReadersHold' /\ NewAccepted'
  BY <1>0, <1>1, <1>3, <1>4 DEF OneReader, ReadersHold, NewAccepted, Reads
<1>6. Usable'
  BY <1>0, <1>1 DEF GrantInv, Usable, Reads
<1> QED BY <1>5, <1>6 DEF GrantInv

LEMMA RefreshKeepsGrant ==
    ASSUME GrantInv, Typed, NEW w \in Workers, NEW t \in Tokens, RefreshAccepted(w, t)
    PROVE  GrantInv'
<1>0. worker[w] \in Worker /\ UNCHANGED <<grant, detail>> /\ worker[w].at = "refresh"
  BY DEF RefreshAccepted, Typed, WorkersTyped
<1>1. \A v \in Workers : v # w => worker'[v] = worker[v]
  BY DEF RefreshAccepted, Typed, WorkersTyped
<1>2. worker'[w].at = "save" /\ worker'[w].new = t /\ worker'[w].token = worker[w].token
  <2>1. worker'[w] = [worker[w] EXCEPT !.at = "save", !.new = t]
    BY DEF RefreshAccepted, Typed, WorkersTyped
  <2> QED BY <1>0, <2>1 DEF Worker
<1>3. t \in accepted'
  BY DEF RefreshAccepted, Accepts
<1>4. /\ \A v \in Workers : v # w => ~ Reads(v)
      /\ detail = None /\ grant.status = "active" /\ worker[w].token = grant.token
  BY <1>0 DEF GrantInv, OneReader, ReadersHold, Reads
<1>5. \A v \in Workers : v # w => worker'[v].at \notin {"refresh", "save"}
  BY <1>1, <1>4 DEF Reads
<1> QED BY <1>0, <1>2, <1>3, <1>4, <1>5
        DEF GrantInv, OneReader, ReadersHold, NewAccepted, Usable, Reads

\* The stored token is accepted, and it is what the reader has presented.
LEMMA NeverRefused ==
    ASSUME GrantInv, NEW w \in Workers, RefreshRefused(w)
    PROVE  FALSE
<1>1. worker[w].at = "refresh" /\ worker[w].token \notin accepted
  BY DEF RefreshRefused
<1>2. grant.status = "active" /\ worker[w].token = grant.token
  BY <1>1 DEF GrantInv, ReadersHold, Reads
<1>3. PICK v \in Workers : worker[v].at = "save"
  BY <1>1, <1>2 DEF GrantInv, Usable
<1> QED BY <1>1, <1>3 DEF GrantInv, OneReader, Reads

LEMMA SaveKeepsGrant ==
    ASSUME GrantInv, Typed, NEW w \in Workers, Save(w)
    PROVE  GrantInv'
<1>0. UNCHANGED <<accepted, detail>> /\ worker[w].at = "save"
  BY DEF Save
<1>1. /\ worker'[w].at = "fetch"
      /\ \A v \in Workers : v # w => worker'[v] = worker[v]
  BY DEF Save, At, Typed, WorkersTyped
<1>2. /\ \A v \in Workers : v # w => ~ Reads(v)
      /\ detail = None /\ grant.status = "active" /\ worker[w].token = grant.token
      /\ worker[w].new \in accepted
  BY <1>0 DEF GrantInv, OneReader, ReadersHold, NewAccepted, Reads
<1>3. grant'.status = "active" /\ grant'.token = worker[w].new
  BY <1>2 DEF Save, Saves
<1>4. \A v \in Workers : worker'[v].at \notin {"refresh", "save"}
  BY <1>1, <1>2 DEF Reads
<1> QED BY <1>0, <1>2, <1>3, <1>4
        DEF GrantInv, OneReader, ReadersHold, NewAccepted, Usable, Reads

LEMMA DetailKeepsGrant ==
    ASSUME GrantInv, LoadDetail, ~ InUse
    PROVE  GrantInv'
<1>1. detail' = grant.token /\ UNCHANGED <<grant, accepted, worker>>
  BY DEF LoadDetail
<1>2. \A w \in Workers : ~ Reads(w)
  BY NotInUse
<1> QED BY <1>1, <1>2 DEF GrantInv, OneReader, ReadersHold, NewAccepted, Usable, Reads

LEMMA StepGrant ==
    Typed /\ SyncInv /\ (~ broken => GrantInv) /\ [Next]_vars => (~ broken' => GrantInv')
<1> SUFFICES ASSUME Typed, SyncInv, ~ broken => GrantInv, [Next]_vars, ~ broken'
             PROVE  GrantInv'
  OBVIOUS
<1>a. WorkersTyped
  BY DEF Typed
<1>1. ASSUME NEW scope \in SUBSET Kinds, Login(scope)
      PROVE  GrantInv'
  <2>1. ~ InUse
    BY <1>1, Zenon DEF Login
  <2> QED BY <1>1, <2>1, LoginKeepsGrant
<1>2. ASSUME broken' = broken
      PROVE  GrantInv
  BY <1>2
<1>3. ASSUME NEW k \in Kinds, Enqueue(k) \/ LeaseExpires(k) \/ Stall(k) \/ TimePasses(k)
      PROVE  GrantInv'
  <2>1. broken' = broken /\ UNCHANGED <<grant, accepted, detail, worker>>
    BY <1>3 DEF Enqueue, LeaseExpires, Stall, TimePasses
  <2> QED BY <1>2, <2>1, GrantElsewhere
<1>4. CASE EnqueueFails \/ UNCHANGED vars
  <2>1. broken' = broken /\ UNCHANGED <<grant, accepted, detail, worker>>
    BY <1>4 DEF EnqueueFails, vars
  <2> QED BY <1>2, <2>1, GrantElsewhere
<1>5. ASSUME NEW w \in Workers, Claim(w) \/ Finish(w)
      PROVE  GrantInv'
  <2>1. broken' = broken /\ UNCHANGED <<grant, accepted, detail>>
    BY <1>5 DEF Claim, Finish
  <2>2. /\ worker[w].at \in {"idle", "finish"} /\ worker'[w].at \in {"idle", "load"}
        /\ \A v \in Workers : v # w => worker'[v] = worker[v]
    BY <1>5, <1>a DEF Claim, Finish, At, Rest, WorkersTyped
  <2> QED BY <1>2, <2>1, <2>2, NoReader DEF Reads
<1>6. ASSUME NEW w \in Workers, Fetch(w) \/ Store(w)
      PROVE  GrantInv'
  <2>1. broken' = broken /\ UNCHANGED <<grant, accepted, detail>>
    BY <1>6 DEF Fetch, Store
  <2>2. worker[w].at \in {"fetch", "store"} /\ worker'[w].at \in {"store", "finish"}
    <3>1. CASE Fetch(w)
      <4>1. worker'[w] = [worker[w] EXCEPT !.at = "store"] /\ worker[w] \in Worker
        BY <1>a, <3>1 DEF Fetch, WorkersTyped
      <4> QED BY <3>1, <4>1 DEF Fetch, Worker
    <3>2. CASE Store(w)
      <4>1. worker'[w] = Finishing(w, "pending")
        BY <3>2 DEF Store
      <4> QED BY <3>2, <4>1 DEF Store, Finishing, At
    <3> QED BY <1>6, <3>1, <3>2
  <2>3. ASSUME NEW v \in Workers, v # w
        PROVE  /\ worker'[v].at = worker[v].at /\ worker'[v].token = worker[v].token
               /\ worker'[v].new = worker[v].new
    <3>0. worker[v] \in Worker
      BY <1>a DEF WorkersTyped
    <3>1. CASE Fetch(w)
      <4>1. worker'[v] = [worker[v] EXCEPT !.after = @ \cup {w}] \/ worker'[v] = worker[v]
        BY <2>3, <3>1 DEF Fetch
      <4> QED BY <3>0, <4>1 DEF Worker
    <3>2. CASE Store(w)
      <4>1. worker'[v] = [worker[v] EXCEPT !.after = @ \ {w}, !.passed = @ \/ w \in worker[v].after]
        BY <2>3, <3>2 DEF Store
      <4> QED BY <3>0, <4>1 DEF Worker
    <3> QED BY <1>6, <3>1, <3>2
  <2> QED BY <1>2, <2>1, <2>2, <2>3, NoReader DEF Reads
<1>7. ASSUME NEW w \in Workers, Load(w)
      PROVE  GrantInv'
  <2>1. ~ broken /\ ~ InUse
    BY <1>7, Zenon DEF Load
  <2> QED BY <1>7, <2>1, LoadKeepsGrant
<1>8. ASSUME NEW w \in Workers, NEW t \in Tokens, RefreshAccepted(w, t)
      PROVE  GrantInv'
  <2>1. broken' = broken
    BY <1>8 DEF RefreshAccepted
  <2> QED BY <1>2, <1>8, <2>1, RefreshKeepsGrant
<1>9. ASSUME NEW w \in Workers, RefreshRefused(w)
      PROVE  GrantInv'
  <2>1. broken' = broken
    BY <1>9 DEF RefreshRefused
  <2> QED BY <1>2, <1>9, <2>1, NeverRefused
<1>10. ASSUME NEW w \in Workers, Save(w)
       PROVE  GrantInv'
  <2>1. broken' = broken
    BY <1>10 DEF Save
  <2> QED BY <1>2, <1>10, <2>1, SaveKeepsGrant
<1>11. ASSUME NEW w \in Workers, CallFails(w)
       PROVE  GrantInv'
  <2>1. ~ broken /\ ~ Reads(w)
    BY <1>11, Zenon DEF CallFails, Reads
  <2>2. UNCHANGED <<grant, accepted, detail>>
    BY <1>11, <2>1 DEF CallFails, Reads
  <2>3. /\ worker'[w].at = "finish"
        /\ \A v \in Workers : v # w => worker'[v] = worker[v]
    BY <1>11, <1>a DEF CallFails, Finishing, At, WorkersTyped
  <2> QED BY <2>1, <2>2, <2>3, NoReader
<1>12. ASSUME NEW w \in Workers, Crash(w)
       PROVE  GrantInv'
  <2>1. ~ broken /\ ~ Reads(w)
    BY <1>12, Zenon DEF Crash, Reads
  <2>2. UNCHANGED <<grant, accepted, detail>> /\ worker'[w].at = "idle"
    BY <1>12 DEF Crash, Rest, At
  <2>3. ASSUME NEW v \in Workers, v # w
        PROVE  /\ worker'[v].at = worker[v].at /\ worker'[v].token = worker[v].token
               /\ worker'[v].new = worker[v].new
    <3>1. worker'[v] = [worker[v] EXCEPT !.after = @ \ {w}] /\ worker[v] \in Worker
      BY <1>12, <1>a, <2>3 DEF Crash, WorkersTyped
    <3> QED BY <3>1 DEF Worker
  <2> QED BY <2>1, <2>2, <2>3, NoReader
<1>13. CASE LoadDetail
  <2>1. ~ broken /\ ~ InUse
    BY <1>13, Zenon DEF LoadDetail
  <2> QED BY <1>13, <2>1, DetailKeepsGrant
<1>14. ASSUME NEW t \in Tokens, RefreshDetail(t)
       PROVE  GrantInv'
  <2>1. ~ broken
    BY <1>14, Zenon DEF RefreshDetail
  <2>2. detail \in accepted => t = detail
    BY <1>14, Zenon DEF RefreshDetail
  <2>3. accepted' = accepted /\ detail' = None /\ UNCHANGED <<grant, worker>>
    BY <1>14, <2>2 DEF RefreshDetail, Accepts
  <2> QED BY <2>1, <2>3 DEF GrantInv, OneReader, ReadersHold, NewAccepted, Usable, Reads
<1> QED BY <1>1, <1>3, <1>4, <1>5, <1>6, <1>7, <1>8, <1>9, <1>10, <1>11, <1>12, <1>13, <1>14
        DEF Next, Work

-----------------------------------------------------------------------------
\* One worker is at a kind of data, unless its job was taken from it
\* (esisync.PostgresRepository.Claim, Enqueue).
THEOREM OneWorkerAtAKind == Spec => []OneWorkerPerKind
<1> QED BY InvGivesOneWorker, InitSync, StepSync, PTL DEF Spec

\* Stored data are replaced by data fetched later, unless a job was taken from
\* its worker (Worker.RunOnce, UpsertCharacterSnapshot).
THEOREM DataOnlyForward == Spec => []DataMovesForward
<1>1. SyncInv => DataMovesForward
  BY DEF SyncInv, DataMovesForward
<1> QED BY <1>1, InitSync, StepSync, PTL DEF Spec

\* The types, and both of the above: what the run checks (module EsiSync).
THEOREM SynchronisationIsSound == Spec => []EsiSyncInvariant
<1>1. Init => Typed /\ SyncInv
  BY InitTyped, InitSync
<1>2. (Typed /\ SyncInv) /\ [Next]_vars => (Typed /\ SyncInv)'
  BY StepTyped, StepSync
<1>3. Typed /\ SyncInv => EsiSyncInvariant
  BY TypedIsTypeOK, InvGivesOneWorker DEF EsiSyncInvariant, DataMovesForward, SyncInv
<1> QED BY <1>1, <1>2, <1>3, PTL DEF Spec

\* The stored grant stays one the authorization server accepts, while its
\* readers do not meet and no rotated token is lost (Worker.RunOnce,
\* withAccessToken, issueSSOSession).
THEOREM GrantIsUsable == Spec => []GrantStaysUsable
<1> DEFINE I == Typed /\ SyncInv /\ (~ broken => GrantInv)
<1>1. Init => I
  BY InitTyped, InitSync, InitGrant
<1>2. I /\ [Next]_vars => I'
  <2> SUFFICES ASSUME I, [Next]_vars
               PROVE  I'
    OBVIOUS
  <2>1. Typed' /\ SyncInv'
    BY StepTyped, StepSync
  <2>2. ~ broken' => GrantInv'
    BY StepGrant
  <2> QED BY <2>1, <2>2, Zenon
<1>3. I => GrantStaysUsable
  BY GrantInvGives
<1> HIDE DEF I
<1> QED BY <1>1, <1>2, <1>3, PTL DEF Spec

-----------------------------------------------------------------------------
(* Public data                                                             *)

Sleeping(c) == AtPlace(c, "sleep")

\* What holds of a request, of its process' next slow slot and the clock.
CallSound(r, next, now) ==
    /\ r.at \in Places
    /\ r.at = "sleep" =>
          /\ r.since \in Nat /\ r.since <= now /\ r.start \in Nat /\ r.hold \in Nat
          /\ r.start - r.since <= MaxWait
          /\ r.hold > r.since => r.start >= r.hold
          /\ r.slow /\ r.start >= now => r.start < next
    /\ r.at = "store" => r.value \in Nat /\ r.value <= now
    /\ r.at = "done" => r.stale \/ r.own \/ r.unexpired

\* What holds of a limiter: it keeps the latest hold it was told of.
LimiterSound(l, told, now) ==
    /\ l \in [scarce : BOOLEAN, until : Nat, next : Nat]
    /\ told \in Nat
    /\ told > now => l.until >= told

PublicShapes ==
    /\ cache \in [PublicKinds -> 0..(MaxClock + Fallback)]
    /\ mu = [s \in Servers |-> mu[s]]
    /\ limiter = [s \in Servers |-> limiter[s]]
    /\ announced = [s \in Servers |-> announced[s]]
    /\ call = [c \in Callers |-> call[c]]
    /\ clock \in 0..MaxClock

MutexesOfTheirOwn == \A s \in Servers : mu[s] = "none" \/ ServerOf[mu[s]] = s
LimitersSound == \A s \in Servers : LimiterSound(limiter[s], announced[s], clock)
CallsSound == \A c \in Callers : CallSound(call[c], limiter[ServerOf[c]].next, clock)

\* Two slow starts planned in one process differ.
StartsDiffer ==
    \A c, d \in Callers :
        /\ c # d /\ Sleeping(c) /\ Sleeping(d) /\ ServerOf[c] = ServerOf[d]
        /\ call[c].slow /\ call[d].slow
        => call[c].start # call[d].start

PublicInv ==
    /\ PublicShapes /\ MutexesOfTheirOwn /\ LimitersSound /\ CallsSound /\ StartsDiffer

\* The invariant says what the run checks.
LEMMA PublicInvIsEnough == PublicInv => PublicDataIsSound
<1> SUFFICES ASSUME PublicInv PROVE PublicDataIsSound
  OBVIOUS
<1>1. PublicTypeOK
  <2>1. \A s \in Servers : limiter[s].scarce \in BOOLEAN
    BY DEF PublicInv, LimitersSound, LimiterSound
  <2>2. \A c \in Callers : call[c].at \in Places
    BY DEF PublicInv, CallsSound, CallSound
  <2> QED
    BY <2>1, <2>2 DEF PublicInv, PublicShapes, MutexesOfTheirOwn, PublicTypeOK
<1>2. RequestsArePaced
  BY DEF PublicInv, CallsSound, CallSound, StartsDiffer, RequestsArePaced, AtPlace, Sleeping
<1>3. UnmarkedIsCurrent
  BY DEF PublicInv, CallsSound, CallSound, UnmarkedIsCurrent, AtPlace
<1> QED
  BY <1>1, <1>2, <1>3 DEF PublicDataIsSound

LEMMA PublicInitially == PublicInit => PublicInv
<1> SUFFICES ASSUME PublicInit PROVE PublicInv
  OBVIOUS
<1> USE PublicConstants DEF PublicInit
<1>1. PublicShapes
  BY DEF PublicShapes
<1>2. MutexesOfTheirOwn
  BY DEF MutexesOfTheirOwn
<1>3. LimitersSound
  BY DEF LimitersSound, LimiterSound
<1>4. CallsSound
  BY DEF CallsSound, CallSound, IdleCall, Places
<1>5. StartsDiffer
  BY DEF StartsDiffer, Sleeping, AtPlace, IdleCall
<1> QED
  BY <1>1, <1>2, <1>3, <1>4, <1>5 DEF PublicInv

\* A request that moves on while slots may be taken leaves the others as sound as
\* they were; a slow start it plans is not another's.
LEMMA CallMoves ==
  ASSUME PublicInv, NEW c \in Callers, NEW r, Go(c, r),
         CallSound(r, limiter'[ServerOf[c]].next, clock), clock' = clock,
         \A s \in Servers : limiter'[s].next \in Nat /\ limiter'[s].next >= limiter[s].next,
         r.at # "sleep" \/ \A d \in Callers :
            d # c /\ Sleeping(d) /\ ServerOf[d] = ServerOf[c] /\ call[d].slow /\ r.slow
                => call[d].start # r.start
  PROVE  /\ call' = [d \in Callers |-> call'[d]]
         /\ CallsSound'
         /\ StartsDiffer'
<1>1. call' = [d \in Callers |-> IF d = c THEN r ELSE call[d]]
  BY DEF PublicInv, PublicShapes, Go
<1>2. CallsSound'
  <2> SUFFICES ASSUME NEW d \in Callers
               PROVE  CallSound(call'[d], limiter'[ServerOf[d]].next, clock)
    BY DEF CallsSound
  <2>1. CASE d = c
    BY <1>1, <2>1
  <2>2. CASE d # c
    <3>1. /\ limiter'[ServerOf[d]].next \in Nat /\ limiter[ServerOf[d]].next \in Nat
          /\ limiter'[ServerOf[d]].next >= limiter[ServerOf[d]].next
      BY DEF Servers, PublicInv, LimitersSound, LimiterSound
    <3>2. CallSound(call[d], limiter[ServerOf[d]].next, clock)
      BY DEF PublicInv, CallsSound
    <3>3. CallSound(call[d], limiter'[ServerOf[d]].next, clock)
      BY <3>1, <3>2 DEF CallSound
    <3> QED
      BY <1>1, <2>2, <3>3
  <2> QED
    BY <2>1, <2>2
<1>3. StartsDiffer'
  <2> SUFFICES ASSUME NEW d \in Callers, NEW e \in Callers, d # e,
                      call'[d].at = "sleep", call'[e].at = "sleep", ServerOf[d] = ServerOf[e],
                      call'[d].slow, call'[e].slow
               PROVE  call'[d].start # call'[e].start
    BY DEF StartsDiffer, Sleeping, AtPlace
  <2>1. CASE d = c
    BY <1>1, <2>1 DEF Sleeping, AtPlace
  <2>2. CASE e = c
    BY <1>1, <2>2 DEF Sleeping, AtPlace
  <2>3. CASE d # c /\ e # c
    <3>1. call'[d] = call[d] /\ call'[e] = call[e]
      BY <1>1, <2>3
    <3> QED
      BY <3>1 DEF PublicInv, StartsDiffer, Sleeping, AtPlace
  <2> QED
    BY <2>1, <2>2, <2>3
<1> QED
  BY <1>1, <1>2, <1>3

\* Releasing a mutex leaves the mutexes as they should be.
LEMMA Releases ==
  ASSUME PublicInv, NEW c \in Callers, mu' = Unlocked(c)
  PROVE  /\ mu' = [s \in Servers |-> mu'[s]]
         /\ MutexesOfTheirOwn'
<1>1. mu' = [s \in Servers |-> IF s = ServerOf[c] THEN IF mu[s] = c THEN "none" ELSE mu[s]
                              ELSE mu[s]]
  BY DEF PublicInv, PublicShapes, Unlocked
<1>2. MutexesOfTheirOwn'
  BY <1>1 DEF PublicInv, MutexesOfTheirOwn
<1> QED
  BY <1>1, <1>2

\* A failed fetch answers soundly.
LEMMA FailureMoves ==
  ASSUME PublicInv, NEW c \in Callers, FetchFailed(c), NEW next
  PROVE  \E r : Go(c, r) /\ r.at # "sleep" /\ CallSound(r, next, clock)
<1>1. CASE call[c].cached = 0
  <2>1. Go(c, IdleCall)
    BY <1>1 DEF FetchFailed
  <2>2. IdleCall.at # "sleep" /\ CallSound(IdleCall, next, clock)
    BY DEF CallSound, IdleCall, Places
  <2> QED
    BY <2>1, <2>2
<1>2. CASE call[c].cached # 0
  <2> DEFINE r == [at |-> "done", stale |-> TRUE, own |-> AtPlace(c, "store"),
                   unexpired |-> call[c].cached > call[c].asked]
  <2>1. Go(c, r)
    BY <1>2 DEF FetchFailed, Done
  <2>2. r.at = "done" /\ r.stale
    OBVIOUS
  <2> HIDE DEF r
  <2>3. r.at # "sleep" /\ CallSound(r, next, clock)
    BY <2>2 DEF CallSound, Places
  <2> QED
    BY <2>1, <2>3
<1> QED
  BY <1>1, <1>2

-----------------------------------------------------------------------------
\* Steps of the service that neither wait nor answer: the process' mutex and the
\* cache apart, only the request moves.
LEMMA ServiceStep ==
  ASSUME PublicInv, NEW c \in Callers, NEW r, Go(c, r), r.at # "sleep",
         CallSound(r, limiter[ServerOf[c]].next, clock),
         cache' \in [PublicKinds -> 0..(MaxClock + Fallback)],
         mu' = mu \/ mu' = Unlocked(c) \/ mu' = [mu EXCEPT ![ServerOf[c]] = c],
         UNCHANGED <<limiter, clock, announced>>
  PROVE  PublicInv'
<1>1. /\ call' = [d \in Callers |-> call'[d]]
      /\ CallsSound'
      /\ StartsDiffer'
  <2>1. \A s \in Servers : limiter[s].next \in Nat /\ limiter[s].next >= limiter[s].next
    BY DEF PublicInv, LimitersSound, LimiterSound
  <2> QED
    BY <2>1, CallMoves
<1>2. mu' = [s \in Servers |-> mu'[s]] /\ MutexesOfTheirOwn'
  <2>1. CASE mu' = mu
    BY <2>1 DEF PublicInv, PublicShapes, MutexesOfTheirOwn
  <2>2. CASE mu' = Unlocked(c)
    BY <2>2, Releases
  <2>3. CASE mu' = [mu EXCEPT ![ServerOf[c]] = c]
    <3>1. mu' = [s \in Servers |-> IF s = ServerOf[c] THEN c ELSE mu[s]]
      BY <2>3 DEF PublicInv, PublicShapes
    <3> QED
      BY <3>1 DEF PublicInv, MutexesOfTheirOwn
  <2> QED
    BY <2>1, <2>2, <2>3
<1>3. LimitersSound' /\ clock' \in 0..MaxClock
  BY DEF PublicInv, PublicShapes, LimitersSound
<1>4. limiter' = [s \in Servers |-> limiter'[s]] /\ announced' = [s \in Servers |-> announced'[s]]
  BY DEF PublicInv, PublicShapes
<1> QED
  BY <1>1, <1>2, <1>3, <1>4 DEF PublicInv, PublicShapes

LEMMA AskKeeps == ASSUME PublicInv, NEW c \in Callers, NEW k, AskPublicData(c, k) PROVE PublicInv'
<1>1. PICK forced \in BOOLEAN :
        Go(c, IF k = "quote" THEN [at |-> "wait", kind |-> k, asked |-> clock, cached |-> 0]
              ELSE [at |-> "read", kind |-> k, asked |-> clock, forced |-> forced])
  BY DEF AskPublicData
<1> DEFINE r == IF k = "quote" THEN [at |-> "wait", kind |-> k, asked |-> clock, cached |-> 0]
                ELSE [at |-> "read", kind |-> k, asked |-> clock, forced |-> forced]
<1>2. r.at \in {"wait", "read"}
  OBVIOUS
<1>3. Go(c, r)
  BY <1>1
<1> HIDE DEF r
<1>4. r.at # "sleep" /\ CallSound(r, limiter[ServerOf[c]].next, clock)
  BY <1>2 DEF CallSound, Places
<1>5. cache' \in [PublicKinds -> 0..(MaxClock + Fallback)] /\ mu' = mu
      /\ UNCHANGED <<limiter, clock, announced>>
  BY DEF AskPublicData, PublicInv, PublicShapes
<1> QED
  BY <1>3, <1>4, <1>5, ServiceStep

LEMMA ReadCacheKeeps == ASSUME PublicInv, NEW c \in Callers, ReadCache(c) PROVE PublicInv'
<1>1. cache' \in [PublicKinds -> 0..(MaxClock + Fallback)] /\ mu' = mu
      /\ UNCHANGED <<limiter, clock, announced>>
  BY DEF ReadCache, PublicInv, PublicShapes
<1> DEFINE e == cache[call[c].kind]
           refreshing(cached) == [at |-> "lock", kind |-> call[c].kind,
                                  asked |-> call[c].asked, cached |-> cached]
<1>2. \/ Unexpired(c, e) /\ Done(c, e, FALSE)
      \/ \E cached : Go(c, refreshing(cached))
      \/ Go(c, IdleCall)
  BY DEF ReadCache
<1>3. CASE Unexpired(c, e) /\ Done(c, e, FALSE)
  <2> DEFINE r == [at |-> "done", stale |-> FALSE, own |-> AtPlace(c, "store"),
                   unexpired |-> e > call[c].asked]
  <2>1. Go(c, r)
    BY <1>3 DEF Done
  <2>2. r.at = "done"
    OBVIOUS
  <2>3. r.unexpired
    BY <1>3 DEF Unexpired
  <2> HIDE DEF r
  <2>4. r.at # "sleep" /\ CallSound(r, limiter[ServerOf[c]].next, clock)
    BY <2>2, <2>3 DEF CallSound, Places
  <2> QED
    BY <1>1, <2>1, <2>4, ServiceStep
<1>4. ASSUME NEW cached, Go(c, refreshing(cached)) PROVE PublicInv'
  <2>1. refreshing(cached).at # "sleep"
        /\ CallSound(refreshing(cached), limiter[ServerOf[c]].next, clock)
    BY DEF CallSound, Places
  <2> HIDE DEF refreshing
  <2> QED
    BY <1>1, <1>4, <2>1, ServiceStep
<1>5. CASE Go(c, IdleCall)
  <2>1. IdleCall.at # "sleep" /\ CallSound(IdleCall, limiter[ServerOf[c]].next, clock)
    BY DEF CallSound, IdleCall, Places
  <2> QED
    BY <1>1, <1>5, <2>1, ServiceStep
<1> QED
  BY <1>2, <1>3, <1>4, <1>5

LEMMA LockKeeps == ASSUME PublicInv, NEW c \in Callers, LockService(c) PROVE PublicInv'
<1> DEFINE r == [at |-> "wait", kind |-> call[c].kind, asked |-> call[c].asked,
                 cached |-> call[c].cached]
<1>1. /\ Go(c, r) /\ mu' = [mu EXCEPT ![ServerOf[c]] = c]
      /\ cache' \in [PublicKinds -> 0..(MaxClock + Fallback)]
      /\ UNCHANGED <<limiter, clock, announced>>
  BY DEF LockService, PublicInv, PublicShapes
<1>2. r.at # "sleep" /\ CallSound(r, limiter[ServerOf[c]].next, clock)
  BY DEF CallSound, Places
<1> HIDE DEF r
<1> QED
  BY <1>1, <1>2, ServiceStep

\* A failed fetch, when the limiter stays as it is.
LEMMA FailureKeeps ==
  ASSUME PublicInv, NEW c \in Callers, FetchFailed(c), UNCHANGED <<cache, limiter, clock, announced>>
  PROVE  PublicInv'
<1>1. PICK r : Go(c, r) /\ r.at # "sleep" /\ CallSound(r, limiter[ServerOf[c]].next, clock)
  BY FailureMoves
<1>2. /\ cache' \in [PublicKinds -> 0..(MaxClock + Fallback)] /\ mu' = Unlocked(c)
  BY DEF PublicInv, PublicShapes, FetchFailed
<1> QED
  BY <1>1, <1>2, ServiceStep

LEMMA AwakeKeeps == ASSUME PublicInv, NEW c \in Callers, Awake(c) PROVE PublicInv'
<1> DEFINE r == [at |-> "sent", kind |-> call[c].kind, asked |-> call[c].asked,
                 cached |-> call[c].cached]
<1>1. CASE Go(c, r) /\ mu' = mu
  <2>1. r.at # "sleep" /\ CallSound(r, limiter[ServerOf[c]].next, clock)
    BY DEF CallSound, Places
  <2>2. /\ cache' \in [PublicKinds -> 0..(MaxClock + Fallback)]
        /\ UNCHANGED <<limiter, clock, announced>>
    BY DEF Awake, PublicInv, PublicShapes
  <2> HIDE DEF r
  <2> QED
    BY <1>1, <2>1, <2>2, ServiceStep
<1>2. CASE FetchFailed(c)
  BY <1>2, FailureKeeps DEF Awake
<1> QED
  BY <1>1, <1>2 DEF Awake

LEMMA NetworkFailsKeeps == ASSUME PublicInv, NEW c \in Callers, NetworkFails(c) PROVE PublicInv'
BY FailureKeeps DEF NetworkFails

LEMMA UpsertKeeps == ASSUME PublicInv, NEW c \in Callers, UpsertPublicData(c) PROVE PublicInv'
<1>1. mu' = Unlocked(c) /\ UNCHANGED <<limiter, clock, announced>> /\ call[c].at = "store"
  BY DEF UpsertPublicData, AtPlace
<1>2. ASSUME NEW lifetime \in {-1, 0, 1, Fallback},
             LET given == call[c].value + lifetime
                 e == IF lifetime < 0 \/ given < clock THEN clock + Fallback ELSE given
             IN  cache' = [cache EXCEPT ![call[c].kind] = e] /\ Done(c, e, FALSE)
      PROVE  PublicInv'
  <2> DEFINE given == call[c].value + lifetime
             e == IF lifetime < 0 \/ given < clock THEN clock + Fallback ELSE given
             r == [at |-> "done", stale |-> FALSE, own |-> AtPlace(c, "store"),
                   unexpired |-> e > call[c].asked]
  <2>1. cache' = [cache EXCEPT ![call[c].kind] = e] /\ Go(c, r)
    BY <1>2 DEF Done
  <2>2. call[c].value \in Nat /\ call[c].value <= clock
    BY <1>1 DEF PublicInv, CallsSound, CallSound
  <2>3. e \in 0..(MaxClock + Fallback)
    <3>1. clock \in 0..MaxClock
      BY DEF PublicInv, PublicShapes
    <3>2. CASE lifetime < 0 \/ given < clock
      <4>1. e = clock + Fallback
        BY <3>2
      <4> HIDE DEF e
      <4> QED
        BY <4>1, <3>1, PublicConstants
    <3>3. CASE ~(lifetime < 0 \/ given < clock)
      <4>1. e = call[c].value + lifetime /\ ~(lifetime < 0)
        BY <3>3
      <4>2. call[c].value + lifetime \in 0..(MaxClock + Fallback)
        BY <3>1, <2>2, <4>1, PublicConstants
      <4> QED
        BY <4>1, <4>2
    <3> QED
      BY <3>2, <3>3
  <2> HIDE DEF e
  <2>4. cache' \in [PublicKinds -> 0..(MaxClock + Fallback)]
    BY <2>1, <2>3 DEF PublicInv, PublicShapes
  <2>5. r.at = "done" /\ (r.own <=> AtPlace(c, "store"))
    OBVIOUS
  <2> HIDE DEF r
  <2>6. r.own
    BY <2>5, <1>1 DEF AtPlace
  <2>7. r.at # "sleep" /\ CallSound(r, limiter[ServerOf[c]].next, clock)
    BY <2>5, <2>6 DEF CallSound, Places
  <2> QED
    BY <1>1, <2>1, <2>4, <2>7, ServiceStep
<1>3. CASE cache' = cache /\ Go(c, IdleCall)
  <2>1. IdleCall.at # "sleep" /\ CallSound(IdleCall, limiter[ServerOf[c]].next, clock)
    BY DEF CallSound, IdleCall, Places
  <2>2. cache' \in [PublicKinds -> 0..(MaxClock + Fallback)]
    BY <1>3 DEF PublicInv, PublicShapes
  <2> QED
    BY <1>1, <1>3, <2>1, <2>2, ServiceStep
<1> QED
  BY <1>2, <1>3 DEF UpsertPublicData

-----------------------------------------------------------------------------
(* The steps that meet the limiter. *)

\* What an answer tells a limiter keeps it sound, and its next slot as it was.
LEMMA ObserveKeeps ==
  ASSUME NEW l, NEW told, NEW m \in Answers, clock \in Nat, LimiterSound(l, told, clock)
  PROVE  /\ LimiterSound(Observe(l, m), Later(told, HoldOf(m)), clock)
         /\ Observe(l, m).next = l.next
<1> DEFINE h == HoldOf(m)
           u == Later(l.until, h)
           sc == IF m.level = "unset" THEN l.scarce ELSE m.level = "scarce"
           o == [scarce |-> sc, until |-> IF u > clock THEN u ELSE 0, next |-> l.next]
<1>1. h \in Nat
  BY PublicConstants DEF HoldOf, Answers
<1>2. Observe(l, m) = o
  BY DEF Observe
<1> HIDE DEF h
<1>3. /\ u \in Nat /\ Later(told, h) \in Nat /\ l.next \in Nat /\ l.until \in Nat /\ told \in Nat
      /\ u >= l.until /\ u >= h /\ Later(told, h) \in {told, h}
      /\ told > clock => l.until >= told
      /\ Later(told, h) >= told /\ Later(told, h) >= h
  BY <1>1 DEF LimiterSound, Later
<1>4. sc \in BOOLEAN
  BY DEF LimiterSound
<1> HIDE DEF u, sc
<1>5. o \in [scarce : BOOLEAN, until : Nat, next : Nat] /\ o.next = l.next
  BY <1>3, <1>4
<1>6. Later(told, h) > clock => o.until >= Later(told, h)
  <2> SUFFICES ASSUME Later(told, h) > clock PROVE o.until >= Later(told, h)
    OBVIOUS
  <2>1. u >= Later(told, h)
    BY <1>1, <1>3
  <2>2. u > clock
    BY <1>3, <2>1
  <2> QED
    BY <2>1, <2>2
<1> HIDE DEF o
<1>7. Later(told, HoldOf(m)) = Later(told, h)
  BY DEF h
<1> QED
  BY <1>2, <1>3, <1>5, <1>6, <1>7 DEF LimiterSound

\* An answer observed, by the request's process alone.
LEMMA ObservedKeeps ==
  ASSUME PublicInv, NEW c \in Callers, NEW m \in Answers,
         IF call[c].kind \in Posted
         THEN LET s == ServerOf[c] IN
              /\ limiter' = [limiter EXCEPT ![s] = Observe(@, m)]
              /\ announced' = [announced EXCEPT ![s] = Later(@, HoldOf(m))]
         ELSE UNCHANGED <<limiter, announced>>,
         UNCHANGED clock
  PROVE  /\ LimitersSound'
         /\ limiter' = [s \in Servers |-> limiter'[s]]
         /\ announced' = [s \in Servers |-> announced'[s]]
         /\ \A s \in Servers : limiter'[s].next \in Nat /\ limiter'[s].next >= limiter[s].next
<1>0. clock \in Nat
  BY PublicConstants DEF PublicInv, PublicShapes
<1>1. CASE call[c].kind \in Posted
  <2> DEFINE s == ServerOf[c]
  <2>1. s \in Servers
    BY DEF Servers
  <2>2. limiter' = [t \in Servers |-> IF t = s THEN Observe(limiter[s], m) ELSE limiter[t]]
    BY <1>1, <2>1 DEF PublicInv, PublicShapes
  <2>3. announced' = [t \in Servers |-> IF t = s THEN Later(announced[s], HoldOf(m))
                                       ELSE announced[t]]
    BY <1>1, <2>1 DEF PublicInv, PublicShapes
  <2> HIDE DEF s
  <2>4. LimiterSound(limiter[s], announced[s], clock)
    BY <2>1 DEF PublicInv, LimitersSound
  <2>5. /\ LimiterSound(Observe(limiter[s], m), Later(announced[s], HoldOf(m)), clock)
        /\ Observe(limiter[s], m).next = limiter[s].next
    BY <1>0, <2>4, ObserveKeeps
  <2>6. ASSUME NEW t \in Servers
        PROVE  LimiterSound(limiter'[t], announced'[t], clock) /\ limiter'[t].next = limiter[t].next
    <3>1. CASE t = s
      BY <2>1, <2>2, <2>3, <2>5, <3>1
    <3>2. CASE t # s
      <4>1. limiter'[t] = limiter[t] /\ announced'[t] = announced[t]
        BY <2>2, <2>3, <3>2
      <4> QED
        BY <4>1 DEF PublicInv, LimitersSound
    <3> QED
      BY <3>1, <3>2
  <2>7. limiter' = [t \in Servers |-> limiter'[t]] /\ announced' = [t \in Servers |-> announced'[t]]
    BY <2>2, <2>3
  <2>8. \A t \in Servers : limiter[t].next \in Nat
    BY DEF PublicInv, LimitersSound, LimiterSound
  <2> QED
    BY <2>6, <2>7, <2>8 DEF LimitersSound
<1>2. CASE call[c].kind \notin Posted
  BY <1>2 DEF PublicInv, PublicShapes, LimitersSound, LimiterSound
<1> QED
  BY <1>1, <1>2

LEMMA AnswerKeeps == ASSUME PublicInv, NEW c \in Callers, Answer(c) PROVE PublicInv'
<1>1. PICK m \in Answers, fails \in BOOLEAN :
          /\ IF call[c].kind \in Posted
             THEN LET s == ServerOf[c] IN
                  /\ limiter' = [limiter EXCEPT ![s] = Observe(@, m)]
                  /\ announced' = [announced EXCEPT ![s] = Later(@, HoldOf(m))]
             ELSE UNCHANGED <<limiter, announced>>
          /\ \/ FetchFailed(c)
             \/ /\ mu' = mu
                /\ \/ Go(c, IdleCall)
                   \/ Go(c, [at |-> "store", kind |-> call[c].kind, asked |-> call[c].asked,
                             value |-> clock])
  BY Zenon DEF Answer
<1>2. UNCHANGED <<cache, clock>>
  BY DEF Answer
<1>3. /\ LimitersSound'
      /\ limiter' = [s \in Servers |-> limiter'[s]]
      /\ announced' = [s \in Servers |-> announced'[s]]
      /\ \A s \in Servers : limiter'[s].next \in Nat /\ limiter'[s].next >= limiter[s].next
  BY <1>1, <1>2, ObservedKeeps
<1>4. \E r : Go(c, r) /\ r.at # "sleep" /\ CallSound(r, limiter'[ServerOf[c]].next, clock)
  <2>1. CASE FetchFailed(c)
    BY <2>1, FailureMoves
  <2>2. CASE Go(c, IdleCall)
    <3>1. IdleCall.at # "sleep" /\ CallSound(IdleCall, limiter'[ServerOf[c]].next, clock)
      BY DEF CallSound, IdleCall, Places
    <3> QED
      BY <2>2, <3>1
  <2>3. CASE Go(c, [at |-> "store", kind |-> call[c].kind, asked |-> call[c].asked,
                    value |-> clock])
    <3> DEFINE r == [at |-> "store", kind |-> call[c].kind, asked |-> call[c].asked,
                     value |-> clock]
    <3>1. Go(c, r)
      BY <2>3
    <3>2. r.at = "store" /\ r.value = clock
      OBVIOUS
    <3> HIDE DEF r
    <3>3. clock \in Nat
      BY PublicConstants DEF PublicInv, PublicShapes
    <3>4. r.at # "sleep" /\ CallSound(r, limiter'[ServerOf[c]].next, clock)
      BY <3>2, <3>3 DEF CallSound, Places
    <3> QED
      BY <3>1, <3>4
  <2> QED
    BY <1>1, <2>1, <2>2, <2>3
<1>5. /\ call' = [d \in Callers |-> call'[d]]
      /\ CallsSound'
      /\ StartsDiffer'
  <2>1. PICK r : Go(c, r) /\ r.at # "sleep" /\ CallSound(r, limiter'[ServerOf[c]].next, clock)
    BY <1>4
  <2> QED
    BY <1>2, <1>3, <2>1, CallMoves
<1>6. mu' = [s \in Servers |-> mu'[s]] /\ MutexesOfTheirOwn'
  <2>1. CASE FetchFailed(c)
    BY <2>1, Releases DEF FetchFailed
  <2>2. CASE mu' = mu
    BY <2>2 DEF PublicInv, PublicShapes, MutexesOfTheirOwn
  <2> QED
    BY <1>1, <2>1, <2>2
<1>7. cache' \in [PublicKinds -> 0..(MaxClock + Fallback)] /\ clock' \in 0..MaxClock
  BY <1>2 DEF PublicInv, PublicShapes
<1> QED
  BY <1>3, <1>5, <1>6, <1>7 DEF PublicInv, PublicShapes

\* What the limiter decides: the start is not in the past, not before a hold it
\* was told of, and the next slow slot when it is a slow one.
LEMMA StartIsAhead ==
  ASSUME NEW l, NEW told, clock \in Nat, LimiterSound(l, told, clock)
  PROVE  /\ StartTime(l) \in Nat /\ StartTime(l) >= clock
         /\ told > clock => StartTime(l) >= told
         /\ Slow(l) => StartTime(l) >= l.next
         /\ Slow(l) \in BOOLEAN
<1>1. l.until \in Nat /\ l.next \in Nat /\ l.scarce \in BOOLEAN /\ told \in Nat
  BY DEF LimiterSound
<1>2. Slow(l) \in BOOLEAN
  BY <1>1 DEF Slow
<1>3. CASE l.until > clock
  BY <1>1, <1>3 DEF StartTime, Slow, LimiterSound
<1>4. CASE ~(l.until > clock) /\ Slow(l)
  BY <1>1, <1>4 DEF StartTime, Later, LimiterSound
<1>5. CASE ~(l.until > clock) /\ ~Slow(l)
  BY <1>1, <1>2, <1>5 DEF StartTime, LimiterSound
<1> QED
  BY <1>2, <1>3, <1>4, <1>5

LEMMA WaitKeeps == ASSUME PublicInv, NEW c \in Callers, Wait(c) PROVE PublicInv'
<1> DEFINE s == ServerOf[c]
           l == limiter[s]
           start == StartTime(l)
           told == announced[s]
           r == [at |-> "sleep", kind |-> call[c].kind, asked |-> call[c].asked,
                 cached |-> call[c].cached, since |-> clock, start |-> start,
                 slow |-> Slow(l), hold |-> told]
<1>1. /\ limiter' = IF Slow(l) THEN [limiter EXCEPT ![s] = TakeSlot(l, start)] ELSE limiter
      /\ IF start - clock > MaxWait THEN FetchFailed(c) ELSE Go(c, r) /\ mu' = mu
      /\ UNCHANGED <<cache, clock, announced>>
  BY DEF Wait
<1>2. s \in Servers
  BY DEF Servers
<1>3. clock \in Nat /\ LimiterSound(l, told, clock)
  BY <1>2, PublicConstants DEF PublicInv, PublicShapes, LimitersSound
<1>4. /\ start \in Nat /\ start >= clock
      /\ told > clock => start >= told
      /\ Slow(l) => start >= l.next
      /\ Slow(l) \in BOOLEAN
  BY <1>3, StartIsAhead
<1>5. /\ r.at = "sleep" /\ r.since = clock /\ r.start = start /\ r.slow = Slow(l)
      /\ r.hold = told
  OBVIOUS
<1> HIDE DEF r, start, told
<1>6. limiter' = [t \in Servers |-> IF t = s /\ Slow(l) THEN TakeSlot(l, start) ELSE limiter[t]]
  BY <1>1, <1>2 DEF PublicInv, PublicShapes
<1>7. LimiterSound(TakeSlot(l, start), told, clock) /\ TakeSlot(l, start).next = start + 1
  BY <1>3, <1>4 DEF LimiterSound, TakeSlot
<1>8. ASSUME NEW t \in Servers
      PROVE  /\ LimiterSound(limiter'[t], announced'[t], clock')
             /\ limiter'[t].next \in Nat /\ limiter'[t].next >= limiter[t].next
  <2>0. limiter[t].next \in Nat /\ LimiterSound(limiter[t], announced[t], clock)
    BY DEF PublicInv, LimitersSound, LimiterSound
  <2>1. CASE t = s /\ Slow(l)
    <3>1. limiter'[t] = TakeSlot(l, start) /\ announced'[t] = told
      BY <1>1, <1>6, <2>1 DEF told
    <3>2. limiter[t].next = l.next
      BY <2>1
    <3> HIDE DEF l
    <3> QED
      BY <1>1, <1>4, <1>7, <2>0, <2>1, <3>1, <3>2
  <2>2. CASE ~(t = s /\ Slow(l))
    <3>1. limiter'[t] = limiter[t] /\ announced'[t] = announced[t]
      BY <1>1, <1>6, <2>2
    <3> QED
      BY <1>1, <2>0, <3>1
  <2> QED
    BY <2>1, <2>2
<1>9. PICK q : /\ Go(c, q) /\ CallSound(q, limiter'[s].next, clock)
               /\ q.at # "sleep" \/ q = r
               /\ mu' = mu \/ mu' = Unlocked(c)
  <2>1. CASE start - clock > MaxWait
    BY <1>1, <2>1, FailureMoves DEF FetchFailed
  <2>2. CASE ~(start - clock > MaxWait)
    <3>1. Go(c, r) /\ mu' = mu
      BY <1>1, <2>2
    <3>2. Slow(l) => limiter'[s].next = start + 1
      BY <1>2, <1>6, <1>7
    <3>3. told \in Nat
      BY <1>3 DEF LimiterSound
    <3>4. CallSound(r, limiter'[s].next, clock)
      <4> HIDE DEF l
      <4>1. start - clock <= MaxWait
        BY <1>3, <1>4, <2>2, PublicConstants
      <4>2. Slow(l) => start < limiter'[s].next
        BY <1>4, <3>2
      <4> QED
        BY <1>3, <1>4, <1>5, <3>3, <4>1, <4>2 DEF CallSound, Places
    <3> QED
      BY <3>1, <3>4
  <2> QED
    BY <2>1, <2>2
<1>10. q.at # "sleep" \/ \A d \in Callers :
            d # c /\ Sleeping(d) /\ ServerOf[d] = ServerOf[c] /\ call[d].slow /\ q.slow
                => call[d].start # q.start
  <2> SUFFICES ASSUME q = r, NEW d \in Callers, Sleeping(d), ServerOf[d] = s, call[d].slow,
                      Slow(l), call[d].start = start
               PROVE  FALSE
    BY <1>5, <1>9
  <2>1. call[d].start >= clock => call[d].start < l.next
    BY DEF PublicInv, CallsSound, CallSound, Sleeping, AtPlace
  <2>2. l.next \in Nat
    BY <1>3 DEF LimiterSound
  <2> HIDE DEF l
  <2> QED
    BY <1>3, <1>4, <2>1, <2>2
<1>11. /\ call' = [d \in Callers |-> call'[d]]
       /\ CallsSound'
       /\ StartsDiffer'
  BY <1>1, <1>8, <1>9, <1>10, CallMoves
<1>12. mu' = [t \in Servers |-> mu'[t]] /\ MutexesOfTheirOwn'
  BY <1>9, Releases DEF PublicInv, PublicShapes, MutexesOfTheirOwn
<1>13. LimitersSound' /\ limiter' = [t \in Servers |-> limiter'[t]]
  BY <1>6, <1>8 DEF LimitersSound
<1>14. /\ cache' \in [PublicKinds -> 0..(MaxClock + Fallback)] /\ clock' \in 0..MaxClock
       /\ announced' = [t \in Servers |-> announced'[t]]
  BY <1>1 DEF PublicInv, PublicShapes
<1> QED
  BY <1>11, <1>12, <1>13, <1>14 DEF PublicInv, PublicShapes

\* The clock passes no start, slot or hold by more than a unit, and forgets only
\* what has passed.
LEMMA TickKeeps == ASSUME PublicInv, PublicTick PROVE PublicInv'
<1>1. /\ clock \in Nat /\ clock' = clock + 1 /\ clock' \in 0..MaxClock
      /\ limiter' = [s \in Servers |-> [scarce |-> limiter[s].scarce,
                        until |-> Ahead(limiter[s].until), next |-> Ahead(limiter[s].next)]]
      /\ announced' = [s \in Servers |-> Ahead(announced[s])]
      /\ UNCHANGED <<cache, mu, call>>
  BY PublicConstants DEF PublicInv, PublicShapes, PublicTick
<1>2. \A t \in Nat : Ahead(t) \in Nat /\ (t > clock + 1 => Ahead(t) = t) /\ Ahead(t) <= t
                    /\ (Ahead(t) > clock + 1 => t > clock + 1)
  BY <1>1 DEF Ahead
<1>3. ASSUME NEW s \in Servers PROVE LimiterSound(limiter'[s], announced'[s], clock')
  <2> DEFINE l == limiter[s]
             k == [scarce |-> l.scarce, until |-> Ahead(l.until), next |-> Ahead(l.next)]
  <2>1. /\ l.scarce \in BOOLEAN /\ l.until \in Nat /\ l.next \in Nat /\ announced[s] \in Nat
        /\ announced[s] > clock => l.until >= announced[s]
    BY DEF PublicInv, LimitersSound, LimiterSound
  <2>2. limiter'[s] = k /\ announced'[s] = Ahead(announced[s])
    BY <1>1
  <2>3. Ahead(l.until) \in Nat /\ Ahead(l.next) \in Nat /\ Ahead(announced[s]) \in Nat
    BY <1>2, <2>1
  <2> HIDE DEF l
  <2>4. k \in [scarce : BOOLEAN, until : Nat, next : Nat] /\ k.until = Ahead(l.until)
    BY <2>1, <2>3
  <2>5. Ahead(announced[s]) > clock + 1 => Ahead(l.until) >= Ahead(announced[s])
    BY <1>1, <1>2, <2>1
  <2> HIDE DEF k
  <2> QED
    BY <1>1, <2>2, <2>3, <2>4, <2>5 DEF LimiterSound
<1>4. ASSUME NEW c \in Callers PROVE CallSound(call'[c], limiter'[ServerOf[c]].next, clock')
  <2> DEFINE n == limiter[ServerOf[c]].next
  <2>1. CallSound(call[c], n, clock) /\ n \in Nat
    BY DEF PublicInv, CallsSound, LimitersSound, LimiterSound, Servers
  <2>2. limiter'[ServerOf[c]].next = Ahead(n) /\ call'[c] = call[c]
    BY <1>1 DEF Servers
  <2> HIDE DEF n
  <2>3. call[c].at = "sleep" /\ call[c].slow /\ call[c].start >= clock + 1 => call[c].start < Ahead(n)
    BY <1>1, <1>2, <2>1 DEF CallSound
  <2>4. CallSound(call[c], Ahead(n), clock + 1)
    BY <1>1, <2>1, <2>3 DEF CallSound
  <2> QED
    BY <1>1, <2>2, <2>4
<1>5. MutexesOfTheirOwn' /\ StartsDiffer'
  BY <1>1 DEF PublicInv, MutexesOfTheirOwn, StartsDiffer, Sleeping, AtPlace
<1>6. PublicShapes'
  BY <1>1 DEF PublicInv, PublicShapes
<1> QED
  BY <1>3, <1>4, <1>5, <1>6 DEF PublicInv, LimitersSound, CallsSound

LEMMA PublicInductive == PublicInv /\ [PublicNext]_publicVars => PublicInv'
<1> SUFFICES ASSUME PublicInv, [PublicNext]_publicVars PROVE PublicInv'
  OBVIOUS
<1>1. ASSUME NEW c \in Callers,
             \/ \E k \in PublicKinds \cup {"quote"} : AskPublicData(c, k)
             \/ ReadCache(c) \/ LockService(c) \/ Wait(c) \/ Awake(c) \/ Answer(c)
             \/ NetworkFails(c) \/ UpsertPublicData(c)
      PROVE  PublicInv'
  BY <1>1, AskKeeps, ReadCacheKeeps, LockKeeps, WaitKeeps, AwakeKeeps, AnswerKeeps,
     NetworkFailsKeeps, UpsertKeeps
<1>2. CASE PublicTick
  BY <1>2, TickKeeps
<1>3. CASE UNCHANGED publicVars
  BY <1>3 DEF publicVars, PublicInv, PublicShapes, MutexesOfTheirOwn, LimitersSound, CallsSound,
              StartsDiffer, Sleeping, AtPlace
<1> QED
  BY <1>1, <1>2, <1>3 DEF PublicNext

\* However requests of any number of processes race, and whatever ESI answers:
\* starts under a scarce budget are a delay apart in a process, none is before a
\* hold its process knew of or waits longer than the limit, and an answer not
\* marked stale was fetched or unexpired while its caller waited.
THEOREM PublicDataStaysSound == PublicSpec => []PublicDataIsSound
<1>1. PublicSpec => []PublicInv
  BY PublicInitially, PublicInductive, PTL DEF PublicSpec
<1> QED
  BY <1>1, PublicInvIsEnough, PTL
====
