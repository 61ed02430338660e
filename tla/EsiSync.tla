------------------------------ MODULE EsiSync -------------------------------
(***************************************************************************)
(* Synchronisation of an account's EVE data (relay-server/internal/esisync,*)
(* evegrant, esidata; the end of a login in api/sso.go).                   *)
(*                                                                         *)
(* A login stores the OAuth grant and queues one job per kind of data.     *)
(* Each server process runs one Worker: claim the job that is due longest, *)
(* load the grant, refresh it upstream, save a rotated refresh token,      *)
(* fetch the data, store it, reschedule the job.  Detail requests refresh  *)
(* the same grant and save nothing.                                        *)
(*                                                                         *)
(* The authorization server is external: it may rotate a refresh token,    *)
(* which ends the old one.  Data is its kind; what counts is the order in  *)
(* which it was fetched.  run_after is kept as the order of the due jobs.  *)
(***************************************************************************)
EXTENDS Naturals, Sequences, FiniteSets, SequencesExt

CONSTANTS Kinds,      \* kinds of data with a job
          Workers,    \* server processes
          Tokens,     \* upstream refresh tokens; fresh = held by nobody
          None,       \* no token, no worker, no kind
          MaxLogins,  \* bound: logins
          MaxDetails, \* bound: detail requests
          MaxFaults   \* bound: crashes, stalls, failures

ASSUME EsiSyncAssumption ==
    /\ None \notin Kinds \cup Workers \cup Tokens
    /\ MaxLogins \in Nat /\ MaxDetails \in Nat /\ MaxFaults \in Nat

VARIABLES grant,     \* the row of eve_refresh_grants
          accepted,  \* tokens the authorization server accepts
          job,       \* the rows of eve_sync_jobs
          line,      \* kinds whose run_after has come, oldest first
          worker,    \* Worker.RunOnce of each process
          detail,    \* token a detail request has loaded
          login,     \* kinds the current login has still to queue
          counts,    \* logins, details and faults so far
          outdated,  \* kinds whose data replaced data fetched later
          broken,    \* history: readers of the grant met, or a token was lost
          overrun    \* history: kinds whose job was taken from its worker

vars == <<grant, accepted, job, line, worker, detail, login, counts, outdated,
          broken, overrun>>

Grant == [status : {"none", "active", "revoked"}, token : Tokens \cup {None},
          scope : SUBSET Kinds]
Job == [status : {"none", "pending", "running", "failed", "blocked"},
        owner : Workers \cup {None}, lease : {"none", "current", "expired"}]
Stages == {"idle", "load", "refresh", "save", "fetch", "store", "finish"}
Worker == [at : Stages, kind : Kinds \cup {None}, token : Tokens \cup {None},
           new : Tokens \cup {None}, scope : SUBSET Kinds, to : {"none", "pending", "failed", "blocked"},
           after : SUBSET Workers, passed : BOOLEAN]

\* A worker at a stage of a kind, holding no token.
At(stage, k, to) == [at |-> stage, kind |-> k, token |-> None, new |-> None,
                     scope |-> {}, to |-> to, after |-> {}, passed |-> FALSE]
Rest == At("idle", None, "none")

Init ==
    /\ grant = [status |-> "none", token |-> None, scope |-> {}]
    /\ accepted = {}
    /\ job = [k \in Kinds |-> [status |-> "none", owner |-> None, lease |-> "none"]]
    /\ line = << >>
    /\ worker = [w \in Workers |-> Rest]
    /\ detail = None
    /\ login = {}
    /\ counts = [logins |-> 0, details |-> 0, faults |-> 0]
    /\ outdated = {} /\ broken = FALSE /\ overrun = {}

-----------------------------------------------------------------------------
Count(what, max) ==
    counts[what] < max /\ counts' = [counts EXCEPT ![what] = @ + 1]

Held == {worker[w].token : w \in Workers} \cup {worker[w].new : w \in Workers}
            \cup {detail, grant.token}
\* A token the server has not given out (bound: Tokens); any of them will do.
Free == Tokens \ (Held \cup accepted)
Fresh == IF Free = {} THEN {} ELSE {CHOOSE t \in Free : TRUE}
\* Tokens nobody holds any more need not be remembered.
Accepts(S) == accepted' = S

\* Somebody has loaded the grant and is not done with it.
InUse == \/ detail # None
         \/ \E w \in Workers : worker[w].at \in {"refresh", "save"}

-----------------------------------------------------------------------------
(* issueSSOSession: Save, then ScheduleAccount, one Enqueue per kind.      *)

Login(scope) ==
    /\ login = {} /\ Count("logins", MaxLogins)
    /\ \E new \in Fresh :
       /\ grant' = [status |-> "active", token |-> new, scope |-> scope]
       /\ Accepts((accepted \cap (Held \ {grant.token})) \cup {new})
    /\ login' = Kinds
    /\ broken' = InUse
    /\ UNCHANGED <<job, line, worker, detail, outdated, overrun>>

\* run_after = LEAST(old, new): a due job keeps its place.
Due(k) == IF k \in ToSet(line) THEN line ELSE Append(line, k)

\* ON CONFLICT DO UPDATE SET status='pending', run_after=LEAST(...): a running
\* job is taken from its worker.
Enqueue(k) ==
    /\ k \in login /\ login' = login \ {k}
    /\ job' = [job EXCEPT ![k] = [status |-> "pending", owner |-> None,
                                  lease |-> "none"]]
    /\ line' = Due(k)
    /\ overrun' = IF job[k].status = "running" THEN overrun \cup {k} ELSE overrun
    /\ UNCHANGED <<grant, accepted, worker, detail, counts, outdated, broken>>

\* A failed Enqueue ends the loop; its error is ignored.
EnqueueFails ==
    /\ login # {} /\ login' = {}
    /\ Count("faults", MaxFaults)
    /\ UNCHANGED <<grant, accepted, job, line, worker, detail, outdated, broken, overrun>>

-----------------------------------------------------------------------------
(* Worker.RunOnce *)

\* The lease not looked at, a dead worker's job not taken over (mutants).
ClaimableAnyLease(k) == job[k].status \in {"pending", "failed", "running"}
ClaimableQueued(k) == job[k].status \in {"pending", "failed"}

Claimable(k) == \/ job[k].status \in {"pending", "failed"}
                \/ job[k].status = "running" /\ job[k].lease = "expired"

\* ORDER BY run_after, created_at LIMIT 1; claiming leaves run_after alone.
First(k) == \E i \in DOMAIN line : /\ line[i] = k /\ Claimable(k)
                                   /\ \A j \in 1 .. (i - 1) : ~ Claimable(line[j])

Claim(w) ==
    /\ worker[w].at = "idle"
    /\ \E k \in Kinds :
       /\ First(k)
       /\ job' = [job EXCEPT ![k] = [status |-> "running", owner |-> w,
                                     lease |-> "current"]]
       /\ worker' = [worker EXCEPT ![w] = At("load", k, "none")]
    /\ UNCHANGED <<grant, accepted, line, detail, login, counts, outdated, broken, overrun>>

Finishing(w, to) == At("finish", worker[w].kind, to)

\* Grants.Load and the scope check.
Load(w) ==
    /\ worker[w].at = "load"
    /\ worker' = [worker EXCEPT ![w] =
         IF grant.status # "active" THEN Finishing(w, "failed")
         ELSE IF worker[w].kind \notin grant.scope THEN Finishing(w, "blocked")
         ELSE [@ EXCEPT !.at = "refresh", !.token = grant.token, !.scope = grant.scope]]
    /\ broken' = (broken \/ InUse)
    /\ UNCHANGED <<grant, accepted, job, line, detail, login, counts, outdated, overrun>>

\* RefreshClient.Refresh is answered; the server may rotate the token.
RefreshAccepted(w, new) ==
    /\ worker[w].at = "refresh" /\ worker[w].token \in accepted
    /\ new \in {worker[w].token} \cup Fresh
    /\ Accepts((accepted \ {worker[w].token}) \cup {new})
    /\ worker' = [worker EXCEPT ![w].at = "save", ![w].new = new]
    /\ UNCHANGED <<grant, job, line, detail, login, counts, outdated, broken, overrun>>

\* invalid_grant: Grants.Revoke(account), whatever grant is stored by now.
RefreshRefused(w) ==
    /\ worker[w].at = "refresh" /\ worker[w].token \notin accepted
    /\ grant' = [grant EXCEPT !.status = "revoked"]
    /\ worker' = [worker EXCEPT ![w] = Finishing(w, "blocked")]
    /\ UNCHANGED <<accepted, job, line, detail, login, counts, outdated, broken, overrun>>

\* A rotated token is saved over whatever grant is stored by now.
SavesNever(w) == FALSE
Saves(w) == worker[w].new # worker[w].token

Save(w) ==
    /\ worker[w].at = "save"
    /\ grant' = IF Saves(w) THEN [status |-> "active", token |-> worker[w].new,
                                  scope |-> worker[w].scope]
                            ELSE grant
    /\ worker' = [worker EXCEPT ![w] = At("fetch", worker[w].kind, "none")]
    /\ UNCHANGED <<accepted, job, line, detail, login, counts, outdated, broken, overrun>>

\* fetch answers with the data of now: earlier answers are older.
Fetch(w) ==
    /\ worker[w].at = "fetch"
    /\ worker' = [v \in Workers |->
         IF v = w THEN [worker[w] EXCEPT !.at = "store"]
         ELSE IF worker[v].at = "store" /\ worker[v].kind = worker[w].kind
         THEN [worker[v] EXCEPT !.after = @ \cup {w}]
         ELSE worker[v]]
    /\ UNCHANGED <<grant, accepted, job, line, detail, login, counts, outdated,
                   broken, overrun>>

\* UpsertCharacterSnapshot does not compare fetched_at.
Store(w) ==
    /\ worker[w].at = "store"
    /\ worker' = [v \in Workers |->
         IF v = w THEN Finishing(w, "pending")
         ELSE [worker[v] EXCEPT !.after = @ \ {w}, !.passed = @ \/ w \in worker[v].after]]
    /\ outdated' = IF worker[w].passed THEN outdated \cup {worker[w].kind}
                                       ELSE outdated \ {worker[w].kind}
    /\ UNCHANGED <<grant, accepted, job, line, detail, login, counts, broken, overrun>>

\* WHERE id=$1 AND claim_token=$2 AND status='running'
Owns(w, k) == job[k].owner = w /\ job[k].status = "running"

\* Reschedule and Retry move run_after into the future, Block leaves it.
Postponed(k) == RemoveAt(line, CHOOSE i \in DOMAIN line : line[i] = k)

Finish(w) ==
    /\ worker[w].at = "finish"
    /\ LET k == worker[w].kind  to == worker[w].to IN
       IF Owns(w, k)
       THEN /\ job' = [job EXCEPT ![k] = [status |-> to, owner |-> None, lease |-> "none"]]
            /\ line' = IF to = "blocked" THEN line ELSE Postponed(k)
       ELSE UNCHANGED <<job, line>>
    /\ worker' = [worker EXCEPT ![w] = Rest]
    /\ UNCHANGED <<grant, accepted, detail, login, counts, outdated, broken, overrun>>

\* A call of RunOnce fails.  The retry is scheduled, but what the lost answer
\* of a refresh has rotated is gone.
CallFails(w) ==
    /\ worker[w].at \in {"refresh", "save", "fetch", "store"}
    /\ Count("faults", MaxFaults)
    /\ worker' = [worker EXCEPT ![w] = Finishing(w, "failed")]
    /\ \/ worker[w].at = "refresh" /\ Accepts(accepted \ {worker[w].token})
       \/ UNCHANGED accepted
    /\ broken' = (broken \/ worker[w].at \in {"refresh", "save"})
    /\ UNCHANGED <<grant, job, line, detail, login, outdated, overrun>>

Crash(w) ==
    /\ worker[w].at # "idle"
    /\ Count("faults", MaxFaults)
    /\ worker' = [v \in Workers |-> IF v = w THEN Rest
                                    ELSE [worker[v] EXCEPT !.after = @ \ {w}]]
    /\ broken' = (broken \/ worker[w].at \in {"refresh", "save"})
    /\ UNCHANGED <<grant, accepted, job, line, detail, login, outdated, overrun>>

\* The lease of a dead worker's job ends; or that of a slow one.
Expire(k) == job' = [job EXCEPT ![k].lease = "expired"]
Running(w, k) == worker[w].at # "idle" /\ worker[w].kind = k

LeaseExpires(k) ==
    /\ job[k].lease = "current" /\ ~ Running(job[k].owner, k)
    /\ Expire(k)
    /\ UNCHANGED <<grant, accepted, line, worker, detail, login, counts, outdated,
                   broken, overrun>>

Stall(k) ==
    /\ job[k].lease = "current" /\ Running(job[k].owner, k)
    /\ Count("faults", MaxFaults)
    /\ Expire(k)
    /\ overrun' = overrun \cup {k}
    /\ UNCHANGED <<grant, accepted, line, worker, detail, login, outdated, broken>>

\* The run_after of a job comes.
TimePasses(k) ==
    /\ job[k].status \in {"pending", "failed"} /\ k \notin ToSet(line)
    /\ line' = Append(line, k)
    /\ UNCHANGED <<grant, accepted, job, worker, detail, login, counts, outdated,
                   broken, overrun>>

-----------------------------------------------------------------------------
(* withAccessToken: a detail request in a server process.                  *)

LoadDetail ==
    /\ detail = None /\ grant.status = "active"
    /\ Count("details", MaxDetails)
    /\ detail' = grant.token
    /\ broken' = (broken \/ InUse)
    /\ UNCHANGED <<grant, accepted, job, line, worker, login, outdated, overrun>>

\* A rotated token is not saved.
RefreshDetail(new) ==
    /\ detail # None
    /\ IF detail \in accepted
       THEN /\ new \in {detail} \cup Fresh
            /\ Accepts((accepted \ {detail}) \cup ({new} \cap {detail}))
            /\ broken' = (broken \/ new # detail)
       ELSE new = detail /\ UNCHANGED <<accepted, broken>>
    /\ detail' = None
    /\ UNCHANGED <<grant, job, line, worker, login, counts, outdated, overrun>>

-----------------------------------------------------------------------------
Work(w) == \/ Claim(w) \/ Load(w) \/ \E t \in Tokens : RefreshAccepted(w, t)
           \/ RefreshRefused(w) \/ Save(w) \/ Fetch(w) \/ Store(w) \/ Finish(w)

Next ==
    \/ \E scope \in SUBSET Kinds : Login(scope)
    \/ \E k \in Kinds : Enqueue(k) \/ LeaseExpires(k) \/ Stall(k) \/ TimePasses(k)
    \/ EnqueueFails
    \/ \E w \in Workers : Work(w) \/ CallFails(w) \/ Crash(w)
    \/ LoadDetail \/ \E t \in Tokens : RefreshDetail(t)

Spec == Init /\ [][Next]_vars

\* Every process's worker goes on, leases end and time passes.
FairSpec ==
    /\ Spec
    /\ \A w \in Workers : WF_vars(Work(w))
    /\ \A k \in Kinds : WF_vars(LeaseExpires(k)) /\ WF_vars(TimePasses(k))

-----------------------------------------------------------------------------
(* Properties *)

\* Type correctness; the due jobs are in line once each.
TypeOK ==
    /\ grant \in Grant /\ accepted \subseteq Tokens
    /\ job \in [Kinds -> Job] /\ worker \in [Workers -> Worker]
    /\ detail \in Tokens \cup {None} /\ login \subseteq Kinds
    /\ line \in Seq(Kinds) /\ IsInjective(line)
    /\ outdated \subseteq Kinds /\ overrun \subseteq Kinds /\ broken \in BOOLEAN
    /\ counts \in [logins : 0 .. MaxLogins, details : 0 .. MaxDetails,
                   faults : 0 .. MaxFaults]

\* Two workers are at one kind of data only after the job was taken from the
\* first: its lease ended under it, or a login queued the job again.
OneWorkerPerKind ==
    \A v, w \in Workers :
        v # w /\ worker[v].at # "idle" /\ worker[v].kind = worker[w].kind
            => worker[v].kind \in overrun

\* Only then can data that was fetched earlier replace later data.
DataMovesForward == outdated \subseteq overrun

\* Type correctness; and unless a job was taken from a worker that is still at
\* it, one worker is at a kind of data and no older data replaces later data.
EsiSyncInvariant == TypeOK /\ OneWorkerPerKind /\ DataMovesForward

\* The stored grant is one the authorization server accepts and is never
\* revoked, as long as its readers and the next login do not overlap, no detail
\* request rotates it, and no rotated token is lost on its way.
GrantStaysUsable ==
    grant.status # "none" /\ ~ broken =>
        /\ grant.status = "active"
        /\ grant.token \in accepted \/ \E w \in Workers : worker[w].at = "save"

\* Every queued kind is worked at again and again until it is blocked,
\* whatever workers die on the way.
EveryKindTaken ==
    \A k \in Kinds : job[k].status \in {"pending", "failed", "running"}
        ~> \/ \E w \in Workers : Running(w, k)
           \/ job[k].status = "blocked"
=============================================================================
