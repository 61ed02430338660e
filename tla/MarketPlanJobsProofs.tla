------------------------ MODULE MarketPlanJobsProofs ------------------------
(***************************************************************************)
(* Proofs about MarketPlanJobs: type correctness, the fencing of claims,   *)
(* that results never go back, that a slot has one live plan among those   *)
(* no user cancelled, and that a watching plan has read the snapshots its  *)
(* signature stands for.  They hold for every value of the constants, but  *)
(* that no snapshot is missed, which needs plans of a single region.       *)
(***************************************************************************)
EXTENDS MarketPlanJobs, TLAPS

\* One value for each claim and each row: a fencing token names one claim.
TokensDistinct == \A c, d \in claims : c.token = d.token => c = d

\* A released row keeps neither token nor lease.
LEMMA ReleasedType ==
    ASSUME NEW row \in Row, NEW s \in Live \cup Terminal
    PROVE  /\ Released(row, s) \in Row
           /\ Released(row, s).token = NoJob
           /\ Released(row, s).lease = "none"
           /\ Released(row, s).state = s
           /\ Released(row, s).slot = row.slot
BY DEF Released, Row

\* A committed row is a released row that watches.
LEMMA CommittedType ==
    ASSUME NEW row \in Row
    PROVE  /\ Committed(row) \in Row
           /\ Committed(row).token = NoJob
           /\ Committed(row).lease = "none"
           /\ Committed(row).state = "watching"
           /\ Committed(row).slot = row.slot
<1>1. Released(row, "watching") \in Row
  BY ReleasedType DEF Live
<1> QED BY <1>1, ReleasedType DEF Committed, Row, Live

\* Touching rows leaves a relation on rows.
LEMMA TouchedType ==
    ASSUME older \subseteq Jobs \X Jobs, NEW S \in SUBSET Jobs
    PROVE  Touched(S) \subseteq Jobs \X Jobs
BY DEF Touched

\* A claim's attempt count stays within its bound.
LEMMA AttemptedType ==
    ASSUME NEW n \in 0 .. MaxAttempts
    PROVE  Attempted(n) \in 0 .. MaxAttempts
BY ConstantsAssumption DEF Attempted

-----------------------------------------------------------------------------
\* Every step of every actor preserves the types.
LEMMA TypeStep == TypeOK /\ [Next]_vars => TypeOK'
<1> SUFFICES ASSUME TypeOK, [Next]_vars PROVE TypeOK'
  OBVIOUS
<1> USE ConstantsAssumption
<1>1. CASE UNCHANGED vars
  BY <1>1 DEF vars, TypeOK
<1>2. ASSUME NEW j \in Jobs, NEW s \in Slots, NEW h \in Hashes, Create(j, s, h)
      PROVE  TypeOK'
  <2> DEFINE gone == {k \in Jobs : LiveRow(k) /\ jobs[k].slot = s}
  <2>1. \A k \in Jobs : /\ jobs'[k] \in Row
                        /\ jobs'[k].lease = "none" <=> jobs'[k].token = NoJob
    <3> TAKE k \in Jobs
    <3>1. jobs[k] \in Row
      BY DEF TypeOK
    <3>2. CASE k = j
      BY <1>2, <3>1, <3>2 DEF Create, Row, TypeOK, Live, Active
    <3>3. CASE k # j /\ k \in gone
      BY <1>2, <3>1, <3>3, ReleasedType DEF Create, Superseded, Terminal
    <3>4. CASE k # j /\ k \notin gone
      BY <1>2, <3>1, <3>4 DEF Create, TypeOK
    <3> QED BY <3>2, <3>3, <3>4
  <2>2. jobs' \in [Jobs -> Row]
    BY <1>2, <2>1 DEF Create, TypeOK
  <2>3. older' \subseteq Jobs \X Jobs
    BY <1>2, TouchedType DEF Create, TypeOK
  <2> QED BY <1>2, <2>1, <2>2, <2>3 DEF Create, TypeOK
<1>3. ASSUME NEW j \in Jobs, Cancel(j) PROVE TypeOK'
  <2>1. /\ jobs' \in [Jobs -> Row]
        /\ \A k \in Jobs : jobs'[k].lease = "none" <=> jobs'[k].token = NoJob
    BY <1>3 DEF Cancel, TypeOK, Row, Terminal
  <2>2. older' \subseteq Jobs \X Jobs
    BY <1>3, TouchedType DEF Cancel, TypeOK
  <2> QED BY <1>3, <2>1, <2>2 DEF Cancel, TypeOK
<1>4. ASSUME NEW j \in Jobs, LeaseExpires(j) PROVE TypeOK'
  <2>1. /\ jobs' \in [Jobs -> Row]
        /\ \A k \in Jobs : jobs'[k].lease = "none" <=> jobs'[k].token = NoJob
    BY <1>4 DEF LeaseExpires, TypeOK, Row
  <2>2. faults' \in 0 .. MaxFaults
    BY <1>4 DEF LeaseExpires, Fault, TypeOK
  <2> QED BY <1>4, <2>1, <2>2 DEF LeaseExpires, TypeOK
<1>5. ASSUME NEW p \in Procs, RequeueWatching(p) PROVE TypeOK'
  <2>0. PICK m \in Stamps :
          \A k \in Jobs :
            \/ jobs'[k] = jobs[k]
            \/ jobs'[k] = [jobs[k] EXCEPT !.state = "queued", !.signature = m]
    BY <1>5 DEF RequeueWatching
  <2>1. /\ jobs' \in [Jobs -> Row]
        /\ \A k \in Jobs : jobs'[k].lease = "none" <=> jobs'[k].token = NoJob
    <3>1. ASSUME NEW k \in Jobs
          PROVE  /\ jobs'[k] \in Row
                 /\ jobs'[k].lease = "none" <=> jobs'[k].token = NoJob
      BY <2>0 DEF TypeOK, Row, Live, Active
    <3> QED BY <1>5, <3>1 DEF RequeueWatching
  <2>2. older' \subseteq Jobs \X Jobs
    BY <1>5, TouchedType DEF RequeueWatching, TypeOK
  <2>3. phase' \in [Procs -> {"requeue", "claim", "work"}]
    BY <1>5 DEF RequeueWatching, TypeOK
  <2> QED BY <1>5, <2>1, <2>2, <2>3 DEF RequeueWatching, TypeOK
<1>6. ASSUME NEW p \in Procs, Claim(p) PROVE TypeOK'
  <2>0. PICK S \in SUBSET Jobs :
          \E f \in Injection(S, FreshTokens) : Grant(p, S, f)
    BY <1>6 DEF Claim
  <2>1. PICK f \in Injection(S, FreshTokens) : Grant(p, S, f)
    BY <2>0
  <2>2. f \in [S -> Tokens]
    BY DEF Injection, FreshTokens
  <2>3. /\ jobs' \in [Jobs -> Row]
        /\ \A k \in Jobs : jobs'[k].lease = "none" <=> jobs'[k].token = NoJob
    <3>1. ASSUME NEW k \in Jobs
          PROVE  /\ jobs'[k] \in Row
                 /\ jobs'[k].lease = "none" <=> jobs'[k].token = NoJob
      <4>1. jobs[k] \in Row /\ Attempted(jobs[k].attempt) \in 0 .. MaxAttempts
        BY AttemptedType DEF TypeOK, Row
      <4>2. CASE k \in S
        <5>1. f[k] \in Tokens
          BY <2>2, <4>2
        <5>2. jobs'[k] = [jobs[k] EXCEPT !.state = "discovering",
                            !.token = f[k], !.lease = "current",
                            !.attempt = Attempted(jobs[k].attempt)]
          BY <2>1, <4>2 DEF Grant
        <5>3. jobs'[k] \in Row
          BY <4>1, <5>1, <5>2 DEF Row, Live, Active
        <5>4. jobs'[k].lease = "current" /\ jobs'[k].token = f[k]
          BY <4>1, <5>2 DEF Row
        <5> QED BY <5>1, <5>3, <5>4
      <4>3. CASE k \notin S
        BY <2>1, <4>3 DEF Grant, TypeOK
      <4> QED BY <4>2, <4>3
    <3> QED BY <2>1, <3>1 DEF Grant
  <2>4. claims' \subseteq ClaimRecord
    <3>1. NothingRead \in Reads
      BY DEF NothingRead, Reads, Stamps
    <3>2. ASSUME NEW j \in S
          PROVE  [job |-> j, token |-> f[j], owner |-> p, at |-> "search",
                  read |-> NothingRead, late |-> FALSE]
                   \in ClaimRecord
      BY <2>2, <3>1 DEF ClaimRecord
    <3> QED BY <2>1, <3>2 DEF Grant, TypeOK
  <2>5. older' \subseteq Jobs \X Jobs
    BY <2>1, TouchedType DEF Grant, TypeOK
  <2> QED BY <1>6, <2>3, <2>4, <2>5 DEF Claim, TypeOK
<1>7. ASSUME NEW p \in Procs, CycleEnds(p) PROVE TypeOK'
  BY <1>7 DEF CycleEnds, TypeOK
<1>8. ASSUME NEW p \in Procs, Crash(p) PROVE TypeOK'
  <2>1. claims' \subseteq ClaimRecord
    BY <1>8 DEF Crash, TypeOK, ClaimRecord
  <2>2. faults' \in 0 .. MaxFaults
    BY <1>8 DEF Crash, Fault, TypeOK
  <2> QED BY <1>8, <2>1, <2>2 DEF Crash, TypeOK
<1>9. ASSUME NEW c \in claims, Search(c) \/ Planned(c) PROVE TypeOK'
  <2>1. claims' \subseteq ClaimRecord
    <3>1. c \in ClaimRecord /\ snap \in Reads
      BY DEF TypeOK
    <3>2. CASE Search(c)
      BY <3>1, <3>2 DEF Search, Moved, TypeOK, ClaimRecord
    <3>3. CASE Planned(c)
      <4>1. Moved(c, [c EXCEPT !.at = "commit",
                               !.late = jobs[c.job].lease # "current"])
        BY <3>3 DEF Planned
      <4>2. [c EXCEPT !.at = "commit",
                      !.late = jobs[c.job].lease # "current"] \in ClaimRecord
        BY <3>1 DEF ClaimRecord
      <4> QED BY <4>1, <4>2 DEF Moved, TypeOK
    <3> QED BY <1>9, <3>2, <3>3
  <2> QED BY <1>9, <2>1 DEF Search, Planned, TypeOK
<1>10. ASSUME NEW c \in claims, StepFails(c) \/ PersistTimeout(c) \/ PersistLost(c)
       PROVE  TypeOK'
  <2>1. claims' \subseteq ClaimRecord
    BY <1>10 DEF StepFails, PersistTimeout, PersistLost, Moved, TypeOK, ClaimRecord
  <2>2. faults' \in 0 .. MaxFaults
    BY <1>10 DEF StepFails, PersistTimeout, PersistLost, Fault, TypeOK
  <2> QED BY <1>10, <2>1, <2>2
      DEF StepFails, PersistTimeout, PersistLost, TypeOK
<1>11. ASSUME NEW c \in claims, Commit(c) PROVE TypeOK'
  <2>1. c.job \in Jobs /\ c.read \in Reads /\ jobs[c.job] \in Row
    BY DEF TypeOK, ClaimRecord
  <2>2. /\ jobs' \in [Jobs -> Row]
        /\ \A k \in Jobs : jobs'[k].lease = "none" <=> jobs'[k].token = NoJob
    BY <1>11, <2>1, CommittedType DEF Commit, TypeOK, ClaimRecord
  <2>3. older' \subseteq Jobs \X Jobs
    BY <1>11, <2>1, TouchedType DEF Commit, TypeOK
  <2> QED BY <1>11, <2>1, <2>2, <2>3 DEF Commit, TypeOK
<1>12. ASSUME NEW c \in claims, Fail(c) PROVE TypeOK'
  <2>1. c.job \in Jobs /\ jobs[c.job] \in Row
    BY DEF TypeOK, ClaimRecord
  <2>2. RetryState(jobs[c.job]) \in Live \cup Terminal
    BY DEF RetryState, Live, Active, Terminal
  <2>3. /\ jobs' \in [Jobs -> Row]
        /\ \A k \in Jobs : jobs'[k].lease = "none" <=> jobs'[k].token = NoJob
    BY <1>12, <2>1, <2>2, ReleasedType DEF Fail, TypeOK
  <2>4. older' \subseteq Jobs \X Jobs
    BY <1>12, <2>1, TouchedType DEF Fail, TypeOK
  <2> QED BY <1>12, <2>3, <2>4 DEF Fail, TypeOK
<1>13. ASSUME NEW c \in claims, PersistRefused(c) PROVE TypeOK'
  <2>1. /\ claims' = claims \ {c}
        /\ UNCHANGED <<jobs, older, phase, snap, stamping, clock, basis, cancelled, faults>>
    BY <1>13 DEF PersistRefused
  <2> QED BY <2>1 DEF TypeOK
<1>14. ASSUME NEW r \in Regions, Stamp(r) \/ Publish(r) PROVE TypeOK'
  <2>1. clock' \in Stamps
    BY <1>14 DEF Stamp, Publish, TypeOK, Stamps
  <2>2. /\ stamping[r] \in Stamps /\ 0 \in Stamps
        /\ snap \in Reads /\ stamping \in Reads
    BY DEF TypeOK, Reads, Stamps
  <2>3. CASE Stamp(r)
    <3>1. snap' = snap /\ stamping' = [stamping EXCEPT ![r] = clock']
      BY <2>3 DEF Stamp
    <3>2. snap' \in Reads /\ stamping' \in Reads
      BY <2>1, <2>2, <3>1 DEF Reads
    <3> QED BY <2>1, <2>3, <3>2 DEF Stamp, TypeOK
  <2>4. CASE Publish(r)
    <3>1. /\ snap' = [snap EXCEPT ![r] = stamping[r]]
          /\ stamping' = [stamping EXCEPT ![r] = 0]
      BY <2>4 DEF Publish
    <3>2. snap' \in Reads /\ stamping' \in Reads
      BY <2>2, <3>1 DEF Reads
    <3> QED BY <2>1, <2>4, <3>2 DEF Publish, TypeOK
  <2> QED BY <1>14, <2>3, <2>4
<1>15. ASSUME NEW r \in Regions, PublishFails(r) PROVE TypeOK'
  BY <1>15 DEF PublishFails, Fault, TypeOK, Reads, Stamps
<1> QED
  <2>1. CASE \E j \in Jobs, s \in Slots, h \in Hashes : Create(j, s, h)
    BY <2>1, <1>2
  <2>2. CASE \E j \in Jobs : Cancel(j) \/ LeaseExpires(j)
    BY <2>2, <1>3, <1>4
  <2>3. CASE \E p \in Procs :
               RequeueWatching(p) \/ Claim(p) \/ CycleEnds(p) \/ Crash(p)
    BY <2>3, <1>5, <1>6, <1>7, <1>8
  <2>4. CASE \E c \in claims :
               \/ Search(c) \/ Planned(c) \/ StepFails(c) \/ Persist(c)
               \/ PersistTimeout(c) \/ PersistLost(c)
    BY <2>4, <1>9, <1>10, <1>11, <1>12, <1>13 DEF Persist
  <2>5. CASE \E r \in Regions : Stamp(r) \/ Publish(r) \/ PublishFails(r)
    BY <2>5, <1>14, <1>15
  <2> QED BY <1>1, <2>1, <2>2, <2>3, <2>4, <2>5 DEF Next

\* Type correctness: what every handler, worker step, timeout and crash of
\* internal/marketplan leaves in the table and in the workers has its type, and
\* a row carries a lease exactly while it carries a token.
THEOREM TypeCorrect == Spec => []TypeOK
<1>1. Init => TypeOK
  <2> SUFFICES ASSUME Init PROVE TypeOK
    OBVIOUS
  <2>1. PICK s \in Slots, h \in Hashes :
          jobs = [j \in Jobs |->
                    [slot |-> s, hash |-> h, state |-> Absent, token |-> NoJob,
                     lease |-> "none", attempt |-> 0, signature |-> 0]]
    BY DEF Init
  <2>2. /\ jobs \in [Jobs -> Row]
        /\ \A j \in Jobs : jobs[j].lease = "none" <=> jobs[j].token = NoJob
    BY <2>1, ConstantsAssumption DEF Row, Stamps
  <2> QED BY <2>2, ConstantsAssumption DEF Init, TypeOK, NothingRead, Reads, Stamps
<1> QED BY <1>1, TypeStep, PTL DEF Spec

-----------------------------------------------------------------------------
(* What one step does to tokens and claims *)

\* A step gives a row no token but a fresh one.
LEMMA TokenStep ==
    ASSUME TypeOK, [Next]_vars, NEW k \in Jobs
    PROVE  jobs'[k].token \in {jobs[k].token, NoJob} \cup FreshTokens
<1>0. jobs \in [Jobs -> Row] /\ jobs[k] \in Row
  BY DEF TypeOK
<1>1. CASE UNCHANGED vars
  BY <1>1 DEF vars
<1>2. ASSUME NEW j \in Jobs, NEW s \in Slots, NEW h \in Hashes, Create(j, s, h)
      PROVE  jobs'[k].token \in {jobs[k].token, NoJob}
  <2>1. \/ jobs'[k] = [jobs[k] EXCEPT !.slot = s, !.hash = h, !.state = "queued"]
        \/ jobs'[k] = Superseded(jobs[k])
        \/ jobs'[k] = jobs[k]
    BY <1>2 DEF Create
  <2>2. CASE jobs'[k] = [jobs[k] EXCEPT !.slot = s, !.hash = h, !.state = "queued"]
    BY <1>0, <2>2 DEF Row
  <2>3. Superseded(jobs[k]).token = NoJob
    BY <1>0, ReleasedType DEF Superseded, Terminal
  <2> QED BY <2>1, <2>2, <2>3
<1>3. ASSUME NEW j \in Jobs, Cancel(j) \/ LeaseExpires(j)
      PROVE  jobs'[k].token = jobs[k].token
  <2>1. \/ jobs'[k] = jobs[k]
        \/ jobs'[k] = [jobs[k] EXCEPT !.state = "cancelled"]
        \/ jobs'[k] = [jobs[k] EXCEPT !.lease = "expired"]
    BY <1>0, <1>3 DEF Cancel, LeaseExpires
  <2> QED BY <1>0, <2>1 DEF Row
<1>4. ASSUME NEW p \in Procs, RequeueWatching(p)
      PROVE  jobs'[k].token = jobs[k].token
  <2>1. PICK m \in Stamps :
          \/ jobs'[k] = jobs[k]
          \/ jobs'[k] = [jobs[k] EXCEPT !.state = "queued", !.signature = m]
    BY <1>4 DEF RequeueWatching
  <2> QED BY <1>0, <2>1 DEF Row
<1>5. ASSUME NEW p \in Procs, Claim(p)
      PROVE  jobs'[k].token \in {jobs[k].token} \cup FreshTokens
  <2>1. PICK S \in SUBSET Jobs :
          \E f \in Injection(S, FreshTokens) : Grant(p, S, f)
    BY <1>5 DEF Claim
  <2>2. PICK f \in Injection(S, FreshTokens) : Grant(p, S, f)
    BY <2>1
  <2>3. f \in [S -> FreshTokens]
    BY DEF Injection
  <2>4. \/ jobs'[k] = jobs[k]
        \/ /\ k \in S
           /\ jobs'[k] = [jobs[k] EXCEPT !.state = "discovering",
                             !.token = f[k], !.lease = "current",
                             !.attempt = Attempted(jobs[k].attempt)]
    BY <2>2 DEF Grant
  <2>5. CASE k \in S /\ jobs'[k] = [jobs[k] EXCEPT !.state = "discovering",
                                     !.token = f[k], !.lease = "current",
                                     !.attempt = Attempted(jobs[k].attempt)]
    <3>1. f[k] \in FreshTokens
      BY <2>3, <2>5
    <3>2. jobs'[k].token = f[k]
      BY <1>0, <2>5 DEF Row
    <3> QED BY <3>1, <3>2
  <2> QED BY <2>4, <2>5
<1>6. ASSUME NEW c \in claims, Commit(c) \/ Fail(c)
      PROVE  jobs'[k].token \in {jobs[k].token, NoJob}
  <2>1. \/ jobs'[k] = jobs[k]
        \/ jobs'[k] = Committed(jobs[k])
        \/ jobs'[k] = Released(jobs[k], RetryState(jobs[k]))
    BY <1>0, <1>6 DEF Commit, Fail
  <2>2. RetryState(jobs[k]) \in Live \cup Terminal
    BY DEF TypeOK, ClaimRecord, RetryState, Live, Active, Terminal
  <2> QED BY <1>0, <2>1, <2>2, CommittedType, ReleasedType
<1>7. CASE jobs' = jobs
  BY <1>7
<1>8. ASSUME NEW c \in claims,
             \/ Search(c) \/ Planned(c) \/ StepFails(c) \/ PersistRefused(c)
             \/ PersistTimeout(c) \/ PersistLost(c)
      PROVE  jobs' = jobs
  BY <1>8 DEF Search, Planned, StepFails, PersistRefused, PersistTimeout, PersistLost
<1>9. ASSUME NEW p \in Procs, CycleEnds(p) \/ Crash(p) PROVE jobs' = jobs
  BY <1>9 DEF CycleEnds, Crash
<1>10. ASSUME NEW r \in Regions, Stamp(r) \/ Publish(r) \/ PublishFails(r)
       PROVE  jobs' = jobs
  BY <1>10 DEF Stamp, Publish, PublishFails
<1> QED
  BY <1>1, <1>2, <1>3, <1>4, <1>5, <1>6, <1>7, <1>8, <1>9, <1>10 DEF Next, Persist

\* A claim that has lost its row never gets it back.
LEMMA FenceOnlyFalls ==
    ASSUME TypeOK, [Next]_vars, NEW c \in claims, jobs'[c.job].token = c.token
    PROVE  Fenced(c)
<1>1. c.job \in Jobs /\ c.token \in Tokens
  BY DEF TypeOK, ClaimRecord
<1>2. c.token \notin FreshTokens /\ c.token # NoJob
  BY <1>1, ConstantsAssumption DEF FreshTokens, UsedTokens
<1> QED BY <1>1, <1>2, TokenStep DEF Fenced

\* A claim of the next state is a fresh one that has read nothing, or comes
\* from a claim on the same row under the same token; what it read is what
\* that claim had read, or the snapshots visible now.
LEMMA ClaimsStep ==
    ASSUME TypeOK, [Next]_vars, NEW d \in claims'
    PROVE  \/ d.token \in FreshTokens /\ d.at = "search"
           \/ \E c \in claims :
                /\ d.token = c.token /\ d.job = c.job
                /\ d.at \in {"plan", "commit"} =>
                     \/ d.read = snap
                     \/ c.at \in {"plan", "commit"} /\ d.read = c.read
<1> DEFINE Old == \E c \in claims :
                /\ d.token = c.token /\ d.job = c.job
                /\ d.at \in {"plan", "commit"} =>
                     \/ d.read = snap
                     \/ c.at \in {"plan", "commit"} /\ d.read = c.read
<1>1. CASE d \in claims
  BY <1>1
<1>2. ASSUME NEW p \in Procs, Claim(p), d \notin claims
      PROVE  d.token \in FreshTokens /\ d.at = "search"
  <2>1. PICK S \in SUBSET Jobs :
          \E f \in Injection(S, FreshTokens) : Grant(p, S, f)
    BY <1>2 DEF Claim
  <2>2. PICK f \in Injection(S, FreshTokens) : Grant(p, S, f)
    BY <2>1
  <2>3. f \in [S -> FreshTokens]
    BY DEF Injection
  <2>4. PICK j \in S :
          d = [job |-> j, token |-> f[j], owner |-> p, at |-> "search",
               read |-> NothingRead, late |-> FALSE]
    BY <1>2, <2>2 DEF Grant
  <2> QED BY <2>3, <2>4
<1>3. ASSUME NEW c \in claims,
             Search(c) \/ Planned(c) \/ StepFails(c) \/ PersistTimeout(c),
             d \notin claims
      PROVE  Old
  <2>1. c \in ClaimRecord
    BY DEF TypeOK
  <2>2. CASE Search(c)
    BY <1>3, <2>1, <2>2 DEF Search, Moved, ClaimRecord
  <2>3. CASE Planned(c)
    <3>1. d = [c EXCEPT !.at = "commit",
                        !.late = jobs[c.job].lease # "current"]
      BY <1>3, <2>3 DEF Planned, Moved
    <3> QED BY <2>1, <2>3, <3>1 DEF Planned, ClaimRecord
  <2>4. CASE StepFails(c)
    BY <1>3, <2>1, <2>4 DEF StepFails, Moved, ClaimRecord
  <2>5. CASE PersistTimeout(c)
    BY <1>3, <2>1, <2>5 DEF PersistTimeout, Moved, ClaimRecord
  <2> QED BY <1>3, <2>2, <2>3, <2>4, <2>5
<1>4. ASSUME NEW p \in Procs, Crash(p), d \notin claims PROVE Old
  <2>1. PICK c \in claims : d = [c EXCEPT !.owner = NoJob]
    BY <1>4 DEF Crash
  <2>2. c \in ClaimRecord
    BY DEF TypeOK
  <2> QED BY <2>1, <2>2 DEF ClaimRecord
<1>5. ASSUME NEW c \in claims, Persist(c) \/ PersistLost(c) PROVE d \in claims
  BY <1>5 DEF Persist, Commit, Fail, PersistRefused, PersistLost
<1>6. ASSUME NEW j \in Jobs, NEW s \in Slots, NEW h \in Hashes, Create(j, s, h)
      PROVE  d \in claims
  BY <1>6 DEF Create
<1>7. ASSUME NEW j \in Jobs, Cancel(j) \/ LeaseExpires(j) PROVE d \in claims
  BY <1>7 DEF Cancel, LeaseExpires
<1>8. ASSUME NEW p \in Procs, RequeueWatching(p) \/ CycleEnds(p) PROVE d \in claims
  BY <1>8 DEF RequeueWatching, CycleEnds
<1>9. ASSUME NEW r \in Regions, Stamp(r) \/ Publish(r) \/ PublishFails(r)
      PROVE  d \in claims
  BY <1>9 DEF Stamp, Publish, PublishFails
<1>10. CASE UNCHANGED vars
  BY <1>10 DEF vars
<1> QED
  BY <1>1, <1>2, <1>3, <1>4, <1>5, <1>6, <1>7, <1>8, <1>9, <1>10 DEF Next

-----------------------------------------------------------------------------
\* Fencing: no two claims ever share a token, so a row's token lets at most one
\* of them persist.
THEOREM FencingHolds == Spec => []LeaseExclusive
<1>1. Init => TokensDistinct
  BY DEF Init, TokensDistinct
<1>2. TypeOK /\ TokensDistinct /\ [Next]_vars => TokensDistinct'
  <2> SUFFICES ASSUME TypeOK, TokensDistinct, [Next]_vars PROVE TokensDistinct'
    OBVIOUS
  <2>1. CASE claims' \subseteq claims
    BY <2>1 DEF TokensDistinct
  <2>2. ASSUME NEW p \in Procs, Claim(p) PROVE TokensDistinct'
    <3>1. PICK S \in SUBSET Jobs :
            \E f \in Injection(S, FreshTokens) : Grant(p, S, f)
      BY <2>2 DEF Claim
    <3>2. PICK f \in Injection(S, FreshTokens) : Grant(p, S, f)
      BY <3>1
    <3>3. f \in [S -> FreshTokens] /\ \A i, j \in S : f[i] = f[j] => i = j
      BY DEF Injection, IsInjective
    <3>4. \A c \in claims : c.token \notin FreshTokens
      BY DEF FreshTokens, UsedTokens
    <3> DEFINE granted(j) ==
          [job |-> j, token |-> f[j], owner |-> p, at |-> "search",
           read |-> NothingRead, late |-> FALSE]
    <3>5. claims' = claims \cup {granted(j) : j \in S}
      BY <3>2 DEF Grant
    <3>6. \A j \in S : granted(j).token = f[j]
      OBVIOUS
    <3> HIDE DEF granted
    <3> QED BY <3>3, <3>4, <3>5, <3>6 DEF TokensDistinct
  <2>3. ASSUME NEW c \in claims,
               Search(c) \/ Planned(c) \/ StepFails(c) \/ PersistTimeout(c)
        PROVE  TokensDistinct'
    <3>1. c \in ClaimRecord
      BY DEF TypeOK
    <3>2. \E d : Moved(c, d) /\ d.token = c.token
      <4>1. CASE Planned(c)
        <5>1. Moved(c, [c EXCEPT !.at = "commit",
                                 !.late = jobs[c.job].lease # "current"])
          BY <4>1 DEF Planned
        <5>2. [c EXCEPT !.at = "commit",
                        !.late = jobs[c.job].lease # "current"].token = c.token
          BY <3>1 DEF ClaimRecord
        <5> QED BY <5>1, <5>2
      <4>2. CASE Search(c)
        <5>1. Moved(c, [c EXCEPT !.at = "plan", !.read = snap])
          BY <4>2 DEF Search
        <5>2. [c EXCEPT !.at = "plan", !.read = snap].token = c.token
          BY <3>1 DEF ClaimRecord
        <5> QED BY <5>1, <5>2
      <4>3. CASE StepFails(c)
        <5>1. Moved(c, [c EXCEPT !.at = "fail"])
          BY <4>3 DEF StepFails
        <5>2. [c EXCEPT !.at = "fail"].token = c.token
          BY <3>1 DEF ClaimRecord
        <5> QED BY <5>1, <5>2
      <4>4. CASE PersistTimeout(c)
        <5>1. Moved(c, [c EXCEPT !.owner = NoJob])
          BY <4>4 DEF PersistTimeout
        <5>2. [c EXCEPT !.owner = NoJob].token = c.token
          BY <3>1 DEF ClaimRecord
        <5> QED BY <5>1, <5>2
      <4> QED BY <2>3, <4>1, <4>2, <4>3, <4>4
    <3> QED BY <3>2 DEF Moved, TokensDistinct
  <2>4. ASSUME NEW p \in Procs, Crash(p) PROVE TokensDistinct'
    <3> DEFINE orphan(c) == [c EXCEPT !.owner = NoJob]
    <3>1. \A c \in claims : orphan(c).token = c.token
      BY DEF TypeOK, ClaimRecord
    <3>2. \A d \in claims' :
            \E c \in claims :
               \/ c.owner # p /\ d = c
               \/ c.owner = p /\ d = orphan(c)
      BY <2>4 DEF Crash
    <3> HIDE DEF orphan
    <3> QED BY <3>1, <3>2 DEF TokensDistinct
  <2>5. ASSUME NEW c \in claims, Persist(c) \/ PersistLost(c)
        PROVE  claims' \subseteq claims
    BY <2>5 DEF Persist, Commit, Fail, PersistRefused, PersistLost
  <2>6. ASSUME NEW j \in Jobs, NEW s \in Slots, NEW h \in Hashes, Create(j, s, h)
        PROVE  claims' \subseteq claims
    BY <2>6 DEF Create
  <2>7. ASSUME NEW j \in Jobs, Cancel(j) \/ LeaseExpires(j)
        PROVE  claims' \subseteq claims
    BY <2>7 DEF Cancel, LeaseExpires
  <2>8. ASSUME NEW p \in Procs, RequeueWatching(p) \/ CycleEnds(p)
        PROVE  claims' \subseteq claims
    BY <2>8 DEF RequeueWatching, CycleEnds
  <2>9. ASSUME NEW r \in Regions, Stamp(r) \/ Publish(r) \/ PublishFails(r)
        PROVE  claims' \subseteq claims
    BY <2>9 DEF Stamp, Publish, PublishFails
  <2>10. CASE UNCHANGED vars
    BY <2>10 DEF vars, TokensDistinct
  <2> QED
    BY <2>1, <2>2, <2>3, <2>4, <2>5, <2>6, <2>7, <2>8, <2>9, <2>10 DEF Next
<1>3. TokensDistinct => LeaseExclusive
  BY DEF TokensDistinct, LeaseExclusive, Fenced
<1> QED BY <1>1, <1>2, <1>3, TypeCorrect, PTL DEF Spec

-----------------------------------------------------------------------------
(* Results only move forward *)

\* Snapshots in flight are newer than the visible ones of their region.
StampsAhead ==
    \A r \in Regions : /\ snap[r] <= clock
                       /\ stamping[r] <= clock
                       /\ stamping[r] # 0 => snap[r] <= stamping[r]

\* What a claim has read lies between the results of its row, while it can
\* still replace them, and the visible snapshots.
ReadsBehind ==
    \A c \in claims, r \in Regions :
        c.at \in {"plan", "commit"} =>
            /\ c.read[r] <= snap[r]
            /\ Fenced(c) => basis[c.job][r] <= c.read[r]

BasisBehind == \A j \in Jobs, r \in Regions : basis[j][r] <= snap[r]

Ordered == StampsAhead /\ ReadsBehind /\ BasisBehind

\* Stamps are handed out in order, so a region's visible snapshot only gets newer.
LEMMA SnapGrows ==
    ASSUME TypeOK, StampsAhead, [Next]_vars
    PROVE  StampsAhead' /\ \A r \in Regions : snap[r] <= snap'[r]
<1> USE ConstantsAssumption
<1>1. \A r \in Regions : snap[r] \in Nat /\ stamping[r] \in Nat
  BY DEF TypeOK, Reads, Stamps
<1>2. clock \in Nat /\ DOMAIN snap = Regions /\ DOMAIN stamping = Regions
  BY DEF TypeOK, Stamps, Reads
<1>3. CASE UNCHANGED <<snap, stamping, clock>>
  BY <1>1, <1>3 DEF StampsAhead
<1>4. ASSUME NEW r \in Regions, Stamp(r) \/ Publish(r) \/ PublishFails(r)
      PROVE  StampsAhead' /\ \A q \in Regions : snap[q] <= snap'[q]
  <2>1. CASE Stamp(r)
    BY <1>1, <1>2, <2>1 DEF Stamp, StampsAhead
  <2>2. CASE Publish(r)
    BY <1>1, <1>2, <2>2 DEF Publish, StampsAhead
  <2>3. CASE PublishFails(r)
    BY <1>1, <1>2, <2>3 DEF PublishFails, StampsAhead
  <2> QED BY <1>4, <2>1, <2>2, <2>3
<1>5. ASSUME NEW j \in Jobs, NEW s \in Slots, NEW h \in Hashes, Create(j, s, h)
      PROVE  UNCHANGED <<snap, stamping, clock>>
  BY <1>5 DEF Create
<1>6. ASSUME NEW j \in Jobs, Cancel(j) \/ LeaseExpires(j)
      PROVE  UNCHANGED <<snap, stamping, clock>>
  BY <1>6 DEF Cancel, LeaseExpires
<1>7. ASSUME NEW p \in Procs,
             RequeueWatching(p) \/ Claim(p) \/ CycleEnds(p) \/ Crash(p)
      PROVE  UNCHANGED <<snap, stamping, clock>>
  BY <1>7 DEF RequeueWatching, Claim, CycleEnds, Crash
<1>8. ASSUME NEW c \in claims,
             \/ Search(c) \/ Planned(c) \/ StepFails(c) \/ Persist(c)
             \/ PersistTimeout(c) \/ PersistLost(c)
      PROVE  UNCHANGED <<snap, stamping, clock>>
  BY <1>8 DEF Search, Planned, StepFails, Persist, Commit, Fail, PersistRefused,
              PersistTimeout, PersistLost
<1> QED BY <1>3, <1>4, <1>5, <1>6, <1>7, <1>8 DEF Next, vars

\* Only a fenced commit changes the results of a row, and it gives the row up.
LEMMA BasisStep ==
    ASSUME TypeOK, [Next]_vars, NEW j \in Jobs
    PROVE  \/ basis'[j] = basis[j]
           \/ \E c \in claims : /\ c.job = j /\ c.at = "commit" /\ Fenced(c)
                                /\ basis'[j] = c.read
                                /\ jobs'[j].token = NoJob
                                /\ snap' = snap
<1>1. CASE basis' = basis
  BY <1>1
<1>2. ASSUME NEW c \in claims, Commit(c), c.job = j
      PROVE  /\ c.at = "commit" /\ Fenced(c) /\ basis'[j] = c.read
             /\ jobs'[j].token = NoJob /\ snap' = snap
  <2>1. jobs[j] \in Row
    BY DEF TypeOK, ClaimRecord
  <2>2. jobs'[j] = Committed(jobs[j])
    BY <1>2 DEF Commit, TypeOK
  <2>3. basis'[j] = c.read
    BY <1>2 DEF Commit, TypeOK
  <2> QED BY <1>2, <2>1, <2>2, <2>3, CommittedType DEF Commit, Commits
<1>3. ASSUME NEW c \in claims, Commit(c), c.job # j PROVE basis'[j] = basis[j]
  BY <1>3 DEF Commit, TypeOK
<1>4. ASSUME NEW c \in claims,
             \/ Search(c) \/ Planned(c) \/ StepFails(c) \/ Fail(c)
             \/ PersistRefused(c) \/ PersistTimeout(c) \/ PersistLost(c)
      PROVE  basis' = basis
  BY <1>4 DEF Search, Planned, StepFails, Fail, PersistRefused, PersistTimeout,
              PersistLost
<1>5. ASSUME NEW i \in Jobs, NEW s \in Slots, NEW h \in Hashes, Create(i, s, h)
      PROVE  basis' = basis
  BY <1>5 DEF Create
<1>6. ASSUME NEW i \in Jobs, Cancel(i) \/ LeaseExpires(i) PROVE basis' = basis
  BY <1>6 DEF Cancel, LeaseExpires
<1>7. ASSUME NEW p \in Procs,
             RequeueWatching(p) \/ Claim(p) \/ CycleEnds(p) \/ Crash(p)
      PROVE  basis' = basis
  BY <1>7 DEF RequeueWatching, Claim, CycleEnds, Crash
<1>8. ASSUME NEW r \in Regions, Stamp(r) \/ Publish(r) \/ PublishFails(r)
      PROVE  basis' = basis
  BY <1>8 DEF Stamp, Publish, PublishFails
<1> QED
  BY <1>1, <1>2, <1>3, <1>4, <1>5, <1>6, <1>7, <1>8 DEF Next, Persist, vars

\* Every step keeps stamps ahead of snapshots, reads behind what is visible,
\* and a row's results behind the read of a claim that can still commit.
LEMMA OrderedStep == TypeOK /\ Ordered /\ [Next]_vars => Ordered'
<1> SUFFICES ASSUME TypeOK, Ordered, [Next]_vars PROVE Ordered'
  OBVIOUS
<1>0. /\ \A r \in Regions : snap[r] \in Nat
      /\ \A j \in Jobs, r \in Regions : basis[j][r] \in Nat
      /\ \A c \in claims, r \in Regions : c.read[r] \in Nat
  BY ConstantsAssumption DEF TypeOK, ClaimRecord, Reads, Stamps
<1>1. StampsAhead' /\ \A r \in Regions : snap[r] <= snap'[r]
  BY SnapGrows DEF Ordered
<1>2. \A r \in Regions : snap'[r] \in Nat
  <2>1. TypeOK'
    BY TypeStep
  <2> QED BY <2>1, ConstantsAssumption DEF TypeOK, Reads, Stamps
<1>3. BasisBehind'
  <2> SUFFICES ASSUME NEW j \in Jobs, NEW r \in Regions
               PROVE  basis'[j][r] <= snap'[r]
    BY DEF BasisBehind
  <2>1. CASE basis'[j] = basis[j]
    BY <1>0, <1>1, <1>2, <2>1 DEF Ordered, BasisBehind
  <2>2. ASSUME NEW c \in claims, c.at = "commit", basis'[j] = c.read
        PROVE  basis'[j][r] <= snap'[r]
    BY <1>0, <1>1, <1>2, <2>2 DEF Ordered, ReadsBehind
  <2> QED BY <2>1, <2>2, BasisStep
<1>4. ReadsBehind'
  <2> SUFFICES ASSUME NEW d \in claims', NEW r \in Regions,
                      d.at \in {"plan", "commit"}
               PROVE  /\ d.read[r] <= snap'[r]
                      /\ Fenced(d)' => basis'[d.job][r] <= d.read[r]
    BY DEF ReadsBehind
  <2>1. PICK c \in claims :
          /\ d.token = c.token /\ d.job = c.job
          /\ \/ d.read = snap
             \/ c.at \in {"plan", "commit"} /\ d.read = c.read
    BY ClaimsStep
  <2>2. c.job \in Jobs /\ c.token \in Tokens /\ c.token # NoJob
    BY ConstantsAssumption DEF TypeOK, ClaimRecord
  <2>3. d.read[r] <= snap'[r]
    BY <1>0, <1>1, <1>2, <2>1 DEF Ordered, ReadsBehind
  <2>4. ASSUME Fenced(d)' PROVE basis'[d.job][r] <= d.read[r]
    <3>1. jobs'[c.job].token = c.token
      BY <2>1, <2>4 DEF Fenced
    <3>2. Fenced(c)
      BY <3>1, FenceOnlyFalls
    <3>3. basis'[c.job] = basis[c.job]
      BY <2>2, <3>1, BasisStep
    <3>4. basis[c.job][r] <= d.read[r]
      BY <2>1, <2>2, <3>2 DEF Ordered, ReadsBehind, BasisBehind
    <3> QED BY <2>1, <3>3, <3>4
  <2> QED BY <2>3, <2>4
<1> QED BY <1>1, <1>3, <1>4 DEF Ordered

\* A commit never replaces results computed from newer snapshots: a claim that
\* can still commit has read at least what its row was last computed from.
THEOREM ResultsMoveForward == Spec => ResultsNeverGoBack
<1>1. Init => Ordered
  BY ConstantsAssumption
  DEF Init, Ordered, StampsAhead, ReadsBehind, BasisBehind, NothingRead
<1>2. TypeOK /\ Ordered /\ [Next]_vars
        => [\A j \in Jobs, r \in Regions : basis'[j][r] >= basis[j][r]]_vars
  <2> SUFFICES ASSUME TypeOK, Ordered, [Next]_vars,
                      NEW j \in Jobs, NEW r \in Regions
               PROVE  basis'[j][r] >= basis[j][r]
    OBVIOUS
  <2>1. basis[j][r] \in Nat /\ \A c \in claims : c.read[r] \in Nat
    BY ConstantsAssumption DEF TypeOK, ClaimRecord, Reads, Stamps
  <2>2. CASE basis'[j] = basis[j]
    BY <2>1, <2>2
  <2>3. ASSUME NEW c \in claims, c.job = j, c.at = "commit", Fenced(c),
               basis'[j] = c.read
        PROVE  basis'[j][r] >= basis[j][r]
    BY <2>1, <2>3 DEF Ordered, ReadsBehind
  <2> QED BY <2>2, <2>3, BasisStep
<1> QED
  BY <1>1, <1>2, OrderedStep, TypeCorrect, PTL DEF Spec, ResultsNeverGoBack

-----------------------------------------------------------------------------
(* One live plan per slot *)

\* Whoever leaves the live states without a user's cancel gives up the token.
DeadRowsReleased ==
    \A j \in Jobs \ cancelled : ~LiveRow(j) => jobs[j].token = NoJob

\* A cancelled row is never forgotten.
LEMMA CancelledGrows ==
    ASSUME [Next]_vars PROVE cancelled \subseteq cancelled'
<1>1. ASSUME NEW j \in Jobs, NEW s \in Slots, NEW h \in Hashes, Create(j, s, h)
      PROVE  cancelled \subseteq cancelled'
  BY <1>1 DEF Create
<1>2. ASSUME NEW j \in Jobs, Cancel(j) \/ LeaseExpires(j)
      PROVE  cancelled \subseteq cancelled'
  BY <1>2 DEF Cancel, LeaseExpires
<1>3. ASSUME NEW p \in Procs,
             RequeueWatching(p) \/ Claim(p) \/ CycleEnds(p) \/ Crash(p)
      PROVE  cancelled \subseteq cancelled'
  BY <1>3 DEF RequeueWatching, Claim, CycleEnds, Crash
<1>4. ASSUME NEW c \in claims,
             \/ Search(c) \/ Planned(c) \/ StepFails(c) \/ Persist(c)
             \/ PersistTimeout(c) \/ PersistLost(c)
      PROVE  cancelled \subseteq cancelled'
  BY <1>4 DEF Search, Planned, StepFails, Persist, Commit, Fail, PersistRefused,
              PersistTimeout, PersistLost
<1>5. ASSUME NEW r \in Regions, Stamp(r) \/ Publish(r) \/ PublishFails(r)
      PROVE  cancelled \subseteq cancelled'
  BY <1>5 DEF Stamp, Publish, PublishFails
<1> QED BY <1>1, <1>2, <1>3, <1>4, <1>5 DEF Next, vars

\* A row no user has cancelled was live, or is the one Create inserts, or stays
\* dead without a token.
LEMMA LiveStep ==
    ASSUME TypeOK, DeadRowsReleased, [Next]_vars, NEW k \in Jobs \ cancelled'
    PROVE  /\ LiveRow(k)' => \/ LiveRow(k) /\ jobs'[k].slot = jobs[k].slot
                             \/ \E h \in Hashes : Create(k, jobs'[k].slot, h)
           /\ ~LiveRow(k)' => jobs'[k].token = NoJob
<1>0. jobs \in [Jobs -> Row] /\ jobs[k] \in Row
  BY DEF TypeOK
<1>a. k \notin cancelled
  BY CancelledGrows
<1> DEFINE Kept == /\ LiveRow(k)' => LiveRow(k) /\ jobs'[k].slot = jobs[k].slot
                   /\ ~LiveRow(k)' => jobs'[k].token = NoJob
<1>1. ASSUME jobs'[k] = jobs[k] PROVE Kept
  BY <1>a, <1>1 DEF LiveRow, DeadRowsReleased
<1>2. ASSUME NEW j \in Jobs, NEW s \in Slots, NEW h \in Hashes, Create(j, s, h)
      PROVE  \/ Kept
             \/ LiveRow(k)' /\ Create(k, jobs'[k].slot, h)
  <2>1. CASE j = k
    <3>1. jobs'[k] = [jobs[k] EXCEPT !.slot = s, !.hash = h, !.state = "queued"]
      BY <1>2, <2>1 DEF Create
    <3>2. jobs'[k].slot = s /\ jobs'[k].state = "queued"
      BY <1>0, <3>1 DEF Row
    <3> QED BY <1>2, <2>1, <3>2 DEF LiveRow, Live, Active
  <2>2. CASE j # k /\ jobs'[k] = Superseded(jobs[k])
    <3>1. jobs'[k].state = "cancelled" /\ jobs'[k].token = NoJob
      BY <1>0, <2>2, ReleasedType DEF Superseded, Terminal
    <3> QED BY <3>1 DEF LiveRow, Live, Active
  <2>3. CASE j # k /\ jobs'[k] = jobs[k]
    BY <1>a, <2>3 DEF LiveRow, DeadRowsReleased
  <2> QED BY <1>2, <2>1, <2>2, <2>3 DEF Create
<1>3. ASSUME NEW j \in Jobs, Cancel(j) \/ LeaseExpires(j) PROVE Kept
  <2>1. \/ jobs'[k] = jobs[k]
        \/ jobs'[k] = [jobs[k] EXCEPT !.lease = "expired"]
    BY <1>0, <1>3 DEF Cancel, LeaseExpires
  <2>2. /\ jobs'[k].state = jobs[k].state /\ jobs'[k].slot = jobs[k].slot
        /\ jobs'[k].token = jobs[k].token
    BY <1>0, <2>1 DEF Row
  <2> QED BY <1>a, <2>2 DEF LiveRow, DeadRowsReleased
<1>4. ASSUME NEW p \in Procs, RequeueWatching(p) PROVE Kept
  <2>1. PICK m \in Stamps :
          \/ jobs'[k] = jobs[k]
          \/ /\ jobs[k].state = "watching"
             /\ jobs'[k] = [jobs[k] EXCEPT !.state = "queued", !.signature = m]
    BY <1>4 DEF RequeueWatching
  <2>2. CASE /\ jobs[k].state = "watching"
             /\ jobs'[k] = [jobs[k] EXCEPT !.state = "queued", !.signature = m]
    <3>1. jobs'[k].state = "queued" /\ jobs'[k].slot = jobs[k].slot
      BY <1>0, <2>2 DEF Row
    <3>2. jobs[k].state \in Live /\ jobs'[k].state \in Live
      BY <2>2, <3>1 DEF Live, Active
    <3> QED BY <3>1, <3>2 DEF LiveRow
  <2> QED BY <1>1, <2>1, <2>2
<1>5. ASSUME NEW p \in Procs, Claim(p) PROVE Kept
  <2>1. PICK S \in SUBSET Jobs :
          \E f \in Injection(S, FreshTokens) : Picked(S) /\ Grant(p, S, f)
    BY <1>5 DEF Claim
  <2>2. PICK f \in Injection(S, FreshTokens) : Picked(S) /\ Grant(p, S, f)
    BY <2>1
  <2>3. CASE k \in S
    <3>1. jobs[k].state \in Active
      BY <2>2, <2>3 DEF Picked, Claimable
    <3>2. jobs'[k] = [jobs[k] EXCEPT !.state = "discovering", !.token = f[k],
                        !.lease = "current",
                        !.attempt = Attempted(jobs[k].attempt)]
      BY <2>2, <2>3 DEF Grant
    <3>3. jobs'[k].state = "discovering" /\ jobs'[k].slot = jobs[k].slot
      BY <1>0, <3>2 DEF Row
    <3>4. jobs[k].state \in Live /\ jobs'[k].state \in Live
      BY <3>1, <3>3 DEF Live, Active
    <3> QED BY <3>3, <3>4 DEF LiveRow
  <2>4. CASE k \notin S
    BY <1>1, <2>2, <2>4 DEF Grant
  <2> QED BY <2>3, <2>4
<1>6. ASSUME NEW c \in claims, Commit(c) \/ Fail(c) PROVE Kept
  <2>1. c.token # NoJob
    BY ConstantsAssumption DEF TypeOK, ClaimRecord
  <2>2. CASE k = c.job
    <3>1. LiveRow(k)
      BY <1>a, <1>6, <2>1, <2>2 DEF Commit, Commits, Fail, Fails, Fenced, DeadRowsReleased
    <3>2. RetryState(jobs[k]) \in Live \cup Terminal
      BY DEF RetryState, Live, Active, Terminal
    <3>3. \/ jobs'[k] = Committed(jobs[k])
          \/ jobs'[k] = Released(jobs[k], RetryState(jobs[k]))
      BY <1>0, <1>6, <2>2 DEF Commit, Fail
    <3>4. jobs'[k].token = NoJob /\ jobs'[k].slot = jobs[k].slot
      BY <1>0, <2>1, <3>2, <3>3, CommittedType, ReleasedType
    <3> QED BY <3>1, <3>4 DEF LiveRow
  <2>3. CASE k # c.job
    BY <1>0, <1>1, <1>6, <2>3 DEF Commit, Fail
  <2> QED BY <2>2, <2>3
<1>7. ASSUME NEW c \in claims,
             \/ Search(c) \/ Planned(c) \/ StepFails(c) \/ PersistRefused(c)
             \/ PersistTimeout(c) \/ PersistLost(c)
      PROVE  jobs' = jobs
  BY <1>7 DEF Search, Planned, StepFails, PersistRefused, PersistTimeout, PersistLost
<1>8. ASSUME NEW p \in Procs, CycleEnds(p) \/ Crash(p) PROVE jobs' = jobs
  BY <1>8 DEF CycleEnds, Crash
<1>9. ASSUME NEW r \in Regions, Stamp(r) \/ Publish(r) \/ PublishFails(r)
      PROVE  jobs' = jobs
  BY <1>9 DEF Stamp, Publish, PublishFails
<1> QED
  BY <1>1, <1>2, <1>3, <1>4, <1>5, <1>6, <1>7, <1>8, <1>9 DEF Next, Persist, vars


\* Create's promise holds for the plans no user has cancelled: at most one of an
\* account, character and mode is live, whatever workers, leases and crashes do.
THEOREM OnePlanPerSlot == Spec => []OneUncancelledPlan
<1>1. Init => DeadRowsReleased /\ OneUncancelledPlan
  BY DEF Init, DeadRowsReleased, OneUncancelledPlan, LiveRow, Live, Active, Absent
<1>2. TypeOK /\ DeadRowsReleased /\ OneUncancelledPlan /\ [Next]_vars
        => DeadRowsReleased' /\ OneUncancelledPlan'
  <2> SUFFICES ASSUME TypeOK, DeadRowsReleased, OneUncancelledPlan, [Next]_vars
               PROVE  DeadRowsReleased' /\ OneUncancelledPlan'
    OBVIOUS
  <2>1. DeadRowsReleased'
    BY LiveStep DEF DeadRowsReleased
  <2>2. ASSUME NEW j \in Jobs, NEW h \in Hashes, Create(j, jobs'[j].slot, h)
        PROVE  \A i \in Jobs \ {j} : jobs'[i].slot = jobs'[j].slot => ~LiveRow(i)'
    <3> SUFFICES ASSUME NEW i \in Jobs \ {j}, jobs'[i].slot = jobs'[j].slot
                 PROVE  ~LiveRow(i)'
      OBVIOUS
    <3>1. jobs[i] \in Row
      BY DEF TypeOK
    <3>2. CASE jobs'[i] = Superseded(jobs[i])
      <4>1. jobs'[i].state = "cancelled"
        BY <3>1, <3>2, ReleasedType DEF Superseded, Terminal
      <4> QED BY <4>1 DEF LiveRow, Live, Active
    <3>3. CASE /\ jobs'[i] = jobs[i]
               /\ ~(LiveRow(i) /\ jobs[i].slot = jobs'[j].slot)
      BY <3>3 DEF LiveRow
    <3> QED BY <2>2, <3>2, <3>3 DEF Create
  <2>3. OneUncancelledPlan'
    <3> SUFFICES ASSUME NEW i \in Jobs \ cancelled', NEW j \in Jobs \ cancelled',
                        i # j,
                        jobs'[i].slot = jobs'[j].slot, LiveRow(i)', LiveRow(j)'
                 PROVE  FALSE
      BY DEF OneUncancelledPlan
    <3>1. CASE \E h \in Hashes : Create(i, jobs'[i].slot, h)
      BY <2>2, <3>1
    <3>2. CASE \E h \in Hashes : Create(j, jobs'[j].slot, h)
      BY <2>2, <3>2
    <3>3. CASE /\ LiveRow(i) /\ jobs'[i].slot = jobs[i].slot
               /\ LiveRow(j) /\ jobs'[j].slot = jobs[j].slot
      BY <3>3, CancelledGrows DEF OneUncancelledPlan
    <3> QED BY <3>1, <3>2, <3>3, LiveStep
  <2> QED BY <2>1, <2>3
<1> QED BY <1>1, <1>2, TypeCorrect, PTL DEF Spec

-----------------------------------------------------------------------------
(* No snapshot is missed *)

\* A snapshot as new as m is among those f maps the regions to.
Covers(f, m) == m = 0 \/ \E r \in Regions : m <= f[r]

\* Who signs a row has seen a snapshot as new: the worker that queues it again
\* the visible ones, a claim that may still commit what it read, a watching
\* plan its results.  A watching plan has been released.
Signed ==
    /\ \A j \in Jobs : Covers(snap, jobs[j].signature)
    /\ \A c \in claims :
         c.at \in {"plan", "commit"} /\ Fenced(c) =>
             Covers(c.read, jobs[c.job].signature)
    /\ \A j \in Jobs :
         jobs[j].state = "watching" => /\ Covers(basis[j], jobs[j].signature)
                                       /\ jobs[j].token = NoJob

\* RequeueWatching is the only step that signs a row, a watching one; a fenced
\* commit is the only one that makes a row watch.
LEMMA WatchStep ==
    ASSUME TypeOK, [Next]_vars, NEW k \in Jobs
    PROVE  /\ \/ jobs'[k].signature = jobs[k].signature
              \/ /\ jobs[k].state = "watching"
                 /\ Covers(snap, jobs'[k].signature)
                 /\ jobs'[k].token = jobs[k].token
           /\ jobs'[k].state = "watching" =>
                /\ jobs'[k].signature = jobs[k].signature
                /\ \/ /\ jobs[k].state = "watching"
                      /\ jobs'[k].token = jobs[k].token
                   \/ /\ jobs'[k].token = NoJob
                      /\ \E c \in claims :
                           /\ c.job = k /\ c.at = "commit" /\ Fenced(c)
                           /\ basis'[k] = c.read
<1> DEFINE Kept == jobs'[k].signature = jobs[k].signature
           Quiet == Kept /\ (jobs'[k].state = "watching" =>
                               /\ jobs[k].state = "watching"
                               /\ jobs'[k].token = jobs[k].token)
<1>0. jobs \in [Jobs -> Row] /\ jobs[k] \in Row
  BY DEF TypeOK
<1>1. ASSUME jobs'[k] = jobs[k] PROVE Quiet
  BY <1>1
<1>2. ASSUME NEW j \in Jobs, NEW s \in Slots, NEW h \in Hashes, Create(j, s, h)
      PROVE  Quiet
  <2>1. \/ jobs'[k] = [jobs[k] EXCEPT !.slot = s, !.hash = h, !.state = "queued"]
        \/ jobs'[k] = Superseded(jobs[k])
        \/ jobs'[k] = jobs[k]
    BY <1>2 DEF Create
  <2>2. CASE jobs'[k] = [jobs[k] EXCEPT !.slot = s, !.hash = h, !.state = "queued"]
    BY <1>0, <2>2 DEF Row
  <2>3. CASE jobs'[k] = Superseded(jobs[k])
    BY <1>0, <2>3 DEF Superseded, Released, Row
  <2> QED BY <2>1, <2>2, <2>3
<1>3. ASSUME NEW j \in Jobs, Cancel(j) \/ LeaseExpires(j) PROVE Quiet
  <2>1. \/ jobs'[k] = jobs[k]
        \/ jobs'[k] = [jobs[k] EXCEPT !.state = "cancelled"]
        \/ jobs'[k] = [jobs[k] EXCEPT !.lease = "expired"]
    BY <1>0, <1>3 DEF Cancel, LeaseExpires
  <2> QED BY <1>0, <2>1 DEF Row
<1>4. ASSUME NEW p \in Procs, RequeueWatching(p)
      PROVE  \/ Quiet
             \/ /\ jobs[k].state = "watching" /\ jobs'[k].state # "watching"
                /\ Covers(snap, jobs'[k].signature)
                /\ jobs'[k].token = jobs[k].token
  <2>1. PICK m \in Stamps :
          /\ Newest(m)
          /\ \/ jobs'[k] = jobs[k]
             \/ /\ jobs[k].state = "watching"
                /\ jobs'[k] = [jobs[k] EXCEPT !.state = "queued", !.signature = m]
    BY <1>4 DEF RequeueWatching
  <2>2. Covers(snap, m)
    <3>1. m = 0 \/ \E r \in Regions : m = snap[r]
      BY <2>1 DEF Newest, Range, TypeOK, Reads
    <3> QED BY <3>1 DEF Covers, Stamps
  <2>3. CASE /\ jobs[k].state = "watching"
             /\ jobs'[k] = [jobs[k] EXCEPT !.state = "queued", !.signature = m]
    <3>1. /\ jobs'[k].state = "queued" /\ jobs'[k].signature = m
          /\ jobs'[k].token = jobs[k].token
      BY <1>0, <2>3 DEF Row
    <3> QED BY <2>2, <2>3, <3>1
  <2> QED BY <2>1, <2>3
<1>5. ASSUME NEW p \in Procs, Claim(p) PROVE Quiet
  <2>1. PICK S \in SUBSET Jobs :
          \E f \in Injection(S, FreshTokens) : Grant(p, S, f)
    BY <1>5 DEF Claim
  <2>2. PICK f \in Injection(S, FreshTokens) : Grant(p, S, f)
    BY <2>1
  <2>3. \/ jobs'[k] = jobs[k]
        \/ jobs'[k] = [jobs[k] EXCEPT !.state = "discovering", !.token = f[k],
                         !.lease = "current",
                         !.attempt = Attempted(jobs[k].attempt)]
    BY <2>2 DEF Grant
  <2> QED BY <1>0, <2>3 DEF Row
<1>6. ASSUME NEW c \in claims, Commit(c)
      PROVE  \/ Quiet
             \/ /\ Kept /\ jobs'[k].token = NoJob
                /\ c.job = k /\ c.at = "commit" /\ Fenced(c) /\ basis'[k] = c.read
  <2>1. CASE c.job = k
    <3>1. jobs'[k] = Committed(jobs[k]) /\ basis'[k] = c.read
      BY <1>0, <1>6, <2>1 DEF Commit, TypeOK
    <3>2. jobs'[k].signature = jobs[k].signature /\ jobs'[k].token = NoJob
      BY <1>0, <3>1 DEF Committed, Released, Row
    <3> QED BY <1>6, <2>1, <3>1, <3>2 DEF Commit, Commits
  <2>2. CASE c.job # k
    BY <1>0, <1>1, <1>6, <2>2 DEF Commit
  <2> QED BY <2>1, <2>2
<1>7. ASSUME NEW c \in claims, Fail(c) PROVE Quiet
  <2>1. \/ jobs'[k] = jobs[k]
        \/ jobs'[k] = Released(jobs[k], RetryState(jobs[k]))
    BY <1>0, <1>7 DEF Fail
  <2>2. CASE jobs'[k] = Released(jobs[k], RetryState(jobs[k]))
    <3>1. /\ jobs'[k].signature = jobs[k].signature
          /\ jobs'[k].state = RetryState(jobs[k])
      BY <1>0, <2>2 DEF Released, Row
    <3> QED BY <3>1 DEF RetryState
  <2> QED BY <2>1, <2>2
<1>8. ASSUME NEW c \in claims,
             \/ Search(c) \/ Planned(c) \/ StepFails(c) \/ PersistRefused(c)
             \/ PersistTimeout(c) \/ PersistLost(c)
      PROVE  jobs' = jobs
  BY <1>8 DEF Search, Planned, StepFails, PersistRefused, PersistTimeout, PersistLost
<1>9. ASSUME NEW p \in Procs, CycleEnds(p) \/ Crash(p) PROVE jobs' = jobs
  BY <1>9 DEF CycleEnds, Crash
<1>10. ASSUME NEW r \in Regions, Stamp(r) \/ Publish(r) \/ PublishFails(r)
       PROVE  jobs' = jobs
  BY <1>10 DEF Stamp, Publish, PublishFails
<1> QED
  BY <1>1, <1>2, <1>3, <1>4, <1>5, <1>6, <1>7, <1>8, <1>9, <1>10
  DEF Next, Persist, vars

\* Every step keeps the signatures behind what was seen.
LEMMA SignedStep == TypeOK /\ Ordered /\ Signed /\ [Next]_vars => Signed'
<1> SUFFICES ASSUME TypeOK, Ordered, Signed, [Next]_vars PROVE Signed'
  OBVIOUS
<1>0. /\ \A r \in Regions : snap[r] \in Nat /\ snap'[r] \in Nat
      /\ \A j \in Jobs : jobs[j].signature \in Nat /\ jobs'[j].signature \in Nat
  <2>1. TypeOK'
    BY TypeStep
  <2> QED BY <2>1, ConstantsAssumption DEF TypeOK, Row, Reads, Stamps
<1>1. ASSUME NEW m \in Nat, Covers(snap, m) PROVE Covers(snap, m)'
  BY <1>0, <1>1, SnapGrows DEF Ordered, Covers
<1>2. ASSUME NEW j \in Jobs PROVE Covers(snap, jobs[j].signature)'
  <2>1. Covers(snap, jobs'[j].signature)
    BY WatchStep DEF Signed
  <2> QED BY <1>0, <1>1, <2>1 DEF Covers
<1>3. ASSUME NEW d \in claims', d.at \in {"plan", "commit"}, Fenced(d)'
      PROVE  Covers(d.read, jobs[d.job].signature)'
  <2>1. PICK c \in claims :
          /\ d.token = c.token /\ d.job = c.job
          /\ \/ d.read = snap
             \/ c.at \in {"plan", "commit"} /\ d.read = c.read
    <3>1. d.token \in FreshTokens => d.at # "search"
      BY <1>3
    <3> QED BY <1>3, <3>1, ClaimsStep
  <2>2. c.job \in Jobs /\ c.token # NoJob
    BY ConstantsAssumption DEF TypeOK, ClaimRecord
  <2>3. jobs'[c.job].token = c.token
    BY <1>3, <2>1 DEF Fenced
  <2>4. Fenced(c)
    BY <2>3, FenceOnlyFalls
  <2>5. jobs'[c.job].signature = jobs[c.job].signature
    BY <2>2, <2>3, WatchStep DEF Signed
  <2>6. Covers(d.read, jobs[c.job].signature)
    BY <2>1, <2>2, <2>4 DEF Signed
  <2> QED BY <2>1, <2>5, <2>6 DEF Covers
<1>4. ASSUME NEW j \in Jobs, jobs'[j].state = "watching"
      PROVE  Covers(basis[j], jobs[j].signature)' /\ jobs'[j].token = NoJob
  <2>1. jobs'[j].signature = jobs[j].signature
    BY <1>4, WatchStep
  <2>2. ASSUME NEW c \in claims, c.job = j, c.at = "commit", Fenced(c),
               basis'[j] = c.read
        PROVE  Covers(basis[j], jobs[j].signature)'
    BY <2>1, <2>2 DEF Signed, Covers
  <2>3. ASSUME basis'[j] = basis[j], jobs[j].state = "watching"
        PROVE  Covers(basis[j], jobs[j].signature)'
    BY <2>1, <2>3 DEF Signed, Covers
  <2>4. jobs'[j].token = NoJob
    BY <1>4, WatchStep DEF Signed
  <2> QED BY <1>4, <2>2, <2>3, <2>4, WatchStep, BasisStep
<1> QED BY <1>2, <1>3, <1>4 DEF Signed

\* A plan is never signed beyond its results: when it watches, one of the
\* snapshots its results were computed from is at least as new as its signature.
THEOREM SignatureIsRead ==
    Spec => [](\A j \in Jobs :
                 jobs[j].state = "watching" => Covers(basis[j], jobs[j].signature))
<1>1. Init => Ordered
  BY ConstantsAssumption
  DEF Init, Ordered, StampsAhead, ReadsBehind, BasisBehind, NothingRead
<1>2. Init => Signed
  BY DEF Init, Signed, Covers, Absent
<1>3. Signed => \A j \in Jobs :
        jobs[j].state = "watching" => Covers(basis[j], jobs[j].signature)
  BY DEF Signed
<1> QED BY <1>1, <1>2, <1>3, SignedStep, OrderedStep, TypeCorrect, PTL DEF Spec

\* Where plans watch one region no snapshot is missed: one that is visible and
\* that a watching plan has not read is newer than the plan's signature.
\* (With two, a snapshot stamped early and committed late may be covered.)
THEOREM OneRegionMissesNothing ==
    ASSUME NEW r, Regions = {r}
    PROVE  Spec => []NoMissedSnapshot
<1>1. Init => Ordered
  BY ConstantsAssumption
  DEF Init, Ordered, StampsAhead, ReadsBehind, BasisBehind, NothingRead
<1>2. Init => Signed
  BY DEF Init, Signed, Covers, Absent
<1>3. TypeOK /\ Ordered /\ Signed => NoMissedSnapshot
  <2> SUFFICES ASSUME TypeOK, Ordered, Signed, NEW j \in Jobs,
                      jobs[j].state = "watching", basis[j] # snap
               PROVE  Unsigned(j)
    BY DEF NoMissedSnapshot
  <2>0. /\ basis[j] \in Reads /\ snap \in Reads
        /\ basis[j][r] \in Nat /\ snap[r] \in Nat /\ jobs[j].signature \in Nat
    BY ConstantsAssumption DEF TypeOK, Row, Reads, Stamps
  <2>1. basis[j][r] # snap[r]
    BY <2>0 DEF Reads
  <2>2. basis[j][r] < snap[r]
    BY <2>0, <2>1 DEF Ordered, BasisBehind
  <2>3. jobs[j].signature <= basis[j][r]
    BY <2>0 DEF Signed, Covers
  <2> QED BY <2>0, <2>2, <2>3 DEF Unsigned
<1> QED BY <1>1, <1>2, <1>3, SignedStep, OrderedStep, TypeCorrect, PTL DEF Spec

=============================================================================
