----------------------- MODULE MarketSchedulerProofs -----------------------
(***************************************************************************)
(* Proofs about MarketScheduler, for any number of regions, processes,     *)
(* tokens and faults: one goroutine collects a region, and its snapshots   *)
(* move forward, unless a worker overstays its lease.  The inductive       *)
(* invariant says that a goroutine that collects a region still holds the  *)
(* region's job, under the current lease: nothing ends that lease while it *)
(* works, and no statement takes a job whose lease is current.             *)
(***************************************************************************)
EXTENDS MarketScheduler, OrderLemmas, TLAPS

\* A lease is current only while its job is claimed.
LeasedIsClaimed == \A r \in Regions : jobs[r].lease = "current" => jobs[r].state = "claimed"

\* Tokens tell the claims of a region apart, and no claim waits for its own.
OneToken == \A c, d \in claims : c.region = d.region /\ c.token = d.token => c = d
NotAfterItself == \A c \in claims : c.token \notin c.after

\* Who collects holds the job, and is overtaken only after an overrun.
CollectorsHold == \A c \in Collecting : c.region \notin overrun => Holds(c)
PassedOverran == \A c \in claims : c.passed => c.region \in overrun

ClaimsInv == /\ claims \subseteq Claim /\ OneToken /\ NotAfterItself
             /\ CollectorsHold /\ PassedOverran

SchedInv == /\ jobs \in [Regions -> Job] /\ LeasedIsClaimed
            /\ ClaimsInv
            /\ outdated \subseteq overrun

-----------------------------------------------------------------------------
LEMMA InvGivesOne == SchedInv => OneCollector
<1> SUFFICES ASSUME SchedInv, NEW c \in Collecting, NEW d \in Collecting,
                    c.region = d.region, c.region \notin overrun
             PROVE  c = d
  BY DEF OneCollector
<1>1. c.token = jobs[c.region].token /\ d.token = jobs[c.region].token
  BY DEF SchedInv, ClaimsInv, CollectorsHold, Holds
<1>2. c \in claims /\ d \in claims
  BY DEF Collecting
<1> QED BY <1>1, <1>2 DEF SchedInv, ClaimsInv, OneToken

\* What the priorities of the schedule are; no code writes them.
Ranked == priority \in Schedules

LEMMA InitRanked == Init => Ranked
BY DEF Init, Ranked

LEMMA StepRanked == Ranked /\ [Next]_vars => Ranked'
BY DEF Ranked, Next, Tick, RecoverExpired, Recover, EnqueueDue, Enqueue, ClaimJobs, Crash,
       Process, Collect, CollectFails, Publish, Finish, Book, Spoil, HeartbeatLost,
       HeartbeatFails, StatementFails, TimePasses, RequestRefresh, LeaseExpires, Stall, vars

LEMMA TerminalJob ==
    /\ Terminal \in Job /\ Terminal.lease = "none"
    /\ \A n \in Int : Queued(n) \in Job /\ Queued(n).lease = "none"
BY DEF Terminal, Queued, Job

LEMMA QueuedJob ==
    \A n : /\ Queued(n).state = "queued" /\ Queued(n).token = NoToken
           /\ Queued(n).lease = "none"
BY DEF Queued

LEMMA ScheduledJob ==
    ASSUME Ranked
    PROVE  \A r \in Regions : Queued(priority[r]) \in Job /\ Queued(priority[r]).lease = "none"
<1>1. \A r \in Regions : priority[r] \in Int
  BY SchedulerAssumption DEF Ranked
<1> QED BY <1>1, TerminalJob

LEMMA InitScheduler == Init => SchedInv
BY TerminalJob DEF Init, SchedInv, LeasedIsClaimed, ClaimsInv, OneToken, NotAfterItself,
                   CollectorsHold, PassedOverran, Collecting

\* Fewer claims over jobs that keep their current leases.
LEMMA FewerClaims ==
    ASSUME ClaimsInv, claims' \subseteq claims, overrun \subseteq overrun',
           \A c \in claims' : c.at # "book" /\ c.region \notin overrun' /\ Holds(c) => Holds(c)'
    PROVE  ClaimsInv'
BY DEF ClaimsInv, OneToken, NotAfterItself, CollectorsHold, PassedOverran, Collecting

\* A claim goes on: what it becomes has its region and token.
LEMMA ClaimAdvances ==
    ASSUME ClaimsInv, NEW c \in claims, NEW d \in Claim, Advance(c, d),
           d.region = c.region, d.token = c.token, d.token \notin d.after,
           d.passed => c.passed, d.at # "book" => c.at # "book",
           overrun \subseteq overrun', jobs' = jobs
    PROVE  ClaimsInv'
<1>1. \A b \in claims' : b = d \/ (b \in claims /\ b # c)
  BY DEF Advance
<1>2. claims' \subseteq Claim /\ NotAfterItself' /\ PassedOverran'
  BY <1>1 DEF ClaimsInv, NotAfterItself, PassedOverran
<1>3. OneToken'
  BY <1>1 DEF ClaimsInv, OneToken
<1>4. CollectorsHold'
  <2> SUFFICES ASSUME NEW b \in claims', b.at # "book", b.region \notin overrun'
               PROVE  jobs[b.region].token = b.token /\ jobs[b.region].lease = "current"
    BY DEF CollectorsHold, Collecting, Holds
  <2>1. CASE b = d
    BY <2>1 DEF ClaimsInv, CollectorsHold, Collecting, Holds
  <2>2. CASE b \in claims
    BY <2>2 DEF ClaimsInv, CollectorsHold, Collecting, Holds
  <2> QED BY <1>1, <2>1, <2>2
<1> QED BY <1>2, <1>3, <1>4 DEF ClaimsInv

\* The collection of a claim has ended.
LEMMA CollectedClaim ==
    ASSUME NEW c \in Claim
    PROVE  /\ Collected(c) \in Claim /\ Collected(c).region = c.region
           /\ Collected(c).token = c.token /\ Collected(c).at = "finish"
           /\ Collected(c).after = {} /\ Collected(c).passed = FALSE
BY DEF Collected, Claim

-----------------------------------------------------------------------------
(* The tick. *)

\* Jobs whose lease is not current are ended or queued.
LEMMA JobsReplaced ==
    ASSUME SchedInv, NEW S \in SUBSET Regions, NEW j,
           \A r \in S : j[r] \in Job /\ j[r].lease = "none" /\ jobs[r].lease # "current",
           jobs' = [r \in Regions |-> IF r \in S THEN j[r] ELSE jobs[r]],
           claims' = claims, overrun' = overrun, outdated' = outdated
    PROVE  SchedInv'
<1>1. jobs' \in [Regions -> Job] /\ LeasedIsClaimed'
  BY DEF SchedInv, LeasedIsClaimed
<1>2. \A c \in claims' : Holds(c) => Holds(c)'
  BY DEF Holds, SchedInv, ClaimsInv, Claim
<1>3. ClaimsInv'
  BY <1>2, FewerClaims DEF SchedInv
<1> QED BY <1>1, <1>3 DEF SchedInv

LEMMA FreshToken ==
    ASSUME NEW r, FreeTokens(r) # {}
    PROVE  /\ NewToken(r) \in Tokens
           /\ \A d \in claims : d.region = r => d.token # NewToken(r)
<1>1. NewToken(r) \in FreeTokens(r)
  BY DEF NewToken
<1> QED BY <1>1 DEF FreeTokens

LEMMA ClaimsStep ==
    ASSUME SchedInv, NEW p \in Procs, ClaimJobs(p)
    PROVE  SchedInv'
<1>1. PICK won \in SUBSET Regions :
         /\ \A r \in won : FreeTokens(r) # {} /\ jobs[r].state = "queued"
         /\ jobs' = [r \in Regions |->
                       IF r \in won
                       THEN [state |-> "claimed", token |-> NewToken(r),
                              lease |-> "current", priority |-> 0]
                       ELSE jobs[r]]
         /\ claims' = claims \cup {NewClaim(p, r, NewToken(r)) : r \in won}
  <2> DEFINE won == First(Slots(p))
  <2>1. /\ \A r \in won : FreeTokens(r) # {}
        /\ jobs' = [r \in Regions |->
                      IF r \in won
                      THEN [state |-> "claimed", token |-> NewToken(r),
                             lease |-> "current", priority |-> 0]
                      ELSE jobs[r]]
        /\ claims' = claims \cup {NewClaim(p, r, NewToken(r)) : r \in won}
    BY DEF ClaimJobs
  <2>2. won \in SUBSET Regions /\ \A r \in won : jobs[r].state = "queued"
    BY DEF First, Waiting
  <2> HIDE DEF won
  <2> QED BY <2>1, <2>2
<1> DEFINE new(r) == NewClaim(p, r, NewToken(r))
<1>2. \A r \in won : /\ NewToken(r) \in Tokens
                     /\ \A d \in claims : d.region = r => d.token # NewToken(r)
  BY <1>1, FreshToken
<1>3. \A r \in won : /\ new(r) \in Claim /\ new(r).region = r /\ new(r).token = NewToken(r)
                     /\ new(r).after = {} /\ new(r).passed = FALSE /\ new(r).at = "collect"
  BY <1>2 DEF NewClaim, Claim
<1>4. \A c \in claims' : c \in claims \/ \E r \in won : c = new(r)
  BY <1>1
<1>5. overrun' = overrun /\ outdated' = outdated
  BY DEF ClaimJobs
<1> HIDE DEF new
<1>6. claims' \subseteq Claim /\ NotAfterItself' /\ PassedOverran'
  BY <1>3, <1>4, <1>5 DEF SchedInv, ClaimsInv, NotAfterItself, PassedOverran
<1>7. OneToken'
  <2> SUFFICES ASSUME NEW c \in claims', NEW d \in claims', c.region = d.region, c.token = d.token
               PROVE  c = d
    BY DEF OneToken
  <2>1. CASE c \in claims /\ d \in claims
    BY <2>1 DEF SchedInv, ClaimsInv, OneToken
  <2>2. CASE c \notin claims
    BY <1>2, <1>3, <1>4, <2>2
  <2>3. CASE d \notin claims
    BY <1>2, <1>3, <1>4, <2>3
  <2> QED BY <2>1, <2>2, <2>3
<1>8. ASSUME NEW r \in won
      PROVE  /\ jobs'[r] \in Job /\ jobs'[r].state = "claimed"
             /\ jobs'[r].token = NewToken(r) /\ jobs'[r].lease = "current"
  <2>1. r \in Regions
    OBVIOUS
  <2>2. jobs'[r] = [state |-> "claimed", token |-> NewToken(r), lease |-> "current", priority |-> 0]
    BY <1>1, <2>1
  <2> QED BY <1>2, <2>1, <2>2 DEF Job
<1>9. \A r \in Regions : r \notin won => jobs'[r] = jobs[r]
  BY <1>1
<1>10. jobs' \in [Regions -> Job] /\ LeasedIsClaimed'
  <2>1. \A r \in Regions : jobs'[r] \in Job
    BY <1>8, <1>9 DEF SchedInv
  <2>2. LeasedIsClaimed'
    BY <1>8, <1>9 DEF SchedInv, LeasedIsClaimed
  <2>3. jobs' = [r \in Regions |-> jobs'[r]]
    BY <1>1
  <2> QED BY <2>1, <2>2, <2>3
<1>11. CollectorsHold'
  <2> SUFFICES ASSUME NEW c \in claims', c.at # "book", c.region \notin overrun
               PROVE  jobs'[c.region].token = c.token /\ jobs'[c.region].lease = "current"
    BY <1>5 DEF CollectorsHold, Collecting, Holds
  <2>1. CASE \E r \in won : c = new(r)
    BY <1>3, <1>8, <2>1
  <2>2. CASE c \in claims
    <3>1. jobs[c.region].token = c.token /\ jobs[c.region].lease = "current"
      BY <2>2 DEF SchedInv, ClaimsInv, CollectorsHold, Collecting, Holds
    <3>2. c.region \in Regions
      BY <2>2 DEF SchedInv, ClaimsInv, Claim
    <3>3. c.region \notin won
      BY <1>1, <3>1, <3>2 DEF SchedInv, LeasedIsClaimed
    <3> QED BY <1>9, <3>1, <3>2, <3>3
  <2> QED BY <1>4, <2>1, <2>2
<1> QED BY <1>5, <1>6, <1>7, <1>10, <1>11 DEF SchedInv, ClaimsInv

-----------------------------------------------------------------------------
LEMMA StepScheduler == SchedInv /\ Ranked /\ [Next]_vars => SchedInv'
<1> SUFFICES ASSUME SchedInv, Ranked, [Next]_vars
             PROVE  SchedInv'
  OBVIOUS
<1>c. ClaimsInv /\ claims \subseteq Claim
  BY DEF SchedInv, ClaimsInv
<1>1. ASSUME NEW p \in Procs, RecoverExpired(p)
      PROVE  SchedInv'
  <2> DEFINE lost == {r \in Regions : jobs[r].lease = "expired"}
  <2>1. /\ jobs' = [r \in Regions |-> IF r \in lost THEN Terminal ELSE jobs[r]]
        /\ claims' = claims /\ overrun' = overrun /\ outdated' = outdated
    BY <1>1 DEF RecoverExpired, Recover
  <2>2. lost \in SUBSET Regions /\ \A r \in lost : jobs[r].lease # "current"
    OBVIOUS
  <2> HIDE DEF lost
  <2> DEFINE j == [r \in Regions |-> Terminal]
  <2>3. jobs' = [r \in Regions |-> IF r \in lost THEN j[r] ELSE jobs[r]]
    BY <2>1
  <2>4. \A r \in lost : j[r] \in Job /\ j[r].lease = "none" /\ jobs[r].lease # "current"
    BY <2>2, TerminalJob
  <2> HIDE DEF j
  <2> QED BY <2>1, <2>2, <2>3, <2>4, JobsReplaced
<1>2. ASSUME NEW p \in Procs, EnqueueDue(p)
      PROVE  SchedInv'
  <2> DEFINE new == {r \in due : ~ Active(r)}
             S == new \cap Regions
             j == [r \in Regions |-> Queued(priority[r])]
  <2>1. /\ jobs' = [r \in Regions |-> IF r \in new THEN Queued(priority[r]) ELSE jobs[r]]
        /\ claims' = claims /\ overrun' = overrun /\ outdated' = outdated
    BY <1>2 DEF EnqueueDue, Enqueue
  <2>2. jobs' = [r \in Regions |-> IF r \in S THEN j[r] ELSE jobs[r]]
    BY <2>1
  <2>3. S \in SUBSET Regions /\ \A r \in S : jobs[r].lease # "current"
    BY DEF Active, SchedInv, LeasedIsClaimed
  <2>4. \A r \in S : j[r] \in Job /\ j[r].lease = "none" /\ jobs[r].lease # "current"
    BY <2>3, ScheduledJob
  <2> HIDE DEF S, j
  <2> QED BY <2>1, <2>2, <2>3, <2>4, JobsReplaced
<1>3. ASSUME NEW p \in Procs, ClaimJobs(p)
      PROVE  SchedInv'
  BY <1>3, ClaimsStep
<1>4. ASSUME NEW p \in Procs, Crash(p)
      PROVE  SchedInv'
  <2>1. claims' \subseteq claims /\ UNCHANGED <<jobs, overrun, outdated>>
    BY <1>4 DEF Crash
  <2>2. ClaimsInv'
    BY <1>c, <2>1, FewerClaims DEF Holds
  <2> QED BY <2>1, <2>2 DEF SchedInv, LeasedIsClaimed
<1>5. ASSUME NEW c \in claims, HeartbeatLost(c) \/ HeartbeatFails(c)
      PROVE  SchedInv'
  <2> DEFINE d == Cancelled(c)
  <2>1. /\ d \in Claim /\ d.region = c.region /\ d.token = c.token /\ d.after = {}
        /\ d.passed = FALSE /\ d.at = "cancelled"
    BY <1>c DEF Claim, Cancelled
  <2>2. Advance(c, d) /\ UNCHANGED <<jobs, overrun, outdated>>
    BY <1>5 DEF HeartbeatLost, HeartbeatFails
  <2> HIDE DEF d
  <2>3. c.at # "book"
    BY <1>5 DEF HeartbeatLost, HeartbeatFails
  <2>4. ClaimsInv'
    BY <1>c, <2>1, <2>2, <2>3, ClaimAdvances
  <2> QED BY <2>2, <2>4 DEF SchedInv, LeasedIsClaimed
<1>6. ASSUME NEW c \in claims, Collect(c)
      PROVE  SchedInv'
  <2> DEFINE S == {d.token : d \in InFlight(c.region)}
             e == [c EXCEPT !.at = "publish", !.after = S]
  <2>1. c \in Claim /\ S \subseteq Tokens /\ c.token \notin S
    BY <1>c, <1>6 DEF Collect, InFlight, Claim, ClaimsInv, OneToken
  <2>2. Advance(c, e) /\ UNCHANGED <<jobs, overrun, outdated>> /\ c.at = "collect"
    BY <1>6 DEF Collect
  <2> HIDE DEF S
  <2>3. /\ e \in Claim /\ e.region = c.region /\ e.token = c.token /\ e.after = S
        /\ e.passed = c.passed
    BY <2>1 DEF Claim
  <2> HIDE DEF e
  <2>4. ClaimsInv'
    BY <1>c, <2>1, <2>2, <2>3, ClaimAdvances
  <2> QED BY <2>2, <2>4 DEF SchedInv, LeasedIsClaimed
<1>7. ASSUME NEW c \in claims, CollectFails(c)
      PROVE  SchedInv'
  <2>1. c \in Claim /\ Advance(c, Collected(c)) /\ UNCHANGED <<jobs, overrun, outdated>>
        /\ c.at # "book"
    BY <1>c, <1>7 DEF CollectFails
  <2>2. ClaimsInv'
    BY <1>c, <2>1, CollectedClaim, ClaimAdvances
  <2> QED BY <2>1, <2>2 DEF SchedInv, LeasedIsClaimed
<1>8. ASSUME NEW c \in claims, Publish(c)
      PROVE  SchedInv'
  <2> DEFINE mark(d) == [d EXCEPT !.passed = TRUE]
  <2>a. /\ c \in Claim /\ c.at = "publish" /\ UNCHANGED <<jobs, overrun>>
        /\ outdated' = IF c.passed THEN outdated \cup {c.region} ELSE outdated \ {c.region}
        /\ claims' = (claims \ ({c} \cup Passed(c)))
                       \cup {mark(d) : d \in Passed(c)} \cup {Collected(c)}
    BY <1>c, <1>8 DEF Publish
  <2>1. ASSUME NEW d \in Passed(c)
        PROVE  /\ d \in claims /\ d.at = "publish" /\ d.region = c.region /\ d # c
               /\ c.region \in overrun
    <3>1. d \in claims /\ d.region = c.region /\ d.at = "publish" /\ d.token \in c.after
      BY DEF Passed, InFlight
    <3>2. d # c
      BY <1>c, <3>1 DEF ClaimsInv, NotAfterItself
    <3>3. c \in Collecting /\ d \in Collecting
      BY <2>a, <3>1 DEF Collecting
    <3>4. c.region \in overrun
      BY <3>1, <3>2, <3>3, InvGivesOne DEF OneCollector
    <3> QED BY <3>1, <3>2, <3>4
  <2>2. ASSUME NEW d \in Passed(c)
        PROVE  /\ mark(d) \in Claim /\ mark(d).region = d.region /\ mark(d).token = d.token
               /\ mark(d).after = d.after /\ mark(d).at = d.at
    <3>1. d \in Claim
      BY <1>c, <2>1
    <3> QED BY <3>1 DEF Claim
  <2> HIDE DEF mark
  <2>3. ASSUME NEW b \in claims'
        PROVE  \E d \in claims : /\ b.region = d.region /\ b.token = d.token
                                 /\ b \in Claim /\ (b.after = d.after \/ b.after = {})
                                 /\ (b.at # "book" => d.at # "book")
                                 /\ (b.passed => d.passed \/ b.region \in overrun)
                                 /\ (d = c => b = Collected(c))
                                 /\ (d \in Passed(c) => b = mark(d))
                                 /\ (d # c /\ d \notin Passed(c) => b = d)
    <3>1. CASE b \in claims /\ b # c /\ b \notin Passed(c)
      BY <1>c, <3>1
    <3>2. CASE \E d \in Passed(c) : b = mark(d)
      BY <2>1, <2>2, <3>2
    <3>3. CASE b = Collected(c)
      BY <2>a, <2>1, <3>3, CollectedClaim
    <3> QED BY <2>a, <3>1, <3>2, <3>3
  <2>4. claims' \subseteq Claim
    BY <2>3
  <2>5. OneToken'
    <3> SUFFICES ASSUME NEW a \in claims', NEW b \in claims', a.region = b.region, a.token = b.token
                 PROVE  a = b
      BY DEF OneToken
    <3>1. PICK d \in claims : /\ a.region = d.region /\ a.token = d.token
                              /\ (d = c => a = Collected(c))
                              /\ (d \in Passed(c) => a = mark(d))
                              /\ (d # c /\ d \notin Passed(c) => a = d)
      BY <2>3
    <3>2. PICK e \in claims : /\ b.region = e.region /\ b.token = e.token
                              /\ (e = c => b = Collected(c))
                              /\ (e \in Passed(c) => b = mark(e))
                              /\ (e # c /\ e \notin Passed(c) => b = e)
      BY <2>3
    <3>3. d = e
      BY <1>c, <3>1, <3>2 DEF ClaimsInv, OneToken
    <3> QED BY <3>1, <3>2, <3>3
  <2>6. NotAfterItself'
    BY <1>c, <2>3 DEF ClaimsInv, NotAfterItself
  <2>7. CollectorsHold'
    <3> SUFFICES ASSUME NEW b \in claims', b.at # "book", b.region \notin overrun
                 PROVE  jobs[b.region].token = b.token /\ jobs[b.region].lease = "current"
      BY <2>a DEF CollectorsHold, Collecting, Holds
    <3>1. PICK d \in claims : b.region = d.region /\ b.token = d.token /\ d.at # "book"
      BY <2>3
    <3> QED BY <1>c, <3>1 DEF ClaimsInv, CollectorsHold, Collecting, Holds
  <2>8. PassedOverran'
    BY <1>c, <2>a, <2>3 DEF ClaimsInv, PassedOverran
  <2>9. outdated' \subseteq overrun'
    BY <1>c, <2>a DEF SchedInv, ClaimsInv, PassedOverran
  <2> QED BY <2>a, <2>4, <2>5, <2>6, <2>7, <2>8, <2>9 DEF SchedInv, ClaimsInv, LeasedIsClaimed
<1>9. ASSUME NEW c \in claims, Finish(c)
      PROVE  SchedInv'
  <2>a. c \in Claim /\ c.at = "finish" /\ c.region \in Regions /\ UNCHANGED <<overrun, outdated>>
    BY <1>c, <1>9 DEF Finish, Claim
  <2>1. CASE ~ Holds(c)
    <3>1. claims' \subseteq claims /\ jobs' = jobs
      BY <1>9, <2>1 DEF Finish, Drop
    <3>2. ClaimsInv'
      BY <1>c, <2>a, <3>1, FewerClaims DEF Holds
    <3> QED BY <2>a, <3>1, <3>2 DEF SchedInv, LeasedIsClaimed
  <2>2. CASE Holds(c)
    <3> DEFINE d == [c EXCEPT !.at = "book"]
    <3>1. /\ d \in Claim /\ d.region = c.region /\ d.token = c.token /\ d.after = c.after
          /\ d.passed = c.passed /\ d.at = "book"
      BY <2>a DEF Claim
    <3>2. claims' = (claims \ {c}) \cup {d} /\ jobs' = [jobs EXCEPT ![c.region] = Terminal]
      BY <1>9, <2>2 DEF Finish, Advance
    <3> HIDE DEF d
    <3>3. \A b \in claims' : b = d \/ (b \in claims /\ b # c)
      BY <3>2
    <3>4. claims' \subseteq Claim /\ OneToken' /\ NotAfterItself' /\ PassedOverran'
      BY <1>c, <2>a, <3>1, <3>3 DEF ClaimsInv, OneToken, NotAfterItself, PassedOverran
    <3>5. jobs' \in [Regions -> Job] /\ LeasedIsClaimed'
      BY <3>2, TerminalJob DEF SchedInv, LeasedIsClaimed
    <3>6. CollectorsHold'
      <4> SUFFICES ASSUME NEW b \in claims', b.at # "book", b.region \notin overrun
                   PROVE  jobs'[b.region].token = b.token /\ jobs'[b.region].lease = "current"
        BY <2>a DEF CollectorsHold, Collecting, Holds
      <4>1. b \in claims /\ b # c /\ b.region \in Regions
        BY <1>c, <3>1, <3>3 DEF Claim
      <4>2. b.region # c.region
        <5>1. b \in Collecting /\ c \in Collecting
          BY <2>a, <4>1 DEF Collecting
        <5> QED BY <4>1, <5>1, InvGivesOne DEF OneCollector
      <4>3. jobs'[b.region] = jobs[b.region]
        BY <3>2, <4>1, <4>2 DEF SchedInv
      <4> QED BY <1>c, <4>1, <4>3 DEF ClaimsInv, CollectorsHold, Collecting, Holds
    <3> QED BY <2>a, <3>4, <3>5, <3>6 DEF SchedInv, ClaimsInv
  <2> QED BY <2>1, <2>2
<1>10. ASSUME NEW c \in claims, Book(c) \/ StatementFails(c)
       PROVE  SchedInv'
  <2>1. claims' \subseteq claims /\ UNCHANGED <<jobs, overrun, outdated>>
    BY <1>10 DEF Book, StatementFails, Drop
  <2>2. ClaimsInv'
    BY <1>c, <2>1, FewerClaims DEF Holds
  <2> QED BY <2>1, <2>2 DEF SchedInv, LeasedIsClaimed
<1>11. ASSUME NEW r \in Regions, RequestRefresh(r)
       PROVE  SchedInv'
  <2>a. claims' = claims /\ overrun' = overrun /\ outdated' = outdated
    BY <1>11 DEF RequestRefresh
  <2>1. CASE Active(r)
    <3>1. jobs' = jobs
      BY <1>11, <2>1 DEF RequestRefresh
    <3>2. ClaimsInv'
      BY <1>c, <2>a, <3>1, FewerClaims DEF Holds
    <3> QED BY <2>a, <3>1, <3>2 DEF SchedInv, LeasedIsClaimed
  <2>2. CASE ~ Active(r)
    <3> DEFINE j == [q \in Regions |-> Queued(ClientPriority)]
    <3>1. jobs' = [q \in Regions |-> IF q \in {r} THEN j[q] ELSE jobs[q]]
      BY <1>11, <2>2 DEF RequestRefresh, SchedInv
    <3>2. \A q \in {r} : j[q] \in Job /\ j[q].lease = "none" /\ jobs[q].lease # "current"
      BY <2>2, TerminalJob, SchedulerAssumption DEF Active, SchedInv, LeasedIsClaimed
    <3>3. {r} \in SUBSET Regions
      OBVIOUS
    <3> HIDE DEF j
    <3> QED BY <2>a, <3>1, <3>2, <3>3, JobsReplaced
  <2> QED BY <2>1, <2>2
<1>12. ASSUME NEW r \in Regions, LeaseExpires(r) \/ Stall(r)
       PROVE  SchedInv'
  <2>1. /\ jobs' = [jobs EXCEPT ![r].lease = "expired"] /\ claims' = claims
        /\ outdated' = outdated /\ overrun \subseteq overrun'
        /\ (r \in overrun' \/ Workers(r) = {})
    BY <1>12 DEF LeaseExpires, Stall
  <2>2. jobs[r] \in Job
    BY DEF SchedInv
  <2>3. /\ jobs'[r] \in Job /\ jobs'[r].lease = "expired"
        /\ \A q \in Regions : q # r => jobs'[q] = jobs[q]
    BY <2>1, <2>2 DEF SchedInv, Job
  <2>4. jobs' \in [Regions -> Job] /\ LeasedIsClaimed'
    BY <2>1, <2>3 DEF SchedInv, LeasedIsClaimed
  <2>5. \A c \in claims' : c.at # "book" /\ c.region \notin overrun' /\ Holds(c) => Holds(c)'
    <3> SUFFICES ASSUME NEW c \in claims, c.at # "book", c.region \notin overrun', Holds(c)
                 PROVE  Holds(c)'
      BY <2>1
    <3>1. c.region # r
      BY <2>1 DEF Workers, Collecting, Holds
    <3>2. c.region \in Regions
      BY <1>c DEF Claim
    <3> QED BY <2>3, <3>1, <3>2 DEF Holds
  <2>6. ClaimsInv'
    BY <1>c, <2>1, <2>5, FewerClaims
  <2> QED BY <2>1, <2>4, <2>6 DEF SchedInv
<1>13. ASSUME UNCHANGED <<jobs, claims, outdated, overrun>>
       PROVE  SchedInv'
  <2>1. ClaimsInv'
    BY <1>c, <1>13, FewerClaims DEF Holds
  <2> QED BY <1>13, <2>1 DEF SchedInv, LeasedIsClaimed
<1>14. ASSUME NEW r \in Regions, TimePasses(r)
       PROVE  UNCHANGED <<jobs, claims, outdated, overrun>>
  BY <1>14 DEF TimePasses
<1>15. CASE UNCHANGED vars
  BY <1>13, <1>15 DEF vars
<1> QED BY <1>1, <1>2, <1>3, <1>4, <1>5, <1>6, <1>7, <1>8, <1>9, <1>10, <1>11, <1>12, <1>13,
           <1>14, <1>15 DEF Next, Tick, Process, Spoil

-----------------------------------------------------------------------------
(* The queue lists the queued jobs, once each; a job has a token and a     *)
(* lease exactly while it is claimed.                                      *)

QueueLine == LineOver(Regions, queue) /\ ToSet(queue) = Waiting

HeldIsClaimed ==
    \A r \in Regions : /\ (jobs[r].token # NoToken) <=> (jobs[r].state = "claimed")
                       /\ (jobs[r].lease # "none") <=> (jobs[r].state = "claimed")

SetsTyped == due \subseteq Regions /\ outdated \subseteq Regions /\ overrun \subseteq Regions
CountsTyped == requests \in 0 .. MaxRequests /\ faults \in 0 .. MaxFaults
StepsTyped == step \in [Procs -> {"recover", "enqueue", "claim"}]

Typed == QueueLine /\ HeldIsClaimed /\ SetsTyped /\ CountsTyped /\ StepsTyped

LEMMA TypedIsTypeOK == Typed /\ SchedInv /\ Ranked => TypeOK
BY DEF Ranked, Typed, QueueLine, HeldIsClaimed, SetsTyped, CountsTyped, StepsTyped, SchedInv,
       ClaimsInv, TypeOK, LineOver

LEMMA InitTyped == Init => Typed
<1> SUFFICES ASSUME Init
             PROVE  Typed
  OBVIOUS
<1>1. QueueLine
  BY EmptyLine DEF Init, QueueLine, Waiting, Terminal
<1>2. HeldIsClaimed
  BY DEF Init, HeldIsClaimed, Terminal
<1>3. SetsTyped /\ CountsTyped /\ StepsTyped
  BY SchedulerAssumption DEF Init, SetsTyped, CountsTyped, StepsTyped
<1> QED BY <1>1, <1>2, <1>3 DEF Typed

\* The states of the jobs and the queue stay.
LEMMA QueueStays ==
    ASSUME QueueLine, queue' = queue, \A r \in Regions : jobs'[r].state = "queued" <=> jobs[r].state = "queued"
    PROVE  QueueLine'
<1>1. Waiting' = Waiting
  BY DEF Waiting
<1> QED BY <1>1 DEF QueueLine

LEMMA FaultCounts == \A p : CountsTyped /\ Fault(p) /\ requests' = requests => CountsTyped'
BY SchedulerAssumption DEF Fault, CountsTyped

LEMMA RecoverTyped ==
    ASSUME Typed, SchedInv, NEW p \in Procs, RecoverExpired(p)
    PROVE  Typed'
<1>1. /\ \A r \in Regions : jobs'[r] = IF jobs[r].lease = "expired" THEN Terminal ELSE jobs[r]
      /\ step' = [step EXCEPT ![p] = "enqueue"]
      /\ UNCHANGED <<queue, due, outdated, requests, faults, overrun>>
  BY DEF RecoverExpired, Recover
<1>2. \A r \in Regions : jobs[r].lease = "expired" => jobs[r].state = "claimed"
  BY DEF Typed, HeldIsClaimed
<1>3. QueueLine'
  BY <1>1, <1>2, QueueStays DEF Typed, Terminal
<1>4. HeldIsClaimed'
  BY <1>1 DEF Typed, HeldIsClaimed, Terminal
<1>5. SetsTyped' /\ CountsTyped' /\ StepsTyped'
  BY <1>1 DEF Typed, SetsTyped, CountsTyped, StepsTyped
<1> QED BY <1>3, <1>4, <1>5 DEF Typed

LEMMA EnqueueTyped ==
    ASSUME Typed, SchedInv, NEW p \in Procs, EnqueueDue(p)
    PROVE  Typed'
<1> DEFINE new == {r \in due : ~ Active(r)}
<1>1. /\ \A r \in Regions : jobs'[r] = IF r \in new THEN Queued(priority[r]) ELSE jobs[r]
      /\ \E s \in SetToSeqs(new) : queue' = queue \o s
      /\ step' = [step EXCEPT ![p] = "claim"]
      /\ UNCHANGED <<due, outdated, requests, faults, overrun>>
  BY DEF EnqueueDue, Enqueue
<1>2. new \in SUBSET Regions /\ \A r \in new : jobs[r].state = "none"
  BY DEF Active, Typed, SetsTyped
<1> HIDE DEF new
<1>3. PICK s \in SetToSeqs(new) : queue' = queue \o s
  BY <1>1
<1>4. LineOver(Regions, s) /\ ToSet(s) = new
  <2>1. IsFiniteSet(new)
    BY <1>2, SchedulerAssumption, FS_Subset
  <2> QED BY <1>2, <2>1, LineOfSet
<1>5. ToSet(queue) \cap ToSet(s) = {}
  BY <1>2, <1>4 DEF Typed, QueueLine, Waiting
<1>6. LineOver(Regions, queue') /\ ToSet(queue') = ToSet(queue) \cup new
  <2>1. LineOver(Regions, queue)
    BY DEF Typed, QueueLine
  <2>2. /\ LineOver(Regions, queue \o s)
        /\ ToSet(queue \o s) = ToSet(queue) \cup ToSet(s)
    BY <1>4, <1>5, <2>1, JoinLines
  <2> QED BY <1>3, <1>4, <2>2
<1>7. \A r \in Regions : jobs'[r].state = "queued" <=> jobs[r].state = "queued" \/ r \in new
  BY <1>1, <1>2, QueuedJob
<1>8. Waiting' = Waiting \cup new
  BY <1>2, <1>7 DEF Waiting
<1>9. QueueLine'
  BY <1>6, <1>8 DEF Typed, QueueLine
<1>10. HeldIsClaimed'
  BY <1>1, QueuedJob DEF Typed, HeldIsClaimed
<1>11. SetsTyped' /\ CountsTyped' /\ StepsTyped'
  BY <1>1 DEF Typed, SetsTyped, CountsTyped, StepsTyped
<1> QED BY <1>9, <1>10, <1>11 DEF Typed

LEMMA ClaimTyped ==
    ASSUME Typed, SchedInv, NEW p \in Procs, ClaimJobs(p)
    PROVE  Typed'
<1> DEFINE won == First(Slots(p))
<1>1. /\ \A r \in won : FreeTokens(r) # {}
      /\ \A r \in Regions : jobs'[r] = IF r \in won
                                       THEN [state |-> "claimed", token |-> NewToken(r),
                                              lease |-> "current", priority |-> 0]
                                       ELSE jobs[r]
      /\ queue' \in Remaining(won)
      /\ step' = [step EXCEPT ![p] = "recover"]
      /\ UNCHANGED <<due, outdated, requests, faults, overrun>>
  BY DEF ClaimJobs
<1>2. won \in SUBSET Waiting /\ Waiting \in SUBSET Regions
  BY DEF First, Waiting
<1> HIDE DEF won
<1>3. LineOver(Regions, queue') /\ ToSet(queue') = Waiting \ won
  <2>1. queue' \in SetToSeqs(Waiting \ won)
    BY <1>1 DEF Remaining
  <2>2. IsFiniteSet(Waiting \ won) /\ Waiting \ won \in SUBSET Regions
    BY <1>2, SchedulerAssumption, FS_Subset
  <2> QED BY <2>1, <2>2, LineOfSet
<1>4. ASSUME NEW r \in won
      PROVE  /\ jobs'[r].state = "claimed" /\ jobs'[r].token \in Tokens
             /\ jobs'[r].lease = "current"
  <2>1. NewToken(r) \in Tokens /\ r \in Regions
    BY <1>1, <1>2, FreshToken
  <2>2. jobs'[r] = [state |-> "claimed", token |-> NewToken(r), lease |-> "current", priority |-> 0]
    BY <1>1, <2>1
  <2> QED BY <2>1, <2>2
<1>5. \A r \in Regions : r \notin won => jobs'[r] = jobs[r]
  BY <1>1
<1>6. Waiting' = Waiting \ won
  BY <1>2, <1>4, <1>5 DEF Waiting
<1>7. QueueLine'
  BY <1>3, <1>6 DEF QueueLine
<1>8. HeldIsClaimed'
  BY <1>4, <1>5, SchedulerAssumption DEF Typed, HeldIsClaimed
<1>9. SetsTyped' /\ CountsTyped' /\ StepsTyped'
  BY <1>1 DEF Typed, SetsTyped, CountsTyped, StepsTyped
<1> QED BY <1>7, <1>8, <1>9 DEF Typed

\* The steps of a claim but Finish leave the jobs and the queue alone.
LEMMA ClaimOnlyTyped ==
    ASSUME Typed, UNCHANGED <<jobs, queue, step, requests, overrun>>,
           due' \subseteq due, outdated' \subseteq Regions,
           faults' = faults \/ \E p : Fault(p)
    PROVE  Typed'
<1>1. QueueLine' /\ HeldIsClaimed'
  BY QueueStays DEF Typed, HeldIsClaimed
<1>2. CountsTyped'
  BY FaultCounts DEF Typed, CountsTyped
<1> QED BY <1>1, <1>2 DEF Typed, SetsTyped, StepsTyped

LEMMA StepTyped == Typed /\ SchedInv /\ [Next]_vars => Typed'
<1> SUFFICES ASSUME Typed, SchedInv, [Next]_vars
             PROVE  Typed'
  OBVIOUS
<1>c. \A c \in claims : c.region \in Regions
  BY DEF SchedInv, ClaimsInv, Claim
<1>t. outdated \subseteq Regions
  BY DEF Typed, SetsTyped
<1>1. ASSUME NEW p \in Procs, Tick(p)
      PROVE  Typed'
  BY <1>1, RecoverTyped, EnqueueTyped, ClaimTyped DEF Tick
<1>2. ASSUME NEW p \in Procs, Crash(p)
      PROVE  Typed'
  <2>1. /\ UNCHANGED <<jobs, queue, due, outdated, requests, overrun>> /\ Fault(p)
        /\ step' = [step EXCEPT ![p] = "recover"]
    BY <1>2 DEF Crash
  <2>2. QueueLine' /\ HeldIsClaimed'
    BY <2>1, QueueStays DEF Typed, HeldIsClaimed
  <2>3. CountsTyped'
    BY <2>1, FaultCounts DEF Typed
  <2> QED BY <2>1, <2>2, <2>3 DEF Typed, SetsTyped, StepsTyped
<1>3. ASSUME NEW c \in claims, Collect(c) \/ CollectFails(c) \/ Book(c) \/ Spoil(c)
      PROVE  Typed'
  <2>1. /\ UNCHANGED <<jobs, queue, step, requests, overrun, outdated>>
        /\ due' \subseteq due /\ (faults' = faults \/ \E p : Fault(p))
    BY <1>3 DEF Collect, CollectFails, Book, Spoil, HeartbeatLost, HeartbeatFails, StatementFails
  <2> QED BY <1>t, <2>1, ClaimOnlyTyped
<1>4. ASSUME NEW c \in claims, Publish(c)
      PROVE  Typed'
  <2>1. UNCHANGED <<jobs, queue, step, requests, overrun, due, faults>>
    BY <1>4 DEF Publish
  <2>2. outdated' \subseteq Regions
    BY <1>4, <1>c, <1>t DEF Publish
  <2> QED BY <2>1, <2>2, ClaimOnlyTyped
<1>5. ASSUME NEW c \in claims, Finish(c)
      PROVE  Typed'
  <2>1. UNCHANGED <<queue, due, outdated, step, requests, faults, overrun>>
    BY <1>5 DEF Finish
  <2>2. CASE jobs' = jobs
    BY <1>t, <2>1, <2>2, ClaimOnlyTyped
  <2>3. CASE Holds(c) /\ jobs' = [jobs EXCEPT ![c.region] = Terminal]
    <3>1. /\ c.region \in Regions /\ jobs'[c.region] = Terminal
          /\ \A r \in Regions : r # c.region => jobs'[r] = jobs[r]
      BY <1>c, <2>3 DEF SchedInv
    <3>2. jobs[c.region].state = "claimed"
      BY <2>3, <3>1 DEF Holds, SchedInv, LeasedIsClaimed
    <3>3. QueueLine'
      BY <2>1, <3>1, <3>2, QueueStays DEF Typed, Terminal
    <3>4. HeldIsClaimed'
      BY <3>1 DEF Typed, HeldIsClaimed, Terminal
    <3> QED BY <2>1, <3>3, <3>4 DEF Typed, SetsTyped, CountsTyped, StepsTyped
  <2> QED BY <1>5, <2>2, <2>3 DEF Finish
<1>6. ASSUME NEW r \in Regions, RequestRefresh(r)
      PROVE  Typed'
  <2>1. /\ jobs' = [jobs EXCEPT ![r] = Queued(ClientPriority)] /\ queue' = Append(queue, r)
        /\ jobs[r].state = "none" /\ requests < MaxRequests /\ requests' = requests + 1
        /\ UNCHANGED <<due, outdated, step, faults, overrun>>
    BY <1>6 DEF RequestRefresh, Active
  <2>2. /\ jobs'[r].state = "queued" /\ jobs'[r].token = NoToken /\ jobs'[r].lease = "none"
        /\ \A q \in Regions : q # r => jobs'[q] = jobs[q]
    BY <2>1 DEF SchedInv, Queued, Terminal
  <2>3. LineOver(Regions, queue') /\ ToSet(queue') = ToSet(queue) \cup {r}
    <3>1. LineOver(Regions, queue) /\ r \notin ToSet(queue)
      BY <2>1 DEF Typed, QueueLine, Waiting
    <3> QED BY <2>1, <3>1, JoinLine
  <2>4. Waiting' = Waiting \cup {r}
    BY <2>2 DEF Waiting
  <2>5. QueueLine'
    BY <2>3, <2>4 DEF Typed, QueueLine
  <2>6. HeldIsClaimed'
    BY <2>2 DEF Typed, HeldIsClaimed
  <2>7. CountsTyped'
    BY <2>1, SchedulerAssumption DEF Typed, CountsTyped
  <2> QED BY <2>1, <2>5, <2>6, <2>7 DEF Typed, SetsTyped, StepsTyped
<1>7. ASSUME NEW r \in Regions, LeaseExpires(r) \/ Stall(r)
      PROVE  Typed'
  <2>1. /\ jobs' = [jobs EXCEPT ![r].lease = "expired"] /\ jobs[r].lease = "current"
        /\ UNCHANGED <<queue, due, outdated, step, requests>>
        /\ overrun' \in {overrun, overrun \cup {r}} /\ (faults' = faults \/ \E p : Fault(p))
    BY <1>7 DEF LeaseExpires, Stall
  <2>2. jobs[r] \in Job
    BY DEF SchedInv
  <2>3. /\ jobs'[r].state = jobs[r].state /\ jobs'[r].token = jobs[r].token
        /\ jobs'[r].lease = "expired"
        /\ \A q \in Regions : q # r => jobs'[q] = jobs[q]
    BY <2>1, <2>2 DEF SchedInv, Job
  <2>4. QueueLine'
    BY <2>1, <2>3, QueueStays DEF Typed
  <2>5. HeldIsClaimed'
    BY <2>1, <2>3 DEF Typed, HeldIsClaimed
  <2>6. CountsTyped'
    BY <2>1, FaultCounts DEF Typed, CountsTyped
  <2>7. SetsTyped' /\ StepsTyped'
    BY <2>1 DEF Typed, SetsTyped, StepsTyped
  <2> QED BY <2>4, <2>5, <2>6, <2>7 DEF Typed
<1>8. ASSUME NEW r \in Regions, TimePasses(r)
      PROVE  Typed'
  <2>1. /\ UNCHANGED <<jobs, queue, outdated, step, requests, faults, overrun>>
        /\ due' = due \cup {r}
    BY <1>8 DEF TimePasses
  <2>2. QueueLine' /\ HeldIsClaimed'
    BY <2>1, QueueStays DEF Typed, HeldIsClaimed
  <2> QED BY <2>1, <2>2 DEF Typed, SetsTyped, CountsTyped, StepsTyped
<1>9. CASE UNCHANGED vars
  BY <1>9, <1>t, ClaimOnlyTyped DEF vars
<1> QED BY <1>1, <1>2, <1>3, <1>4, <1>5, <1>6, <1>7, <1>8, <1>9 DEF Next, Process

-----------------------------------------------------------------------------
\* One goroutine of all processes collects a region, unless a worker overstayed
\* its lease (Scheduler.tick and process, PostgresRepository.Claim).
THEOREM OneCollectorOfARegion == Spec => []OneCollector
<1> QED BY InvGivesOne, InitRanked, InitScheduler, StepRanked, StepScheduler, PTL DEF Spec

\* Snapshots are replaced by newer ones only, but for an overrun lease: what the
\* planning jobs rely on (PostgresRepository.Publish).
THEOREM SnapshotsOnlyForward == Spec => []SnapshotsMoveForward
<1>1. SchedInv => SnapshotsMoveForward
  BY DEF SchedInv, SnapshotsMoveForward
<1> QED BY <1>1, InitRanked, InitScheduler, StepRanked, StepScheduler, PTL DEF Spec

\* What the run checks: the queue lists the queued jobs, a job is held exactly
\* while it is claimed, and one goroutine collects a region (Scheduler.tick,
\* PostgresRepository.EnqueueDue, Claim and RecoverExpired).
THEOREM SchedulerIsSound == Spec => []SchedulerInvariant
<1>1. Init => Typed /\ SchedInv /\ Ranked
  BY InitTyped, InitScheduler, InitRanked
<1>2. (Typed /\ SchedInv /\ Ranked) /\ [Next]_vars => (Typed /\ SchedInv /\ Ranked)'
  BY StepTyped, StepScheduler, StepRanked
<1>3. Typed /\ SchedInv /\ Ranked => SchedulerInvariant
  BY TypedIsTypeOK, InvGivesOne DEF SchedulerInvariant
<1> QED BY <1>1, <1>2, <1>3, PTL DEF Spec
=============================================================================
