------------------------ MODULE RealtimeOutboxProofs ------------------------
(***************************************************************************)
(* Proofs about RealtimeOutbox: type correctness, that events are          *)
(* materialised once, that a published intent has its event, that a        *)
(* published row stays published, that a client never skips an event and   *)
(* that the tables implement the append-only log of EventLog.  And about   *)
(* LegacyRelay, the other way to a device: that an accepted envelope stays *)
(* recoverable.  They hold for every value of the constants.               *)
(***************************************************************************)
EXTENDS RealtimeOutbox, LegacyRelay, OrderLemmas, FiniteSetTheorems, SequenceTheorems, TLAPS

\* A busy actor is busy with an event.
TxTyped == /\ tx \in [Actors -> Work]
           /\ \A a \in Actors : tx[a].at # "idle" => tx[a].id \in Events

\* Only the transaction of actor a moves.
OnlyTx(a) == TxTyped' /\ \A b \in Actors : b # a => tx'[b] = tx[b]

\* An idle actor's transaction is well typed.
LEMMA IdleType == Idle \in Work /\ Idle.at = "idle"
BY OutboxAssumption DEF Idle, Work, Steps

\* Going to the next step of a transaction changes nothing else of it.
LEMMA GotoType ==
    ASSUME TxTyped, NEW a \in Actors, NEW step \in Steps, Goto(a, step),
           tx[a].at # "idle"
    PROVE  /\ OnlyTx(a)
           /\ tx'[a].at = step /\ tx'[a].id = tx[a].id
           /\ tx'[a].target = tx[a].target /\ tx'[a].cursor = tx[a].cursor
<1>1. tx[a] \in Work /\ tx[a].id \in Events
  BY DEF TxTyped
<1>2. tx' = [tx EXCEPT ![a] = [tx[a] EXCEPT !.at = step]]
  BY DEF Goto
<1>3. [tx[a] EXCEPT !.at = step] \in Work
  BY <1>1 DEF Work
<1> QED BY <1>1, <1>2, <1>3 DEF OnlyTx, TxTyped, Work

\* A finished transaction leaves its actor idle.
LEMMA EndType ==
    ASSUME TxTyped, NEW a \in Actors, tx' = [tx EXCEPT ![a] = Idle]
    PROVE  OnlyTx(a) /\ tx'[a] = Idle /\ tx'[a].at = "idle"
BY IdleType DEF OnlyTx, TxTyped

\* After a publication a dispatcher completes its row, a request is done.
LEMMA PublishedType ==
    ASSUME TxTyped, NEW a \in Actors, Published(a), tx[a].at # "idle"
    PROVE  /\ OnlyTx(a)
           /\ \/ tx'[a] = Idle /\ tx'[a].at = "idle"
              \/ /\ a \in Dispatchers /\ tx'[a].at = "complete"
                 /\ tx'[a].id = tx[a].id /\ tx'[a].target = tx[a].target
<1>1. CASE a \in Dispatchers
  BY <1>1, GotoType DEF Published, Steps
<1>2. CASE a \notin Dispatchers
  BY <1>2, EndType DEF Published
<1> QED BY <1>1, <1>2

\* After a refusal a dispatcher fails its row, a request is done.
LEMMA RefusedType ==
    ASSUME TxTyped, NEW a \in Actors, Refused(a), tx[a].at # "idle"
    PROVE  /\ OnlyTx(a)
           /\ \/ tx'[a] = Idle /\ tx'[a].at = "idle"
              \/ /\ a \in Dispatchers /\ tx'[a].at = "fail"
                 /\ tx'[a].id = tx[a].id /\ tx'[a].target = tx[a].target
<1>1. CASE a \in Dispatchers
  BY <1>1, GotoType DEF Refused, Steps
<1>2. CASE a \notin Dispatchers
  BY <1>2, EndType DEF Refused
<1> QED BY <1>1, <1>2

\* A counter row is locked by the one transaction between allocation and end.
LockMatches ==
    \A t \in Targets, a \in Actors :
        lock[t] = a <=> tx[a].at = "insert" /\ tx[a].target = t

\* A transaction that unlocks and leaves the insert keeps the locks right.
LEMMA UnlockMatches ==
    ASSUME TypeOK, NEW a \in Actors, Unlock(a), OnlyTx(a), tx'[a].at # "insert"
    PROVE  /\ lock' \in [Targets -> Actors \cup {Nobody}]
           /\ LockMatches'
<1>1. lock' \in [Targets -> Actors \cup {Nobody}]
  BY DEF TypeOK, Unlock
<1>2. ASSUME NEW t \in Targets, NEW b \in Actors
      PROVE  lock'[t] = b <=> tx'[b].at = "insert" /\ tx'[b].target = t
  <2>1. lock'[t] = IF lock[t] = a THEN Nobody ELSE lock[t]
    BY DEF Unlock
  <2>2. lock[t] = b <=> tx[b].at = "insert" /\ tx[b].target = t
    BY DEF TypeOK
  <2>3. Nobody # b
    BY OutboxAssumption
  <2> QED BY <2>1, <2>2, <2>3 DEF OnlyTx
<1> QED BY <1>1, <1>2 DEF LockMatches

\* A transaction that is not about an insert before or after leaves the locks.
LEMMA LocksStay ==
    ASSUME TypeOK, NEW a \in Actors, UNCHANGED lock, OnlyTx(a),
           tx[a].at # "insert", tx'[a].at # "insert"
    PROVE  LockMatches'
BY DEF TypeOK, LockMatches, OnlyTx

\* What the statements on realtime_outbox make of a row is a row.
LEMMA IntentType ==
    ASSUME NEW row \in Intent
    PROVE  /\ [row EXCEPT !.status = "pending", !.due = TRUE] \in Intent
           /\ [row EXCEPT !.due = TRUE] \in Intent
           /\ [row EXCEPT !.status = "published", !.token = Nobody] \in Intent
           /\ [status |-> "failed", token |-> Nobody, due |-> FALSE] \in Intent
<1>1. [row EXCEPT !.status = "pending", !.due = TRUE] \in Intent
  BY DEF Intent, Statuses
<1>2. [row EXCEPT !.due = TRUE] \in Intent
  BY DEF Intent
<1>3. [row EXCEPT !.status = "published", !.token = Nobody] \in Intent
  BY DEF Intent, Statuses
<1>4. [status |-> "failed", token |-> Nobody, due |-> FALSE] \in Intent
  BY DEF Intent, Statuses
<1> QED BY <1>1, <1>2, <1>3, <1>4

-----------------------------------------------------------------------------
\* Every step of every actor preserves the types.
LEMMA TypeStep == TypeOK /\ [Next]_vars => TypeOK'
<1> SUFFICES ASSUME TypeOK, [Next]_vars PROVE TypeOK'
  OBVIOUS
<1> USE OutboxAssumption
<1>0. TxTyped /\ LockMatches
  BY DEF TypeOK, TxTyped, LockMatches
<1>1. CASE UNCHANGED vars
  BY <1>1 DEF vars, TypeOK
<1>2. ASSUME NEW i \in Intents, Write(i) PROVE TypeOK'
  <2>1. [outbox[i] EXCEPT !.status = "pending", !.due = TRUE] \in Intent
    BY IntentType DEF TypeOK
  <2>2. outbox' \in [Intents -> Intent]
    BY <1>2, <2>1 DEF Write, TypeOK
  <2>3. Cardinality({k \in Intents : created[k] # 0}) \in Nat
    BY FS_Subset, FS_CardinalityType
  <2>4. created' \in [Intents -> Nat]
    BY <1>2, <2>3 DEF Write, TypeOK
  <2> QED BY <1>2, <2>2, <2>4 DEF Write, TypeOK
<1>3. ASSUME NEW i \in Intents, BecomesDue(i) PROVE TypeOK'
  <2>1. [outbox[i] EXCEPT !.due = TRUE] \in Intent
    BY IntentType DEF TypeOK
  <2>2. outbox' \in [Intents -> Intent]
    BY <1>3, <2>1 DEF BecomesDue, TypeOK
  <2>3. faults' \in 0 .. MaxFaults
    BY <1>3 DEF BecomesDue, Fault, TypeOK
  <2> QED BY <1>3, <2>2, <2>3 DEF BecomesDue, TypeOK
<1>4. ASSUME NEW d \in Dispatchers, ClaimOutbox(d) PROVE TypeOK'
  <2>1. PICK S \in SUBSET Intents :
          /\ batch' = [batch EXCEPT ![d] = S]
          /\ outbox' = [i \in Intents |->
                          IF i \in S THEN [status |-> "processing", token |-> d, due |-> FALSE]
                          ELSE outbox[i]]
    BY <1>4 DEF ClaimOutbox
  <2>0. UNCHANGED <<created, events, next, lock, tx, after, applied, faults>>
    BY <1>4 DEF ClaimOutbox
  <2>2. outbox' \in [Intents -> Intent]
    BY <2>1 DEF TypeOK, Intent, Statuses
  <2>3. batch' \in [Dispatchers -> SUBSET Intents]
    BY <2>1 DEF TypeOK
  <2> QED BY <2>0, <2>2, <2>3 DEF TypeOK
<1>5. ASSUME NEW a \in Actors, NEW e \in Events, NEW t \in Targets, Begin(a, e, t),
             tx[a].at = "idle", UNCHANGED lock
      PROVE  TxTyped' /\ LockMatches'
  <2>1. [at |-> "lookup", id |-> e, target |-> t, cursor |-> 0] \in Work
    BY DEF Work, Steps
  <2>2. OnlyTx(a) /\ tx'[a].at = "lookup"
    BY <1>0, <1>5, <2>1 DEF Begin, OnlyTx, TxTyped
  <2> QED BY <1>5, <2>2, LocksStay DEF OnlyTx
<1>6. ASSUME NEW d \in Dispatchers, NextRow(d) PROVE TypeOK'
  <2>1. PICK i \in batch[d] :
          Begin(d, i, Target[i]) /\ batch' = [batch EXCEPT ![d] = @ \ {i}]
    BY <1>6 DEF NextRow
  <2>2. i \in Intents /\ d \in Actors /\ i \in Events
    BY DEF TypeOK, Actors, Events
  <2>3. batch' \in [Dispatchers -> SUBSET Intents]
    BY <2>1 DEF TypeOK
  <2>4. TxTyped' /\ LockMatches'
    BY <1>5, <1>6, <2>1, <2>2 DEF NextRow
  <2> QED BY <1>6, <2>3, <2>4 DEF NextRow, TypeOK, LockMatches, TxTyped
<1>7. ASSUME NEW h \in Handlers, LegacyPublish(h) PROVE TypeOK'
  <2>1. PICK e \in Direct, t \in Targets : Begin(h, e, t)
    BY <1>7 DEF LegacyPublish
  <2>2. TxTyped' /\ LockMatches'
    BY <1>5, <1>7, <2>1 DEF LegacyPublish, Actors, Events
  <2> QED BY <1>7, <2>2 DEF LegacyPublish, TypeOK, LockMatches, TxTyped
<1>8. ASSUME NEW a \in Actors, Lookup(a) PROVE TypeOK'
  <2>1. OnlyTx(a) /\ tx'[a].at # "insert" /\ tx[a].at # "insert"
    <3>1. tx[a].at = "lookup" /\ (Published(a) \/ Goto(a, "allocate"))
      BY <1>8 DEF Lookup
    <3>2. CASE Published(a)
      BY <1>0, <3>1, <3>2, PublishedType
    <3>3. CASE Goto(a, "allocate")
      BY <1>0, <3>1, <3>3, GotoType DEF Steps
    <3> QED BY <3>1, <3>2, <3>3
  <2>2. LockMatches'
    BY <1>8, <2>1, LocksStay DEF Lookup
  <2> QED BY <1>8, <2>1, <2>2 DEF Lookup, TypeOK, LockMatches, OnlyTx, TxTyped
<1>9. ASSUME NEW a \in Actors, Allocate(a) PROVE TypeOK'
  <2> DEFINE t == tx[a].target
             w == [tx[a] EXCEPT !.at = "insert", !.cursor = next[t] + 1]
  <2>1. tx[a] \in Work /\ t \in Targets /\ tx[a].id \in Events
    BY <1>0, <1>9 DEF Work, TxTyped, Allocate
  <2>2. tx' = [tx EXCEPT ![a] = w]
    BY <1>9 DEF Allocate
  <2>3. next[t] + 1 \in Nat
    BY <2>1 DEF TypeOK
  <2>4. w \in Work /\ w.at = "insert" /\ w.target = t /\ w.id = tx[a].id
    BY <2>1, <2>3 DEF Work, Steps
  <2>5. lock' \in [Targets -> Actors \cup {Nobody}]
    BY <1>9 DEF Allocate, TypeOK
  <2>6. TxTyped'
    <3> HIDE DEF w, t
    <3> QED BY <1>0, <2>1, <2>2, <2>4 DEF TxTyped
  <2>7. ASSUME NEW u \in Targets, NEW b \in Actors
        PROVE  lock'[u] = b <=> tx'[b].at = "insert" /\ tx'[b].target = u
    <3>1. lock[u] = b <=> tx[b].at = "insert" /\ tx[b].target = u
      BY DEF TypeOK
    <3>2. lock[t] = Nobody /\ tx[a].at = "allocate"
      BY <1>9 DEF Allocate, CounterFree
    <3>3. lock'[u] = IF u = t THEN a ELSE lock[u]
      BY <1>9, <2>1 DEF Allocate, TypeOK
    <3>4. tx'[b] = IF b = a THEN w ELSE tx[b]
      BY <1>0, <2>2 DEF TxTyped
    <3>5. Nobody # b
      OBVIOUS
    <3> HIDE DEF w, t
    <3> QED BY <2>4, <3>1, <3>2, <3>3, <3>4, <3>5
  <2> HIDE DEF w, t
  <2> QED BY <1>9, <2>5, <2>6, <2>7 DEF Allocate, TypeOK, TxTyped
<1>10. ASSUME NEW a \in Actors, Insert(a) PROVE TypeOK'
  <2>1. tx[a].at = "insert" /\ (Published(a) \/ Refused(a)) /\ Unlock(a)
    BY <1>10 DEF Insert
  <2>2. OnlyTx(a) /\ tx'[a].at # "insert"
    BY <1>0, <2>1, PublishedType, RefusedType
  <2>3. lock' \in [Targets -> Actors \cup {Nobody}] /\ LockMatches'
    BY <2>1, <2>2, UnlockMatches
  <2>4. tx[a].target \in Targets /\ tx[a].id \in Events /\ tx[a].cursor \in Nat
    BY <1>0, <2>1 DEF Work, TxTyped
  <2>5. next' \in [Targets -> Nat]
    BY <1>10, <2>4 DEF Insert, TypeOK
  <2>6. events' \subseteq Rows
    <3>1. [id |-> tx[a].id, target |-> tx[a].target, cursor |-> tx[a].cursor] \in Rows
      BY <2>4 DEF Rows
    <3> QED BY <1>10, <3>1 DEF Insert, TypeOK
  <2> QED BY <1>10, <2>2, <2>3, <2>5, <2>6 DEF Insert, TypeOK, LockMatches, OnlyTx, TxTyped
<1>11. ASSUME NEW a \in Actors, PublishFails(a) PROVE TypeOK'
  <2>1. tx[a].at # "idle" /\ Refused(a) /\ Unlock(a)
    BY <1>11 DEF PublishFails
  <2>2. OnlyTx(a) /\ tx'[a].at # "insert"
    BY <1>0, <2>1, RefusedType
  <2>3. lock' \in [Targets -> Actors \cup {Nobody}] /\ LockMatches'
    BY <2>1, <2>2, UnlockMatches
  <2>4. faults' \in 0 .. MaxFaults
    BY <1>11 DEF PublishFails, Fault, TypeOK
  <2> QED BY <1>11, <2>2, <2>3, <2>4
          DEF PublishFails, TypeOK, LockMatches, OnlyTx, TxTyped
<1>12. ASSUME NEW d \in Dispatchers, CompleteOutbox(d) \/ CompleteFails(d) \/ FailOutbox(d)
       PROVE  TypeOK'
  <2>1. d \in Actors /\ tx[d].at \in {"complete", "fail"} /\ tx' = [tx EXCEPT ![d] = Idle]
        /\ UNCHANGED lock
    BY <1>12 DEF CompleteOutbox, CompleteFails, FailOutbox, Actors
  <2>2. OnlyTx(d) /\ tx'[d].at # "insert" /\ tx[d].at # "insert"
    BY <1>0, <2>1, EndType
  <2>3. LockMatches'
    BY <2>1, <2>2, LocksStay
  <2>4. outbox' \in [Intents -> Intent]
    <3>1. CASE UNCHANGED outbox
      BY <3>1 DEF TypeOK
    <3>2. \A i \in Intents :
             /\ [outbox[i] EXCEPT !.status = "published", !.token = Nobody] \in Intent
             /\ [status |-> "failed", token |-> Nobody, due |-> FALSE] \in Intent
      BY IntentType DEF TypeOK
    <3>3. CASE CompleteOutbox(d)
      BY <3>2, <3>3 DEF CompleteOutbox, TypeOK
    <3>4. CASE FailOutbox(d)
      <4>1. \/ UNCHANGED outbox
            \/ outbox' = [outbox EXCEPT ![tx[d].id] =
                             [status |-> "failed", token |-> Nobody, due |-> FALSE]]
        BY <3>4 DEF FailOutbox
      <4>2. [status |-> "failed", token |-> Nobody, due |-> FALSE] \in Intent
        BY DEF Intent, Statuses
      <4> QED BY <3>1, <4>1, <4>2 DEF TypeOK
    <3> QED BY <1>12, <3>1, <3>3, <3>4 DEF CompleteFails
  <2>5. batch' \in [Dispatchers -> SUBSET Intents]
    BY <1>12 DEF CompleteOutbox, CompleteFails, FailOutbox, TypeOK
  <2>6. faults' \in 0 .. MaxFaults
    BY <1>12 DEF CompleteOutbox, CompleteFails, FailOutbox, Fault, TypeOK
  <2> QED BY <1>12, <2>2, <2>3, <2>4, <2>5, <2>6
          DEF CompleteOutbox, CompleteFails, FailOutbox, TypeOK, LockMatches, OnlyTx, TxTyped
<1>13. ASSUME NEW a \in Actors, Crash(a) PROVE TypeOK'
  <2>1. tx' = [tx EXCEPT ![a] = Idle] /\ Unlock(a)
    BY <1>13 DEF Crash
  <2>2. OnlyTx(a) /\ tx'[a].at # "insert"
    BY <1>0, <2>1, EndType
  <2>3. lock' \in [Targets -> Actors \cup {Nobody}] /\ LockMatches'
    BY <2>1, <2>2, UnlockMatches
  <2>4. batch' \in [Dispatchers -> SUBSET Intents] /\ faults' \in 0 .. MaxFaults
    BY <1>13 DEF Crash, Fault, TypeOK
  <2> QED BY <1>13, <2>2, <2>3, <2>4 DEF Crash, TypeOK, LockMatches, OnlyTx, TxTyped
<1>14. ASSUME NEW t \in Targets, Replay(t) PROVE TypeOK'
  <2>1. PICK last \in Visible(t) :
          /\ applied' = [applied EXCEPT ![t] = @ \cup UpTo(t, last.cursor)]
          /\ after' = [after EXCEPT ![t] = last.cursor]
    BY <1>14 DEF Replay
  <2>2. last.cursor \in Nat /\ UpTo(t, last.cursor) \subseteq Rows
    BY DEF Visible, UpTo, TypeOK, Rows
  <2>3. after' \in [Targets -> Nat] /\ applied' \in [Targets -> SUBSET Rows]
    BY <2>1, <2>2 DEF TypeOK
  <2> QED BY <1>14, <2>3 DEF Replay, TypeOK
<1> QED
  BY <1>1, <1>2, <1>3, <1>4, <1>6, <1>7, <1>8, <1>9, <1>10, <1>11, <1>12, <1>13, <1>14
     DEF Next, Dispatch, Publish, Actors

\* The initial state is well typed.
LEMMA InitType == Init => TypeOK
<1> SUFFICES ASSUME Init PROVE TypeOK
  OBVIOUS
<1>1. \A a \in Actors : tx[a] = Idle /\ tx[a] \in Work /\ tx[a].at = "idle"
  BY IdleType DEF Init
<1>2. \A i \in Intents : outbox[i] \in Intent
  BY DEF Init, Intent, Statuses
<1>3. tx \in [Actors -> Work] /\ outbox \in [Intents -> Intent]
  BY <1>1, <1>2 DEF Init
<1>4. \A t \in Targets, a \in Actors :
         lock[t] = a <=> tx[a].at = "insert" /\ tx[a].target = t
  BY <1>1, OutboxAssumption DEF Init
<1>5. /\ created \in [Intents -> Nat] /\ events \subseteq Rows
      /\ next \in [Targets -> Nat] /\ lock \in [Targets -> Actors \cup {Nobody}]
      /\ batch \in [Dispatchers -> SUBSET Intents]
  BY DEF Init
<1>6. /\ after \in [Targets -> Nat] /\ applied \in [Targets -> SUBSET Rows]
      /\ faults \in 0 .. MaxFaults
  BY OutboxAssumption DEF Init
<1> QED BY <1>1, <1>3, <1>4, <1>5, <1>6 DEF TypeOK

\* Every variable of the outbox, the delivery log and its clients has its type,
\* and a counter row is locked by the one transaction that allocated from it.
THEOREM OutboxTypeCorrect == Spec => []TypeOK
BY InitType, TypeStep, PTL DEF Spec

-----------------------------------------------------------------------------
\* Only inserts write the log, only allocations create inserts and only replays
\* move clients.
LEMMA QuietStep ==
    ASSUME TypeOK, [Next]_vars
    PROVE  \/ \E a \in Actors : Insert(a) \/ Allocate(a)
           \/ \E t \in Targets : Replay(t)
           \/ /\ UNCHANGED <<events, next, after, applied>>
              /\ \A b \in Actors : tx'[b].at = "insert" => tx'[b] = tx[b]
<1> USE OutboxAssumption
<1> DEFINE Quiet == /\ UNCHANGED <<events, next, after, applied>>
                    /\ \A b \in Actors : tx'[b].at = "insert" => tx'[b] = tx[b]
<1>0. TxTyped
  BY DEF TypeOK, TxTyped
<1>1. CASE UNCHANGED vars
  BY <1>1 DEF vars
<1>2. ASSUME NEW i \in Intents, Write(i) \/ BecomesDue(i) PROVE Quiet
  BY <1>2 DEF Write, BecomesDue
<1>3. ASSUME NEW d \in Dispatchers, ClaimOutbox(d) PROVE Quiet
  BY <1>3 DEF ClaimOutbox
<1>4. ASSUME NEW a \in Actors, NEW e, NEW t, Begin(a, e, t)
      PROVE  \A b \in Actors : tx'[b].at = "insert" => tx'[b] = tx[b]
  <2>1. tx' = [tx EXCEPT ![a] = [at |-> "lookup", id |-> e, target |-> t, cursor |-> 0]]
    BY <1>4 DEF Begin
  <2> QED BY <1>0, <2>1 DEF TxTyped
<1>5. ASSUME NEW d \in Dispatchers, NextRow(d) PROVE Quiet
  <2>1. PICK i : Begin(d, i, Target[i])
    BY <1>5 DEF NextRow
  <2> QED BY <1>4, <1>5, <2>1 DEF NextRow, Actors
<1>6. ASSUME NEW h \in Handlers, LegacyPublish(h) PROVE Quiet
  <2>1. PICK e, t : Begin(h, e, t)
    BY <1>6 DEF LegacyPublish
  <2> QED BY <1>4, <1>6, <2>1 DEF LegacyPublish, Actors
<1>7. ASSUME NEW a \in Actors, Lookup(a) PROVE Quiet
  <2>1. tx[a].at = "lookup" /\ (Published(a) \/ Goto(a, "allocate"))
    BY <1>7 DEF Lookup
  <2>2. OnlyTx(a) /\ tx'[a].at # "insert"
    BY <1>0, <2>1, PublishedType, GotoType DEF Steps
  <2> QED BY <1>7, <2>2 DEF Lookup, OnlyTx
<1>8. ASSUME NEW a \in Actors, PublishFails(a) PROVE Quiet
  <2>1. tx[a].at # "idle" /\ Refused(a)
    BY <1>8 DEF PublishFails
  <2>2. OnlyTx(a) /\ tx'[a].at # "insert"
    BY <1>0, <2>1, RefusedType
  <2> QED BY <1>8, <2>2 DEF PublishFails, OnlyTx
<1>9. ASSUME NEW a \in Actors, tx' = [tx EXCEPT ![a] = Idle]
      PROVE  \A b \in Actors : tx'[b].at = "insert" => tx'[b] = tx[b]
  BY <1>0, <1>9, EndType DEF OnlyTx
<1>10. ASSUME NEW d \in Dispatchers, CompleteOutbox(d) \/ CompleteFails(d) \/ FailOutbox(d)
       PROVE  Quiet
  BY <1>9, <1>10 DEF CompleteOutbox, CompleteFails, FailOutbox, Actors
<1>11. ASSUME NEW a \in Actors, Crash(a) PROVE Quiet
  BY <1>9, <1>11 DEF Crash
<1> HIDE DEF Quiet
<1>12. \/ \E a \in Actors : Insert(a) \/ Allocate(a)
       \/ \E t \in Targets : Replay(t)
       \/ UNCHANGED vars
       \/ Quiet
  BY <1>2, <1>3, <1>5, <1>6, <1>7, <1>8, <1>10, <1>11
     DEF Next, Dispatch, Publish, Actors
<1> QED BY <1>1, <1>12 DEF Quiet

\* What an insert does: at most one row under the allocated cursor.
LEMMA InsertEffect ==
    ASSUME TypeOK, NEW a \in Actors, Insert(a)
    PROVE  LET t == tx[a].target
               row == [id |-> tx[a].id, target |-> t, cursor |-> tx[a].cursor]
           IN  /\ t \in Targets /\ lock[t] = a /\ tx[a].at = "insert"
               /\ OnlyTx(a) /\ tx'[a].at # "insert"
               /\ \/ /\ ~Taken(tx[a].id)
                     /\ events' = events \cup {row}
                     /\ next' = [next EXCEPT ![t] = tx[a].cursor]
                  \/ /\ events' = events
                     /\ next' = next \/ next' = [next EXCEPT ![t] = tx[a].cursor]
               /\ UNCHANGED <<after, applied>>
<1>0. TxTyped /\ LockMatches
  BY DEF TypeOK, TxTyped, LockMatches
<1>1. tx[a].at = "insert" /\ (Published(a) \/ Refused(a))
  BY DEF Insert
<1>2. OnlyTx(a) /\ tx'[a].at # "insert"
  BY <1>0, <1>1, PublishedType, RefusedType
<1>3. tx[a].target \in Targets /\ lock[tx[a].target] = a
  BY <1>0, <1>1 DEF TxTyped, Work, LockMatches
<1> QED BY <1>1, <1>2, <1>3 DEF Insert

\* Cursors of the log and of clients stay at or below the counter, and the
\* transaction that holds the counter has the next one.
CursorsBounded == /\ \A r \in events : 0 < r.cursor /\ r.cursor <= next[r.target]
                  /\ \A t \in Targets : after[t] <= next[t]

Allocated == \A a \in Actors : tx[a].at = "insert" => tx[a].cursor = next[tx[a].target] + 1

\* Every step keeps the counters ahead of the log.
LEMMA CounterStep ==
    ASSUME TypeOK, TypeOK', CursorsBounded, Allocated, [Next]_vars
    PROVE  CursorsBounded' /\ Allocated'
<1>1. ASSUME NEW a \in Actors, Insert(a) PROVE CursorsBounded' /\ Allocated'
  <2> DEFINE t == tx[a].target
             n == tx[a].cursor
  <2>1. /\ t \in Targets /\ lock[t] = a /\ tx[a].at = "insert"
        /\ OnlyTx(a) /\ tx'[a].at # "insert" /\ UNCHANGED after
    BY <1>1, InsertEffect
  <2>2. n = next[t] + 1 /\ next[t] \in Nat /\ n \in Nat
    BY <2>1 DEF Allocated, TypeOK, Work
  <2>3. \A u \in Targets : /\ next'[u] \in Nat /\ next[u] \in Nat /\ next[u] <= next'[u]
                           /\ u # t => next'[u] = next[u]
    BY <1>1, <2>1, <2>2, InsertEffect DEF TypeOK
  <2>4. ASSUME NEW r \in events' PROVE 0 < r.cursor /\ r.cursor <= next'[r.target]
    <3>1. CASE r \in events
      <4>1. r.target \in Targets /\ r.cursor \in Nat
        BY <3>1 DEF TypeOK, Rows
      <4> QED BY <2>3, <3>1, <4>1 DEF CursorsBounded
    <3>2. CASE r \notin events
      <4>1. r.target = t /\ r.cursor = n /\ next'[t] = n
        BY <1>1, <2>1, <3>2, InsertEffect DEF TypeOK
      <4> QED BY <2>2, <4>1
    <3> QED BY <3>1, <3>2
  <2>5. ASSUME NEW u \in Targets PROVE after'[u] <= next'[u]
    <3>1. after[u] \in Nat /\ after[u] <= next[u] /\ after'[u] = after[u]
      BY <2>1 DEF TypeOK, CursorsBounded
    <3> QED BY <2>3, <3>1
  <2>6. ASSUME NEW b \in Actors, tx'[b].at = "insert"
        PROVE  tx'[b].cursor = next'[tx'[b].target] + 1
    <3>1. b # a /\ tx'[b] = tx[b]
      BY <2>1, <2>6 DEF OnlyTx
    <3>2. tx[b].target \in Targets /\ tx[b].target # t
      BY <2>1, <2>6, <3>1 DEF TypeOK, Work
    <3> QED BY <2>3, <2>6, <3>1, <3>2 DEF Allocated
  <2> QED BY <2>4, <2>5, <2>6 DEF CursorsBounded, Allocated
<1>2. ASSUME NEW a \in Actors, Allocate(a) PROVE CursorsBounded' /\ Allocated'
  <2>1. UNCHANGED <<events, next, after>>
    BY <1>2 DEF Allocate
  <2>2. tx' = [tx EXCEPT ![a] = [tx[a] EXCEPT !.at = "insert",
                                              !.cursor = next[tx[a].target] + 1]]
    BY <1>2 DEF Allocate
  <2>3. tx'[a].cursor = next[tx'[a].target] + 1
    BY <2>2 DEF TypeOK, Work
  <2>4. \A b \in Actors : b # a => tx'[b] = tx[b]
    BY <2>2 DEF TypeOK
  <2> QED BY <2>1, <2>3, <2>4 DEF CursorsBounded, Allocated
<1>3. ASSUME NEW t \in Targets, Replay(t) PROVE CursorsBounded' /\ Allocated'
  <2>1. PICK last \in Visible(t) : after' = [after EXCEPT ![t] = last.cursor]
    BY <1>3 DEF Replay
  <2>2. last.cursor <= next[t]
    BY DEF Visible, CursorsBounded
  <2>3. UNCHANGED <<events, next, tx>>
    BY <1>3 DEF Replay
  <2> QED BY <2>1, <2>2, <2>3 DEF CursorsBounded, Allocated, TypeOK
<1>4. CASE /\ UNCHANGED <<events, next, after, applied>>
           /\ \A b \in Actors : tx'[b].at = "insert" => tx'[b] = tx[b]
  BY <1>4 DEF CursorsBounded, Allocated
<1> QED BY <1>1, <1>2, <1>3, <1>4, QuietStep

\* Every step keeps clients from skipping an event.
LEMMA SkipStep ==
    ASSUME TypeOK, CursorsBounded, Allocated, NoSkippedEvent, [Next]_vars
    PROVE  NoSkippedEvent'
<1>1. ASSUME NEW a \in Actors, Insert(a) PROVE NoSkippedEvent'
  <2> SUFFICES ASSUME NEW u \in Targets
               PROVE  applied'[u] = {r \in Visible(u)' : r.cursor <= after'[u]}
    BY DEF NoSkippedEvent
  <2>1. UNCHANGED <<after, applied>> /\ tx[a].at = "insert" /\ tx[a].target \in Targets
    BY <1>1, InsertEffect
  <2>2. \A r \in events' : r \in events \/ (r.target = tx[a].target /\ r.cursor = tx[a].cursor)
    <3> DEFINE row == [id |-> tx[a].id, target |-> tx[a].target, cursor |-> tx[a].cursor]
    <3>1. events' = events \/ events' = events \cup {row}
      BY <1>1, InsertEffect
    <3>2. row.target = tx[a].target /\ row.cursor = tx[a].cursor
      OBVIOUS
    <3> HIDE DEF row
    <3> QED BY <3>1, <3>2
  <2>3. events \subseteq events'
    BY <1>1, InsertEffect
  <2>4. /\ tx[a].cursor = next[tx[a].target] + 1
        /\ after[tx[a].target] <= next[tx[a].target]
        /\ next[tx[a].target] \in Nat /\ after[tx[a].target] \in Nat
    BY <2>1 DEF Allocated, CursorsBounded, TypeOK
  <2>5. ASSUME NEW r \in events', r.target = u, r.cursor <= after[u] PROVE r \in events
    BY <2>2, <2>4, <2>5
  <2> QED BY <2>1, <2>3, <2>5 DEF NoSkippedEvent, Visible
<1>2. ASSUME NEW a \in Actors, Allocate(a) PROVE NoSkippedEvent'
  BY <1>2 DEF Allocate, NoSkippedEvent, Visible
<1>3. ASSUME NEW t \in Targets, Replay(t) PROVE NoSkippedEvent'
  <2>1. PICK last \in Visible(t) :
          /\ last.cursor > after[t]
          /\ applied' = [applied EXCEPT ![t] = @ \cup UpTo(t, last.cursor)]
          /\ after' = [after EXCEPT ![t] = last.cursor]
    BY <1>3 DEF Replay
  <2>2. UNCHANGED events
    BY <1>3 DEF Replay
  <2>3. ASSUME NEW u \in Targets
        PROVE  applied'[u] = {r \in Visible(u) : r.cursor <= after'[u]}
    <3>1. CASE u # t
      BY <2>1, <3>1 DEF NoSkippedEvent, TypeOK
    <3>2. CASE u = t
      <4>1. applied'[t] = {r \in Visible(t) : r.cursor <= after[t]} \cup UpTo(t, last.cursor)
        BY <2>1 DEF NoSkippedEvent, TypeOK
      <4>2. after'[t] = last.cursor /\ after[t] \in Nat /\ last.cursor \in Nat
        BY <2>1 DEF TypeOK, Visible, Rows
      <4>3. \A r \in Visible(t) : r.cursor \in Nat
        BY DEF TypeOK, Visible, Rows
      <4> QED BY <2>1, <3>2, <4>1, <4>2, <4>3 DEF UpTo
    <3> QED BY <3>1, <3>2
  <2> QED BY <2>2, <2>3 DEF NoSkippedEvent, Visible
<1>4. CASE UNCHANGED <<events, next, after, applied>>
  BY <1>4 DEF NoSkippedEvent, Visible
<1> QED BY <1>1, <1>2, <1>3, <1>4, QuietStep

\* A new row has an ID nobody had and a cursor above those of its target.
LEMMA OnceStep ==
    ASSUME TypeOK, CursorsBounded, Allocated, MaterialisedOnce, [Next]_vars
    PROVE  MaterialisedOnce'
<1>1. ASSUME NEW a \in Actors, Insert(a) PROVE MaterialisedOnce'
  <2> DEFINE row == [id |-> tx[a].id, target |-> tx[a].target, cursor |-> tx[a].cursor]
  <2>1. CASE events' = events
    BY <2>1 DEF MaterialisedOnce
  <2>2. CASE ~Taken(tx[a].id) /\ events' = events \cup {row}
    <3>1. tx[a].at = "insert" /\ tx[a].target \in Targets
      BY <1>1, InsertEffect
    <3>2. /\ tx[a].cursor = next[tx[a].target] + 1
          /\ next[tx[a].target] \in Nat
      BY <3>1 DEF Allocated, TypeOK
    <3>3. \A r \in events : /\ r.id # row.id
                            /\ ~(r.target = row.target /\ r.cursor = row.cursor)
      <4> TAKE r \in events
      <4>1. r.cursor \in Nat /\ r.cursor <= next[r.target]
        BY DEF TypeOK, Rows, CursorsBounded
      <4> QED BY <2>2, <3>2, <4>1 DEF Taken
    <3> HIDE DEF row
    <3> QED BY <2>2, <3>3 DEF MaterialisedOnce
  <2> QED BY <1>1, <2>1, <2>2, InsertEffect
<1>2. CASE UNCHANGED events
  BY <1>2 DEF MaterialisedOnce
<1>3. (\E a \in Actors : Insert(a)) \/ UNCHANGED events
  BY QuietStep DEF Allocate, Replay
<1> QED BY <1>1, <1>2, <1>3

-----------------------------------------------------------------------------
\* Events are never removed.
LEMMA LogGrows ==
    ASSUME TypeOK, [Next]_vars
    PROVE  events \subseteq events'
<1>1. ASSUME NEW a \in Actors, Insert(a) PROVE events \subseteq events'
  BY <1>1, InsertEffect
<1> QED BY <1>1, QuietStep DEF Allocate, Replay

\* The log is finite.
LEMMA EventsFiniteStep ==
    ASSUME TypeOK, IsFiniteSet(events), [Next]_vars
    PROVE  IsFiniteSet(events')
<1>1. ASSUME NEW a \in Actors, Insert(a) PROVE IsFiniteSet(events')
  <2> DEFINE row == [id |-> tx[a].id, target |-> tx[a].target, cursor |-> tx[a].cursor]
  <2>1. events' = events \/ events' = events \cup {row}
    BY <1>1, InsertEffect
  <2> HIDE DEF row
  <2> QED BY <2>1, FS_AddElement
<1> QED BY <1>1, QuietStep DEF Allocate, Replay

\* A dispatcher publishes its outbox row to the target of the row, and completes
\* it when the event is there.
Dispatching ==
    \A d \in Dispatchers :
        /\ tx[d].at # "idle" => tx[d].id \in Intents /\ tx[d].target = Target[tx[d].id]
        /\ tx[d].at = "complete" => TakenBy(tx[d].id, tx[d].target)

\* The step leaves an event of this ID in the log of this target.
Found(e, t) == \E r \in events' : r.id = e /\ r.target = t

\* Whoever is told that its event is published finds it in the log.
LEMMA PublishedFinds ==
    ASSUME TypeOK, NEW a \in Actors, Lookup(a) \/ Insert(a), tx'[a].at = "complete"
    PROVE  Found(tx[a].id, tx[a].target)
<1> USE OutboxAssumption
<1>0. TxTyped
  BY DEF TypeOK, TxTyped
<1>1. CASE Lookup(a)
  <2>1. tx[a].at = "lookup" /\ UNCHANGED events
    BY <1>1 DEF Lookup
  <2>2. CASE TakenBy(tx[a].id, tx[a].target)
    BY <2>1, <2>2, <1>0, PublishedType, <1>1 DEF Lookup, TakenBy, Found
  <2>3. CASE Goto(a, "allocate")
    BY <1>0, <2>1, <2>3, GotoType DEF Steps
  <2> QED BY <1>1, <2>2, <2>3 DEF Lookup
<1>2. CASE Insert(a)
  <2> DEFINE row == [id |-> tx[a].id, target |-> tx[a].target, cursor |-> tx[a].cursor]
  <2>1. tx[a].at = "insert"
    BY <1>2 DEF Insert
  <2>2. CASE events' = events \cup {row}
    <3>1. row \in events' /\ row.id = tx[a].id /\ row.target = tx[a].target
      BY <2>2
    <3> HIDE DEF row
    <3> QED BY <3>1 DEF Found
  <2>3. CASE TakenBy(tx[a].id, tx[a].target) /\ UNCHANGED events
    BY <2>3 DEF TakenBy, Found
  <2>4. CASE Refused(a)
    BY <1>0, <2>1, <2>4, RefusedType
  <2> QED BY <1>2, <2>2, <2>3, <2>4 DEF Insert
<1> QED BY <1>1, <1>2

\* Every step keeps dispatchers at work on their own rows.
LEMMA DispatchingStep ==
    ASSUME TypeOK, Dispatching, [Next]_vars
    PROVE  Dispatching'
<1> USE OutboxAssumption
<1>0. TxTyped
  BY DEF TypeOK, TxTyped
<1> SUFFICES ASSUME NEW d \in Dispatchers
             PROVE  /\ tx'[d].at # "idle" => /\ tx'[d].id \in Intents
                                             /\ tx'[d].target = Target[tx'[d].id]
                    /\ tx'[d].at = "complete" => Found(tx'[d].id, tx'[d].target)
  BY DEF Dispatching, TakenBy, Found
<1> DEFINE Fine == /\ tx'[d].at # "idle" => /\ tx'[d].id \in Intents
                                            /\ tx'[d].target = Target[tx'[d].id]
                   /\ tx'[d].at = "complete" => Found(tx'[d].id, tx'[d].target)
<1>1. d \in Actors
  BY DEF Actors
\* A step of another actor leaves d's transaction as it was.
<1>2. ASSUME tx'[d] = tx[d] PROVE Fine
  BY <1>2, LogGrows DEF Dispatching, TakenBy, Found
\* A step within a transaction keeps the row it is about.
<1>3. ASSUME tx[d].at # "idle", tx'[d].id = tx[d].id, tx'[d].target = tx[d].target,
             tx'[d].at = "complete" => Found(tx[d].id, tx[d].target)
      PROVE  Fine
  BY <1>3 DEF Dispatching
<1>4. ASSUME tx'[d].at = "idle" PROVE Fine
  BY <1>4
<1>5. ASSUME NEW a \in Actors, OnlyTx(a), a # d PROVE Fine
  BY <1>1, <1>2, <1>5 DEF OnlyTx
<1> HIDE DEF Fine
<1>6. ASSUME UNCHANGED tx PROVE Fine
  BY <1>2, <1>6
<1>7. ASSUME NEW e \in Dispatchers, NextRow(e) PROVE Fine
  <2>1. PICK i \in batch[e] : Begin(e, i, Target[i])
    BY <1>7 DEF NextRow
  <2>2. i \in Intents
    BY DEF TypeOK
  <2>3. tx' = [tx EXCEPT ![e] = [at |-> "lookup", id |-> i, target |-> Target[i], cursor |-> 0]]
    BY <2>1 DEF Begin
  <2>4. CASE e = d
    BY <1>0, <1>1, <2>2, <2>3, <2>4 DEF Fine, TxTyped
  <2>5. CASE e # d
    BY <1>0, <1>1, <1>2, <2>3, <2>5 DEF TxTyped
  <2> QED BY <2>4, <2>5
<1>8. ASSUME NEW h \in Handlers, LegacyPublish(h) PROVE Fine
  <2>1. PICK e \in Direct, t \in Targets : Begin(h, e, t)
    BY <1>8 DEF LegacyPublish
  <2>2. h # d
    OBVIOUS
  <2> QED BY <1>0, <1>1, <1>2, <2>1, <2>2 DEF Begin, TxTyped
<1>9. ASSUME NEW a \in Actors, Lookup(a) PROVE Fine
  <2>1. tx[a].at = "lookup" /\ (Published(a) \/ Goto(a, "allocate"))
    BY <1>9 DEF Lookup
  <2>2. /\ OnlyTx(a)
        /\ tx'[a].at # "idle" => tx'[a].id = tx[a].id /\ tx'[a].target = tx[a].target
    BY <1>0, <2>1, PublishedType, GotoType DEF Steps
  <2>3. CASE a = d
    BY <1>3, <1>4, <1>9, <2>1, <2>2, <2>3, PublishedFinds
  <2> QED BY <1>5, <2>2, <2>3
<1>10. ASSUME NEW a \in Actors, Allocate(a) PROVE Fine
  <2>1. tx' = [tx EXCEPT ![a] = [tx[a] EXCEPT !.at = "insert",
                                              !.cursor = next[tx[a].target] + 1]]
    BY <1>10 DEF Allocate
  <2>2. CASE a # d
    BY <1>0, <1>1, <1>2, <2>1, <2>2 DEF TxTyped
  <2>3. CASE a = d
    <3>1. tx'[d].id = tx[d].id /\ tx'[d].target = tx[d].target /\ tx'[d].at = "insert"
      BY <1>0, <1>1, <2>1, <2>3 DEF TxTyped, Work
    <3> QED BY <1>3, <1>10, <2>3, <3>1 DEF Allocate
  <2> QED BY <2>2, <2>3
<1>11. ASSUME NEW a \in Actors, Insert(a) PROVE Fine
  <2>1. tx[a].at = "insert" /\ (Published(a) \/ Refused(a))
    BY <1>11 DEF Insert
  <2>2. /\ OnlyTx(a)
        /\ tx'[a].at # "idle" => tx'[a].id = tx[a].id /\ tx'[a].target = tx[a].target
    BY <1>0, <2>1, PublishedType, RefusedType
  <2>3. CASE a = d
    BY <1>3, <1>4, <1>11, <2>1, <2>2, <2>3, PublishedFinds
  <2> QED BY <1>5, <2>2, <2>3
<1>12. ASSUME NEW a \in Actors, PublishFails(a) PROVE Fine
  <2>1. tx[a].at # "idle" /\ Refused(a)
    BY <1>12 DEF PublishFails
  <2>2. /\ OnlyTx(a) /\ tx'[a].at # "complete"
        /\ tx'[a].at # "idle" => tx'[a].id = tx[a].id /\ tx'[a].target = tx[a].target
    BY <1>0, <2>1, RefusedType
  <2>3. CASE a = d
    BY <1>3, <1>4, <2>1, <2>2, <2>3
  <2> QED BY <1>5, <2>2, <2>3
<1>13. ASSUME NEW a \in Actors, tx' = [tx EXCEPT ![a] = Idle] PROVE Fine
  <2>1. OnlyTx(a) /\ tx'[a].at = "idle"
    BY <1>0, <1>13, EndType
  <2> QED BY <1>4, <1>5, <2>1
<1>14. ASSUME NEW i \in Intents, Write(i) \/ BecomesDue(i) PROVE Fine
  BY <1>6, <1>14 DEF Write, BecomesDue
<1>15. ASSUME NEW e \in Dispatchers,
              ClaimOutbox(e) \/ CompleteOutbox(e) \/ CompleteFails(e) \/ FailOutbox(e)
       PROVE  Fine
  BY <1>6, <1>13, <1>15 DEF ClaimOutbox, CompleteOutbox, CompleteFails, FailOutbox, Actors
<1>16. ASSUME NEW a \in Actors, Crash(a) PROVE Fine
  BY <1>13, <1>16 DEF Crash
<1>17. ASSUME NEW t \in Targets, Replay(t) PROVE Fine
  BY <1>6, <1>17 DEF Replay
<1>18. ASSUME UNCHANGED vars PROVE Fine
  BY <1>6, <1>18 DEF vars
<1>19. Fine
  BY <1>7, <1>8, <1>9, <1>10, <1>11, <1>12, <1>14, <1>15, <1>16, <1>17, <1>18
     DEF Next, Dispatch, Publish, Actors
<1> QED BY <1>19 DEF Fine

\* Only CompleteOutbox publishes a row, and no step takes a published row back.
LEMMA OutboxStep ==
    ASSUME TypeOK, [Next]_vars, NEW i \in Intents
    PROVE  \/ outbox'[i].status # "published" /\ outbox[i].status # "published"
           \/ outbox'[i].status = "published" /\ outbox[i].status = "published"
           \/ \E d \in Dispatchers : CompleteOutbox(d) /\ tx[d].id = i
                                     /\ outbox'[i].status = "published"
<1> DEFINE Same == (outbox'[i].status = "published") <=> (outbox[i].status = "published")
           Completed == \E d \in Dispatchers : CompleteOutbox(d) /\ tx[d].id = i
                                               /\ outbox'[i].status = "published"
<1>0. outbox[i] \in Intent /\ outbox \in [Intents -> Intent]
  BY DEF TypeOK
<1>1. ASSUME UNCHANGED outbox PROVE Same
  BY <1>1
<1>2. ASSUME NEW k \in Intents, Write(k) PROVE Same
  <2>1. /\ outbox[k].status = "absent"
        /\ outbox' = [outbox EXCEPT ![k] = [outbox[k] EXCEPT !.status = "pending", !.due = TRUE]]
    BY <1>2 DEF Write
  <2>2. outbox'[k].status = "pending"
    BY <1>0, <2>1 DEF Intent
  <2> QED BY <1>0, <2>1, <2>2
<1>3. ASSUME NEW k \in Intents, BecomesDue(k) PROVE Same
  <2>1. outbox' = [outbox EXCEPT ![k] = [outbox[k] EXCEPT !.due = TRUE]]
    BY <1>3 DEF BecomesDue
  <2>2. outbox'[k].status = outbox[k].status
    BY <1>0, <2>1 DEF Intent
  <2> QED BY <1>0, <2>1, <2>2
<1>4. ASSUME NEW d \in Dispatchers, ClaimOutbox(d) PROVE Same
  <2>1. PICK S \in SUBSET Intents :
          /\ S \subseteq {k \in Intents : Ready(k)}
          /\ outbox' = [k \in Intents |->
                          IF k \in S THEN [status |-> "processing", token |-> d, due |-> FALSE]
                          ELSE outbox[k]]
    BY <1>4 DEF ClaimOutbox
  <2>2. i \in S => outbox[i].status # "published"
    BY <2>1 DEF Ready
  <2> QED BY <2>1, <2>2
<1>5. ASSUME NEW d \in Dispatchers, CompleteOutbox(d) PROVE Same \/ Completed
  <2>1. CASE UNCHANGED outbox
    BY <1>1, <2>1
  <2>2. CASE /\ Holds(d, tx[d].id)
             /\ outbox' = [outbox EXCEPT ![tx[d].id] =
                             [outbox[tx[d].id] EXCEPT !.status = "published", !.token = Nobody]]
    <3>1. CASE tx[d].id = i
      <4>1. outbox'[i] = [outbox[i] EXCEPT !.status = "published", !.token = Nobody]
        BY <1>0, <2>2, <3>1
      <4>2. outbox'[i].status = "published"
        BY <1>0, <4>1 DEF Intent
      <4> QED BY <1>5, <3>1, <4>2
    <3>2. CASE tx[d].id # i
      BY <1>0, <2>2, <3>2
    <3> QED BY <3>1, <3>2
  <2> QED BY <1>5, <2>1, <2>2 DEF CompleteOutbox
<1>6. ASSUME NEW d \in Dispatchers, FailOutbox(d) PROVE Same
  <2>1. \/ UNCHANGED outbox
        \/ /\ Holds(d, tx[d].id)
           /\ outbox' = [outbox EXCEPT ![tx[d].id] =
                           [status |-> "failed", token |-> Nobody, due |-> FALSE]]
    BY <1>6 DEF FailOutbox
  <2> QED BY <1>0, <2>1 DEF Holds
<1>7. UNCHANGED vars => UNCHANGED outbox
  BY DEF vars
<1>8. \/ UNCHANGED outbox
      \/ \E k \in Intents : Write(k) \/ BecomesDue(k)
      \/ \E d \in Dispatchers : ClaimOutbox(d) \/ CompleteOutbox(d) \/ FailOutbox(d)
  BY <1>7 DEF Next, Dispatch, Publish, NextRow, Lookup, Allocate, Insert, CompleteFails,
              LegacyPublish, PublishFails, Crash, Replay
<1>9. Same \/ Completed
  <2> HIDE DEF Same, Completed
  <2> QED BY <1>1, <1>2, <1>3, <1>4, <1>5, <1>6, <1>8
<1> QED BY <1>9

\* Every step publishes an intent only when its event is in the log.
LEMMA PublishedStep ==
    ASSUME TypeOK, Dispatching, PublishedIsMaterialised, [Next]_vars
    PROVE  PublishedIsMaterialised'
<1> SUFFICES ASSUME NEW i \in Intents, outbox'[i].status = "published"
             PROVE  Found(i, Target[i])
  BY DEF PublishedIsMaterialised, TakenBy, Found
<1>1. CASE outbox[i].status = "published"
  BY <1>1, LogGrows DEF PublishedIsMaterialised, TakenBy, Found
<1>2. CASE outbox[i].status # "published"
  <2>1. PICK d \in Dispatchers : CompleteOutbox(d) /\ tx[d].id = i
    BY <1>2, OutboxStep
  <2>2. TakenBy(i, Target[i])
    BY <2>1 DEF CompleteOutbox, Dispatching
  <2> QED BY <2>2, LogGrows DEF TakenBy, Found
<1> QED BY <1>1, <1>2

-----------------------------------------------------------------------------
\* The inductive invariant: the properties, and what holds inside transactions.
IInv == /\ TypeOK
        /\ CursorsBounded /\ Allocated /\ Dispatching
        /\ NoSkippedEvent /\ MaterialisedOnce /\ PublishedIsMaterialised
        /\ IsFiniteSet(events)

\* The invariant holds at the start and is kept by every step.
THEOREM OutboxInvariant == Spec => []IInv
<1>1. Init => IInv
  <2> SUFFICES ASSUME Init PROVE IInv
    OBVIOUS
  <2>1. TypeOK
    BY InitType
  <2>2. \A a \in Actors : tx[a].at = "idle"
    BY IdleType DEF Init
  <2>3. CursorsBounded /\ MaterialisedOnce
    BY DEF Init, CursorsBounded, MaterialisedOnce
  <2>4. NoSkippedEvent
    BY DEF Init, NoSkippedEvent, Visible
  <2>5. Allocated /\ Dispatching
    BY <2>2 DEF Allocated, Dispatching, Actors
  <2>6. PublishedIsMaterialised
    BY DEF Init, PublishedIsMaterialised
  <2>7. IsFiniteSet(events)
    BY FS_EmptySet DEF Init
  <2> QED BY <2>1, <2>3, <2>4, <2>5, <2>6, <2>7 DEF IInv
<1>2. IInv /\ [Next]_vars => IInv'
  BY TypeStep, CounterStep, SkipStep, OnceStep, DispatchingStep, PublishedStep, EventsFiniteStep
     DEF IInv
<1> QED BY <1>1, <1>2, PTL DEF Spec

\* A client applies exactly the rows of its target up to its cursor, whatever
\* dispatchers and requests commit behind it: it never skips an event.
THEOREM NothingSkipped == Spec => []NoSkippedEvent
<1>1. IInv => NoSkippedEvent
  BY DEF IInv
<1> QED BY <1>1, OutboxInvariant, PTL

\* However often it is retried, an event is in the log once, and no two events
\* of a target share a cursor.
THEOREM EventsOnce == Spec => []MaterialisedOnce
<1>1. IInv => MaterialisedOnce
  BY DEF IInv
<1> QED BY <1>1, OutboxInvariant, PTL

\* The outbox forgets an intent only when its event is in the log.
THEOREM PublishedHasEvent == Spec => []PublishedIsMaterialised
<1>1. IInv => PublishedIsMaterialised
  BY DEF IInv
<1> QED BY <1>1, OutboxInvariant, PTL

\* No dispatcher, however late, takes a published row back.
THEOREM PublishedRowsStay == Spec => PublishedStays
<1>1. TypeOK /\ [Next]_vars =>
        [\A i \in Intents :
            outbox[i].status = "published" => outbox'[i].status = "published"]_vars
  <2> SUFFICES ASSUME TypeOK, [Next]_vars, NEW i \in Intents,
                      outbox[i].status = "published"
               PROVE  outbox'[i].status = "published"
    OBVIOUS
  <2> QED BY OutboxStep
<1> QED BY <1>1, OutboxTypeCorrect, PTL DEF Spec, PublishedStays
-----------------------------------------------------------------------------
(* The rows of a target in the order of their cursors *)

\* The place of a row counts the rows before it, and the row.
LEMMA PlaceCounts ==
    ASSUME NEW R, Rowset(R), NEW r \in R
    PROVE  /\ Place(R, r) = Cardinality(Below(R, r)) + 1
           /\ Cardinality(R) \in Nat
           /\ Place(R, r) \in 1 .. Cardinality(R)
<1>1. {s \in R : s.cursor <= r.cursor} = Below(R, r) \cup {r} /\ r \notin Below(R, r)
  BY DEF Below, Rowset
<1>2. Place(R, r) = Cardinality(Below(R, r)) + 1
  BY <1>1, BelowCounts, FS_AddElement DEF Place
<1> QED BY <1>2, BelowCounts

\* Every place is taken by one row.
LEMMA NthPlace ==
    ASSUME NEW R, Rowset(R)
    PROVE  /\ \A n \in 1 .. Cardinality(R) : Nth(R, n) \in R /\ Place(R, Nth(R, n)) = n
           /\ \A r \in R : Nth(R, Place(R, r)) = r
<1>0. Cardinality(R) \in Nat
  BY FS_CardinalityType DEF Rowset
<1>1. ASSUME NEW r \in R, NEW s \in R, Place(R, r) = Place(R, s)
      PROVE  r = s
  <2>1. Cardinality(Below(R, r)) = Cardinality(Below(R, s))
    BY <1>1, PlaceCounts, BelowCounts
  <2>2. ~ (r.cursor < s.cursor) /\ ~ (s.cursor < r.cursor)
    BY <2>1, BelowGrows, BelowCounts
  <2> QED BY <2>2 DEF Rowset
<1>2. ASSUME NEW n \in 1 .. Cardinality(R)
      PROVE  Nth(R, n) \in R /\ Place(R, Nth(R, n)) = n
  <2>1. n - 1 \in Nat /\ n - 1 < Cardinality(R) /\ n = (n - 1) + 1
    BY <1>0
  <2>2. PICK r \in R : Cardinality(Below(R, r)) = n - 1
    BY <2>1, RowAtPlace
  <2>3. Place(R, r) = n
    BY <2>1, <2>2, PlaceCounts
  <2> QED BY <2>3 DEF Nth
<1>3. ASSUME NEW r \in R PROVE Nth(R, Place(R, r)) = r
  <2>1. Place(R, r) \in 1 .. Cardinality(R)
    BY PlaceCounts
  <2> QED BY <1>1, <1>2, <2>1
<1> QED BY <1>2, <1>3

\* row comes behind all rows of R.
Behind(row, R) == /\ row \notin R /\ row.cursor \in Nat
                  /\ \A r \in R : r.cursor < row.cursor

\* A row behind all others takes the place after theirs.
LEMMA NthOfMore ==
    ASSUME NEW R, Rowset(R), NEW row, Behind(row, R)
    PROVE  /\ Rowset(R \cup {row})
           /\ Cardinality(R \cup {row}) = Cardinality(R) + 1
           /\ Nth(R \cup {row}, Cardinality(R) + 1) = row
           /\ \A n \in 1 .. Cardinality(R) : Nth(R \cup {row}, n) = Nth(R, n)
<1> DEFINE Q == R \cup {row}
<1>1. IsFiniteSet(R) /\ Cardinality(R) \in Nat
  BY FS_CardinalityType DEF Rowset
<1>2. IsFiniteSet(Q) /\ Cardinality(Q) = Cardinality(R) + 1
  BY <1>1, FS_AddElement DEF Behind
<1>3. Rowset(Q)
  BY <1>2 DEF Rowset, Behind
<1>4. Place(Q, row) = Cardinality(R) + 1
  <2>1. {s \in Q : s.cursor <= row.cursor} = Q
    BY <1>3 DEF Rowset, Behind
  <2> QED BY <1>2, <2>1 DEF Place
<1>5. \A r \in R : Place(Q, r) = Place(R, r)
  <2> TAKE r \in R
  <2>1. {s \in Q : s.cursor <= r.cursor} = {s \in R : s.cursor <= r.cursor}
    BY <1>3 DEF Rowset, Behind
  <2> QED BY <2>1 DEF Place
<1> HIDE DEF Q
<1>6. Nth(Q, Cardinality(R) + 1) = row
  <2>1. row \in Q
    BY DEF Q
  <2> QED BY <1>3, <1>4, <2>1, NthPlace
<1>7. ASSUME NEW n \in 1 .. Cardinality(R) PROVE Nth(Q, n) = Nth(R, n)
  <2>1. Nth(R, n) \in R /\ Place(R, Nth(R, n)) = n
    BY NthPlace
  <2>2. Place(Q, Nth(R, n)) = n /\ Nth(R, n) \in Q
    BY <1>5, <2>1 DEF Q
  <2> QED BY <1>3, <2>2, NthPlace
<1> QED BY <1>2, <1>3, <1>6, <1>7 DEF Q

\* The rows of a target can be counted by their cursors.
LEMMA VisibleRowset ==
    ASSUME TypeOK, IsFiniteSet(events), MaterialisedOnce, NEW t \in Targets
    PROVE  /\ Rowset(Visible(t))
           /\ \A r \in Visible(t) : r \in events /\ r.target = t
<1>1. Visible(t) \in SUBSET events
  BY DEF Visible
<1>2. IsFiniteSet(Visible(t))
  BY <1>1, FS_Subset
<1>3. \A r \in Visible(t) : r \in events /\ r.target = t /\ r.cursor \in Nat
  BY DEF Visible, TypeOK, Rows
<1> QED BY <1>2, <1>3 DEF Rowset, MaterialisedOnce

\* The log of a target names events that are in the table.
LEMMA LogOfRows ==
    ASSUME TypeOK, IsFiniteSet(events), MaterialisedOnce, NEW t \in Targets
    PROVE  /\ Cardinality(Visible(t)) \in Nat
           /\ DOMAIN LogOf(t) = 1 .. Cardinality(Visible(t))
           /\ LogOf(t) \in Seq(Events) /\ Len(LogOf(t)) = Cardinality(Visible(t))
           /\ \A n \in DOMAIN LogOf(t) :
                \E r \in events : r.id = LogOf(t)[n]
<1>1. Rowset(Visible(t)) /\ \A r \in Visible(t) : r \in events
  BY VisibleRowset
<1>2. Cardinality(Visible(t)) \in Nat
  BY <1>1, FS_CardinalityType DEF Rowset
<1>3. \A n \in 1 .. Cardinality(Visible(t)) : Nth(Visible(t), n) \in events
  BY <1>1, NthPlace
<1>4. \A n \in 1 .. Cardinality(Visible(t)) : Nth(Visible(t), n).id \in Events
  BY <1>3 DEF TypeOK, Rows
<1> QED BY <1>2, <1>3, <1>4 DEF LogOf

\* What an insert that is not refused does: row joins the rows of its target,
\* its ID is new and its cursor behind those of the others.
Joins(row) == /\ row \in Rows /\ ~Taken(row.id)
              /\ next[row.target] < row.cursor
              /\ events' = events \cup {row}
              /\ UNCHANGED after

\* What the counting of rows rests on.
Countable == TypeOK /\ IsFiniteSet(events) /\ CursorsBounded /\ MaterialisedOnce

\* The new row comes last, behind the client, and other targets see nothing.
LEMMA JoinedRows ==
    ASSUME Countable, NEW row, Joins(row)
    PROVE  /\ row.target \in Targets
           /\ Visible(row.target)' = Visible(row.target) \cup {row}
           /\ \A u \in Targets \ {row.target} : Visible(u)' = Visible(u)
           /\ Behind(row, Visible(row.target))
           /\ after[row.target] < row.cursor
<1>1. row.target \in Targets /\ row.cursor \in Nat /\ next[row.target] \in Nat
  BY DEF Joins, Rows, Countable, TypeOK
<1>2. \A r \in events : r.cursor \in Nat /\ r.cursor <= next[r.target] /\ r.id # row.id
  BY DEF Joins, Rows, Countable, TypeOK, CursorsBounded, Taken
<1>3. after[row.target] <= next[row.target] /\ after[row.target] \in Nat
  BY <1>1 DEF Countable, TypeOK, CursorsBounded
<1> QED BY <1>1, <1>2, <1>3 DEF Joins, Visible, Behind

\* A sequence that has one element more at its end.
LEMMA LongerByOne ==
    ASSUME NEW S, NEW s \in Seq(S), NEW e \in S, NEW r \in Seq(S),
           Len(r) = Len(s) + 1, r[Len(s) + 1] = e,
           \A n \in 1 .. Len(s) : r[n] = s[n]
    PROVE  r = Append(s, e)
<1>1. /\ Append(s, e) \in Seq(S) /\ Len(Append(s, e)) = Len(s) + 1
      /\ \A n \in 1 .. Len(s) : Append(s, e)[n] = s[n]
      /\ Append(s, e)[Len(s) + 1] = e /\ Len(s) \in Nat
  BY AppendProperties, LenProperties
<1>2. \A n \in 1 .. Len(r) : r[n] = Append(s, e)[n]
  BY <1>1
<1> QED BY <1>1, <1>2, SeqEqual

\* The IDs of some rows in the order of their cursors.
IdsOf(R) == [n \in 1 .. Cardinality(R) |-> Nth(R, n).id]

\* They are as many as the rows.
LEMMA IdsOfSeq ==
    ASSUME NEW R, Rowset(R), NEW S, \A r \in R : r.id \in S
    PROVE  /\ IdsOf(R) \in Seq(S) /\ Len(IdsOf(R)) = Cardinality(R)
           /\ Cardinality(R) \in Nat
<1>1. Cardinality(R) \in Nat
  BY FS_CardinalityType DEF Rowset
<1>2. \A n \in 1 .. Cardinality(R) : Nth(R, n).id \in S
  BY NthPlace
<1> QED BY <1>1, <1>2 DEF IdsOf

\* A row behind all others adds its ID at the end.
LEMMA IdsOfMore ==
    ASSUME NEW R, Rowset(R), NEW row, Behind(row, R),
           NEW S, \A r \in R \cup {row} : r.id \in S
    PROVE  IdsOf(R \cup {row}) = Append(IdsOf(R), row.id)
<1> DEFINE Q == R \cup {row}
           k == Cardinality(R)
<1>1. /\ Rowset(Q) /\ Cardinality(Q) = k + 1
      /\ Nth(Q, k + 1) = row
      /\ \A n \in 1 .. k : Nth(Q, n) = Nth(R, n)
  BY NthOfMore
<1>2. /\ IdsOf(R) \in Seq(S) /\ Len(IdsOf(R)) = k /\ k \in Nat
  BY IdsOfSeq
<1>3. \A r \in Q : r.id \in S
  OBVIOUS
<1> HIDE DEF Q
<1>4. IdsOf(Q) \in Seq(S) /\ Len(IdsOf(Q)) = k + 1
  BY <1>1, <1>3, IdsOfSeq
<1> HIDE DEF k
<1>5. IdsOf(Q) = [n \in 1 .. k + 1 |-> Nth(Q, n).id]
  BY <1>1 DEF IdsOf
<1>6. IdsOf(R) = [n \in 1 .. k |-> Nth(R, n).id]
  BY DEF IdsOf, k
<1>7. IdsOf(Q)[k + 1] = row.id
  BY <1>1, <1>2, <1>5
<1>8. \A n \in 1 .. k : IdsOf(Q)[n] = IdsOf(R)[n]
  BY <1>1, <1>2, <1>5, <1>6
<1>9. row.id \in S
  OBVIOUS
<1>10. IdsOf(Q) = Append(IdsOf(R), row.id)
  BY <1>2, <1>4, <1>7, <1>8, <1>9, LongerByOne
<1> QED BY <1>10 DEF Q

\* The insert appends the event to the log of its target.
LEMMA JoinRecords ==
    ASSUME Countable, NEW row, Joins(row)
    PROVE  Log!Record(row.id, row.target)
<1> DEFINE t == row.target
           R == Visible(t)
           e == row.id
<1>1. /\ t \in Targets /\ e \in Events
      /\ Visible(t)' = R \cup {row}
      /\ \A u \in Targets \ {t} : Visible(u)' = Visible(u)
      /\ Behind(row, R)
      /\ after[t] < row.cursor
  BY JoinedRows DEF Joins, Rows
<1>2. Rowset(R) /\ Cardinality(R) \in Nat
  BY <1>1, VisibleRowset, FS_CardinalityType DEF Rowset, Countable
<1>3. ~ Log!Logged(e)
  <2>1. \A u \in Targets : \A n \in DOMAIN LogOf(u) : LogOf(u)[n] # e
    BY LogOfRows DEF Countable, Joins, Taken
  <2> QED BY <2>1 DEF Log!Logged, LogView, Log!Range
<1>4. LogOf(t)' = Append(LogOf(t), e)
  <2>1. \A r \in R \cup {row} : r.id \in Events
    BY <1>1, VisibleRowset DEF Countable, TypeOK, Rows
  <2>2. LogOf(t) = IdsOf(R) /\ LogOf(t)' = IdsOf(R \cup {row})
    BY <1>1 DEF LogOf, IdsOf
  <2> QED BY <1>1, <1>2, <2>1, <2>2, IdsOfMore
<1>5. ASSUME NEW u \in Targets, u # t PROVE LogOf(u)' = LogOf(u)
  BY <1>1, <1>5 DEF LogOf
<1>6. LogView' = [LogView EXCEPT ![t] = Append(@, e)]
  <2> HIDE DEF t, e
  <2> QED BY <1>1, <1>4, <1>5 DEF LogView
<1>7. ASSUME NEW u \in Targets PROVE ReadOf(u)' = ReadOf(u)
  <2>1. after' = after
    BY DEF Joins
  <2>2. \A r \in R : r.cursor \in Nat
    BY <1>2 DEF Rowset
  <2>3. after[t] \in Nat
    BY <1>1 DEF Countable, TypeOK
  <2>4. {r \in Visible(u) : r.cursor <= after[u]}' = {r \in Visible(u) : r.cursor <= after[u]}
    BY <1>1, <2>1, <2>2, <2>3 DEF Behind
  <2> QED BY <2>4 DEF ReadOf
<1>8. ReadView' = ReadView
  BY <1>7 DEF ReadView
<1> QED BY <1>3, <1>6, <1>8 DEF Log!Record

\* A page moves the reader of the log forward.
LEMMA ReplayApplies ==
    ASSUME Countable, NEW t \in Targets, Replay(t)
    PROVE  Log!Apply(t)
<1>1. PICK last \in Visible(t) : last.cursor > after[t] /\ after' = [after EXCEPT ![t] = last.cursor]
  BY DEF Replay
<1>2. UNCHANGED events
  BY DEF Replay
<1>3. Rowset(Visible(t)) /\ IsFiniteSet(Visible(t))
  BY VisibleRowset DEF Rowset, Countable
<1>4. after[t] \in Nat /\ after'[t] = last.cursor /\ last.cursor \in Nat
  BY <1>1, <1>3 DEF Countable, TypeOK, Rowset
<1>5. \A u \in Targets : Visible(u)' = Visible(u)
  BY <1>2 DEF Visible
<1>6. LogView' = LogView
  BY <1>5 DEF LogView, LogOf
<1>7. ReadOf(t)' = Place(Visible(t), last)
  BY <1>4, <1>5 DEF ReadOf, Place
<1>8. Place(Visible(t), last) \in DOMAIN LogOf(t)
  BY <1>1, <1>3, PlaceCounts DEF LogOf
<1>9. Place(Visible(t), last) > ReadOf(t)
  <2> DEFINE before == {r \in Visible(t) : r.cursor <= after[t]}
             upto   == {r \in Visible(t) : r.cursor <= last.cursor}
  <2>1. before \in SUBSET upto /\ last \in upto /\ last \notin before
    BY <1>1, <1>3, <1>4 DEF Rowset
  <2>2. IsFiniteSet(upto)
    BY <1>3, FS_Subset
  <2> HIDE DEF before, upto
  <2>3. /\ Cardinality(before) \in Nat /\ Cardinality(upto) \in Nat
        /\ Cardinality(before) < Cardinality(upto)
    BY <2>1, <2>2, FS_Subset, FS_CardinalityType
  <2> QED BY <2>3 DEF before, upto, Place, ReadOf
<1>10. ASSUME NEW u \in Targets, u # t PROVE ReadOf(u)' = ReadOf(u)
  <2>1. after'[u] = after[u]
    BY <1>1, <1>10 DEF Countable, TypeOK
  <2> QED BY <1>5, <2>1 DEF ReadOf
<1>11. ReadView' = [ReadView EXCEPT ![t] = Place(Visible(t), last)]
  BY <1>7, <1>10 DEF ReadView
<1> QED BY <1>6, <1>8, <1>9, <1>11 DEF Log!Apply, LogView, ReadView

\* The state of the log that the tables hold.
LogVars == <<LogView, ReadView>>

\* Every step is a step of the log, or leaves it alone.
LEMMA LogStep ==
    ASSUME Countable, Allocated, [Next]_vars
    PROVE  [Log!LogNext]_LogVars
<1>1. ASSUME UNCHANGED <<events, after>> PROVE LogVars' = LogVars
  <2>1. \A t \in Targets : Visible(t)' = Visible(t)
    BY <1>1 DEF Visible
  <2> QED BY <1>1, <2>1 DEF LogVars, LogView, ReadView, LogOf, ReadOf
<1>2. ASSUME NEW a \in Actors, Insert(a) PROVE [Log!LogNext]_LogVars
  <2> DEFINE row == [id |-> tx[a].id, target |-> tx[a].target, cursor |-> tx[a].cursor]
  <2>1. UNCHANGED after /\ tx[a].at = "insert" /\ tx[a].target \in Targets
    BY <1>2, InsertEffect DEF Countable
  <2>2. CASE events' = events
    BY <1>1, <2>1, <2>2
  <2>3. CASE ~Taken(tx[a].id) /\ events' = events \cup {row}
    <3>1. tx[a].cursor = next[tx[a].target] + 1 /\ next[tx[a].target] \in Nat
      BY <2>1 DEF Allocated, Countable, TypeOK
    <3>2. tx[a].id \in Events
      BY <2>1 DEF Countable, TypeOK
    <3>3. Joins(row) /\ row.id \in Events /\ row.target \in Targets
      BY <2>1, <2>3, <3>1, <3>2 DEF Joins, Rows
    <3> HIDE DEF row
    <3>4. Log!Record(row.id, row.target)
      BY <3>3, JoinRecords
    <3> QED BY <3>3, <3>4 DEF Log!LogNext
  <2> QED BY <1>2, <2>2, <2>3, InsertEffect DEF Countable
<1>3. ASSUME NEW t \in Targets, Replay(t) PROVE [Log!LogNext]_LogVars
  BY <1>3, ReplayApplies DEF Log!LogNext
<1>4. ASSUME NEW a \in Actors, Allocate(a) PROVE [Log!LogNext]_LogVars
  BY <1>1, <1>4 DEF Allocate
<1> QED BY <1>1, <1>2, <1>3, <1>4, QuietStep DEF Countable

\* Empty tables are empty logs.
LEMMA LogStarts == Init => Log!LogInit
<1> SUFFICES ASSUME Init PROVE Log!LogInit
  OBVIOUS
<1>1. \A t \in Targets : Visible(t) = {}
  BY DEF Init, Visible
<1>2. Cardinality({}) = 0
  BY FS_EmptySet
<1>3. \A t \in Targets : LogOf(t) = <<>>
  <2> TAKE t \in Targets
  <2>1. LogOf(t) = [n \in 1 .. 0 |-> Nth({}, n).id]
    BY <1>1, <1>2 DEF LogOf
  <2>2. LogOf(t) \in Seq(Events) /\ Len(LogOf(t)) = 0
    BY <2>1
  <2> QED BY <2>2, EmptySeq
<1>4. \A t \in Targets : ReadOf(t) = 0
  BY <1>1, <1>2 DEF ReadOf
<1> QED BY <1>3, <1>4 DEF Log!LogInit, LogView, ReadView

\* The outbox and the delivery table implement the append-only log: an event
\* joins the log of one target once and last, whoever publishes it how often,
\* and a client only moves forward in it.
THEOREM OutboxKeepsTheLog == Spec => ImplementsEventLog
<1>1. Init => Log!LogInit
  BY LogStarts
<1>2. IInv /\ [Next]_vars => [Log!LogNext]_LogVars
  BY LogStep DEF IInv, Countable
<1> QED BY <1>1, <1>2, OutboxInvariant, PTL
        DEF Spec, ImplementsEventLog, Log!LogSpec, LogVars

-----------------------------------------------------------------------------
(* The compatibility endpoints. *)

\* Whoever accepted an envelope finds it stored, or acknowledged.
Recoverable(k) == Seen(k) \/ (k[2] /\ k[1] \in ackedIds)

\* What was answered, handed to the hub, or is about to be, is stored.
EnvelopesSound ==
    /\ \A k \in relayed \cup published : Recoverable(k)
    /\ \A h \in RelayHandlers : InRequest(h, "hub") => Recoverable(MessageKey(h))

\* An open insert is the database's, has its row, which nobody sees, and has it alone.
InsertsSound ==
    /\ IsFiniteSet(DOMAIN rows)
    /\ \A h \in RelayHandlers : InRequest(h, "commit") =>
          durable /\ MessageKey(h) \in DOMAIN rows /\ ~ rows[MessageKey(h)].seen
    /\ \A g, h \in RelayHandlers :
          InRequest(g, "commit") /\ InRequest(h, "commit") /\ g # h => MessageKey(g) # MessageKey(h)

ReaderSound ==
    ~ durable => \A k \in Mine : k[1] \in reader.got \/ StillAhead(reader.cursor, k)

\* A code that is handed out, or was consumed by the one request that still has to
\* add its device, made no device.
CodesSound ==
    /\ \A k \in DOMAIN codes : paired[k] = {}
    /\ \A h \in RelayHandlers : InRequest(h, "pair") =>
          relayReq[h].code \notin DOMAIN codes /\ paired[relayReq[h].code] = {}
    /\ \A g, h \in RelayHandlers :
          InRequest(g, "pair") /\ InRequest(h, "pair") /\ g # h => relayReq[g].code # relayReq[h].code
    /\ \A c \in RelayCodes : Cardinality(paired[c]) <= 1

RelayInv == RelayTypeOK /\ EnvelopesSound /\ InsertsSound /\ ReaderSound /\ CodesSound

Storing == {"has", "put", "commit", "hub"}

\* A request by what it is doing.
LEMMA RequestShape ==
    ASSUME NEW r \in RelayRequest
    PROVE  /\ r.op \in {"free", "pair", "account"} \cup Storing
           /\ r.op = "pair" => r.code \in RelayCodes /\ r.dev \in RelayDevices
           /\ r.op = "account" => r.id \in Envelopes
           /\ r.op \in Storing => /\ r.id \in Envelopes /\ r.bound \in BOOLEAN
                                  /\ <<r.id, r.bound>> \in Envelopes \X BOOLEAN
BY DEF RelayRequest, Storing

LEMMA RequestGoesOn ==
    ASSUME NEW r \in RelayRequest, r.op \in Storing, NEW op \in Storing
    PROVE  /\ [r EXCEPT !.op = op] \in RelayRequest
           /\ [r EXCEPT !.op = op].op = op
           /\ [r EXCEPT !.op = op].id = r.id /\ [r EXCEPT !.op = op].bound = r.bound
<1>1. r \in [op : Storing, id : Envelopes, bound : BOOLEAN]
  BY DEF RelayRequest, Storing
<1>2. /\ [r EXCEPT !.op = op] \in [op : Storing, id : Envelopes, bound : BOOLEAN]
      /\ [r EXCEPT !.op = op].op = op
      /\ [r EXCEPT !.op = op].id = r.id /\ [r EXCEPT !.op = op].bound = r.bound
  BY <1>1
<1> QED BY <1>2 DEF RelayRequest, Storing

LEMMA NoRequestIs == NoRequest \in RelayRequest /\ NoRequest.op = "free"
BY DEF NoRequest, RelayRequest

\* One request goes on.
LEMMA RequestSet ==
    ASSUME RelayTypeOK, NEW h \in RelayHandlers, NEW r \in RelayRequest, Continue(h, r)
    PROVE  /\ relayReq' \in [RelayHandlers -> RelayRequest] /\ relayReq'[h] = r
           /\ \A g \in RelayHandlers : g # h => relayReq'[g] = relayReq[g]
BY DEF RelayTypeOK, Continue

LEMMA RelayStarts == RelayInit => RelayInv
<1> SUFFICES ASSUME RelayInit PROVE RelayInv
  OBVIOUS
<1>1. DOMAIN << >> = {} /\ IsFiniteSet({}) /\ Cardinality({}) = 0
  BY FS_EmptySet
<1>2. /\ relayReq \in [RelayHandlers -> RelayRequest]
      /\ \A h \in RelayHandlers : relayReq[h].op = "free"
  BY NoRequestIs DEF RelayInit
<1>3. PICK S \in {{}, RelayDevices} : devices = [d \in S |-> "live"]
  BY DEF RelayInit
<1>4. DOMAIN devices = S /\ S \subseteq RelayDevices /\ \A d \in S : devices[d] = "live"
  BY <1>3
<1>5. devices \in [DOMAIN devices -> {"live", "revoked"}] /\ DOMAIN devices \subseteq RelayDevices
  BY <1>3, <1>4
<1>6. codes \in [DOMAIN codes -> {"open", "expired"}] /\ DOMAIN codes = {}
  BY <1>1 DEF RelayInit
<1>7. rows \in [DOMAIN rows -> RelayRow] /\ DOMAIN rows = {}
  BY <1>1 DEF RelayInit
<1>8. /\ lastCursor = 0 /\ posts = 0 /\ reader = [cursor |-> 0, got |-> {}]
      /\ published = {} /\ relayed = {} /\ ackedIds = {} /\ durable \in BOOLEAN
      /\ paired = [k \in RelayCodes |-> {}]
  BY DEF RelayInit
<1>9. RelayTypeOK
  BY <1>2, <1>5, <1>6, <1>7, <1>8, RelayAssumption DEF RelayTypeOK
<1>10. EnvelopesSound /\ InsertsSound /\ ReaderSound
  BY <1>1, <1>2, <1>7, <1>8 DEF EnvelopesSound, InsertsSound, ReaderSound, InRequest, Mine
<1>11. CodesSound
  BY <1>1, <1>2, <1>6, <1>8 DEF CodesSound, InRequest
<1> QED BY <1>9, <1>10, <1>11 DEF RelayInv

\* Pairing and reading do not touch the rows, nor requests that store an envelope.
LEMMA EnvelopesStay ==
    ASSUME RelayInv, UNCHANGED <<durable, rows, published, relayed, ackedIds>>,
           \A g \in RelayHandlers : relayReq'[g].op \in {"commit", "hub"} => relayReq'[g] = relayReq[g]
    PROVE  EnvelopesSound' /\ InsertsSound'
BY DEF RelayInv, EnvelopesSound, InsertsSound, InRequest, MessageKey, Recoverable, Seen

LEMMA ReaderStays ==
    ASSUME RelayInv, UNCHANGED <<durable, rows, reader>>
    PROVE  ReaderSound'
BY DEF RelayInv, ReaderSound, Mine, StillAhead

\* Storing and reading do not touch the codes, nor requests that pair.
LEMMA CodesStay ==
    ASSUME RelayInv, UNCHANGED <<codes, paired>>,
           \A g \in RelayHandlers : relayReq'[g].op = "pair" => relayReq'[g] = relayReq[g]
    PROVE  CodesSound'
BY DEF RelayInv, CodesSound, InRequest

LEMMA PostType ==
    ASSUME RelayTypeOK, NEW h \in RelayHandlers, Post(h)
    PROVE  posts' \in 0 .. MaxPosts /\ relayReq[h].op = "free"
BY RelayAssumption DEF RelayTypeOK, Post, InRequest

\* A function with a value set, or taken out.
LEMMA SetAt ==
    ASSUME NEW T, NEW f, f \in [DOMAIN f -> T], NEW k, NEW v \in T,
           NEW g, g = [j \in DOMAIN f \cup {k} |-> IF j = k THEN v ELSE f[j]]
    PROVE  /\ DOMAIN g = DOMAIN f \cup {k} /\ g \in [DOMAIN g -> T] /\ g[k] = v
           /\ \A j \in DOMAIN f : j # k => g[j] = f[j]
OBVIOUS

LEMMA WithoutIs ==
    ASSUME NEW T, NEW f, f \in [DOMAIN f -> T], NEW k
    PROVE  /\ DOMAIN Without(f, k) = DOMAIN f \ {k} /\ Without(f, k) \in [DOMAIN Without(f, k) -> T]
           /\ \A j \in DOMAIN f \ {k} : Without(f, k)[j] = f[j]
BY DEF Without

LEMMA PairKeeps ==
    ASSUME RelayInv, NEW h \in RelayHandlers, Pair(h)
    PROVE  RelayInv'
<1>1. PICK k \in RelayCodes :
         /\ paired[k] = {} /\ \A g \in RelayHandlers : InRequest(g, "pair") => relayReq[g].code # k
         /\ codes' = IF durable /\ k \in DOMAIN codes THEN codes
                     ELSE [j \in DOMAIN codes \cup {k} |-> IF j = k THEN "open" ELSE codes[j]]
         /\ Continue(h, NoRequest)
  BY DEF Pair
<1>2. /\ Post(h) /\ RelayTypeOK
      /\ UNCHANGED <<durable, devices, rows, lastCursor, published, reader, relayed, paired, ackedIds>>
  BY DEF Pair, RelayInv
<1>3. /\ relayReq' \in [RelayHandlers -> RelayRequest] /\ relayReq'[h] = NoRequest
      /\ \A g \in RelayHandlers : g # h => relayReq'[g] = relayReq[g]
  BY <1>1, <1>2, NoRequestIs, RequestSet
<1>4. DOMAIN codes' = DOMAIN codes \cup {k} /\ codes' \in [DOMAIN codes' -> {"open", "expired"}]
  <2>1. codes \in [DOMAIN codes -> {"open", "expired"}]
    BY <1>2 DEF RelayTypeOK
  <2>2. CASE durable /\ k \in DOMAIN codes
    <3>1. codes' = codes
      BY <1>1, <2>2
    <3> QED BY <2>1, <2>2, <3>1
  <2>3. CASE ~ (durable /\ k \in DOMAIN codes)
    <3>1. codes' = [j \in DOMAIN codes \cup {k} |-> IF j = k THEN "open" ELSE codes[j]]
      BY <1>1, <2>3
    <3> QED BY <2>1, <3>1, SetAt
  <2> QED BY <2>2, <2>3
<1>5. RelayTypeOK'
  BY <1>2, <1>3, <1>4, PostType DEF RelayTypeOK, RelayRow
<1>6. EnvelopesSound' /\ InsertsSound' /\ ReaderSound'
  BY <1>2, <1>3, NoRequestIs, EnvelopesStay, ReaderStays
<1>7. CodesSound'
  BY <1>1, <1>2, <1>3, <1>4, NoRequestIs DEF RelayInv, CodesSound, InRequest
<1> QED BY <1>5, <1>6, <1>7 DEF RelayInv

LEMMA CodeExpiresKeeps ==
    ASSUME RelayInv, NEW k \in RelayCodes, CodeExpires(k)
    PROVE  RelayInv'
<1>1. /\ k \in DOMAIN codes /\ codes' = [codes EXCEPT ![k] = "expired"]
      /\ UNCHANGED <<durable, devices, rows, lastCursor, published, relayReq, posts, reader,
                     relayed, paired, ackedIds>>
  BY DEF CodeExpires
<1>2. codes \in [DOMAIN codes -> {"open", "expired"}]
  BY DEF RelayInv, RelayTypeOK
<1>3. DOMAIN codes' = DOMAIN codes /\ codes' \in [DOMAIN codes' -> {"open", "expired"}]
  BY <1>1, <1>2
<1>4. RelayTypeOK'
  BY <1>1, <1>3 DEF RelayInv, RelayTypeOK, RelayRow
<1>5. EnvelopesSound' /\ InsertsSound' /\ ReaderSound'
  BY <1>1, EnvelopesStay, ReaderStays
<1>6. CodesSound'
  BY <1>1, <1>3 DEF RelayInv, CodesSound, InRequest
<1> QED BY <1>4, <1>5, <1>6 DEF RelayInv

LEMMA ConsumePairKeeps ==
    ASSUME RelayInv, NEW h \in RelayHandlers, ConsumePair(h)
    PROVE  RelayInv'
<1>1. PICK k \in DOMAIN codes, d \in RelayDevices \ DOMAIN devices :
         IF codes[k] = "open"
         THEN codes' = Without(codes, k) /\ Continue(h, [op |-> "pair", code |-> k, dev |-> d])
         ELSE codes' = (IF durable THEN codes ELSE Without(codes, k)) /\ Continue(h, NoRequest)
  BY DEF ConsumePair
<1>2. /\ Post(h) /\ RelayTypeOK /\ codes \in [DOMAIN codes -> {"open", "expired"}]
      /\ DOMAIN codes \subseteq RelayCodes
      /\ UNCHANGED <<durable, devices, rows, lastCursor, published, reader, relayed, paired, ackedIds>>
  BY DEF ConsumePair, RelayInv, RelayTypeOK
<1>3. PICK r \in RelayRequest :
         /\ Continue(h, r) /\ r.op \in {"free", "pair"}
         /\ r.op = "pair" => r.code = k /\ codes' = Without(codes, k)
  <2>1. CASE codes[k] = "open"
    <3>1. PICK r : r = [op |-> "pair", code |-> k, dev |-> d]
      OBVIOUS
    <3>2. r \in RelayRequest /\ r.op = "pair" /\ r.code = k
      BY <1>2, <3>1 DEF RelayRequest
    <3> QED BY <1>1, <2>1, <3>1, <3>2
  <2>2. CASE codes[k] # "open"
    BY <1>1, <2>2, NoRequestIs
  <2> QED BY <2>1, <2>2
<1>4. /\ relayReq' \in [RelayHandlers -> RelayRequest] /\ relayReq'[h] = r
      /\ \A g \in RelayHandlers : g # h => relayReq'[g] = relayReq[g]
  BY <1>2, <1>3, RequestSet
<1>5. /\ codes' \in {codes, Without(codes, k)} /\ DOMAIN codes' \subseteq DOMAIN codes
      /\ codes' \in [DOMAIN codes' -> {"open", "expired"}]
      /\ codes' = Without(codes, k) => k \notin DOMAIN codes'
  <2>1. PICK w : /\ w = Without(codes, k) /\ DOMAIN w = DOMAIN codes \ {k}
                 /\ w \in [DOMAIN w -> {"open", "expired"}]
    BY <1>2, WithoutIs
  <2>2. codes' \in {codes, w}
    BY <1>1, <2>1
  <2> QED BY <1>2, <2>1, <2>2
<1>6. RelayTypeOK'
  BY <1>2, <1>4, <1>5, PostType DEF RelayTypeOK, RelayRow
<1>7. EnvelopesSound' /\ InsertsSound' /\ ReaderSound'
  BY <1>2, <1>3, <1>4, EnvelopesStay, ReaderStays
<1>8. CodesSound'
  BY <1>2, <1>3, <1>4, <1>5 DEF RelayInv, CodesSound, InRequest
<1> QED BY <1>6, <1>7, <1>8 DEF RelayInv

LEMMA AddDeviceKeeps ==
    ASSUME RelayInv, NEW h \in RelayHandlers, AddDevice(h)
    PROVE  RelayInv'
<1>1. /\ relayReq[h].op = "pair" /\ Continue(h, NoRequest) /\ RelayTypeOK
      /\ UNCHANGED <<durable, codes, rows, lastCursor, published, posts, reader, relayed, ackedIds>>
  BY DEF AddDevice, InRequest, Reply, RelayInv
<1>2. relayReq[h] \in RelayRequest
  BY <1>1 DEF RelayTypeOK
<1>3. PICK c \in RelayCodes, d \in RelayDevices : c = relayReq[h].code /\ d = relayReq[h].dev
  BY <1>1, <1>2, RequestShape
<1>4. /\ relayReq' \in [RelayHandlers -> RelayRequest] /\ relayReq'[h] = NoRequest
      /\ \A g \in RelayHandlers : g # h => relayReq'[g] = relayReq[g]
  BY <1>1, NoRequestIs, RequestSet
<1>5. c \notin DOMAIN codes /\ paired[c] = {}
  BY <1>1, <1>3 DEF RelayInv, CodesSound, InRequest
<1>6. /\ DOMAIN devices' \subseteq RelayDevices /\ devices' \in [DOMAIN devices' -> {"live", "revoked"}]
  <2>1. devices \in [DOMAIN devices -> {"live", "revoked"}] /\ DOMAIN devices \subseteq RelayDevices
    BY <1>1 DEF RelayTypeOK
  <2>2. \/ devices' = devices
        \/ devices' = [e \in DOMAIN devices \cup {d} |-> IF e = d THEN "live" ELSE devices[e]]
    BY <1>3 DEF AddDevice
  <2> QED BY <1>3, <2>1, <2>2, SetAt
<1>7. /\ paired' \in [RelayCodes -> SUBSET RelayDevices] /\ Cardinality(paired'[c]) <= 1
      /\ \A b \in RelayCodes : b # c => paired'[b] = paired[b]
  <2>1. paired \in [RelayCodes -> SUBSET RelayDevices]
    BY <1>1 DEF RelayTypeOK
  <2>2. Cardinality({}) = 0 /\ Cardinality({d}) = 1
    BY FS_EmptySet, FS_Singleton
  <2>3. paired' = paired \/ paired' = [paired EXCEPT ![c] = {d}]
    BY <1>3, <1>5 DEF AddDevice
  <2> QED BY <1>5, <2>1, <2>2, <2>3
<1>8. RelayTypeOK'
  BY <1>1, <1>4, <1>6, <1>7 DEF RelayTypeOK, RelayRow
<1>9. EnvelopesSound' /\ InsertsSound' /\ ReaderSound'
  BY <1>1, <1>4, NoRequestIs, EnvelopesStay, ReaderStays
<1>10. CodesSound'
  <2>1. CodesSound /\ relayReq'[h].op = "free" /\ codes' = codes
    BY <1>1, <1>4, NoRequestIs DEF RelayInv
  <2>2. \A k \in DOMAIN codes : k # c /\ k \in RelayCodes
    BY <1>1, <1>5 DEF RelayTypeOK
  <2>3. ASSUME NEW g \in RelayHandlers, relayReq'[g].op = "pair"
        PROVE  /\ relayReq'[g] = relayReq[g] /\ relayReq[g].code \in RelayCodes
               /\ relayReq[g].code # c
    <3>1. g # h /\ relayReq'[g] = relayReq[g]
      BY <1>4, <2>1, <2>3
    <3>2. relayReq[g] \in RelayRequest
      BY <1>1 DEF RelayTypeOK
    <3> QED BY <1>1, <1>3, <2>1, <2>3, <3>1, <3>2, RequestShape DEF CodesSound, InRequest
  <2>4. \A k \in DOMAIN codes' : paired'[k] = {}
    BY <1>7, <2>1, <2>2 DEF CodesSound
  <2>5. \A g \in RelayHandlers : InRequest(g, "pair")' =>
          relayReq'[g].code \notin DOMAIN codes' /\ paired'[relayReq'[g].code] = {}
    BY <1>7, <2>1, <2>3 DEF CodesSound, InRequest
  <2>6. \A f, g \in RelayHandlers : InRequest(f, "pair")' /\ InRequest(g, "pair")' /\ f # g =>
          relayReq'[f].code # relayReq'[g].code
    BY <2>1, <2>3 DEF CodesSound, InRequest
  <2>7. \A b \in RelayCodes : Cardinality(paired'[b]) <= 1
    BY <1>7, <2>1 DEF CodesSound
  <2> QED BY <2>4, <2>5, <2>6, <2>7 DEF CodesSound
<1> QED BY <1>8, <1>9, <1>10 DEF RelayInv

LEMMA PublicationStartsKeeps ==
    ASSUME RelayInv, NEW h \in RelayHandlers,
           PublishAccount(h) \/ Revoke(h) \/ \E id \in Envelopes : PublishEnvelope(h, id)
    PROVE  RelayInv'
<1>1. /\ UNCHANGED <<durable, codes, rows, lastCursor, published, reader, relayed, paired, ackedIds>>
      /\ RelayTypeOK /\ relayReq[h].op \in {"free", "account"}
  BY DEF PublishEnvelope, Revoke, PublishAccount, RelayInv, Post, InRequest
<1>2. PICK r \in RelayRequest : Continue(h, r) /\ r.op \in {"free", "account", "has"}
  <2>1. ASSUME NEW id \in Envelopes, PublishEnvelope(h, id)
        PROVE  \E r \in RelayRequest : Continue(h, r) /\ r.op \in {"free", "account", "has"}
    <3>1. [op |-> "account", id |-> id] \in RelayRequest
      BY DEF RelayRequest
    <3> QED BY <2>1, <3>1 DEF PublishEnvelope
  <2>2. CASE Revoke(h)
    BY <2>2, NoRequestIs DEF Revoke, Reply
  <2>3. CASE PublishAccount(h)
    <3>1. relayReq[h] \in RelayRequest /\ relayReq[h].op = "account"
      BY <1>1, <2>3 DEF PublishAccount, InRequest, RelayTypeOK
    <3>2. relayReq[h].id \in Envelopes /\ LiveDevice(Desktop) \in BOOLEAN
      BY <3>1, RequestShape DEF LiveDevice
    <3>3. [op |-> "has", id |-> relayReq[h].id, bound |-> LiveDevice(Desktop)] \in RelayRequest
      BY <3>2 DEF RelayRequest
    <3> QED BY <2>3, <3>3, NoRequestIs DEF PublishAccount
  <2> QED BY <2>1, <2>2, <2>3
<1>3. /\ relayReq' \in [RelayHandlers -> RelayRequest] /\ relayReq'[h] = r
      /\ \A g \in RelayHandlers : g # h => relayReq'[g] = relayReq[g]
  BY <1>1, <1>2, RequestSet
<1>4. posts' \in 0 .. MaxPosts
  BY <1>1, PostType DEF PublishEnvelope, Revoke, PublishAccount, RelayTypeOK
<1>5. devices' \in [DOMAIN devices' -> {"live", "revoked"}] /\ DOMAIN devices' \subseteq RelayDevices
  BY <1>1 DEF PublishEnvelope, Revoke, PublishAccount, RelayTypeOK
<1>6. RelayTypeOK'
  BY <1>1, <1>3, <1>4, <1>5 DEF RelayTypeOK, RelayRow
<1>7. EnvelopesSound' /\ InsertsSound' /\ ReaderSound' /\ CodesSound'
  BY <1>1, <1>2, <1>3, EnvelopesStay, ReaderStays, CodesStay
<1> QED BY <1>6, <1>7 DEF RelayInv

LEMMA HasMessageKeeps ==
    ASSUME RelayInv, NEW h \in RelayHandlers, HasMessage(h)
    PROVE  RelayInv'
<1>1. /\ UNCHANGED <<durable, codes, devices, rows, lastCursor, published, posts, reader, paired, ackedIds>>
      /\ RelayTypeOK /\ relayReq[h].op = "has"
  BY DEF HasMessage, RelayInv, InRequest
<1>2. relayReq[h] \in RelayRequest /\ relayReq[h].op \in Storing /\ "put" \in Storing
  BY <1>1 DEF RelayTypeOK, Storing
<1>3. PICK r \in RelayRequest :
         /\ Continue(h, r) /\ r.op \in {"free", "put"}
         /\ relayed' \in {relayed, relayed \cup {MessageKey(h)}}
         /\ relayed' # relayed => Seen(MessageKey(h))
  <2>1. CASE Seen(MessageKey(h))
    BY <2>1, NoRequestIs DEF HasMessage, Reply
  <2>2. CASE ~ Seen(MessageKey(h))
    <3>1. PICK r : r = [relayReq[h] EXCEPT !.op = "put"]
      OBVIOUS
    <3>2. r \in RelayRequest /\ r.op = "put"
      BY <1>2, <3>1, RequestGoesOn
    <3> QED BY <2>2, <3>1, <3>2 DEF HasMessage
  <2> QED BY <2>1, <2>2
<1>4. /\ relayReq' \in [RelayHandlers -> RelayRequest] /\ relayReq'[h] = r
      /\ \A g \in RelayHandlers : g # h => relayReq'[g] = relayReq[g]
  BY <1>1, <1>3, RequestSet
<1>5. MessageKey(h) \in Envelopes \X BOOLEAN
  BY <1>2, RequestShape DEF MessageKey
<1>6. RelayTypeOK'
  BY <1>1, <1>3, <1>4, <1>5 DEF RelayTypeOK, RelayRow
<1>7. relayed' # relayed => Recoverable(MessageKey(h))
  BY <1>3 DEF Recoverable
<1>8. \A k : Recoverable(k)' <=> Recoverable(k)
  BY <1>1 DEF Recoverable, Seen
<1>9. EnvelopesSound'
  BY <1>1, <1>3, <1>4, <1>7, <1>8 DEF RelayInv, EnvelopesSound, InRequest, MessageKey
<1>10. InsertsSound'
  BY <1>1, <1>3, <1>4 DEF RelayInv, InsertsSound, InRequest, MessageKey
<1>11. ReaderSound' /\ CodesSound'
  BY <1>1, <1>3, <1>4, ReaderStays, CodesStay
<1> QED BY <1>6, <1>9, <1>10, <1>11 DEF RelayInv

\* What the insert meets: the row of its key, or in the database of another account's.
Same(h) == {k \in DOMAIN rows : k = MessageKey(h) \/ (durable /\ k[1] = MessageKey(h)[1])}

\* A row that is there stays as it is.
LEMMA PutFindsKeeps ==
    ASSUME RelayInv, NEW h \in RelayHandlers, InRequest(h, "put"),
           Same(h) # {}, \A k \in Same(h) : rows[k].seen,
           IF MessageKey(h) \in Same(h) THEN Continue(h, [relayReq[h] EXCEPT !.op = "hub"]) ELSE Reply(h),
           UNCHANGED <<durable, codes, devices, rows, lastCursor, published, posts, reader, relayed,
                       paired, ackedIds>>
    PROVE  RelayInv'
<1>1. RelayTypeOK /\ relayReq[h] \in RelayRequest /\ relayReq[h].op \in Storing /\ "hub" \in Storing
  BY DEF RelayInv, RelayTypeOK, InRequest, Storing
<1>2. PICK r \in RelayRequest :
         /\ Continue(h, r) /\ r.op \in {"free", "hub"}
         /\ r.op = "hub" => <<r.id, r.bound>> = MessageKey(h) /\ Seen(MessageKey(h))
  <2>1. CASE MessageKey(h) \in Same(h)
    <3>1. PICK r : r = [relayReq[h] EXCEPT !.op = "hub"]
      OBVIOUS
    <3>2. r \in RelayRequest /\ r.op = "hub" /\ <<r.id, r.bound>> = MessageKey(h)
      BY <1>1, <3>1, RequestGoesOn DEF MessageKey
    <3> QED BY <2>1, <3>1, <3>2 DEF Seen, Same
  <2>2. CASE MessageKey(h) \notin Same(h)
    BY <2>2, NoRequestIs DEF Reply
  <2> QED BY <2>1, <2>2
<1>3. /\ relayReq' \in [RelayHandlers -> RelayRequest] /\ relayReq'[h] = r
      /\ \A g \in RelayHandlers : g # h => relayReq'[g] = relayReq[g]
  BY <1>1, <1>2, RequestSet
<1>4. RelayTypeOK'
  BY <1>1, <1>3 DEF RelayTypeOK, RelayRow
<1>5. r.op = "hub" => MessageKey(h)' = MessageKey(h) /\ Recoverable(MessageKey(h))
  BY <1>2, <1>3 DEF Recoverable, MessageKey
<1>6. \A k : Recoverable(k)' <=> Recoverable(k)
  BY DEF Recoverable, Seen
<1>7. \A g \in RelayHandlers : g # h => MessageKey(g)' = MessageKey(g)
  BY <1>3 DEF MessageKey
<1>8. EnvelopesSound'
  BY <1>2, <1>3, <1>5, <1>6, <1>7 DEF RelayInv, EnvelopesSound, InRequest
<1>9. InsertsSound'
  BY <1>2, <1>3 DEF RelayInv, InsertsSound, InRequest, MessageKey
<1>10. ReaderSound' /\ CodesSound'
  BY <1>2, <1>3, ReaderStays, CodesStay
<1> QED BY <1>4, <1>8, <1>9, <1>10 DEF RelayInv

\* A new row takes the next cursor.
LEMMA PutInsertsKeeps ==
    ASSUME RelayInv, NEW h \in RelayHandlers, InRequest(h, "put"), Same(h) = {},
           lastCursor' = lastCursor + 1,
           rows' = [k \in DOMAIN rows \cup {MessageKey(h)} |->
                      IF k # MessageKey(h) THEN rows[k]
                      ELSE [cursor |-> lastCursor + 1, seen |-> ~ durable, acked |-> FALSE]],
           Continue(h, [relayReq[h] EXCEPT !.op = IF durable THEN "commit" ELSE "hub"]),
           UNCHANGED <<durable, codes, devices, published, posts, reader, relayed, paired, ackedIds>>
    PROVE  RelayInv'
<1>1. /\ RelayTypeOK /\ relayReq[h] \in RelayRequest /\ relayReq[h].op = "put"
      /\ relayReq[h].op \in Storing /\ {"hub", "commit"} \subseteq Storing
  BY DEF RelayInv, RelayTypeOK, InRequest, Storing
<1>2. PICK op \in {"commit", "hub"} : op = IF durable THEN "commit" ELSE "hub"
  OBVIOUS
<1>3. PICK r : r = [relayReq[h] EXCEPT !.op = op]
  OBVIOUS
<1>4. /\ r \in RelayRequest /\ r.op = op /\ r.id = relayReq[h].id /\ r.bound = relayReq[h].bound
  BY <1>1, <1>3, RequestGoesOn
<1>5. /\ relayReq' \in [RelayHandlers -> RelayRequest] /\ relayReq'[h] = r
      /\ \A g \in RelayHandlers : g # h => relayReq'[g] = relayReq[g]
  BY <1>1, <1>2, <1>3, <1>4, RequestSet
<1>6. PICK key \in Envelopes \X BOOLEAN :
         key = MessageKey(h) /\ key = <<relayReq[h].id, relayReq[h].bound>>
  BY <1>1, RequestShape DEF MessageKey
<1>7. key \notin DOMAIN rows
  BY <1>6 DEF Same
<1>8. PICK row : row = [cursor |-> lastCursor + 1, seen |-> ~ durable, acked |-> FALSE]
  OBVIOUS
<1>9. /\ DOMAIN rows' = DOMAIN rows \cup {key} /\ rows'[key] = row
      /\ \A k \in DOMAIN rows : rows'[k] = rows[k]
      /\ rows' = [k \in DOMAIN rows' |-> rows'[k]]
  BY <1>6, <1>7, <1>8
<1>10. lastCursor \in Nat /\ \A k \in DOMAIN rows : rows[k] \in RelayRow
  BY <1>1 DEF RelayTypeOK
<1>11. row \in RelayRow'
  BY <1>1, <1>8, <1>10 DEF RelayRow, RelayTypeOK
<1>12. \A k \in DOMAIN rows : rows[k] \in RelayRow'
  BY <1>10 DEF RelayRow
<1>13. rows' \in [DOMAIN rows' -> RelayRow'] /\ DOMAIN rows' \subseteq Envelopes \X BOOLEAN
  BY <1>1, <1>9, <1>11, <1>12 DEF RelayTypeOK
<1>14. lastCursor' \in Nat /\ reader' \in [cursor : 0 .. lastCursor', got : SUBSET Envelopes]
  BY <1>1, <1>10 DEF RelayTypeOK
<1>15. RelayTypeOK'
  BY <1>1, <1>5, <1>13, <1>14 DEF RelayTypeOK
<1>16. \A k \in DOMAIN rows : k \in DOMAIN rows' /\ rows'[k] = rows[k]
  BY <1>9
<1>17. \A k : Recoverable(k) => Recoverable(k)'
  BY <1>16 DEF Recoverable, Seen
<1>18. MessageKey(h)' = key /\ (op = "hub" => Recoverable(key)')
  <2>1. op = "hub" => row.seen
    BY <1>2, <1>8
  <2>2. MessageKey(h)' = key
    BY <1>4, <1>5, <1>6 DEF MessageKey
  <2>3. op = "hub" => key \in DOMAIN rows' /\ rows'[key].seen
    BY <1>9, <2>1
  <2> QED BY <2>2, <2>3 DEF Recoverable, Seen
<1>19. EnvelopesSound'
  <2>1. \A g \in RelayHandlers : g # h => MessageKey(g)' = MessageKey(g)
    BY <1>5 DEF MessageKey
  <2> QED BY <1>4, <1>5, <1>17, <1>18, <2>1 DEF RelayInv, EnvelopesSound, InRequest
<1>20. InsertsSound'
  <2>1. IsFiniteSet(DOMAIN rows')
    BY <1>9, FS_AddElement DEF RelayInv, InsertsSound
  <2>2. MessageKey(h)' = key
    BY <1>4, <1>5, <1>6 DEF MessageKey
  <2>3. \A g \in RelayHandlers : g # h => MessageKey(g)' = MessageKey(g)
    BY <1>5 DEF MessageKey
  <2>4. r.op = "commit" => durable /\ key \in DOMAIN rows' /\ ~ rows'[key].seen
    <3>1. r.op = "commit" => durable
      BY <1>2, <1>4
    <3>2. rows'[key].seen = ~ durable
      BY <1>8, <1>9
    <3>3. durable => ~ rows'[key].seen
      BY <3>2
    <3> QED BY <1>9, <3>1, <3>3
  <2>5. ASSUME NEW g \in RelayHandlers, g # h, InRequest(g, "commit")
        PROVE  /\ durable /\ MessageKey(g) \in DOMAIN rows' /\ ~ rows'[MessageKey(g)].seen
               /\ MessageKey(g) # key
    BY <1>7, <1>16, <2>5 DEF RelayInv, InsertsSound
  <2>6. ASSUME NEW g \in RelayHandlers, InRequest(g, "commit")'
        PROVE  durable' /\ MessageKey(g)' \in DOMAIN rows' /\ ~ rows'[MessageKey(g)'].seen
    <3>1. CASE g = h
      BY <1>5, <2>2, <2>4, <2>6, <3>1 DEF InRequest
    <3>2. CASE g # h
      BY <1>5, <2>3, <2>5, <2>6, <3>2 DEF InRequest
    <3> QED BY <3>1, <3>2
  <2>7. ASSUME NEW f \in RelayHandlers, NEW g \in RelayHandlers, f # g,
               InRequest(f, "commit")', InRequest(g, "commit")'
        PROVE  MessageKey(f)' # MessageKey(g)'
    <3>1. CASE f = h
      BY <1>5, <2>2, <2>3, <2>5, <2>7, <3>1 DEF InRequest
    <3>2. CASE g = h
      BY <1>5, <2>2, <2>3, <2>5, <2>7, <3>2 DEF InRequest
    <3>3. CASE f # h /\ g # h
      BY <1>5, <2>3, <2>7, <3>3 DEF InRequest, RelayInv, InsertsSound
    <3> QED BY <3>1, <3>2, <3>3
  <2> QED BY <2>1, <2>6, <2>7 DEF InsertsSound
<1>21. ReaderSound'
  <2> SUFFICES ASSUME ~ durable, NEW k \in Mine'
               PROVE  k[1] \in reader.got \/ StillAhead(reader.cursor, k)'
    BY DEF ReaderSound
  <2>1. CASE k = key
    <3>1. rows'[k].cursor = lastCursor + 1 /\ reader.cursor \in 0 .. lastCursor
      BY <1>1, <1>8, <1>9, <2>1 DEF RelayTypeOK
    <3> QED BY <1>10, <3>1 DEF StillAhead
  <2>2. CASE k # key
    <3>1. k \in Mine /\ rows'[k] = rows[k]
      BY <1>9, <2>2 DEF Mine
    <3> QED BY <3>1 DEF RelayInv, ReaderSound, StillAhead
  <2> QED BY <2>1, <2>2
<1>22. CodesSound'
  BY <1>4, <1>5, CodesStay
<1> QED BY <1>15, <1>19, <1>20, <1>21, <1>22 DEF RelayInv

LEMMA PutMessageKeeps ==
    ASSUME RelayInv, NEW h \in RelayHandlers, PutMessage(h)
    PROVE  RelayInv'
<1>1. /\ InRequest(h, "put")
      /\ UNCHANGED <<durable, codes, devices, published, posts, reader, relayed, paired, ackedIds>>
      /\ \/ /\ Same(h) = {} /\ lastCursor' = lastCursor + 1
            /\ rows' = [k \in DOMAIN rows \cup {MessageKey(h)} |->
                          IF k # MessageKey(h) THEN rows[k]
                          ELSE [cursor |-> lastCursor + 1, seen |-> ~ durable, acked |-> FALSE]]
            /\ Continue(h, [relayReq[h] EXCEPT !.op = IF durable THEN "commit" ELSE "hub"])
         \/ /\ Same(h) # {} /\ \A k \in Same(h) : rows[k].seen
            /\ IF MessageKey(h) \in Same(h) THEN Continue(h, [relayReq[h] EXCEPT !.op = "hub"])
               ELSE Reply(h)
            /\ UNCHANGED <<rows, lastCursor>>
  BY DEF PutMessage, Same
<1> QED BY <1>1, PutInsertsKeeps, PutFindsKeeps

LEMMA CommitMessageKeeps ==
    ASSUME RelayInv, NEW h \in RelayHandlers, CommitMessage(h)
    PROVE  RelayInv'
<1>1. /\ RelayTypeOK /\ relayReq[h] \in RelayRequest /\ relayReq[h].op = "commit"
      /\ relayReq[h].op \in Storing /\ "hub" \in Storing
      /\ UNCHANGED <<durable, codes, devices, lastCursor, published, posts, reader, relayed,
                     paired, ackedIds>>
  BY DEF CommitMessage, RelayInv, RelayTypeOK, InRequest, Storing
<1>2. PICK key : key = MessageKey(h)
  OBVIOUS
<1>3. durable /\ key \in DOMAIN rows /\ ~ rows[key].seen
  BY <1>1, <1>2 DEF RelayInv, InsertsSound, InRequest
<1>4. rows \in [DOMAIN rows -> RelayRow] /\ DOMAIN rows \subseteq Envelopes \X BOOLEAN
  BY <1>1 DEF RelayTypeOK
<1>5. key = <<relayReq[h].id, relayReq[h].bound>>
  BY <1>2 DEF MessageKey
<1>6. PICK r \in RelayRequest :
         /\ Continue(h, r) /\ r.op \in {"free", "hub"}
         /\ DOMAIN rows' \subseteq DOMAIN rows /\ rows' \in [DOMAIN rows' -> RelayRow]
         /\ \A k \in DOMAIN rows \ {key} : k \in DOMAIN rows' /\ rows'[k] = rows[k]
         /\ r.op = "hub" => <<r.id, r.bound>> = key /\ key \in DOMAIN rows' /\ rows'[key].seen
  <2>1. CASE rows' = [rows EXCEPT ![MessageKey(h)].seen = TRUE] /\ Continue(h, [relayReq[h] EXCEPT !.op = "hub"])
    <3>1. PICK row : row = [rows[key] EXCEPT !.seen = TRUE]
      OBVIOUS
    <3>2. row \in RelayRow /\ row.seen
      BY <1>3, <1>4, <3>1 DEF RelayRow
    <3>3. rows' = [rows EXCEPT ![key] = row]
      BY <1>2, <2>1, <3>1
    <3>4. /\ DOMAIN rows' = DOMAIN rows /\ rows' \in [DOMAIN rows' -> RelayRow] /\ rows'[key] = row
          /\ \A k \in DOMAIN rows \ {key} : rows'[k] = rows[k]
      BY <1>3, <1>4, <3>2, <3>3
    <3>5. PICK r : r = [relayReq[h] EXCEPT !.op = "hub"]
      OBVIOUS
    <3>6. r \in RelayRequest /\ r.op = "hub" /\ <<r.id, r.bound>> = key
      BY <1>1, <1>5, <3>5, RequestGoesOn
    <3> QED BY <1>3, <2>1, <3>2, <3>4, <3>5, <3>6
  <2>2. CASE rows' = Without(rows, MessageKey(h)) /\ Reply(h)
    <3>1. PICK w : /\ w = Without(rows, key) /\ DOMAIN w = DOMAIN rows \ {key}
                   /\ w \in [DOMAIN w -> RelayRow] /\ \A k \in DOMAIN rows \ {key} : w[k] = rows[k]
      BY <1>4, WithoutIs
    <3>2. rows' = w
      BY <1>2, <2>2, <3>1
    <3> QED BY <2>2, <3>1, <3>2, NoRequestIs DEF Reply
  <2> QED BY <2>1, <2>2 DEF CommitMessage
<1>7. /\ relayReq' \in [RelayHandlers -> RelayRequest] /\ relayReq'[h] = r
      /\ \A g \in RelayHandlers : g # h => relayReq'[g] = relayReq[g]
  BY <1>1, <1>6, RequestSet
<1>8. RelayTypeOK'
  BY <1>1, <1>4, <1>6, <1>7 DEF RelayTypeOK, RelayRow
<1>9. \A k : Recoverable(k) => Recoverable(k)'
  <2>1. \A k : Seen(k) => Seen(k)'
    BY <1>3, <1>6 DEF Seen
  <2> QED BY <1>1, <2>1 DEF Recoverable
<1>10. r.op = "hub" => MessageKey(h)' = key /\ Recoverable(key)'
  BY <1>6, <1>7 DEF Recoverable, Seen, MessageKey
<1>11. EnvelopesSound'
  <2>1. \A g \in RelayHandlers : g # h => MessageKey(g)' = MessageKey(g)
    BY <1>7 DEF MessageKey
  <2> QED BY <1>1, <1>6, <1>7, <1>9, <1>10, <2>1 DEF RelayInv, EnvelopesSound, InRequest
<1>12. InsertsSound'
  <2>1. IsFiniteSet(DOMAIN rows')
    BY <1>6, FS_Subset DEF RelayInv, InsertsSound
  <2>2. ASSUME NEW g \in RelayHandlers, InRequest(g, "commit")'
        PROVE  /\ InRequest(g, "commit") /\ MessageKey(g)' = MessageKey(g)
               /\ durable' /\ MessageKey(g) \in DOMAIN rows' /\ ~ rows'[MessageKey(g)].seen
    <3>1. g # h /\ relayReq'[g] = relayReq[g]
      BY <1>6, <1>7, <2>2 DEF InRequest
    <3>2. InRequest(g, "commit") /\ MessageKey(g)' = MessageKey(g)
      BY <2>2, <3>1 DEF InRequest, MessageKey
    <3>3. MessageKey(g) \in DOMAIN rows \ {key} /\ ~ rows[MessageKey(g)].seen
      BY <1>1, <1>2, <3>1, <3>2 DEF RelayInv, InsertsSound, InRequest
    <3> QED BY <1>1, <1>3, <1>6, <3>2, <3>3
  <2> QED BY <2>1, <2>2 DEF RelayInv, InsertsSound
<1>13. ReaderSound' /\ CodesSound'
  BY <1>1, <1>3, <1>6, <1>7, CodesStay DEF ReaderSound
<1> QED BY <1>8, <1>11, <1>12, <1>13 DEF RelayInv

LEMMA PublishHubKeeps ==
    ASSUME RelayInv, NEW h \in RelayHandlers, PublishHub(h)
    PROVE  RelayInv'
<1>1. /\ RelayTypeOK /\ relayReq[h] \in RelayRequest /\ relayReq[h].op = "hub"
      /\ Continue(h, NoRequest) /\ relayed' = relayed \cup {MessageKey(h)}
      /\ published' \in {published, published \cup {MessageKey(h)}}
      /\ UNCHANGED <<durable, codes, devices, rows, lastCursor, posts, reader, paired, ackedIds>>
  BY DEF PublishHub, RelayInv, RelayTypeOK, InRequest, Reply
<1>2. MessageKey(h) \in Envelopes \X BOOLEAN /\ Recoverable(MessageKey(h))
  BY <1>1, RequestShape DEF RelayInv, EnvelopesSound, InRequest, Storing, MessageKey
<1>3. /\ relayReq' \in [RelayHandlers -> RelayRequest] /\ relayReq'[h] = NoRequest
      /\ \A g \in RelayHandlers : g # h => relayReq'[g] = relayReq[g]
  BY <1>1, NoRequestIs, RequestSet
<1>4. RelayTypeOK'
  BY <1>1, <1>2, <1>3 DEF RelayTypeOK, RelayRow
<1>5. \A k : Recoverable(k)' <=> Recoverable(k)
  BY <1>1 DEF Recoverable, Seen
<1>6. EnvelopesSound'
  BY <1>1, <1>2, <1>3, <1>5, NoRequestIs DEF RelayInv, EnvelopesSound, InRequest, MessageKey
<1>7. InsertsSound'
  BY <1>1, <1>3, NoRequestIs DEF RelayInv, InsertsSound, InRequest, MessageKey
<1>8. ReaderSound' /\ CodesSound'
  BY <1>1, <1>3, NoRequestIs, ReaderStays, CodesStay
<1> QED BY <1>4, <1>6, <1>7, <1>8 DEF RelayInv

LEMMA AckKeepsRelay ==
    ASSUME RelayInv, NEW h \in RelayHandlers, Ack(h)
    PROVE  RelayInv'
<1>1. PICK key \in Mine :
         /\ rows' = IF durable THEN [rows EXCEPT ![key].acked = TRUE] ELSE Without(rows, key)
         /\ ackedIds' = ackedIds \cup {key[1]}
  BY DEF Ack
<1>2. /\ RelayTypeOK /\ Post(h) /\ Continue(h, NoRequest) /\ relayReq[h].op = "free"
      /\ UNCHANGED <<durable, codes, devices, lastCursor, published, reader, relayed, paired>>
  BY DEF Ack, RelayInv, Reply, Post, InRequest
<1>3. /\ rows \in [DOMAIN rows -> RelayRow] /\ DOMAIN rows \subseteq Envelopes \X BOOLEAN
      /\ key \in DOMAIN rows /\ rows[key].seen /\ key[1] \in Envelopes
  BY <1>2 DEF RelayTypeOK, Mine
<1>4. /\ relayReq' \in [RelayHandlers -> RelayRequest] /\ relayReq'[h] = NoRequest
      /\ \A g \in RelayHandlers : g # h => relayReq'[g] = relayReq[g]
  BY <1>2, NoRequestIs, RequestSet
<1>5. /\ DOMAIN rows' \subseteq DOMAIN rows /\ rows' \in [DOMAIN rows' -> RelayRow]
      /\ \A k \in DOMAIN rows \ {key} : k \in DOMAIN rows' /\ rows'[k] = rows[k]
      /\ durable => key \in DOMAIN rows' /\ rows'[key].seen
      /\ key \in DOMAIN rows' => rows'[key].acked
  <2>1. CASE durable
    <3>1. PICK row : row = [rows[key] EXCEPT !.acked = TRUE]
      OBVIOUS
    <3>2. row \in RelayRow /\ row.seen /\ row.acked
      BY <1>3, <3>1 DEF RelayRow
    <3>3. rows' = [rows EXCEPT ![key] = row]
      BY <1>1, <2>1, <3>1
    <3> QED BY <1>3, <3>2, <3>3
  <2>2. CASE ~ durable
    <3>1. rows \in [DOMAIN rows -> RelayRow]
      BY <1>3
    <3>2. /\ DOMAIN Without(rows, key) = DOMAIN rows \ {key}
          /\ Without(rows, key) \in [DOMAIN Without(rows, key) -> RelayRow]
          /\ \A k \in DOMAIN rows \ {key} : Without(rows, key)[k] = rows[k]
      BY <3>1, WithoutIs
    <3>3. rows' = Without(rows, key)
      BY <1>1, <2>2
    <3>4. /\ DOMAIN rows' = DOMAIN rows \ {key} /\ rows' \in [DOMAIN rows' -> RelayRow]
          /\ \A k \in DOMAIN rows \ {key} : rows'[k] = rows[k]
      BY <3>2, <3>3
    <3> QED BY <2>2, <3>4
  <2> QED BY <2>1, <2>2
<1>6. RelayTypeOK'
  BY <1>1, <1>2, <1>3, <1>4, <1>5, PostType DEF RelayTypeOK, RelayRow
<1>7. \A k : Recoverable(k) => Recoverable(k)'
  <2> SUFFICES ASSUME NEW k, Recoverable(k) PROVE Recoverable(k)'
    OBVIOUS
  <2>1. CASE k[2] /\ k[1] \in ackedIds
    BY <1>1, <2>1 DEF Recoverable
  <2>2. CASE Seen(k) /\ k # key
    BY <1>5, <2>2 DEF Recoverable, Seen
  <2>3. CASE k = key
    <3>1. key[2] /\ key[1] \in ackedIds'
      BY <1>1 DEF Mine
    <3> QED BY <2>3, <3>1 DEF Recoverable
  <2> QED BY <2>1, <2>2, <2>3 DEF Recoverable
<1>8. EnvelopesSound'
  BY <1>2, <1>4, <1>7, NoRequestIs DEF RelayInv, EnvelopesSound, InRequest, MessageKey
<1>9. InsertsSound'
  <2>1. IsFiniteSet(DOMAIN rows')
    BY <1>5, FS_Subset DEF RelayInv, InsertsSound
  <2>2. ASSUME NEW g \in RelayHandlers, InRequest(g, "commit")'
        PROVE  /\ InRequest(g, "commit") /\ MessageKey(g)' = MessageKey(g)
               /\ durable' /\ MessageKey(g) \in DOMAIN rows' /\ ~ rows'[MessageKey(g)].seen
    <3>1. g # h /\ relayReq'[g] = relayReq[g]
      BY <1>4, <2>2, NoRequestIs DEF InRequest
    <3>2. InRequest(g, "commit") /\ MessageKey(g)' = MessageKey(g)
      BY <2>2, <3>1 DEF InRequest, MessageKey
    <3>3. durable /\ MessageKey(g) \in DOMAIN rows \ {key} /\ ~ rows[MessageKey(g)].seen
      BY <1>3, <3>2 DEF RelayInv, InsertsSound
    <3> QED BY <1>2, <1>5, <3>2, <3>3
  <2> QED BY <2>1, <2>2 DEF RelayInv, InsertsSound
<1>10. ReaderSound'
  <2> SUFFICES ASSUME ~ durable, NEW k \in Mine'
               PROVE  k[1] \in reader.got \/ StillAhead(reader.cursor, k)'
    BY <1>2 DEF ReaderSound
  <2>1. k # key /\ k \in DOMAIN rows
    BY <1>5 DEF Mine
  <2>2. k \in Mine /\ rows'[k] = rows[k]
    BY <1>5, <2>1 DEF Mine
  <2>3. k[1] \in reader.got \/ rows[k].cursor > reader.cursor
    BY <2>2 DEF RelayInv, ReaderSound, StillAhead
  <2> QED BY <1>2, <2>2, <2>3 DEF StillAhead
<1>11. CodesSound'
  BY <1>2, <1>4, NoRequestIs, CodesStay
<1> QED BY <1>6, <1>8, <1>9, <1>10, <1>11 DEF RelayInv

\* Of some rows the smallest are before the others.
LEMMA SmallestFirst ==
    ASSUME RelayTypeOK, IsFiniteSet(DOMAIN rows), NEW S \in SUBSET DOMAIN rows, NEW n \in Nat
    PROVE  /\ Smallest(S, n) \subseteq S
           /\ \A j \in Smallest(S, n), k \in S \ Smallest(S, n) : rows[j].cursor < rows[k].cursor
<1> DEFINE B(k) == {j \in S : rows[j].cursor < rows[k].cursor}
<1>1. \A k \in S : rows[k].cursor \in Nat
  BY DEF RelayTypeOK, RelayRow
<1>2. ASSUME NEW j \in Smallest(S, n), NEW k \in S \ Smallest(S, n)
      PROVE  rows[j].cursor < rows[k].cursor
  <2>1. j \in S /\ Cardinality(B(j)) < n /\ ~ (Cardinality(B(k)) < n)
    BY DEF Smallest
  <2>2. \A x \in S : IsFiniteSet(B(x)) /\ Cardinality(B(x)) \in Nat
    BY FS_Subset, FS_CardinalityType
  <2> SUFFICES ASSUME ~ (rows[j].cursor < rows[k].cursor) PROVE FALSE
    OBVIOUS
  <2>3. \A i \in S : rows[i].cursor < rows[k].cursor => rows[i].cursor < rows[j].cursor
    BY <1>1, <2>1
  <2>4. B(k) \subseteq B(j)
    BY <2>3
  <2>5. Cardinality(B(k)) <= Cardinality(B(j))
    BY <2>1, <2>2, <2>4, FS_Subset
  <2>6. PICK m \in Nat, l \in Nat : m = Cardinality(B(j)) /\ l = Cardinality(B(k))
    BY <2>1, <2>2
  <2>7. l <= m /\ m < n /\ ~ (l < n)
    BY <2>1, <2>5, <2>6
  <2> QED BY <2>7
<1>3. Smallest(S, n) \subseteq S
  BY DEF Smallest
<1> QED BY <1>2, <1>3

\* A page leaves nothing behind its cursor: what it does not hold is beyond it.
LEMMA PageIs ==
    ASSUME RelayTypeOK, IsFiniteSet(DOMAIN rows), NEW from \in 0 .. lastCursor
    PROVE  /\ PageOf(from).rows \subseteq Mine
           /\ PageOf(from).cursor \in 0 .. lastCursor
           /\ \A k \in Mine : rows[k].cursor > from =>
                 k \in PageOf(from).rows \/ rows[k].cursor > PageOf(from).cursor
<1>1. PICK S : S = {k \in Mine : rows[k].cursor > from}
  OBVIOUS
<1>2. PICK F : F = Smallest(S, SyncPage + 1)
  OBVIOUS
<1>3. PICK P : P = Smallest(F, SyncPage)
  OBVIOUS
<1>4. PICK T : T = {from} \cup {rows[k].cursor : k \in P}
  OBVIOUS
<1>5. PageOf(from).rows = P /\ PageOf(from).cursor = Max(T)
  BY <1>1, <1>2, <1>3, <1>4 DEF PageOf, ListMessages
<1>6. /\ S \subseteq DOMAIN rows /\ SyncPage \in Nat /\ SyncPage + 1 \in Nat
      /\ lastCursor \in Nat /\ \A k \in DOMAIN rows : rows[k].cursor \in 1 .. lastCursor
  BY <1>1, RelayAssumption DEF Mine, RelayTypeOK, RelayRow
<1>7. F \subseteq S /\ \A j \in F, k \in S \ F : rows[j].cursor < rows[k].cursor
  BY <1>2, <1>6, SmallestFirst
<1>8. P \subseteq F /\ \A j \in P, k \in F \ P : rows[j].cursor < rows[k].cursor
  BY <1>3, <1>6, <1>7, SmallestFirst
<1>9. T \in SUBSET Nat /\ T # {} /\ \A x \in T : x <= lastCursor
  BY <1>4, <1>6, <1>7, <1>8
<1>10. \E x \in T : \A y \in T : x >= y
  <2>1. PICK x \in T : \A y \in T : y <= x
    BY <1>6, <1>9, HasMaximum
  <2> QED BY <1>9, <2>1
<1>11. Max(T) \in T /\ \A y \in T : Max(T) >= y
  BY <1>10 DEF Max
<1>12. Max(T) \in 0 .. lastCursor
  <2>1. PICK m : m = Max(T)
    OBVIOUS
  <2>2. m \in Nat /\ m <= lastCursor
    BY <1>9, <1>11, <2>1
  <2> QED BY <1>6, <2>1, <2>2
<1>13. ASSUME NEW k \in S, k \notin P PROVE rows[k].cursor > Max(T)
  <2>1. rows[k].cursor > from
    BY <1>1
  <2>2. \A j \in P : rows[j].cursor < rows[k].cursor
    BY <1>7, <1>8, <1>13
  <2>3. \A y \in T : y < rows[k].cursor
    BY <1>4, <1>6, <2>1, <2>2
  <2> QED BY <1>6, <1>9, <1>11, <2>3
<1>14. P \subseteq Mine
  BY <1>1, <1>7, <1>8
<1> QED BY <1>1, <1>5, <1>12, <1>13, <1>14

LEMMA WriteSyncKeeps ==
    ASSUME RelayInv, NEW h \in RelayHandlers, WriteSync(h)
    PROVE  RelayInv'
<1>1. PICK p : p = PageOf(reader.cursor)
  OBVIOUS
<1>2. /\ RelayTypeOK /\ Post(h) /\ Continue(h, NoRequest)
      /\ reader' = [cursor |-> p.cursor, got |-> reader.got \cup {k[1] : k \in p.rows}]
      /\ UNCHANGED <<durable, codes, devices, rows, lastCursor, published, relayed, paired, ackedIds>>
  BY <1>1 DEF WriteSync, RelayInv, Reply
<1>3. IsFiniteSet(DOMAIN rows) /\ reader \in [cursor : 0 .. lastCursor, got : SUBSET Envelopes]
  BY <1>2 DEF RelayInv, InsertsSound, RelayTypeOK
<1>4. /\ p.rows \subseteq Mine /\ p.cursor \in 0 .. lastCursor
      /\ \A k \in Mine : rows[k].cursor > reader.cursor => k \in p.rows \/ rows[k].cursor > p.cursor
  BY <1>1, <1>2, <1>3, PageIs
<1>5. \A k \in Mine : k[1] \in Envelopes
  BY <1>2 DEF Mine, RelayTypeOK
<1>6. /\ relayReq' \in [RelayHandlers -> RelayRequest] /\ relayReq'[h] = NoRequest
      /\ \A g \in RelayHandlers : g # h => relayReq'[g] = relayReq[g]
  BY <1>2, NoRequestIs, RequestSet
<1>7. reader' \in [cursor : 0 .. lastCursor, got : SUBSET Envelopes]
  BY <1>2, <1>3, <1>4, <1>5
<1>8. RelayTypeOK'
  BY <1>2, <1>6, <1>7, PostType DEF RelayTypeOK, RelayRow
<1>9. EnvelopesSound' /\ InsertsSound' /\ CodesSound'
  BY <1>2, <1>6, NoRequestIs, EnvelopesStay, CodesStay
<1>10. ReaderSound'
  <2> SUFFICES ASSUME ~ durable, NEW k \in Mine
               PROVE  k[1] \in reader'.got \/ rows[k].cursor > reader'.cursor
    BY <1>2 DEF ReaderSound, Mine, StillAhead
  <2>1. k[1] \in reader.got \/ rows[k].cursor > reader.cursor
    BY DEF RelayInv, ReaderSound, StillAhead
  <2>2. k \in p.rows => k[1] \in reader'.got
    BY <1>2
  <2>3. k[1] \in reader.got => k[1] \in reader'.got
    BY <1>2
  <2>4. reader'.cursor = p.cursor
    BY <1>2
  <2> QED BY <1>4, <2>1, <2>2, <2>3, <2>4
<1> QED BY <1>8, <1>9, <1>10 DEF RelayInv

LEMMA RelayCrashKeeps ==
    ASSUME RelayInv, RelayCrash
    PROVE  RelayInv'
<1>1. /\ RelayTypeOK /\ relayReq' = [h \in RelayHandlers |-> NoRequest] /\ published' = {}
      /\ UNCHANGED <<durable, posts>>
  BY DEF RelayCrash, RelayInv
<1>2. /\ relayReq' \in [RelayHandlers -> RelayRequest]
      /\ \A h \in RelayHandlers : relayReq'[h].op = "free"
  BY <1>1, NoRequestIs
<1>3. ASSUME durable PROVE RelayInv'
  <2>1. /\ rows' = [i \in {j \in DOMAIN rows : rows[j].seen} |-> rows[i]]
        /\ UNCHANGED <<codes, devices, relayed, ackedIds, lastCursor, reader, paired>>
    BY <1>3 DEF RelayCrash
  <2>2. rows \in [DOMAIN rows -> RelayRow] /\ DOMAIN rows \subseteq Envelopes \X BOOLEAN
    BY <1>1 DEF RelayTypeOK
  <2>3. /\ DOMAIN rows' = {j \in DOMAIN rows : rows[j].seen}
        /\ rows' \in [DOMAIN rows' -> RelayRow] /\ \A k \in DOMAIN rows' : rows'[k] = rows[k]
    BY <2>1, <2>2
  <2>4. RelayTypeOK'
    BY <1>1, <1>2, <2>1, <2>2, <2>3 DEF RelayTypeOK, RelayRow
  <2>5. \A k : Recoverable(k) => Recoverable(k)'
    <3>1. \A k : Seen(k) => Seen(k)'
      BY <2>3 DEF Seen
    <3> QED BY <1>1, <2>1, <3>1 DEF Recoverable
  <2>6. EnvelopesSound'
    BY <1>1, <1>2, <2>1, <2>5 DEF RelayInv, EnvelopesSound, InRequest
  <2>7. IsFiniteSet(DOMAIN rows')
    BY <2>3, FS_Subset DEF RelayInv, InsertsSound
  <2>8. InsertsSound' /\ ReaderSound'
    BY <1>1, <1>2, <1>3, <2>7 DEF InsertsSound, ReaderSound, InRequest
  <2>9. CodesSound'
    BY <1>2, <2>1, CodesStay
  <2> QED BY <2>4, <2>6, <2>8, <2>9 DEF RelayInv
<1>4. ASSUME ~ durable PROVE RelayInv'
  <2>1. /\ rows' = << >> /\ codes' = << >> /\ devices' = << >>
        /\ relayed' = {} /\ ackedIds' = {} /\ lastCursor' = 0
        /\ reader' = [cursor |-> 0, got |-> {}]
        /\ paired' = [k \in RelayCodes |-> {}]
    BY <1>4 DEF RelayCrash
  <2>2. DOMAIN << >> = {} /\ IsFiniteSet({}) /\ Cardinality({}) = 0
    BY FS_EmptySet
  <2>3. /\ DOMAIN rows' = {} /\ DOMAIN codes' = {} /\ DOMAIN devices' = {}
        /\ rows' \in [DOMAIN rows' -> RelayRow'] /\ codes' \in [DOMAIN codes' -> {"open", "expired"}]
        /\ devices' \in [DOMAIN devices' -> {"live", "revoked"}]
    BY <2>1, <2>2
  <2>4. RelayTypeOK'
    BY <1>1, <1>2, <2>1, <2>3 DEF RelayTypeOK
  <2>5. EnvelopesSound' /\ InsertsSound' /\ ReaderSound'
    BY <1>1, <1>2, <2>1, <2>2, <2>3 DEF EnvelopesSound, InsertsSound, ReaderSound, InRequest, Mine
  <2>6. CodesSound'
    BY <1>2, <2>1, <2>2, <2>3 DEF CodesSound, InRequest
  <2> QED BY <2>4, <2>5, <2>6 DEF RelayInv
<1> QED BY <1>3, <1>4

LEMMA RelayStepKeeps == RelayInv /\ [RelayNext]_relayVars => RelayInv'
<1> SUFFICES ASSUME RelayInv, [RelayNext]_relayVars PROVE RelayInv'
  OBVIOUS
<1>1. CASE UNCHANGED relayVars
  BY <1>1 DEF relayVars, RelayInv, RelayTypeOK, RelayRow, EnvelopesSound, InsertsSound, ReaderSound,
              CodesSound, Recoverable, Seen, Mine, StillAhead, InRequest, MessageKey
<1>2. CASE RelayCrash
  BY <1>2, RelayCrashKeeps
<1>3. ASSUME NEW k \in RelayCodes, CodeExpires(k) PROVE RelayInv'
  BY <1>3, CodeExpiresKeeps
<1>4. ASSUME NEW h \in RelayHandlers, Pair(h) \/ ConsumePair(h) \/ AddDevice(h) PROVE RelayInv'
  BY <1>4, PairKeeps, ConsumePairKeeps, AddDeviceKeeps
<1>5. ASSUME NEW h \in RelayHandlers,
             HasMessage(h) \/ PutMessage(h) \/ CommitMessage(h) \/ PublishHub(h)
      PROVE  RelayInv'
  BY <1>5, HasMessageKeeps, PutMessageKeeps, CommitMessageKeeps, PublishHubKeeps
<1>6. ASSUME NEW h \in RelayHandlers, Ack(h) \/ WriteSync(h) PROVE RelayInv'
  BY <1>6, AckKeepsRelay, WriteSyncKeeps
<1>7. ASSUME NEW h \in RelayHandlers,
             PublishAccount(h) \/ Revoke(h) \/ \E id \in Envelopes : PublishEnvelope(h, id)
      PROVE  RelayInv'
  BY <1>7, PublicationStartsKeeps
<1> QED BY <1>1, <1>2, <1>3, <1>4, <1>5, <1>6, <1>7 DEF RelayNext

LEMMA RelayInvariant == RelaySpec => []RelayInv
BY RelayStarts, RelayStepKeeps, PTL DEF RelaySpec

\* A row is marked by the acknowledgement that was confirmed.
MarksSound == \A k \in DOMAIN rows : rows[k].acked => k[1] \in ackedIds

LEMMA MarksStay == RelayInv /\ MarksSound /\ [RelayNext]_relayVars => MarksSound'
<1> SUFFICES ASSUME RelayInv, MarksSound, [RelayNext]_relayVars PROVE MarksSound'
  OBVIOUS
<1>1. RelayTypeOK /\ rows \in [DOMAIN rows -> RelayRow]
  BY DEF RelayInv, RelayTypeOK
<1>2. CASE UNCHANGED <<rows, ackedIds>>
  BY <1>2 DEF MarksSound
<1>3. ASSUME NEW h \in RelayHandlers, PutMessage(h) PROVE MarksSound'
  <2>1. PICK key : key = MessageKey(h)
    OBVIOUS
  <2>2. PICK row : row = [cursor |-> lastCursor + 1, seen |-> ~ durable, acked |-> FALSE]
    OBVIOUS
  <2>3. /\ ackedIds' = ackedIds
        /\ rows' = rows \/ rows' = [k \in DOMAIN rows \cup {key} |-> IF k # key THEN rows[k] ELSE row]
    BY <1>3, <2>1, <2>2 DEF PutMessage
  <2>4. ~ row.acked
    BY <2>2
  <2> QED BY <2>3, <2>4 DEF MarksSound
<1>4. ASSUME NEW h \in RelayHandlers, CommitMessage(h) PROVE MarksSound'
  <2>1. PICK key : key = MessageKey(h)
    OBVIOUS
  <2>2. ackedIds' = ackedIds /\ key \in DOMAIN rows /\ rows[key] \in RelayRow
    BY <1>1, <1>4, <2>1 DEF CommitMessage, RelayInv, InsertsSound
  <2>3. CASE rows' = Without(rows, key)
    BY <2>2, <2>3 DEF MarksSound, Without
  <2>4. CASE rows' = [rows EXCEPT ![key].seen = TRUE]
    <3>1. PICK row : row = [rows[key] EXCEPT !.seen = TRUE]
      OBVIOUS
    <3>2. row.acked = rows[key].acked
      BY <2>2, <3>1 DEF RelayRow
    <3>3. rows' = [rows EXCEPT ![key] = row]
      BY <2>4, <3>1
    <3>4. /\ DOMAIN rows' = DOMAIN rows
          /\ \A k \in DOMAIN rows : rows'[k].acked = rows[k].acked
      BY <1>1, <2>2, <3>2, <3>3
    <3> QED BY <2>2, <3>4 DEF MarksSound
  <2> QED BY <1>4, <2>1, <2>3, <2>4 DEF CommitMessage
<1>5. ASSUME NEW h \in RelayHandlers, Ack(h) PROVE MarksSound'
  <2>1. PICK key \in Mine :
           /\ rows' = IF durable THEN [rows EXCEPT ![key].acked = TRUE] ELSE Without(rows, key)
           /\ ackedIds' = ackedIds \cup {key[1]}
    BY <1>5 DEF Ack
  <2>2. CASE rows' = Without(rows, key)
    BY <2>1, <2>2 DEF MarksSound, Without
  <2>3. CASE rows' = [rows EXCEPT ![key].acked = TRUE]
    <3>1. PICK row : row = [rows[key] EXCEPT !.acked = TRUE]
      OBVIOUS
    <3>2. rows' = [rows EXCEPT ![key] = row]
      BY <2>3, <3>1
    <3>3. DOMAIN rows' = DOMAIN rows /\ \A k \in DOMAIN rows : k # key => rows'[k] = rows[k]
      BY <1>1, <3>2
    <3> QED BY <2>1, <3>3 DEF MarksSound
  <2> QED BY <2>1, <2>2, <2>3
<1>6. CASE RelayCrash
  <2>1. CASE durable
    <3>1. /\ rows' = [k \in {j \in DOMAIN rows : rows[j].seen} |-> rows[k]]
          /\ ackedIds' = ackedIds
      BY <1>6, <2>1 DEF RelayCrash
    <3> QED BY <3>1 DEF MarksSound
  <2>2. CASE ~ durable
    <3>1. rows' = << >>
      BY <1>6, <2>2 DEF RelayCrash
    <3>2. DOMAIN rows' = {}
      BY <3>1
    <3> QED BY <3>2 DEF MarksSound
  <2> QED BY <2>1, <2>2
<1>7. ASSUME NEW k \in RelayCodes, CodeExpires(k) PROVE MarksSound'
  BY <1>2, <1>7 DEF CodeExpires
<1>8. ASSUME NEW h \in RelayHandlers,
             \/ Pair(h) \/ ConsumePair(h) \/ AddDevice(h) \/ PublishAccount(h) \/ HasMessage(h)
             \/ PublishHub(h) \/ WriteSync(h) \/ Revoke(h)
             \/ \E id \in Envelopes : PublishEnvelope(h, id)
      PROVE  MarksSound'
  BY <1>2, <1>8 DEF Pair, ConsumePair, AddDevice, PublishAccount, HasMessage, PublishHub, WriteSync,
                    Revoke, PublishEnvelope
<1> QED BY <1>2, <1>3, <1>4, <1>5, <1>6, <1>7, <1>8 DEF RelayNext, relayVars

\* However publications, acknowledgements, pairings, revocations and restarts
\* interleave, an envelope that was answered as accepted in the account of the
\* devices, or that the hub was handed there, is listed by the phone's
\* synchronisation until the phone acknowledges it; paging never leaves a message
\* of the memory store behind its cursor; and a code pairs at most one device.
THEOREM AcceptedStaysRecoverable == RelaySpec => []AcceptedIsRecoverable
<1>1. RelayInit => MarksSound
  <2> SUFFICES ASSUME RelayInit PROVE MarksSound
    OBVIOUS
  <2>1. rows = << >>
    BY DEF RelayInit
  <2>2. DOMAIN rows = {}
    BY <2>1
  <2> QED BY <2>2 DEF MarksSound
<1>2. RelaySpec => []MarksSound
  BY <1>1, MarksStay, RelayInvariant, PTL DEF RelaySpec
<1>3. RelayInv /\ MarksSound => AcceptedIsRecoverable
  <2> SUFFICES ASSUME RelayInv, MarksSound PROVE AcceptedIsRecoverable
    OBVIOUS
  <2>1. ASSUME NEW k \in relayed \cup published
        PROVE  IF k[2] THEN k \in Mine \/ k[1] \in ackedIds ELSE Seen(k)
    <3>1. Recoverable(k)
      BY DEF RelayInv, EnvelopesSound
    <3> QED BY <3>1 DEF Recoverable, Seen, Mine, MarksSound
  <2> QED BY <2>1 DEF RelayInv, ReaderSound, CodesSound, AcceptedIsRecoverable
<1> QED BY <1>2, <1>3, RelayInvariant, PTL
=============================================================================
