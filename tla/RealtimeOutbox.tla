--------------------------- MODULE RealtimeOutbox ---------------------------
(***************************************************************************)
(* The transactional outbox and the durable delivery log of relay-server:  *)
(* conversations/transactional_outbox.go, realtime/outbox.go, its worker   *)
(* and PostgresDeliveryRepository.Publish and Replay.                      *)
(*                                                                         *)
(* A domain transaction commits an intent.  Dispatchers in several         *)
(* processes lease intents and materialise each as a row of                *)
(* delivery_events under a cursor allocated per target; the legacy         *)
(* endpoint publishes rows without an outbox.  Clients page through the    *)
(* rows of their target by cursor.                                         *)
(*                                                                         *)
(* A publishing transaction is three steps: the idempotency lookup, the    *)
(* cursor allocation that locks the target's counter row, and the insert   *)
(* that commits.  The random claim token of a row is represented by the    *)
(* dispatcher it was given to: a dispatcher forgets its claims before it   *)
(* takes new ones, so the two compare alike.  available_at is "due" or not.*)
(* The module implements EventLog.                                         *)
(***************************************************************************)
EXTENDS Naturals, FiniteSets, FiniteSetsExt

CONSTANTS Intents,      \* outbox row IDs
          Direct,       \* event IDs the legacy endpoint publishes
          Targets,      \* (account, device) pairs
          Target,       \* the target each intent is addressed to
          Dispatchers,  \* outbox workers, one per process
          Handlers,     \* requests of the legacy publish endpoint
          Nobody,       \* no claim, no lock, no event
          BatchSize,    \* OutboxWorker.batchSize
          PageSize,     \* the limit of a Replay page
          MaxFaults     \* bound: crashes, failed statements, leases that end early

Events == Intents \cup Direct
Actors == Dispatchers \cup Handlers

ASSUME OutboxAssumption ==
    /\ IsFiniteSet(Intents) /\ Targets # {}
    /\ Target \in [Intents -> Targets]
    /\ Nobody \notin Actors \cup Events
    /\ Dispatchers \cap Handlers = {}
    /\ BatchSize \in Nat \ {0} /\ PageSize \in Nat \ {0} /\ MaxFaults \in Nat

VARIABLES outbox,   \* realtime_outbox: status, claim token, due
          created,  \* created_at order of the outbox rows, 0 = no row
          events,   \* delivery_events: committed rows
          next,     \* device_delivery_cursors.next_cursor, committed
          lock,     \* who holds the row lock of a target's counter
          batch,    \* rows a dispatcher claimed and has not dealt with
          tx,       \* the publication each actor is busy with
          after,    \* the cursor each target's client has persisted
          applied,  \* the rows each target's client has applied
          faults    \* faults so far

vars == <<outbox, created, events, next, lock, batch, tx, after, applied, faults>>

Statuses == {"absent", "pending", "processing", "failed", "published"}
Intent   == [status : Statuses, token : Dispatchers \cup {Nobody}, due : BOOLEAN]
Rows     == [id : Events, target : Targets, cursor : Nat]
Idle     == [at |-> "idle", id |-> Nobody, target |-> CHOOSE t \in Targets : TRUE,
             cursor |-> 0]
Steps    == {"idle", "lookup", "allocate", "insert", "complete", "fail"}
Work     == [at : Steps, id : Events \cup {Nobody}, target : Targets, cursor : Nat]

Init ==
    /\ outbox = [i \in Intents |-> [status |-> "absent", token |-> Nobody, due |-> FALSE]]
    /\ created = [i \in Intents |-> 0]
    /\ events = {}
    /\ next = [t \in Targets |-> 0]
    /\ lock = [t \in Targets |-> Nobody]
    /\ batch = [d \in Dispatchers |-> {}]
    /\ tx = [a \in Actors |-> Idle]
    /\ after = [t \in Targets |-> 0]
    /\ applied = [t \in Targets |-> {}]
    /\ faults = 0

Fault == faults < MaxFaults /\ faults' = faults + 1

-----------------------------------------------------------------------------
(* Domain transactions: PutMessageWithEvent, CreateRunWithEvent, ... *)

\* The message or run and its intent commit together; an ID that is there
\* already leaves the first intent as it is.
Write(i) ==
    /\ outbox[i].status = "absent"
    /\ outbox' = [outbox EXCEPT ![i] = [@ EXCEPT !.status = "pending", !.due = TRUE]]
    /\ created' = [created EXCEPT ![i] =
                     1 + Cardinality({k \in Intents : created[k] # 0})]
    /\ UNCHANGED <<events, next, lock, batch, tx, after, applied, faults>>

\* d is still busy with the claim it has of i.
Works(d, i) == outbox[i].token = d /\ (i \in batch[d] \/ tx[d].id = i)

\* available_at passes: a retry delay is over, or a lease.  A lease is minutes
\* and a batch is short: one that ends while its holder works is a fault.
BecomesDue(i) ==
    /\ ~outbox[i].due
    /\ \/ outbox[i].status = "failed" /\ UNCHANGED faults
       \/ /\ outbox[i].status = "processing"
          /\ IF \E d \in Dispatchers : Works(d, i) THEN Fault ELSE UNCHANGED faults
    /\ outbox' = [outbox EXCEPT ![i] = [@ EXCEPT !.due = TRUE]]
    /\ UNCHANGED <<created, events, next, lock, batch, tx, after, applied>>

-----------------------------------------------------------------------------
(* OutboxDispatcher.Dispatch *)

ReadyUnlessProcessing(i) ==
    outbox[i].due /\ outbox[i].status \in {"pending", "failed"}

Ready(i) == outbox[i].due /\ outbox[i].status \in {"pending", "processing", "failed"}

\* The oldest due rows, in one transaction; RETURNING gives them in any order.
ClaimOutbox(d) ==
    /\ tx[d].at = "idle"
    /\ batch[d] = {}
    /\ \E S \in SUBSET Intents :
         LET ready == {i \in Intents : Ready(i)}
         IN  /\ S # {} /\ S \subseteq ready
             /\ Cardinality(S) = Min({BatchSize, Cardinality(ready)})
             /\ \A i \in S, k \in ready : created[k] < created[i] => k \in S
             /\ batch' = [batch EXCEPT ![d] = S]
             /\ outbox' = [i \in Intents |->
                  IF i \in S
                  THEN [status |-> "processing", token |-> d, due |-> FALSE]
                  ELSE outbox[i]]
    /\ UNCHANGED <<created, events, next, lock, tx, after, applied, faults>>

Begin(a, e, t) ==
    tx' = [tx EXCEPT ![a] = [at |-> "lookup", id |-> e, target |-> t, cursor |-> 0]]

NextRow(d) ==
    /\ tx[d].at = "idle"
    /\ \E i \in batch[d] :
         /\ Begin(d, i, Target[i])
         /\ batch' = [batch EXCEPT ![d] = @ \ {i}]
    /\ UNCHANGED <<outbox, created, events, next, lock, after, applied, faults>>

\* The legacy endpoint: any event ID of its own, to any target.
LegacyPublish(h) ==
    /\ tx[h].at = "idle"
    /\ \E e \in Direct, t \in Targets : Begin(h, e, t)
    /\ UNCHANGED <<outbox, created, events, next, lock, batch, after, applied, faults>>

-----------------------------------------------------------------------------
(* PostgresDeliveryRepository.Publish *)

Goto(a, step) == tx' = [tx EXCEPT ![a].at = step]

\* A dispatcher goes on with its outbox row, a request is answered.
Published(a) == IF a \in Dispatchers THEN Goto(a, "complete")
                ELSE tx' = [tx EXCEPT ![a] = Idle]
RefusedIgnored(a) == Published(a)
Refused(a)   == IF a \in Dispatchers THEN Goto(a, "fail")
                ELSE tx' = [tx EXCEPT ![a] = Idle]

NeverTaken(e) == FALSE
Taken(e)      == \E r \in events : r.id = e
TakenBy(e, t) == \E r \in events : r.id = e /\ r.target = t

Lookup(a) ==
    /\ tx[a].at = "lookup"
    /\ IF TakenBy(tx[a].id, tx[a].target) THEN Published(a) ELSE Goto(a, "allocate")
    /\ UNCHANGED <<outbox, created, events, next, lock, batch, after, applied, faults>>

CounterShared(t) == TRUE

CounterFree(t) == lock[t] = Nobody

\* next_cursor + 1, visible to others once the transaction commits.
Allocate(a) ==
    /\ tx[a].at = "allocate"
    /\ LET t == tx[a].target
       IN  /\ CounterFree(t)
           /\ lock' = [lock EXCEPT ![t] = a]
           /\ tx' = [tx EXCEPT ![a] = [@ EXCEPT !.at = "insert", !.cursor = next[t] + 1]]
    /\ UNCHANGED <<outbox, created, events, next, batch, after, applied, faults>>

Unlock(a) == lock' = [t \in Targets |-> IF lock[t] = a THEN Nobody ELSE lock[t]]

\* ON CONFLICT(id) DO NOTHING: the event is inserted; or it was there for the
\* same target and the cursor is spent for nothing; or it belongs to another
\* target and the transaction rolls back.
Insert(a) ==
    /\ tx[a].at = "insert"
    /\ LET e == tx[a].id
           t == tx[a].target
           n == tx[a].cursor
       IN  \/ /\ ~Taken(e)
              /\ events' = events \cup {[id |-> e, target |-> t, cursor |-> n]}
              /\ next' = [next EXCEPT ![t] = n]
              /\ Published(a)
           \/ /\ TakenBy(e, t)
              /\ next' = [next EXCEPT ![t] = n]
              /\ Published(a)
              /\ UNCHANGED events
           \/ /\ Taken(e) /\ ~TakenBy(e, t)
              /\ Refused(a)
              /\ UNCHANGED <<events, next>>
    /\ Unlock(a)
    /\ UNCHANGED <<outbox, created, batch, after, applied, faults>>

\* A statement of the transaction fails and it rolls back.
PublishFails(a) ==
    /\ tx[a].at \in {"lookup", "allocate", "insert"}
    /\ Fault
    /\ Unlock(a)
    /\ Refused(a)
    /\ UNCHANGED <<outbox, created, events, next, batch, after, applied>>

-----------------------------------------------------------------------------
(* CompleteOutbox and FailOutbox *)

HoldsAny(d, i) == outbox[i].status # "absent"

Holds(d, i) == outbox[i].status = "processing" /\ outbox[i].token = d

\* A lost lease is not an error: the row is somebody else's now.
CompleteOutbox(d) ==
    /\ tx[d].at = "complete"
    /\ outbox' = IF Holds(d, tx[d].id)
                 THEN [outbox EXCEPT ![tx[d].id] =
                         [@ EXCEPT !.status = "published", !.token = Nobody]]
                 ELSE outbox
    /\ tx' = [tx EXCEPT ![d] = Idle]
    /\ UNCHANGED <<created, events, next, lock, batch, after, applied, faults>>

\* Any other error of CompleteOutbox gives up the rest of the batch.
CompleteFails(d) ==
    /\ tx[d].at = "complete"
    /\ Fault
    /\ tx' = [tx EXCEPT ![d] = Idle]
    /\ batch' = [batch EXCEPT ![d] = {}]
    /\ UNCHANGED <<outbox, created, events, next, lock, after, applied>>

\* An error of FailOutbox itself is ignored.
FailOutbox(d) ==
    /\ tx[d].at = "fail"
    /\ \/ /\ outbox' = IF Holds(d, tx[d].id)
                       THEN [outbox EXCEPT ![tx[d].id] =
                               [status |-> "failed", token |-> Nobody, due |-> FALSE]]
                       ELSE outbox
          /\ UNCHANGED faults
       \/ Fault /\ UNCHANGED outbox
    /\ tx' = [tx EXCEPT ![d] = Idle]
    /\ UNCHANGED <<created, events, next, lock, batch, after, applied>>

\* The process dies: its transaction rolls back, its claims wait for the lease.
Crash(a) ==
    /\ tx[a].at # "idle" \/ (a \in Dispatchers /\ batch[a] # {})
    /\ Fault
    /\ tx' = [tx EXCEPT ![a] = Idle]
    /\ batch' = [d \in Dispatchers |-> IF d = a THEN {} ELSE batch[d]]
    /\ Unlock(a)
    /\ UNCHANGED <<outbox, created, events, next, after, applied>>

-----------------------------------------------------------------------------
(* Replay: a client pages through its target's rows from its cursor *)

Visible(t)    == {r \in events : r.target = t}
UpTo(t, n)    == {r \in Visible(t) : r.cursor > after[t] /\ r.cursor <= n}

Replay(t) ==
    /\ \E last \in Visible(t) :
         /\ last.cursor > after[t]
         /\ LET page == UpTo(t, last.cursor)
            IN  /\ Cardinality(page) <= PageSize
                /\ \/ Cardinality(page) = PageSize
                   \/ \A r \in Visible(t) : r.cursor <= last.cursor
                /\ applied' = [applied EXCEPT ![t] = @ \cup page]
         /\ after' = [after EXCEPT ![t] = last.cursor]
    /\ UNCHANGED <<outbox, created, events, next, lock, batch, tx, faults>>

-----------------------------------------------------------------------------
Publish(a) == Lookup(a) \/ Allocate(a) \/ Insert(a)

Dispatch(d) == \/ ClaimOutbox(d) \/ NextRow(d) \/ Publish(d)
               \/ CompleteOutbox(d) \/ FailOutbox(d)

Next == \/ \E i \in Intents : Write(i) \/ BecomesDue(i)
        \/ \E d \in Dispatchers : Dispatch(d) \/ CompleteFails(d)
        \/ \E h \in Handlers : LegacyPublish(h) \/ Publish(h)
        \/ \E a \in Actors : PublishFails(a) \/ Crash(a)
        \/ \E t \in Targets : Replay(t)

Spec == Init /\ [][Next]_vars

\* Every outbox worker polls for ever, statements end, row locks are granted in
\* turn, leases and delays run out, and a client that is behind reads on.
Fairness == /\ \A d \in Dispatchers : WF_vars(Dispatch(d))
            /\ \A h \in Handlers : WF_vars(Publish(h))
            /\ \A d \in Dispatchers : SF_vars(Allocate(d))
            /\ \A i \in Intents : WF_vars(BecomesDue(i))
            /\ \A t \in Targets : WF_vars(Replay(t))

FairSpec == Spec /\ Fairness

-----------------------------------------------------------------------------
(* Properties *)

\* Every variable has its type; a counter row is locked by the one transaction
\* that has allocated from it and not ended.
TypeOK ==
    /\ outbox \in [Intents -> Intent]
    /\ created \in [Intents -> Nat]
    /\ events \subseteq Rows
    /\ next \in [Targets -> Nat]
    /\ lock \in [Targets -> Actors \cup {Nobody}]
    /\ \A t \in Targets, a \in Actors :
          lock[t] = a <=> tx[a].at = "insert" /\ tx[a].target = t
    /\ batch \in [Dispatchers -> SUBSET Intents]
    /\ tx \in [Actors -> Work]
    /\ \A a \in Actors : tx[a].at # "idle" => tx[a].id \in Events
    /\ after \in [Targets -> Nat]
    /\ applied \in [Targets -> SUBSET Rows]
    /\ faults \in 0 .. MaxFaults

\* A client never skips an event: whatever dispatchers and requests commit
\* behind its back, it has applied every row of its target up to its cursor.
NoSkippedEvent ==
    \A t \in Targets :
        applied[t] = {r \in Visible(t) : r.cursor <= after[t]}

\* Events are materialised at most once, however often a dispatcher retries,
\* crashes or loses its lease, and cursors of a target are not shared.
MaterialisedOnce ==
    \A r, s \in events :
        \/ r.id = s.id
        \/ r.target = s.target /\ r.cursor = s.cursor
        => r = s

\* The outbox forgets an intent only once its event is there for its target.
PublishedIsMaterialised ==
    \A i \in Intents : outbox[i].status = "published" => TakenBy(i, Target[i])

\* A dispatcher whose lease was lost never disturbs a finished row.
PublishedStays ==
    [][\A i \in Intents :
        outbox[i].status = "published" => outbox'[i].status = "published"]_vars

\* The log of a target is its rows in the order of their cursors, and its client
\* has read those up to its own cursor.
Place(R, r) == Cardinality({s \in R : s.cursor <= r.cursor})
Nth(R, n)   == CHOOSE r \in R : Place(R, r) = n

LogOf(t)  == [n \in 1 .. Cardinality(Visible(t)) |-> Nth(Visible(t), n).id]
ReadOf(t) == Cardinality({r \in Visible(t) : r.cursor <= after[t]})

LogView  == [t \in Targets |-> LogOf(t)]
ReadView == [t \in Targets |-> ReadOf(t)]

Log == INSTANCE EventLog WITH log <- LogView, read <- ReadView

\* Durable delivery implements the append-only log: an event joins one log once,
\* at its end, nothing is removed or reordered, and reading only moves forward.
ImplementsEventLog == Log!LogSpec

\* Every committed intent reaches the client of its target.
EveryIntentApplied ==
    \A i \in Intents :
        outbox[i].status = "pending" ~> \E r \in applied[Target[i]] : r.id = i

=============================================================================
