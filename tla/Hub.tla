-------------------------------- MODULE Hub --------------------------------
(***************************************************************************)
(* One target's queue of the in-process delivery hub, realtime/hub.go: the *)
(* goroutines that publish to it, the WebSocket connections that subscribe *)
(* and close, and the consumer of cross-process wakeups.                   *)
(*                                                                         *)
(* When a repository is configured (delivery) the rows of the target are   *)
(* in PostgreSQL, where outbox workers and other processes append too, as  *)
(* RealtimeOutbox models; otherwise the hub assigns cursors from memory    *)
(* and no row, wakeup or statement exists.  The mutex h.mu is held across  *)
(* steps only where its holder can wait: for the closeOnce of a subscriber *)
(* whose queue is full.                                                    *)
(***************************************************************************)
EXTENDS Naturals, FiniteSets, SequencesExt

CONSTANTS Ids,         \* event IDs
          Subs,        \* connections
          Publishers,  \* goroutines in Hub.Publish
          Waker,       \* the goroutine of consumeWakeups
          Nobody,
          Modes,       \* the values of delivery to start with
          Failures,    \* whether statements may fail
          QueueSize, RetentionPerDevice,
          MaxCursor,   \* bound: events of the target
          MaxHints,    \* bound: pending wakeups (the channel holds 128)
          MaxReceived  \* bound: events a connection reads before it stalls

Actors == Publishers \cup {Waker}

ASSUME HubAssumption ==
    /\ Nobody \notin Actors /\ Waker \notin Publishers
    /\ Modes \subseteq BOOLEAN /\ Failures \in BOOLEAN
    /\ QueueSize \in Nat \ {0} /\ RetentionPerDevice \in Nat \ {0}
    /\ MaxCursor \in Nat /\ MaxHints \in Nat /\ MaxReceived \in Nat

VARIABLES delivery, \* a DeliveryRepository is configured; never changes
          stored,   \* the IDs in delivery_events; the n-th has cursor n
          nextCursor, kept, open,  \* targetQueue: nextCursor, events, subs
          mu,       \* who holds h.mu between steps
          actor,    \* what each publisher and the waker are doing
          conn,     \* a connection: stage, its cursor, the page it read
          sent,     \* the events put in a connection's channel, oldest first
          taken,    \* how many of them it has received
          once,     \* closeOnce of a subscription
          hints     \* notifier.Wakeups()

queue   == <<nextCursor, kept, open, sent>>
hubVars == <<delivery, stored, queue, mu, actor, conn, taken, once, hints>>

Event     == [id : Ids, cursor : 0 .. MaxCursor]
Stages    == {"idle", "persist", "fanout", "query", "accept", "dropping"}
IdleActor == [at |-> "idle", page |-> <<>>, after |-> 0, drop |-> {}]

HubInit ==
    /\ delivery \in Modes
    /\ stored = <<>>
    /\ nextCursor = 0 /\ kept = <<>> /\ open = {}
    /\ mu = Nobody
    /\ actor = [a \in Actors |-> IdleActor]
    /\ conn = [s \in Subs |-> [at |-> "new", after |-> 0, page |-> <<>>]]
    /\ sent = [s \in Subs |-> <<>>]
    /\ taken = [s \in Subs |-> 0]
    /\ once = [s \in Subs |-> "free"]
    /\ hints = 0

Smaller(m, n) == IF m < n THEN m ELSE n
Larger(m, n)  == IF m > n THEN m ELSE n
Hinted        == Smaller(hints + 1, MaxHints)

\* DeliveryRepository.Replay: at most limit rows after a cursor.
Rows(after, limit) ==
    LET last == Smaller(Len(stored), after + limit)
    IN  [n \in 1 .. Larger(last - after, 0) |->
            [id |-> stored[after + n], cursor |-> after + n]]

-----------------------------------------------------------------------------
(* Fan-out under h.mu: the tail of Publish, and acceptReplayLocked *)

\* Publish knows an event by its ID, acceptReplayLocked by its cursor too, which
\* is the same: an ID has one row.
Known(e, x) == \E p \in Range(x.kept) : p.id = e.id

Trimmed(es) == SubSeq(es, Larger(Len(es) - RetentionPerDevice, 0) + 1, Len(es))

\* Subscribers whose channel has no room are taken off the queue.
StillOpen(x, full) == x.open \ full

Offer(x, e) ==
    LET full == {s \in x.open : Len(x.sent[s]) - taken[s] >= QueueSize}
    IN  IF Known(e, x) THEN x
        ELSE [nextCursor |-> Larger(x.nextCursor, e.cursor),
              kept |-> Trimmed(Append(x.kept, e)),
              open |-> StillOpen(x, full),
              sent |-> [s \in Subs |-> IF s \in x.open \ full
                                       THEN Append(x.sent[s], e) ELSE x.sent[s]],
              drop |-> x.drop \cup full]

\* The queue after the first n events of es, for each n: they are offered in turn.
Fanned(es) ==
    LET x[n \in 0 .. Len(es)] ==
          IF n = 0
          THEN [nextCursor |-> nextCursor, kept |-> kept, open |-> open, sent |-> sent,
                drop |-> {}]
          ELSE Offer(x[n - 1], es[n])
    IN  x

\* The mutex is kept when there are subscribers to close.
FanOut(a, es) ==
    /\ mu = Nobody
    /\ LET x == Fanned(es)[Len(es)]
       IN  /\ nextCursor' = x.nextCursor
           /\ kept' = x.kept
           /\ open' = x.open
           /\ sent' = x.sent
           /\ actor' = [actor EXCEPT ![a] =
                IF x.drop = {} THEN IdleActor
                ELSE [at |-> "dropping", page |-> <<>>, after |-> 0, drop |-> x.drop]]
           /\ mu' = IF x.drop = {} THEN Nobody ELSE a

\* closeOnce.Do(closeLocked(ErrBackpressure)): it waits while Close is inside
\* its own closeOnce.Do.
Drop(a) ==
    /\ actor[a].at = "dropping"
    /\ \E s \in actor[a].drop :
         LET left == actor[a].drop \ {s}
         IN  /\ once[s] # "closing"
             /\ once' = [once EXCEPT ![s] = "done"]
             /\ actor' = [actor EXCEPT ![a] =
                            IF left = {} THEN IdleActor ELSE [@ EXCEPT !.drop = left]]
             /\ mu' = IF left = {} THEN Nobody ELSE mu
    /\ UNCHANGED <<delivery, stored, queue, conn, taken, hints>>

-----------------------------------------------------------------------------
(* Publish *)

\* A request the hub accepts: size, authorization and rate have been checked.
Publish(p, i) ==
    /\ actor[p].at = "idle"
    /\ actor' = [actor EXCEPT ![p] =
         [at |-> IF delivery THEN "persist" ELSE "fanout",
          page |-> <<[id |-> i, cursor |-> 0]>>, after |-> 0, drop |-> {}]]
    /\ UNCHANGED <<delivery, stored, queue, mu, conn, taken, once, hints>>

\* The repository appends the event or finds it, and a wakeup is sent.
Persist(p) ==
    /\ actor[p].at = "persist"
    /\ LET i == actor[p].page[1].id
           log == IF i \in Range(stored) THEN stored ELSE Append(stored, i)
           cursor == CHOOSE n \in DOMAIN log : log[n] = i
       IN  /\ Len(log) <= MaxCursor
           /\ stored' = log
           /\ actor' = [actor EXCEPT ![p].at = "fanout",
                                     ![p].page = <<[id |-> i, cursor |-> cursor]>>]
    /\ hints' = Hinted
    /\ UNCHANGED <<delivery, queue, mu, conn, taken, once>>

\* A repository error is returned to the caller.
PersistFails(p) ==
    /\ Failures
    /\ actor[p].at = "persist"
    /\ actor' = [actor EXCEPT ![p] = IdleActor]
    /\ UNCHANGED <<delivery, stored, queue, mu, conn, taken, once, hints>>

\* Without a repository the cursor is the next of the queue, taken under h.mu.
CursorOf(e) == IF delivery THEN e.cursor ELSE nextCursor + 1

Broadcast(p) ==
    /\ actor[p].at = "fanout"
    /\ LET e == actor[p].page[1]
       IN  /\ CursorOf(e) <= MaxCursor
           /\ FanOut(p, <<[e EXCEPT !.cursor = CursorOf(e)]>>)
    /\ UNCHANGED <<delivery, stored, conn, taken, once, hints>>

\* An outbox worker or another process appends a row and notifies.
AppendElsewhere(i) ==
    /\ delivery
    /\ i \notin Range(stored)
    /\ Len(stored) < MaxCursor
    /\ stored' = Append(stored, i)
    /\ hints' = Hinted
    /\ UNCHANGED <<delivery, queue, mu, actor, conn, taken, once>>

-----------------------------------------------------------------------------
(* consumeWakeups and replayWakeup *)

WakeSnapshot ==
    /\ actor[Waker].at = "idle"
    /\ hints > 0
    /\ mu = Nobody
    /\ hints' = hints - 1
    /\ actor' = [actor EXCEPT ![Waker] =
         IF open = {} THEN IdleActor
         ELSE [at |-> "query", page |-> <<>>,
               after |-> IF kept = <<>> THEN 0 ELSE kept[1].cursor - 1, drop |-> {}]]
    /\ UNCHANGED <<delivery, stored, queue, mu, conn, taken, once>>

WakeReplay ==
    /\ actor[Waker].at = "query"
    /\ actor' = [actor EXCEPT ![Waker].at = "accept",
                              ![Waker].page = Rows(actor[Waker].after, QueueSize)]
    /\ UNCHANGED <<delivery, stored, queue, mu, conn, taken, once, hints>>

\* A query that fails drops the wakeup.
WakeFails ==
    /\ Failures
    /\ actor[Waker].at = "query"
    /\ actor' = [actor EXCEPT ![Waker] = IdleActor]
    /\ UNCHANGED <<delivery, stored, queue, mu, conn, taken, once, hints>>

WakeAccept ==
    /\ actor[Waker].at = "accept"
    /\ FanOut(Waker, actor[Waker].page)
    /\ UNCHANGED <<delivery, stored, conn, taken, once, hints>>

-----------------------------------------------------------------------------
(* Subscribe *)

\* With a repository the rows after the cursor are read first, without h.mu.
SubscribeReplay(s, after) ==
    /\ delivery
    /\ conn[s].at = "new"
    /\ LET page == Rows(after, QueueSize + 1)
       IN  conn' = [conn EXCEPT ![s] =
             [at |-> IF Len(page) > QueueSize THEN "refused" ELSE "read",
              after |-> after, page |-> page]]
    /\ UNCHANGED <<delivery, stored, queue, mu, actor, taken, once, hints>>

AnyAge(after) == FALSE

Gone(after) == kept # <<>> /\ after + 1 < kept[1].cursor

Register(s, after, page) ==
    /\ mu = Nobody
    /\ IF Len(page) > QueueSize
       THEN /\ conn' = [conn EXCEPT ![s].at = "refused"]
            /\ UNCHANGED queue
       ELSE /\ conn' = [conn EXCEPT ![s] = [at |-> "open", after |-> after, page |-> <<>>]]
            /\ sent' = [sent EXCEPT ![s] = page]
            /\ open' = open \cup {s}
            /\ nextCursor' = IF page = <<>> THEN nextCursor
                             ELSE Larger(nextCursor, Last(page).cursor)
            /\ UNCHANGED kept
    /\ UNCHANGED <<delivery, stored, mu, actor, taken, once, hints>>

SubscribeDurable(s) ==
    /\ conn[s].at = "read"
    /\ Register(s, conn[s].after, conn[s].page)

\* Of the first n kept events, for each n, those after a cursor.
KeptAfter(after) ==
    LET f[n \in 0 .. Len(kept)] ==
          IF n = 0 THEN <<>>
          ELSE IF kept[n].cursor > after THEN Append(f[n - 1], kept[n]) ELSE f[n - 1]
    IN  f

\* From memory the replay and the registration are one critical section.
SubscribeMemory(s, after) ==
    /\ ~delivery
    /\ conn[s].at = "new"
    /\ IF Gone(after)
       THEN /\ mu = Nobody
            /\ conn' = [conn EXCEPT ![s].at = "refused"]
            /\ UNCHANGED <<delivery, stored, queue, mu, actor, taken, once, hints>>
       ELSE Register(s, after, KeptAfter(after)[Len(kept)])

\* The cursors a client can have: those it was given before.
ClientCursors == 0 .. (IF delivery THEN Len(stored) ELSE nextCursor)

Receive(s) ==
    /\ taken[s] < Smaller(Len(sent[s]), MaxReceived)
    /\ taken' = [taken EXCEPT ![s] = @ + 1]
    /\ UNCHANGED <<delivery, stored, queue, mu, actor, conn, once, hints>>

\* Subscription.Close enters closeOnce, then wants h.mu.
Close(s) ==
    /\ conn[s].at = "open"
    /\ once[s] = "free"
    /\ once' = [once EXCEPT ![s] = "closing"]
    /\ UNCHANGED <<delivery, stored, queue, mu, actor, conn, taken, hints>>

StillRegistered(s) == open

Unregistered(s) == open \ {s}

CloseLocked(s) ==
    /\ once[s] = "closing"
    /\ mu = Nobody
    /\ once' = [once EXCEPT ![s] = "done"]
    /\ open' = Unregistered(s)
    /\ UNCHANGED <<delivery, stored, nextCursor, kept, sent, mu, actor, conn, taken, hints>>

-----------------------------------------------------------------------------
Work(a) == Drop(a) \/ Persist(a) \/ Broadcast(a)
Wake    == WakeSnapshot \/ WakeReplay \/ WakeAccept \/ Drop(Waker)

HubNext ==
    \/ \E p \in Publishers : (\E i \in Ids : Publish(p, i)) \/ PersistFails(p) \/ Work(p)
    \/ \E i \in Ids : AppendElsewhere(i)
    \/ Wake \/ WakeFails
    \/ \E s \in Subs : \/ \E after \in ClientCursors : \/ SubscribeReplay(s, after)
                                                       \/ SubscribeMemory(s, after)
                       \/ SubscribeDurable(s) \/ Receive(s)
                       \/ Close(s) \/ CloseLocked(s)

HubSpec == HubInit /\ [][HubNext]_hubVars

\* Goroutines run, the mutex is fair (Go's sync.Mutex hands itself over to the
\* longest waiter), connections read their channels, wakeups arrive.
Fairness == /\ \A p \in Publishers : WF_hubVars(Work(p))
            /\ WF_hubVars(Wake)
            /\ \A s \in Subs : WF_hubVars(Receive(s)) /\ SF_hubVars(CloseLocked(s))
                               /\ WF_hubVars(SubscribeDurable(s))

FairSpec == HubSpec /\ Fairness

-----------------------------------------------------------------------------
(* Properties *)

\* Every variable has its type; h.mu is held between steps by the one goroutine
\* that has subscribers to close, and no channel holds more than its capacity.
HubTypeOK ==
    /\ delivery \in Modes
    /\ stored \in Seq(Ids) /\ Len(stored) <= MaxCursor
    /\ nextCursor \in 0 .. MaxCursor
    /\ kept \in Seq(Event) /\ Len(kept) <= RetentionPerDevice
    /\ open \subseteq Subs
    /\ mu \in Actors \cup {Nobody}
    /\ actor \in [Actors -> [at : Stages, page : Seq(Event), after : 0 .. MaxCursor,
                             drop : SUBSET Subs]]
    /\ \A a \in Actors : /\ mu = a <=> actor[a].at = "dropping"
                         /\ mu = a <=> actor[a].drop # {}
    /\ conn \in [Subs -> [at : {"new", "read", "open", "refused"},
                          after : 0 .. MaxCursor, page : Seq(Event)]]
    /\ sent \in [Subs -> Seq(Event)]
    /\ taken \in [Subs -> Nat]
    /\ \A s \in Subs : taken[s] <= Len(sent[s]) /\ Len(sent[s]) - taken[s] <= QueueSize
    /\ once \in [Subs -> {"free", "closing", "done"}]
    /\ hints \in 0 .. MaxHints

\* A closed channel is never sent to again and is closed once, whoever closes
\* it: a publisher, the waker or the connection.  Go panics on either.
ClosedIsUnregistered ==
    \A s \in Subs :
        /\ once[s] = "done" => s \notin open
        /\ s \in open => \A a \in Actors : s \notin actor[a].drop
        /\ \A a \in Actors : s \in actor[a].drop => once[s] # "done"

\* From memory a connection gets every event that is broadcast after the cursor
\* it subscribed with, each once, in cursor order: nothing falls between the
\* replay and the registration, or behind the retained history.
MemoryDelivers ==
    ~delivery => \A s \in Subs :
        /\ \A n \in DOMAIN sent[s] :
              sent[s][n].cursor > IF n = 1 THEN conn[s].after ELSE sent[s][n - 1].cursor
        /\ s \in open => \A n \in conn[s].after + 1 .. nextCursor :
                            \E e \in Range(sent[s]) : e.cursor = n

\* Subscription.Close returns: hub.go says that it is safe to call repeatedly.
CloseReturns == \A s \in Subs : once[s] = "closing" ~> once[s] = "done"
=============================================================================
