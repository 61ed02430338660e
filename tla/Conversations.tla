--------------------------- MODULE Conversations ---------------------------
(***************************************************************************)
(* Conversations, messages and agent runs of one account                   *)
(* (relay-server/internal/conversations) and the reconcile endpoint.       *)
(*                                                                         *)
(* Service reads what a request needs, checks it, and writes in a later    *)
(* repository call: a handler of the model keeps the checked request in    *)
(* `req` between the two.  PostgresRepository (durable) writes an entity   *)
(* and its outbox intent in one transaction, whose cursor is drawn before  *)
(* the commit; MemoryRepository does each call under its mutex and the     *)
(* service publishes run events afterwards, best effort.                   *)
(*                                                                         *)
(* Requests that fail validation, or come from a device that may not see   *)
(* the conversation, change nothing and are left out; so is the limiter,   *)
(* which only refuses more.                                                *)
(***************************************************************************)
EXTENDS Naturals, FiniteSets, FiniteSetsExt

CONSTANTS Convs,        \* conversation IDs
          Keys,         \* client message IDs of the mobile device
          Runs,         \* agent run IDs
          Handlers,     \* request goroutines of the servers
          PageLimit,    \* messageLimit of the reconcile request
          MaxRequests,  \* bound: requests that pass their checks
          MaxEvents     \* bound: events appended to a run

ASSUME ConversationsAssumption ==
    /\ IsFiniteSet(Handlers)
    /\ PageLimit \in Nat \ {0}
    /\ MaxRequests \in Nat /\ MaxEvents \in Nat

VARIABLES durable,    \* PostgresRepository rather than MemoryRepository
          conv,       \* status of each conversation
          messages,   \* visible rows of conversation_messages
          issued,     \* last cursor drawn for each conversation
          intents,    \* outbox: cursors of "conversation.message:<id>"
          run,        \* status of each run
          events,     \* rows of conversation_events per run
          announced,  \* run events recorded (durable) or published (memory)
          req,        \* the checked request each handler will write
          snap,       \* the last reconcile request
          requests    \* requests so far

vars == <<durable, conv, messages, issued, intents, run, events, announced,
          req, snap, requests>>

Rank == [accepted |-> 1, persisted |-> 2, delivered |-> 3, processed |-> 4,
         failed |-> 0]
Statuses    == DOMAIN Rank
EndStates   == {"completed", "failed", "cancelled", "timed_out"}
RunStates   == {"queued", "running"} \cup EndStates
Closed      == {"closed", "cancelled"}
Cursor      == Nat \ {0}
Message     == [conv : Convs, key : Keys, cursor : Cursor, status : Statuses]
EventTypes  == {"created", "updated"} \cup EndStates

Idle == [op |-> "idle"]
Request ==
    {Idle}
    \cup [op : {"send"}, conv : Convs, key : Keys]
    \cup [op : {"commit"}, conv : Convs, key : Keys, cursor : Cursor]
    \cup [op : {"advance"}, cursor : Cursor, conv : Convs, status : Statuses]
    \cup [op : {"start"}, conv : Convs, run : Runs]
    \cup [op : {"end"}, run : Runs, status : {"cancelled", "timed_out"}]
    \cup [op : {"publish"}, run : Runs, type : EventTypes]

NoSnapshot == [at |-> "idle", boundary |-> 0, todo |-> {}, held |-> {},
               cut |-> {}, late |-> {}, drawn |-> [c \in Convs |-> 0]]

Init ==
    /\ durable \in BOOLEAN
    /\ conv = [c \in Convs |-> "none"]
    /\ messages = {}
    /\ issued = [c \in Convs |-> 0]
    /\ intents = {}
    /\ run = [r \in Runs |-> "none"]
    /\ events = [r \in Runs |-> 0]
    /\ announced = {}
    /\ req = [h \in Handlers |-> Idle]
    /\ snap = NoSnapshot
    /\ requests = 0

-----------------------------------------------------------------------------
Accept == requests < MaxRequests /\ requests' = requests + 1
Begin(h, q) == Accept /\ req[h] = Idle /\ req' = [req EXCEPT ![h] = q]
Done(h) == req' = [req EXCEPT ![h] = Idle]

\* Without the unique index (a mutant).
NeverStored(c, k) == FALSE

Stored(c, k) == \E m \in messages : m.conv = c /\ m.key = k
\* Another transaction holds the unique key until it ends.
Locked(c, k) == \E h \in Handlers : /\ req[h].op = "commit"
                                    /\ req[h].conv = c /\ req[h].key = k

\* cursor is one BIGSERIAL in PostgreSQL, drawn by the messages of all
\* conversations, and a counter per conversation in memory.  Cursors lost to
\* conflicts leave gaps that are not modelled: cursors are only compared.
NextCursor(c) == issued[c] + 1
Draw(c) == issued' = [d \in Convs |-> IF durable \/ d = c THEN NextCursor(d) ELSE issued[d]]

canAdvance(from, to) ==
    \/ from = to
    \/ to = "failed" /\ from # "processed"
    \/ from \notin {"failed", "processed"} /\ Rank[to] >= Rank[from]

\* The UPDATE without its CASE (a mutant).
sqlAnyStatus(from, to) == TRUE

\* The CASE of the UPDATE statement: unlike canAdvance it has no way from
\* delivered to failed.
sqlAdvance(from, to) ==
    canAdvance(from, to) /\ ~ (from = "delivered" /\ to = "failed")

\* Any state may be reported (a mutant).
runFromAny(from, to) == to # "queued"

runTransition(from, to) ==
    \/ from = to
    \/ from = "queued" /\ to \in {"running", "cancelled", "timed_out"}
    \/ from = "running" /\ to \in EndStates

-----------------------------------------------------------------------------
(* Conversations *)

CreateConversation(c) ==
    /\ conv[c] = "none"
    /\ conv' = [conv EXCEPT ![c] = "active"]
    /\ UNCHANGED <<durable, messages, issued, intents, run, events, announced,
                   req, snap, requests>>

\* The status is overwritten whatever it was.
CloseConversation(c, status) ==
    /\ conv[c] # "none"
    /\ conv' = [conv EXCEPT ![c] = status]
    /\ UNCHANGED <<durable, messages, issued, intents, run, events, announced,
                   req, snap, requests>>

-----------------------------------------------------------------------------
(* Messages *)

\* The check of the status forgotten (a mutant).
AcceptsClosed(c, k) == durable \/ ~ Stored(c, k)

Accepts(c, k) == conv[c] = "active" /\ (durable \/ ~ Stored(c, k))

\* SendMessage up to the write.  Only MemoryRepository is a
\* MessageDeduplicator; there a retry is answered before any other check.
CheckSend(h, c, k) ==
    /\ Accepts(c, k)
    /\ Begin(h, [op |-> "send", conv |-> c, key |-> k])
    /\ UNCHANGED <<durable, conv, messages, issued, intents, run, events,
                   announced, snap>>

NewMessage(c, k, n) ==
    [conv |-> c, key |-> k, cursor |-> n, status |-> "persisted"]

\* INSERT ... ON CONFLICT DO NOTHING.  In memory this is all of PutMessage.
InsertMessage(h) ==
    /\ req[h].op = "send"
    /\ LET c == req[h].conv  k == req[h].key  n == NextCursor(c) IN
       /\ ~ Locked(c, k)
       /\ IF Stored(c, k)
          THEN Done(h) /\ UNCHANGED <<issued, messages>>
          ELSE /\ Draw(c)
               /\ IF durable
                  THEN /\ req' = [req EXCEPT ![h] = [op |-> "commit", conv |-> c,
                                                     key |-> k, cursor |-> n]]
                       /\ UNCHANGED messages
                  ELSE messages' = messages \cup {NewMessage(c, k, n)} /\ Done(h)
    /\ UNCHANGED <<durable, conv, intents, run, events, announced, snap, requests>>

\* The row and its outbox intent become visible together.
CommitMessage(h) ==
    /\ req[h].op = "commit"
    /\ messages' = messages \cup {NewMessage(req[h].conv, req[h].key, req[h].cursor)}
    /\ intents' = intents \cup {req[h].cursor}
    /\ Done(h)
    /\ UNCHANGED <<durable, conv, issued, run, events, announced, snap, requests>>

\* The process dies, the request is cancelled or the statement fails: an open
\* transaction rolls back and a pending publication is lost.
Abandon(h) ==
    /\ req[h] # Idle
    /\ Done(h)
    /\ UNCHANGED <<durable, conv, messages, issued, intents, run, events,
                   announced, snap, requests>>

\* UpdateMessageStatus: the desktop reports delivered, processed or failed,
\* the sender accepted or persisted.
CheckStatus(h, m, status) ==
    /\ canAdvance(m.status, status) /\ m.status # status
    /\ Begin(h, [op |-> "advance", conv |-> m.conv, cursor |-> m.cursor,
                 status |-> status])
    /\ UNCHANGED <<durable, conv, messages, issued, intents, run, events,
                   announced, snap>>

WriteStatus(h) ==
    /\ req[h].op = "advance"
    /\ \E m \in messages :
         /\ m.conv = req[h].conv /\ m.cursor = req[h].cursor
         /\ messages' =
              IF IF durable THEN sqlAdvance(m.status, req[h].status)
                            ELSE canAdvance(m.status, req[h].status)
              THEN (messages \ {m}) \cup {[m EXCEPT !.status = req[h].status]}
              ELSE messages
    /\ Done(h)
    /\ UNCHANGED <<durable, conv, issued, intents, run, events, announced, snap,
                   requests>>

-----------------------------------------------------------------------------
(* Agent runs.  The outbox ID of a run's event is run:<id>:<type>, so that a *)
(* second event of one type is dropped: `announced` is a set.                *)

\* In memory the handler goes on to publish.
Announce(h, r, type) ==
    IF durable
    THEN announced' = announced \cup {<<r, type>>} /\ Done(h)
    ELSE /\ req' = [req EXCEPT ![h] = [op |-> "publish", run |-> r, type |-> type]]
         /\ UNCHANGED announced

\* One case of the switch forgotten (a mutant).
EventTypeUntimed(status) == IF status \in EndStates \ {"timed_out"}
                            THEN status ELSE "updated"

EventType(status) == IF status \in EndStates THEN status ELSE "updated"

PublishRunEvent(h) ==
    /\ req[h].op = "publish"
    /\ announced' = announced \cup {<<req[h].run, req[h].type>>}
    /\ Done(h)
    /\ UNCHANGED <<durable, conv, messages, issued, intents, run, events, snap,
                   requests>>

\* StartRun: the desktop starts a run for a message of the conversation.
CheckStart(h, m, r) ==
    /\ run[r] = "none" /\ \A g \in Handlers : req[g].op = "start" => req[g].run # r
    /\ conv[m.conv] = "active"
    /\ Begin(h, [op |-> "start", conv |-> m.conv, run |-> r])
    /\ UNCHANGED <<durable, conv, messages, issued, intents, run, events,
                   announced, snap>>

CreateRun(h) ==
    /\ req[h].op = "start"
    /\ run' = [run EXCEPT ![req[h].run] = "queued"]
    /\ Announce(h, req[h].run, "created")
    /\ UNCHANGED <<durable, conv, messages, issued, intents, events, snap, requests>>

\* Only the memory repository checks the transition.
SetRun(r, status) ==
    run' = IF durable \/ runTransition(run[r], status)
           THEN [run EXCEPT ![r] = status] ELSE run

WriteRun(h, r, status) ==
    /\ SetRun(r, status)
    /\ IF durable \/ runTransition(run[r], status)
       THEN Announce(h, r, EventType(status))
       ELSE Done(h) /\ UNCHANGED announced

\* UpdateRun checks nothing about the run's status.
UpdateRun(h, r, status) ==
    /\ run[r] # "none" /\ req[h] = Idle
    /\ Accept
    /\ WriteRun(h, r, status)
    /\ UNCHANGED <<durable, conv, messages, issued, intents, events, snap>>

\* CancelRun and TimeoutRun, up to the write ...
CheckEnd(h, r, status) ==
    /\ run[r] \in {"queued", "running"}
    /\ Begin(h, [op |-> "end", run |-> r, status |-> status])
    /\ UNCHANGED <<durable, conv, messages, issued, intents, run, events,
                   announced, snap>>

\* ... and the write.
EndRun(h) ==
    /\ req[h].op = "end"
    /\ WriteRun(h, req[h].run, req[h].status)
    /\ UNCHANGED <<durable, conv, messages, issued, intents, events, snap, requests>>

AddRunEvent(r) ==
    /\ run[r] # "none" /\ events[r] < MaxEvents
    /\ events' = [events EXCEPT ![r] = @ + 1]
    /\ UNCHANGED <<durable, conv, messages, issued, intents, run, announced, req,
                   snap, requests>>

-----------------------------------------------------------------------------
(* conversationReconcile: the boundary first, then the conversations, then *)
(* the first messageLimit messages of each, cut at the boundary.           *)

Cursors(S) == {m.cursor : m \in S}
InFlight   == {req[h].cursor : h \in {g \in Handlers : req[g].op = "commit"}}

\* The next cursor rather than the last (a mutant).
BoundaryIsNext == Max(Cursors(messages) \cup {0}) + 1

Boundary == Max(Cursors(messages) \cup {0})

\* The first thing the request reads.
CaptureBoundary ==
    /\ snap.at = "idle"
    /\ Accept
    /\ snap' = [NoSnapshot EXCEPT !.at = "list",
                                  !.boundary = Boundary,
                                  !.late = InFlight, !.drawn = issued]
    /\ UNCHANGED <<durable, conv, messages, issued, intents, run, events,
                   announced, req>>

\* The conversations the answer is of: at most the limit, and a desktop's own.
\* Whichever are left out count as cut.
ListConversations ==
    /\ snap.at = "list"
    /\ LET rows == {c \in Convs : conv[c] # "none"}
       IN  \E listed \in SUBSET rows :
              snap' = [snap EXCEPT !.at = "read", !.todo = listed, !.cut = rows \ listed]
    /\ UNCHANGED <<durable, conv, messages, issued, intents, run, events,
                   announced, req, requests>>

\* ListMessages(0, limit) of one conversation: the oldest come first and
\* HasMore is not looked at.
FirstPage(c) ==
    LET rows == {m \in messages : m.conv = c} IN
    {m \in rows : Cardinality({o \in rows : o.cursor < m.cursor}) < PageLimit}

ReadMessages(c) ==
    /\ snap.at = "read" /\ c \in snap.todo
    /\ LET page == FirstPage(c) IN
       snap' = [snap EXCEPT
                 !.todo = @ \ {c},
                 !.held = @ \cup {<<c, m.cursor>> :
                                  m \in {o \in page : o.cursor <= snap.boundary}},
                 !.cut = IF Cardinality(page) = PageLimit THEN @ \cup {c} ELSE @]
    /\ UNCHANGED <<durable, conv, messages, issued, intents, run, events,
                   announced, req, requests>>

Respond ==
    /\ snap.at = "read" /\ snap.todo = {}
    /\ snap' = [snap EXCEPT !.at = "done"]
    /\ UNCHANGED <<durable, conv, messages, issued, intents, run, events,
                   announced, req, requests>>

-----------------------------------------------------------------------------
Next ==
    \/ \E c \in Convs : \/ CreateConversation(c)
                        \/ \E s \in Closed : CloseConversation(c, s)
                        \/ ReadMessages(c)
    \/ CaptureBoundary \/ ListConversations \/ Respond
    \/ \E h \in Handlers :
         \/ \E c \in Convs, k \in Keys : CheckSend(h, c, k)
         \/ InsertMessage(h) \/ CommitMessage(h) \/ Abandon(h)
         \/ \E m \in messages, s \in Statuses : CheckStatus(h, m, s)
         \/ WriteStatus(h)
         \/ \E m \in messages, r \in Runs : CheckStart(h, m, r)
         \/ CreateRun(h) \/ PublishRunEvent(h) \/ EndRun(h)
         \/ \E r \in Runs, s \in RunStates : UpdateRun(h, r, s)
         \/ \E r \in Runs, s \in {"cancelled", "timed_out"} : CheckEnd(h, r, s)
    \/ \E r \in Runs : AddRunEvent(r)

Spec == Init /\ [][Next]_vars

-----------------------------------------------------------------------------
(* Properties *)

TypeOK ==
    /\ durable \in BOOLEAN
    /\ conv \in [Convs -> {"none", "active"} \cup Closed]
    /\ messages \subseteq Message
    /\ issued \in [Convs -> Nat]
    /\ intents \subseteq Cursor
    /\ run \in [Runs -> {"none"} \cup RunStates]
    /\ events \in [Runs -> 0 .. MaxEvents]
    /\ announced \subseteq Runs \X EventTypes
    /\ req \in [Handlers -> Request]
    /\ snap.at \in {"idle", "list", "read", "done"}
    /\ snap.todo \subseteq Convs /\ snap.cut \subseteq Convs
    /\ requests \in 0 .. MaxRequests

\* However often and however concurrently a client retries, a client message
\* ID has one message, every message its own cursor, and (PostgreSQL) the
\* outbox one intent per message and none besides.
OneMessagePerKey ==
    /\ \A m, n \in messages :
         (m.conv = n.conv /\ (m.key = n.key \/ m.cursor = n.cursor)) => m = n
    /\ durable => intents = Cursors(messages)

\* Type correctness; and a retried or concurrent send stores one message, whose
\* cursor no other has, with its intent.
ConversationsInvariant == TypeOK /\ OneMessagePerKey

Sending(c) == {h \in Handlers : req[h].op \in {"send", "commit"} /\ req[h].conv = c}

\* A closed conversation is not reopened, and receives no message whose
\* request was not accepted before it was closed.
ClosedTakesNothingNew ==
    [][\A c \in Convs : conv[c] \in Closed =>
         /\ conv'[c] \in Closed
         /\ Cardinality({m \in messages' : m.conv = c}) + Cardinality(Sending(c)')
            <= Cardinality({m \in messages : m.conv = c}) + Cardinality(Sending(c))]_vars

\* The desktop is told of every status a durable run is in: the event of the
\* status was recorded with it, whichever of two racing updates came last.
RunStatesAnnounced ==
    durable => \A r \in Runs :
        /\ run[r] # "none" => <<r, "created">> \in announced
        /\ run[r] = "running" => <<r, "updated">> \in announced
        /\ run[r] \in EndStates => <<r, run[r]>> \in announced

\* What has ended stays ended, although it was read before the update that
\* changes it: a message that was processed or has failed and, in memory, a run
\* whose cancellation, timeout and report race.
EndedStays ==
    [][/\ \A m \in messages : m.status \in {"processed", "failed"} => m \in messages'
       /\ \A r \in Runs : ~ durable /\ run[r] \in EndStates => run'[r] = run[r]]_vars

\* What a reconcile answer lacks at or below its boundary cursor is a message
\* whose transaction was open when the boundary was taken, one beyond a full
\* page, of a conversation left out, or (memory) one drawn later from its
\* conversation's own counter.
SnapshotMissesOnlyLate ==
    snap.at = "done" => \A m \in messages :
        m.cursor <= snap.boundary =>
            \/ <<m.conv, m.cursor>> \in snap.held
            \/ m.conv \in snap.cut
            \/ IF durable THEN m.cursor \in snap.late
                          ELSE m.cursor > snap.drawn[m.conv]
=============================================================================
