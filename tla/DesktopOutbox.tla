--------------------------- MODULE DesktopOutbox ---------------------------
(***************************************************************************)
(* The desktop application's outbox of messages to the relay server        *)
(* (desktop-app/internal/storage/outbox.go and outbox_sender.go, with the  *)
(* retry policy of protocol/reliable.go): a table of messages, and passes  *)
(* of SendPending over the due ones, which may overlap.                    *)
(***************************************************************************)
EXTENDS Integers, Sequences, FiniteSets

CONSTANTS Messages,       \* message ids
          Passes,         \* SendPending calls that may overlap
          Limit,          \* rows a pass reads
          AttemptLimits,  \* RetryPolicy.MaxAttempts, 0 for none
          BaseDelay, MaxDelay,
          MaxTime         \* bound: clock ticks

ASSUME DesktopOutboxAssumption ==
    /\ Limit \in Nat /\ AttemptLimits \subseteq Nat
    /\ BaseDelay \in Nat /\ MaxDelay \in Nat

VARIABLES outbox,        \* the rows: attempts and the time of the next one
          now,
          attemptLimit,  \* the policy's
          pass,          \* each pass: the rows it has still to send, the answer it has
          accepted,      \* messages the relay has taken
          enqueued       \* messages ever put into the outbox

outboxVars == <<outbox, now, attemptLimit, pass, accepted, enqueued>>

\* What the relay's answer says: a status of 2xx, and the id it names.
NoAnswer == [success |-> FALSE, id |-> "none"]
Resting == [at |-> "rest", items |-> << >>, answer |-> NoAnswer]

Items == [id : Messages, attempts : Nat]

OutboxTypeOK ==
    /\ DOMAIN outbox \subseteq Messages
    /\ \A m \in DOMAIN outbox : outbox[m] \in [attempts : Nat, next : Int]
    /\ now \in Nat /\ attemptLimit \in AttemptLimits
    /\ \A p \in Passes : /\ pass[p].at \in {"rest", "post", "settle"}
                         /\ pass[p].items \in Seq(Items)
                         /\ pass[p].at # "rest" => pass[p].items # << >>
    /\ accepted \subseteq Messages /\ enqueued \subseteq Messages

OutboxInit ==
    /\ outbox = << >> /\ now = 0
    /\ attemptLimit \in AttemptLimits
    /\ pass = [p \in Passes |-> Resting]
    /\ accepted = {} /\ enqueued = {}

\* The id is the primary key: a second insert of a waiting message fails.
Enqueue(m) ==
    /\ m \notin DOMAIN outbox
    /\ outbox' = [k \in DOMAIN outbox \cup {m} |->
                    IF k = m THEN [attempts |-> 0, next |-> now] ELSE outbox[k]]
    /\ enqueued' = enqueued \cup {m}
    /\ UNCHANGED <<now, attemptLimit, pass, accepted>>

Due == {m \in DOMAIN outbox : outbox[m].next <= now}

\* The rows a query may return: the earliest due ones in order, at most Limit.
Pending ==
    {s \in UNION {[1..n -> Due] : n \in 1..Limit} :
        /\ \A i, j \in DOMAIN s : i < j => s[i] # s[j] /\ outbox[s[i]].next <= outbox[s[j]].next
        /\ LET Rest == {m \in Due : \A i \in DOMAIN s : s[i] # m}
           IN  Rest # {} => /\ Len(s) = Limit
                            /\ \A m \in Rest : outbox[s[Len(s)]].next <= outbox[m].next}

ReadPending(p) ==
    /\ pass[p].at = "rest"
    /\ \E s \in Pending :
          pass' = [pass EXCEPT ![p] =
                     [at |-> "post", answer |-> NoAnswer,
                      items |-> [i \in DOMAIN s |->
                                   [id |-> s[i], attempts |-> outbox[s[i]].attempts]]]]
    /\ UNCHANGED <<outbox, now, attemptLimit, accepted, enqueued>>

Current(p) == Head(pass[p].items)

\* The request reaches the relay or not, and its answer arrives or not; what
\* answers may also be something that is not the relay.
PostEnvelope(p) ==
    /\ pass[p].at = "post"
    /\ \E reached \in BOOLEAN, a \in {NoAnswer, [success |-> TRUE, id |-> "none"],
                                      [success |-> TRUE, id |-> Current(p).id],
                                      [success |-> FALSE, id |-> Current(p).id]} :
          /\ a.success /\ a.id = Current(p).id => reached
          /\ accepted' = IF reached THEN accepted \cup {Current(p).id} ELSE accepted
          /\ pass' = [pass EXCEPT ![p].at = "settle", ![p].answer = a]
    /\ UNCHANGED <<outbox, now, attemptLimit, enqueued>>

\* The pass goes on with its next row, or ends.
Onwards(p) ==
    IF Len(pass[p].items) = 1 THEN Resting
    ELSE [at |-> "post", items |-> Tail(pass[p].items), answer |-> NoAnswer]

\* A mutated form: any 2xx answer counts as an ACK.
AnySuccess(p) == pass[p].answer.success
IsAck(p) == pass[p].answer.success /\ pass[p].answer.id = Current(p).id

\* Ack deletes the row; a failing statement ends the pass.
AckRow(p) ==
    /\ pass[p].at = "settle" /\ IsAck(p)
    /\ \/ /\ outbox' = [m \in DOMAIN outbox \ {Current(p).id} |-> outbox[m]]
          /\ pass' = [pass EXCEPT ![p] = Onwards(p)]
       \/ outbox' = outbox /\ pass' = [pass EXCEPT ![p] = Resting]
    /\ UNCHANGED <<now, attemptLimit, accepted, enqueued>>

LeastOf(a, b) == IF a <= b THEN a ELSE b

\* Delay doubles BaseDelay and stops at MaxDelay.
Delay(attempt) == LeastOf(BaseDelay * 2^(attempt - 1), MaxDelay)

\* ScheduleRetry counts from the attempts the pass read; a row deleted in the
\* meantime is not updated, and past the limit the row is left as it is.
ScheduleRetry(p) ==
    LET m == Current(p).id
        attempt == Current(p).attempts + 1
        tried == [attempts |-> attempt, next |-> now + Delay(attempt)]
    IN  /\ pass[p].at = "settle" /\ ~IsAck(p)
        /\ \/ /\ attemptLimit = 0 \/ attempt <= attemptLimit
              /\ outbox' = [k \in DOMAIN outbox |-> IF k = m THEN tried ELSE outbox[k]]
              /\ pass' = [pass EXCEPT ![p] = Onwards(p)]
           \/ /\ attemptLimit > 0 /\ attempt > attemptLimit
              /\ outbox' = outbox
              /\ pass' = [pass EXCEPT ![p] = Onwards(p)]
           \/ /\ attemptLimit = 0 \/ attempt <= attemptLimit   \* the statement fails
              /\ outbox' = outbox
              /\ pass' = [pass EXCEPT ![p] = Resting]
        /\ UNCHANGED <<now, attemptLimit, accepted, enqueued>>

TickOutbox ==
    /\ now < MaxTime /\ now' = now + 1
    /\ UNCHANGED <<outbox, attemptLimit, pass, accepted, enqueued>>

\* The application ends: its passes end with it, the table stays.
RestartOutbox ==
    /\ pass' = [p \in Passes |-> Resting]
    /\ UNCHANGED <<outbox, now, attemptLimit, accepted, enqueued>>

OutboxNext ==
    \/ \E m \in Messages : Enqueue(m)
    \/ \E p \in Passes : ReadPending(p) \/ PostEnvelope(p) \/ AckRow(p) \/ ScheduleRetry(p)
    \/ TickOutbox \/ RestartOutbox

OutboxSpec == OutboxInit /\ [][OutboxNext]_outboxVars

-----------------------------------------------------------------------------
\* Whatever is lost, refused or cut short, and however passes overlap, a message
\* that was put into the outbox is still there or has been taken by the relay:
\* "only a valid ACK causes deletion" (outbox_sender.go:20).
QueuedUntilAccepted == enqueued \subseteq DOMAIN outbox \cup accepted

\* The outbox has its types and loses no message.
QueueInvariant == OutboxTypeOK /\ QueuedUntilAccepted
=============================================================================
