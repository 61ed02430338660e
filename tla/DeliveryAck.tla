----------------------------- MODULE DeliveryAck -----------------------------
(***************************************************************************)
(* Acknowledgement of delivered events: the WebSocket handler of           *)
(* api/conversation_realtime.go with PostgresDeliveryRepository.AckEvent,  *)
(* advanceCursorTx and MarkDelivered, for one device whose rows of         *)
(* delivery_events have the cursors 1 .. DeviceRows.                       *)
(*                                                                         *)
(* AckEvent locks the row in a transaction and updates it through the      *)
(* pool, on another connection: for PostgreSQL the two are strangers.  The *)
(* pool and the row locks are therefore part of the state.                 *)
(***************************************************************************)
EXTENDS Naturals, FiniteSets, FiniteSetsExt

CONSTANTS Sockets,    \* WebSocket connections of the device
          Unlocked,   \* no transaction: a row that is not locked
          DeviceRows, \* events of the device
          PoolSize,   \* MaxConns of the pool
          MaxFaults   \* bound: connections lost

ASSUME AckAssumption ==
    /\ Unlocked \notin Sockets /\ IsFiniteSet(Sockets)
    /\ DeviceRows \in Nat /\ PoolSize \in Nat /\ MaxFaults \in Nat

AckEvents == 1 .. DeviceRows
AckKinds  == {"received", "processed", "failed"}

VARIABLES status,   \* delivery_events.status
          acks,     \* realtime_event_acks.status
          acked,    \* device_delivery_cursors.last_acked_cursor
          lock,     \* the transaction that has locked a row
          free,     \* idle connections of the pool
          call,     \* what each handler is doing
          faults

ackVars == <<status, acks, acked, lock, free, call, faults>>

IdleCall == [at |-> "idle", event |-> 0, kind |-> "received", alive |-> FALSE]

AckInit ==
    /\ status = [e \in AckEvents |-> "persisted"]
    /\ acks = [e \in AckEvents |-> "none"]
    /\ acked = 0
    /\ lock = [e \in AckEvents |-> Unlocked]
    /\ free = PoolSize
    /\ call = [h \in Sockets |-> IdleCall]
    /\ faults = 0

Goto(h, step) == call' = [call EXCEPT ![h].at = step]
Ends(h)       == call' = [call EXCEPT ![h] = IdleCall]

-----------------------------------------------------------------------------
(* MarkDelivered, after an event has been written to the connection *)

Mark(h, e) ==
    /\ call[h].at = "idle"
    /\ free > 0
    /\ free' = free - 1
    /\ call' = [call EXCEPT ![h] =
                  [at |-> "marking", event |-> e, kind |-> "received", alive |-> FALSE]]
    /\ UNCHANGED <<status, acks, acked, lock, faults>>

Overwritten(e, s) == [status EXCEPT ![e] = s]

\* No statement but that of a failed ACK touches the status of a processed row.
Monotonic(e, s) ==
    IF status[e] = "processed" THEN status ELSE [status EXCEPT ![e] = s]

\* The UPDATE does not match, and so does not wait for, a processed row.
Marked(h) ==
    /\ call[h].at = "marking"
    /\ LET e == call[h].event IN lock[e] = Unlocked \/ status[e] = "processed"
    /\ status' = Monotonic(call[h].event, "delivered")
    /\ free' = free + 1
    /\ Ends(h)
    /\ UNCHANGED <<acks, acked, lock, faults>>

-----------------------------------------------------------------------------
(* AckEvent *)

\* r.Pool.Begin: the transaction takes a connection.
BeginAck(h, e, kind) ==
    /\ call[h].at = "idle"
    /\ free > 0
    /\ free' = free - 1
    /\ call' = [call EXCEPT ![h] =
                  [at |-> "select", event |-> e, kind |-> kind, alive |-> TRUE]]
    /\ UNCHANGED <<status, acks, acked, lock, faults>>

\* SELECT ... FOR UPDATE in the transaction.
SelectForUpdate(h) ==
    /\ call[h].at = "select"
    /\ lock[call[h].event] = Unlocked
    /\ lock' = [lock EXCEPT ![call[h].event] = h]
    /\ Goto(h, "update")
    /\ UNCHANGED <<status, acks, acked, free, faults>>

\* r.Pool.Exec: the update takes a second connection ...
SecondConnection(h) ==
    /\ call[h].at = "update"
    /\ free > 0
    /\ free' = free - 1
    /\ Goto(h, "updating")
    /\ UNCHANGED <<status, acks, acked, lock, faults>>

Returned == free + 1

\* ... on which it waits until no transaction has the row locked.
UpdateRow(h) ==
    /\ call[h].at = "updating"
    /\ LET e == call[h].event
       IN  /\ lock[e] = Unlocked
           /\ status' = CASE call[h].kind = "received"  -> Monotonic(e, "delivered")
                          [] call[h].kind = "processed" -> [status EXCEPT ![e] = "processed"]
                          [] call[h].kind = "failed"    -> [status EXCEPT ![e] = "failed"]
    /\ free' = Returned
    /\ Goto(h, "record")
    /\ UNCHANGED <<acks, acked, lock, faults>>

Recorded(h) ==
    LET old == acks[call[h].event]
    IN  [acks EXCEPT ![call[h].event] =
           IF old = "processed" \/ (old # "none" /\ call[h].kind # "processed")
           THEN old ELSE call[h].kind]

\* advanceCursorTx: as far as the events after it are acknowledged without gap.
Advanced(table, n) ==
    Max({acked} \cup {m \in acked + 1 .. n : \A e \in acked + 1 .. m : table[e] # "none"})

\* A row behind a gap ends the reading with the result still open, and the UPDATE
\* of the cursor that follows finds its connection busy.
Busy(table, n) ==
    LET m == Advanced(table, n)
    IN  m > acked /\ \E e \in m + 1 .. n : table[e] # "none"

Released(h) == free + IF call[h].alive THEN 1 ELSE 0

\* The ACK row and the cursor are written in the transaction, which commits; a
\* transaction whose connection is busy or gone rolls back.  (UpdateRow waits for
\* the lock its own call holds, so only a lost connection ever leads here.)
RecordAck(h) ==
    /\ call[h].at = "record"
    /\ LET table  == Recorded(h)
           n      == call[h].event
           commit == call[h].alive /\ ~Busy(table, n)
       IN  /\ acks' = IF commit THEN table ELSE acks
           /\ acked' = IF commit THEN Advanced(table, n) ELSE acked
    /\ lock' = [e \in AckEvents |-> IF lock[e] = h THEN Unlocked ELSE lock[e]]
    /\ free' = Released(h)
    /\ Ends(h)
    /\ UNCHANGED <<status, faults>>

\* The connection of the transaction is lost: PostgreSQL rolls it back, the pool
\* opens another one.
LoseConnection(h) ==
    /\ call[h].alive
    /\ faults < MaxFaults
    /\ faults' = faults + 1
    /\ free' = free + 1
    /\ lock' = [e \in AckEvents |-> IF lock[e] = h THEN Unlocked ELSE lock[e]]
    /\ call' = [call EXCEPT ![h] =
         IF call[h].at = "select" THEN IdleCall ELSE [@ EXCEPT !.alive = FALSE]]
    /\ UNCHANGED <<status, acks, acked>>

-----------------------------------------------------------------------------
AckStep(h) == SelectForUpdate(h) \/ SecondConnection(h) \/ UpdateRow(h) \/ RecordAck(h)

AckNext == \E h \in Sockets :
           \/ \E e \in AckEvents : Mark(h, e) \/ \E kind \in AckKinds : BeginAck(h, e, kind)
           \/ Marked(h) \/ AckStep(h) \/ LoseConnection(h)

AckSpec == AckInit /\ [][AckNext]_ackVars

-----------------------------------------------------------------------------
(* Properties *)

\* The handlers with a statement of the pool, and with a transaction.
Statements   == {h \in Sockets : call[h].at \in {"marking", "updating"}}
Transactions == {h \in Sockets : call[h].alive}

Call == [at : {"idle", "marking", "select", "update", "updating", "record"},
         event : 0 .. DeviceRows, kind : AckKinds, alive : BOOLEAN]

\* Every variable has its type; a connection is idle in the pool or used by one
\* statement or transaction, and only a live transaction holds a row lock.
AckTypeOK ==
    /\ status \in [AckEvents -> {"persisted", "delivered", "processed", "failed"}]
    /\ acks \in [AckEvents -> AckKinds \cup {"none"}]
    /\ acked \in 0 .. DeviceRows
    /\ lock \in [AckEvents -> Sockets \cup {Unlocked}]
    /\ call \in [Sockets -> Call]
    /\ free \in Nat
    /\ free + Cardinality(Statements) + Cardinality(Transactions) = PoolSize
    /\ \A e \in AckEvents, h \in Sockets : lock[e] = h => call[h].alive /\ call[h].event = e
    /\ faults \in 0 .. MaxFaults

\* Status is monotonic: only a failed ACK takes an event back from processed.
ProcessedStays ==
    [][\A e \in AckEvents :
         status[e] = "processed" /\ status'[e] # "processed"
            => status'[e] = "failed" /\ \E h \in Sockets :
                  call[h].at = "updating" /\ call[h].event = e /\ call[h].kind = "failed"]_ackVars

=============================================================================
