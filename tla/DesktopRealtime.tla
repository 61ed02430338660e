-------------------------- MODULE DesktopRealtime ---------------------------
(***************************************************************************)
(* The realtime client of the desktop application                          *)
(* (desktop-app/internal/app/realtime.go).                                 *)
(*                                                                         *)
(* Start replaces the running loop by one of the next generation.  A loop  *)
(* loads the stored cursor, connects, reads events, stores the cursor of   *)
(* each new one, and hands it to the UI over a channel; after an error it  *)
(* waits and connects again.  A stopped loop may still be in the middle    *)
(* of an event.  What the loops of one process share: the IDs seen, the    *)
(* stored cursor, the channel.                                             *)
(*                                                                         *)
(* The server is external here: it holds the device's events, prunes the   *)
(* oldest, and sends a connection what follows the cursor it presents, in  *)
(* order but for what MaxFaults allows.  An event is its cursor.           *)
(***************************************************************************)
EXTENDS Naturals, Sequences, FiniteSets, SequencesExt

CONSTANTS MaxEvents,  \* bound: events published
          MaxStarts,  \* bound: generations
          QueueSize,  \* capacity of the events channel
          MaxFaults   \* bound: crashes, lost connections, failed calls, reordering

ASSUME DesktopRealtimeAssumption ==
    /\ MaxEvents \in Nat /\ MaxStarts \in Nat
    /\ QueueSize \in Nat /\ MaxFaults \in Nat

VARIABLES log,        \* events published: 1..log
          pruned,     \* events the server no longer has: 1..pruned
          loop,       \* the loop of each generation
          generation, \* generations started
          active,     \* generation whose context is not cancelled, 0: none
          seen,       \* IDs of events this process has read
          stored,     \* realtime_cursor
          queue,      \* the events channel
          delivered,  \* events the UI has taken
          faults,
          excused,    \* history: events overtaken, or dropped by a fault or a stop
          late        \* history: events handed over by a stopped loop

clientVars == <<log, pruned, loop, generation, active, seen, stored, queue, delivered,
          faults, excused, late>>

Generations == 1..MaxStarts
Gone == [at |-> "none", cursor |-> 0, sent |-> 0, event |-> 0]

ClientInit ==
    /\ log = 0 /\ pruned = 0
    /\ loop = [g \in Generations |-> Gone]
    /\ generation = 0 /\ active = 0 /\ seen = {} /\ stored = 0
    /\ queue = << >> /\ delivered = << >>
    /\ faults = 0 /\ excused = {} /\ late = {}

Fault == faults < MaxFaults /\ faults' = faults + 1
At(g, where) == loop[g].at = where
Goto(g, where) == loop' = [loop EXCEPT ![g].at = where]
Exit(g) == loop' = [loop EXCEPT ![g] = Gone]
\* A failed connection: the loop waits, unless its context has ended.
RetriesNever(g) == FALSE
Retries(g) == g = active

Reconnect(g) ==
    IF Retries(g)
    THEN loop' = [loop EXCEPT ![g] = [Gone EXCEPT !.at = "wait",
                                                !.cursor = loop[g].cursor]]
    ELSE Exit(g)

-----------------------------------------------------------------------------
(* The server *)

PublishEvent ==
    /\ log < MaxEvents /\ log' = log + 1
    /\ UNCHANGED <<pruned, loop, generation, active, seen, stored, queue, delivered,
                   faults, excused, late>>

Prune ==
    /\ pruned < log /\ Fault /\ pruned' = pruned + 1
    /\ UNCHANGED <<log, loop, generation, active, seen, stored, queue, delivered,
                   excused, late>>

-----------------------------------------------------------------------------
(* Start and Stop *)

Start ==
    /\ generation < MaxStarts
    /\ generation' = generation + 1 /\ active' = generation + 1
    /\ Goto(generation + 1, "load")
    /\ UNCHANGED <<log, pruned, seen, stored, queue, delivered, faults, excused, late>>

Stop ==
    /\ active # 0 /\ active' = 0
    /\ UNCHANGED <<log, pruned, loop, generation, seen, stored, queue, delivered,
                   faults, excused, late>>

-----------------------------------------------------------------------------
(* The loop of a generation *)

\* LoadCursor; a failure ends the loop for good.
ResumeAtNewest(cursor) == log
ResumeAt(cursor) == cursor
LoadCursor(g) ==
    /\ At(g, "load")
    /\ \/ /\ g = active
          /\ loop' = [loop EXCEPT ![g].at = "connect", ![g].cursor = ResumeAt(stored)]
          /\ UNCHANGED faults
       \/ g # active /\ Exit(g) /\ UNCHANGED faults
       \/ Fault /\ loop' = [loop EXCEPT ![g] = [Gone EXCEPT !.at = "failed"]]
    /\ UNCHANGED <<log, pruned, generation, active, seen, stored, queue, delivered,
                   excused, late>>

\* The server refuses a cursor whose successors it has pruned; a new device
\* (cursor 0) gets what there is.
Expired(cursor) == cursor # 0 /\ cursor < pruned

Connect(g) ==
    /\ At(g, "connect")
    /\ LET c == loop[g].cursor IN
       IF g # active THEN Exit(g) /\ UNCHANGED <<faults, excused>>
       ELSE \/ /\ ~ Expired(c)
               /\ loop' = [loop EXCEPT ![g].at = "read",
                                       ![g].sent = IF c = 0 THEN pruned ELSE c]
               /\ excused' = IF c = 0 THEN excused \cup 1..pruned ELSE excused
               /\ UNCHANGED faults
            \/ /\ Expired(c)
               /\ Reconnect(g) /\ UNCHANGED <<faults, excused>>
            \/ Fault /\ Reconnect(g) /\ UNCHANGED excused
    /\ UNCHANGED <<log, pruned, generation, active, seen, stored, queue, delivered, late>>

\* A frame is read: an event seen before is skipped, one whose cursor is behind
\* is marked as seen and skipped.  The next event is due; another one arrives
\* again, or before those it overtakes.
BehindNever(e, cursor) == FALSE
Behind(e, cursor) == e <= cursor

Receive(g, e) ==
    /\ At(g, "read") /\ g = active /\ e \in 1..log
    /\ \/ e = loop[g].sent + 1 /\ UNCHANGED faults
       \/ e # loop[g].sent + 1 /\ e > pruned /\ Fault
    /\ seen' = seen \cup {e}
    /\ LET sent == IF e = loop[g].sent + 1 THEN e ELSE loop[g].sent IN
       IF e \in seen \/ Behind(e, loop[g].cursor)
       THEN loop' = [loop EXCEPT ![g].sent = sent] /\ UNCHANGED excused
       ELSE /\ loop' = [loop EXCEPT ![g] = [at |-> "save", cursor |-> e, sent |-> sent,
                                            event |-> e]]
            /\ excused' = excused \cup (loop[g].sent + 1)..(e - 1)
    /\ UNCHANGED <<log, pruned, generation, active, stored, queue, delivered, late>>

\* The connection fails, or Stop has closed it.
Disconnect(g) ==
    /\ At(g, "read")
    /\ g = active => Fault
    /\ g # active => UNCHANGED faults
    /\ Reconnect(g)
    /\ UNCHANGED <<log, pruned, generation, active, seen, stored, queue, delivered,
                   excused, late>>

\* SaveCursor keeps the larger cursor.  Its failure drops the event: the loop
\* reconnects behind it.  With the context cancelled it fails.
Saved(e) == IF e > stored THEN e ELSE stored

SaveCursor(g) ==
    /\ At(g, "save") /\ g = active
    /\ stored' = Saved(loop[g].event)
    /\ Goto(g, "push")
    /\ UNCHANGED <<log, pruned, generation, active, seen, queue, delivered, faults,
                   excused, late>>

SaveFails(g) ==
    /\ At(g, "save")
    /\ g = active => Fault
    /\ g # active => UNCHANGED faults
    /\ excused' = excused \cup {loop[g].event}
    /\ Reconnect(g)
    /\ UNCHANGED <<log, pruned, generation, active, seen, stored, queue, delivered, late>>

\* select: the channel has room, or the context has ended.
Push(g) ==
    /\ At(g, "push") /\ Len(queue) < QueueSize
    /\ queue' = Append(queue, loop[g].event)
    /\ late' = IF g = active THEN late ELSE late \cup {loop[g].event}
    /\ loop' = [loop EXCEPT ![g].at = "read", ![g].event = 0]
    /\ UNCHANGED <<log, pruned, generation, active, seen, stored, delivered, faults,
                   excused>>

PushCancelled(g) ==
    /\ At(g, "push") /\ g # active
    /\ excused' = excused \cup {loop[g].event}
    /\ Exit(g)
    /\ UNCHANGED <<log, pruned, generation, active, seen, stored, queue, delivered,
                   faults, late>>

Wait(g) ==
    /\ At(g, "wait")
    /\ IF g = active THEN Goto(g, "connect") ELSE Exit(g)
    /\ UNCHANGED <<log, pruned, generation, active, seen, stored, queue, delivered,
                   faults, excused, late>>

-----------------------------------------------------------------------------
\* NextRealtimeEvent
Take ==
    /\ queue # << >>
    /\ delivered' = Append(delivered, Head(queue)) /\ queue' = Tail(queue)
    /\ UNCHANGED <<log, pruned, loop, generation, active, seen, stored, faults,
                   excused, late>>

\* The application ends with what is in its channel and its loops.
InHand == {loop[g].event : g \in {h \in Generations : loop[h].event # 0}}
Crash ==
    /\ generation > 0 /\ Fault
    /\ excused' = excused \cup ToSet(queue) \cup InHand
    /\ loop' = [g \in Generations |-> Gone]
    /\ active' = 0 /\ seen' = {} /\ queue' = << >>
    /\ UNCHANGED <<log, pruned, generation, stored, delivered, late>>

Run(g) == \/ LoadCursor(g) \/ Connect(g) \/ \E e \in 1..MaxEvents : Receive(g, e)
          \/ Disconnect(g) \/ SaveCursor(g) \/ SaveFails(g) \/ Push(g)
          \/ PushCancelled(g) \/ Wait(g)

ClientNext == \/ PublishEvent \/ Prune \/ Start \/ Stop \/ Take \/ Crash
        \/ \E g \in Generations : Run(g)

ClientSpec == ClientInit /\ [][ClientNext]_clientVars
FairClient == ClientSpec /\ WF_clientVars(Take) /\ \A g \in Generations : WF_clientVars(Run(g))

-----------------------------------------------------------------------------
(* Properties *)

Handed == delivered \o queue

ClientTypeOK ==
    /\ log \in 0..MaxEvents /\ pruned \in 0..log /\ stored \in 0..log
    /\ \A g \in Generations :
           /\ loop[g].at \in {"none", "load", "connect", "read", "save", "push", "wait",
                             "failed"}
           /\ loop[g].cursor \in 0..log /\ loop[g].sent \in 0..log
           /\ loop[g].event # 0 <=> loop[g].at \in {"save", "push"}
           /\ g > generation => loop[g] = Gone
    /\ active \in 0..generation /\ seen \subseteq 1..log
    /\ Len(queue) <= QueueSize /\ ToSet(Handed) \subseteq 1..log
    /\ excused \subseteq 1..log /\ faults \in 0..MaxFaults

\* Events reach the UI once and in the order of their cursors, whatever is sent
\* again, by whatever loop, and however often the application is restarted;
\* only a loop that has been stopped may still hand over the one it has in hand.
OnceInOrder ==
    /\ IsInjective(Handed)
    /\ \A i, j \in DOMAIN Handed :
          i < j => Handed[i] < Handed[j] \/ Handed[j] \in late

\* Every event up to the stored cursor has reached the UI or is on its way, but
\* for those a crash, a stop, a failed call or their own order has dropped.
NothingSkipped ==
    1..stored \subseteq ToSet(Handed) \cup InHand \cup excused

\* Type correctness; and the events of the server reach the UI once, in the order
\* of their cursors, and all of them up to the stored cursor, but for those that
\* the client is known to drop.
ClientInvariant == ClientTypeOK /\ OnceInOrder /\ NothingSkipped

\* As long as a loop runs, every event reaches the UI in the end, unless it is
\* one of those or the server has pruned what follows the cursor: the loop then
\* asks for the same cursor again and again.  A loop that could not
\* read the stored cursor has ended.
EventArrives ==
    \A e \in 1..MaxEvents :
        (active # 0 /\ e <= log) ~> \/ e \in ToSet(delivered) \cup excused
                                    \/ active = 0 \/ Expired(loop[active].cursor)
                                    \/ At(active, "failed")
=============================================================================
