------------------------------ MODULE EventLog ------------------------------
(***************************************************************************)
(* What durable delivery promises a device: one append-only log of events  *)
(* per target, in which no event ID appears twice, in any log, and a       *)
(* client that reads a log from its cursor gets every event exactly once,  *)
(* in order.  RealtimeOutbox is shown to implement it.                     *)
(***************************************************************************)
EXTENDS Naturals, Sequences, Functions

CONSTANTS Events, Targets

VARIABLES log,   \* the events of each target, oldest first
          read   \* how many of them the target's client has applied

LogInit == /\ log = [t \in Targets |-> <<>>]
           /\ read = [t \in Targets |-> 0]

Logged(e) == \E t \in Targets : e \in Range(log[t])

Record(e, t) ==
    /\ ~Logged(e)
    /\ log' = [log EXCEPT ![t] = Append(@, e)]
    /\ UNCHANGED read

\* The client applies the next events of its log.
Apply(t) ==
    /\ \E n \in DOMAIN log[t] :
          n > read[t] /\ read' = [read EXCEPT ![t] = n]
    /\ UNCHANGED log

LogNext == \/ \E e \in Events, t \in Targets : Record(e, t)
           \/ \E t \in Targets : Apply(t)

LogSpec == LogInit /\ [][LogNext]_<<log, read>>
=============================================================================
