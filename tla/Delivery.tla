------------------------------ MODULE Delivery ------------------------------
(***************************************************************************)
(* What a WebSocket connection uses of the delivery: the hub's queue of    *)
(* its device and the acknowledgements in the database.  The two share no  *)
(* variable; a behaviour of DeliverySpec runs one of them.                 *)
(***************************************************************************)
EXTENDS Hub, DeliveryAck

VARIABLE part   \* the one that runs

DeliveryInit == part \in {"hub", "ack"} /\ HubInit /\ AckInit /\ (part = "ack" => ~delivery)

DeliveryNext == \/ part = "hub" /\ HubNext /\ UNCHANGED <<part, ackVars>>
                \/ part = "ack" /\ AckNext /\ UNCHANGED <<part, hubVars>>

DeliverySpec == DeliveryInit /\ [][DeliveryNext]_<<part, hubVars, ackVars>>

-----------------------------------------------------------------------------
\* Type correctness of the hub and of the acknowledgements, and: whoever closes
\* a subscription, and however often, a closed one receives nothing more.
DeliveryInvariant == HubTypeOK /\ AckTypeOK /\ ClosedIsUnregistered
=============================================================================
