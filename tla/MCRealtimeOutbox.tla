-------------------------- MODULE MCRealtimeOutbox --------------------------
(***************************************************************************)
(* A small instance of RealtimeOutbox for TLC.                             *)
(***************************************************************************)
EXTENDS RealtimeOutbox

CONSTANTS i1, t1

\* The intent is addressed to the first of two devices.
FirstTarget == [i \in {i1} |-> t1]
=============================================================================
