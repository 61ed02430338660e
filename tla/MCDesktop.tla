----------------------------- MODULE MCDesktop ------------------------------
(***************************************************************************)
(* The desktop application's log ingestion and realtime client for TLC,    *)
(* one of them at a time: they share a process and nothing that any of the *)
(* properties is about.                                                    *)
(***************************************************************************)
EXTENDS LogTail, DesktopRealtime

VARIABLE part

\* Lengths of the two log files.
FileBytes == <<2, 3>>

Init == part \in {"tail", "client"} /\ TailInit /\ ClientInit

Next == \/ part = "tail" /\ TailNext /\ UNCHANGED <<part, clientVars>>
        \/ part = "client" /\ ClientNext /\ UNCHANGED <<part, tailVars>>

vars == <<part, tailVars, clientVars>>
Spec == Init /\ [][Next]_vars
            /\ WF_vars(part = "tail" /\ Scan /\ UNCHANGED <<part, clientVars>>)
            /\ WF_vars(part = "client" /\ Take /\ UNCHANGED <<part, tailVars>>)
            /\ \A g \in 1..MaxStarts :
                 WF_vars(part = "client" /\ Run(g) /\ UNCHANGED <<part, tailVars>>)
=============================================================================
