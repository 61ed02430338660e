----------------------------- MODULE MCDelivery ------------------------------
(***************************************************************************)
(* What a connection does with the hub, and with the acknowledgements of   *)
(* its device, for TLC.                                                    *)
(***************************************************************************)
EXTENDS Delivery, TLC

\* Connections, publishing goroutines and event IDs are alike.
Symmetry == Permutations(Subs) \cup Permutations(Publishers) \cup Permutations(Ids)
=============================================================================
