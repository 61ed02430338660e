------------------------- MODULE MCMarketScheduler -------------------------
(* Small instances of MarketScheduler for TLC; tokens are chosen by CHOOSE. *)
EXTENDS MarketScheduler

\* The schedule ranks the other regions above those that clients refresh, or
\* all alike.
SomeSchedules == {[r \in Regions |-> IF r \in Refreshed THEN 0 ELSE n] : n \in {0, 1}}
=============================================================================
