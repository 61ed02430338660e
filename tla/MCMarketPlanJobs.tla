-------------------------- MODULE MCMarketPlanJobs --------------------------
(* Small instances of MarketPlanJobs for TLC. *)
EXTENDS MarketPlanJobs, TLC

\* Rows, processes, tokens and constraint hashes are interchangeable (safety
\* runs only).
Symmetry == Permutations(Jobs) \cup Permutations(Procs) \cup
            Permutations(Tokens) \cup Permutations(Hashes)
=============================================================================
