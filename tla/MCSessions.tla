----------------------------- MODULE MCSessions -----------------------------
(* Handlers are interchangeable; session IDs are not (CHOOSE picks one). *)
EXTENDS Sessions, TLC

HandlerSymmetry == Permutations(Handlers)
=============================================================================
