----------------------------- MODULE MCEsiSync ------------------------------
(* No symmetry: liveness is checked, and tokens are chosen by CHOOSE. *)
EXTENDS EsiSync
=============================================================================
