-------------------------- MODULE MCConversations --------------------------
(* Handlers are interchangeable goroutines. *)
EXTENDS Conversations, TLC

HandlerSymmetry == Permutations(Handlers)
=============================================================================
