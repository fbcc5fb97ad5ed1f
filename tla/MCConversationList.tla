-------------------------- MODULE MCConversationList --------------------------
(* Two conversations with one message each. *)
EXTENDS ConversationList, TLC

CONSTANTS a, b

MCFirst == (a :> 1) @@ (b :> 2)
Symmetry == Permutations(Slots)
===============================================================================
