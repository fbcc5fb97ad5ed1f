---- MODULE MCChatService ----
(* Small instances of the chat backend; the configurations choose the      *)
(* requests clients issue.                                                 *)
EXTENDS ChatService, TLC

Symmetry == Permutations(Users) \cup Permutations(Procs)
====
