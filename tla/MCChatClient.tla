----------------------------- MODULE MCChatClient -----------------------------
(* Pages of one message put a page's edge between any two messages; two      *)
(* messages of the history may share a millisecond.                          *)
EXTENDS ChatClient

CONSTANT a

Old(at) == [conv |-> a, at |-> at, own |-> FALSE]

MCHistory == {<<Old(1), Old(1)>>}
===============================================================================
