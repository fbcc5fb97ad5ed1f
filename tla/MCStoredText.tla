---------------------------- MODULE MCStoredText ----------------------------
(* Texts around the length of the field, of letters of one to three bytes. *)
EXTENDS StoredText

MCTexts == UNION {[1 .. n -> {113, 233, 7871}] : n \in 0 .. 4}
=============================================================================
