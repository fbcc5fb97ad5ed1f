---- MODULE MCProcessing ----
(* A small instance of the processing chain. *)
EXTENDS Processing
====
