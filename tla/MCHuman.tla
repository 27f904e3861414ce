------------------------------- MODULE MCHuman -------------------------------
(* Every way to ask, with two ids and a resumed execution. *)
EXTENDS Human
=============================================================================
