------------------------------- MODULE MCSolo -------------------------------
(* Every topology with every part a human can play, up to ten iterations. *)
EXTENDS Solo

CONSTANTS x, y

MCMeshOrder == <<"executor", "critic">>
=============================================================================
