------------------------------- MODULE MCGrid -------------------------------
(* One worker, and one cell more than it and the queue of the pool can hold. *)
EXTENDS Grid

-----------------------------------------------------------------------------
(* A sentence of the repository that the code does not keep. No run checks *)
(* it; as an INVARIANT it yields a short counterexample.                   *)

\* grid.py: "mix of completed and failure-class -> partial", so an experiment that
\* has a completed row is not failed, as long as no worker died.
FailedMeansNone ==
  experiment = "failed" /\ At({"broken"}) = {} => \A c \in Cell : row[c] # "completed"
=============================================================================
