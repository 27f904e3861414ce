------------------------------ MODULE MCCalls ------------------------------
(* The two debaters of one run, with room for two calls before the ceiling. *)
EXTENDS Calls

CONSTANTS only, a, b

OneRun == [c \in Agent |-> only]

-----------------------------------------------------------------------------
(* What the code's documentation says and the model refutes. No run checks *)
(* these: README.md, section 5, says what TLC finds for each.              *)

\* llm/budget.py:59: per_run_usd is the maximum "cumulative across calls in one run", give
\* or take the calls in flight. A resumed run has a tracker that starts at zero.
RunCeiling == \A r \in Run : earlier[r] + totals[r].run <= RunLimit + Width * MaxCost

\* llm/budget.py:60: per_experiment_usd is the maximum "across all runs in an experiment".
ExperimentCeiling ==
  MapThenSumSet(LAMBDA r : earlier[r] + totals[r].experiment, Run)
    <= ExperimentLimit + Width * MaxCost * Cardinality(Run)

\* agents/base.py:13, :73 and :118, agents/executor.py:129: the scratchpad is append-only,
\* the reducer concatenates, the scratchpad in the state is the full accumulated one.
ScratchpadAppends ==
  [][\A r \in Run : Commit(r) =>
       \A c \in Active(r) : memory'[c].scratchpad = memory[c].scratchpad \o delta[c].scratchpad]_vars
=============================================================================
