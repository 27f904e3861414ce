------------------------------- MODULE Chain -------------------------------
(***************************************************************************)
(* The chain ("linear") topology, atm/topology/chain.py, without a human   *)
(* reviewer (adaptive dispatch builds it without one):                     *)
(*   planner -> executor -> critic -> critic_postprocess -> retry | END.   *)
(* A step takes the shared state to the set of its possible results.       *)
(***************************************************************************)
EXTENDS SharedState

ChainEntry(s) == PlannerStep(s)

\* _critic_postprocess pins the phase; _route_from_critic counts before it decides.
\* Faulty: only the iteration of the phase is counted.
ChainTurnUncounted(s) == [s EXCEPT !.phase = "execution", !.iteration = @ + 1]

ChainTurn(s) ==
  [s EXCEPT !.phase = "execution", !.iter_total = @ + 1, !.iteration = @ + 1]

\* executor, critic, _critic_postprocess and the count.
ChainRound(s) ==
  { ChainTurn(SetApproved(CriticStep(ExecutorStep(s, w), approved), approved)) :
    w \in SUBSET ExecutorSignals, approved \in BOOLEAN }

\* Faulty: retries until the critic approves.
ChainStopsApproved(s) == "critic_approved" \in s.signals

ChainStops(s) == s.iter_total >= SubMax \/ "critic_approved" \in s.signals
=============================================================================
