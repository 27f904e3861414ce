-------------------------------- MODULE Star --------------------------------
(***************************************************************************)
(* The star ("supervisor") topology, atm/topology/star.py: a coordinator   *)
(* counts, advances the phase and sends the turn to the worker of the      *)
(* phase, until the run is done or the iteration limit is reached.         *)
(***************************************************************************)
EXTENDS SharedState

CONSTANTS StarPlanningMax, StarExecMax, StarVerifyMax
ASSUME StarAssumption ==
  {StarPlanningMax, StarExecMax, StarVerifyMax} \subseteq Nat

StarCap(p) ==
  CASE p = "planning" -> StarPlanningMax
    [] p = "execution" -> StarExecMax
    [] OTHER -> StarVerifyMax

\* coordinator_node: phase_started_at_iter moves with the phase except when
\* the phase becomes done.
StarCoordinator(s) ==
  LET n == s.iter_total + 1
      advance == /\ s.phase # "done"
                 /\ \/ AdvanceSignal(s.phase) \in s.signals
                    \/ n - s.phase_started_at_iter >= StarCap(s.phase)
  IN [s EXCEPT !.iter_total = n,
               !.iteration = @ + 1,
               !.phase = IF advance THEN NextPhase(@) ELSE @,
               !.phase_started_at_iter =
                 IF advance /\ s.phase # "verification" THEN n ELSE @]

\* _route_from_coord. (It first obeys the signal human_phase_override, star.py:173-187,
\* which no code of the repository writes; SharedState has no such signal.)
StarStops(s) == s.iter_total >= SubMax \/ s.phase = "done"

StarWorker(s) ==
  CASE s.phase = "planning" -> {PlannerStep(s)}
    [] s.phase = "execution" -> {ExecutorStep(s, w) : w \in SUBSET ExecutorSignals}
    [] OTHER -> {SetApproved(CriticStep(s, approved), approved) : approved \in BOOLEAN}

\* One turn: the coordinator, then the worker it routes to unless it stops.
StarRound(s) ==
  LET c == StarCoordinator(s) IN IF StarStops(c) THEN {c} ELSE StarWorker(c)
=============================================================================
