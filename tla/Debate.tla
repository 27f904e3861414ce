------------------------------- MODULE Debate -------------------------------
(***************************************************************************)
(* The debate topology, atm/topology/debate.py, with an LLM judge: the     *)
(* planner opens, then pro and contra argue and the judge (a Critic)       *)
(* decides, round after round. debate_round survives the subgraph.         *)
(***************************************************************************)
EXTENDS SharedState

CONSTANT DebateMaxRounds
ASSUME DebateAssumption == DebateMaxRounds \in Nat

\* planner_node: an iteration of its own; no stop test before the first round.
DebateOpening(s) == [PlannerStep(s) EXCEPT !.iter_total = @ + 1]

\* _judge_postprocess: the round, the iteration and the decision.
DebateVerdict(s, approved) ==
  [s EXCEPT !.debate_round = @ + 1,
            !.iter_total = @ + 1,
            !.signals = IF approved THEN @ \cup {"judge_decided"} ELSE @ \ {"judge_decided"}]

DebateRound(s) == { DebateVerdict(CriticStep(s, approved), approved) : approved \in BOOLEAN }

DebateStops(s) ==
  \/ s.iter_total >= SubMax
  \/ "judge_decided" \in s.signals
  \/ s.debate_round >= DebateMaxRounds
=============================================================================
