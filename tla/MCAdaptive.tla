----------------------------- MODULE MCAdaptive -----------------------------
(* Small instances of Adaptive: a rule router with an overriding human, an *)
(* LLM router, and an oracle table without guards.                         *)
EXTENDS Adaptive

MCMeshOrder == <<"executor", "critic">>

\* The oracle plans in teams, executes under a name nobody registered, and
\* verifies in a debate.
MCOracle == [p \in Phase |->
  CASE p = "planning" -> "hierarchical" [] p = "execution" -> "unregistered" [] OTHER -> "debate"]

\* What free texts mention: nothing, the signals of the rules, the phase counter.
MCMentions == {{}, {"stuck", "rejected_count"}}
MCMentionsCounter == {{}, {"phase_switch_count"}}

\* What a human asks for: a topology under both of its names, another, the meta-graph.
MCHuman == {"linear", "chain", "supervisor", "hierarchical", "adaptive"}
=============================================================================
