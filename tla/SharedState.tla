---------------------------- MODULE SharedState ----------------------------
(***************************************************************************)
(* state["shared"] of a run: the part of GraphState every node reads and   *)
(* writes (atm/core/state.py), reduced to the keys that control the run.   *)
(*                                                                         *)
(* The signals dictionary is split by how its keys are used: `signals`     *)
(* holds the keys whose value is truthy, the two counters and the advisor  *)
(* hint are fields of their own. A counter is only ever compared, so       *)
(* rejected_count saturates at RejectThreshold.                            *)
(***************************************************************************)
EXTENDS Integers, Sequences

CONSTANTS
  SubMax,            \* max_iterations of the topology that runs (of a subgraph, under adaptive)
  RejectThreshold,   \* RuleBasedTopologyRouter._REJECT_THRESHOLD
  PlannerSignals,    \* what planner.step() emits: {} (Agent) or {"ready_for_execution"} (Planner)
  ExecutorSignals    \* what executor.step() may emit: {} (Agent) or {"stuck", ...} (Executor)

ASSUME SharedAssumption ==
  /\ SubMax \in Nat \ {0}
  /\ RejectThreshold \in Nat \ {0}
  /\ PlannerSignals \subseteq {"ready_for_execution"}
  /\ ExecutorSignals \subseteq {"stuck", "ready_for_verification"}

-----------------------------------------------------------------------------
(* Phases: planning -> execution -> verification -> done.                  *)

Phase == {"planning", "execution", "verification", "done"}

PhaseOrder(p) ==
  CASE p = "planning" -> 0
    [] p = "execution" -> 1
    [] p = "verification" -> 2
    [] OTHER -> 3

NextPhase(p) ==
  CASE p = "planning" -> "execution"
    [] p = "execution" -> "verification"
    [] OTHER -> "done"

\* The signal that lets the run leave a phase; "none" for done.
AdvanceSignal(p) ==
  CASE p = "planning" -> "ready_for_execution"
    [] p = "execution" -> "ready_for_verification"
    [] p = "verification" -> "critic_approved"
    [] OTHER -> "none"

-----------------------------------------------------------------------------
(* Topology names as configurations, routers and humans spell them. A name *)
(* the registry does not know is represented by "unregistered".            *)

ValidTopologies == {"linear", "supervisor", "mesh", "debate", "hierarchical"}

TopologyName == ValidTopologies \cup {"chain", "star", "adaptive", "unregistered"}

NoTopology == "None"

\* The registered topology a name dispatches to (_TOPO_ALIAS, then the registry;
\* "adaptive" is refused by dispatch and an unknown name falls back to chain).
Registered(name) ==
  CASE name \in {"supervisor", "star"} -> "star"
    [] name \in {"mesh", "debate", "hierarchical"} -> name
    [] OTHER -> "chain"

-----------------------------------------------------------------------------
SignalFlag ==
  {"ready_for_execution", "ready_for_verification", "critic_approved", "stuck",
   "needs_revision", "consensus_reached", "judge_decided",
   "activate_team_a", "activate_team_b", "team_a_draft", "team_b_draft",
   "top_coord_finalize"}

\* The keys of shared["signals"] a reason may mention: those the routers and
\* topologies look up, except mesh's own underscored ones.
SignalKey == SignalFlag \cup {"rejected_count", "phase_switch_count"}

\* What the human_advisor_hint key can hold: nothing, a text that names one
\* valid topology, or any other text (including the "override_..." notes).
NoHint == "no_hint"
OtherHint == "other_hint"
Hint == ValidTopologies \cup {NoHint, OtherHint}

\* phase_switch_count is absent until the first gate that writes it.
Absent == -1

Shared ==
  [phase : Phase,
   phase_started_at_iter : Nat,
   iteration : Nat,
   iter_total : Nat,
   meta_ticks : Nat,
   active_topology : TopologyName \cup {NoTopology},
   topology_started_at_iter : Nat,
   topology_switch_count : Nat,
   topology_history : Seq(TopologyName),
   signals : SUBSET SignalFlag,
   rejected_count : 0..RejectThreshold,
   phase_switch_count : Nat \cup {Absent},
   human_advisor_hint : Hint,
   mesh_dispatch_round : Nat,
   debate_round : Nat]

\* Runner._build_initial_state for topology "adaptive".
InitialShared ==
  [phase |-> "planning",
   phase_started_at_iter |-> 0,
   iteration |-> 0,
   iter_total |-> 0,
   meta_ticks |-> 0,
   active_topology |-> NoTopology,
   topology_started_at_iter |-> 0,
   topology_switch_count |-> 0,
   topology_history |-> << >>,
   signals |-> {},
   rejected_count |-> 0,
   phase_switch_count |-> Absent,
   human_advisor_hint |-> NoHint,
   mesh_dispatch_round |-> 0,
   debate_round |-> 0]

-----------------------------------------------------------------------------
(* One step of an agent, as far as the shared state sees it.               *)

PlannerStep(s) == [s EXCEPT !.signals = @ \cup PlannerSignals]

\* w: the signals this call of the executor happens to emit.
ExecutorStep(s, w) == [s EXCEPT !.signals = @ \cup w]

\* A rejection is counted; an approval raises critic_approved. A rejection does
\* not take an earlier critic_approved back.
CriticStep(s, approved) ==
  IF approved
  THEN [s EXCEPT !.signals = @ \cup {"critic_approved"}]
  ELSE [s EXCEPT !.rejected_count = IF @ < RejectThreshold THEN @ + 1 ELSE @]

\* _critic_postprocess of chain and star: the signal is set to this verdict.
SetApproved(s, approved) ==
  [s EXCEPT !.signals = IF approved THEN @ \cup {"critic_approved"}
                                    ELSE @ \ {"critic_approved"}]
=============================================================================
