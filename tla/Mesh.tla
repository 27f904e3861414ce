-------------------------------- MODULE Mesh --------------------------------
(***************************************************************************)
(* The mesh topology, atm/topology/mesh.py, round-robin activation without *)
(* a human peer: dispatcher -> agent -> broadcast -> postprocess, until    *)
(* consensus, the round limit or the iteration limit. The dispatch round   *)
(* lives in signals["_mesh_dispatch_round"] and survives the subgraph.     *)
(***************************************************************************)
EXTENDS SharedState

CONSTANTS
  MeshMaxRounds,     \* extras["max_rounds"]
  MeshOrder,         \* extras["agent_order"], as roles
  MeshConsensus      \* the outcomes of the vote tally: {FALSE} when no agent casts vote_for

ASSUME MeshAssumption ==
  /\ MeshMaxRounds \in Nat
  /\ MeshOrder \in Seq({"planner", "researcher", "executor", "critic"}) /\ Len(MeshOrder) > 0
  /\ MeshConsensus \subseteq BOOLEAN

\* dispatcher_node: the index and the round advance together, so the agent of a
\* round is the round modulo the number of agents.
MeshAgent(s) == MeshOrder[(s.mesh_dispatch_round % Len(MeshOrder)) + 1]

\* A step of one of the agents of the mesh.
AgentStep(agent, s) ==
  CASE agent = "planner" -> {PlannerStep(s)}
    [] agent = "executor" -> {ExecutorStep(s, w) : w \in SUBSET ExecutorSignals}
    [] agent = "critic" -> {CriticStep(s, approved) : approved \in BOOLEAN}
    [] OTHER -> {s}

MeshWorker(s) == AgentStep(MeshAgent(s), s)

\* mesh_postprocess_node counts the iteration and records the tally.
MeshTally(s, consensus) ==
  [s EXCEPT !.mesh_dispatch_round = @ + 1,
            !.iter_total = @ + 1,
            !.signals = IF consensus THEN @ \cup {"consensus_reached"}
                                     ELSE @ \ {"consensus_reached"}]

MeshRound(s) == { MeshTally(t, consensus) : t \in MeshWorker(s), consensus \in MeshConsensus }

MeshStops(s) ==
  \/ s.iter_total >= SubMax
  \/ "consensus_reached" \in s.signals
  \/ s.mesh_dispatch_round >= MeshMaxRounds
=============================================================================
