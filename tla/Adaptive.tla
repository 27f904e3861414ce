------------------------------ MODULE Adaptive ------------------------------
(***************************************************************************)
(* The adaptive meta-graph, atm/topology/adaptive.py, with the topologies  *)
(* it dispatches to. One tick of the loop is                               *)
(*                                                                         *)
(*   phase_router -> topology_router -> [human_advisor] -> dispatch        *)
(*       -> rounds of the sub-topology -> gate -> phase_router | end       *)
(*                                                                         *)
(* The graph runs one node at a time. `shared` is the state the nodes pass *)
(* on; the three slots are closure variables of build(), outside it.       *)
(***************************************************************************)
EXTENDS Routing, Chain, Star, Mesh, Debate, Hierarchical

CONSTANTS
  MaxIter,          \* cfg.max_iterations (30 when unset)
  MaxTicks,         \* _DEFAULT_MAX_TICKS
  HistoryTail,      \* _HISTORY_TAIL
  HumanMode,        \* "off", "advise", or "override" (human_can_override_router)
  HumanTopologies   \* the registered names a human may ask for in switch_topology

ASSUME AdaptiveAssumption ==
  /\ {MaxIter, MaxTicks, HistoryTail} \subseteq Nat \ {0}
  /\ Cooldown <= HistoryTail
  /\ HumanMode \in {"off", "advise", "override"}
  /\ HumanTopologies \subseteq TopologyName \ {"unregistered"}

VARIABLES
  pc,          \* the node that runs next
  shared,      \* state["shared"]
  entry,       \* the shared state handed to the running sub-topology
  phase_dec,   \* _phase_dec_slot
  topo_dec,    \* _topo_dec_slot
  pre_phase,   \* _pre_subgraph_phase_slot
  transition,  \* the TopologyTransition the last gate recorded
  announced,   \* the phase the last "phase_transition" event announced
  ran,         \* observer: the registered topology dispatched in this tick
  switches     \* observer: switches since the gate last changed the phase

vars == <<pc, shared, entry, phase_dec, topo_dec, pre_phase, transition,
          announced, ran, switches>>
slots == <<phase_dec, topo_dec, pre_phase>>
records == <<transition, announced, ran, switches>>

SubNode == {"chain", "star", "mesh", "debate_opening", "debate",
            "hier_top", "hier_a", "hier_b"}
Node == SubNode \cup {"phase_router", "topology_router", "human_advisor", "dispatch", "gate"}
Final == {"end", "failed"}

NoPhase == "no_phase"
NoDecision == Decision("linear", "none", {})
NoTransition == [from |-> NoTopology, to |-> NoTopology, phase |-> NoPhase, by |-> "none"]

TypeOK ==
  /\ pc \in Node \cup Final
  /\ shared \in Shared
  /\ entry \in Shared
  /\ phase_dec \in Phase \cup {NoPhase}
  /\ topo_dec \in TopologyDecision \cup {NoDecision}
  /\ pre_phase \in Phase \cup {NoPhase}
  /\ transition \in [from : TopologyName \cup {NoTopology}, to : TopologyName,
                     phase : Phase, by : DecidedBy] \cup {NoTransition}
  /\ announced \in Phase
  /\ ran \in {"chain", "star", "mesh", "debate", "hierarchical", NoTopology}
  /\ switches \in Nat

Init ==
  /\ pc = "phase_router"
  /\ shared = InitialShared
  /\ entry = InitialShared
  /\ phase_dec = NoPhase
  /\ topo_dec = NoDecision
  /\ pre_phase = NoPhase
  /\ transition = NoTransition
  /\ announced = "planning"
  /\ ran = NoTopology
  /\ switches = 0

-----------------------------------------------------------------------------
PhaseRouter ==
  /\ pc = "phase_router"
  /\ pre_phase' = shared.phase
  /\ phase_dec' = DecidedPhase(shared)
  /\ pc' = "topology_router"
  /\ UNCHANGED <<shared, entry, topo_dec, records>>

TopologyRouter ==
  /\ pc = "topology_router"
  /\ \E d \in RawDecisions(shared) : topo_dec' = Guarded(shared, d)
  /\ pc' = IF HumanMode = "off" THEN "dispatch" ELSE "human_advisor"
  /\ UNCHANGED <<shared, entry, phase_dec, pre_phase, records>>

\* An LLM answer that is JSON but not an object escapes the fallback: the test
\* `"topology" not in data` and the lookup that follows are outside any try.
TopologyRouterRaises ==
  /\ pc = "topology_router" /\ RouterMode = "llm"
  /\ pc' = "failed"
  /\ UNCHANGED <<shared, entry, slots, records>>

-----------------------------------------------------------------------------
(* human_advisor_node. The response arrived (possibly from the timeout     *)
(* policy); the advisor never leaves the hint it found.                    *)

Hinting(h) == shared' = [shared EXCEPT !.human_advisor_hint = h]

\* advise, abstain, or any action when overriding is off: the comment, if not
\* blank, becomes the hint.
HumanAdvise ==
  /\ pc = "human_advisor"
  /\ \E h \in Hint : Hinting(IF h = NoHint THEN shared.human_advisor_hint ELSE h)
  /\ pc' = "dispatch"
  /\ UNCHANGED <<entry, slots, records>>

\* switch_topology to a known name. The guards are asked only when the name
\* differs from the router's decision; a refusal keeps that decision.
HumanOverride ==
  /\ pc = "human_advisor" /\ HumanMode = "override"
  /\ \E t \in HumanTopologies, m \in ReasonMentions :
       topo_dec' = IF UseGuards /\ t # topo_dec.topology /\ Blocked(shared, t)
                   THEN Decision(topo_dec.topology, "guard_override", {})
                   ELSE Decision(t, "human_override", m)
  /\ Hinting(OtherHint)
  /\ pc' = "dispatch"
  /\ UNCHANGED <<entry, phase_dec, pre_phase, records>>

\* timeout_policy "fail" raises out of the node, as a gateway error does.
HumanFails ==
  /\ pc = "human_advisor"
  /\ pc' = "failed"
  /\ UNCHANGED <<shared, entry, slots, records>>

-----------------------------------------------------------------------------
(* dispatch_topology_node.                                                 *)

DispatchName ==
  LET name == IF topo_dec # NoDecision THEN topo_dec.topology ELSE ActiveOr(shared, "linear")
  IN IF name = "adaptive" THEN "linear" ELSE name

\* The node's own caps: it returns to the gate without running anything.
DispatchCapped(s) == s.meta_ticks > MaxTicks \/ s.iter_total >= MaxIter

EntryNode(kind) ==
  CASE kind = "debate" -> "debate_opening"
    [] kind = "hierarchical" -> "hier_top"
    [] OTHER -> kind

Dispatch ==
  LET kind == Registered(DispatchName)
      ticked == [shared EXCEPT !.meta_ticks = @ + 1]
  IN /\ pc = "dispatch"
     /\ entry' = ticked
     /\ IF DispatchCapped(ticked)
        THEN /\ shared' = [ticked EXCEPT !.active_topology = DispatchName]
             /\ pc' = "gate"
             /\ ran' = NoTopology
        ELSE /\ shared' = IF kind = "chain" THEN ChainEntry(ticked) ELSE ticked
             /\ pc' = EntryNode(kind)
             /\ ran' = kind
     /\ UNCHANGED <<slots, transition, announced, switches>>

\* An exception of the sub-topology (an agent, the budget, the recursion limit)
\* is swallowed and its work is dropped: the node returns what it handed over.
SubTopologyRaises ==
  /\ pc \in SubNode
  /\ shared' = entry
  /\ pc' = "gate"
  /\ UNCHANGED <<entry, slots, records>>

SubStep(node, results, Stops(_), again) ==
  /\ pc = node
  /\ shared' \in results
  /\ pc' = IF Stops(shared') THEN "gate" ELSE again
  /\ UNCHANGED <<entry, slots, records>>

Never(s) == FALSE

RunChain == SubStep("chain", ChainRound(shared), ChainStops, "chain")
RunStar == SubStep("star", StarRound(shared), StarStops, "star")
RunMesh == SubStep("mesh", MeshRound(shared), MeshStops, "mesh")
OpenDebate == SubStep("debate_opening", {DebateOpening(shared)}, Never, "debate")
RunDebate == SubStep("debate", DebateRound(shared), DebateStops, "debate")
RunTeamA == SubStep("hier_a", TeamA(shared), Never, "hier_b")
RunTeamB == SubStep("hier_b", TeamB(shared), TeamBStops, "hier_a")

RunTopCoord ==
  /\ pc = "hier_top"
  /\ shared' = TopCoord(shared)
  /\ pc' = CASE TopCoordRoute(shared') = "team_a" -> "hier_a"
             [] TopCoordRoute(shared') = "team_b" -> "hier_b"
             [] OTHER -> "gate"
  /\ UNCHANGED <<entry, slots, records>>

-----------------------------------------------------------------------------
(* transition_gate_node and apply_transition_gate.                         *)

\* Faulty: the gate trusts the phase the sub-topology came back with.
MaxPhaseTrusting(p, q) == q

MaxPhase(p, q) == IF PhaseOrder(p) > PhaseOrder(q) THEN p ELSE q

LastN(h, n) == IF Len(h) > n THEN SubSeq(h, Len(h) - n + 1, Len(h)) ELSE h

\* The decisions with the fallbacks the node uses for an empty slot.
GatePhase == IF phase_dec # NoPhase THEN phase_dec ELSE shared.phase
GateDecision ==
  IF topo_dec # NoDecision THEN topo_dec ELSE Decision(ActiveOr(shared, "linear"), "rule", {})

\* Forget the signals a switch consumed: those its reason mentions.
Consume(s, keys) ==
  [s EXCEPT !.signals = @ \ keys,
            !.rejected_count = IF "rejected_count" \in keys THEN 0 ELSE @,
            !.phase_switch_count = IF "phase_switch_count" \in keys THEN Absent ELSE @]

\* The first adoption is not a switch. Faulty: it is.
TopologyChangedFirst(s, t) == t # s.active_topology
TopologyChanged(s, t) == s.active_topology # NoTopology /\ t # s.active_topology

EnterPhase(s, p) ==
  [s EXCEPT !.phase = p, !.phase_started_at_iter = s.iter_total, !.phase_switch_count = 0]

\* Faulty: the topology starts at the iteration to come.
AdoptNext(s, t) ==
  [s EXCEPT !.active_topology = t, !.topology_started_at_iter = s.iter_total + 1]

Adopt(s, t) == [s EXCEPT !.active_topology = t, !.topology_started_at_iter = s.iter_total]

\* Faulty: the history is not cut to its tail.
CountSwitchUntrimmed(s) ==
  [s EXCEPT !.topology_switch_count = @ + 1,
            !.phase_switch_count = (IF @ = Absent THEN 0 ELSE @) + 1,
            !.topology_history = Append(@, s.active_topology)]

CountSwitch(s) ==
  [s EXCEPT !.topology_switch_count = @ + 1,
            !.phase_switch_count = (IF @ = Absent THEN 0 ELSE @) + 1,
            !.topology_history = LastN(Append(@, s.active_topology), HistoryTail)]

\* apply_transition_gate: `before` is the phase before the sub-topology ran. The
\* phase is the further of the router's and the sub-topology's; it is written
\* only when it differs from `before`.
GateResult(s, before, routed, d) ==
  LET next == MaxPhase(routed, s.phase)
      phase_changed == next # before
      topology_changed == TopologyChanged(s, d.topology)
      s1 == IF phase_changed THEN EnterPhase(s, next) ELSE s
      s2 == IF topology_changed THEN CountSwitch(s1) ELSE s1
      s3 == IF topology_changed \/ s.active_topology = NoTopology
            THEN Adopt(s2, d.topology) ELSE s2
      s4 == [s3 EXCEPT !.iteration = IF phase_changed \/ topology_changed THEN 0 ELSE @ + 1]
      s5 == IF phase_changed THEN Consume(s4, {AdvanceSignal(before)})
            ELSE IF topology_changed THEN Consume(s4, d.mentions)
            ELSE s4
  IN [s5 EXCEPT !.human_advisor_hint = NoHint]

\* Faulty: the tick cap is tested one tick late.
ShouldEndLate(s) == s.phase = "done" \/ s.iter_total >= MaxIter \/ s.meta_ticks > MaxTicks

ShouldEnd(s) == s.phase = "done" \/ s.iter_total >= MaxIter \/ s.meta_ticks >= MaxTicks

Gate ==
  LET before == IF pre_phase # NoPhase THEN pre_phase ELSE shared.phase
      d == GateDecision
      after == GateResult(shared, before, GatePhase, d)
  IN /\ pc = "gate"
     /\ shared' = after
     /\ transition' = [from |-> shared.active_topology, to |-> d.topology,
                       phase |-> before, by |-> d.decided_by]
     /\ announced' = IF after.phase # shared.phase THEN after.phase ELSE announced
     /\ switches' = (IF MaxPhase(GatePhase, shared.phase) # before THEN 0 ELSE switches)
                    + (after.topology_switch_count - shared.topology_switch_count)
     /\ phase_dec' = NoPhase
     /\ topo_dec' = NoDecision
     /\ pre_phase' = NoPhase
     /\ pc' = IF ShouldEnd(after) THEN "end" ELSE "phase_router"
     /\ UNCHANGED <<entry, ran>>

-----------------------------------------------------------------------------
SubTopologyStep ==
  \/ RunChain \/ RunStar \/ RunMesh
  \/ OpenDebate \/ RunDebate
  \/ RunTopCoord \/ RunTeamA \/ RunTeamB
  \/ SubTopologyRaises

Step ==
  \/ PhaseRouter
  \/ TopologyRouter \/ TopologyRouterRaises
  \/ HumanAdvise \/ HumanOverride \/ HumanFails
  \/ Dispatch
  \/ SubTopologyStep
  \/ Gate

\* The run is over; nothing happens any more.
Finished == pc \in Final /\ UNCHANGED vars

Next == Step \/ Finished

Spec == Init /\ [][Next]_vars

\* Every node runs to completion: an LLM call returns or raises, a human answers or
\* runs into timeout_s, so a graph with a next node goes on.
FairSpec == Spec /\ WF_vars(Step)

-----------------------------------------------------------------------------
(* Correctness.                                                            *)

MaxOf(a, b) == IF a > b THEN a ELSE b

\* Dispatch never meets its own caps: the loop test after each gate ends the
\* run first, so no tick is spent on a sub-topology that does not run.
NeverDispatchPastCap ==
  pc = "dispatch" => shared.phase # "done" /\ ~DispatchCapped([shared EXCEPT !.meta_ticks = @ + 1])

\* max_iterations is checked between ticks only: a sub-topology may overrun it,
\* but by no more than its own limit and the one iteration a debate opening or
\* a pair of teams adds.
IterationOvershoot == shared.iter_total <= MaxOf(MaxIter, SubMax) + 1

\* A sub-topology that returned has counted at least one iteration, and one that
\* raised left no trace: no work escapes the iteration budget.
WorkIsCounted == pc = "gate" /\ shared # entry => shared.iter_total > entry.iter_total

\* The windows the guards and the coordinator measure never run backwards.
WindowsOpen ==
  /\ shared.topology_started_at_iter <= shared.iter_total
  /\ shared.phase_started_at_iter <= shared.iter_total

\* The history is what the counter counts: its length follows the counter up to
\* the tail, neighbours differ, and the active topology is not the one just left.
HistoryConsistent ==
  LET h == shared.topology_history
      path == Append(h, shared.active_topology)
  IN /\ shared.active_topology = NoTopology => h = << >>
     /\ Len(h) = (IF shared.topology_switch_count < HistoryTail
                  THEN shared.topology_switch_count ELSE HistoryTail)
     /\ \A i \in DOMAIN h : path[i] # path[i + 1]

\* SwitchGuards.max_per_phase: no more switches between two phase changes than the
\* guard allows, however the router and the human share the decision.
PhaseSwitchBudget == UseGuards => switches <= MaxPerPhase

\* With guards the meta-graph implements TopologyControl: the clock is the
\* iterations done, which a running sub-topology's own count joins when it returns.
Control == INSTANCE TopologyControl WITH
  Names <- TopologyName, None <- NoTopology,
  active <- shared.active_topology,
  left <- shared.topology_history,
  count <- shared.topology_switch_count,
  since <- shared.topology_started_at_iter,
  clock <- IF pc \in SubNode THEN entry.iter_total ELSE shared.iter_total

ControlSpec == Control!Spec

\* An advance the phase router decided survives the sub-topology and the gate.
AdvanceNotLost ==
  [][pc = "gate" /\ PhaseOrder(phase_dec) > PhaseOrder(pre_phase)
       => PhaseOrder(shared'.phase) >= PhaseOrder(phase_dec)]_vars

\* Every run ends: done, at a cap, or with an error.
Terminates == <>(pc \in Final)

\* Phase (types.py: "Monotonic phase of a run", "Phases are monotonic"): a gate
\* never leaves the run in an earlier phase than the one its tick began in.
PhaseMonotonic ==
  [][pc = "gate" => PhaseOrder(shared'.phase) >= PhaseOrder(pre_phase)]_vars

\* tests/unit/phases/test_topology_router.py (TestAdvisorHintConsumption): the
\* router consumes the advisor's hint. So when the gate forgets a hint that names a
\* topology, the decision it applies is that topology, or a guard was in the way.
AdviceFollowed ==
  pc = "gate" /\ shared.human_advisor_hint \in ValidTopologies
    => \/ topo_dec.topology = shared.human_advisor_hint
       \/ topo_dec.decided_by = "guard_override"
=============================================================================
