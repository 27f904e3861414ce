------------------------------ MODULE Routing ------------------------------
(***************************************************************************)
(* What the adaptive meta-graph decides before it dispatches: the phase    *)
(* router (atm/phases/manager.py), the topology routers                    *)
(* (atm/phases/topology_router.py) and the switch guards                   *)
(* (atm/phases/guards.py), as functions of the shared state.               *)
(***************************************************************************)
EXTENDS SharedState

CONSTANTS
  PlanningMaxIter, ExecMaxIter, VerifyMaxIter,     \* PhaseLimits
  UseGuards,                                       \* extras["switch_guards"]
  MinDwell, Cooldown, MaxPerRun, MaxPerPhase,      \* SwitchGuards
  StuckDwellCap,        \* RuleBasedTopologyRouter._STUCK_DWELL_CAP
  RouterMode,           \* extras["topology_router"]
  OracleTable,          \* the oracle's topology for each phase (for this task)
  ReasonMentions        \* which signal keys a free-text reason may mention

ASSUME RoutingAssumption ==
  /\ {PlanningMaxIter, ExecMaxIter, VerifyMaxIter} \subseteq Nat \ {0}
  /\ UseGuards \in BOOLEAN
  /\ {MinDwell, Cooldown, MaxPerRun, MaxPerPhase, StuckDwellCap} \subseteq Nat
  /\ RouterMode \in {"rule", "llm", "oracle"}
  /\ OracleTable \in [Phase -> TopologyName]
  /\ ReasonMentions \subseteq SUBSET SignalKey

-----------------------------------------------------------------------------
(* RuleBasedPhaseRouter.decide with the built-in guards.                   *)

IterCap(p) ==
  CASE p = "planning" -> PlanningMaxIter
    [] p = "execution" -> ExecMaxIter
    [] OTHER -> VerifyMaxIter

DecidedPhase(s) ==
  IF /\ s.phase # "done"
     /\ \/ AdvanceSignal(s.phase) \in s.signals
        \/ s.iteration >= IterCap(s.phase)
  THEN NextPhase(s.phase)
  ELSE s.phase

-----------------------------------------------------------------------------
(* A TopologyDecision. mentions: the signal keys that occur in its reason, *)
(* which the gate treats as consumed.                                      *)

DecidedBy == {"rule", "llm_router", "oracle", "guard_override", "human_override"}

TopologyDecision ==
  [topology : TopologyName, decided_by : DecidedBy, mentions : SUBSET SignalKey]

Decision(t, by, m) == [topology |-> t, decided_by |-> by, mentions |-> m]

ActiveOr(s, default) ==
  IF s.active_topology = NoTopology THEN default ELSE s.active_topology

\* RuleBasedTopologyRouter.decide: the first rule of the table that applies.
Stuck(s) ==
  /\ "stuck" \in s.signals
  /\ s.iter_total - s.topology_started_at_iter <= StuckDwellCap

RuleDecision(s) ==
  LET keep == Decision(ActiveOr(s, "linear"), "rule", {})   \* also the last rule
  IN IF s.phase = "done" THEN keep
     ELSE IF s.human_advisor_hint \in ValidTopologies
          THEN Decision(s.human_advisor_hint, "rule", {})
     ELSE IF s.phase = "execution" /\ Stuck(s)
          THEN Decision("mesh", "rule", {"stuck"})
     ELSE IF s.phase = "execution" /\ s.rejected_count >= RejectThreshold
          THEN Decision("debate", "rule", {"rejected_count"})
     ELSE IF s.phase = "verification" /\ "needs_revision" \in s.signals
          THEN Decision("linear", "rule", {"needs_revision"})
     ELSE keep

\* The decisions each router may take. The LLM answers with any valid topology
\* and any reason, or is unusable and the rule table decides.
RawDecisions(s) ==
  CASE RouterMode = "rule" -> {RuleDecision(s)}
    [] RouterMode = "oracle" -> {Decision(OracleTable[s.phase], "oracle", {})}
    [] OTHER -> {RuleDecision(s)} \cup
                {Decision(t, "llm_router", m) : t \in ValidTopologies, m \in ReasonMentions}

-----------------------------------------------------------------------------
(* Switch guards.                                                          *)

\* The last Cooldown topologies the run left. Faulty: the window is one short.
RecentlyLeftShort(s) ==
  LET h == s.topology_history
  IN { h[i] : i \in {j \in DOMAIN h : j > Len(h) - Cooldown + 1} }

RecentlyLeft(s) ==
  LET h == s.topology_history
  IN { h[i] : i \in {j \in DOMAIN h : j > Len(h) - Cooldown} }

ViolatesMinDwell(s) == s.iter_total - s.topology_started_at_iter < MinDwell

ViolatesCooldown(s, t) == t \in RecentlyLeft(s)

\* Faulty: one switch more than the cap.
ViolatesMaxPerRunLate(s) == s.topology_switch_count > MaxPerRun

ViolatesMaxPerRun(s) == s.topology_switch_count >= MaxPerRun

\* Without the counter the whole history counts.
\* Faulty: one switch more than the cap.
ViolatesMaxPerPhaseLate(s) ==
  MaxPerPhase < IF s.phase_switch_count = Absent
                THEN Len(s.topology_history) ELSE s.phase_switch_count

ViolatesMaxPerPhase(s) ==
  MaxPerPhase <= IF s.phase_switch_count = Absent
                 THEN Len(s.topology_history) ELSE s.phase_switch_count

Blocked(s, t) ==
  \/ ViolatesMinDwell(s)
  \/ ViolatesCooldown(s, t)
  \/ ViolatesMaxPerRun(s)
  \/ ViolatesMaxPerPhase(s)

\* GuardedRouter.decide: a blocked switch becomes a decision to stay.
Guarded(s, d) ==
  LET current == ActiveOr(s, d.topology)
  IN IF UseGuards /\ d.topology # current /\ Blocked(s, d.topology)
     THEN Decision(current, "guard_override", {})
     ELSE d
=============================================================================
