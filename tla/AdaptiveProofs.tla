--------------------------- MODULE AdaptiveProofs ---------------------------
(***************************************************************************)
(* Theorems about the adaptive meta-graph, for all values of the constants *)
(* that meet the assumptions: its types, its caps on iterations and ticks, *)
(* the windows its guards measure, and what a switch and a failed          *)
(* sub-topology leave behind.                                              *)
(***************************************************************************)
EXTENDS Adaptive, TopologyProofs, SequenceTheorems

-----------------------------------------------------------------------------
(* Decisions.                                                              *)

LEMMA RuleType == ASSUME NEW s \in Shared PROVE RuleDecision(s) \in TopologyDecision
<1>1. ActiveOr(s, "linear") \in TopologyName
  BY DEF ActiveOr, Shared, TopologyName, ValidTopologies
<1>2. \A t \in TopologyName, m \in {{}, {"stuck"}, {"rejected_count"}, {"needs_revision"}} :
        Decision(t, "rule", m) \in TopologyDecision
  BY DEF Decision, TopologyDecision, DecidedBy, SignalKey, SignalFlag
<1>. HIDE DEF ActiveOr
<1>. QED  BY <1>1, <1>2 DEF RuleDecision, TopologyName, ValidTopologies

LEMMA RawType == ASSUME NEW s \in Shared PROVE RawDecisions(s) \subseteq TopologyDecision
<1>1. CASE RouterMode = "rule"
  BY <1>1, RuleType DEF RawDecisions
<1>2. CASE RouterMode = "oracle"
  <2>1. OracleTable[s.phase] \in TopologyName
    BY RoutingAssumption DEF Shared
  <2>. QED  BY <1>2, <2>1 DEF RawDecisions, Decision, TopologyDecision, DecidedBy
<1>3. CASE RouterMode = "llm"
  <2>1. \A t \in ValidTopologies, m \in ReasonMentions :
          Decision(t, "llm_router", m) \in TopologyDecision
    BY RoutingAssumption DEF Decision, TopologyDecision, DecidedBy, TopologyName
  <2>. QED  BY <1>3, <2>1, RuleType DEF RawDecisions
<1>. QED  BY <1>1, <1>2, <1>3, RoutingAssumption

LEMMA GuardedType ==
  ASSUME NEW s \in Shared, NEW d \in TopologyDecision PROVE Guarded(s, d) \in TopologyDecision
  BY DEF Guarded, ActiveOr, Decision, TopologyDecision, DecidedBy, Shared

LEMMA DecidedType == ASSUME NEW s \in Shared PROVE DecidedPhase(s) \in Phase
  BY DEF DecidedPhase, NextPhase, Phase, Shared

-----------------------------------------------------------------------------
(* The parts of the gate.                                                  *)

\* LastN keeps the last n elements: its i-th is the argument's (i + drop)-th.
LEMMA LastNProperties ==
  ASSUME NEW S, NEW h \in Seq(S), NEW n \in Nat
  PROVE  /\ LastN(h, n) \in Seq(S)
         /\ Len(LastN(h, n)) = IF Len(h) < n THEN Len(h) ELSE n
         /\ \A i \in 1..Len(LastN(h, n)) :
              LastN(h, n)[i] = h[i + (Len(h) - Len(LastN(h, n)))]
<1>1. CASE Len(h) > n
  <2>1. LastN(h, n) = SubSeq(h, Len(h) - n + 1, Len(h))
    BY <1>1 DEF LastN
  <2>2. \A i \in (Len(h) - n + 1)..Len(h) : h[i] \in S
    BY <1>1
  <2>3. /\ LastN(h, n) \in Seq(S)
        /\ Len(LastN(h, n)) = n
        /\ \A i \in 1..n : LastN(h, n)[i] = h[(Len(h) - n + 1) + i - 1]
    <3>. HIDE DEF LastN
    <3>. QED  BY <1>1, <2>1, <2>2, SubSeqProperties
  <2>. QED  BY <1>1, <2>3
<1>2. CASE ~(Len(h) > n)
  BY <1>2 DEF LastN
<1>. QED  BY <1>1, <1>2

\* Steady, but for the counter of the phase, which a gate may forget.
SteadyPath(s, t) ==
  /\ KeptPath(s, t)
  /\ t.iter_total = s.iter_total
  /\ t.phase_started_at_iter = s.phase_started_at_iter

LEMMA ConsumeEffect ==
  ASSUME NEW s \in Shared, NEW keys
  PROVE  /\ Consume(s, keys) \in Shared /\ SteadyPath(s, Consume(s, keys))
         /\ "phase_switch_count" \notin keys => Steady(s, Consume(s, keys))
<1>. DEFINE f == s.signals \ keys
            r == IF "rejected_count" \in keys THEN 0 ELSE s.rejected_count
            c == IF "phase_switch_count" \in keys THEN Absent ELSE s.phase_switch_count
<1>1. f \in SUBSET SignalFlag /\ r \in 0..RejectThreshold /\ c \in Nat \cup {Absent}
  BY SharedAssumption DEF Shared
<1>2. Consume(s, keys) = [s EXCEPT !.signals = f, !.rejected_count = r, !.phase_switch_count = c]
  BY DEF Consume
<1>3. "phase_switch_count" \notin keys => c = s.phase_switch_count
  OBVIOUS
<1>. HIDE DEF f, r, c
<1>4. Consume(s, keys) \in Shared
  BY <1>1, <1>2 DEF Shared
<1>5. SteadyPath(s, Consume(s, keys)) /\ Consume(s, keys).phase_switch_count = c
  BY <1>2 DEF Shared, SteadyPath, KeptPath
<1>. QED  BY <1>3, <1>4, <1>5 DEF Steady, SteadyPath, Kept

LEMMA EnterPhaseEffect ==
  ASSUME NEW s \in Shared, NEW p \in Phase
  PROVE  LET t == EnterPhase(s, p)
         IN /\ t \in Shared /\ KeptPath(s, t)
            /\ t.iter_total = s.iter_total
            /\ t.phase_started_at_iter = s.iter_total
            /\ t.phase = p /\ t.phase_switch_count = 0
<1>1. EnterPhase(s, p) \in Shared
  BY DEF EnterPhase, Shared
<1>2. LET t == EnterPhase(s, p)
      IN /\ KeptPath(s, t)
         /\ t.iter_total = s.iter_total
         /\ t.phase_started_at_iter = s.iter_total
         /\ t.phase = p /\ t.phase_switch_count = 0
  BY DEF EnterPhase, Shared, Kept, KeptPath
<1>. QED  BY <1>1, <1>2

LEMMA AdoptEffect ==
  ASSUME NEW s \in Shared, NEW x \in TopologyName
  PROVE  LET t == Adopt(s, x)
         IN /\ t \in Shared
            /\ t.active_topology = x
            /\ t.topology_started_at_iter = s.iter_total
            /\ t.topology_switch_count = s.topology_switch_count
            /\ t.topology_history = s.topology_history
            /\ t.meta_ticks = s.meta_ticks
            /\ t.iter_total = s.iter_total
            /\ t.phase_started_at_iter = s.phase_started_at_iter
            /\ t.phase = s.phase /\ t.phase_switch_count = s.phase_switch_count
<1>1. Adopt(s, x) \in Shared
  BY DEF Adopt, Shared
<1>2. LET t == Adopt(s, x)
      IN /\ t.active_topology = x
         /\ t.topology_started_at_iter = s.iter_total
         /\ t.topology_switch_count = s.topology_switch_count
         /\ t.topology_history = s.topology_history
         /\ t.meta_ticks = s.meta_ticks
         /\ t.iter_total = s.iter_total
         /\ t.phase_started_at_iter = s.phase_started_at_iter
         /\ t.phase = s.phase /\ t.phase_switch_count = s.phase_switch_count
  BY DEF Adopt, Shared
<1>. QED  BY <1>1, <1>2

LEMMA CountSwitchEffect ==
  ASSUME NEW s \in Shared, s.active_topology # NoTopology
  PROVE  LET t == CountSwitch(s)
         IN /\ t \in Shared
            /\ t.active_topology = s.active_topology
            /\ t.topology_started_at_iter = s.topology_started_at_iter
            /\ t.topology_switch_count = s.topology_switch_count + 1
            /\ t.topology_history = LastN(Append(s.topology_history, s.active_topology), HistoryTail)
            /\ t.meta_ticks = s.meta_ticks
            /\ t.iter_total = s.iter_total
            /\ t.phase_started_at_iter = s.phase_started_at_iter
            /\ t.phase = s.phase
            /\ t.phase_switch_count
                 = (IF s.phase_switch_count = Absent THEN 0 ELSE s.phase_switch_count) + 1
<1>. DEFINE n == s.topology_switch_count + 1
            m == (IF s.phase_switch_count = Absent THEN 0 ELSE s.phase_switch_count) + 1
            h == LastN(Append(s.topology_history, s.active_topology), HistoryTail)
<1>1. n \in Nat /\ m \in Nat /\ n = s.topology_switch_count + 1
  BY DEF Shared, Absent
<1>2. h \in Seq(TopologyName)
  <2>1. Append(s.topology_history, s.active_topology) \in Seq(TopologyName)
    BY DEF Shared
  <2>. QED  BY <2>1, LastNProperties, AdaptiveAssumption
<1>3. CountSwitch(s) = [s EXCEPT !.topology_switch_count = n, !.phase_switch_count = m,
                                 !.topology_history = h]
  BY DEF CountSwitch
<1>4. /\ h = LastN(Append(s.topology_history, s.active_topology), HistoryTail)
      /\ m = (IF s.phase_switch_count = Absent THEN 0 ELSE s.phase_switch_count) + 1
  OBVIOUS
<1>. HIDE DEF n, m, h
<1>5. CountSwitch(s) \in Shared
  BY <1>1, <1>2, <1>3 DEF Shared
<1>. QED  BY <1>1, <1>3, <1>4, <1>5 DEF Shared

LEMMA IterationEffect ==
  ASSUME NEW s \in Shared, NEW c \in BOOLEAN
  PROVE  LET t == [s EXCEPT !.iteration = IF c THEN 0 ELSE @ + 1]
         IN t \in Shared /\ Steady(s, t) /\ t.phase = s.phase
<1>. DEFINE n == IF c THEN 0 ELSE s.iteration + 1
<1>1. n \in Nat
  BY DEF Shared
<1>2. [s EXCEPT !.iteration = IF c THEN 0 ELSE @ + 1] = [s EXCEPT !.iteration = n]
  OBVIOUS
<1>. HIDE DEF n
<1>. QED  BY <1>1, <1>2 DEF Shared, Steady, Kept, KeptPath

LEMMA HintEffect ==
  ASSUME NEW s \in Shared, NEW h \in Hint
  PROVE  LET t == [s EXCEPT !.human_advisor_hint = h] IN t \in Shared /\ Steady(s, t)
<1>1. [s EXCEPT !.human_advisor_hint = h] \in Shared
  BY DEF Shared
<1>. QED  BY <1>1 DEF Shared, Steady, Kept, KeptPath

\* What a gate does to a shared state s, as far as the run's budget and the
\* topologies are concerned. Hint, signals and iteration are left out.
GateSpec(s, r, t) ==
  /\ r.iter_total = s.iter_total
  /\ r.meta_ticks = s.meta_ticks
  /\ r.phase_started_at_iter \in {s.phase_started_at_iter, s.iter_total}
  /\ r.active_topology # NoTopology
  /\ ~TopologyChanged(s, t) =>
       /\ r.topology_switch_count = s.topology_switch_count
       /\ r.topology_history = s.topology_history
       /\ s.active_topology # NoTopology =>
            /\ r.active_topology = s.active_topology
            /\ r.topology_started_at_iter = s.topology_started_at_iter
  /\ TopologyChanged(s, t) =>
       /\ r.topology_switch_count = s.topology_switch_count + 1
       /\ r.topology_history = LastN(Append(s.topology_history, s.active_topology), HistoryTail)
  /\ TopologyChanged(s, t) \/ s.active_topology = NoTopology =>
       /\ r.active_topology = t
       /\ r.topology_started_at_iter = s.iter_total

LEMMA GateEffect ==
  ASSUME NEW s \in Shared, NEW before \in Phase, NEW routed \in Phase, NEW d \in TopologyDecision
  PROVE  LET r == GateResult(s, before, routed, d)
         IN r \in Shared /\ GateSpec(s, r, d.topology)
<1>. DEFINE next == MaxPhase(routed, s.phase)
            phase_changed == next # before
            topology_changed == TopologyChanged(s, d.topology)
            s1 == IF phase_changed THEN EnterPhase(s, next) ELSE s
            s2 == IF topology_changed THEN CountSwitch(s1) ELSE s1
            s3 == IF topology_changed \/ s.active_topology = NoTopology
                  THEN Adopt(s2, d.topology) ELSE s2
            s4 == [s3 EXCEPT !.iteration = IF phase_changed \/ topology_changed THEN 0 ELSE @ + 1]
            s5 == IF phase_changed THEN Consume(s4, {AdvanceSignal(before)})
                  ELSE IF topology_changed THEN Consume(s4, d.mentions)
                  ELSE s4
            r == [s5 EXCEPT !.human_advisor_hint = NoHint]
<1>1. /\ s1 \in Shared /\ KeptPath(s, s1) /\ s1.iter_total = s.iter_total
      /\ s1.phase_started_at_iter \in {s.phase_started_at_iter, s.iter_total}
  <2>1. next \in Phase
    BY DEF MaxPhase, Shared
  <2>. QED  BY <2>1, EnterPhaseEffect DEF Kept, KeptPath
<1>2. /\ s2 \in Shared
      /\ s2.iter_total = s.iter_total
      /\ s2.meta_ticks = s.meta_ticks
      /\ s2.phase_started_at_iter = s1.phase_started_at_iter
      /\ s2.active_topology = s.active_topology
      /\ s2.topology_started_at_iter = s.topology_started_at_iter
      /\ topology_changed =>
           /\ s2.topology_switch_count = s.topology_switch_count + 1
           /\ s2.topology_history = LastN(Append(s.topology_history, s.active_topology), HistoryTail)
      /\ ~topology_changed =>
           /\ s2.topology_switch_count = s.topology_switch_count
           /\ s2.topology_history = s.topology_history
  <2>. HIDE DEF s1
  <2>1. CASE topology_changed
    <3>1. s1.active_topology # NoTopology
      BY <1>1, <2>1 DEF TopologyChanged, Kept, KeptPath
    <3>. QED  BY <1>1, <2>1, <3>1, CountSwitchEffect DEF Kept, KeptPath
  <2>2. CASE ~topology_changed
    BY <1>1, <2>2 DEF Kept, KeptPath
  <2>. QED  BY <2>1, <2>2
<1>3. /\ s3 \in Shared
      /\ s3.iter_total = s2.iter_total
      /\ s3.meta_ticks = s2.meta_ticks
      /\ s3.phase_started_at_iter = s2.phase_started_at_iter
      /\ s3.topology_switch_count = s2.topology_switch_count
      /\ s3.topology_history = s2.topology_history
      /\ topology_changed \/ s.active_topology = NoTopology =>
           /\ s3.active_topology = d.topology
           /\ s3.topology_started_at_iter = s2.iter_total
      /\ ~topology_changed /\ s.active_topology # NoTopology =>
           /\ s3.active_topology = s2.active_topology
           /\ s3.topology_started_at_iter = s2.topology_started_at_iter
  <2>1. d.topology \in TopologyName
    BY DEF TopologyDecision
  <2>. HIDE DEF s2, topology_changed
  <2>. QED  BY <1>2, <2>1, AdoptEffect
<1>4. s4 \in Shared /\ Steady(s3, s4)
  <2>. HIDE DEF s3, phase_changed, topology_changed
  <2>1. (phase_changed \/ topology_changed) \in BOOLEAN
    OBVIOUS
  <2>. QED  BY <1>3, <2>1, IterationEffect
<1>5. s5 \in Shared /\ SteadyPath(s4, s5)
  <2>. HIDE DEF s4
  <2>. QED  BY <1>4, ConsumeEffect DEF SteadyPath, KeptPath
<1>6. r \in Shared /\ Steady(s5, r)
  <2>. HIDE DEF s5
  <2>. QED  BY <1>5, HintEffect DEF Hint
<1>7. r = GateResult(s, before, routed, d)
  BY Zenon DEF GateResult
<1>8. SteadyPath(s3, r)
  <2>. HIDE DEF s3, s4, s5, r
  <2>. QED  BY <1>3, <1>4, <1>5, <1>6 DEF Steady, SteadyPath, Kept, KeptPath
<1>9. d.topology # NoTopology
  BY DEF TopologyDecision, TopologyName, ValidTopologies, NoTopology
<1>10. topology_changed = TopologyChanged(s, d.topology)
  OBVIOUS
<1>11. GateSpec(s, r, d.topology)
  <2>. HIDE DEF s1, s2, s3, r, topology_changed
  <2>. QED  BY <1>1, <1>2, <1>3, <1>8, <1>9, <1>10 DEF GateSpec, SteadyPath, KeptPath
<1>. QED  BY <1>6, <1>7, <1>11

-----------------------------------------------------------------------------
(* Type correctness.                                                       *)

\* Ticked is what dispatch hands over; the chain's planner adds its signals.
Ticked(s) == [s EXCEPT !.meta_ticks = @ + 1]

LEMMA TickEffect ==
  ASSUME NEW s \in Shared
  PROVE  LET t == Ticked(s)
         IN /\ t \in Shared
            /\ t.meta_ticks = s.meta_ticks + 1
            /\ t.iter_total = s.iter_total
            /\ t.phase_started_at_iter = s.phase_started_at_iter
            /\ t.active_topology = s.active_topology
            /\ t.topology_started_at_iter = s.topology_started_at_iter
            /\ t.topology_switch_count = s.topology_switch_count
            /\ t.topology_history = s.topology_history
            /\ t.phase_switch_count = s.phase_switch_count
<1>. DEFINE n == s.meta_ticks + 1
<1>1. n \in Nat /\ n = s.meta_ticks + 1
  BY DEF Shared
<1>2. Ticked(s) = [s EXCEPT !.meta_ticks = n]
  BY DEF Ticked
<1>. HIDE DEF n
<1>. QED  BY <1>1, <1>2 DEF Shared

LEMMA InitialType == InitialShared \in Shared
  BY SharedAssumption DEF InitialShared, Shared, Phase, NoTopology, Absent, NoHint, Hint

\* The steps inside a sub-topology: which node, and what becomes of the state.
LEMMA SubStepEffect ==
  ASSUME TypeOK, SubTopologyStep
  PROVE  /\ pc \in SubNode
         /\ pc' \in SubNode \cup {"gate"}
         /\ \/ shared' \in Shared /\ Counted(shared, shared')
            \/ pc' = "gate" /\ shared' = entry
         /\ UNCHANGED <<entry, slots, records>>
<1>. USE DEF TypeOK, SubNode
<1>1. CASE RunChain
  BY <1>1, ChainEffect DEF RunChain, SubStep
<1>2. CASE RunStar
  BY <1>2, StarEffect DEF RunStar, SubStep
<1>3. CASE RunMesh
  BY <1>3, MeshEffect DEF RunMesh, SubStep
<1>4. CASE OpenDebate
  BY <1>4, OpeningEffect DEF OpenDebate, SubStep, Never
<1>5. CASE RunDebate
  BY <1>5, DebateEffect DEF RunDebate, SubStep
<1>6. CASE RunTopCoord
  BY <1>6, TopCoordEffect DEF RunTopCoord
<1>7. CASE RunTeamA
  BY <1>7, TeamEffect DEF RunTeamA, SubStep, Never
<1>8. CASE RunTeamB
  BY <1>8, TeamEffect DEF RunTeamB, SubStep
<1>9. CASE SubTopologyRaises
  BY <1>9 DEF SubTopologyRaises
<1>. QED  BY <1>1, <1>2, <1>3, <1>4, <1>5, <1>6, <1>7, <1>8, <1>9 DEF SubTopologyStep

\* A dispatch that is not capped enters a sub-topology with the ticked state.
LEMMA DispatchEffect ==
  ASSUME TypeOK, Dispatch
  PROVE  /\ entry' = Ticked(shared) /\ entry' \in Shared
         /\ shared' \in Shared
         /\ pc' \in SubNode \cup {"gate"}
         /\ ~DispatchCapped(Ticked(shared)) => pc' \in SubNode /\ Steady(entry', shared')
         /\ UNCHANGED <<slots, transition, announced, switches>>
<1>. DEFINE t == Ticked(shared)
<1>1. t \in Shared
  BY TickEffect DEF TypeOK
<1>2. entry' = t
  BY DEF Dispatch, Ticked
<1>3. UNCHANGED <<slots, transition, announced, switches>>
  BY DEF Dispatch
<1>4. CASE DispatchCapped(t)
  <2>1. shared' = [t EXCEPT !.active_topology = DispatchName] /\ pc' = "gate"
    BY <1>4 DEF Dispatch, Ticked
  <2>2. DispatchName \in TopologyName
    BY DEF DispatchName, ActiveOr, TypeOK, Shared, TopologyDecision, NoDecision, Decision,
           TopologyName, ValidTopologies
  <2>3. shared' \in Shared
    <3>. HIDE DEF t
    <3>. QED  BY <1>1, <2>1, <2>2 DEF Shared
  <2>. QED  BY <1>1, <1>2, <1>3, <1>4, <2>1, <2>3
<1>5. CASE ~DispatchCapped(t)
  <2>1. /\ shared' = IF Registered(DispatchName) = "chain" THEN ChainEntry(t) ELSE t
        /\ pc' = EntryNode(Registered(DispatchName))
    BY <1>5 DEF Dispatch, Ticked
  <2>2. pc' \in SubNode
    BY <2>1 DEF EntryNode, Registered, SubNode
  <2>3. shared' \in Shared /\ Steady(t, shared')
    <3>. HIDE DEF t
    <3>. QED  BY <1>1, <2>1, PlannerEffect DEF ChainEntry, Steady, Kept, KeptPath
  <2>. QED  BY <1>1, <1>2, <1>3, <1>5, <2>2, <2>3
<1>. QED  BY <1>4, <1>5

\* The gate's inputs are typed whatever the slots hold.
LEMMA GateStep ==
  ASSUME TypeOK, Gate
  PROVE  /\ shared' \in Shared
         /\ GateSpec(shared, shared', GateDecision.topology)
         /\ pc' = IF ShouldEnd(shared') THEN "end" ELSE "phase_router"
         /\ GateDecision \in TopologyDecision
<1>. DEFINE before == IF pre_phase # NoPhase THEN pre_phase ELSE shared.phase
<1>1. GateDecision \in TopologyDecision
  BY DEF GateDecision, TypeOK, Decision, TopologyDecision, ActiveOr, Shared, TopologyName,
         ValidTopologies, DecidedBy
<1>2. before \in Phase /\ GatePhase \in Phase
  BY DEF GatePhase, TypeOK, Shared
<1>3. /\ shared' = GateResult(shared, before, GatePhase, GateDecision)
      /\ pc' = IF ShouldEnd(shared') THEN "end" ELSE "phase_router"
  BY DEF Gate
<1>. HIDE DEF before
<1>. QED  BY <1>1, <1>2, <1>3, GateEffect DEF TypeOK

\* Every variable keeps its type: no combination of routers, guards, humans and
\* sub-topologies writes a value the readers of shared do not expect.
THEOREM TypeCorrect == Spec => []TypeOK
<1>1. Init => TypeOK
  BY InitialType DEF Init, TypeOK, Node, NoPhase, NoDecision, NoTransition, Phase
<1>2. TypeOK /\ [Next]_vars => TypeOK'
  <2>. SUFFICES ASSUME TypeOK, [Next]_vars PROVE TypeOK'
    OBVIOUS
  <2>1. CASE PhaseRouter
    BY <2>1, DecidedType DEF PhaseRouter, TypeOK, Node, Shared, records
  <2>2. CASE TopologyRouter
    BY <2>2, RawType, GuardedType DEF TopologyRouter, TypeOK, Node, records
  <2>3. CASE TopologyRouterRaises \/ HumanFails
    BY <2>3 DEF TopologyRouterRaises, HumanFails, TypeOK, Final, records, slots
  <2>4. CASE HumanAdvise
    <3>1. PICK h \in Hint : shared' = [shared EXCEPT !.human_advisor_hint = h]
      BY <2>4 DEF HumanAdvise, Hinting, Hint, TypeOK, Shared
    <3>2. shared' \in Shared
      BY <3>1, HintEffect DEF TypeOK
    <3>. QED  BY <2>4, <3>2 DEF HumanAdvise, TypeOK, Node, records, slots
  <2>5. CASE HumanOverride
    <3>1. shared' \in Shared
      BY <2>5, HintEffect DEF HumanOverride, Hinting, Hint, TypeOK
    <3>2. topo_dec' \in TopologyDecision
      BY <2>5, RoutingAssumption, AdaptiveAssumption
         DEF HumanOverride, Decision, TopologyDecision, DecidedBy, TypeOK, NoDecision,
             TopologyName, ValidTopologies
    <3>. QED  BY <2>5, <3>1, <3>2 DEF HumanOverride, TypeOK, Node, records
  <2>6. CASE Dispatch
    <3>1. ran' \in {"chain", "star", "mesh", "debate", "hierarchical", NoTopology}
      BY <2>6 DEF Dispatch, Registered
    <3>. QED  BY <2>6, <3>1, DispatchEffect DEF TypeOK, Node, slots
  <2>7. CASE SubTopologyStep
    BY <2>7, SubStepEffect DEF TypeOK, Node, records, slots
  <2>8. CASE Gate
    <3>1. pc' \in Node \cup Final
      BY <2>8, GateStep DEF Node, Final
    <3>2. transition' \in [from : TopologyName \cup {NoTopology}, to : TopologyName,
                           phase : Phase, by : DecidedBy]
      BY <2>8, GateStep DEF Gate, TypeOK, Shared, TopologyDecision
    <3>3. announced' \in Phase
      BY <2>8, GateStep DEF Gate, TypeOK, Shared
    <3>4. switches' \in Nat
      <4>0. /\ shared.topology_switch_count \in Nat
            /\ \/ shared'.topology_switch_count = shared.topology_switch_count
               \/ shared'.topology_switch_count = shared.topology_switch_count + 1
        <5>1. shared.topology_switch_count \in Nat
          BY DEF TypeOK, Shared
        <5>. QED  BY <5>1, <2>8, GateStep DEF GateSpec
      <4>1. shared'.topology_switch_count - shared.topology_switch_count \in {0, 1}
        <5>. DEFINE a == shared.topology_switch_count  b == shared'.topology_switch_count
        <5>1. a \in Nat /\ (b = a \/ b = a + 1)
          BY <4>0
        <5>. HIDE DEF a, b
        <5>2. b - a \in {0, 1}
          BY <5>1
        <5>. QED  BY <5>2 DEF a, b
      <4>2. switches' \in {shared'.topology_switch_count - shared.topology_switch_count,
                           switches + (shared'.topology_switch_count
                                         - shared.topology_switch_count)}
        BY <2>8, <4>1 DEF Gate, TypeOK
      <4>. QED  BY <4>1, <4>2 DEF TypeOK
    <3>5. /\ phase_dec' = NoPhase /\ topo_dec' = NoDecision /\ pre_phase' = NoPhase
          /\ UNCHANGED <<entry, ran>>
      BY <2>8 DEF Gate
    <3>. QED  BY <2>8, <3>1, <3>2, <3>3, <3>4, <3>5, GateStep DEF TypeOK
  <2>9. CASE UNCHANGED vars
    BY <2>9 DEF TypeOK, vars
  <2>. QED
    BY <2>1, <2>2, <2>3, <2>4, <2>5, <2>6, <2>7, <2>8, <2>9 DEF Next, Step, Finished
<1>. QED  BY <1>1, <1>2, PTL DEF Spec

-----------------------------------------------------------------------------
(* Safety: the caps on ticks and iterations, the windows the guards measure *)
(* and the switch history. Each is an invariant that one lemma shows        *)
(* preserved; later ones rest on earlier ones.                              *)

Deciding == {"phase_router", "topology_router", "human_advisor", "dispatch"}

DecidingStep ==
  \/ PhaseRouter \/ TopologyRouter \/ TopologyRouterRaises
  \/ HumanAdvise \/ HumanOverride \/ HumanFails

\* Routers and humans move no counter and leave the phase alone.
LEMMA DecidingEffect ==
  ASSUME TypeOK, DecidingStep
  PROVE  /\ pc \in Deciding /\ pc' \in Deciding \cup {"failed"}
         /\ pc' = "dispatch" => pc \in {"topology_router", "human_advisor"}
         /\ shared' \in Shared
         /\ Steady(shared, shared')
         /\ shared'.phase = shared.phase
         /\ entry' = entry
<1>1. CASE PhaseRouter \/ TopologyRouter \/ TopologyRouterRaises \/ HumanFails
  BY <1>1 DEF PhaseRouter, TopologyRouter, TopologyRouterRaises, HumanFails, Deciding, TypeOK,
              Steady, Kept, KeptPath
<1>2. CASE HumanAdvise \/ HumanOverride
  <2>1. PICK h \in Hint : shared' = [shared EXCEPT !.human_advisor_hint = h]
    BY <1>2 DEF HumanAdvise, HumanOverride, Hinting, Hint, TypeOK, Shared
  <2>2. shared'.phase = shared.phase
    BY <2>1 DEF TypeOK, Shared
  <2>3. shared' \in Shared /\ Steady(shared, shared')
    BY <2>1, HintEffect DEF TypeOK
  <2>4. /\ pc = "human_advisor" /\ pc' = "dispatch" /\ entry' = entry
    BY <1>2 DEF HumanAdvise, HumanOverride
  <2>. QED  BY <2>2, <2>3, <2>4 DEF Deciding
<1>. QED  BY <1>1, <1>2 DEF DecidingStep

-----------------------------------------------------------------------------
(* The caps on ticks and iterations.                                       *)

\* Only a gate that did not end the run leads back to the routers.
Going == pc \in Deciding => ~ShouldEnd(shared)

LEMMA GoingStep == ASSUME TypeOK, Going, [Next]_vars PROVE Going'
<1>1. CASE DecidingStep
  BY <1>1, DecidingEffect DEF Going, ShouldEnd, Steady, Kept, KeptPath
<1>2. CASE Dispatch
  BY <1>2, DispatchEffect DEF Going, Deciding, SubNode
<1>3. CASE SubTopologyStep
  BY <1>3, SubStepEffect DEF Going, Deciding, SubNode
<1>4. CASE Gate
  BY <1>4, GateStep DEF Going, Deciding
<1>5. CASE UNCHANGED vars
  BY <1>5 DEF Going, ShouldEnd, vars
<1>. QED  BY <1>1, <1>2, <1>3, <1>4, <1>5 DEF Next, Step, Finished, DecidingStep

LEMMA GoingAlways == Spec => []Going
<1>1. Init => Going
  BY AdaptiveAssumption DEF Init, Going, ShouldEnd, InitialShared
<1>2. TypeOK /\ Going /\ [Next]_vars => Going'
  BY GoingStep
<1>. QED  BY <1>1, <1>2, TypeCorrect, PTL DEF Spec

\* A run that goes on is not capped when it dispatches.
LEMMA NotCapped == ASSUME TypeOK, Going, pc = "dispatch" PROVE ~DispatchCapped(Ticked(shared))
<1>. DEFINE m == shared.meta_ticks  n == shared.iter_total
            tm == Ticked(shared).meta_ticks  tn == Ticked(shared).iter_total
<1>1. m \in Nat /\ n \in Nat
  BY DEF TypeOK, Shared
<1>2. tm = m + 1 /\ tn = n
  BY TickEffect DEF TypeOK
<1>3. ~(n >= MaxIter) /\ ~(m >= MaxTicks)
  BY DEF Going, Deciding, ShouldEnd
<1>4. DispatchCapped(Ticked(shared)) <=> tm > MaxTicks \/ tn >= MaxIter
  BY DEF DispatchCapped
<1>. HIDE DEF m, n, tm, tn
<1>. QED  BY <1>1, <1>2, <1>3, <1>4, AdaptiveAssumption

\* No tick is spent on a sub-topology that does not run: the loop test after the
\* gate fires before dispatch's own caps can.
THEOREM CapsAgree == Spec => []NeverDispatchPastCap
<1>1. TypeOK /\ Going => NeverDispatchPastCap
  <2>. SUFFICES ASSUME TypeOK, Going, pc = "dispatch"
                PROVE  shared.phase # "done" /\ ~DispatchCapped(Ticked(shared))
    BY DEF NeverDispatchPastCap, Ticked
  <2>. QED  BY NotCapped DEF Going, Deciding, ShouldEnd
<1>. QED  BY <1>1, TypeCorrect, GoingAlways, PTL
-----------------------------------------------------------------------------
(* Work is counted.                                                        *)

\* While a sub-topology runs, the count has not gone back; when it is done, it
\* has moved on, or nothing of what it did is left.
Progress ==
  /\ pc \in SubNode => shared.iter_total >= entry.iter_total
  /\ pc = "gate" => shared = entry \/ shared.iter_total > entry.iter_total

LEMMA ProgressStep == ASSUME TypeOK, Going, Progress, [Next]_vars PROVE Progress'
<1>. DEFINE n == shared.iter_total  e == entry.iter_total
<1>0. n \in Nat /\ e \in Nat
  BY DEF TypeOK, Shared
<1>1. CASE DecidingStep
  BY <1>1, DecidingEffect DEF Progress, Deciding, SubNode
<1>2. CASE Dispatch
  <2>1. pc = "dispatch"
    BY <1>2 DEF Dispatch
  <2>2. ~DispatchCapped(Ticked(shared))
    BY <2>1, NotCapped
  <2>3. /\ pc' \in SubNode /\ shared'.iter_total = entry'.iter_total
        /\ entry'.iter_total \in Nat
    BY <1>2, <2>2, DispatchEffect DEF Steady, Shared
  <2>. QED  BY <2>3 DEF Progress, SubNode
<1>3. CASE SubTopologyStep
  <2>1. /\ pc \in SubNode /\ entry' = entry
        /\ \/ shared'.iter_total = n + 1
           \/ pc' = "gate" /\ shared' = entry'
    BY <1>3, SubStepEffect DEF Counted
  <2>2. n >= e
    BY <2>1 DEF Progress
  <2>3. CASE shared'.iter_total = n + 1
    <3>. HIDE DEF n, e
    <3>1. n + 1 >= e /\ n + 1 > e
      BY <1>0, <2>2
    <3>. QED  BY <2>1, <2>3, <3>1 DEF Progress, e
  <2>4. CASE pc' = "gate" /\ shared' = entry'
    BY <2>4 DEF Progress, SubNode
  <2>. QED  BY <2>1, <2>3, <2>4
<1>4. CASE Gate
  BY <1>4, GateStep DEF Progress, SubNode
<1>5. CASE UNCHANGED vars
  BY <1>5 DEF Progress, vars
<1>. QED  BY <1>1, <1>2, <1>3, <1>4, <1>5 DEF Next, Step, Finished, DecidingStep

\* A sub-topology that returned has counted at least one iteration; one that
\* raised left nothing behind.
THEOREM EveryTickCounts == Spec => []WorkIsCounted
<1>1. Init => Progress
  BY DEF Init, Progress, SubNode
<1>2. TypeOK /\ Going /\ Progress /\ [Next]_vars => Progress'
  BY ProgressStep
<1>3. Progress => WorkIsCounted
  BY DEF Progress, WorkIsCounted
<1>. QED  BY <1>1, <1>2, <1>3, TypeCorrect, GoingAlways, PTL DEF Spec

-----------------------------------------------------------------------------
(* The windows.                                                            *)

OpenWindows(s) ==
  /\ s.topology_started_at_iter <= s.iter_total
  /\ s.phase_started_at_iter <= s.iter_total

\* The state a failing sub-topology falls back to needs its windows open, too.
Windows == OpenWindows(shared) /\ OpenWindows(entry)

LEMMA SteadyWindows ==
  ASSUME NEW s, NEW t, Steady(s, t), OpenWindows(s) PROVE OpenWindows(t)
  BY DEF Steady, Kept, KeptPath, OpenWindows

LEMMA CountedWindows ==
  ASSUME NEW s \in Shared, NEW t, Counted(s, t), OpenWindows(s) PROVE OpenWindows(t)
<1>. DEFINE n == s.iter_total  a == s.topology_started_at_iter  b == s.phase_started_at_iter
            m == t.iter_total  c == t.topology_started_at_iter  d == t.phase_started_at_iter
<1>1. {n, a, b} \subseteq Nat /\ a <= n /\ b <= n
  BY DEF Shared, OpenWindows
<1>2. m = n + 1 /\ c = a /\ d \in {b, m}
  BY DEF Counted, Kept, KeptPath
<1>3. OpenWindows(t) <=> c <= m /\ d <= m
  BY DEF OpenWindows
<1>. HIDE DEF n, a, b, m, c, d
<1>. QED  BY <1>1, <1>2, <1>3

LEMMA GateWindows ==
  ASSUME NEW s \in Shared, NEW t \in Shared, NEW x, GateSpec(s, t, x), OpenWindows(s)
  PROVE  OpenWindows(t)
<1>1. s.iter_total \in Nat
  BY DEF Shared
<1>2. t.topology_started_at_iter \in {s.topology_started_at_iter, s.iter_total}
  BY DEF GateSpec
<1>. QED  BY <1>1, <1>2 DEF GateSpec, OpenWindows

LEMMA WindowsStep == ASSUME TypeOK, Windows, [Next]_vars PROVE Windows'
<1>. USE DEF Windows
<1>1. CASE DecidingStep
  BY <1>1, DecidingEffect, SteadyWindows
<1>2. CASE Dispatch
  <2>1. OpenWindows(entry')
    BY <1>2, DispatchEffect, TickEffect DEF OpenWindows, TypeOK
  <2>2. CASE DispatchCapped(Ticked(shared))
    <3>1. shared' = [Ticked(shared) EXCEPT !.active_topology = DispatchName]
      BY <1>2, <2>2 DEF Dispatch, Ticked
    <3>2. OpenWindows(shared')
      BY <1>2, <2>1, <3>1, DispatchEffect DEF OpenWindows, Shared
    <3>. QED  BY <2>1, <3>2
  <2>3. CASE ~DispatchCapped(Ticked(shared))
    BY <1>2, <2>1, <2>3, DispatchEffect, SteadyWindows
  <2>. QED  BY <2>2, <2>3
<1>3. CASE SubTopologyStep
  BY <1>3, SubStepEffect, CountedWindows DEF TypeOK
<1>4. CASE Gate
  <2>1. entry' = entry
    BY <1>4 DEF Gate
  <2>. QED  BY <1>4, <2>1, GateStep, GateWindows DEF TypeOK
<1>5. CASE UNCHANGED vars
  BY <1>5 DEF vars
<1>. QED  BY <1>1, <1>2, <1>3, <1>4, <1>5 DEF Next, Step, Finished, DecidingStep

\* No topology and no phase is ever said to have started in the future, so the
\* dwell that min_dwell and the coordinator compute is never negative.
THEOREM WindowsStayOpen == Spec => []WindowsOpen
<1>1. Init => Windows
  BY DEF Init, Windows, OpenWindows, InitialShared
<1>2. TypeOK /\ Windows /\ [Next]_vars => Windows'
  BY WindowsStep
<1>3. Windows => WindowsOpen
  BY DEF Windows, OpenWindows, WindowsOpen
<1>. QED  BY <1>1, <1>2, <1>3, TypeCorrect, PTL DEF Spec

-----------------------------------------------------------------------------
(* The overshoot of max_iterations.                                        *)

\* The most iterations after a round that began below every limit.
Limit == MaxOf(MaxIter, SubMax)

\* Where one round follows another without a test, the count is one higher.
Overshoot ==
  /\ pc \in SubNode \ {"debate", "hier_b"} => shared.iter_total < Limit
  /\ pc \in {"debate", "hier_b"} => shared.iter_total <= Limit
  /\ pc \in SubNode => entry.iter_total < Limit
  /\ shared.iter_total <= Limit + 1

LEMMA LimitType == Limit \in Nat /\ MaxIter \in Nat /\ SubMax \in Nat /\ MaxIter <= Limit /\ SubMax <= Limit
  BY AdaptiveAssumption, SharedAssumption DEF Limit, MaxOf

\* After a round the topology goes on only where it tested the limit, or
\* to the one node that the preceding one leads to unconditionally.
LEMMA SubStepLimit ==
  ASSUME TypeOK, SubTopologyStep
  PROVE  \/ pc' = "gate" /\ shared' = entry
         \/ /\ shared'.iter_total = shared.iter_total + 1
            /\ \/ pc' = "gate"
               \/ shared'.iter_total < SubMax
               \/ pc' \in {"debate", "hier_b"} /\ pc \in SubNode \ {"debate", "hier_b"}
<1>. DEFINE n == shared'.iter_total
<1>0. CASE SubTopologyRaises
  BY <1>0 DEF SubTopologyRaises
<1>a. ASSUME ~SubTopologyRaises PROVE shared' \in Shared /\ n = shared.iter_total + 1
  BY <1>a, ChainEffect, StarEffect, MeshEffect, OpeningEffect, DebateEffect, TopCoordEffect, TeamEffect
     DEF SubTopologyStep, RunChain, RunStar, RunMesh, OpenDebate, RunDebate, RunTopCoord, RunTeamA,
         RunTeamB, SubStep, TypeOK, Counted
<1>b. shared' \in Shared => n \in Nat
  BY DEF Shared
<1>c. SubMax \in Nat
  BY SharedAssumption
<1>d. ASSUME ~(n >= SubMax), n \in Nat PROVE n < SubMax
  <2>. HIDE DEF n
  <2>. QED  BY <1>c, <1>d
<1>1. CASE RunChain \/ RunStar \/ RunMesh \/ RunDebate \/ RunTeamB
  <2>1. pc' = "gate" \/ ~(n >= SubMax)
    BY <1>1 DEF RunChain, RunStar, RunMesh, RunDebate, RunTeamB, SubStep, ChainStops, StarStops,
                MeshStops, DebateStops, TeamBStops
  <2>. QED  BY <1>0, <1>a, <1>b, <1>d, <2>1
<1>2. CASE OpenDebate \/ RunTeamA
  <2>1. pc' \in {"debate", "hier_b"} /\ pc \in SubNode \ {"debate", "hier_b"}
    BY <1>2 DEF OpenDebate, RunTeamA, SubStep, Never, SubNode
  <2>. QED  BY <1>0, <1>a, <2>1
<1>3. CASE RunTopCoord
  <2>1. pc' = "gate" \/ ~(n >= SubMax)
    BY <1>3 DEF RunTopCoord, TopCoordRoute
  <2>. QED  BY <1>0, <1>a, <1>b, <1>d, <2>1
<1>. QED  BY <1>0, <1>1, <1>2, <1>3 DEF SubTopologyStep

LEMMA OvershootStep == ASSUME TypeOK, Going, Overshoot, [Next]_vars PROVE Overshoot'
<1>. DEFINE n == shared.iter_total  m == shared'.iter_total  e == entry'.iter_total
<1>0. n \in Nat /\ n <= Limit + 1
  BY DEF TypeOK, Shared, Overshoot
<1>1. CASE DecidingStep
  BY <1>1, DecidingEffect DEF Overshoot, Deciding, SubNode, Steady, Limit
<1>2. CASE Dispatch
  <2>1. pc = "dispatch"
    BY <1>2 DEF Dispatch
  <2>2. pc' \in SubNode /\ m = n /\ e = n
    BY <1>2, <2>1, NotCapped, DispatchEffect, TickEffect DEF Steady, TypeOK
  <2>3. ~(n >= MaxIter)
    BY <2>1 DEF Going, Deciding, ShouldEnd
  <2>4. n < Limit /\ n <= Limit
    <3>. HIDE DEF n
    <3>. QED  BY <1>0, <2>3, LimitType
  <2>. QED  BY <1>0, <2>2, <2>4 DEF Overshoot, Limit, n
<1>3. CASE SubTopologyStep
  <2>1. pc \in SubNode /\ entry' = entry
    BY <1>3, SubStepEffect
  <2>2. e < Limit /\ e \in Nat
    BY <2>1 DEF Overshoot, TypeOK, Shared
  <2>3. CASE pc' = "gate" /\ shared' = entry
    <3>1. e <= Limit + 1
      <4>. HIDE DEF e
      <4>. QED  BY <2>2, LimitType
    <3>. QED  BY <2>1, <2>3, <3>1 DEF Overshoot, SubNode, Limit
  <2>4. CASE /\ m = n + 1
             /\ \/ pc' = "gate"
                \/ m < SubMax
                \/ pc' \in {"debate", "hier_b"} /\ pc \in SubNode \ {"debate", "hier_b"}
    <3>1. n <= Limit /\ (pc \in SubNode \ {"debate", "hier_b"} => n < Limit)
      <4>1. \/ pc \in {"debate", "hier_b"} /\ n <= Limit
            \/ pc \notin {"debate", "hier_b"} /\ n < Limit
        BY <2>1 DEF Overshoot
      <4>. HIDE DEF n
      <4>. QED  BY <1>0, <4>1, LimitType
    <3>2. /\ m <= Limit + 1
          /\ pc' # "gate" => m <= Limit
          /\ pc' \notin {"gate", "debate", "hier_b"} => m < Limit
      <4>. HIDE DEF n, m
      <4>. QED  BY <1>0, <2>4, <3>1, LimitType
    <3>. QED  BY <2>1, <2>2, <3>2 DEF Overshoot, SubNode, Limit
  <2>. QED  BY <1>3, <2>3, <2>4, SubStepLimit
<1>4. CASE Gate
  <2>1. m = n /\ pc' \notin SubNode
    BY <1>4, GateStep DEF GateSpec, SubNode
  <2>. QED  BY <1>0, <2>1 DEF Overshoot, Limit, SubNode
<1>5. CASE UNCHANGED vars
  BY <1>5 DEF Overshoot, vars, Limit
<1>. QED  BY <1>1, <1>2, <1>3, <1>4, <1>5 DEF Next, Step, Finished, DecidingStep

\* A tick overruns max_iterations by at most the sub-topology's own limit and one.
THEOREM OvershootBounded == Spec => []IterationOvershoot
<1>1. Init => Overshoot
  BY LimitType DEF Init, Overshoot, InitialShared, SubNode
<1>2. TypeOK /\ Going /\ Overshoot /\ [Next]_vars => Overshoot'
  BY OvershootStep
<1>3. Overshoot => IterationOvershoot
  BY DEF Overshoot, IterationOvershoot, Limit
<1>. QED  BY <1>1, <1>2, <1>3, TypeCorrect, GoingAlways, PTL DEF Spec
-----------------------------------------------------------------------------
(* Advances of the phase.                                                  *)

LEMMA ConsumePhase ==
  ASSUME NEW s \in Shared, NEW keys
  PROVE  Consume(s, keys).phase = s.phase
<1>. DEFINE f == s.signals \ keys
            r == IF "rejected_count" \in keys THEN 0 ELSE s.rejected_count
            c == IF "phase_switch_count" \in keys THEN Absent ELSE s.phase_switch_count
<1>1. Consume(s, keys) = [s EXCEPT !.signals = f, !.rejected_count = r, !.phase_switch_count = c]
  BY DEF Consume
<1>. HIDE DEF f, r, c
<1>. QED  BY <1>1 DEF Shared

\* The phase a gate leaves is the further one if that differs from the phase
\* before; nothing after EnterPhase touches it.
LEMMA GateLeavesPhase ==
  ASSUME NEW s \in Shared, NEW before \in Phase, NEW routed \in Phase, NEW d \in TopologyDecision
  PROVE  GateResult(s, before, routed, d).phase =
           IF MaxPhase(routed, s.phase) # before THEN MaxPhase(routed, s.phase) ELSE s.phase
<1>. DEFINE next == MaxPhase(routed, s.phase)
            phase_changed == next # before
            topology_changed == TopologyChanged(s, d.topology)
            s1 == IF phase_changed THEN EnterPhase(s, next) ELSE s
            s2 == IF topology_changed THEN CountSwitch(s1) ELSE s1
            s3 == IF topology_changed \/ s.active_topology = NoTopology
                  THEN Adopt(s2, d.topology) ELSE s2
            s4 == [s3 EXCEPT !.iteration = IF phase_changed \/ topology_changed THEN 0 ELSE @ + 1]
            s5 == IF phase_changed THEN Consume(s4, {AdvanceSignal(before)})
                  ELSE IF topology_changed THEN Consume(s4, d.mentions)
                  ELSE s4
            r == [s5 EXCEPT !.human_advisor_hint = NoHint]
<1>1. /\ s1 \in Shared /\ s1.active_topology = s.active_topology
      /\ s1.phase = IF phase_changed THEN next ELSE s.phase
  <2>1. next \in Phase
    BY DEF MaxPhase, Shared
  <2>. QED  BY <2>1, EnterPhaseEffect DEF Kept, KeptPath
<1>2. s2 \in Shared /\ s2.phase = s1.phase
  <2>. HIDE DEF s1
  <2>. QED  BY <1>1, CountSwitchEffect DEF TopologyChanged
<1>3. s3 \in Shared /\ s3.phase = s2.phase
  <2>1. d.topology \in TopologyName
    BY DEF TopologyDecision
  <2>. HIDE DEF s2, topology_changed
  <2>. QED  BY <1>2, <2>1, AdoptEffect
<1>4. s4 \in Shared /\ s4.phase = s3.phase
  <2>. HIDE DEF s3, phase_changed, topology_changed
  <2>1. (phase_changed \/ topology_changed) \in BOOLEAN
    OBVIOUS
  <2>. QED  BY <1>3, <2>1, IterationEffect
<1>5. s5 \in Shared /\ s5.phase = s4.phase
  <2>. HIDE DEF s4
  <2>1. \A keys : Consume(s4, keys) \in Shared /\ Consume(s4, keys).phase = s4.phase
    BY <1>4, ConsumeEffect, ConsumePhase
  <2>. QED  BY <1>4, <2>1
<1>6. r.phase = s5.phase
  <2>. HIDE DEF s5
  <2>. QED  BY <1>5 DEF Shared
<1>7. r = GateResult(s, before, routed, d)
  BY Zenon DEF GateResult
<1>8. r.phase = IF phase_changed THEN next ELSE s.phase
  <2>. HIDE DEF s1, s2, s3, s4, s5, r, phase_changed, next
  <2>. QED  BY <1>1, <1>2, <1>3, <1>4, <1>5, <1>6
<1>. HIDE DEF r
<1>. QED  BY <1>7, <1>8

\* From the phase router to the gate both phase slots are filled.
SlotsFilled ==
  pc \in Node \ {"phase_router"} => phase_dec \in Phase /\ pre_phase \in Phase

LEMMA SlotsStep == ASSUME TypeOK, SlotsFilled, [Next]_vars PROVE SlotsFilled'
<1>1. CASE PhaseRouter
  BY <1>1, DecidedType DEF PhaseRouter, TypeOK, SlotsFilled, Shared
<1>2. CASE TopologyRouter \/ TopologyRouterRaises \/ HumanAdvise \/ HumanOverride \/ HumanFails
  BY <1>2 DEF TopologyRouter, TopologyRouterRaises, HumanAdvise, HumanOverride, HumanFails,
              SlotsFilled, Node, slots
<1>3. CASE Dispatch
  <2>1. pc = "dispatch"
    BY <1>3 DEF Dispatch
  <2>. QED  BY <1>3, <2>1, DispatchEffect DEF SlotsFilled, Node, slots
<1>4. CASE SubTopologyStep
  BY <1>4, SubStepEffect DEF SlotsFilled, Node, SubNode, slots
<1>5. CASE Gate
  BY <1>5, GateStep DEF SlotsFilled, Node, SubNode
<1>6. CASE UNCHANGED vars
  BY <1>6 DEF SlotsFilled, vars
<1>. QED  BY <1>1, <1>2, <1>3, <1>4, <1>5, <1>6 DEF Next, Step, Finished

LEMMA OnlyGateAtGate == ASSUME [Next]_vars, pc = "gate" PROVE Gate \/ UNCHANGED vars
  BY DEF Next, Step, Finished, Final, PhaseRouter, TopologyRouter, TopologyRouterRaises, HumanAdvise,
         HumanOverride, HumanFails, Dispatch, SubTopologyStep, RunChain, RunStar, RunMesh, OpenDebate,
         RunDebate, RunTopCoord, RunTeamA, RunTeamB, SubTopologyRaises, SubStep, SubNode

\* What the phase router decided to leave behind, the sub-topology and the gate do
\* not bring back.
THEOREM AdvanceKept == Spec => AdvanceNotLost
<1>1. Init => SlotsFilled
  BY DEF Init, SlotsFilled
<1>2. TypeOK /\ SlotsFilled /\ [Next]_vars => SlotsFilled'
  BY SlotsStep
<1>3. TypeOK /\ SlotsFilled /\ [Next]_vars
        => [pc = "gate" /\ PhaseOrder(phase_dec) > PhaseOrder(pre_phase)
              => PhaseOrder(shared'.phase) >= PhaseOrder(phase_dec)]_vars
  <2>. SUFFICES ASSUME TypeOK, SlotsFilled, Gate, PhaseOrder(phase_dec) > PhaseOrder(pre_phase)
                PROVE  PhaseOrder(shared'.phase) >= PhaseOrder(phase_dec)
    BY OnlyGateAtGate
  <2>. DEFINE next == MaxPhase(phase_dec, shared.phase)
  <2>1. phase_dec \in Phase /\ pre_phase \in Phase /\ shared.phase \in Phase
    BY DEF Gate, SlotsFilled, Node, TypeOK, Shared
  <2>2. phase_dec # NoPhase /\ pre_phase # NoPhase
    BY <2>1 DEF Phase, NoPhase
  <2>3. shared'.phase = IF next # pre_phase THEN next ELSE shared.phase
    <3>1. shared' = GateResult(shared, pre_phase, phase_dec, GateDecision)
      BY <2>2 DEF Gate, GatePhase
    <3>. QED  BY <2>1, <3>1, GateStep, GateLeavesPhase DEF TypeOK
  <2>4. \A p \in Phase : PhaseOrder(p) \in Nat
    BY DEF PhaseOrder
  <2>5. PhaseOrder(next) >= PhaseOrder(phase_dec)
    BY <2>1, <2>4 DEF MaxPhase
  <2>6. next # pre_phase
    <3>. DEFINE a == PhaseOrder(phase_dec)  b == PhaseOrder(pre_phase)  c == PhaseOrder(next)
    <3>1. a \in Nat /\ b \in Nat /\ c \in Nat /\ a > b /\ c >= a
      BY <2>1, <2>4, <2>5 DEF MaxPhase
    <3>2. c # b
      <4>. HIDE DEF a, b, c
      <4>. QED  BY <3>1
    <3>. QED  BY <3>2
  <2>. QED  BY <2>3, <2>5, <2>6
<1>. QED  BY <1>1, <1>2, <1>3, TypeCorrect, PTL DEF Spec, AdvanceNotLost
=============================================================================
