--------------------------- MODULE AdaptiveControl --------------------------
(***************************************************************************)
(* The switch history of the adaptive meta-graph, the theorem that with    *)
(* guards the meta-graph implements TopologyControl, and the budget of     *)
(* switches of a phase.                                                    *)
(***************************************************************************)
EXTENDS AdaptiveProofs

-----------------------------------------------------------------------------
(* The history.                                                            *)

\* HistoryConsistent, of one shared state.
Coherent(s) ==
  LET h == s.topology_history
      path == Append(h, s.active_topology)
  IN /\ s.active_topology = NoTopology => h = << >>
     /\ Len(h) = (IF s.topology_switch_count < HistoryTail
                  THEN s.topology_switch_count ELSE HistoryTail)
     /\ \A i \in DOMAIN h : path[i] # path[i + 1]

\* The state a failing sub-topology falls back to has to be coherent, too.
History == Coherent(shared) /\ Coherent(entry)

LEMMA KeptCoherent == ASSUME NEW s, NEW t, Kept(s, t), Coherent(s) PROVE Coherent(t)
  BY DEF Kept, KeptPath, Coherent

\* A switch appends what it leaves; the tail of a path without repetitions has none.
LEMMA SwitchCoherent ==
  ASSUME NEW s \in Shared, NEW t \in Shared, NEW x,
         GateSpec(s, t, x), TopologyChanged(s, x), Coherent(s)
  PROVE  Coherent(t)
<1>. DEFINE h == s.topology_history   a == s.active_topology  n == s.topology_switch_count
            p == Append(h, a)         g == t.topology_history  m == t.topology_switch_count
<1>1. /\ h \in Seq(TopologyName) /\ a \in TopologyName /\ n \in Nat /\ HistoryTail \in Nat \ {0}
      /\ x # a
  BY AdaptiveAssumption DEF Shared, TopologyChanged
<1>2. t.active_topology = x /\ m = n + 1 /\ g = LastN(p, HistoryTail) /\ x # NoTopology
  BY DEF GateSpec
<1>3. Len(h) = (IF n < HistoryTail THEN n ELSE HistoryTail) /\ \A i \in DOMAIN h : p[i] # p[i + 1]
  BY DEF Coherent
<1>4. Coherent(t) <=> /\ t.active_topology = NoTopology => g = << >>
                      /\ Len(g) = (IF m < HistoryTail THEN m ELSE HistoryTail)
                      /\ \A i \in DOMAIN g : Append(g, x)[i] # Append(g, x)[i + 1]
  BY <1>2 DEF Coherent
<1>. HIDE DEF h, a, n, g, m
<1>5. p \in Seq(TopologyName) /\ Len(p) = Len(h) + 1 /\ p[Len(p)] = a
  BY <1>1
<1>. HIDE DEF p
<1>6. /\ g \in Seq(TopologyName)
      /\ Len(g) = IF Len(p) < HistoryTail THEN Len(p) ELSE HistoryTail
      /\ \A i \in 1..Len(g) : g[i] = p[i + (Len(p) - Len(g))]
  BY <1>1, <1>2, <1>5, LastNProperties
<1>7. Len(g) = (IF m < HistoryTail THEN m ELSE HistoryTail)
  BY <1>1, <1>2, <1>3, <1>5, <1>6
<1>8. ASSUME NEW i \in DOMAIN g PROVE Append(g, x)[i] # Append(g, x)[i + 1]
  <2>1. i \in 1..Len(g) /\ Append(g, x)[i] = g[i] /\ Len(g) \in Nat /\ Len(p) \in Nat /\ Len(h) \in Nat
    BY <1>1, <1>5, <1>6
  <2>2. CASE i = Len(g)
    <3>1. Append(g, x)[i + 1] = x
      BY <1>6, <2>1, <2>2
    <3>2. g[i] = p[Len(p)]
      <4>1. i + (Len(p) - Len(g)) = Len(p)
        BY <2>1, <2>2
      <4>. QED  BY <1>6, <2>1, <4>1
    <3>. QED  BY <1>1, <1>5, <2>1, <3>1, <3>2
  <2>3. CASE i # Len(g)
    <3>. DEFINE k == Len(p) - Len(g)
    <3>1. /\ i + 1 \in 1..Len(g) /\ k \in Nat /\ i + k \in 1..Len(h)
          /\ (i + 1) + k = (i + k) + 1
      <4>. DEFINE lg == Len(g)  lp == Len(p)  lh == Len(h)
      <4>1. /\ lg \in Nat /\ lp \in Nat /\ lh \in Nat /\ lp = lh + 1 /\ lg <= lp
            /\ i \in Nat /\ 1 <= i /\ i <= lg /\ i # lg
        BY <1>1, <1>5, <1>6, <2>1, <2>3
      <4>. HIDE DEF lg, lp, lh
      <4>2. /\ i + 1 \in 1..lg /\ lp - lg \in Nat /\ i + (lp - lg) \in 1..lh
            /\ (i + 1) + (lp - lg) = (i + (lp - lg)) + 1
        BY <4>1
      <4>. QED  BY <4>2 DEF lg, lp, lh
    <3>2. Append(g, x)[i + 1] = g[i + 1]
      BY <1>6, <3>1
    <3>3. g[i] = p[i + k] /\ g[i + 1] = p[(i + 1) + k]
      BY <1>6, <2>1, <3>1
    <3>4. i + k \in DOMAIN h
      BY <1>1, <3>1
    <3>. HIDE DEF k
    <3>. QED  BY <1>3, <2>1, <3>1, <3>2, <3>3, <3>4
  <2>. QED  BY <2>2, <2>3
<1>. QED  BY <1>2, <1>4, <1>7, <1>8

LEMMA GateCoherent ==
  ASSUME NEW s \in Shared, NEW t \in Shared, NEW x, GateSpec(s, t, x), Coherent(s)
  PROVE  Coherent(t)
<1>1. CASE TopologyChanged(s, x)
  BY <1>1, SwitchCoherent
<1>2. CASE s.active_topology = NoTopology
  <2>1. /\ t.topology_history = << >> /\ s.topology_history = << >>
        /\ t.active_topology # NoTopology
        /\ t.topology_switch_count = s.topology_switch_count
    BY <1>2 DEF GateSpec, Coherent, TopologyChanged
  <2>2. DOMAIN t.topology_history = {}
    BY <2>1
  <2>. QED  BY <2>1, <2>2 DEF Coherent
<1>3. CASE ~TopologyChanged(s, x) /\ s.active_topology # NoTopology
  BY <1>3 DEF GateSpec, Coherent
<1>. QED  BY <1>1, <1>2, <1>3

LEMMA HistoryStep == ASSUME TypeOK, Going, History, [Next]_vars PROVE History'
<1>. USE DEF History
<1>1. CASE DecidingStep
  BY <1>1, DecidingEffect, KeptCoherent DEF Steady
<1>2. CASE Dispatch
  <2>1. pc = "dispatch"
    BY <1>2 DEF Dispatch
  <2>2. Coherent(entry')
    BY <1>2, DispatchEffect, TickEffect DEF Coherent, TypeOK
  <2>. QED  BY <1>2, <2>1, <2>2, NotCapped, DispatchEffect, KeptCoherent DEF Steady
<1>3. CASE SubTopologyStep
  BY <1>3, SubStepEffect, KeptCoherent DEF TypeOK, Counted
<1>4. CASE Gate
  <2>1. entry' = entry
    BY <1>4 DEF Gate
  <2>. QED  BY <1>4, <2>1, GateStep, GateCoherent DEF TypeOK
<1>5. CASE UNCHANGED vars
  BY <1>5 DEF vars
<1>. QED  BY <1>1, <1>2, <1>3, <1>4, <1>5 DEF Next, Step, Finished, DecidingStep

\* The history is the tail of the path of topologies the run took: as long as the
\* counter says, and no topology follows itself.
THEOREM HistoryFollowsCounter == Spec => []HistoryConsistent
<1>1. Init => History
  BY AdaptiveAssumption DEF Init, History, Coherent, InitialShared
<1>2. TypeOK /\ Going /\ History /\ [Next]_vars => History'
  BY HistoryStep
<1>3. History => HistoryConsistent
  BY DEF History, Coherent, HistoryConsistent
<1>. QED  BY <1>1, <1>2, <1>3, TypeCorrect, GoingAlways, PTL DEF Spec

-----------------------------------------------------------------------------
(* The guards.                                                             *)

\* A switch of s to x would respect the guards.
Cleared(s, x) ==
  TopologyChanged(s, x) =>
    /\ s.iter_total - s.topology_started_at_iter >= MinDwell
    /\ x \notin RecentlyLeft(s)
    /\ s.topology_switch_count < MaxPerRun
    /\ ~ViolatesMaxPerPhase(s)

\* More iterations of the same topology do not spoil a clearance.
LEMMA ClearedLater ==
  ASSUME NEW s \in Shared, NEW t \in Shared, NEW x,
         Kept(s, t), t.iter_total >= s.iter_total, Cleared(s, x)
  PROVE  Cleared(t, x)
<1>. DEFINE n == s.iter_total  m == t.iter_total  b == s.topology_started_at_iter
<1>1. {n, m, b} \subseteq Nat /\ m >= n /\ MinDwell \in Nat
  BY RoutingAssumption DEF Shared
<1>2. n - b >= MinDwell => m - b >= MinDwell
  <2>. HIDE DEF n, m, b
  <2>. QED  BY <1>1
<1>. QED  BY <1>2 DEF Kept, KeptPath, Cleared, TopologyChanged, RecentlyLeft, ViolatesMaxPerPhase

LEMMA NotBlockedCleared ==
  ASSUME NEW s \in Shared, NEW x, ~Blocked(s, x) PROVE Cleared(s, x)
<1>. DEFINE n == s.iter_total  b == s.topology_started_at_iter  c == s.topology_switch_count
<1>1. {n, b, c, MinDwell, MaxPerRun} \subseteq Nat
  BY RoutingAssumption DEF Shared
<1>2. /\ ~(n - b < MinDwell) /\ x \notin RecentlyLeft(s) /\ ~(c >= MaxPerRun)
      /\ ~ViolatesMaxPerPhase(s)
  BY DEF Blocked, ViolatesMinDwell, ViolatesCooldown, ViolatesMaxPerRun
<1>3. n - b >= MinDwell /\ c < MaxPerRun
  <2>. HIDE DEF n, b, c
  <2>. QED  BY <1>1, <1>2
<1>. QED  BY <1>2, <1>3 DEF Cleared

LEMMA GuardedCleared ==
  ASSUME UseGuards, NEW s \in Shared, NEW d \in TopologyDecision
  PROVE  Cleared(s, Guarded(s, d).topology)
<1>1. CASE s.active_topology = NoTopology
  BY <1>1 DEF Cleared, TopologyChanged
<1>2. CASE s.active_topology # NoTopology /\ Guarded(s, d).topology = s.active_topology
  BY <1>2 DEF Cleared, TopologyChanged
<1>3. CASE s.active_topology # NoTopology /\ Guarded(s, d).topology # s.active_topology
  BY <1>3, NotBlockedCleared DEF Guarded, Decision, ActiveOr
<1>. QED  BY <1>1, <1>2, <1>3

\* From the moment a topology is decided until the gate applies it, the switch is
\* cleared, for the state that runs and for the one a failure would restore.
Clearance ==
  /\ pc \in SubNode \cup {"human_advisor", "dispatch", "gate"} =>
       topo_dec \in TopologyDecision /\ Cleared(shared, topo_dec.topology)
  /\ pc \in SubNode =>
       Kept(entry, shared) /\ Cleared(entry, topo_dec.topology)

LEMMA ClearanceStep ==
  ASSUME UseGuards, TypeOK, Going, Progress, Clearance, [Next]_vars PROVE Clearance'
<1>. DEFINE n == shared.iter_total
<1>0. n \in Nat /\ n >= n
  BY DEF TypeOK, Shared
<1>1. CASE PhaseRouter \/ TopologyRouterRaises \/ HumanFails
  BY <1>1 DEF PhaseRouter, TopologyRouterRaises, HumanFails, Clearance, SubNode
<1>2. CASE TopologyRouter
  <2>1. PICK d \in RawDecisions(shared) : topo_dec' = Guarded(shared, d)
    BY <1>2 DEF TopologyRouter
  <2>2. topo_dec' \in TopologyDecision /\ Cleared(shared, topo_dec'.topology)
    BY <2>1, RawType, GuardedType, GuardedCleared DEF TypeOK
  <2>. QED  BY <1>2, <2>2 DEF TopologyRouter, Clearance, SubNode
<1>3. CASE HumanAdvise \/ HumanOverride
  <2>1. pc = "human_advisor" /\ pc' = "dispatch"
    BY <1>3 DEF HumanAdvise, HumanOverride
  <2>2. shared' \in Shared /\ Kept(shared, shared') /\ shared'.iter_total >= shared.iter_total
    BY <1>0, <1>3, DecidingEffect DEF DecidingStep, Steady
  <2>3. topo_dec' \in TopologyDecision /\ Cleared(shared, topo_dec'.topology)
    <3>1. CASE HumanAdvise
      BY <2>1, <3>1 DEF HumanAdvise, Clearance, slots
    <3>2. CASE HumanOverride
      <4>1. PICK t \in HumanTopologies, m \in ReasonMentions :
              topo_dec' = IF UseGuards /\ t # topo_dec.topology /\ Blocked(shared, t)
                          THEN Decision(topo_dec.topology, "guard_override", {})
                          ELSE Decision(t, "human_override", m)
        BY <3>2 DEF HumanOverride
      <4>2. topo_dec' \in TopologyDecision
        BY <2>1, <4>1, RoutingAssumption, AdaptiveAssumption
           DEF Clearance, Decision, TopologyDecision, DecidedBy
      <4>3. CASE topo_dec'.topology = topo_dec.topology
        BY <2>1, <4>2, <4>3 DEF Clearance
      <4>4. CASE topo_dec'.topology # topo_dec.topology
        BY <4>1, <4>2, <4>4, NotBlockedCleared DEF Decision, TypeOK
      <4>. QED  BY <4>3, <4>4
    <3>. QED  BY <1>3, <3>1, <3>2
  <2>. QED  BY <2>1, <2>2, <2>3, ClearedLater DEF Clearance, SubNode, TypeOK
<1>4. CASE Dispatch
  <2>1. pc = "dispatch"
    BY <1>4 DEF Dispatch
  <2>2. /\ pc' \in SubNode /\ topo_dec' = topo_dec
        /\ entry' \in Shared /\ shared' \in Shared
        /\ Kept(entry', shared')
        /\ entry'.iter_total = n /\ shared'.iter_total = n
    BY <1>4, <2>1, NotCapped, DispatchEffect, TickEffect DEF Steady, slots, TypeOK
  <2>3. topo_dec \in TopologyDecision /\ Cleared(shared, topo_dec.topology)
    BY <2>1 DEF Clearance
  <2>4. Cleared(entry', topo_dec.topology)
    BY <1>4, <2>3, DispatchEffect, TickEffect
       DEF Cleared, TopologyChanged, RecentlyLeft, ViolatesMaxPerPhase, TypeOK
  <2>5. Cleared(shared', topo_dec.topology)
    BY <1>0, <2>2, <2>4, ClearedLater
  <2>. QED  BY <2>2, <2>3, <2>4, <2>5 DEF Clearance
<1>5. CASE SubTopologyStep
  <2>1. /\ pc \in SubNode /\ pc' \in SubNode \cup {"gate"}
        /\ entry' = entry /\ topo_dec' = topo_dec
        /\ \/ shared' \in Shared /\ Counted(shared, shared')
           \/ pc' = "gate" /\ shared' = entry
    BY <1>5, SubStepEffect DEF slots
  <2>2. /\ topo_dec \in TopologyDecision /\ Cleared(shared, topo_dec.topology)
        /\ Kept(entry, shared) /\ Cleared(entry, topo_dec.topology)
    BY <2>1 DEF Clearance
  <2>3. CASE shared' \in Shared /\ Counted(shared, shared')
    <3>1. shared'.iter_total >= n
      <4>1. shared'.iter_total = n + 1
        BY <2>3 DEF Counted
      <4>. HIDE DEF n
      <4>. QED  BY <1>0, <4>1
    <3>2. Cleared(shared', topo_dec.topology)
      BY <2>2, <2>3, <3>1, ClearedLater DEF Counted, TypeOK
    <3>3. Kept(entry, shared')
      BY <2>2, <2>3 DEF Counted, Kept, KeptPath
    <3>. QED  BY <2>1, <2>2, <3>2, <3>3 DEF Clearance
  <2>4. CASE pc' = "gate" /\ shared' = entry
    BY <2>1, <2>2, <2>4 DEF Clearance, SubNode
  <2>. QED  BY <2>1, <2>3, <2>4
<1>6. CASE Gate
  BY <1>6, GateStep DEF Clearance, SubNode
<1>7. CASE UNCHANGED vars
  BY <1>7 DEF Clearance, vars
<1>. QED  BY <1>1, <1>2, <1>3, <1>4, <1>5, <1>6, <1>7 DEF Next, Step, Finished

-----------------------------------------------------------------------------
(* The refinement.                                                         *)

\* A gate that changes the topology is a Switch, the first one an Adopt.
LEMMA GateRefines ==
  ASSUME UseGuards, TypeOK, Clearance, Gate
  PROVE  [Control!Next]_Control!cvars
<1>1. pc = "gate" /\ pc' \notin SubNode /\ pc \notin SubNode
  BY GateStep DEF Gate, SubNode
<1>2. /\ topo_dec \in TopologyDecision /\ Cleared(shared, topo_dec.topology)
      /\ GateDecision = topo_dec
      /\ topo_dec.topology \in TopologyName
  BY <1>1 DEF Clearance, GateDecision, NoDecision, Decision, TopologyDecision, DecidedBy
<1>3. GateSpec(shared, shared', topo_dec.topology)
  BY <1>2, GateStep
<1>4. shared'.iter_total = shared.iter_total
  BY <1>3 DEF GateSpec
<1>5. CASE shared.active_topology = NoTopology
  <2>1. Control!Adopt
    BY <1>1, <1>2, <1>3, <1>4, <1>5 DEF Control!Adopt, GateSpec, TopologyChanged
  <2>. QED  BY <2>1 DEF Control!Next
<1>6. CASE TopologyChanged(shared, topo_dec.topology)
  <2>1. Control!Switch
    BY <1>1, <1>2, <1>3, <1>4, <1>6
       DEF Control!Switch, Control!LastOf, LastN, GateSpec, TopologyChanged, Cleared, RecentlyLeft
  <2>. QED  BY <2>1 DEF Control!Next
<1>7. CASE ~TopologyChanged(shared, topo_dec.topology) /\ shared.active_topology # NoTopology
  BY <1>1, <1>3, <1>4, <1>7 DEF GateSpec, Control!cvars
<1>. QED  BY <1>5, <1>6, <1>7

LEMMA StepRefines ==
  ASSUME UseGuards, TypeOK, Going, Progress, Clearance, [Next]_vars
  PROVE  [Control!Next]_Control!cvars
<1>1. CASE DecidingStep
  <2>1. pc \notin SubNode /\ pc' \notin SubNode
    BY <1>1, DecidingEffect DEF Deciding, SubNode
  <2>. QED  BY <1>1, <2>1, DecidingEffect DEF Control!cvars, Steady, Kept, KeptPath
<1>2. CASE Dispatch
  <2>1. pc = "dispatch"
    BY <1>2 DEF Dispatch
  <2>2. pc' \in SubNode /\ pc \notin SubNode /\ Steady(entry', shared') /\ entry' = Ticked(shared)
    BY <1>2, <2>1, NotCapped, DispatchEffect DEF SubNode
  <2>. QED  BY <2>2, TickEffect DEF Control!cvars, Steady, Kept, KeptPath, TypeOK
<1>3. CASE SubTopologyStep
  <2>1. /\ pc \in SubNode /\ pc' \in SubNode \cup {"gate"}
        /\ entry' = entry
        /\ \/ shared' \in Shared /\ Counted(shared, shared')
           \/ pc' = "gate" /\ shared' = entry
    BY <1>3, SubStepEffect
  <2>2. Kept(entry, shared)
    BY <2>1 DEF Clearance
  <2>3. Kept(shared, shared')
    BY <2>1, <2>2 DEF Counted, Kept, KeptPath
  <2>4. CASE pc' \in SubNode
    BY <2>1, <2>3, <2>4 DEF Control!cvars, Kept, KeptPath
  <2>5. CASE pc' = "gate" /\ shared' = entry
    BY <2>1, <2>3, <2>5 DEF Control!cvars, Kept, KeptPath, SubNode
  <2>6. CASE pc' = "gate" /\ shared' \in Shared /\ Counted(shared, shared')
    <3>. DEFINE n == shared.iter_total  e == entry.iter_total  m == shared'.iter_total
    <3>1. {n, e, m} \subseteq Nat /\ n >= e /\ m = n + 1
      BY <2>1, <2>6 DEF TypeOK, Shared, Counted, Progress
    <3>2. m \in Nat /\ m > e
      <4>. HIDE DEF n, e, m
      <4>. QED  BY <3>1
    <3>3. Control!Work
      BY <2>1, <2>3, <2>6, <3>2 DEF Control!Work, Kept, KeptPath, SubNode
    <3>. QED  BY <3>3 DEF Control!Next
  <2>. QED  BY <2>1, <2>4, <2>5, <2>6
<1>4. CASE Gate
  BY <1>4, GateRefines
<1>5. CASE UNCHANGED vars
  BY <1>5 DEF vars, Control!cvars
<1>. QED  BY <1>1, <1>2, <1>3, <1>4, <1>5 DEF Next, Step, Finished, DecidingStep

\* With guards, no interleaving of routers, humans and failing sub-topologies makes
\* a switch the guards forbid: the meta-graph implements TopologyControl.
THEOREM GuardsHold == ASSUME UseGuards PROVE Spec => ControlSpec
<1>1. Init => Control!Init /\ Progress /\ Clearance
  BY DEF Init, Control!Init, InitialShared, Progress, Clearance, SubNode
<1>2. TypeOK /\ Going /\ Progress /\ Clearance /\ [Next]_vars
        => Progress' /\ Clearance' /\ [Control!Next]_Control!cvars
  BY ProgressStep, ClearanceStep, StepRefines
<1>. QED  BY <1>1, <1>2, TypeCorrect, GoingAlways, PTL DEF Spec, ControlSpec, Control!Spec
-----------------------------------------------------------------------------
(* The budget of a phase.                                                  *)

\* No free-text reason names the counter the guard reads.
CounterUntold == \A m \in ReasonMentions : "phase_switch_count" \notin m

\* The switches of the phase as the counter tells them.
Told(s) == IF s.phase_switch_count = Absent THEN 0 ELSE s.phase_switch_count

LEMMA GateCounter ==
  ASSUME NEW s \in Shared, NEW before \in Phase, NEW routed \in Phase, NEW d \in TopologyDecision,
         "phase_switch_count" \notin d.mentions
  PROVE  Told(GateResult(s, before, routed, d))
           = (IF MaxPhase(routed, s.phase) # before THEN 0 ELSE Told(s))
             + (IF TopologyChanged(s, d.topology) THEN 1 ELSE 0)
<1>. DEFINE next == MaxPhase(routed, s.phase)
            phase_changed == next # before
            topology_changed == TopologyChanged(s, d.topology)
            s1 == IF phase_changed THEN EnterPhase(s, next) ELSE s
            s2 == IF topology_changed THEN CountSwitch(s1) ELSE s1
            s3 == IF topology_changed \/ s.active_topology = NoTopology
                  THEN Adopt(s2, d.topology) ELSE s2
            s4 == [s3 EXCEPT !.iteration = IF phase_changed \/ topology_changed THEN 0 ELSE @ + 1]
            s5 == IF phase_changed THEN Consume(s4, {AdvanceSignal(before)})
                  ELSE IF topology_changed THEN Consume(s4, d.mentions)
                  ELSE s4
            r == [s5 EXCEPT !.human_advisor_hint = NoHint]
            told == IF phase_changed THEN 0 ELSE Told(s)
<1>1. s1 \in Shared /\ s1.active_topology = s.active_topology /\ Told(s1) = told
  <2>1. next \in Phase
    BY DEF MaxPhase, Shared
  <2>2. Absent # 0
    BY DEF Absent
  <2>. QED  BY <2>1, <2>2, EnterPhaseEffect DEF KeptPath, Told
<1>2. told \in Nat
  BY DEF Told, Shared, Absent
<1>3. s2 \in Shared /\ Told(s2) = told + (IF topology_changed THEN 1 ELSE 0)
  <2>. HIDE DEF s1, told
  <2>1. CASE topology_changed
    <3>1. s1.active_topology # NoTopology
      BY <1>1, <2>1 DEF TopologyChanged
    <3>2. s2 \in Shared /\ s2.phase_switch_count = Told(s1) + 1
      BY <1>1, <2>1, <3>1, CountSwitchEffect DEF Told
    <3>3. s2.phase_switch_count # Absent
      BY <1>1, <1>2, <3>2 DEF Absent
    <3>. QED  BY <1>1, <2>1, <3>2, <3>3 DEF Told
  <2>2. CASE ~topology_changed
    BY <1>1, <1>2, <2>2
  <2>. QED  BY <2>1, <2>2
<1>4. s3 \in Shared /\ Told(s3) = Told(s2)
  <2>1. d.topology \in TopologyName
    BY DEF TopologyDecision
  <2>. HIDE DEF s2, topology_changed
  <2>. QED  BY <1>3, <2>1, AdoptEffect DEF Told
<1>5. s4 \in Shared /\ Told(s4) = Told(s3)
  <2>. HIDE DEF s3, phase_changed, topology_changed
  <2>1. (phase_changed \/ topology_changed) \in BOOLEAN
    OBVIOUS
  <2>. QED  BY <1>4, <2>1, IterationEffect DEF Steady, Kept, KeptPath, Told
<1>6. s5 \in Shared /\ Told(s5) = Told(s4)
  <2>1. AdvanceSignal(before) # "phase_switch_count"
    BY DEF AdvanceSignal
  <2>. HIDE DEF s4, phase_changed, topology_changed
  <2>. QED  BY <1>5, <2>1, ConsumeEffect DEF Steady, Kept, Told
<1>7. Told(r) = Told(s5)
  <2>. HIDE DEF s5
  <2>. QED  BY <1>6, HintEffect DEF Steady, Kept, Told, Hint
<1>8. r = GateResult(s, before, routed, d)
  BY Zenon DEF GateResult
<1>9. Told(r) = told + (IF topology_changed THEN 1 ELSE 0)
  <2>. HIDE DEF s2, s3, s4, s5, r, told, topology_changed
  <2>. QED  BY <1>3, <1>4, <1>5, <1>6, <1>7
<1>. QED
  <2>. HIDE DEF s1, s2, s3, s4, s5, r
  <2>. QED  BY <1>8, <1>9

\* The counter tells the switches of the phase, and no decision is about to delete it.
PhaseBudget ==
  /\ switches = Told(shared)
  /\ switches <= MaxPerPhase
  /\ pc \in SubNode \cup {"human_advisor", "dispatch", "gate"} =>
       "phase_switch_count" \notin topo_dec.mentions

LEMMA DecisionsUntold ==
  ASSUME CounterUntold, NEW s \in Shared, NEW d \in RawDecisions(s)
  PROVE  "phase_switch_count" \notin Guarded(s, d).mentions
<1>1. "phase_switch_count" \notin d.mentions
  <2>1. "phase_switch_count" \notin RuleDecision(s).mentions
    BY DEF RuleDecision, Decision
  <2>. QED  BY <2>1 DEF RawDecisions, CounterUntold, Decision
<1>. QED  BY <1>1 DEF Guarded, Decision

\* A switch counts once, where the guard found room for it.
LEMMA GateBudget ==
  ASSUME TypeOK, Clearance, PhaseBudget, Gate
  PROVE  PhaseBudget'
<1>. DEFINE before == IF pre_phase # NoPhase THEN pre_phase ELSE shared.phase
            changed == MaxPhase(GatePhase, shared.phase) # before
            switched == TopologyChanged(shared, topo_dec.topology)
            a == shared.topology_switch_count
            b == shared'.topology_switch_count
<1>1. pc = "gate" /\ pc' \in {"end", "phase_router"}
  BY GateStep DEF Gate
<1>2. /\ GateDecision = topo_dec /\ topo_dec \in TopologyDecision
      /\ "phase_switch_count" \notin topo_dec.mentions
      /\ Cleared(shared, topo_dec.topology)
  BY <1>1 DEF Clearance, PhaseBudget, GateDecision, NoDecision, Decision, TopologyDecision, DecidedBy
<1>3. before \in Phase /\ GatePhase \in Phase /\ shared \in Shared
  BY DEF GatePhase, TypeOK, Shared
<1>4. /\ shared' = GateResult(shared, before, GatePhase, topo_dec)
      /\ switches' = (IF changed THEN 0 ELSE switches) + (b - a)
  BY <1>2 DEF Gate
<1>5. a \in Nat /\ b = a + (IF switched THEN 1 ELSE 0)
  <2>1. a \in Nat
    BY <1>3 DEF Shared
  <2>2. GateSpec(shared, shared', topo_dec.topology)
    BY <1>2, GateStep
  <2>. QED  BY <2>1, <2>2 DEF GateSpec
<1>6. Told(shared') = (IF changed THEN 0 ELSE Told(shared)) + (IF switched THEN 1 ELSE 0)
  BY <1>2, <1>3, <1>4, GateCounter
<1>7. Told(shared) \in Nat /\ MaxPerPhase \in Nat /\ switches = Told(shared) /\ switches <= MaxPerPhase
  BY <1>3, RoutingAssumption DEF Told, Shared, Absent, PhaseBudget
<1>8. switched => Told(shared) < MaxPerPhase
  <2>. SUFFICES ASSUME switched PROVE Told(shared) < MaxPerPhase
    OBVIOUS
  <2>1. ~ViolatesMaxPerPhase(shared)
    BY <1>2 DEF Cleared
  <2>2. CASE shared.phase_switch_count = Absent
    <3>1. Len(shared.topology_history) \in Nat
      BY <1>3 DEF Shared
    <3>. QED  BY <1>7, <2>1, <2>2, <3>1 DEF Told, ViolatesMaxPerPhase
  <2>3. CASE shared.phase_switch_count # Absent
    BY <1>7, <2>1, <2>3 DEF Told, ViolatesMaxPerPhase
  <2>. QED  BY <2>2, <2>3
<1>. HIDE DEF before, changed, switched, a, b
<1>9. b - a = (IF switched THEN 1 ELSE 0)
  BY <1>5
<1>10. switches' = Told(shared') /\ switches' <= MaxPerPhase
  BY <1>4, <1>6, <1>7, <1>8, <1>9
<1>11. Told(shared)' = Told(shared')
  BY DEF Told
<1>. QED  BY <1>1, <1>10, <1>11 DEF PhaseBudget, SubNode

LEMMA BudgetStep ==
  ASSUME UseGuards, CounterUntold, TypeOK, Going, Clearance, PhaseBudget, [Next]_vars
  PROVE  PhaseBudget'
<1>1. CASE PhaseRouter \/ TopologyRouterRaises \/ HumanFails
  BY <1>1 DEF PhaseRouter, TopologyRouterRaises, HumanFails, PhaseBudget, SubNode, records, Told
<1>2. CASE TopologyRouter
  <2>1. "phase_switch_count" \notin topo_dec'.mentions
    BY <1>2, DecisionsUntold DEF TopologyRouter, TypeOK
  <2>. QED  BY <1>2, <2>1 DEF TopologyRouter, PhaseBudget, records, Told
<1>3. CASE HumanAdvise \/ HumanOverride
  <2>1. Told(shared') = Told(shared) /\ pc = "human_advisor" /\ switches' = switches
    BY <1>3, DecidingEffect DEF DecidingStep, Steady, Kept, Told, HumanAdvise, HumanOverride, records
  <2>2. "phase_switch_count" \notin topo_dec'.mentions
    <3>1. CASE HumanAdvise
      BY <2>1, <3>1 DEF HumanAdvise, PhaseBudget, slots
    <3>2. CASE HumanOverride
      BY <3>2 DEF HumanOverride, CounterUntold, Decision
    <3>. QED  BY <1>3, <3>1, <3>2
  <2>. QED  BY <2>1, <2>2 DEF PhaseBudget, Told
<1>4. CASE Dispatch
  <2>1. pc = "dispatch"
    BY <1>4 DEF Dispatch
  <2>2. /\ shared'.phase_switch_count = shared.phase_switch_count
        /\ topo_dec' = topo_dec /\ switches' = switches
    BY <1>4, <2>1, NotCapped, DispatchEffect, TickEffect DEF Steady, Kept, slots, TypeOK
  <2>. QED  BY <2>1, <2>2 DEF PhaseBudget, Told
<1>5. CASE SubTopologyStep
  <2>1. /\ pc \in SubNode /\ UNCHANGED <<slots, records>>
        /\ \/ shared' \in Shared /\ Counted(shared, shared')
           \/ shared' = entry
    BY <1>5, SubStepEffect
  <2>2. Kept(entry, shared)
    BY <2>1 DEF Clearance
  <2>3. shared'.phase_switch_count = shared.phase_switch_count
    BY <2>1, <2>2 DEF Counted, Kept
  <2>. QED  BY <2>1, <2>3 DEF PhaseBudget, Told, slots, records
<1>6. CASE Gate
  BY <1>6, GateBudget
<1>7. CASE UNCHANGED vars
  BY <1>7 DEF PhaseBudget, Told, vars
<1>. QED  BY <1>1, <1>2, <1>3, <1>4, <1>5, <1>6, <1>7 DEF Next, Step, Finished

\* max_per_phase holds on every path, whoever decides, as long as no free-text reason
\* names the counter the guard reads: the gate would delete it as a consumed signal.
THEOREM PhaseBudgetHolds == ASSUME UseGuards, CounterUntold PROVE Spec => []PhaseSwitchBudget
<1>1. Init => Progress /\ Clearance /\ PhaseBudget
  <2>1. Init => Progress /\ Clearance
    BY DEF Init, InitialShared, Progress, Clearance, SubNode
  <2>2. Init => PhaseBudget
    BY RoutingAssumption DEF Init, InitialShared, PhaseBudget, Told, SubNode
  <2>. QED  BY <2>1, <2>2
<1>2. TypeOK /\ Going /\ Progress /\ Clearance /\ PhaseBudget /\ [Next]_vars
        => Progress' /\ Clearance' /\ PhaseBudget'
  BY ProgressStep, ClearanceStep, BudgetStep
<1>3. PhaseBudget => PhaseSwitchBudget
  BY DEF PhaseBudget, PhaseSwitchBudget
<1>. QED  BY <1>1, <1>2, <1>3, TypeCorrect, GoingAlways, PTL DEF Spec
=============================================================================
