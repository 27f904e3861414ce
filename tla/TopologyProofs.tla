--------------------------- MODULE TopologyProofs ---------------------------
(***************************************************************************)
(* Lemmas about the sub-topologies: a round yields a shared state, counts  *)
(* one iteration, and leaves alone what the gate and the guards rely on.   *)
(***************************************************************************)
EXTENDS Chain, Star, Mesh, Debate, Hierarchical, TLAPS

-----------------------------------------------------------------------------
(* What a sub-topology never touches, and what it may change of the rest.  *)

KeptPath(s, t) ==
  /\ t.active_topology = s.active_topology
  /\ t.topology_started_at_iter = s.topology_started_at_iter
  /\ t.topology_switch_count = s.topology_switch_count
  /\ t.topology_history = s.topology_history
  /\ t.meta_ticks = s.meta_ticks

Kept(s, t) == KeptPath(s, t) /\ t.phase_switch_count = s.phase_switch_count

\* The step of an agent: no counter moves.
Steady(s, t) ==
  /\ Kept(s, t)
  /\ t.iter_total = s.iter_total
  /\ t.phase_started_at_iter = s.phase_started_at_iter

\* One counted round: the phase window stays or starts now.
Counted(s, t) ==
  /\ Kept(s, t)
  /\ t.iter_total = s.iter_total + 1
  /\ t.phase_started_at_iter \in {s.phase_started_at_iter, t.iter_total}

-----------------------------------------------------------------------------
(* Agents.                                                                 *)

LEMMA PlannerEffect ==
  ASSUME NEW s \in Shared
  PROVE  PlannerStep(s) \in Shared /\ Steady(s, PlannerStep(s))
<1>1. PlannerStep(s) \in Shared
  BY SharedAssumption DEF PlannerStep, Shared, SignalFlag
<1>2. Steady(s, PlannerStep(s))
  BY DEF PlannerStep, Shared, Steady, Kept, KeptPath
<1>. QED  BY <1>1, <1>2

LEMMA ExecutorEffect ==
  ASSUME NEW s \in Shared, NEW w \in SUBSET ExecutorSignals
  PROVE  ExecutorStep(s, w) \in Shared /\ Steady(s, ExecutorStep(s, w))
<1>1. ExecutorStep(s, w) \in Shared
  BY SharedAssumption DEF ExecutorStep, Shared, SignalFlag
<1>2. Steady(s, ExecutorStep(s, w))
  BY DEF ExecutorStep, Shared, Steady, Kept, KeptPath
<1>. QED  BY <1>1, <1>2

LEMMA CriticEffect ==
  ASSUME NEW s \in Shared, NEW approved \in BOOLEAN
  PROVE  CriticStep(s, approved) \in Shared /\ Steady(s, CriticStep(s, approved))
<1>1. CASE approved
  BY <1>1 DEF CriticStep, Shared, SignalFlag, Steady, Kept, KeptPath
<1>2. CASE ~approved
  <2>. DEFINE n == IF s.rejected_count < RejectThreshold
                   THEN s.rejected_count + 1 ELSE s.rejected_count
  <2>1. s.rejected_count \in 0..RejectThreshold /\ RejectThreshold \in Nat
    BY SharedAssumption DEF Shared
  <2>2. n \in 0..RejectThreshold
    BY <2>1
  <2>3. CriticStep(s, approved) = [s EXCEPT !.rejected_count = n]
    BY <1>2 DEF CriticStep
  <2>. HIDE DEF n
  <2>. QED  BY <2>2, <2>3 DEF Shared, Steady, Kept, KeptPath
<1>. QED  BY <1>1, <1>2

LEMMA ApprovedEffect ==
  ASSUME NEW s \in Shared, NEW approved \in BOOLEAN
  PROVE  SetApproved(s, approved) \in Shared /\ Steady(s, SetApproved(s, approved))
<1>1. SetApproved(s, approved) \in Shared
  BY SharedAssumption DEF SetApproved, Shared, SignalFlag
<1>2. Steady(s, SetApproved(s, approved))
  BY DEF SetApproved, Shared, Steady, Kept, KeptPath
<1>. QED  BY <1>1, <1>2

\* A steady step before or after a counted one makes a counted round.
LEMMA SteadyTrans ==
  ASSUME NEW s \in Shared, NEW t \in Shared, NEW u \in Shared
  PROVE  /\ Steady(s, t) /\ Steady(t, u) => Steady(s, u)
         /\ Steady(s, t) /\ Counted(t, u) => Counted(s, u)
         /\ Counted(s, t) /\ Steady(t, u) => Counted(s, u)
  BY DEF Steady, Counted, Kept, KeptPath

-----------------------------------------------------------------------------
(* Chain.                                                                  *)

LEMMA ChainTurnEffect ==
  ASSUME NEW s \in Shared
  PROVE  ChainTurn(s) \in Shared /\ Counted(s, ChainTurn(s))
<1>. DEFINE n == s.iter_total + 1
            m == s.iteration + 1
<1>1. n \in Nat /\ m \in Nat
  BY DEF Shared
<1>2. ChainTurn(s) = [s EXCEPT !.phase = "execution", !.iter_total = n, !.iteration = m]
  BY DEF ChainTurn
<1>3. [s EXCEPT !.phase = "execution", !.iter_total = n, !.iteration = m] \in Shared
  <2>. HIDE DEF n, m
  <2>. QED  BY <1>1 DEF Shared, Phase
<1>4. Counted(s, ChainTurn(s))
  BY <1>2 DEF Counted, Kept, KeptPath, Shared
<1>. QED  BY <1>2, <1>3, <1>4

LEMMA ChainEffect ==
  ASSUME NEW s \in Shared, NEW t \in ChainRound(s)
  PROVE  t \in Shared /\ Counted(s, t)
<1>1. PICK w \in SUBSET ExecutorSignals, approved \in BOOLEAN :
        t = ChainTurn(SetApproved(CriticStep(ExecutorStep(s, w), approved), approved))
  BY DEF ChainRound
<1>. DEFINE a == ExecutorStep(s, w)
            b == CriticStep(a, approved)
            c == SetApproved(b, approved)
<1>2. a \in Shared /\ Steady(s, a)
  BY ExecutorEffect
<1>3. b \in Shared /\ Steady(a, b)
  BY <1>2, CriticEffect
<1>4. c \in Shared /\ Steady(b, c)
  BY <1>3, ApprovedEffect
<1>5. t \in Shared /\ Counted(c, t)
  BY <1>1, <1>4, ChainTurnEffect
<1>. QED  BY <1>2, <1>3, <1>4, <1>5, SteadyTrans

-----------------------------------------------------------------------------
(* Star.                                                                   *)

LEMMA CoordinatorEffect ==
  ASSUME NEW s \in Shared
  PROVE  StarCoordinator(s) \in Shared /\ Counted(s, StarCoordinator(s))
<1>. DEFINE n == s.iter_total + 1
            m == s.iteration + 1
            advance == /\ s.phase # "done"
                       /\ \/ AdvanceSignal(s.phase) \in s.signals
                          \/ n - s.phase_started_at_iter >= StarCap(s.phase)
            p == IF advance THEN NextPhase(s.phase) ELSE s.phase
            k == IF advance /\ s.phase # "verification" THEN n ELSE s.phase_started_at_iter
<1>1. n \in Nat /\ m \in Nat /\ s.phase \in Phase /\ s.phase_started_at_iter \in Nat
  BY DEF Shared
<1>2. p \in Phase
  BY <1>1 DEF NextPhase, Phase
<1>3. k \in Nat /\ k \in {s.phase_started_at_iter, n}
  BY <1>1
<1>4. StarCoordinator(s) = [s EXCEPT !.iter_total = n, !.iteration = m, !.phase = p,
                                     !.phase_started_at_iter = k]
  BY DEF StarCoordinator
<1>5. n = s.iter_total + 1
  OBVIOUS
<1>. HIDE DEF n, m, p, k
<1>6. StarCoordinator(s) \in Shared
  BY <1>1, <1>2, <1>3, <1>4 DEF Shared
<1>7. Counted(s, StarCoordinator(s))
  BY <1>3, <1>4, <1>5 DEF Counted, Kept, KeptPath, Shared
<1>. QED  BY <1>6, <1>7

LEMMA WorkerEffect ==
  ASSUME NEW s \in Shared, NEW t \in StarWorker(s)
  PROVE  t \in Shared /\ Steady(s, t)
<1>1. CASE s.phase = "planning"
  BY <1>1, PlannerEffect DEF StarWorker
<1>2. CASE s.phase = "execution"
  BY <1>2, ExecutorEffect DEF StarWorker
<1>3. CASE s.phase \notin {"planning", "execution"}
  <2>1. PICK approved \in BOOLEAN : t = SetApproved(CriticStep(s, approved), approved)
    BY <1>3 DEF StarWorker
  <2>2. CriticStep(s, approved) \in Shared /\ Steady(s, CriticStep(s, approved))
    BY CriticEffect
  <2>. QED  BY <2>1, <2>2, ApprovedEffect, SteadyTrans
<1>. QED  BY <1>1, <1>2, <1>3

LEMMA StarEffect ==
  ASSUME NEW s \in Shared, NEW t \in StarRound(s)
  PROVE  t \in Shared /\ Counted(s, t)
<1>. DEFINE c == StarCoordinator(s)
<1>1. c \in Shared /\ Counted(s, c)
  BY CoordinatorEffect
<1>2. t = c \/ t \in StarWorker(c)
  BY DEF StarRound
<1>. QED  BY <1>1, <1>2, WorkerEffect, SteadyTrans

-----------------------------------------------------------------------------
(* Mesh.                                                                   *)

LEMMA TallyEffect ==
  ASSUME NEW s \in Shared, NEW consensus \in BOOLEAN
  PROVE  MeshTally(s, consensus) \in Shared /\ Counted(s, MeshTally(s, consensus))
<1>. DEFINE n == s.iter_total + 1
            m == s.mesh_dispatch_round + 1
            f == IF consensus THEN s.signals \cup {"consensus_reached"}
                              ELSE s.signals \ {"consensus_reached"}
<1>1. n \in Nat /\ m \in Nat /\ f \in SUBSET SignalFlag
  BY DEF Shared, SignalFlag
<1>2. MeshTally(s, consensus) = [s EXCEPT !.mesh_dispatch_round = m, !.iter_total = n, !.signals = f]
  BY DEF MeshTally
<1>3. n = s.iter_total + 1
  OBVIOUS
<1>. HIDE DEF n, m, f
<1>4. MeshTally(s, consensus) \in Shared
  BY <1>1, <1>2 DEF Shared
<1>5. Counted(s, MeshTally(s, consensus))
  BY <1>2, <1>3 DEF Counted, Kept, KeptPath, Shared
<1>. QED  BY <1>4, <1>5

LEMMA MeshEffect ==
  ASSUME NEW s \in Shared, NEW t \in MeshRound(s)
  PROVE  t \in Shared /\ Counted(s, t)
<1>1. ASSUME NEW u \in MeshWorker(s) PROVE u \in Shared /\ Steady(s, u)
  <2>1. CASE MeshAgent(s) = "planner"
    BY <1>1, <2>1, PlannerEffect DEF MeshWorker, AgentStep
  <2>2. CASE MeshAgent(s) = "executor"
    BY <1>1, <2>2, ExecutorEffect DEF MeshWorker, AgentStep
  <2>3. CASE MeshAgent(s) = "critic"
    BY <1>1, <2>3, CriticEffect DEF MeshWorker, AgentStep
  <2>4. CASE MeshAgent(s) \notin {"planner", "executor", "critic"}
    BY <1>1, <2>4 DEF MeshWorker, AgentStep, Steady, Kept, KeptPath
  <2>. QED  BY <2>1, <2>2, <2>3, <2>4
<1>2. PICK u \in MeshWorker(s), consensus \in BOOLEAN : t = MeshTally(u, consensus)
  BY MeshAssumption DEF MeshRound
<1>. QED  BY <1>1, <1>2, TallyEffect, SteadyTrans

-----------------------------------------------------------------------------
(* Debate.                                                                 *)

LEMMA VerdictEffect ==
  ASSUME NEW s \in Shared, NEW approved \in BOOLEAN
  PROVE  DebateVerdict(s, approved) \in Shared /\ Counted(s, DebateVerdict(s, approved))
<1>. DEFINE n == s.iter_total + 1
            m == s.debate_round + 1
            f == IF approved THEN s.signals \cup {"judge_decided"}
                             ELSE s.signals \ {"judge_decided"}
<1>1. n \in Nat /\ m \in Nat /\ f \in SUBSET SignalFlag
  BY DEF Shared, SignalFlag
<1>2. DebateVerdict(s, approved) = [s EXCEPT !.debate_round = m, !.iter_total = n, !.signals = f]
  BY DEF DebateVerdict
<1>3. n = s.iter_total + 1
  OBVIOUS
<1>. HIDE DEF n, m, f
<1>4. DebateVerdict(s, approved) \in Shared
  BY <1>1, <1>2 DEF Shared
<1>5. Counted(s, DebateVerdict(s, approved))
  BY <1>2, <1>3 DEF Counted, Kept, KeptPath, Shared
<1>. QED  BY <1>4, <1>5

LEMMA CountOnceEffect ==
  ASSUME NEW s \in Shared
  PROVE  LET t == [s EXCEPT !.iter_total = @ + 1] IN t \in Shared /\ Counted(s, t)
<1>. DEFINE n == s.iter_total + 1
<1>1. n \in Nat /\ n = s.iter_total + 1
  BY DEF Shared
<1>2. [s EXCEPT !.iter_total = @ + 1] = [s EXCEPT !.iter_total = n]
  OBVIOUS
<1>. HIDE DEF n
<1>. QED  BY <1>1, <1>2 DEF Shared, Counted, Kept, KeptPath

LEMMA OpeningEffect ==
  ASSUME NEW s \in Shared
  PROVE  DebateOpening(s) \in Shared /\ Counted(s, DebateOpening(s))
<1>1. PlannerStep(s) \in Shared /\ Steady(s, PlannerStep(s))
  BY PlannerEffect
<1>. QED  BY <1>1, CountOnceEffect, SteadyTrans DEF DebateOpening

LEMMA DebateEffect ==
  ASSUME NEW s \in Shared, NEW t \in DebateRound(s)
  PROVE  t \in Shared /\ Counted(s, t)
<1>1. PICK approved \in BOOLEAN : t = DebateVerdict(CriticStep(s, approved), approved)
  BY DEF DebateRound
<1>. QED  BY <1>1, CriticEffect, VerdictEffect, SteadyTrans

-----------------------------------------------------------------------------
(* Hierarchical.                                                           *)

LEMMA CountEffect ==
  ASSUME NEW s \in Shared
  PROVE  Count(s) \in Shared /\ Counted(s, Count(s))
<1>. DEFINE n == s.iter_total + 1
            m == s.iteration + 1
<1>1. n \in Nat /\ m \in Nat /\ n = s.iter_total + 1
  BY DEF Shared
<1>2. Count(s) = [s EXCEPT !.iter_total = n, !.iteration = m]
  BY DEF Count
<1>. HIDE DEF n, m
<1>3. Count(s) \in Shared
  BY <1>1, <1>2 DEF Shared
<1>4. Counted(s, Count(s))
  BY <1>1, <1>2 DEF Shared, Counted, Kept, KeptPath
<1>. QED  BY <1>3, <1>4

\* Writing signals is steady.
LEMMA SignalsEffect ==
  ASSUME NEW s \in Shared, NEW f \in SUBSET SignalFlag
  PROVE  [s EXCEPT !.signals = f] \in Shared /\ Steady(s, [s EXCEPT !.signals = f])
  BY DEF Shared, Steady, Kept, KeptPath

LEMMA TopCoordEffect ==
  ASSUME NEW s \in Shared
  PROVE  TopCoord(s) \in Shared /\ Counted(s, TopCoord(s))
<1>. DEFINE c == Count(s)
            f == IF s.iter_total = 0 THEN c.signals \cup {"activate_team_a", "activate_team_b"}
                 ELSE c.signals
<1>1. c \in Shared /\ Counted(s, c)
  BY CountEffect
<1>2. TopCoord(s) = [c EXCEPT !.signals = f]
  BY DEF TopCoord
<1>. HIDE DEF c
<1>3. f \in SUBSET SignalFlag
  BY <1>1 DEF Shared, SignalFlag
<1>. HIDE DEF f
<1>. QED  BY <1>1, <1>2, <1>3, SignalsEffect, SteadyTrans

LEMMA AfterTeamAEffect ==
  ASSUME NEW s \in Shared, NEW draft \in BOOLEAN
  PROVE  AfterTeamA(s, draft) \in Shared /\ Steady(s, AfterTeamA(s, draft))
<1>. DEFINE f == (s.signals \ {"activate_team_a"}) \cup {"activate_team_b"}
                   \cup (IF draft THEN {"team_a_draft"} ELSE {})
<1>1. f \in SUBSET SignalFlag
  BY DEF Shared, SignalFlag
<1>2. AfterTeamA(s, draft) = [s EXCEPT !.signals = f]
  BY DEF AfterTeamA
<1>. HIDE DEF f
<1>. QED  BY <1>1, <1>2, SignalsEffect

LEMMA AfterTeamBEffect ==
  ASSUME NEW s \in Shared, NEW draft \in BOOLEAN
  PROVE  AfterTeamB(s, draft) \in Shared /\ Steady(s, AfterTeamB(s, draft))
<1>. DEFINE f == (s.signals \ {"activate_team_b"})
                   \cup (IF draft THEN {"team_b_draft"} ELSE {})
                   \cup (IF draft /\ "team_a_draft" \in s.signals
                         THEN {"top_coord_finalize"} ELSE {})
<1>1. f \in SUBSET SignalFlag
  BY DEF Shared, SignalFlag
<1>2. AfterTeamB(s, draft) = [s EXCEPT !.signals = f]
  BY DEF AfterTeamB
<1>. HIDE DEF f
<1>. QED  BY <1>1, <1>2, SignalsEffect

LEMMA TeamEffect ==
  ASSUME NEW s \in Shared, NEW t \in TeamA(s) \cup TeamB(s)
  PROVE  t \in Shared /\ Counted(s, t)
<1>1. PICK w \in SUBSET ExecutorSignals, draft \in BOOLEAN :
        \/ t = AfterTeamA(Count(ExecutorStep(s, w)), draft)
        \/ t = AfterTeamB(Count(ExecutorStep(s, w)), draft)
  BY DEF TeamA, TeamB
<1>. DEFINE a == ExecutorStep(s, w)
            c == Count(a)
<1>2. a \in Shared /\ Steady(s, a)
  BY ExecutorEffect
<1>3. c \in Shared /\ Counted(a, c)
  BY <1>2, CountEffect
<1>4. t \in Shared /\ Steady(c, t)
  BY <1>1, <1>3, AfterTeamAEffect, AfterTeamBEffect
<1>. QED  BY <1>2, <1>3, <1>4, SteadyTrans
=============================================================================
