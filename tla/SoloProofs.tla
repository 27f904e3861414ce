----------------------------- MODULE SoloProofs -----------------------------
(***************************************************************************)
(* Proofs about Solo: what holds of a run of one topology for any number   *)
(* of iterations, rounds, agents, candidates and any capacity of the bus.  *)
(*                                                                         *)
(* Inv is inductive: the types (an agent of mesh that acts is no human),   *)
(* and Control: a node belongs to the topology that runs (Placed), each    *)
(* iteration pays for four supersteps with a lead that depends on the node *)
(* (Paced), an iteration asks the human at most once (AsksNew), and star   *)
(* leaves its loop with the phase (StarOpen). The properties about the end *)
(* of a run and about votes are inductive together with it.                *)
(***************************************************************************)
EXTENDS Solo, TopologyProofs, FiniteSetTheorems, SequenceTheorems

-----------------------------------------------------------------------------
(* The shared state under the steps of a node.                             *)

\* Neither an iteration, nor a phase, nor a round of mesh.
Still(s, t) ==
  /\ t \in Shared /\ t.iter_total = s.iter_total
  /\ t.phase = s.phase /\ t.mesh_dispatch_round = s.mesh_dispatch_round

LEMMA AgentsStill ==
  ASSUME NEW s \in Shared
  PROVE  /\ Still(s, PlannerStep(s))
         /\ \A w \in SUBSET ExecutorSignals : Still(s, ExecutorStep(s, w))
         /\ \A approved \in BOOLEAN : Still(s, CriticStep(s, approved)) /\ Still(s, SetApproved(s, approved))
<1>1. Still(s, PlannerStep(s))
  BY PlannerEffect DEF Still, PlannerStep, Shared
<1>2. ASSUME NEW w \in SUBSET ExecutorSignals PROVE Still(s, ExecutorStep(s, w))
  BY ExecutorEffect DEF Still, ExecutorStep, Shared
<1>3. ASSUME NEW approved \in BOOLEAN PROVE Still(s, CriticStep(s, approved))
  <2>1. CriticStep(s, approved) \in Shared /\ CriticStep(s, approved).iter_total = s.iter_total
    BY CriticEffect DEF Steady
  <2>2. /\ CriticStep(s, approved).phase = s.phase
        /\ CriticStep(s, approved).mesh_dispatch_round = s.mesh_dispatch_round
    BY DEF CriticStep, Shared
  <2>. QED  BY <2>1, <2>2 DEF Still
<1>4. ASSUME NEW approved \in BOOLEAN PROVE Still(s, SetApproved(s, approved))
  BY ApprovedEffect DEF Still, SetApproved, Shared
<1>. QED  BY <1>1, <1>2, <1>3, <1>4

LEMMA StillTrans ==
  ASSUME NEW s, NEW t, NEW u, Still(s, t), Still(t, u) PROVE Still(s, u)
BY DEF Still

LEMMA AgentStepStill ==
  ASSUME NEW s \in Shared, NEW agent, NEW t \in AgentStep(agent, s)
  PROVE  Still(s, t)
<1>1. CASE agent = "planner"
  BY <1>1, AgentsStill DEF AgentStep
<1>2. CASE agent = "executor"
  BY <1>2, AgentsStill DEF AgentStep
<1>3. CASE agent = "critic"
  BY <1>3, AgentsStill DEF AgentStep
<1>4. CASE agent \notin {"planner", "executor", "critic"}
  BY <1>4 DEF AgentStep, Still
<1>. QED  BY <1>1, <1>2, <1>3, <1>4

LEMMA StarWorkerStill ==
  ASSUME NEW s \in Shared, NEW t \in StarWorker(s)
  PROVE  Still(s, t)
<1>1. CASE s.phase = "planning"
  BY <1>1, AgentsStill DEF StarWorker
<1>2. CASE s.phase = "execution"
  BY <1>2, AgentsStill DEF StarWorker
<1>3. CASE s.phase \notin {"planning", "execution"}
  <2>1. PICK approved \in BOOLEAN : t = SetApproved(CriticStep(s, approved), approved)
    BY <1>3 DEF StarWorker
  <2>2. Still(s, CriticStep(s, approved)) /\ CriticStep(s, approved) \in Shared
    BY AgentsStill DEF Still
  <2>3. Still(CriticStep(s, approved), t)
    BY <2>1, <2>2, AgentsStill
  <2>. QED  BY <2>2, <2>3, StillTrans
<1>. QED  BY <1>1, <1>2, <1>3

\* One iteration more.
OneMore(s, t) == t \in Shared /\ t.iter_total = s.iter_total + 1

LEMMA TurnsCount ==
  ASSUME NEW s \in Shared
  PROVE  /\ OneMore(s, ChainTurn(s)) /\ OneMore(s, StarCoordinator(s))
         /\ OneMore(s, DebateOpening(s)) /\ OneMore(s, Count(s)) /\ OneMore(s, TopCoord(s))
         /\ \A b \in BOOLEAN : OneMore(s, MeshTally(s, b)) /\ OneMore(s, DebateVerdict(s, b))
<1>. USE DEF OneMore
<1>1. OneMore(s, ChainTurn(s)) /\ OneMore(s, StarCoordinator(s))
  BY ChainTurnEffect, CoordinatorEffect DEF Counted
<1>2. OneMore(s, DebateOpening(s)) /\ OneMore(s, Count(s)) /\ OneMore(s, TopCoord(s))
  BY OpeningEffect, CountEffect, TopCoordEffect DEF Counted
<1>3. ASSUME NEW b \in BOOLEAN PROVE OneMore(s, MeshTally(s, b)) /\ OneMore(s, DebateVerdict(s, b))
  BY TallyEffect, VerdictEffect DEF Counted
<1>. QED  BY <1>1, <1>2, <1>3

LEMMA TeamsCount ==
  ASSUME NEW s \in Shared, NEW w \in SUBSET ExecutorSignals, NEW draft \in BOOLEAN
  PROVE  /\ OneMore(s, AfterTeamA(Count(ExecutorStep(s, w)), draft))
         /\ OneMore(s, AfterTeamB(Count(ExecutorStep(s, w)), draft))
<1>. DEFINE u == ExecutorStep(s, w)
            t == Count(u)
<1>1. OneMore(s, t)
  <2>1. u \in Shared /\ u.iter_total = s.iter_total
    BY AgentsStill DEF Still
  <2>. HIDE DEF u
  <2>2. OneMore(u, t)
    BY <2>1, TurnsCount
  <2>. QED  BY <2>1, <2>2 DEF OneMore
<1>2. t \in Shared
  BY <1>1 DEF OneMore
<1>3. /\ AfterTeamA(t, draft) \in Shared /\ Steady(t, AfterTeamA(t, draft))
      /\ AfterTeamB(t, draft) \in Shared /\ Steady(t, AfterTeamB(t, draft))
  BY <1>2, AfterTeamAEffect, AfterTeamBEffect
<1>. HIDE DEF t
<1>4. OneMore(s, AfterTeamA(t, draft)) /\ OneMore(s, AfterTeamB(t, draft))
  BY <1>1, <1>3 DEF OneMore, Steady
<1>. QED  BY <1>4 DEF t

-----------------------------------------------------------------------------
(* The types.                                                              *)

AnswerItem == [from : Author \cup {"vote", "incomplete"}, item : Vote]

MeshState ==
  [turn : Nat, active : Agent \cup {"human_peer"}, bus : Seq(BusMessage),
   sent : [Agent -> Nat], pending : BOOLEAN]

LEMMA OrderType ==
  Order \in Seq(Agent \cup {"human_peer"}) /\ Len(Order) \in Nat \ {0}
<1>1. MeshOrder \in Seq(Agent \cup {"human_peer"}) /\ Len(MeshOrder) \in Nat \ {0}
  <2>1. MeshOrder \in Seq(Agent) /\ Len(MeshOrder) > 0
    BY MeshAssumption DEF Agent
  <2>2. MeshOrder \in Seq(Agent \cup {"human_peer"})
    BY <2>1, SeqMonotonic
  <2>. QED  BY <2>1, <2>2, LenProperties
<1>. DEFINE more == IF setup.human = "peer" THEN <<"human_peer">> ELSE << >>
<1>2. more \in Seq(Agent \cup {"human_peer"}) /\ Len(more) \in Nat
  <2>1. \A e \in Agent \cup {"human_peer"} : <<e>> \in Seq(Agent \cup {"human_peer"}) /\ Len(<<e>>) = 1
    OBVIOUS
  <2>2. << >> \in Seq(Agent \cup {"human_peer"}) /\ Len(<< >>) = 0
    BY EmptySeq
  <2>. QED  BY <2>1, <2>2
<1>. HIDE DEF more
<1>3. MeshOrder \o more \in Seq(Agent \cup {"human_peer"})
  BY <1>1, <1>2, ConcatProperties
<1>4. Len(MeshOrder \o more) = Len(MeshOrder) + Len(more)
  BY <1>1, <1>2, ConcatProperties
<1>. QED  BY <1>1, <1>2, <1>3, <1>4 DEF Order, more

LEMMA PickType ==
  ASSUME NEW turn \in Nat
  PROVE  Pick(turn) \in Agent \cup {"human_peer"} /\ (turn + 1) % Len(Order) \in Nat
<1>1. turn % Len(Order) \in 0 .. Len(Order) - 1 /\ (turn + 1) % Len(Order) \in Nat
  BY OrderType
<1>2. (turn % Len(Order)) + 1 \in 1 .. Len(Order)
  BY <1>1, OrderType
<1>3. Order[(turn % Len(Order)) + 1] \in Agent \cup {"human_peer"}
  BY <1>2, OrderType, ElementOfSeq
<1>. QED  BY <1>1, <1>3 DEF Pick, Agent

LEMMA LastOfEffect ==
  ASSUME NEW b \in Seq(BusMessage), NEW n \in Nat \ {0}
  PROVE  /\ LastOf(b, n) \in Seq(BusMessage)
         /\ \E off \in Nat : \A i \in DOMAIN LastOf(b, n) :
              i + off \in DOMAIN b /\ LastOf(b, n)[i] = b[i + off]
<1>1. Len(b) \in Nat /\ DOMAIN b = 1 .. Len(b)
  BY LenProperties
<1>2. CASE Len(b) <= n
  <2>1. LastOf(b, n) = b
    BY <1>1, <1>2 DEF LastOf
  <2>2. \A i \in DOMAIN b : i + 0 \in DOMAIN b /\ b[i] = b[i + 0]
    BY <1>1
  <2>. QED  BY <2>1, <2>2
<1>3. CASE Len(b) > n
  <2>. DEFINE off == Len(b) - n
              c == SubSeq(b, off + 1, Len(b))
  <2>1. off \in Nat /\ LastOf(b, n) = c /\ off + 1 \in 1 .. Len(b)
    BY <1>1, <1>3 DEF LastOf
  <2>2. c \in Seq(BusMessage) /\ Len(c) = n /\ \A i \in 1 .. n : c[i] = b[i + off]
    <3>1. c \in Seq(BusMessage)
      BY <1>1, <2>1, SubSeqProperties
    <3>2. Len(c) = n
      BY <1>1, <1>3
    <3>3. \A i \in 1 .. n : c[i] = b[i + off]
      BY <1>1, <1>3
    <3>. QED  BY <3>1, <3>2, <3>3
  <2>3. DOMAIN c = 1 .. n
    BY <2>2, LenProperties
  <2>4. \A i \in 1 .. n : i + off \in DOMAIN b
    BY <1>1, <2>1
  <2>. QED  BY <2>1, <2>2, <2>3, <2>4
<1>. QED  BY <1>1, <1>2, <1>3

LEMMA TimesEffect ==
  ASSUME NEW n \in Nat, NEW m \in BusMessage
  PROVE  /\ Times(n, m) \in Seq(BusMessage) /\ Len(Times(n, m)) = n
         /\ \A i \in 1 .. n : Times(n, m)[i] = m
BY DEF Times

LEMMA DraftTypes ==
  ASSUME TypeOK
  PROVE  /\ \A authors : Drafted(authors) \in [Author -> Nat]
         /\ \A d \in [Author -> Nat], author \in Author :
              Latest(author, d) \subseteq AnswerItem
         /\ \A author \in Author : Taken(author) \subseteq AnswerItem
         /\ Incomplete \subseteq AnswerItem
<1>1. \A authors : Drafted(authors) \in [Author -> Nat]
  BY DEF TypeOK, Drafted
<1>2. Incomplete \subseteq AnswerItem
  BY DEF Incomplete, AnswerItem, Vote
<1>3. ASSUME NEW d \in [Author -> Nat], NEW author \in Author
      PROVE  Latest(author, d) \subseteq AnswerItem
  <2>1. [from |-> author, item |-> d[author]] \in AnswerItem
    BY DEF AnswerItem, Vote
  <2>. QED  BY <1>2, <2>1 DEF Latest
<1>4. ASSUME NEW author \in Author PROVE Taken(author) \subseteq AnswerItem
  BY DEF TypeOK, Taken, AnswerItem, Vote
<1>. QED  BY <1>1, <1>2, <1>3, <1>4

LEMMA WinnersType ==
  ASSUME NEW b \in Seq(BusMessage)
  PROVE  Winners(b) \subseteq Vote /\ \A v \in Winners(b) : [from |-> "vote", item |-> v] \in AnswerItem
<1>1. \A i \in DOMAIN b : b[i].vote \in Vote
  <2>1. \A i \in DOMAIN b : b[i] \in BusMessage
    BY ElementOfSeq, LenProperties
  <2>. QED  BY <2>1 DEF BusMessage
<1>2. Winners(b) \subseteq Vote
  BY <1>1 DEF Winners
<1>. QED  BY <1>2 DEF AnswerItem

LEMMA TallyTypes ==
  ASSUME NEW s \in Shared, NEW b \in Seq(BusMessage), NEW p \in SUBSET AnswerItem,
         Tally(s, b, p), mesh \in MeshState, steps \in Nat
  PROVE  /\ shared' \in Shared /\ answer' \subseteq AnswerItem
         /\ mesh' \in MeshState /\ node' \in {"END", "dispatcher"} /\ steps' \in Nat
<1>1. shared' \in Shared
  BY TurnsCount DEF Tally, OneMore
<1>2. answer' \subseteq AnswerItem
  <2>1. \A v \in Winners(b) : [from |-> "vote", item |-> v] \in AnswerItem
    BY WinnersType
  <2>2. answer' = p \/ answer' = {[from |-> "vote", item |-> v] : v \in Winners(b)}
    BY DEF Tally
  <2>. QED  BY <2>1, <2>2
<1>3. mesh' \in MeshState
  <2>. DEFINE q == setup.human = "peer" /\ (\E i \in DOMAIN b : b[i].kind = "vote") /\ Winners(b) = {}
  <2>1. mesh' = [mesh EXCEPT !.bus = b, !.sent = SentNow, !.pending = q]
    BY DEF Tally
  <2>2. q \in BOOLEAN
    OBVIOUS
  <2>3. SentNow \in [Agent -> Nat]
    BY DEF MeshState, SentNow
  <2>. HIDE DEF q
  <2>. QED  BY <2>1, <2>2, <2>3 DEF MeshState
<1>4. node' \in {"END", "dispatcher"} /\ steps' \in Nat
  BY DEF Tally, Take
<1>. QED  BY <1>1, <1>2, <1>3, <1>4

\* A request and its answer.
LEMMA AskTypes ==
  ASSUME TypeOK, NEW who \in Asker, Ask(who, Answers)
  PROVE  /\ reply' \in Reply
         /\ asked' \in Seq([who : Asker, iter_total : Nat, round : Nat])
<1>1. RequestId(who) \in [who : Asker, iter_total : Nat, round : Nat]
  <2>1. shared.iter_total \in Nat /\ shared.mesh_dispatch_round + 1 \in Nat
    BY DEF TypeOK, Shared
  <2>. QED  BY <2>1 DEF RequestId
<1>2. asked' = Append(asked, RequestId(who)) /\ reply' \in Reply
  BY DEF Ask, Answers
<1>. QED  BY <1>1, <1>2 DEF TypeOK

Typed == TypeOK /\ (node = "agent" => mesh.active \in Agent)

LEMMA StartTyped == Init => Typed
<1>. SUFFICES ASSUME Init PROVE Typed
  OBVIOUS
<1>1. setup \in Setups
  BY DEF Init
<1>2. setup.topology \in {"chain", "star", "mesh", "debate", "hierarchical"}
  BY <1>1 DEF Setups, Parts
<1>3. InitialShared \in Shared
  BY SharedAssumption DEF InitialShared, Shared, Phase, TopologyName, ValidTopologies, SignalFlag, Hint
<1>4. shared \in Shared
  <2>1. setup.topology \in TopologyName \cup {NoTopology}
    BY <1>2 DEF TopologyName, ValidTopologies
  <2>. QED  BY <1>3, <2>1 DEF Init, Shared
<1>5. node \in Node \ {"agent"}
  BY <1>2 DEF Init, Start, Node, Ended
<1>6. mesh \in MeshState
  BY DEF Init, MeshState, Agent
<1>. QED  BY <1>1, <1>4, <1>5, <1>6 DEF Init, Typed, TypeOK, MeshState, Side, Reply

LEMMA ChainTypes ==
  ASSUME Typed, ChainPlans \/ ChainWorks
  PROVE  Typed'
<1>. USE DEF Typed
<1>1. CASE ChainPlans
  <2>1. shared' \in Shared
    BY <1>1, AgentsStill DEF ChainPlans, ChainEntry, Still, TypeOK
  <2>. QED  BY <1>1, <2>1 DEF ChainPlans, Take, work, human, TypeOK, Node, Ended
<1>2. CASE ChainWorks
  <2>1. PICK w \in SUBSET ExecutorSignals, approved \in BOOLEAN, full \in BOOLEAN :
          LET s == SetApproved(CriticStep(ExecutorStep(shared, w), approved), approved)
          IN /\ drafts' = Drafted(IF full THEN {"executor"} ELSE {})
             /\ answer' = ChainAnswer(full)
             /\ IF setup.human = "off" THEN ChainRoute(s, 3)
                ELSE Take(3, "reviewer") /\ shared' = [s EXCEPT !.phase = "execution"]
    BY <1>2 DEF ChainWorks
  <2>. DEFINE a == ExecutorStep(shared, w)
              b == CriticStep(a, approved)
              s == SetApproved(b, approved)
  <2>2. s \in Shared
    <3>1. a \in Shared
      BY AgentsStill DEF Still, TypeOK
    <3>2. b \in Shared
      BY <3>1, AgentsStill DEF Still
    <3>. QED  BY <3>2, AgentsStill DEF Still
  <2>3. /\ drafts' = Drafted(IF full THEN {"executor"} ELSE {})
        /\ answer' = ChainAnswer(full)
        /\ IF setup.human = "off" THEN ChainRoute(s, 3)
           ELSE Take(3, "reviewer") /\ shared' = [s EXCEPT !.phase = "execution"]
    BY <2>1
  <2>. HIDE DEF s
  <2>4. drafts' \in [Author -> Nat]
    BY <2>3, DraftTypes
  <2>5. answer' \subseteq AnswerItem
    BY <2>3, <2>4, DraftTypes DEF ChainAnswer, Author
  <2>6. shared' \in Shared /\ node' \in Node \ {"agent"} /\ steps' \in Nat
    <3>1. CASE setup.human = "off"
      <4>1. ChainTurn(s) \in Shared
        BY <2>2, TurnsCount DEF OneMore
      <4>. QED  BY <2>3, <3>1, <4>1 DEF ChainRoute, Take, TypeOK, Node, Ended
    <3>2. CASE setup.human # "off"
      <4>1. [s EXCEPT !.phase = "execution"] \in Shared
        BY <2>2 DEF Shared, Phase
      <4>2. steps' = steps + 3 /\ node' = "reviewer" /\ shared' = [s EXCEPT !.phase = "execution"]
        BY <2>3, <3>2 DEF Take
      <4>. QED  BY <4>1, <4>2 DEF TypeOK, Node
    <3>. QED  BY <3>1, <3>2
  <2>7. UNCHANGED <<setup, mesh, ruling, reply, asked>>
    BY <1>2 DEF ChainWorks, human
  <2>. QED  BY <2>4, <2>5, <2>6, <2>7 DEF TypeOK, AnswerItem
<1>. QED  BY <1>1, <1>2

LEMMA StarTypes ==
  ASSUME Typed, StarCoordinates \/ StarWorks
  PROVE  Typed'
<1>. USE DEF Typed
<1>1. CASE StarCoordinates
  <2>1. shared' \in Shared
    BY <1>1, TurnsCount DEF StarCoordinates, OneMore, TypeOK
  <2>2. answer' \subseteq AnswerItem
    <3>1. answer \subseteq AnswerItem /\ drafts \in [Author -> Nat] /\ "executor" \in Author
      BY DEF TypeOK, AnswerItem, Author
    <3>. QED  BY <1>1, <3>1, DraftTypes DEF StarCoordinates, StarAnswer, Provisional
  <2>. QED  BY <1>1, <2>1, <2>2 DEF StarCoordinates, Take, human, TypeOK, Node, Ended, AnswerItem
<1>2. CASE StarWorks
  <2>1. shared' \in Shared
    BY <1>2, StarWorkerStill DEF StarWorks, Still, TypeOK
  <2>2. drafts' \in [Author -> Nat]
    BY <1>2, DraftTypes DEF StarWorks
  <2>3. node' \in Node \ {"agent"} /\ steps' \in Nat
    BY <1>2 DEF StarWorks, Take, TypeOK, Node, Ended
  <2>4. UNCHANGED <<setup, answer, mesh, ruling, reply, asked>>
    BY <1>2 DEF StarWorks, human
  <2>. QED  BY <2>1, <2>2, <2>3, <2>4 DEF TypeOK
<1>. QED  BY <1>1, <1>2

LEMMA ReviewTypes ==
  ASSUME Typed, Review
  PROVE  Typed'
<1>. USE DEF Typed
<1>1. /\ reply' \in Reply
      /\ asked' \in Seq([who : Asker, iter_total : Nat, round : Nat])
  <2>1. PICK who \in {"top", "reviewer"} : Ask(who, Answers)
    BY DEF Review
  <2>. QED  BY <2>1, AskTypes DEF Asker
<1>2. shared' \in Shared /\ node' \in Node \ {"agent"} /\ steps' \in Nat
  <2>1. \/ ChainRoute(shared, 1)
        \/ Take(1, "coordinator") /\ UNCHANGED shared
        \/ Take(1, "finalize") /\ UNCHANGED shared
    BY DEF Review
  <2>2. ChainTurn(shared) \in Shared
    BY TurnsCount DEF OneMore, TypeOK
  <2>. QED  BY <2>1, <2>2 DEF ChainRoute, Take, TypeOK, Node, Ended
<1>3. UNCHANGED <<setup, drafts, answer, mesh, ruling>>
  BY DEF Review, work
<1>. QED  BY <1>1, <1>2, <1>3 DEF TypeOK

LEMMA MeshTypes ==
  ASSUME Typed, MeshDispatches \/ MeshWorks \/ PeerVotes
  PROVE  Typed'
<1>. USE DEF Typed
<1>0. /\ mesh \in MeshState /\ steps \in Nat /\ shared \in Shared /\ answer \subseteq AnswerItem
      /\ drafts \in [Author -> Nat] /\ "executor" \in Author
  BY DEF TypeOK, MeshState, AnswerItem, Author
<1>1. CASE MeshDispatches
  <2>1. PICK t \in TurnTaken :
          /\ mesh' = [mesh EXCEPT !.active = Pick(t), !.turn = (t + 1) % Len(Order)]
          /\ Take(1, IF Pick(t) = "human_peer" THEN "peer" ELSE "agent")
    BY <1>1 DEF MeshDispatches
  <2>2. t \in Nat
    BY <1>0 DEF TurnTaken, MeshState
  <2>3. Pick(t) \in Agent \cup {"human_peer"} /\ (t + 1) % Len(Order) \in Nat
    BY <2>2, PickType
  <2>4. mesh' \in MeshState /\ mesh'.active = Pick(t)
    BY <1>0, <2>1, <2>3 DEF MeshState
  <2>5. node' \in {"peer", "agent"} /\ (node' = "agent" => mesh'.active \in Agent) /\ steps' \in Nat
    BY <1>0, <2>1, <2>3, <2>4 DEF Take
  <2>6. UNCHANGED <<setup, shared, drafts, answer, ruling, reply, asked>>
    BY <1>1 DEF MeshDispatches, human
  <2>. QED  BY <2>4, <2>5, <2>6 DEF TypeOK, MeshState, Node, Ended
<1>2. CASE MeshWorks
  <2>1. mesh.active \in Agent /\ mesh.sent[mesh.active] + 1 \in Nat
    BY <1>0, <1>2 DEF MeshWorks, MeshState
  <2>. DEFINE m == [kind |-> IF mesh.active = "critic" THEN "verdict" ELSE "draft", vote |-> 0]
              b == LastOf(mesh.bus \o Times(mesh.sent[mesh.active] + 1, m), BusCap)
              p == IF answer = {} /\ drafts'["executor"] > 0 THEN Latest("executor", drafts') ELSE answer
  <2>2. PICK s \in AgentStep(mesh.active, shared), full \in BOOLEAN :
          /\ drafts' = Drafted(IF full /\ mesh.active = "executor" THEN {"executor"} ELSE {})
          /\ Tally(s, b, p)
    BY <1>2 DEF MeshWorks
  <2>3. b \in Seq(BusMessage)
    <3>1. m \in BusMessage
      BY DEF BusMessage, Vote
    <3>2. Times(mesh.sent[mesh.active] + 1, m) \in Seq(BusMessage) /\ mesh.bus \in Seq(BusMessage)
      BY <1>0, <2>1, <3>1, TimesEffect DEF MeshState
    <3>3. mesh.bus \o Times(mesh.sent[mesh.active] + 1, m) \in Seq(BusMessage)
      BY <3>2, ConcatProperties
    <3>. QED  BY <3>3, LastOfEffect, SoloAssumption
  <2>4. drafts' \in [Author -> Nat]
    BY <2>2, DraftTypes
  <2>5. p \in SUBSET AnswerItem
    BY <1>0, <2>4, DraftTypes
  <2>6. s \in Shared
    BY <1>0, <2>2, AgentStepStill DEF Still
  <2>. HIDE DEF b, p
  <2>7. /\ shared' \in Shared /\ answer' \subseteq AnswerItem
        /\ mesh' \in MeshState /\ node' \in {"END", "dispatcher"} /\ steps' \in Nat
    BY <1>0, <2>2, <2>3, <2>5, <2>6, TallyTypes
  <2>8. UNCHANGED <<setup, ruling, reply, asked>>
    BY <1>2 DEF MeshWorks, human
  <2>. QED  BY <2>4, <2>7, <2>8 DEF TypeOK, MeshState, AnswerItem, Node, Ended
<1>3. CASE PeerVotes
  <2>1. PICK choice \in Candidate :
          Tally(shared, LastOf(Append(mesh.bus, [kind |-> "vote", vote |-> Ballot(reply', choice)]), BusCap),
                Provisional)
    BY <1>3 DEF PeerVotes
  <2>. DEFINE m == [kind |-> "vote", vote |-> Ballot(reply', choice)]
              b == LastOf(Append(mesh.bus, m), BusCap)
  <2>2. b \in Seq(BusMessage)
    <3>1. shared.mesh_dispatch_round + 1 \in Nat
      BY <1>0 DEF Shared
    <3>2. m \in BusMessage
      BY <3>1 DEF BusMessage, Vote, Ballot
    <3>3. Append(mesh.bus, m) \in Seq(BusMessage)
      BY <1>0, <3>2 DEF MeshState
    <3>. QED  BY <3>3, LastOfEffect, SoloAssumption
  <2>3. Provisional \in SUBSET AnswerItem
    BY <1>0, DraftTypes DEF Provisional
  <2>4. /\ shared' \in Shared /\ answer' \subseteq AnswerItem
        /\ mesh' \in MeshState /\ node' \in {"END", "dispatcher"} /\ steps' \in Nat
    BY <1>0, <2>1, <2>2, <2>3, TallyTypes
  <2>5. /\ reply' \in Reply
        /\ asked' \in Seq([who : Asker, iter_total : Nat, round : Nat])
    BY <1>3, AskTypes DEF Asker, PeerVotes
  <2>6. UNCHANGED <<setup, drafts, ruling>>
    BY <1>3 DEF PeerVotes
  <2>. QED  BY <2>4, <2>5, <2>6 DEF TypeOK, MeshState, AnswerItem, Node, Ended
<1>. QED  BY <1>1, <1>2, <1>3

LEMMA VerdictTypes ==
  ASSUME Typed, NEW s \in Shared, NEW approved \in BOOLEAN, NEW winner \in Side, NEW n \in Nat,
         Verdict(s, approved, winner, n)
  PROVE  /\ shared' \in Shared /\ answer' \subseteq AnswerItem
         /\ node' \in {"END", "debaters"} /\ steps' \in Nat
<1>0. steps \in Nat /\ drafts \in [Author -> Nat] /\ Side \subseteq Author /\ answer \subseteq AnswerItem
  BY DEF Typed, TypeOK, AnswerItem, Author
<1>1. shared' \in Shared
  BY TurnsCount DEF Verdict, OneMore
<1>2. answer' \subseteq AnswerItem
  <2>1. \A c \in Side : Latest(c, drafts) \subseteq AnswerItem
    BY <1>0, DraftTypes DEF Typed
  <2>2. \A a \in Fallback : a \subseteq AnswerItem
    BY <2>1 DEF Fallback
  <2>3. answer' = Latest(winner, drafts) \/ answer' = answer \/ answer' \in Fallback
    BY DEF Verdict, VerdictAnswer
  <2>. QED  BY <1>0, <2>1, <2>2, <2>3
<1>. QED  BY <1>0, <1>1, <1>2 DEF Verdict, Take

LEMMA DebateTypes ==
  ASSUME Typed, DebateOpens \/ DebatersArgue \/ JudgeDecides \/ HumanJudges
  PROVE  Typed'
<1>1. CASE DebateOpens
  <2>1. shared' \in Shared
    BY <1>1, TurnsCount DEF DebateOpens, OneMore, Typed, TypeOK
  <2>. QED  BY <1>1, <2>1 DEF DebateOpens, Take, work, human, Typed, TypeOK, Node, Ended
<1>2. CASE DebatersArgue
  <2>1. drafts' \in [Author -> Nat]
    BY <1>2, DraftTypes DEF DebatersArgue, Typed
  <2>2. node' \in Node \ {"agent"} /\ steps' \in Nat
    BY <1>2 DEF DebatersArgue, Take, Typed, TypeOK, Node, Ended
  <2>3. UNCHANGED <<setup, shared, answer, mesh, ruling, reply, asked>>
    BY <1>2 DEF DebatersArgue, human
  <2>. QED  BY <2>1, <2>2, <2>3 DEF Typed, TypeOK
<1>3. CASE JudgeDecides
  <2>1. PICK approved \in BOOLEAN, named \in Side :
          /\ ruling' = [approved |-> approved, winner |-> "pro", named |-> named]
          /\ IF setup.human = "both"
             THEN Take(0, "human_judge") /\ UNCHANGED <<shared, answer>>
             ELSE Verdict(CriticStep(shared, approved), approved, "pro", 2)
    BY <1>3 DEF JudgeDecides
  <2>2. /\ shared' \in Shared /\ answer' \subseteq AnswerItem
        /\ node' \in {"END", "debaters", "human_judge"} /\ steps' \in Nat
    <3>1. CASE setup.human = "both"
      BY <2>1, <3>1 DEF Take, Typed, TypeOK, AnswerItem
    <3>2. CASE setup.human # "both"
      <4>1. CriticStep(shared, approved) \in Shared
        BY AgentsStill DEF Still, Typed, TypeOK
      <4>2. "pro" \in Side /\ 2 \in Nat
        BY DEF Side
      <4>. QED  BY <2>1, <3>2, <4>1, <4>2, VerdictTypes
    <3>. QED  BY <3>1, <3>2
  <2>3. ruling' \in [approved : BOOLEAN, winner : Side, named : Side]
    BY <2>1 DEF Side
  <2>4. UNCHANGED <<setup, drafts, mesh, reply, asked>>
    BY <1>3 DEF JudgeDecides, human
  <2>. QED  BY <2>2, <2>3, <2>4 DEF Typed, TypeOK, Node, Ended, AnswerItem
<1>4. CASE HumanJudges
  <2>1. PICK winner \in Side :
          /\ ruling' = [approved |-> ApprovedByHuman, winner |-> winner, named |-> winner]
          /\ Verdict(shared, ApprovedByHuman, winner, IF setup.human = "both" THEN 1 ELSE 2)
    BY <1>4 DEF HumanJudges
  <2>0. ApprovedByHuman \in BOOLEAN
    BY DEF ApprovedByHuman
  <2>2. /\ shared' \in Shared /\ answer' \subseteq AnswerItem
        /\ node' \in {"END", "debaters"} /\ steps' \in Nat
    <3>1. shared \in Shared /\ (IF setup.human = "both" THEN 1 ELSE 2) \in Nat
      BY DEF Typed, TypeOK
    <3>. QED  BY <2>0, <2>1, <3>1, VerdictTypes
  <2>3. ruling' \in [approved : BOOLEAN, winner : Side, named : Side]
    BY <2>0, <2>1
  <2>4. /\ reply' \in Reply
        /\ asked' \in Seq([who : Asker, iter_total : Nat, round : Nat])
    BY <1>4, AskTypes DEF Asker, HumanJudges, Typed
  <2>5. UNCHANGED <<setup, drafts, mesh>>
    BY <1>4 DEF HumanJudges
  <2>. QED  BY <2>2, <2>3, <2>4, <2>5 DEF Typed, TypeOK, Node, Ended, AnswerItem
<1>. QED  BY <1>1, <1>2, <1>3, <1>4

LEMMA HierarchicalTypes ==
  ASSUME Typed, TopCoordinates \/ SubReview \/ TeamAWorks \/ TeamBWorks \/ Finalizes \/ Raises
  PROVE  Typed'
<1>. USE DEF Typed
<1>0. \A team \in {"team_a", "team_b"} : TeamNode(team) \in Node \ {"agent"}
  BY DEF TeamNode, Node, Ended
<1>1. CASE TopCoordinates
  <2>1. shared' \in Shared
    BY <1>1, TurnsCount DEF TopCoordinates, OneMore, TypeOK
  <2>2. TopCoordRoute(shared') \in {"finalize", "team_a", "team_b"}
    BY DEF TopCoordRoute
  <2>3. node' \in Node \ {"agent"} /\ steps' \in Nat
    <3>1. node' \in {"finalize", TeamNode("team_a"), TeamNode("team_b")} /\ steps' = steps + 1
      BY <1>1, <2>2 DEF TopCoordinates, Take
    <3>. QED  BY <1>0, <3>1 DEF TypeOK, Node, Ended
  <2>4. UNCHANGED <<setup, drafts, answer, mesh, ruling, reply, asked>>
    BY <1>1 DEF TopCoordinates, work, human
  <2>. QED  BY <2>1, <2>3, <2>4 DEF TypeOK
<1>2. CASE SubReview
  <2>1. PICK team \in {"team_a", "team_b"} : Ask(team, Answers) /\ Take(0, team)
    BY <1>2 DEF SubReview
  <2>2. /\ reply' \in Reply
        /\ asked' \in Seq([who : Asker, iter_total : Nat, round : Nat])
    BY <2>1, AskTypes DEF Asker
  <2>3. node' \in Node \ {"agent"} /\ steps' \in Nat
    BY <2>1 DEF Take, TypeOK, Node, Ended
  <2>4. UNCHANGED <<setup, shared, drafts, answer, mesh, ruling>>
    BY <1>2 DEF SubReview, work
  <2>. QED  BY <2>2, <2>3, <2>4 DEF TypeOK
<1>3. CASE TeamAWorks
  <2>1. PICK w \in SUBSET ExecutorSignals, full \in BOOLEAN :
          /\ drafts' = Drafted(IF full THEN {"team_a"} ELSE {})
          /\ shared' = AfterTeamA(Count(ExecutorStep(shared, w)), drafts'["team_a"] > 0)
    BY <1>3 DEF TeamAWorks
  <2>2. shared' \in Shared
    <3>1. (drafts'["team_a"] > 0) \in BOOLEAN /\ shared \in Shared
      BY DEF TypeOK
    <3>. QED  BY <2>1, <3>1, TeamsCount DEF OneMore
  <2>3. drafts' \in [Author -> Nat]
    BY <2>1, DraftTypes
  <2>4. node' \in Node \ {"agent"} /\ steps' \in Nat
    BY <1>0, <1>3 DEF TeamAWorks, Take, TypeOK
  <2>5. UNCHANGED <<setup, answer, mesh, ruling, reply, asked>>
    BY <1>3 DEF TeamAWorks, human
  <2>. QED  BY <2>2, <2>3, <2>4, <2>5 DEF TypeOK
<1>4. CASE TeamBWorks
  <2>1. PICK w \in SUBSET ExecutorSignals, full \in BOOLEAN :
          /\ drafts' = Drafted(IF full THEN {"team_b"} ELSE {})
          /\ shared' = AfterTeamB(Count(ExecutorStep(shared, w)), drafts'["team_b"] > 0)
    BY <1>4 DEF TeamBWorks
  <2>2. shared' \in Shared
    <3>1. (drafts'["team_b"] > 0) \in BOOLEAN /\ shared \in Shared
      BY DEF TypeOK
    <3>. QED  BY <2>1, <3>1, TeamsCount DEF OneMore
  <2>3. drafts' \in [Author -> Nat]
    BY <2>1, DraftTypes
  <2>4. node' \in Node \ {"agent"} /\ steps' \in Nat
    <3>1. node' \in {"reviewer", "finalize", TeamNode("team_a")} /\ steps' = steps + 2
      BY <1>4 DEF TeamBWorks, Take
    <3>. QED  BY <1>0, <3>1 DEF TypeOK, Node, Ended
  <2>5. UNCHANGED <<setup, answer, mesh, ruling, reply, asked>>
    BY <1>4 DEF TeamBWorks, human
  <2>. QED  BY <2>2, <2>3, <2>4, <2>5 DEF TypeOK
<1>5. CASE Finalizes
  <2>1. answer' \subseteq AnswerItem
    <3>1. {"team_a", "team_b"} \subseteq Author /\ drafts \in [Author -> Nat]
      BY DEF Author, TypeOK
    <3>2. Latest("team_a", drafts) \subseteq AnswerItem /\ Latest("team_b", drafts) \subseteq AnswerItem
      BY <3>1, DraftTypes
    <3>. QED  BY <1>5, <3>2 DEF Finalizes
  <2>. QED  BY <1>5, <2>1 DEF Finalizes, Take, human, TypeOK, Node, Ended, AnswerItem
<1>6. CASE Raises
  BY <1>6 DEF Raises, Take, work, human, TypeOK, Node, Ended
<1>. QED  BY <1>1, <1>2, <1>3, <1>4, <1>5, <1>6

LEMMA SoloTypes == Typed /\ [Next]_vars => Typed'
<1>1. CASE UNCHANGED vars
  BY <1>1 DEF vars, work, human, Typed, TypeOK
<1>. QED  BY <1>1, ChainTypes, StarTypes, ReviewTypes, MeshTypes, DebateTypes, HierarchicalTypes DEF Next, Step

(* Every field of the state of a solo run keeps its type: the shared state *)
(* of the topology that runs, the drafts, the bus, the log of requests.    *)
THEOREM SoloTypeCorrect == Spec => []TypeOK
<1>1. Typed => TypeOK
  BY DEF Typed
<1>. QED  BY <1>1, StartTyped, SoloTypes, PTL DEF Spec

-----------------------------------------------------------------------------
(* Control: which node may follow, how many supersteps an iteration takes, *)
(* when the human is asked.                                                *)

Placed ==
  \/ node \in Ended
  \/ setup.topology = "chain" /\ node \in {"planner", "executor", "reviewer"}
  \/ setup.topology = "star" /\ node \in {"coordinator", "worker", "reviewer"}
  \/ setup.topology = "mesh" /\ node \in {"dispatcher", "agent", "peer"}
  \/ /\ setup.topology = "debate" /\ node \in {"planner", "debaters", "judge", "human_judge"}
     /\ node = "judge" => setup.human # "judge"
  \/ /\ setup.topology = "hierarchical"
     /\ node \in {"top_coord", "ask_a", "ask_b", "team_a", "team_b", "reviewer", "finalize"}

\* Supersteps a node is ahead of four for each iteration counted.
Lead ==
  CASE node = "reviewer" /\ setup.topology # "chain" -> -1
    [] node = "reviewer" /\ setup.topology = "chain" -> 4
    [] node \in Ended -> 4
    [] node \in {"executor", "agent", "peer"} -> 1
    [] node \in {"judge", "human_judge"} -> -2
    [] node \in {"worker", "debaters", "ask_a", "ask_b", "team_a", "team_b"} -> -3
    [] OTHER -> 0

Extra == IF setup.topology \in {"debate", "hierarchical"} THEN 1 ELSE 0

\* Iterations that may have been counted when a node starts.
Room ==
  CASE node \in {"debaters", "judge", "human_judge", "ask_b", "team_b"} -> SubMax
    [] node \in Ended \cup {"finalize"} -> SubMax + Extra
    [] node = "reviewer" /\ setup.topology = "hierarchical" -> SubMax + Extra
    [] OTHER -> SubMax - 1

Paced ==
  /\ steps <= 4 * shared.iter_total + Lead
  /\ shared.iter_total <= Room
  /\ node = "top_coord" => shared.iter_total = 0

\* A request of this iteration may be in the log.
Late == {"coordinator", "finalize", "team_a", "team_b"} \cup Ended

AsksNew ==
  /\ \A i \in DOMAIN asked : asked[i].iter_total <= shared.iter_total
  /\ node \notin Late => \A i \in DOMAIN asked : asked[i].iter_total < shared.iter_total
  /\ \A i, j \in DOMAIN asked : asked[i].iter_total = asked[j].iter_total => i = j

\* Star leaves the loop with the phase.
StarOpen == setup.topology = "star" /\ node \notin Ended => shared.phase # "done"

Control == Placed /\ Paced /\ AsksNew /\ StarOpen

LEMMA Counters ==
  ASSUME Typed
  PROVE  /\ shared.iter_total \in Nat /\ steps \in Nat /\ SubMax \in Nat \ {0}
         /\ DOMAIN asked = 1 .. Len(asked) /\ Len(asked) \in Nat
         /\ \A i \in DOMAIN asked : asked[i].iter_total \in Nat
<1>1. asked \in Seq([who : Asker, iter_total : Nat, round : Nat])
  BY DEF Typed, TypeOK
<1>2. \A i \in DOMAIN asked : asked[i] \in [who : Asker, iter_total : Nat, round : Nat]
  BY <1>1, ElementOfSeq, LenProperties
<1>. QED  BY <1>1, <1>2, LenProperties, SharedAssumption DEF Typed, TypeOK, Shared

LEMMA AsksKept ==
  ASSUME Typed, AsksNew, asked' = asked, shared'.iter_total \in Nat,
         shared.iter_total <= shared'.iter_total,
         node' \in Late \/ node \notin Late \/ shared.iter_total < shared'.iter_total
  PROVE  AsksNew'
BY Counters DEF AsksNew

LEMMA AsksMore ==
  ASSUME Typed, AsksNew, NEW who \in Asker, NEW replies, Ask(who, replies), node \notin Late,
         shared'.iter_total \in Nat,
         \/ shared'.iter_total = shared.iter_total + 1
         \/ shared'.iter_total = shared.iter_total /\ node' \in Late
  PROVE  AsksNew'
<1>. DEFINE id == RequestId(who)
            n == Len(asked) + 1
<1>1. id.iter_total = shared.iter_total
  BY DEF RequestId
<1>2. /\ DOMAIN asked' = 1 .. n /\ n \in Nat /\ asked'[n] = id
      /\ \A i \in DOMAIN asked : asked'[i] = asked[i] /\ i < n
  <2>1. asked' = Append(asked, id)
    BY DEF Ask
  <2>2. asked \in Seq([who : Asker, iter_total : Nat, round : Nat])
    BY DEF Typed, TypeOK
  <2>3. id \in [who : Asker, iter_total : Nat, round : Nat]
    <3>1. shared.iter_total \in Nat /\ shared.mesh_dispatch_round + 1 \in Nat
      BY DEF Typed, TypeOK, Shared
    <3>. QED  BY <3>1 DEF RequestId
  <2>. HIDE DEF id
  <2>. QED  BY <2>1, <2>2, <2>3, Counters
<1>. HIDE DEF id, n
<1>3. \A i \in DOMAIN asked' : i # n => i \in DOMAIN asked
  <2>1. DOMAIN asked = 1 .. n - 1
    BY Counters DEF n
  <2>. QED  BY <1>2, <2>1
<1>4. \A i \in DOMAIN asked : asked[i].iter_total < shared.iter_total
  BY DEF AsksNew
<1>5. \A i \in DOMAIN asked' : asked'[i].iter_total <= shared.iter_total
  BY <1>1, <1>2, <1>3, <1>4, Counters
<1>6. ASSUME NEW i \in DOMAIN asked', NEW j \in DOMAIN asked',
             asked'[i].iter_total = asked'[j].iter_total
      PROVE  i = j
  <2>1. CASE i = n /\ j = n
    BY <2>1
  <2>2. CASE i # n /\ j # n
    BY <1>2, <1>3, <1>6, <2>2 DEF AsksNew
  <2>3. CASE (i = n /\ j # n) \/ (i # n /\ j = n)
    BY <1>1, <1>2, <1>3, <1>4, <1>6, <2>3, Counters
  <2>. QED  BY <2>1, <2>2, <2>3
<1>7. \A i \in DOMAIN asked' : asked'[i].iter_total \in Nat
  BY <1>1, <1>2, <1>3, Counters
<1>8. /\ \A i \in DOMAIN asked' : asked'[i].iter_total <= shared'.iter_total
      /\ node' \notin Late => \A i \in DOMAIN asked' : asked'[i].iter_total < shared'.iter_total
  BY <1>5, <1>7, Counters
<1>. QED  BY <1>6, <1>8 DEF AsksNew

LEMMA ChainRoutes ==
  ASSUME Typed, Control, NEW s \in Shared, s.iter_total = shared.iter_total, setup' = setup,
         NEW n \in Nat, ChainRoute(s, n), steps + n <= 4 * shared.iter_total + 5,
         setup.topology = "chain", node \in {"executor", "reviewer"}
  PROVE  /\ Placed' /\ Paced' /\ StarOpen'
         /\ shared'.iter_total = shared.iter_total + 1
<1>1. shared' = ChainTurn(s) /\ shared'.iter_total = shared.iter_total + 1
  BY TurnsCount DEF ChainRoute, OneMore
<1>2. /\ node' = IF ChainStops(shared') THEN "END" ELSE "executor"
      /\ steps' = steps + n
  BY <1>1 DEF ChainRoute, Take
<1>3. node' = "executor" => shared'.iter_total < SubMax
  BY <1>1, <1>2, Counters DEF ChainStops
<1>4. shared.iter_total <= SubMax - 1
  BY DEF Control, Paced, Room, Ended
<1>5. steps' <= 4 * shared'.iter_total + 1
  BY <1>1, <1>2, Counters
<1>6. CASE node' = "executor"
  BY <1>1, <1>3, <1>5, <1>6, Counters DEF Placed, Paced, Lead, Room, StarOpen, Ended
<1>7. CASE node' = "END"
  <2>1. Lead' = 4 /\ Room' = SubMax + Extra' /\ Extra' = 0
    BY <1>7 DEF Lead, Room, Extra, Ended
  <2>2. Paced'
    BY <1>1, <1>2, <1>4, <1>5, <1>7, <2>1, Counters DEF Paced
  <2>. QED  BY <1>1, <1>7, <2>2 DEF Placed, StarOpen, Ended
<1>. QED  BY <1>1, <1>2, <1>6, <1>7

LEMMA ChainControl ==
  ASSUME Typed, Control, ChainPlans \/ ChainWorks
  PROVE  Control'
<1>. USE DEF Control
<1>1. CASE ChainPlans
  <2>1. /\ node = "planner" /\ setup.topology = "chain" /\ setup' = setup /\ asked' = asked
        /\ node' = "executor" /\ steps' = steps + 1
    BY <1>1 DEF ChainPlans, Take, human
  <2>2. shared'.iter_total = shared.iter_total
    BY <1>1, AgentsStill DEF ChainPlans, ChainEntry, Still, Typed, TypeOK
  <2>3. AsksNew'
    BY <2>1, <2>2, AsksKept, Counters DEF Late, Ended
  <2>. QED  BY <2>1, <2>2, <2>3, Counters DEF Placed, Paced, Lead, Room, Extra, StarOpen, Ended
<1>2. CASE ChainWorks
  <2>1. PICK w \in SUBSET ExecutorSignals, approved \in BOOLEAN :
          LET s == SetApproved(CriticStep(ExecutorStep(shared, w), approved), approved)
          IN  IF setup.human = "off" THEN ChainRoute(s, 3)
              ELSE Take(3, "reviewer") /\ shared' = [s EXCEPT !.phase = "execution"]
    BY <1>2 DEF ChainWorks
  <2>. DEFINE a == ExecutorStep(shared, w)
              b == CriticStep(a, approved)
              s == SetApproved(b, approved)
  <2>2. s \in Shared /\ s.iter_total = shared.iter_total
    <3>1. Still(shared, a) /\ a \in Shared
      BY AgentsStill DEF Still, Typed, TypeOK
    <3>2. Still(a, b) /\ b \in Shared
      BY <3>1, AgentsStill DEF Still
    <3>3. Still(b, s)
      BY <3>2, AgentsStill
    <3>. QED  BY <3>1, <3>2, <3>3, StillTrans DEF Still
  <2>3. IF setup.human = "off" THEN ChainRoute(s, 3)
        ELSE Take(3, "reviewer") /\ shared' = [s EXCEPT !.phase = "execution"]
    BY <2>1
  <2>. HIDE DEF s
  <2>4. node = "executor" /\ setup' = setup /\ asked' = asked
    BY <1>2 DEF ChainWorks, human
  <2>5. setup.topology = "chain"
    BY <2>4 DEF Placed, Ended
  <2>6. steps <= 4 * shared.iter_total + 1
    BY <2>4 DEF Paced, Lead, Ended
  <2>7. CASE setup.human = "off"
    <3>1. ChainRoute(s, 3)
      BY <2>3, <2>7
    <3>2. Placed' /\ Paced' /\ StarOpen' /\ shared'.iter_total = shared.iter_total + 1
      <4>1. steps + 3 <= 4 * shared.iter_total + 5
        BY <2>6, Counters
      <4>. QED  BY <2>2, <2>4, <2>5, <3>1, <4>1, ChainRoutes
    <3>3. AsksNew'
      BY <2>4, <3>2, AsksKept, Counters
    <3>. QED  BY <3>2, <3>3
  <2>8. CASE setup.human # "off"
    <3>1. node' = "reviewer" /\ steps' = steps + 3 /\ shared' = [s EXCEPT !.phase = "execution"]
      BY <2>3, <2>8 DEF Take
    <3>2. shared'.iter_total = shared.iter_total
      BY <2>2, <3>1 DEF Shared
    <3>3. AsksNew'
      BY <2>4, <3>1, <3>2, AsksKept, Counters DEF Late, Ended
    <3>4. shared.iter_total <= SubMax - 1
      BY <2>4 DEF Paced, Room, Ended
    <3>. QED  BY <2>4, <2>5, <2>6, <3>1, <3>2, <3>3, <3>4, Counters
              DEF Placed, Paced, Lead, Room, Extra, StarOpen, Ended
  <2>. QED  BY <2>7, <2>8
<1>. QED  BY <1>1, <1>2

LEMMA StarControl ==
  ASSUME Typed, Control, StarCoordinates \/ StarWorks
  PROVE  Control'
<1>. USE DEF Control
<1>0. node \in {"coordinator", "worker"} /\ setup.topology = "star" /\ setup' = setup /\ asked' = asked
  <2>1. node \in {"coordinator", "worker"} /\ setup' = setup /\ asked' = asked
    BY DEF StarCoordinates, StarWorks, human
  <2>. QED  BY <2>1 DEF Placed, Ended
<1>1. CASE StarCoordinates
  <2>1. node = "coordinator" /\ steps' = steps + 1 /\ node' = IF StarStops(shared') THEN "END" ELSE "worker"
    BY <1>1 DEF StarCoordinates, Take
  <2>2. shared'.iter_total = shared.iter_total + 1
    BY <1>1, TurnsCount DEF StarCoordinates, OneMore, Typed, TypeOK
  <2>3. node' = "worker" => shared'.iter_total < SubMax /\ shared'.phase # "done"
    BY <2>1, <2>2, Counters DEF StarStops
  <2>4. AsksNew'
    BY <1>0, <2>2, AsksKept, Counters
  <2>5. steps <= 4 * shared.iter_total /\ shared.iter_total <= SubMax - 1
    BY <2>1, Counters DEF Paced, Lead, Room, Ended
  <2>. QED  BY <1>0, <2>1, <2>2, <2>3, <2>4, <2>5, Counters
            DEF Placed, Paced, Lead, Room, Extra, StarOpen, Ended
<1>2. CASE StarWorks
  <2>1. /\ node = "worker"
        /\ \/ steps' = steps + 2 /\ node' \in {"coordinator", "reviewer"}
           \/ steps' = steps + 1 /\ node' = "coordinator"
    BY <1>2 DEF StarWorks, Take
  <2>2. shared'.iter_total = shared.iter_total /\ shared'.phase = shared.phase
    BY <1>2, StarWorkerStill DEF StarWorks, Still, Typed, TypeOK
  <2>3. AsksNew'
    BY <1>0, <2>1, <2>2, AsksKept, Counters DEF Late, Ended
  <2>4. steps <= 4 * shared.iter_total - 3 /\ shared.iter_total <= SubMax - 1 /\ shared.phase # "done"
    BY <1>0, <2>1, Counters DEF Paced, Lead, Room, StarOpen, Ended
  <2>5. CASE node' = "coordinator"
    BY <1>0, <2>1, <2>2, <2>3, <2>4, <2>5, Counters DEF Placed, Paced, Lead, Room, StarOpen, Ended
  <2>6. CASE node' = "reviewer"
    BY <1>0, <2>1, <2>2, <2>3, <2>4, <2>6, Counters DEF Placed, Paced, Lead, Room, StarOpen, Ended
  <2>. QED  BY <2>1, <2>5, <2>6
<1>. QED  BY <1>1, <1>2

LEMMA ReviewControl ==
  ASSUME Typed, Control, Review
  PROVE  Control'
<1>. USE DEF Control
<1>1. PICK who \in {"top", "reviewer"} : Ask(who, Answers)
  BY DEF Review
<1>2. node = "reviewer" /\ setup' = setup
  BY DEF Review, work
<1>3. setup.topology \in {"chain", "star", "hierarchical"}
  BY <1>2 DEF Placed, Ended
<1>4. who \in Asker /\ node \notin Late
  BY <1>2 DEF Asker, Late, Ended
<1>5. CASE setup.topology = "chain"
  <2>1. ChainRoute(shared, 1)
    BY <1>5 DEF Review
  <2>2. Placed' /\ Paced' /\ StarOpen' /\ shared'.iter_total = shared.iter_total + 1
    <3>1. steps + 1 <= 4 * shared.iter_total + 5
      BY <1>2, <1>5, Counters DEF Paced, Lead, Ended
    <3>2. shared \in Shared
      BY DEF Typed, TypeOK
    <3>. QED  BY <1>2, <1>5, <2>1, <3>1, <3>2, ChainRoutes
  <2>3. AsksNew'
    BY <1>1, <1>4, <2>2, AsksMore, Counters
  <2>. QED  BY <2>2, <2>3
<1>6. CASE setup.topology # "chain"
  <2>1. /\ steps' = steps + 1 /\ shared' = shared
        /\ node' = IF setup.topology = "star" THEN "coordinator" ELSE "finalize"
    BY <1>3, <1>6 DEF Review, Take
  <2>2. AsksNew'
    BY <1>1, <1>4, <2>1, AsksMore, Counters DEF Late
  <2>3. steps <= 4 * shared.iter_total - 1 /\ shared.iter_total <= Room
    BY <1>2, <1>6, Counters DEF Paced, Lead, Ended
  <2>4. Room = IF setup.topology = "star" THEN SubMax - 1 ELSE SubMax + 1
    BY <1>2, <1>3, <1>6, Counters DEF Room, Extra, Ended
  <2>5. setup.topology = "star" => shared.phase # "done"
    BY <1>2 DEF StarOpen, Ended
  <2>. QED  BY <1>2, <1>3, <1>6, <2>1, <2>2, <2>3, <2>4, <2>5, Counters
            DEF Placed, Paced, Lead, Room, Extra, StarOpen, Ended
<1>. QED  BY <1>5, <1>6

LEMMA TallyControl ==
  ASSUME Typed, Control, NEW s \in Shared, s.iter_total = shared.iter_total, setup' = setup,
         NEW b, NEW p, Tally(s, b, p), node \in {"agent", "peer"}
  PROVE  /\ Placed' /\ Paced' /\ StarOpen'
         /\ shared'.iter_total = shared.iter_total + 1
<1>1. shared' = MeshTally(s, Winners(b) # {}) /\ shared'.iter_total = shared.iter_total + 1
  BY TurnsCount DEF Tally, OneMore
<1>2. /\ node' = IF MeshStops(shared') THEN "END" ELSE "dispatcher"
      /\ steps' = steps + 3
  BY <1>1 DEF Tally, Take
<1>3. node' = "dispatcher" => shared'.iter_total < SubMax
  BY <1>1, <1>2, Counters DEF MeshStops
<1>4. setup.topology = "mesh"
  BY DEF Control, Placed, Ended
<1>5. shared.iter_total <= SubMax - 1 /\ steps <= 4 * shared.iter_total + 1
  BY DEF Control, Paced, Lead, Room, Ended
<1>6. steps' <= 4 * shared'.iter_total
  BY <1>1, <1>2, <1>5, Counters
<1>7. CASE node' = "dispatcher"
  BY <1>1, <1>3, <1>4, <1>6, <1>7, Counters DEF Placed, Paced, Lead, Room, StarOpen, Ended
<1>8. CASE node' = "END"
  <2>1. Lead' = 4 /\ Room' = SubMax + Extra' /\ Extra' = 0
    BY <1>4, <1>8 DEF Lead, Room, Extra, Ended
  <2>2. Paced'
    BY <1>1, <1>2, <1>5, <1>6, <1>8, <2>1, Counters DEF Paced
  <2>. QED  BY <1>1, <1>8, <2>2 DEF Placed, StarOpen, Ended
<1>. QED  BY <1>2, <1>7, <1>8

LEMMA MeshControl ==
  ASSUME Typed, Control, MeshDispatches \/ MeshWorks \/ PeerVotes
  PROVE  Control'
<1>. USE DEF Control
<1>1. CASE MeshDispatches
  <2>1. /\ node = "dispatcher" /\ node' \in {"peer", "agent"} /\ steps' = steps + 1
        /\ UNCHANGED <<setup, shared, asked>>
    BY <1>1 DEF MeshDispatches, Take, human
  <2>2. setup.topology = "mesh"
    BY <2>1 DEF Placed, Ended
  <2>3. steps <= 4 * shared.iter_total /\ shared.iter_total <= SubMax - 1
    BY <2>1, Counters DEF Paced, Lead, Room, Ended
  <2>4. AsksNew'
    BY <2>1, AsksKept, Counters DEF Late, Ended
  <2>. QED  BY <2>1, <2>2, <2>3, <2>4, Counters DEF Placed, Paced, Lead, Room, StarOpen, Ended
<1>2. CASE MeshWorks
  <2>1. PICK s \in AgentStep(mesh.active, shared) : \E b, p : Tally(s, b, p)
    BY <1>2 DEF MeshWorks
  <2>2. s \in Shared /\ s.iter_total = shared.iter_total
    BY <2>1, AgentStepStill DEF Still, Typed, TypeOK
  <2>3. node = "agent" /\ setup' = setup /\ asked' = asked
    BY <1>2 DEF MeshWorks, human
  <2>4. Placed' /\ Paced' /\ StarOpen' /\ shared'.iter_total = shared.iter_total + 1
    BY <2>1, <2>2, <2>3, TallyControl
  <2>5. AsksNew'
    BY <2>3, <2>4, AsksKept, Counters
  <2>. QED  BY <2>4, <2>5
<1>3. CASE PeerVotes
  <2>1. \E b, p : Tally(shared, b, p)
    BY <1>3 DEF PeerVotes
  <2>2. node = "peer" /\ setup' = setup /\ Ask("peer", Answers)
    BY <1>3 DEF PeerVotes
  <2>3. Placed' /\ Paced' /\ StarOpen' /\ shared'.iter_total = shared.iter_total + 1
    BY <2>1, <2>2, TallyControl DEF Typed, TypeOK
  <2>4. "peer" \in Asker /\ node \notin Late
    BY <2>2 DEF Asker, Late, Ended
  <2>5. AsksNew'
    BY <2>2, <2>3, <2>4, AsksMore, Counters
  <2>. QED  BY <2>3, <2>5
<1>. QED  BY <1>1, <1>2, <1>3

LEMMA VerdictControl ==
  ASSUME Typed, Control, NEW s \in Shared, s.iter_total = shared.iter_total, setup' = setup,
         NEW approved \in BOOLEAN, NEW winner, NEW n \in {1, 2}, Verdict(s, approved, winner, n),
         node \in {"judge", "human_judge"}
  PROVE  /\ Placed' /\ Paced' /\ StarOpen'
         /\ shared'.iter_total = shared.iter_total + 1
<1>1. shared' = DebateVerdict(s, approved) /\ shared'.iter_total = shared.iter_total + 1
  BY TurnsCount DEF Verdict, OneMore
<1>2. \/ DebateStops(DebateVerdict(s, approved)) /\ node' = "END" /\ steps' = steps + n
      \/ /\ ~DebateStops(DebateVerdict(s, approved))
         /\ node' = "debaters" /\ steps' = steps + (n + 1)
  BY DEF Verdict, Take
<1>3. node' = "debaters" => shared'.iter_total < SubMax
  BY <1>1, <1>2, Counters DEF DebateStops
<1>4. setup.topology = "debate"
  BY DEF Control, Placed, Ended
<1>5. shared.iter_total <= SubMax /\ steps <= 4 * shared.iter_total - 2
  BY Counters DEF Control, Paced, Lead, Room, Ended
<1>6. steps' <= 4 * shared'.iter_total - 3 /\ steps' \in Nat
  <2>1. steps' = steps + n \/ steps' = steps + (n + 1)
    BY <1>2
  <2>2. n = 1 \/ n = 2
    OBVIOUS
  <2>3. steps' \in Nat /\ steps' <= steps + 3
    BY <2>1, <2>2, Counters
  <2>. QED  BY <1>1, <1>5, <2>3, Counters
<1>7. CASE node' = "debaters"
  BY <1>1, <1>3, <1>4, <1>6, <1>7, Counters DEF Placed, Paced, Lead, Room, StarOpen, Ended
<1>8. CASE node' = "END"
  <2>1. Lead' = 4 /\ Room' = SubMax + Extra' /\ Extra' = 1
    BY <1>4, <1>8 DEF Lead, Room, Extra, Ended
  <2>2. Paced'
    BY <1>1, <1>5, <1>6, <1>8, <2>1, Counters DEF Paced
  <2>. QED  BY <1>1, <1>8, <2>2 DEF Placed, StarOpen, Ended
<1>. QED  BY <1>2, <1>7, <1>8

LEMMA DebateControl ==
  ASSUME Typed, Control, DebateOpens \/ DebatersArgue \/ JudgeDecides \/ HumanJudges
  PROVE  Control'
<1>. USE DEF Control
<1>0. setup.topology = "debate"
  <2>1. DebateOpens \/ node \in {"debaters", "judge", "human_judge"}
    BY DEF DebatersArgue, JudgeDecides, HumanJudges
  <2>. QED  BY <2>1 DEF DebateOpens, Placed, Ended
<1>1. CASE DebateOpens
  <2>1. node = "planner" /\ node' = "debaters" /\ steps' = steps + 1 /\ setup' = setup /\ asked' = asked
    BY <1>1 DEF DebateOpens, Take, human
  <2>2. shared'.iter_total = shared.iter_total + 1
    BY <1>1, TurnsCount DEF DebateOpens, OneMore, Typed, TypeOK
  <2>3. steps <= 4 * shared.iter_total /\ shared.iter_total <= SubMax - 1
    BY <2>1, Counters DEF Paced, Lead, Room, Ended
  <2>4. AsksNew'
    BY <2>1, <2>2, AsksKept, Counters
  <2>. QED  BY <1>0, <2>1, <2>2, <2>3, <2>4, Counters DEF Placed, Paced, Lead, Room, StarOpen, Ended
<1>2. CASE DebatersArgue
  <2>1. /\ node = "debaters" /\ steps' = steps + 1 /\ UNCHANGED <<setup, shared, asked>>
        /\ node' = IF setup.human = "judge" THEN "human_judge" ELSE "judge"
    BY <1>2 DEF DebatersArgue, Take, human
  <2>2. steps <= 4 * shared.iter_total - 3 /\ shared.iter_total <= SubMax
    BY <2>1, Counters DEF Paced, Lead, Room, Ended
  <2>3. AsksNew'
    BY <2>1, AsksKept, Counters DEF Late, Ended
  <2>. QED  BY <1>0, <2>1, <2>2, <2>3, Counters DEF Placed, Paced, Lead, Room, StarOpen, Ended
<1>3. CASE JudgeDecides
  <2>1. PICK approved \in BOOLEAN :
          IF setup.human = "both"
          THEN Take(0, "human_judge") /\ UNCHANGED <<shared, answer>>
          ELSE Verdict(CriticStep(shared, approved), approved, "pro", 2)
    BY <1>3 DEF JudgeDecides
  <2>2. node = "judge" /\ setup' = setup /\ asked' = asked
    BY <1>3 DEF JudgeDecides, human
  <2>3. CASE setup.human = "both"
    <3>1. node' = "human_judge" /\ steps' = steps /\ shared' = shared
      BY <2>1, <2>3, Counters DEF Take
    <3>2. steps <= 4 * shared.iter_total - 2 /\ shared.iter_total <= SubMax
      BY <2>2, Counters DEF Paced, Lead, Room, Ended
    <3>3. AsksNew'
      BY <2>2, <3>1, AsksKept, Counters DEF Late, Ended
    <3>. QED  BY <1>0, <2>2, <3>1, <3>2, <3>3, Counters DEF Placed, Paced, Lead, Room, StarOpen, Ended
  <2>4. CASE setup.human # "both"
    <3>1. CriticStep(shared, approved) \in Shared /\ CriticStep(shared, approved).iter_total = shared.iter_total
      BY AgentsStill DEF Still, Typed, TypeOK
    <3>2. Placed' /\ Paced' /\ StarOpen' /\ shared'.iter_total = shared.iter_total + 1
      BY <2>1, <2>2, <2>4, <3>1, VerdictControl
    <3>3. AsksNew'
      BY <2>2, <3>2, AsksKept, Counters
    <3>. QED  BY <3>2, <3>3
  <2>. QED  BY <2>3, <2>4
<1>4. CASE HumanJudges
  <2>1. \E winner \in Side, n \in {1, 2} : Verdict(shared, ApprovedByHuman, winner, n)
    BY <1>4 DEF HumanJudges
  <2>2. node = "human_judge" /\ setup' = setup /\ Ask("judge", Answers)
    BY <1>4 DEF HumanJudges
  <2>3. Placed' /\ Paced' /\ StarOpen' /\ shared'.iter_total = shared.iter_total + 1
    <3>1. ApprovedByHuman \in BOOLEAN /\ shared \in Shared
      BY DEF ApprovedByHuman, Typed, TypeOK
    <3>. QED  BY <2>1, <2>2, <3>1, VerdictControl
  <2>4. "judge" \in Asker /\ node \notin Late
    BY <2>2 DEF Asker, Late, Ended
  <2>5. AsksNew'
    BY <2>2, <2>3, <2>4, AsksMore, Counters
  <2>. QED  BY <2>3, <2>5
<1>. QED  BY <1>1, <1>2, <1>3, <1>4

LEMMA TeamNodes ==
  /\ TeamNode("team_a") \in {"team_a", "ask_a"}
  /\ TeamNode("team_b") \in {"team_b", "ask_b"}
BY DEF TeamNode

LEMMA TopControl ==
  ASSUME Typed, Control, TopCoordinates
  PROVE  Control'
<1>. USE DEF Control
<1>1. /\ node = "top_coord" /\ setup' = setup /\ asked' = asked /\ shared' = TopCoord(shared)
      /\ steps' = steps + 1
      /\ node' = IF TopCoordRoute(shared') = "finalize" THEN "finalize"
                 ELSE TeamNode(TopCoordRoute(shared'))
  BY DEF TopCoordinates, Take, human
<1>2. setup.topology = "hierarchical" /\ shared.iter_total = 0 /\ steps <= 0
  BY <1>1, Counters DEF Placed, Paced, Lead, Ended
<1>3. shared' \in Shared /\ shared'.iter_total = 1
  BY <1>1, <1>2, TurnsCount DEF OneMore, Typed, TypeOK
<1>4. "activate_team_a" \in shared'.signals
  <2>1. Count(shared) \in Shared
    BY TurnsCount DEF OneMore, Typed, TypeOK
  <2>. DEFINE c == Count(shared)
  <2>2. shared' = [c EXCEPT !.signals = c.signals \cup {"activate_team_a", "activate_team_b"}]
    BY <1>1, <1>2 DEF TopCoord
  <2>. HIDE DEF c
  <2>. QED  BY <2>1, <2>2 DEF Shared, c
<1>5. \/ TopCoordRoute(shared') = "finalize"
      \/ TopCoordRoute(shared') = "team_a" /\ shared'.iter_total < SubMax
  BY <1>3, <1>4, Counters DEF TopCoordRoute
<1>6. AsksNew'
  BY <1>1, <1>2, <1>3, AsksKept, Counters
<1>7. steps' \in Nat /\ steps' <= 1
  BY <1>1, <1>2, Counters
<1>8. CASE TopCoordRoute(shared') = "finalize"
  <2>1. node' = "finalize"
    BY <1>1, <1>8
  <2>2. Lead' = 0 /\ Room' = SubMax + Extra' /\ Extra' = 1
    BY <1>1, <1>2, <2>1 DEF Lead, Room, Extra, Ended
  <2>3. Paced'
    BY <1>3, <1>7, <2>1, <2>2, Counters DEF Paced
  <2>. QED  BY <1>1, <1>2, <1>6, <2>1, <2>3 DEF Placed, StarOpen, Ended
<1>9. CASE TopCoordRoute(shared') = "team_a" /\ shared'.iter_total < SubMax
  <2>1. node' \in {"team_a", "ask_a"}
    BY <1>1, <1>9, TeamNodes
  <2>2. Lead' = -3 /\ Room' = SubMax - 1
    BY <1>1, <2>1 DEF Lead, Room, Ended
  <2>3. Paced'
    BY <1>3, <1>7, <1>9, <2>1, <2>2, Counters DEF Paced
  <2>. QED  BY <1>1, <1>2, <1>6, <2>1, <2>3 DEF Placed, StarOpen, Ended
<1>. QED  BY <1>5, <1>8, <1>9

LEMMA SubReviewControl ==
  ASSUME Typed, Control, SubReview
  PROVE  Control'
<1>. USE DEF Control
<1>1. PICK team \in {"team_a", "team_b"} :
        Ask(team, Answers) /\ Take(0, team) /\ (node = "ask_a" <=> team = "team_a")
  BY DEF SubReview
<1>2. node \in {"ask_a", "ask_b"} /\ setup' = setup /\ shared' = shared /\ node' = team /\ steps' = steps
  BY <1>1, Counters DEF SubReview, Take
<1>3. setup.topology = "hierarchical"
  BY <1>2 DEF Placed, Ended
<1>4. team \in Asker /\ node \notin Late /\ node' \in Late
  BY <1>2 DEF Asker, Late, Ended
<1>5. AsksNew'
  BY <1>1, <1>2, <1>4, AsksMore, Counters
<1>6. steps <= 4 * shared.iter_total - 3 /\ shared.iter_total <= Room
  BY <1>2, Counters DEF Paced, Lead, Ended
<1>7. Lead' = -3 /\ Room' = Room
  BY <1>1, <1>2 DEF Lead, Room, Ended
<1>. QED  BY <1>2, <1>3, <1>5, <1>6, <1>7, Counters DEF Placed, Paced, StarOpen, Ended

LEMMA TeamAControl ==
  ASSUME Typed, Control, TeamAWorks
  PROVE  Control'
<1>. USE DEF Control
<1>1. /\ node = "team_a" /\ setup' = setup /\ asked' = asked
      /\ steps' = steps + 2 /\ node' \in {"team_b", "ask_b"}
  BY TeamNodes DEF TeamAWorks, Take, human
<1>2. shared'.iter_total = shared.iter_total + 1
  <2>1. PICK w \in SUBSET ExecutorSignals :
          shared' = AfterTeamA(Count(ExecutorStep(shared, w)), drafts'["team_a"] > 0)
    BY DEF TeamAWorks
  <2>2. (drafts'["team_a"] > 0) \in BOOLEAN
    OBVIOUS
  <2>. QED  BY <2>1, <2>2, TeamsCount DEF OneMore, Typed, TypeOK
<1>3. setup.topology = "hierarchical"
  BY <1>1 DEF Placed, Ended
<1>4. steps <= 4 * shared.iter_total - 3 /\ shared.iter_total <= SubMax - 1
  BY <1>1, Counters DEF Paced, Lead, Room, Ended
<1>5. AsksNew'
  BY <1>1, <1>2, AsksKept, Counters
<1>6. Lead' = -3 /\ (node' = "top_coord" => FALSE)
  BY <1>1 DEF Lead, Ended
<1>7. Room' \in {SubMax, SubMax - 1} /\ (node' \in {"team_b", "ask_b"} => Room' = SubMax)
  BY <1>1 DEF Room, Ended
<1>. QED  BY <1>1, <1>2, <1>3, <1>4, <1>5, <1>6, <1>7, Counters DEF Placed, Paced, StarOpen, Ended

LEMMA TeamBControl ==
  ASSUME Typed, Control, TeamBWorks
  PROVE  Control'
<1>. USE DEF Control
<1>1. /\ node = "team_b" /\ setup' = setup /\ asked' = asked /\ steps' = steps + 2
      /\ \/ TeamBStops(shared') /\ node' \in {"reviewer", "finalize"}
         \/ ~TeamBStops(shared') /\ node' \in {"team_a", "ask_a"}
  BY TeamNodes DEF TeamBWorks, Take, human
<1>2. shared'.iter_total = shared.iter_total + 1
  <2>1. PICK w \in SUBSET ExecutorSignals :
          shared' = AfterTeamB(Count(ExecutorStep(shared, w)), drafts'["team_b"] > 0)
    BY DEF TeamBWorks
  <2>2. (drafts'["team_b"] > 0) \in BOOLEAN
    OBVIOUS
  <2>. QED  BY <2>1, <2>2, TeamsCount DEF OneMore, Typed, TypeOK
<1>3. setup.topology = "hierarchical"
  BY <1>1 DEF Placed, Ended
<1>4. steps <= 4 * shared.iter_total - 3 /\ shared.iter_total <= SubMax
  BY <1>1, Counters DEF Paced, Lead, Room, Ended
<1>5. AsksNew'
  BY <1>1, <1>2, AsksKept, Counters
<1>6. steps' <= 4 * shared'.iter_total - 3
  BY <1>1, <1>2, <1>4, Counters
<1>7. CASE node' \in {"reviewer", "finalize"}
  <2>0. Room' = SubMax + Extra' /\ Extra' = 1 /\ steps' \in Nat
    BY <1>1, <1>3, <1>7, Counters DEF Room, Extra, Ended
  <2>1. Lead' \in Int /\ Lead' >= -3
    BY <1>1, <1>7 DEF Lead, Ended
  <2>2. Paced'
    <3>0. shared'.iter_total \in Nat /\ node' # "top_coord"
      BY <1>2, <1>7, Counters
    <3>1. steps' <= 4 * shared'.iter_total + Lead'
      BY <1>6, <2>0, <2>1, <3>0
    <3>2. shared'.iter_total <= Room'
      BY <1>2, <1>4, <2>0, Counters
    <3>. QED  BY <3>0, <3>1, <3>2 DEF Paced
  <2>. QED  BY <1>1, <1>3, <1>5, <1>7, <2>2 DEF Placed, StarOpen, Ended
<1>8. CASE ~TeamBStops(shared') /\ node' \in {"team_a", "ask_a"}
  <2>1. Lead' = -3 /\ Room' = SubMax - 1
    BY <1>8 DEF Lead, Room, Ended
  <2>2. shared'.iter_total < SubMax
    BY <1>2, <1>8, Counters DEF TeamBStops
  <2>3. Paced'
    BY <1>1, <1>2, <1>6, <1>8, <2>1, <2>2, Counters DEF Paced
  <2>. QED  BY <1>1, <1>3, <1>5, <1>8, <2>3 DEF Placed, StarOpen, Ended
<1>. QED  BY <1>1, <1>7, <1>8

LEMMA EndControl ==
  ASSUME Typed, Control, Finalizes \/ Raises
  PROVE  Control'
<1>. USE DEF Control
<1>1. /\ UNCHANGED <<setup, shared, asked>> /\ node' \in Ended /\ node \notin Ended
      /\ \/ node = "finalize" /\ steps' = steps + 1
         \/ steps' = steps
  BY Counters DEF Finalizes, Raises, Take, human, Ended
<1>2. AsksNew'
  BY <1>1, AsksKept, Counters DEF Late
<1>3. steps' <= 4 * shared.iter_total + 4
  BY <1>1, Counters DEF Paced, Lead, Ended
<1>4. shared.iter_total <= SubMax + Extra
  <2>1. Extra \in {0, 1}
    BY DEF Extra
  <2>2. node \in {"debaters", "judge", "human_judge", "ask_b", "team_b"} => Extra = 1
    BY DEF Placed, Extra, Ended
  <2>3. \/ Room = SubMax + Extra
        \/ Room = SubMax - 1
        \/ Room = SubMax /\ Extra = 1
    BY <1>1, <2>1, <2>2 DEF Room
  <2>. QED  BY <2>1, <2>3, Counters DEF Paced
<1>5. Lead' = 4 /\ Room' = SubMax + Extra /\ (node' = "top_coord" => FALSE)
  BY <1>1 DEF Lead, Room, Extra, Ended
<1>. QED  BY <1>1, <1>2, <1>3, <1>4, <1>5, Counters DEF Placed, Paced, StarOpen

LEMMA ControlStep == Typed /\ Control /\ [Next]_vars => Control'
<1>1. CASE UNCHANGED vars
  BY <1>1 DEF vars, work, human, Control, Placed, Paced, Lead, Extra, Room, AsksNew, StarOpen
<1>. QED  BY <1>1, ChainControl, StarControl, ReviewControl, MeshControl, DebateControl, TopControl,
             SubReviewControl, TeamAControl, TeamBControl, EndControl DEF Next, Step

LEMMA ControlStart == Init => Control
<1>. SUFFICES ASSUME Init PROVE Control
  OBVIOUS
<1>1. setup.topology \in {"chain", "star", "mesh", "debate", "hierarchical"}
  BY DEF Init, Setups, Parts
<1>2. shared.iter_total = 0 /\ shared.phase = "planning" /\ steps = 0 /\ asked = << >>
  BY DEF Init, InitialShared
<1>3. Placed /\ node \in {"planner", "coordinator", "dispatcher", "top_coord"}
  BY <1>1 DEF Init, Start, Placed
<1>4. Paced
  BY <1>2, <1>3, SharedAssumption DEF Paced, Lead, Room, Ended
<1>5. AsksNew /\ StarOpen
  BY <1>2 DEF AsksNew, StarOpen
<1>. QED  BY <1>3, <1>4, <1>5 DEF Control

Inv == Typed /\ Control

(* A run of any topology passes max_iterations by at most the round under  *)
(* way, and never reaches the recursion limit run_one gives LangGraph:     *)
(* four supersteps per iteration and twenty.                               *)
THEOREM SoloWithinLimits == Spec => []WithinLimits
<1>1. Init => Inv
  BY StartTyped, ControlStart DEF Inv
<1>2. Inv /\ [Next]_vars => Inv'
  BY SoloTypes, ControlStep DEF Inv
<1>3. Inv => WithinLimits
  <2>. SUFFICES ASSUME Inv PROVE WithinLimits
    OBVIOUS
  <2>1. Extra \in {0, 1} /\ Lead \in {-3, -2, -1, 0, 1, 4}
    BY DEF Extra, Lead
  <2>2. Placed /\ Paced
    BY DEF Inv, Control
  <2>3. node \in {"debaters", "judge", "human_judge", "ask_b", "team_b"} => Extra = 1
    BY <2>2 DEF Placed, Extra, Ended
  <2>4. Room \in {SubMax + Extra, SubMax - 1} \/ (Room = SubMax /\ Extra = 1)
    BY <2>1, <2>3 DEF Room
  <2>5. shared.iter_total <= SubMax + Extra
    BY <2>1, <2>2, <2>4, Counters DEF Inv, Paced
  <2>6. steps <= 4 * SubMax + 20
    <3>1. Lead \in Int /\ Lead <= 4 /\ Extra <= 1
      BY <2>1
    <3>. QED  BY <2>2, <2>5, <3>1, <2>1, Counters DEF Inv, Paced
  <2>. QED  BY <2>5, <2>6 DEF WithinLimits, Extra
<1>. QED  BY <1>1, <1>2, <1>3, PTL DEF Spec

(* No two requests to the human carry the same id, in any topology and     *)
(* with the human in any part: the gateway never answers from its cache.   *)
THEOREM SoloNeverAsksTwice == Spec => []NeverAsksTwice
<1>1. Init => Inv
  BY StartTyped, ControlStart DEF Inv
<1>2. Inv /\ [Next]_vars => Inv'
  BY SoloTypes, ControlStep DEF Inv
<1>3. Inv => NeverAsksTwice
  BY DEF Inv, Control, AsksNew, NeverAsksTwice
<1>. QED  BY <1>1, <1>2, <1>3, PTL DEF Spec

LEMMA VerdictDecides ==
  ASSUME NEW s \in Shared, NEW approved \in BOOLEAN
  PROVE  "judge_decided" \in DebateVerdict(s, approved).signals <=> approved
BY DEF DebateVerdict, Shared

LEMMA VerdictEnds ==
  ASSUME NEW s \in Shared, NEW approved \in BOOLEAN, NEW winner \in Side, NEW n,
         Verdict(s, approved, winner, n)
  PROVE  /\ "judge_decided" \in shared'.signals <=> approved
         /\ approved => answer' = Latest(winner, drafts)
<1>1. shared' = DebateVerdict(s, approved) /\ answer' \in VerdictAnswer(approved, winner)
  BY DEF Verdict
<1>. QED  BY <1>1, VerdictDecides DEF VerdictAnswer

\* Which action may end a run, by its topology.
LEMMA EndsBy ==
  ASSUME Inv, Next, node' = "END"
  PROVE  /\ setup' = setup
         /\ \/ setup.topology \in {"chain", "mesh"}
            \/ setup.topology = "star" /\ StarCoordinates
            \/ setup.topology = "debate" /\ (JudgeDecides \/ HumanJudges)
            \/ setup.topology = "hierarchical" /\ Finalizes
<1>. USE DEF Inv, Control
<1>1. setup' = setup
  BY DEF Next, Step, Raises, ChainPlans, ChainWorks, StarCoordinates, StarWorks, Review, MeshDispatches,
         MeshWorks, PeerVotes, DebateOpens, DebatersArgue, JudgeDecides, HumanJudges,
         TopCoordinates, SubReview, TeamAWorks, TeamBWorks, Finalizes
<1>2. CASE ChainPlans \/ ChainWorks
  <2>1. node \in {"planner", "executor"} /\ (node = "planner" => setup.topology = "chain")
    BY <1>2 DEF ChainPlans, ChainWorks
  <2>. QED  BY <1>1, <2>1 DEF Placed, Ended
<1>3. CASE StarCoordinates
  BY <1>1, <1>3 DEF StarCoordinates, Placed, Ended
<1>4. ~StarWorks
  BY DEF StarWorks, Take
<1>5. CASE Review
  <2>1. node = "reviewer"
    BY <1>5 DEF Review
  <2>2. setup.topology \in {"chain", "star", "hierarchical"}
    BY <2>1 DEF Placed, Ended
  <2>3. setup.topology = "chain"
    BY <1>5, <2>2 DEF Review, Take
  <2>. QED  BY <1>1, <2>3
<1>6. CASE MeshDispatches \/ MeshWorks \/ PeerVotes
  <2>1. node \in {"dispatcher", "agent", "peer"}
    BY <1>6 DEF MeshDispatches, MeshWorks, PeerVotes
  <2>. QED  BY <1>1, <2>1 DEF Placed, Ended
<1>7. ~DebateOpens /\ ~DebatersArgue
  BY DEF DebateOpens, DebatersArgue, Take
<1>8. CASE JudgeDecides \/ HumanJudges
  <2>1. node \in {"judge", "human_judge"}
    BY <1>8 DEF JudgeDecides, HumanJudges
  <2>. QED  BY <1>1, <1>8, <2>1 DEF Placed, Ended
<1>9. ~TopCoordinates /\ ~SubReview /\ ~TeamAWorks /\ ~TeamBWorks
  <2>1. ~TopCoordinates
    <3>1. ASSUME TopCoordinates PROVE node' \in {"finalize", "team_a", "ask_a", "team_b", "ask_b"}
      BY <3>1, TeamNodes DEF TopCoordinates, TopCoordRoute, Take
    <3>. QED  BY <3>1
  <2>2. ~SubReview
    BY DEF SubReview, Take
  <2>3. ~TeamAWorks /\ ~TeamBWorks
    BY TeamNodes DEF TeamAWorks, TeamBWorks, Take
  <2>. QED  BY <2>1, <2>2, <2>3
<1>10. CASE Finalizes
  BY <1>1, <1>10 DEF Finalizes, Placed, Ended
<1>11. ~Raises
  BY DEF Raises, Take
<1>. QED  BY <1>2, <1>3, <1>4, <1>5, <1>6, <1>7, <1>8, <1>9, <1>10, <1>11 DEF Next, Step

\* The reviewer of a chain leaves the answer of the critic_postprocess before it.
ChainFresh ==
  setup.topology = "chain" /\ node \in {"reviewer", "END"} =>
    answer \in {Latest("executor", drafts), Incomplete}

LEMMA ChainFreshStep == Inv /\ ChainFresh /\ [Next]_vars => ChainFresh'
<1>. SUFFICES ASSUME Inv, ChainFresh, [Next]_vars,
                     setup'.topology = "chain", node' \in {"reviewer", "END"}
              PROVE  answer' \in {Latest("executor", drafts'), Incomplete}
  BY DEF ChainFresh, Latest, Incomplete
<1>1. CASE UNCHANGED vars
  BY <1>1 DEF ChainFresh, Latest, Incomplete, vars, work, human
<1>2. CASE Next
  <2>1. setup.topology = "chain" /\ Placed
    <3>1. setup' = setup
      BY <1>2 DEF Next, Step, Raises, ChainPlans, ChainWorks, StarCoordinates, StarWorks, Review,
         MeshDispatches, MeshWorks, PeerVotes, DebateOpens, DebatersArgue, JudgeDecides,
         HumanJudges, TopCoordinates, SubReview, TeamAWorks, TeamBWorks, Finalizes
    <3>. QED  BY <3>1 DEF Inv, Control
  <2>2. CASE ChainWorks
    BY <2>2 DEF ChainWorks, ChainAnswer, Latest, Incomplete
  <2>3. CASE Review
    <3>1. node = "reviewer" /\ answer' = answer /\ drafts' = drafts
      BY <2>3 DEF Review, work
    <3>. QED  BY <2>1, <3>1 DEF ChainFresh, Latest, Incomplete
  <2>4. node \in {"planner", "executor", "reviewer"} \cup Ended
    BY <2>1 DEF Placed
  <2>5. ~Raises /\ ~ChainPlans
    BY DEF Raises, ChainPlans, Take
  <2>6. /\ ~StarCoordinates /\ ~StarWorks /\ ~MeshDispatches /\ ~MeshWorks /\ ~PeerVotes
        /\ ~DebateOpens /\ ~DebatersArgue /\ ~JudgeDecides /\ ~HumanJudges
        /\ ~TopCoordinates /\ ~SubReview /\ ~TeamAWorks /\ ~TeamBWorks /\ ~Finalizes
    BY <2>1, <2>4 DEF Ended, StarCoordinates, StarWorks, MeshDispatches, MeshWorks, PeerVotes,
       DebateOpens, DebatersArgue, JudgeDecides, HumanJudges, TopCoordinates, SubReview,
       TeamAWorks, TeamBWorks, Finalizes
  <2>. QED  BY <1>2, <2>2, <2>3, <2>5, <2>6 DEF Next, Step
<1>. QED  BY <1>1, <1>2

LEMMA FreshStep == Inv /\ ChainFresh /\ SuccessIsFresh /\ [Next]_vars => SuccessIsFresh'
<1>. SUFFICES ASSUME Inv, ChainFresh, SuccessIsFresh, [Next]_vars PROVE SuccessIsFresh'
  OBVIOUS
<1>1. CASE UNCHANGED vars
  BY <1>1 DEF SuccessIsFresh, Latest, Incomplete, vars, work, human
<1>2. CASE Next /\ node' # "END"
  BY <1>2 DEF SuccessIsFresh
<1>3. CASE Next /\ node' = "END"
  <2>1. setup' = setup
    BY <1>3, EndsBy
  <2>2. CASE setup.topology \in {"chain", "mesh"}
    <3>1. ChainFresh'
      BY <1>3, ChainFreshStep
    <3>. QED  BY <1>3, <2>1, <2>2, <3>1 DEF ChainFresh, SuccessIsFresh, Latest, Incomplete
  <2>3. CASE setup.topology = "star" /\ StarCoordinates
    <3>1. node = "coordinator" /\ answer' = StarAnswer(shared') /\ drafts' = drafts
      BY <2>3 DEF StarCoordinates
    <3>2. shared.phase # "done"
      BY <2>3, <3>1 DEF Inv, Control, StarOpen, Ended
    <3>3. shared'.phase = "done" => answer' = Latest("executor", drafts)
      BY <3>1, <3>2 DEF StarAnswer
    <3>. QED  BY <2>1, <2>3, <3>1, <3>3 DEF SuccessIsFresh, Latest, Incomplete
  <2>4. CASE setup.topology = "debate" /\ (JudgeDecides \/ HumanJudges)
    <3>1. PICK s \in Shared, approved \in BOOLEAN, winner \in Side, n \in {1, 2} :
            Verdict(s, approved, winner, n) /\ ruling'.winner = winner
      <4>1. CASE JudgeDecides
        <5>1. PICK approved \in BOOLEAN, named \in Side :
                /\ ruling' = [approved |-> approved, winner |-> "pro", named |-> named]
                /\ \/ Take(0, "human_judge")
                   \/ Verdict(CriticStep(shared, approved), approved, "pro", 2)
          BY <4>1 DEF JudgeDecides
        <5>2. Verdict(CriticStep(shared, approved), approved, "pro", 2)
          BY <1>3, <5>1 DEF Take
        <5>3. CriticStep(shared, approved) \in Shared
          BY AgentsStill DEF Still, Inv, Typed, TypeOK
        <5>4. "pro" \in Side /\ ruling'.winner = "pro"
          BY <5>1 DEF Side
        <5>. QED  BY <5>2, <5>3, <5>4
      <4>2. CASE HumanJudges
        <5>1. PICK winner \in Side :
                /\ ruling' = [approved |-> ApprovedByHuman, winner |-> winner, named |-> winner]
                /\ Verdict(shared, ApprovedByHuman, winner, IF setup.human = "both" THEN 1 ELSE 2)
          BY <4>2 DEF HumanJudges
        <5>2. ApprovedByHuman \in BOOLEAN /\ shared \in Shared
          BY DEF ApprovedByHuman, Inv, Typed, TypeOK
        <5>3. ruling'.winner = winner /\ (IF setup.human = "both" THEN 1 ELSE 2) \in {1, 2}
          BY <5>1
        <5>. QED  BY <5>1, <5>2, <5>3
      <4>. QED  BY <2>4, <4>1, <4>2
    <3>2. "judge_decided" \in shared'.signals => answer' = Latest(winner, drafts)
      BY <3>1, VerdictEnds
    <3>3. drafts' = drafts
      BY <2>4 DEF JudgeDecides, HumanJudges
    <3>. QED  BY <2>1, <2>4, <3>1, <3>2, <3>3 DEF SuccessIsFresh, Latest, Incomplete
  <2>5. CASE setup.topology = "hierarchical" /\ Finalizes
    BY <2>1, <2>5 DEF Finalizes, SuccessIsFresh, Latest, Incomplete
  <2>. QED  BY <1>3, <2>2, <2>3, <2>4, <2>5, EndsBy
<1>. QED  BY <1>1, <1>2, <1>3

(* A star and a debate that end by their own criterion, and a chain and a  *)
(* hierarchical run however they end, return the last draft of the author  *)
(* their answer comes from, never an earlier one.                          *)
THEOREM SoloSuccessIsFresh == Spec => []SuccessIsFresh
<1>1. Init => Inv /\ ChainFresh /\ SuccessIsFresh
  <2>1. Init => node \notin {"END", "reviewer"}
    BY DEF Init, Start
  <2>. QED  BY <2>1, StartTyped, ControlStart DEF Inv, ChainFresh, SuccessIsFresh
<1>2. Inv /\ ChainFresh /\ SuccessIsFresh /\ [Next]_vars => (Inv /\ ChainFresh /\ SuccessIsFresh)'
  BY SoloTypes, ControlStep, ChainFreshStep, FreshStep DEF Inv
<1>. QED  BY <1>1, <1>2, PTL DEF Spec

LEMMA LastWordStep == Inv /\ HumanHasTheLastWord /\ [Next]_vars => HumanHasTheLastWord'
<1>. SUFFICES ASSUME Inv, HumanHasTheLastWord, [Next]_vars PROVE HumanHasTheLastWord'
  OBVIOUS
<1>1. CASE UNCHANGED vars
  BY <1>1 DEF HumanHasTheLastWord, vars, work, human
<1>2. CASE Next /\ ~(node' = "END" /\ setup.human \in {"judge", "both"})
  <2>1. node' = "END" => setup' = setup
    BY <1>2, EndsBy
  <2>. QED  BY <1>2, <2>1 DEF HumanHasTheLastWord
<1>3. CASE Next /\ node' = "END" /\ setup.human \in {"judge", "both"}
  <2>1. setup' = setup
    BY <1>3, EndsBy
  <2>2. setup.topology = "debate"
    BY <1>3 DEF Inv, Typed, TypeOK, Setups, Parts
  <2>3. CASE JudgeDecides
    <3>1. node = "judge" /\ setup.human = "both"
      BY <1>3, <2>2, <2>3 DEF JudgeDecides, Inv, Control, Placed, Ended
    <3>2. node' = "human_judge"
      BY <2>3, <3>1 DEF JudgeDecides, Take
    <3>. QED  BY <1>3, <3>2
  <2>4. CASE HumanJudges
    <3>1. PICK winner \in Side :
            Verdict(shared, ApprovedByHuman, winner, IF setup.human = "both" THEN 1 ELSE 2)
      BY <2>4 DEF HumanJudges
    <3>2. ApprovedByHuman \in BOOLEAN /\ shared \in Shared
      BY DEF ApprovedByHuman, Inv, Typed, TypeOK
    <3>3. "judge_decided" \in shared'.signals <=> ApprovedByHuman
      BY <3>1, <3>2, VerdictEnds
    <3>. QED  BY <3>3 DEF HumanHasTheLastWord, ApprovedByHuman
  <2>. QED  BY <1>3, <2>2, <2>3, <2>4, EndsBy
<1>. QED  BY <1>1, <1>2, <1>3

(* A debate with a human judge ends decided exactly if the human's last    *)
(* answer is an approval.                                                  *)
THEOREM SoloHumanHasTheLastWord == Spec => []HumanHasTheLastWord
<1>1. Init => Inv /\ HumanHasTheLastWord
  <2>1. Init => node # "END"
    BY DEF Init, Start
  <2>. QED  BY <2>1, StartTyped, ControlStart DEF Inv, HumanHasTheLastWord
<1>2. Inv /\ HumanHasTheLastWord /\ [Next]_vars => (Inv /\ HumanHasTheLastWord)'
  BY SoloTypes, ControlStep, LastWordStep DEF Inv
<1>. QED  BY <1>1, <1>2, PTL DEF Spec

-----------------------------------------------------------------------------
(* Votes of requests nobody answered in time.                              *)

Silent(m) == m.kind = "vote" /\ m.vote \in Nat

\* Each names a round of its own, up to r.
Apart(b, r) ==
  \A i \in DOMAIN b : Silent(b[i]) =>
    /\ b[i].vote <= r
    /\ \A j \in DOMAIN b : Silent(b[j]) /\ b[j].vote = b[i].vote => i = j

LEMMA ApartLast ==
  ASSUME NEW b \in Seq(BusMessage), NEW n \in Nat \ {0}, NEW r \in Nat, Apart(b, r)
  PROVE  Apart(LastOf(b, n), r)
<1>. DEFINE c == LastOf(b, n)
<1>1. PICK off \in Nat : \A i \in DOMAIN c : i + off \in DOMAIN b /\ c[i] = b[i + off]
  BY LastOfEffect
<1>2. \A i \in DOMAIN c : i \in Nat
  <2>1. c \in Seq(BusMessage)
    BY LastOfEffect
  <2>. HIDE DEF c
  <2>. QED  BY <2>1, LenProperties
<1>. HIDE DEF c
<1>3. ASSUME NEW i \in DOMAIN c, Silent(c[i]) PROVE c[i].vote <= r
  BY <1>1, <1>3 DEF Apart
<1>4. ASSUME NEW i \in DOMAIN c, NEW j \in DOMAIN c, Silent(c[i]), Silent(c[j]), c[j].vote = c[i].vote
      PROVE  i = j
  <2>1. i + off = j + off
    BY <1>1, <1>4 DEF Apart
  <2>. QED  BY <1>2, <2>1
<1>5. Apart(c, r)
  BY <1>3, <1>4 DEF Apart
<1>. QED  BY <1>5 DEF c

LEMMA ApartConcat ==
  ASSUME NEW b \in Seq(BusMessage), NEW c \in Seq(BusMessage), NEW r \in Nat, Apart(b, r),
         \A i \in 1 .. Len(c) : ~Silent(c[i])
  PROVE  Apart(b \o c, r)
<1>. DEFINE d == b \o c
<1>1. Len(b) \in Nat /\ Len(c) \in Nat /\ DOMAIN b = 1 .. Len(b)
  BY LenProperties
<1>2. /\ d \in Seq(BusMessage) /\ Len(d) = Len(b) + Len(c)
      /\ \A i \in 1 .. Len(d) : d[i] = IF i <= Len(b) THEN b[i] ELSE c[i - Len(b)]
  BY ConcatProperties
<1>3. DOMAIN d = 1 .. Len(d)
  BY <1>2, LenProperties
<1>. HIDE DEF d
<1>4. ASSUME NEW i \in DOMAIN d, Silent(d[i]) PROVE i \in DOMAIN b /\ d[i] = b[i]
  <2>1. CASE i <= Len(b)
    BY <1>1, <1>2, <1>3, <2>1
  <2>2. CASE ~(i <= Len(b))
    <3>1. i - Len(b) \in 1 .. Len(c) /\ d[i] = c[i - Len(b)]
      BY <1>1, <1>2, <1>3, <2>2
    <3>. QED  BY <1>4, <3>1
  <2>. QED  BY <2>1, <2>2
<1>5. Apart(d, r)
  BY <1>4 DEF Apart
<1>. QED  BY <1>5 DEF d

LEMMA ApartAppend ==
  ASSUME NEW b \in Seq(BusMessage), NEW m \in BusMessage, NEW r \in Nat, Apart(b, r),
         Silent(m) => m.vote = r + 1
  PROVE  Apart(Append(b, m), r + 1)
<1>. DEFINE d == Append(b, m)
            n == Len(b) + 1
<1>1. n \in Nat /\ DOMAIN b = 1 .. n - 1
  BY LenProperties
<1>2. DOMAIN d = 1 .. n /\ d[n] = m /\ \A i \in 1 .. n - 1 : d[i] = b[i]
  <2>1. d \in Seq(BusMessage) /\ Len(d) = n
    BY LenProperties
  <2>2. DOMAIN d = 1 .. n
    BY <2>1, LenProperties
  <2>3. d[n] = m /\ \A i \in 1 .. Len(b) : d[i] = b[i]
    BY LenProperties
  <2>. QED  BY <1>1, <2>2, <2>3
<1>. HIDE DEF d, n
<1>3. ASSUME NEW i \in DOMAIN d, Silent(d[i]), i # n
      PROVE  i \in DOMAIN b /\ d[i] = b[i] /\ d[i].vote \in Nat /\ d[i].vote <= r
  <2>1. i \in DOMAIN b /\ d[i] = b[i]
    BY <1>1, <1>2, <1>3
  <2>. QED  BY <1>3, <2>1 DEF Apart, Silent
<1>4. ASSUME NEW i \in DOMAIN d, Silent(d[i]) PROVE d[i].vote <= r + 1
  <2>1. CASE i = n
    BY <1>2, <1>4, <2>1
  <2>2. CASE i # n
    BY <1>3, <1>4, <2>2
  <2>. QED  BY <2>1, <2>2
<1>5. ASSUME NEW i \in DOMAIN d, NEW j \in DOMAIN d, Silent(d[i]), Silent(d[j]), d[j].vote = d[i].vote
      PROVE  i = j
  <2>1. CASE i = n /\ j = n
    BY <2>1
  <2>2. CASE i # n /\ j # n
    BY <1>3, <1>5, <2>2 DEF Apart
  <2>3. CASE i = n /\ j # n
    <3>1. d[j].vote \in Nat /\ d[j].vote <= r /\ d[i].vote = r + 1
      BY <1>2, <1>3, <1>5, <2>3
    <3>. QED  BY <1>5, <3>1
  <2>4. CASE i # n /\ j = n
    <3>1. d[i].vote \in Nat /\ d[i].vote <= r /\ d[j].vote = r + 1
      BY <1>2, <1>3, <1>5, <2>4
    <3>. QED  BY <1>5, <3>1
  <2>. QED  BY <2>1, <2>2, <2>3, <2>4
<1>6. Apart(d, r + 1)
  BY <1>4, <1>5 DEF Apart
<1>. QED  BY <1>6 DEF d

LEMMA ApartMore ==
  ASSUME NEW b, NEW r \in Nat, Apart(b, r) PROVE Apart(b, r + 1)
BY DEF Apart, Silent

\* One vote is no majority.
LEMMA ApartLoses ==
  ASSUME NEW b \in Seq(BusMessage), NEW r \in Nat, Apart(b, r), Threshold > 1
  PROVE  Winners(b) \subseteq Candidate
<1>. SUFFICES ASSUME NEW v \in Winners(b) PROVE v \in Candidate
  OBVIOUS
<1>1. v \in Vote /\ Votes(b, v) >= Threshold
  BY WinnersType DEF Winners
<1>2. ASSUME v \in Nat PROVE FALSE
  <2>. DEFINE S == {i \in DOMAIN b : b[i].kind = "vote" /\ b[i].vote = v}
  <2>1. \A i, j \in S : i = j
    BY <1>2 DEF Apart, Silent
  <2>2. IsFiniteSet(S) /\ Cardinality(S) <= 1 /\ Cardinality(S) \in Nat
    <3>. HIDE DEF S
    <3>1. CASE S = {}
      <4>1. IsFiniteSet(S) /\ Cardinality(S) = 0
        BY <3>1, FS_EmptySet
      <4>. QED  BY <4>1
    <3>2. CASE S # {}
      <4>0. PICK k \in S : TRUE
        BY <3>2
      <4>1. S = {k}
        BY <2>1, <4>0
      <4>2. IsFiniteSet(S) /\ Cardinality(S) = 1
        BY <4>1, FS_Singleton
      <4>. QED  BY <4>2
    <3>. QED  BY <3>1, <3>2
  <2>3. Cardinality(S) >= Threshold
    BY <1>1 DEF Votes
  <2>. QED  BY <2>2, <2>3, SoloAssumption
<1>. QED  BY <1>1, <1>2 DEF Vote

LEMMA RoundUp ==
  ASSUME NEW s \in Shared, NEW consensus \in BOOLEAN
  PROVE  MeshTally(s, consensus).mesh_dispatch_round = s.mesh_dispatch_round + 1
<1>. DEFINE n == s.mesh_dispatch_round + 1
            m == s.iter_total + 1
            f == IF consensus THEN s.signals \cup {"consensus_reached"}
                              ELSE s.signals \ {"consensus_reached"}
<1>1. MeshTally(s, consensus) = [s EXCEPT !.mesh_dispatch_round = n, !.iter_total = m, !.signals = f]
  BY DEF MeshTally
<1>. HIDE DEF n, m, f
<1>2. MeshTally(s, consensus).mesh_dispatch_round = n
  BY <1>1 DEF Shared
<1>. QED  BY <1>2 DEF n

-----------------------------------------------------------------------------
Elected(items) == \A a \in items : a.from = "vote" => a.item \in Candidate

VotesApart ==
  /\ Apart(mesh.bus, shared.mesh_dispatch_round)
  /\ setup.topology # "mesh" => mesh.bus = << >>

SilenceInv == Inv /\ VotesApart /\ SilenceNeverWins

LEMMA DraftsNoVote ==
  ASSUME NEW author \in Author, NEW d
  PROVE  Elected(Latest(author, d)) /\ Elected(Taken(author)) /\ Elected(Incomplete)
BY DEF Elected, Latest, Taken, Incomplete, Author, Side

LEMMA TallySilence ==
  ASSUME NEW s \in Shared, s.mesh_dispatch_round = shared.mesh_dispatch_round, setup' = setup,
         NEW b \in Seq(BusMessage), Apart(b, shared.mesh_dispatch_round + 1),
         NEW p, Threshold > 1 => Elected(p), Tally(s, b, p), Typed, setup.topology = "mesh"
  PROVE  VotesApart' /\ SilenceNeverWins'
<1>0. shared.mesh_dispatch_round + 1 \in Nat /\ mesh \in MeshState
  <2>1. shared.mesh_dispatch_round \in Nat
    BY DEF Typed, TypeOK, Shared
  <2>. QED  BY <2>1 DEF Typed, TypeOK, MeshState
<1>1. shared' = MeshTally(s, Winners(b) # {}) /\ mesh'.bus = b
  <2>. DEFINE q == setup.human = "peer" /\ (\E i \in DOMAIN b : b[i].kind = "vote") /\ Winners(b) = {}
  <2>1. mesh' = [mesh EXCEPT !.bus = b, !.sent = SentNow, !.pending = q]
    BY DEF Tally
  <2>. HIDE DEF q
  <2>2. mesh'.bus = b
    BY <1>0, <2>1 DEF MeshState
  <2>. QED  BY <2>2 DEF Tally
<1>2. shared'.mesh_dispatch_round = shared.mesh_dispatch_round + 1
  BY <1>1, RoundUp
<1>3. VotesApart'
  BY <1>1, <1>2 DEF VotesApart
<1>4. ASSUME Threshold > 1 PROVE Elected(answer')
  <2>1. CASE Winners(b) = {}
    BY <1>4, <2>1 DEF Tally
  <2>2. CASE Winners(b) # {}
    <3>1. answer' = {[from |-> "vote", item |-> v] : v \in Winners(b)}
      BY <2>2 DEF Tally
    <3>2. Winners(b) \subseteq Candidate
      BY <1>0, <1>4, ApartLoses
    <3>. QED  BY <3>1, <3>2 DEF Elected
  <2>. QED  BY <2>1, <2>2
<1>. QED  BY <1>3, <1>4 DEF SilenceNeverWins, Elected

LEMMA MeshSilence ==
  ASSUME SilenceInv, MeshDispatches \/ MeshWorks \/ PeerVotes
  PROVE  VotesApart' /\ SilenceNeverWins'
<1>. USE DEF SilenceInv, Inv
<1>0. /\ mesh \in MeshState /\ shared \in Shared /\ drafts \in [Author -> Nat]
      /\ shared.mesh_dispatch_round \in Nat /\ "executor" \in Author /\ mesh.bus \in Seq(BusMessage)
      /\ Threshold > 1 => Elected(answer)
  BY DEF Typed, TypeOK, MeshState, Author, Shared, SilenceNeverWins, Elected
<1>1. setup.topology = "mesh" /\ setup' = setup
  <2>1. node \in {"dispatcher", "agent", "peer"} /\ setup' = setup
    BY DEF MeshDispatches, MeshWorks, PeerVotes
  <2>. QED  BY <2>1 DEF Control, Placed, Ended
<1>2. Apart(mesh.bus, shared.mesh_dispatch_round)
  BY DEF VotesApart
<1>3. CASE MeshDispatches
  <2>1. /\ UNCHANGED <<shared, answer>>
        /\ \E t : mesh' = [mesh EXCEPT !.active = Pick(t), !.turn = (t + 1) % Len(Order)]
    BY <1>3 DEF MeshDispatches
  <2>2. mesh'.bus = mesh.bus
    BY <1>0, <2>1 DEF MeshState
  <2>. QED  BY <1>1, <1>2, <2>1, <2>2 DEF VotesApart, SilenceNeverWins
<1>4. CASE MeshWorks
  <2>. DEFINE m == [kind |-> IF mesh.active = "critic" THEN "verdict" ELSE "draft", vote |-> 0]
              c == Times(mesh.sent[mesh.active] + 1, m)
              d == mesh.bus \o c
              b == LastOf(d, BusCap)
              p == IF answer = {} /\ drafts'["executor"] > 0 THEN Latest("executor", drafts') ELSE answer
  <2>1. mesh.active \in Agent /\ mesh.sent[mesh.active] + 1 \in Nat
    BY <1>0, <1>4 DEF MeshWorks, MeshState, Typed
  <2>2. PICK s \in AgentStep(mesh.active, shared) : Tally(s, b, p)
    BY <1>4 DEF MeshWorks
  <2>3. m \in BusMessage /\ ~Silent(m)
    BY DEF BusMessage, Vote, Silent
  <2>. HIDE DEF m
  <2>4. c \in Seq(BusMessage) /\ \A i \in 1 .. Len(c) : ~Silent(c[i])
    BY <2>1, <2>3, TimesEffect
  <2>. HIDE DEF c
  <2>5. d \in Seq(BusMessage) /\ Apart(d, shared.mesh_dispatch_round)
    BY <1>0, <1>2, <2>4, ApartConcat, ConcatProperties
  <2>. HIDE DEF d
  <2>6. b \in Seq(BusMessage) /\ Apart(b, shared.mesh_dispatch_round + 1)
    <3>1. b \in Seq(BusMessage)
      BY <2>5, LastOfEffect, SoloAssumption
    <3>2. Apart(b, shared.mesh_dispatch_round)
      BY <1>0, <2>5, ApartLast, SoloAssumption
    <3>. QED  BY <1>0, <3>1, <3>2, ApartMore
  <2>7. Threshold > 1 => Elected(p)
    BY <1>0, DraftsNoVote
  <2>8. s \in Shared /\ s.mesh_dispatch_round = shared.mesh_dispatch_round
    BY <1>0, <2>2, AgentStepStill DEF Still
  <2>. HIDE DEF b, p
  <2>. QED  BY <1>1, <2>2, <2>6, <2>7, <2>8, TallySilence
<1>5. CASE PeerVotes
  <2>1. PICK choice \in Candidate :
          Tally(shared, LastOf(Append(mesh.bus, [kind |-> "vote", vote |-> Ballot(reply', choice)]), BusCap),
                Provisional)
    BY <1>5 DEF PeerVotes
  <2>. DEFINE m == [kind |-> "vote", vote |-> Ballot(reply', choice)]
              d == Append(mesh.bus, m)
              b == LastOf(d, BusCap)
  <2>2. m \in BusMessage /\ (Silent(m) => m.vote = shared.mesh_dispatch_round + 1)
    <3>1. \/ Ballot(reply', choice) = choice
          \/ Ballot(reply', choice) = shared.mesh_dispatch_round + 1
      BY DEF Ballot
    <3>2. choice \notin Nat /\ shared.mesh_dispatch_round + 1 \in Nat
      BY <1>0, SoloAssumption
    <3>. QED  BY <3>1, <3>2 DEF BusMessage, Vote, Silent
  <2>3. Tally(shared, b, Provisional)
    BY <2>1
  <2>. HIDE DEF m
  <2>4. d \in Seq(BusMessage) /\ Apart(d, shared.mesh_dispatch_round + 1)
    BY <1>0, <1>2, <2>2, ApartAppend
  <2>. HIDE DEF d
  <2>5. b \in Seq(BusMessage) /\ Apart(b, shared.mesh_dispatch_round + 1)
    <3>1. shared.mesh_dispatch_round + 1 \in Nat
      BY <1>0
    <3>. QED  BY <2>4, <3>1, ApartLast, LastOfEffect, SoloAssumption
  <2>. HIDE DEF b
  <2>6. Threshold > 1 => Elected(Provisional)
    BY <1>0, DraftsNoVote DEF Provisional
  <2>. QED  BY <1>0, <1>1, <2>3, <2>5, <2>6, TallySilence
<1>. QED  BY <1>3, <1>4, <1>5

LEMMA OthersSilence ==
  ASSUME SilenceInv, Step, ~MeshDispatches, ~MeshWorks, ~PeerVotes
  PROVE  VotesApart' /\ SilenceNeverWins'
<1>. USE DEF SilenceInv, Inv
<1>0. (Threshold > 1 => Elected(answer)) /\ {"executor", "team_a", "team_b"} \cup Side \subseteq Author
  BY DEF SilenceNeverWins, Elected, Author
<1>1. mesh' = mesh /\ setup' = setup
  BY DEF Step, ChainPlans, ChainWorks, StarCoordinates, StarWorks, Review, DebateOpens, DebatersArgue,
         JudgeDecides, HumanJudges, TopCoordinates, SubReview, TeamAWorks, TeamBWorks, Finalizes, work
<1>2. setup.topology # "mesh"
  <2>1. node \notin Ended \cup {"dispatcher", "agent", "peer"}
    BY DEF Step, ChainPlans, ChainWorks, StarCoordinates, StarWorks, Review, DebateOpens, DebatersArgue,
           JudgeDecides, HumanJudges, TopCoordinates, SubReview, TeamAWorks, TeamBWorks, Finalizes, Ended
  <2>. QED  BY <2>1 DEF Control, Placed, Ended
<1>3. VotesApart'
  <2>1. mesh.bus = << >> /\ DOMAIN << >> = {}
    BY <1>2 DEF VotesApart
  <2>. QED  BY <1>1, <2>1 DEF VotesApart, Apart
<1>4. Threshold > 1 => Elected(answer')
  <2>1. CASE ChainWorks
    <3>1. answer' = Latest("executor", drafts') \/ answer' = Incomplete
      BY <2>1 DEF ChainWorks, ChainAnswer
    <3>. QED  BY <1>0, <3>1, DraftsNoVote
  <2>2. CASE StarCoordinates
    <3>1. answer' \in {Latest("executor", drafts), Taken("executor"), answer}
      BY <2>2 DEF StarCoordinates, StarAnswer, Provisional
    <3>. QED  BY <1>0, <3>1, DraftsNoVote
  <2>3. CASE JudgeDecides \/ HumanJudges
    <3>1. \/ answer' = answer
          \/ \E approved \in BOOLEAN, winner \in Side : answer' \in VerdictAnswer(approved, winner)
      <4>1. CASE JudgeDecides
        <5>1. "pro" \in Side
          BY DEF Side
        <5>. QED  BY <4>1, <5>1 DEF JudgeDecides, Verdict
      <4>2. CASE HumanJudges
        <5>1. ApprovedByHuman \in BOOLEAN
          BY DEF ApprovedByHuman
        <5>. QED  BY <4>2, <5>1 DEF HumanJudges, Verdict
      <4>. QED  BY <2>3, <4>1, <4>2
    <3>2. answer' = answer \/ \E side \in Side : answer' = Latest(side, drafts)
      BY <3>1 DEF VerdictAnswer, Fallback
    <3>. QED  BY <1>0, <3>2, DraftsNoVote
  <2>4. CASE Finalizes
    <3>1. answer' = Latest("team_a", drafts) \cup Latest("team_b", drafts)
      BY <2>4 DEF Finalizes
    <3>. QED  BY <1>0, <3>1, DraftsNoVote DEF Elected
  <2>5. CASE \/ ChainPlans \/ StarWorks \/ Review \/ DebateOpens \/ DebatersArgue
             \/ TopCoordinates \/ SubReview \/ TeamAWorks \/ TeamBWorks
    <3>1. answer' = answer
      BY <2>5 DEF ChainPlans, StarWorks, Review, DebateOpens, DebatersArgue, TopCoordinates, SubReview,
                  TeamAWorks, TeamBWorks, work
    <3>. QED  BY <1>0, <3>1
  <2>. QED  BY <2>1, <2>2, <2>3, <2>4, <2>5 DEF Step
<1>. QED  BY <1>3, <1>4 DEF SilenceNeverWins, Elected

LEMMA SilenceStep == SilenceInv /\ [Next]_vars => SilenceInv'
<1>. SUFFICES ASSUME SilenceInv, [Next]_vars PROVE SilenceInv'
  OBVIOUS
<1>1. Inv'
  BY SoloTypes, ControlStep DEF SilenceInv, Inv
<1>2. CASE UNCHANGED vars
  BY <1>1, <1>2 DEF SilenceInv, VotesApart, SilenceNeverWins, vars, work, human
<1>3. CASE Step
  BY <1>1, <1>3, MeshSilence, OthersSilence DEF SilenceInv
<1>4. CASE Raises
  BY <1>1, <1>4 DEF Raises, SilenceInv, VotesApart, SilenceNeverWins, work, human
<1>. QED  BY <1>2, <1>3, <1>4 DEF Next

(* Votes of timed-out requests never elect an answer as soon as more than  *)
(* one vote is needed: each names a round of its own (Apart).              *)
THEOREM SoloSilenceNeverWins == Spec => []SilenceNeverWins
<1>1. Init => SilenceInv
  <2>1. Init => mesh.bus = << >> /\ answer = {}
    BY DEF Init
  <2>. QED  BY <2>1, StartTyped, ControlStart DEF SilenceInv, Inv, VotesApart, Apart, SilenceNeverWins
<1>2. SilenceInv => SilenceNeverWins
  BY DEF SilenceInv
<1>. QED  BY <1>1, <1>2, SilenceStep, PTL DEF Spec
=============================================================================
