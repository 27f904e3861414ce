-------------------------------- MODULE Solo --------------------------------
(***************************************************************************)
(* A run of one topology on its own, as run_one builds it: with a human    *)
(* reviewer, peer or judge where the configuration asks for one. The       *)
(* compiled graph runs one node after the other (the two debaters          *)
(* together); a node is the code between two of its routing functions, and *)
(* `steps` counts the supersteps LangGraph holds against its recursion     *)
(* limit.                                                                  *)
(*                                                                         *)
(* A draft is known by its author and its number; replies without text     *)
(* leave no draft. Files an agent writes are not told apart from drafts.   *)
(* What a reviewer says is written to human_approved, needs_rerun and the  *)
(* messages, which no route reads.                                         *)
(***************************************************************************)
EXTENDS Chain, Star, Mesh, Debate, Hierarchical, FiniteSets

CONSTANTS
  Candidate,            \* what a human peer can vote for
  Threshold,            \* extras["consensus_threshold"]
  ActivationRound,      \* human.extra["activation_round"]
  BusCap                \* extras["broadcast_bus_cap"]

ASSUME SoloAssumption ==
  /\ Candidate \cap Nat = {}
  /\ {Threshold, ActivationRound} \subseteq Nat /\ BusCap \in Nat \ {0}
  /\ \A i \in DOMAIN MeshOrder : MeshOrder[i] # "human_peer"

VARIABLES
  setup,      \* topology, the human's part in it; mesh's activation policy and on_consensus_pending
  node,       \* the next node
  shared,     \* state["shared"]
  drafts,     \* the number of each author's last draft, 0 if none
  answer,     \* shared["final_answer"]: the drafts or the vote it was taken from
  mesh,       \* mesh: the turn, the active agent, the bus, what each agent sent, consensus_pending
  ruling,     \* debate: the last DECISION in the judge's outbox, and the side an LLM judge named
  reply,      \* the last answer of the human
  asked,      \* the ids of the requests to the human
  steps       \* supersteps

work == <<drafts, answer, mesh, ruling>>
human == <<reply, asked>>
vars == <<setup, node, shared, work, human, steps>>

Parts(topologies, parts, policies) ==
  [topology : topologies, human : parts, priority : policies, waits : policies]

Setups ==
  Parts({"chain", "star"}, {"off", "reviewer"}, {FALSE})
  \cup Parts({"mesh"}, {"off", "peer"}, BOOLEAN)
  \cup Parts({"debate"}, {"off", "judge", "both"}, {FALSE})
  \cup Parts({"hierarchical"}, {"off", "top", "sub_team"}, {FALSE})

Ended == {"END", "failed"}

Node ==
  {"planner", "executor", "reviewer", "coordinator", "worker", "dispatcher", "agent", "peer",
   "debaters", "judge", "human_judge", "top_coord", "ask_a", "ask_b", "team_a", "team_b",
   "finalize"} \cup Ended

Side == {"pro", "contra"}
Author == {"executor", "team_a", "team_b"} \cup Side
Agent == {"planner", "researcher", "executor", "critic"}

\* A timed-out vote is known by the round of its request, whose id is in its text.
Vote == Candidate \cup Nat
BusMessage == [kind : {"draft", "verdict", "vote"}, vote : Vote]

\* Who asks the human; a hierarchical run also names the scope.
Asker == {"reviewer", "top", "team_a", "team_b", "peer", "judge"}

Reply == {"none", "approve", "reject", "abstain", "other", "timeout"}

TypeOK ==
  /\ setup \in Setups /\ node \in Node /\ shared \in Shared
  /\ drafts \in [Author -> Nat]
  /\ answer \subseteq [from : Author \cup {"vote", "incomplete"}, item : Vote]
  /\ mesh \in [turn : Nat, active : Agent \cup {"human_peer"}, bus : Seq(BusMessage),
               sent : [Agent -> Nat], pending : BOOLEAN]
  /\ ruling \in [approved : BOOLEAN, winner : Side, named : Side]
  /\ reply \in Reply
  /\ asked \in Seq([who : Asker, iter_total : Nat, round : Nat])
  /\ steps \in Nat

Taken(author) == {[from |-> author, item |-> drafts[author]]}
Incomplete == {[from |-> "incomplete", item |-> 0]}

\* The draft of an author an extraction finds after a step.
Latest(author, d) ==
  IF d[author] = 0 THEN Incomplete ELSE {[from |-> author, item |-> d[author]]}

\* Agents whose reply has text leave a draft.
Drafted(authors) == [c \in Author |-> IF c \in authors THEN drafts[c] + 1 ELSE drafts[c]]

Start(topology) ==
  CASE topology \in {"chain", "debate"} -> "planner"
    [] topology = "star" -> "coordinator"
    [] topology = "mesh" -> "dispatcher"
    [] OTHER -> "top_coord"

Init ==
  /\ setup \in Setups
  /\ node = Start(setup.topology)
  /\ shared = [InitialShared EXCEPT !.active_topology = setup.topology]
  /\ drafts = [c \in Author |-> 0]
  /\ answer = {}
  /\ mesh = [turn |-> 0, active |-> "planner", bus |-> << >>, sent |-> [c \in Agent |-> 0],
             pending |-> FALSE]
  /\ ruling = [approved |-> FALSE, winner |-> "pro", named |-> "pro"]
  /\ reply = "none" /\ asked = << >> /\ steps = 0

Take(n, next) == steps' = steps + n /\ node' = next

-----------------------------------------------------------------------------
(* A request to the human. Its id holds the counters of the moment; the    *)
(* answer may come from the timeout policy.                                *)

\* Faulty: the id holds the phase's iteration, which mesh and debate do not count.
RequestIdOfPhase(who) == [who |-> who, iter_total |-> shared.iteration, round |-> 0]

\* Faulty: the id holds the number of the last iteration.
RequestIdOfLast(who) ==
  [who |-> who, iter_total |-> shared.iter_total - 1, round |-> shared.mesh_dispatch_round]

RequestId(who) ==
  [who |-> who,
   iter_total |-> shared.iter_total,
   round |-> IF who = "peer" THEN shared.mesh_dispatch_round + 1 ELSE 0]

Ask(who, replies) ==
  /\ asked' = Append(asked, RequestId(who))
  /\ reply' \in replies

Answers == Reply \ {"none"}

-----------------------------------------------------------------------------
(* Chain: planner, then executor, critic and critic_postprocess, then the  *)
(* reviewer if there is one, then the route that counts.                   *)

ChainPlans ==
  /\ node = "planner" /\ setup.topology = "chain"
  /\ shared' = ChainEntry(shared)
  /\ Take(1, "executor")
  /\ UNCHANGED <<setup, work, human>>

ChainRoute(s, n) ==
  /\ shared' = ChainTurn(s)
  /\ Take(n, IF ChainStops(ChainTurn(s)) THEN "END" ELSE "executor")

\* The last DRAFT is the answer; if it is empty there is none. (A file the executor wrote,
\* which counts before the draft in a code task and in place of an empty one, is left out.)
ChainAnswer(full) == IF full THEN Latest("executor", drafts') ELSE Incomplete

ChainWorks ==
  /\ node = "executor"
  /\ \E w \in SUBSET ExecutorSignals, approved, full \in BOOLEAN :
       LET s == SetApproved(CriticStep(ExecutorStep(shared, w), approved), approved)
       IN /\ drafts' = Drafted(IF full THEN {"executor"} ELSE {})
          /\ answer' = ChainAnswer(full)
          /\ IF setup.human = "off" THEN ChainRoute(s, 3)
             ELSE Take(3, "reviewer") /\ shared' = [s EXCEPT !.phase = "execution"]
  /\ UNCHANGED <<setup, mesh, ruling, human>>

-----------------------------------------------------------------------------
(* Star. The first draft is a provisional answer, replaced when the        *)
(* coordinator declares the run done.                                      *)

\* An answer that is there is kept.
Provisional == IF answer = {} /\ drafts["executor"] > 0 THEN Taken("executor") ELSE answer

\* Faulty: a provisional answer is kept when the run is done.
StarAnswerKept(s) ==
  IF s.phase = "done" /\ shared.phase # "done" /\ answer = {} THEN Latest("executor", drafts)
  ELSE Provisional

StarAnswer(s) ==
  IF s.phase = "done" /\ shared.phase # "done" THEN Latest("executor", drafts) ELSE Provisional

StarCoordinates ==
  /\ node = "coordinator"
  /\ shared' = StarCoordinator(shared)
  /\ answer' = StarAnswer(shared')
  /\ Take(1, IF StarStops(shared') THEN "END" ELSE "worker")
  /\ UNCHANGED <<setup, drafts, mesh, ruling, human>>

StarWorks ==
  /\ node = "worker"
  /\ shared' \in StarWorker(shared)
  /\ \E full \in BOOLEAN :
       drafts' = Drafted(IF full /\ shared.phase = "execution" THEN {"executor"} ELSE {})
  /\ IF shared.phase = "verification"
     THEN Take(2, IF setup.human = "off" THEN "coordinator" ELSE "reviewer")
     ELSE Take(1, "coordinator")
  /\ UNCHANGED <<setup, answer, mesh, ruling, human>>

\* The human reviewer of chain, star and hierarchical (scope "top").
Review ==
  /\ node = "reviewer"
  /\ Ask(IF setup.topology = "hierarchical" THEN "top" ELSE "reviewer", Answers)
  /\ CASE setup.topology = "chain" -> ChainRoute(shared, 1)
       [] setup.topology = "star" -> Take(1, "coordinator") /\ UNCHANGED shared
       [] OTHER -> Take(1, "finalize") /\ UNCHANGED shared
  /\ UNCHANGED <<setup, work>>

-----------------------------------------------------------------------------
(* Mesh: dispatcher, then an agent or the human, then broadcast and tally. *)

Order == MeshOrder \o (IF setup.human = "peer" THEN <<"human_peer">> ELSE << >>)

OnBus(kind) == \E i \in DOMAIN mesh.bus : mesh.bus[i].kind = kind

\* Under the policy "priority" the critic acts as soon as a draft is on the bus.
Pick(turn) ==
  IF setup.priority /\ OnBus("draft") /\ \E i \in DOMAIN Order : Order[i] = "critic"
  THEN "critic"
  ELSE Order[(turn % Len(Order)) + 1]

Skipped(agent) ==
  /\ agent = "human_peer"
  /\ \/ shared.mesh_dispatch_round < ActivationRound
     \/ setup.waits /\ ~mesh.pending

\* Faulty: a human whose turn it is not yet gets no substitute.
TurnOfNobody == {t \in {mesh.turn} : ~Skipped(Pick(t))}

\* The next turn, or the one after a human's that is skipped.
TurnTaken == IF Skipped(Pick(mesh.turn)) THEN {mesh.turn + 1} ELSE {mesh.turn}

MeshDispatches ==
  /\ node = "dispatcher"
  /\ \E t \in TurnTaken :
       /\ mesh' = [mesh EXCEPT !.active = Pick(t), !.turn = (t + 1) % Len(Order)]
       /\ Take(1, IF Pick(t) = "human_peer" THEN "peer" ELSE "agent")
  /\ UNCHANGED <<setup, shared, drafts, answer, ruling, human>>

Times(n, m) == [i \in 1 .. n |-> m]

LastOf(b, n) == IF Len(b) > n THEN SubSeq(b, Len(b) - n + 1, Len(b)) ELSE b

Votes(bus, v) == Cardinality({i \in DOMAIN bus : bus[i].kind = "vote" /\ bus[i].vote = v})

\* Candidates that reached the threshold. The run ends with the first, so there is one at most.
Winners(bus) ==
  {v \in {bus[i].vote : i \in {j \in DOMAIN bus : bus[j].kind = "vote"}} :
     Votes(bus, v) >= Threshold}

\* The step of an agent adds a message to its outbox; the human peer has none.
SentNow ==
  IF mesh.active = "human_peer" THEN mesh.sent
  ELSE [mesh.sent EXCEPT ![mesh.active] = @ + 1]

\* mesh_postprocess_node, after the shared state s and the bus b.
Tally(s, bus, provisional) ==
  LET winners == Winners(bus)
      voted == \E i \in DOMAIN bus : bus[i].kind = "vote"
      t == MeshTally(s, winners # {})
  IN /\ shared' = t
     /\ answer' = IF winners = {} THEN provisional
                  ELSE {[from |-> "vote", item |-> v] : v \in winners}
     /\ mesh' = [mesh EXCEPT
          !.bus = bus,
          !.sent = SentNow,
          !.pending = setup.human = "peer" /\ voted /\ winners = {}]
     /\ Take(3, IF MeshStops(t) THEN "END" ELSE "dispatcher")

\* The whole outbox of the agent goes to the bus again, each time it acts. The critic's
\* verdicts name nobody, so they are no votes.
MeshWorks ==
  /\ node = "agent"
  /\ \E s \in AgentStep(mesh.active, shared), full \in BOOLEAN :
       LET m == [kind |-> IF mesh.active = "critic" THEN "verdict" ELSE "draft", vote |-> 0]
       IN /\ drafts' = Drafted(IF full /\ mesh.active = "executor" THEN {"executor"} ELSE {})
          /\ Tally(s, LastOf(mesh.bus \o Times(mesh.sent[mesh.active] + 1, m), BusCap),
                   IF answer = {} /\ drafts'["executor"] > 0 THEN Latest("executor", drafts')
                   ELSE answer)
  /\ UNCHANGED <<setup, ruling, human>>

\* Faulty: a human who does not answer in time votes for "timeout".
BallotOfAction(action, choice) == IF action = "timeout" THEN 0 ELSE choice

\* The vote is the payload's, else the comment, else the action. The comment of a timed-out
\* request holds the id of the request.
Ballot(action, choice) ==
  IF action = "timeout" THEN shared.mesh_dispatch_round + 1 ELSE choice

PeerVotes ==
  /\ node = "peer"
  /\ Ask("peer", Answers)
  /\ \E choice \in Candidate :
       Tally(shared, LastOf(Append(mesh.bus, [kind |-> "vote", vote |-> Ballot(reply', choice)]),
                            BusCap),
             Provisional)
  /\ UNCHANGED <<setup, drafts, ruling>>

-----------------------------------------------------------------------------
(* Debate: planner, then rounds of both debaters and a judge.              *)

DebateOpens ==
  /\ node = "planner" /\ setup.topology = "debate"
  /\ shared' = DebateOpening(shared)
  /\ Take(1, "debaters")
  /\ UNCHANGED <<setup, work, human>>

DebatersArgue ==
  /\ node = "debaters"
  /\ \E full \in SUBSET Side : drafts' = Drafted(full)
  /\ Take(1, IF setup.human = "judge" THEN "human_judge" ELSE "judge")
  /\ UNCHANGED <<setup, shared, answer, mesh, ruling, human>>

\* The longer of the two drafts of a round without a winner.
Fallback == {Latest(c, drafts) : c \in {d \in Side : drafts[d] > 0 \/ \A e \in Side : drafts[e] = 0}}

\* Faulty: an approval does not replace the answer of an earlier round.
VerdictAnswerKept(approved, winner) ==
  IF answer # {} THEN {answer} ELSE IF approved THEN {Latest(winner, drafts)} ELSE Fallback

\* The winner's draft; without a winner an answer that is there is kept.
VerdictAnswer(approved, winner) ==
  IF approved THEN {Latest(winner, drafts)} ELSE IF answer # {} THEN {answer} ELSE Fallback

\* _judge_postprocess and the route; a further round starts with a node of its own.
Verdict(s, approved, winner, n) ==
  LET t == DebateVerdict(s, approved)
  IN /\ shared' = t
     /\ answer' \in VerdictAnswer(approved, winner)
     /\ IF DebateStops(t) THEN Take(n, "END") ELSE Take(n + 1, "debaters")

\* The LLM judge is a Critic: its payload has no winner, whichever side its text names, and
\* the winner of an approval without one is "pro". Beside a human ("both") its DECISION goes
\* into the question and its signals are dropped.
JudgeDecides ==
  /\ node = "judge"
  /\ \E approved \in BOOLEAN, named \in Side :
       /\ ruling' = [approved |-> approved, winner |-> "pro", named |-> named]
       /\ IF setup.human = "both"
          THEN Take(0, "human_judge") /\ UNCHANGED <<shared, answer>>
          ELSE Verdict(CriticStep(shared, approved), approved, "pro", 2)
  /\ UNCHANGED <<setup, drafts, mesh, human>>

\* Faulty: in the mode "both" either judge may end the debate.
ApprovedByEither == reply' = "approve" \/ ruling.approved

ApprovedByHuman == reply' = "approve"

\* The human approves a side, "pro" unless the payload says otherwise; any other action,
\* the timeout included, rejects. It is the last word in both modes.
HumanJudges ==
  /\ node = "human_judge"
  /\ Ask("judge", Answers)
  /\ \E winner \in Side :
       /\ ruling' = [approved |-> ApprovedByHuman, winner |-> winner, named |-> winner]
       /\ Verdict(shared, ApprovedByHuman, winner, IF setup.human = "both" THEN 1 ELSE 2)
  /\ UNCHANGED <<setup, drafts, mesh>>

-----------------------------------------------------------------------------
(* Hierarchical: the coordinator, teams A and B in turn, then the answer.  *)

TeamNode(team) ==
  IF setup.human # "sub_team" THEN team ELSE IF team = "team_a" THEN "ask_a" ELSE "ask_b"

TopCoordinates ==
  /\ node = "top_coord"
  /\ shared' = TopCoord(shared)
  /\ LET route == TopCoordRoute(shared')
     IN Take(1, IF route = "finalize" THEN route ELSE TeamNode(route))
  /\ UNCHANGED <<setup, work, human>>

\* The reviewer inside a team (scope "sub_team"), a node of the team's own graph.
SubReview ==
  /\ node \in {"ask_a", "ask_b"}
  /\ LET team == IF node = "ask_a" THEN "team_a" ELSE "team_b"
     IN Ask(team, Answers) /\ Take(0, team)
  /\ UNCHANGED <<setup, shared, work>>

\* The workers of a team and the coordinator after it: the team has a draft once one of
\* its workers has left one.
TeamAWorks ==
  /\ node = "team_a"
  /\ \E w \in SUBSET ExecutorSignals, full \in BOOLEAN :
       /\ drafts' = Drafted(IF full THEN {"team_a"} ELSE {})
       /\ shared' = AfterTeamA(Count(ExecutorStep(shared, w)), drafts'["team_a"] > 0)
  /\ Take(2, TeamNode("team_b"))
  /\ UNCHANGED <<setup, answer, mesh, ruling, human>>

TeamBWorks ==
  /\ node = "team_b"
  /\ \E w \in SUBSET ExecutorSignals, full \in BOOLEAN :
       /\ drafts' = Drafted(IF full THEN {"team_b"} ELSE {})
       /\ shared' = AfterTeamB(Count(ExecutorStep(shared, w)), drafts'["team_b"] > 0)
  /\ Take(2, IF ~TeamBStops(shared') THEN TeamNode("team_a")
             ELSE IF setup.human = "top" THEN "reviewer" ELSE "finalize")
  /\ UNCHANGED <<setup, answer, mesh, ruling, human>>

Finalizes ==
  /\ node = "finalize"
  /\ answer' = Latest("team_a", drafts) \cup Latest("team_b", drafts)
  /\ Take(1, "END")
  /\ UNCHANGED <<setup, shared, drafts, mesh, ruling, human>>

-----------------------------------------------------------------------------
\* An agent, the budget, a gateway or the timeout policy "fail" raises.
Raises ==
  /\ node \notin Ended
  /\ Take(0, "failed")
  /\ UNCHANGED <<setup, shared, work, human>>

Step ==
  \/ ChainPlans \/ ChainWorks
  \/ StarCoordinates \/ StarWorks
  \/ Review
  \/ MeshDispatches \/ MeshWorks \/ PeerVotes
  \/ DebateOpens \/ DebatersArgue \/ JudgeDecides \/ HumanJudges
  \/ TopCoordinates \/ SubReview \/ TeamAWorks \/ TeamBWorks \/ Finalizes

Next == Step \/ Raises

Spec == Init /\ [][Next]_vars

\* LangGraph runs the next node. (A human asked at the terminal without a timeout may keep
\* silent for ever; that run waits.)
FairSpec == Spec /\ WF_vars(Step)

-----------------------------------------------------------------------------
(* Properties.                                                             *)

\* A run passes max_iterations by the one round that was under way (only debate and
\* hierarchical do not look at the limit after each count), and reaches that limit before
\* LangGraph's: run_one gives the graph four supersteps per iteration and twenty, with a
\* human in the graph or without.
WithinLimits ==
  /\ shared.iter_total <= SubMax + (IF setup.topology \in {"debate", "hierarchical"} THEN 1 ELSE 0)
  /\ steps <= 4 * SubMax + 20

\* No two requests of an execution have the same id, so no gateway answers from its cache
\* and no answer is refused by the log: every round asks the human anew.
NeverAsksTwice ==
  \A i, j \in DOMAIN asked : asked[i] = asked[j] => i = j

\* A star and a debate that end by their own criterion, and a chain and a hierarchical run
\* however they end, return the last draft of the author they took the answer from, not an
\* earlier one (a chain whose last draft is empty returns none). A mesh returns a vote.
SuccessIsFresh ==
  node = "END" =>
    /\ setup.topology = "chain" => answer \in {Latest("executor", drafts), Incomplete}
    /\ setup.topology = "star" /\ shared.phase = "done" => answer = Latest("executor", drafts)
    /\ setup.topology = "debate" /\ "judge_decided" \in shared.signals
         => answer = Latest(ruling.winner, drafts)
    /\ setup.topology = "hierarchical"
         => answer = Latest("team_a", drafts) \cup Latest("team_b", drafts)

\* Where a human judges, alone or beside the LLM, only the human's approval ends the debate
\* with a decision, and the human's rejection never does.
HumanHasTheLastWord ==
  node = "END" /\ setup.human \in {"judge", "both"} =>
    (reply = "approve" <=> "judge_decided" \in shared.signals)

\* Requests nobody answered in time do not elect an answer (unless one vote is enough).
SilenceNeverWins == Threshold > 1 => \A a \in answer : a.from = "vote" => a.item \in Candidate

\* The graph ends.
Terminates == <>(node \in Ended)

\* The answer of a decided debate is that of the side the judge named.
WinnerIsJudged ==
  node = "END" /\ setup.topology = "debate" /\ "judge_decided" \in shared.signals
    => \A a \in answer : a.from \in {ruling.named, "incomplete"}
=============================================================================
