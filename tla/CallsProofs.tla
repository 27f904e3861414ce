----------------------------- MODULE CallsProofs -----------------------------
(***************************************************************************)
(* Theorems about Calls, for any runs, agents, ceilings and limits: how    *)
(* far a run passes its ceilings, how much it pays without counting, what  *)
(* its agents' own accounts are worth, and what they remember.             *)
(***************************************************************************)
EXTENDS Calls, FiniteSetTheorems, SequenceTheorems, WellFoundedInduction, TLAPS

-----------------------------------------------------------------------------
(* The types.                                                              *)

LEMMA MergeType ==
  ASSUME NEW left \in State, NEW right \in State
  PROVE  Merge(left, right) \in State
BY DEF Merge, State, Larger, Longer

LEMMA StepStateType ==
  ASSUME TypeOK, NEW c \in Agent
  PROVE  StepState(c) \in State
BY DEF TypeOK, StepState, State

LEMMA RecordedType ==
  ASSUME NEW t \in [run : Nat, experiment : Nat], NEW cost \in Cost
  PROVE  Recorded(t, cost) \in [run : Nat, experiment : Nat]
BY CallsAssumption DEF Recorded, Cost

LEMMA ChargeType ==
  ASSUME TypeOK, NEW r \in Run, NEW cost \in Cost, Charge(r, cost)
  PROVE  /\ totals' \in [Run -> [run : Nat, experiment : Nat]]
         /\ warned' \in [Run -> SUBSET {"run", "experiment"}]
         /\ billed' \in [Run -> Nat]
<1>1. Recorded(totals[r], cost) \in [run : Nat, experiment : Nat]
  BY RecordedType DEF TypeOK
<1>2. Warnings(Recorded(totals[r], cost)) \subseteq {"run", "experiment"}
  BY DEF Warnings
<1>3. cost \in Nat
  BY CallsAssumption DEF Cost
<1>. QED  BY <1>1, <1>2, <1>3 DEF TypeOK, Charge

LEMMA TimesType ==
  ASSUME NEW n \in Nat, NEW s \in Nat
  PROVE  Times(n, s) \in Seq(Nat)
BY DEF Times

LEMMA DeltaType ==
  ASSUME TypeOK, NEW c \in Agent
  PROVE  delta[c].scratchpad \in Seq(Nat) /\ memory[c].step_count + 1 \in Nat
<1>1. delta[c] \in [scratchpad : Seq(Nat), cost : Nat] /\ memory[c] \in State
  BY DEF TypeOK
<1>. QED  BY <1>1 DEF State

LEMMA RunAndCostTypes ==
  /\ \A c \in Agent : RunOf[c] \in Run
  /\ \A cost \in Cost : cost \in Nat
  /\ {MaxCost, RunLimit, ExperimentLimit} \subseteq Nat /\ Width \in Nat \ {0}
BY CallsAssumption DEF Cost

LEMMA StepTypes ==
  ASSUME TypeOK, NEW c \in Agent, AgentStep(c)
  PROVE  TypeOK'
<1>0. RunOf[c] \in Run
  BY RunAndCostTypes
<1>1. CASE Check(c)
  <2>1. pc' \in [Agent -> {"idle", "check", "waiting", "tools", "done", "budget", "error"}]
    BY <1>1 DEF Check, TypeOK, Goto
  <2>2. refused' \in [Run -> BOOLEAN]
    <3>1. refused' = refused \/ refused' = [refused EXCEPT ![RunOf[c]] = TRUE]
      BY <1>1 DEF Check
    <3>. QED  BY <3>1 DEF TypeOK
  <2>3. UNCHANGED <<adaptive, earlier, stage, execution, turns, aborts, totals, warned, reported, billed,
                    ask, tries, rounds, delta, memory, outer>>
    BY <1>1 DEF Check
  <2>. QED  BY <2>1, <2>2, <2>3 DEF TypeOK
<1>2. CASE Transient(c)
  <2>1. /\ pc' \in [Agent -> {"idle", "check", "waiting", "tools", "done", "budget", "error"}]
        /\ tries' \in [Agent -> Nat]
    <3>1. /\ pc \in [Agent -> {"idle", "check", "waiting", "tools", "done", "budget", "error"}]
          /\ tries \in [Agent -> Nat]
      BY DEF TypeOK
    <3>2. TriesAgain(c)
      BY <1>2 DEF Transient
    <3>. QED  BY <3>1, <3>2 DEF TriesAgain, Goto
  <2>. QED  BY <1>2, <2>1 DEF Transient, TypeOK, money
<1>3. CASE Fatal(c)
  BY <1>3 DEF Fatal, TypeOK, money, Goto
<1>4. CASE AnswerSummary(c)
  BY <1>0, <1>4, ChargeType DEF AnswerSummary, TypeOK, Goto
<1>5. CASE AnswerReply(c)
  <2>1. PICK cost \in Cost :
          /\ Charge(RunOf[c], cost)
          /\ delta' = [delta EXCEPT ![c] =
               [scratchpad |-> Append(@.scratchpad, memory[c].step_count + 1), cost |-> cost]]
    BY <1>5 DEF AnswerReply
  <2>2. Append(delta[c].scratchpad, memory[c].step_count + 1) \in Seq(Nat)
    BY DeltaType
  <2>3. cost \in Nat
    BY RunAndCostTypes
  <2>4. delta' \in [Agent -> [scratchpad : Seq(Nat), cost : Nat]]
    BY <2>1, <2>2, <2>3 DEF TypeOK
  <2>5. pc' \in [Agent -> {"idle", "check", "waiting", "tools", "done", "budget", "error"}]
    BY <1>5 DEF AnswerReply, TypeOK, Goto
  <2>. QED  BY <1>0, <1>5, <2>1, <2>4, <2>5, ChargeType DEF AnswerReply, TypeOK
<1>6. CASE RunTool(c)
  <2>1. delta[c].scratchpad \o Times(2, memory[c].step_count + 1) \in Seq(Nat)
    <3>1. Times(2, memory[c].step_count + 1) \in Seq(Nat)
      BY TimesType, DeltaType
    <3>. QED  BY <3>1, DeltaType
  <2>2. delta' \in [Agent -> [scratchpad : Seq(Nat), cost : Nat]]
    BY <1>6, <2>1 DEF RunTool, TypeOK
  <2>3. pc' \in [Agent -> {"idle", "check", "waiting", "tools", "done", "budget", "error"}]
    BY <1>6 DEF RunTool, TypeOK, Goto
  <2>. QED  BY <1>6, <2>2, <2>3 DEF RunTool, TypeOK, money
<1>. QED  BY <1>1, <1>2, <1>3, <1>4, <1>5, <1>6 DEF AgentStep

LEMMA RestTypes ==
  ASSUME TypeOK, NEW r \in Run, Rest(r)
  PROVE  /\ pc' \in [Agent -> {"idle", "check", "waiting", "tools", "done", "budget", "error"}]
         /\ ask' \in [Agent -> {"summary", "reply"}]
         /\ tries' \in [Agent -> Nat] /\ rounds' \in [Agent -> Nat]
         /\ delta' \in [Agent -> [scratchpad : Seq(Nat), cost : Nat]]
BY DEF TypeOK, Rest, NoDelta

LEMMA CrewFinite ==
  ASSUME NEW r \in Run, NEW places
  PROVE  /\ IsFiniteSet(At(r, places)) /\ Cardinality(At(r, places)) \in Nat
         /\ At(r, places) \subseteq Agent
<1>1. At(r, places) \subseteq Agent
  BY DEF At, Crew
<1>. QED  BY <1>1, CallsAssumption, FS_Subset, FS_CardinalityType

LEMMA LoseType ==
  ASSUME TypeOK, NEW r \in Run, Lose(r, Waiting(r))
  PROVE  billed' \in [Run -> Nat]
<1>1. MaxCost * Cardinality(Waiting(r)) \in Nat
  BY CrewFinite, CallsAssumption DEF Waiting
<1>. QED  BY <1>1 DEF Lose, TypeOK

LEMMA ClosingType ==
  ASSUME TypeOK, NEW r \in Run, ClosingCall(r)
  PROVE  /\ totals' \in [Run -> [run : Nat, experiment : Nat]]
         /\ warned' \in [Run -> SUBSET {"run", "experiment"}]
         /\ billed' \in [Run -> Nat]
<1>1. CASE \E cost \in Cost : Charge(r, cost)
  BY <1>1, ChargeType
<1>2. CASE UNCHANGED <<totals, warned, billed>>
  BY <1>2 DEF TypeOK
<1>. QED  BY <1>1, <1>2 DEF ClosingCall

LEMMA RunTypes ==
  ASSUME TypeOK, NEW r \in Run, RunStep(r) \/ Crash(r) \/ Resume(r)
  PROVE  TypeOK'
<1>1. ASSUME NEW g \in SUBSET Agent, Begin(r, g) PROVE TypeOK'
  <2>1. pc' \in [Agent -> {"idle", "check", "waiting", "tools", "done", "budget", "error"}]
    BY <1>1 DEF Begin, TypeOK
  <2>2. ask' \in [Agent -> {"summary", "reply"}]
    <3>1. PICK s \in SUBSET {d \in g : MaySummarize(d)} :
            ask' = [d \in Agent |-> IF d \in s THEN "summary" ELSE ask[d]]
      BY <1>1 DEF Begin
    <3>2. \A d \in Agent : ask'[d] \in {"summary", "reply"}
      BY <3>1 DEF TypeOK
    <3>. QED  BY <3>1, <3>2
  <2>3. turns' \in [Run -> Nat]
    BY <1>1 DEF Begin, TypeOK
  <2>. QED  BY <1>1, <2>1, <2>2, <2>3 DEF Begin, TypeOK, money
<1>2. CASE Commit(r)
  <2>1. memory' \in [Agent -> State]
    BY <1>2, MergeType, StepStateType DEF Commit, TypeOK
  <2>. QED  BY <1>2, <2>1, RestTypes DEF Commit, TypeOK, money
<1>3. CASE Abort(r)
  <2>1. stage' \in [Run -> {"graph", "finalizing", "judging"} \cup Ended]
    <3>1. PICK c \in At(r, {"budget", "error"}) : stage' = [stage EXCEPT ![r] = StageAfter(r, pc[c])]
      BY <1>3 DEF Abort
    <3>2. pc[c] \in {"budget", "error"} /\ adaptive[r] \in BOOLEAN
      BY DEF At, TypeOK
    <3>3. StageAfter(r, pc[c]) \in {"graph"} \cup Ended
      BY <3>2 DEF StageAfter, Ended
    <3>. QED  BY <3>1, <3>3 DEF TypeOK
  <2>2. memory' \in [Agent -> State] /\ aborts' \in [Run -> Nat]
    BY <1>3 DEF Abort, TypeOK
  <2>. QED  BY <1>3, <2>1, <2>2, RestTypes, LoseType DEF Abort, TypeOK, Lose
<1>4. CASE ReturnSub(r)
  <2>1. outer' \in [Agent -> State]
    BY <1>4, MergeType DEF ReturnSub, TypeOK
  <2>2. memory' \in [Agent -> State]
    BY <1>4, <2>1 DEF ReturnSub, TypeOK
  <2>. QED  BY <1>4, <2>1, <2>2 DEF ReturnSub, TypeOK, money, agents
<1>5. CASE LeaveGraph(r)
  BY <1>5 DEF LeaveGraph, TypeOK, agents
<1>6. CASE Finalize(r)
  <2>1. totals' \in [Run -> [run : Nat, experiment : Nat]]
    BY <1>6, ClosingType DEF Finalize
  <2>2. reported' \in [Run -> Nat]
    BY <1>6, <2>1 DEF Finalize, TypeOK
  <2>. QED  BY <1>6, <2>1, <2>2, ClosingType DEF Finalize, TypeOK, agents
<1>7. CASE Judge(r)
  BY <1>7, ClosingType DEF Judge, TypeOK, agents, Ended
<1>8. CASE Crash(r)
  BY <1>8, RestTypes, LoseType DEF Crash, TypeOK, Lose, Ended
<1>9. CASE Resume(r)
  <2>1. earlier' \in [Run -> Nat] /\ totals' \in [Run -> [run : Nat, experiment : Nat]]
    <3>1. totals[r].run \in Nat /\ earlier[r] + totals[r].run \in Nat
      BY DEF TypeOK
    <3>. QED  BY <1>9, <3>1 DEF Resume, TypeOK, FreshTracker, NewTracker
  <2>2. /\ stage' \in [Run -> {"graph", "finalizing", "judging"} \cup Ended]
        /\ execution' \in [Run -> Nat] /\ aborts' \in [Run -> Nat]
        /\ warned' \in [Run -> SUBSET {"run", "experiment"}]
        /\ reported' \in [Run -> Nat] /\ billed' \in [Run -> Nat]
        /\ refused' \in [Run -> BOOLEAN]
    BY <1>9 DEF Resume, TypeOK
  <2>3. memory' \in [Agent -> State]
    BY <1>9 DEF Resume, TypeOK
  <2>. QED  BY <1>9, <2>1, <2>2, <2>3 DEF Resume, TypeOK, agents
<1>. QED  BY <1>1, <1>2, <1>3, <1>4, <1>5, <1>6, <1>7, <1>8, <1>9 DEF RunStep

LEMMA StutterTypes == TypeOK /\ UNCHANGED vars => TypeOK'
BY DEF TypeOK, vars, money, agents

\* Every variable keeps its type.
THEOREM CallsTypeCorrect == Spec => []TypeOK
<1>1. Init => TypeOK
  BY DEF Init, TypeOK, Ended, NewTracker, NoDelta, State
<1>2. TypeOK /\ [Next]_vars => TypeOK'
  BY StepTypes, RunTypes, StutterTypes DEF Next
<1>. QED  BY <1>1, <1>2, PTL DEF Spec

-----------------------------------------------------------------------------
(* The agents at work.                                                     *)

Busy == {"check", "waiting", "tools", "done", "budget", "error"}

LEMMA StepSets ==
  ASSUME TypeOK, NEW c \in Agent, pc[c] # "idle", NEW l \in Busy,
         pc' = [pc EXCEPT ![c] = l], NEW r \in Run
  PROVE  /\ Active(r)' = Active(r)
         /\ RunOf[c] # r => Waiting(r)' = Waiting(r)
         /\ RunOf[c] = r /\ l = "waiting" => Waiting(r)' = Waiting(r) \cup {c}
         /\ RunOf[c] = r /\ l # "waiting" => Waiting(r)' = Waiting(r) \ {c}
<1>1. pc \in [Agent -> Busy \cup {"idle"}]
  BY DEF TypeOK, Busy
<1>2. \A d \in Agent : pc'[d] = IF d = c THEN l ELSE pc[d]
  BY <1>1
<1>3. \A d : d \in Active(r)' <=> d \in Active(r)
  BY <1>1, <1>2 DEF Active, At, Crew, Busy
<1>4. \A d : d \in Waiting(r)' <=> d \in Agent /\ RunOf[d] = r /\ pc'[d] = "waiting"
  BY DEF Waiting, At, Crew
<1>5. \A d : d \in Waiting(r) <=> d \in Agent /\ RunOf[d] = r /\ pc[d] = "waiting"
  BY DEF Waiting, At, Crew
<1>6. RunOf[c] # r => Waiting(r)' = Waiting(r)
  BY <1>2, <1>4, <1>5
<1>7. RunOf[c] = r /\ l = "waiting" => Waiting(r)' = Waiting(r) \cup {c}
  BY <1>2, <1>4, <1>5
<1>8. RunOf[c] = r /\ l # "waiting" => Waiting(r)' = Waiting(r) \ {c}
  BY <1>2, <1>4, <1>5
<1>. QED  BY <1>3, <1>6, <1>7, <1>8

LEMMA FrameSets ==
  ASSUME NEW r \in Run, \A d \in Agent : RunOf[d] = r => pc'[d] = pc[d]
  PROVE  Active(r)' = Active(r) /\ Waiting(r)' = Waiting(r)
BY DEF Active, Waiting, At, Crew

LEMMA RestSets ==
  ASSUME TypeOK, NEW r \in Run, Rest(r), NEW q \in Run
  PROVE  /\ q = r => Active(q)' = {} /\ Waiting(q)' = {}
         /\ q # r => Active(q)' = Active(q) /\ Waiting(q)' = Waiting(q)
<1>1. \A d \in Agent : pc'[d] = IF RunOf[d] = r THEN "idle" ELSE pc[d]
  BY DEF Rest
<1>2. CASE q = r
  BY <1>1, <1>2 DEF Active, Waiting, At, Crew
<1>3. CASE q # r
  BY <1>1, <1>3, FrameSets
<1>. QED  BY <1>2, <1>3

LEMMA WaitingIsActive ==
  ASSUME NEW r \in Run
  PROVE  /\ Waiting(r) \subseteq Active(r)
         /\ IsFiniteSet(Active(r)) /\ IsFiniteSet(Waiting(r))
         /\ Cardinality(Active(r)) \in Nat /\ Cardinality(Waiting(r)) \in Nat
         /\ Cardinality(Waiting(r)) <= Cardinality(Active(r))
<1>1. Waiting(r) \subseteq Active(r)
  BY DEF Waiting, Active, At
<1>. QED  BY <1>1, CrewFinite, FS_Subset DEF Waiting, Active

\* No more than Width agents work together, and none outside the graph.
Together ==
  \A r \in Run :
    /\ Cardinality(Active(r)) <= Width
    /\ stage[r] # "graph" => Active(r) = {}

LEMMA TogetherStep ==
  ASSUME TypeOK, Together, [Next]_vars
  PROVE  Together'
<1>. SUFFICES ASSUME NEW q \in Run
              PROVE  Cardinality(Active(q)') <= Width /\ (stage'[q] # "graph" => Active(q)' = {})
  BY DEF Together
<1>0. Width \in Nat /\ Cardinality({}) = 0
  BY CallsAssumption, FS_EmptySet
<1>1. ASSUME NEW c \in Agent, AgentStep(c)
      PROVE  Active(q)' = Active(q) /\ stage' = stage
  <2>1. pc[c] # "idle" /\ stage' = stage
    BY <1>1 DEF AgentStep, Check, Transient, Fatal, AnswerSummary, AnswerReply, RunTool
  <2>2. \E l \in Busy : pc' = [pc EXCEPT ![c] = l]
    <3>1. CASE Check(c) \/ Fatal(c) \/ AnswerSummary(c) \/ AnswerReply(c) \/ RunTool(c)
      BY <3>1 DEF Check, Fatal, AnswerSummary, AnswerReply, RunTool, Goto, Busy
    <3>2. CASE Transient(c)
      <4>1. pc[c] \in Busy /\ pc = [pc EXCEPT ![c] = pc[c]]
        BY <3>2 DEF TypeOK, Transient, Busy
      <4>. QED  BY <3>2, <4>1 DEF Transient, TriesAgain, Goto, Busy
    <3>. QED  BY <1>1, <3>1, <3>2 DEF AgentStep
  <2>. QED  BY <2>1, <2>2, StepSets
<1>2. ASSUME NEW r \in Run, NEW g \in SUBSET Agent, Begin(r, g)
      PROVE  Cardinality(Active(q)') <= Width /\ (stage'[q] # "graph" => Active(q)' = {})
  <2>1. \A d \in Agent : pc'[d] = IF d \in g THEN "check" ELSE pc[d]
    BY <1>2 DEF Begin
  <2>2. CASE q # r
    <3>1. Active(q)' = Active(q)
      BY <1>2, <2>1, <2>2, FrameSets DEF Begin, Crew
    <3>. QED  BY <1>2, <3>1 DEF Together, Begin
  <2>3. CASE q = r
    <3>1. Active(q)' = g
      BY <1>2, <2>1, <2>3 DEF Begin, Active, At, Crew
    <3>. QED  BY <1>2, <2>3, <3>1 DEF Begin
  <2>. QED  BY <2>2, <2>3
<1>3. ASSUME NEW r \in Run, Commit(r) \/ Abort(r) \/ Crash(r)
      PROVE  Cardinality(Active(q)') <= Width /\ (stage'[q] # "graph" => Active(q)' = {})
  <2>1. Rest(r) /\ (q # r => stage'[q] = stage[q])
    BY <1>3 DEF Commit, Abort, Crash, TypeOK
  <2>. QED  BY <1>0, <2>1, RestSets DEF Together
<1>4. ASSUME NEW r \in Run, ReturnSub(r) \/ LeaveGraph(r) \/ Finalize(r) \/ Judge(r) \/ Resume(r)
      PROVE  Cardinality(Active(q)') <= Width /\ (stage'[q] # "graph" => Active(q)' = {})
  <2>1. pc' = pc /\ (q # r => stage'[q] = stage[q])
    BY <1>4 DEF ReturnSub, LeaveGraph, Finalize, Judge, Resume, agents, TypeOK
  <2>2. Active(r) = {} \/ stage' = stage
    BY <1>4 DEF ReturnSub, LeaveGraph, Finalize, Judge, Resume, Together, Ended
  <2>3. Active(q)' = Active(q)
    BY <2>1, FrameSets
  <2>. QED  BY <2>1, <2>2, <2>3 DEF Together
<1>5. CASE UNCHANGED vars
  BY <1>5, FrameSets DEF vars, agents, Together
<1>. QED  BY <1>1, <1>2, <1>3, <1>4, <1>5 DEF Next, RunStep, Together

-----------------------------------------------------------------------------
(* The ceilings.                                                           *)

\* A call in flight may still cost MaxCost: with these prices added, a run is over its
\* ceilings by no more than one call for every agent of a superstep.
Within ==
  \A r \in Run :
    /\ totals[r].experiment = totals[r].run
    /\ totals[r].run + MaxCost * Cardinality(Waiting(r)) <= RunLimit + MaxCost * Width
    /\ totals[r].run + MaxCost * Cardinality(Waiting(r)) <= ExperimentLimit + MaxCost * Width

CeilingInv == TypeOK /\ Together /\ Within

LEMMA Monotone ==
  ASSUME NEW k \in Nat, NEW m \in Nat, NEW n \in Nat, m <= n
  PROVE  k * m <= k * n /\ k * m \in Nat /\ k * n \in Nat
OBVIOUS

LEMMA Successor ==
  ASSUME NEW k \in Nat, NEW n \in Nat
  PROVE  k * (n + 1) = k * n + k
OBVIOUS

LEMMA RunTotals ==
  ASSUME TypeOK, NEW r \in Run
  PROVE  /\ totals[r].run \in Nat /\ totals[r].experiment \in Nat
         /\ billed[r] \in Nat /\ aborts[r] \in Nat
BY DEF TypeOK

\* What Charge does to the totals of its run, and to no other.
LEMMA ChargeEffect ==
  ASSUME TypeOK, NEW r \in Run, NEW cost \in Cost, Charge(r, cost)
  PROVE  /\ totals'[r].run = totals[r].run + cost
         /\ totals'[r].experiment = totals[r].experiment + cost
         /\ billed'[r] = billed[r] + cost
         /\ \A q \in Run : q # r => totals'[q] = totals[q] /\ billed'[q] = billed[q]
BY DEF TypeOK, Charge, Recorded

\* What a step of an agent does to its run's money and calls in flight; it does nothing
\* to those of another run.
Admitted(c) ==
  LET r == RunOf[c]
  IN /\ UNCHANGED <<totals, billed>>
     /\ totals[r].run <= RunLimit /\ totals[r].experiment <= ExperimentLimit
     /\ Cardinality(Waiting(r)') <= Width

Answered(c) ==
  LET r == RunOf[c]
  IN /\ Waiting(r)' = Waiting(r) \ {c} /\ c \in Waiting(r)
     /\ \E cost \in Cost : Charge(r, cost)

Dropped(c) ==
  LET r == RunOf[c]
  IN UNCHANGED <<totals, billed>> /\ Waiting(r)' \subseteq Waiting(r)

LEMMA StepEffect ==
  ASSUME TypeOK, Together, NEW c \in Agent, AgentStep(c)
  PROVE  /\ UNCHANGED <<stage, aborts>>
         /\ \A q \in Run : q # RunOf[c] => Waiting(q)' = Waiting(q)
         /\ Admitted(c) \/ Answered(c) \/ Dropped(c)
<1>. DEFINE r == RunOf[c]
<1>0. r \in Run
  BY RunAndCostTypes
<1>1. CASE Check(c)
  <2>1. PICK estimate \in Cost :
          \/ Admits(r, estimate) /\ Goto(c, "waiting")
          \/ Goto(c, "budget")
    BY <1>1 DEF Check
  <2>2. pc[c] # "idle" /\ UNCHANGED <<stage, aborts, totals, billed>>
    BY <1>1 DEF Check
  <2>3. CASE Admits(r, estimate) /\ Goto(c, "waiting")
    <3>1. Active(r)' = Active(r) /\ \A q \in Run : q # r => Waiting(q)' = Waiting(q)
      BY <1>0, <2>2, <2>3, StepSets DEF Goto, Busy
    <3>2. Waiting(r)' \subseteq Active(r)
      BY <3>1 DEF Waiting, Active, At, Crew
    <3>3. Cardinality(Waiting(r)') <= Cardinality(Active(r))
      BY <1>0, <3>2, WaitingIsActive, FS_Subset
    <3>4. Cardinality(Waiting(r)') <= Width
      <4>1. IsFiniteSet(Waiting(r)') /\ Cardinality(Waiting(r)') \in Nat
        BY <1>0, <3>2, WaitingIsActive, FS_Subset, FS_CardinalityType
      <4>. QED  BY <1>0, <3>3, <4>1, WaitingIsActive, RunAndCostTypes DEF Together
    <3>5. estimate \in Nat /\ totals[r].run \in Nat /\ totals[r].experiment \in Nat
      BY <1>0, RunAndCostTypes, RunTotals
    <3>6. totals[r].run <= RunLimit /\ totals[r].experiment <= ExperimentLimit
      BY <2>3, <3>5, RunAndCostTypes DEF Admits
    <3>. QED  BY <2>2, <3>1, <3>4, <3>6 DEF Admitted
  <2>4. CASE Goto(c, "budget")
    <3>1. \A q \in Run : Waiting(q)' = IF q = r THEN Waiting(q) \ {c} ELSE Waiting(q)
      BY <2>2, <2>4, StepSets DEF Goto, Busy
    <3>. QED  BY <1>0, <2>2, <3>1 DEF Dropped
  <2>. QED  BY <2>1, <2>3, <2>4
<1>2. CASE Transient(c) \/ Fatal(c)
  <2>1. pc[c] # "idle" /\ UNCHANGED <<stage, aborts, totals, billed>>
    BY <1>2 DEF Transient, Fatal, money
  <2>2. UNCHANGED pc \/ pc' = [pc EXCEPT ![c] = "error"]
    BY <1>2 DEF Transient, Fatal, TriesAgain, Goto
  <2>3. CASE UNCHANGED pc
    BY <1>0, <2>1, <2>3, FrameSets DEF Dropped
  <2>4. CASE pc' = [pc EXCEPT ![c] = "error"]
    <3>1. \A q \in Run : Waiting(q)' = IF q = r THEN Waiting(q) \ {c} ELSE Waiting(q)
      BY <2>1, <2>4, StepSets DEF Busy
    <3>. QED  BY <1>0, <2>1, <3>1 DEF Dropped
  <2>. QED  BY <2>2, <2>3, <2>4
<1>3. CASE AnswerSummary(c) \/ AnswerReply(c)
  <2>1. pc[c] = "waiting" /\ UNCHANGED <<stage, aborts>> /\ \E cost \in Cost : Charge(r, cost)
    BY <1>3 DEF AnswerSummary, AnswerReply
  <2>2. \E l \in {"check", "tools", "done"} : pc' = [pc EXCEPT ![c] = l]
    BY <1>3 DEF AnswerSummary, AnswerReply, Goto
  <2>3. c \in Waiting(r)
    BY <2>1 DEF Waiting, At, Crew
  <2>. QED  BY <1>0, <2>1, <2>2, <2>3, StepSets DEF Busy, Answered
<1>4. CASE RunTool(c)
  <2>1. pc[c] # "idle" /\ UNCHANGED <<stage, aborts, totals, billed>>
    BY <1>4 DEF RunTool, money
  <2>2. \E l \in {"check", "done"} : pc' = [pc EXCEPT ![c] = l]
    BY <1>4 DEF RunTool, Goto
  <2>. QED  BY <1>0, <2>1, <2>2, StepSets DEF Busy, Dropped
<1>. QED  BY <1>1, <1>2, <1>3, <1>4 DEF AgentStep

\* The calls in flight after one of them is answered.
LEMMA OneFewer ==
  ASSUME NEW r \in Run, NEW c \in Waiting(r), Waiting(r)' = Waiting(r) \ {c}
  PROVE  /\ Cardinality(Waiting(r)') \in Nat
         /\ Cardinality(Waiting(r)) = Cardinality(Waiting(r)') + 1
         /\ MaxCost * Cardinality(Waiting(r)) = MaxCost * Cardinality(Waiting(r)') + MaxCost
         /\ MaxCost * Cardinality(Waiting(r)') \in Nat
<1>1. /\ Cardinality(Waiting(r)') = Cardinality(Waiting(r)) - 1
      /\ IsFiniteSet(Waiting(r)')
  BY WaitingIsActive, FS_RemoveElement
<1>2. Cardinality(Waiting(r)') \in Nat /\ Cardinality(Waiting(r)) \in Nat
  BY <1>1, WaitingIsActive, FS_CardinalityType
<1>3. Cardinality(Waiting(r)) = Cardinality(Waiting(r)') + 1
  BY <1>1, <1>2
<1>. QED  BY <1>2, <1>3, Successor, Monotone, RunAndCostTypes

\* Fewer calls in flight, at most.
LEMMA NoMore ==
  ASSUME NEW r \in Run, Waiting(r)' \subseteq Waiting(r)
  PROVE  /\ MaxCost * Cardinality(Waiting(r)') \in Nat
         /\ MaxCost * Cardinality(Waiting(r)) \in Nat
         /\ MaxCost * Cardinality(Waiting(r)') <= MaxCost * Cardinality(Waiting(r))
<1>1. /\ Cardinality(Waiting(r)') \in Nat /\ Cardinality(Waiting(r)) \in Nat
      /\ Cardinality(Waiting(r)') <= Cardinality(Waiting(r))
  BY WaitingIsActive, FS_Subset, FS_CardinalityType
<1>. QED  BY <1>1, Monotone, RunAndCostTypes

\* The part of Within about one run, in the state after a step.
WithinNext(q) ==
  /\ totals'[q].experiment = totals'[q].run
  /\ totals'[q].run + MaxCost * Cardinality(Waiting(q)') <= RunLimit + MaxCost * Width
  /\ totals'[q].run + MaxCost * Cardinality(Waiting(q)') <= ExperimentLimit + MaxCost * Width

\* A call that was admitted, or an answer to one, keeps the run within its ceilings.
LEMMA WithinStep ==
  ASSUME CeilingInv, NEW c \in Agent, AgentStep(c), NEW q \in Run
  PROVE  WithinNext(q)
<1>. USE DEF CeilingInv
<1>. DEFINE r == RunOf[c]
<1>0. r \in Run /\ {Width, RunLimit, ExperimentLimit, MaxCost} \subseteq Nat
  BY RunAndCostTypes
<1>1. MaxCost * Width \in Nat
  BY <1>0, Monotone
<1>2. totals[q].run \in Nat /\ totals[r].run \in Nat
  BY <1>0, RunTotals
<1>3. CASE Dropped(c) \/ (q # r /\ totals'[q] = totals[q])
  <2>1. totals'[q] = totals[q] /\ Waiting(q)' \subseteq Waiting(q)
    BY <1>3, StepEffect DEF Dropped
  <2>. QED  BY <1>0, <1>1, <1>2, <2>1, NoMore DEF Within, WithinNext
<1>4. CASE Admitted(c) /\ q = r
  <2>1. Cardinality(Waiting(q)') \in Nat
    BY CrewFinite, FS_CardinalityType, CallsAssumption, FS_Subset DEF Waiting, At, Crew
  <2>2. MaxCost * Cardinality(Waiting(q)') <= MaxCost * Width /\ MaxCost * Cardinality(Waiting(q)') \in Nat
    BY <1>0, <1>4, <2>1, Monotone DEF Admitted
  <2>. QED  BY <1>0, <1>1, <1>2, <1>4, <2>2 DEF Admitted, Within, WithinNext
<1>5. CASE Answered(c) /\ q = r
  <2>1. PICK cost \in Cost : Charge(r, cost)
    BY <1>5 DEF Answered
  <2>2. /\ totals'[r].run = totals[r].run + cost
        /\ totals'[r].experiment = totals[r].experiment + cost
    BY <1>0, <2>1, ChargeEffect
  <2>3. /\ MaxCost * Cardinality(Waiting(r)) = MaxCost * Cardinality(Waiting(r)') + MaxCost
        /\ MaxCost * Cardinality(Waiting(r)') \in Nat
    BY <1>0, <1>5, OneFewer DEF Answered
  <2>4. cost \in Nat /\ cost <= MaxCost
    BY CallsAssumption DEF Cost
  <2>. QED  BY <1>0, <1>1, <1>2, <1>5, <2>2, <2>3, <2>4 DEF Within, WithinNext
<1>6. q # r => totals'[q] = totals[q]
  <2>1. CASE Answered(c)
    BY <1>0, <2>1, ChargeEffect DEF Answered
  <2>2. CASE Admitted(c) \/ Dropped(c)
    BY <2>2 DEF Admitted, Dropped
  <2>. QED  BY <2>1, <2>2, StepEffect
<1>7. Admitted(c) \/ Answered(c) \/ Dropped(c)
  BY StepEffect
<1>. QED  BY <1>3, <1>4, <1>5, <1>6, <1>7

\* What a closing call does: a charge within the ceilings, or nothing.
LEMMA ClosingEffect ==
  ASSUME TypeOK, NEW r \in Run, ClosingCall(r)
  PROVE  \/ \E cost \in Cost : /\ Charge(r, cost)
                              /\ totals[r].run <= RunLimit
                              /\ totals[r].experiment <= ExperimentLimit
         \/ UNCHANGED <<totals, billed>>
<1>1. ASSUME NEW estimate \in Cost, NEW cost \in Cost, Admits(r, estimate), Charge(r, cost)
      PROVE  totals[r].run <= RunLimit /\ totals[r].experiment <= ExperimentLimit
  <2>1. /\ estimate \in Nat /\ totals[r].run \in Nat /\ totals[r].experiment \in Nat
        /\ RunLimit \in Nat /\ ExperimentLimit \in Nat
    BY RunTotals, RunAndCostTypes
  <2>. QED  BY <1>1, <2>1 DEF Admits
<1>. QED  BY <1>1 DEF ClosingCall

\* What the other steps of a run do to its money.
LEMMA RunEffect ==
  ASSUME TypeOK, Together, NEW r \in Run, RunStep(r) \/ Crash(r) \/ Resume(r),
         NEW q \in Run
  PROVE  \/ /\ totals'[q] = totals[q] /\ Waiting(q)' \subseteq Waiting(q)
         \/ /\ q = r /\ Waiting(q)' = {} /\ ClosingCall(r)
         \/ /\ q = r /\ Waiting(q)' = {} /\ totals'[q] = NewTracker
<1>1. ASSUME NEW g \in SUBSET Agent, Begin(r, g)
      PROVE  totals'[q] = totals[q] /\ Waiting(q)' \subseteq Waiting(q)
  BY <1>1 DEF Begin, Waiting, At, Crew, money
<1>2. CASE Commit(r) \/ Abort(r) \/ Crash(r)
  <2>1. Rest(r) /\ totals' = totals
    BY <1>2 DEF Commit, Abort, Crash, Lose, money
  <2>. QED  BY <2>1, RestSets
<1>3. CASE ReturnSub(r) \/ LeaveGraph(r)
  <2>1. pc' = pc /\ totals' = totals
    BY <1>3 DEF ReturnSub, LeaveGraph, money, agents
  <2>. QED  BY <2>1, FrameSets
<1>4. CASE Finalize(r) \/ Judge(r)
  <2>1. pc' = pc /\ stage[r] # "graph" /\ ClosingCall(r)
    BY <1>4 DEF Finalize, Judge, agents
  <2>2. Waiting(r) = {}
    BY <2>1, WaitingIsActive DEF Together
  <2>3. q # r => totals'[q] = totals[q]
    BY <2>1, ChargeEffect DEF ClosingCall
  <2>. QED  BY <2>1, <2>2, <2>3, FrameSets
<1>5. CASE Resume(r)
  <2>1. pc' = pc /\ stage[r] # "graph"
    BY <1>5 DEF Resume, agents
  <2>2. Waiting(r) = {}
    BY <2>1, WaitingIsActive DEF Together
  <2>3. totals'[q] = IF q = r THEN NewTracker ELSE totals[q]
    BY <1>5 DEF Resume, FreshTracker, TypeOK
  <2>. QED  BY <2>1, <2>2, <2>3, FrameSets
<1>. QED  BY <1>1, <1>2, <1>3, <1>4, <1>5 DEF RunStep

LEMMA WithinRunStep ==
  ASSUME CeilingInv, NEW r \in Run, RunStep(r) \/ Crash(r) \/ Resume(r), NEW q \in Run
  PROVE  WithinNext(q)
<1>. USE DEF CeilingInv
<1>0. {RunLimit, ExperimentLimit, MaxCost} \subseteq Nat /\ Width \in Nat \ {0}
  BY RunAndCostTypes
<1>1. /\ MaxCost * Width \in Nat /\ MaxCost <= MaxCost * Width
      /\ MaxCost * Cardinality({}) = 0
  BY <1>0, Monotone, FS_EmptySet
<1>2. totals[q].run \in Nat /\ totals[q].experiment = totals[q].run
  BY RunTotals DEF Within
<1>3. CASE totals'[q] = totals[q] /\ Waiting(q)' \subseteq Waiting(q)
  BY <1>0, <1>1, <1>2, <1>3, NoMore DEF Within, WithinNext
<1>4. CASE q = r /\ Waiting(q)' = {} /\ ClosingCall(r)
  <2>1. CASE totals' = totals
    <3>1. Waiting(q)' \subseteq Waiting(q)
      BY <1>4
    <3>. QED  BY <1>3, <2>1, <3>1
  <2>2. ASSUME NEW cost \in Cost, Charge(r, cost),
               totals[r].run <= RunLimit, totals[r].experiment <= ExperimentLimit
        PROVE  WithinNext(q)
    <3>1. /\ totals'[r].run = totals[r].run + cost
          /\ totals'[r].experiment = totals[r].experiment + cost
      BY <2>2, ChargeEffect
    <3>2. cost \in Nat /\ cost <= MaxCost
      BY CallsAssumption DEF Cost
    <3>. QED  BY <1>0, <1>1, <1>2, <1>4, <2>2, <3>1, <3>2 DEF WithinNext
  <2>. QED  BY <1>4, <2>1, <2>2, ClosingEffect
<1>5. CASE q = r /\ Waiting(q)' = {} /\ totals'[q] = NewTracker
  BY <1>0, <1>1, <1>5 DEF WithinNext, NewTracker
<1>. QED  BY <1>3, <1>4, <1>5, RunEffect

LEMMA CeilingStep ==
  ASSUME CeilingInv, [Next]_vars
  PROVE  CeilingInv'
<1>1. TypeOK'
  BY StepTypes, RunTypes, StutterTypes DEF Next, CeilingInv
<1>2. Together'
  BY TogetherStep DEF CeilingInv
<1>3. ASSUME NEW q \in Run PROVE WithinNext(q)
  <2>1. CASE UNCHANGED vars
    <3>1. pc' = pc /\ totals' = totals
      BY <2>1 DEF vars, money, agents
    <3>2. Waiting(q)' = Waiting(q)
      BY <3>1, FrameSets
    <3>. QED  BY <3>1, <3>2 DEF CeilingInv, Within, WithinNext
  <2>. QED  BY <2>1, WithinStep, WithinRunStep DEF Next
<1>4. Within'
  BY <1>3 DEF Within, WithinNext
<1>. QED  BY <1>1, <1>2, <1>4 DEF CeilingInv

LEMMA CeilingInit == Init => CeilingInv
<1>. SUFFICES ASSUME Init PROVE CeilingInv
  OBVIOUS
<1>1. TypeOK
  BY DEF Init, TypeOK, Ended, NewTracker, NoDelta, State
<1>2. ASSUME NEW r \in Run PROVE Active(r) = {} /\ Waiting(r) = {}
  BY DEF Init, Active, Waiting, At, Crew
<1>3. MaxCost * Cardinality({}) = 0 /\ Cardinality({}) = 0 /\ MaxCost * Width \in Nat
  BY RunAndCostTypes, FS_EmptySet, Monotone
<1>4. Together
  <2>. SUFFICES ASSUME NEW r \in Run PROVE Cardinality(Active(r)) <= Width /\ Active(r) = {}
    BY DEF Together
  <2>1. Active(r) = {} /\ 0 <= Width
    BY <1>2, RunAndCostTypes
  <2>. QED  BY <1>3, <2>1
<1>5. Within
  <2>. SUFFICES ASSUME NEW r \in Run
                PROVE  /\ totals[r].experiment = totals[r].run
                       /\ totals[r].run + MaxCost * Cardinality(Waiting(r)) <= RunLimit + MaxCost * Width
                       /\ totals[r].run + MaxCost * Cardinality(Waiting(r)) <= ExperimentLimit + MaxCost * Width
    BY DEF Within
  <2>1. totals[r].experiment = 0 /\ totals[r].run = 0
    BY DEF Init, NewTracker
  <2>2. MaxCost * Cardinality(Waiting(r)) = 0
    BY <1>2, <1>3
  <2>. QED  BY <1>3, <2>1, <2>2, RunAndCostTypes
<1>. QED  BY <1>1, <1>4, <1>5 DEF CeilingInv

\* What a tracker can count: the run's ceiling, and a call for each agent of a superstep.
Allowance == RunLimit + MaxCost * Width

\* Every execution before this one has counted its allowance at most.
Spent ==
  \A r \in Run : earlier[r] + Allowance <= Allowance * execution[r]

SpentInv == CeilingInv /\ Spent

LEMMA AllowanceType == Allowance \in Nat /\ Allowance = RunLimit + Width * MaxCost
<1>1. MaxCost * Width \in Nat /\ Width * MaxCost = MaxCost * Width
  BY RunAndCostTypes, Monotone
<1>. QED  BY <1>1, RunAndCostTypes DEF Allowance

LEMMA WithinAllowance ==
  ASSUME CeilingInv, NEW r \in Run
  PROVE  totals[r].run \in Nat /\ totals[r].run <= Allowance
<1>1. MaxCost * Cardinality(Waiting(r)) \in Nat
  BY WaitingIsActive, RunAndCostTypes, Monotone
<1>2. totals[r].run \in Nat
  BY RunTotals DEF CeilingInv
<1>3. totals[r].run + MaxCost * Cardinality(Waiting(r)) <= Allowance
  BY DEF CeilingInv, Within, Allowance
<1>. QED  BY <1>1, <1>2, <1>3, AllowanceType

\* Only a resume adds to what is spent, and it starts an execution.
LEMMA SpentStep ==
  ASSUME SpentInv, [Next]_vars
  PROVE  Spent'
<1>. SUFFICES ASSUME NEW q \in Run
              PROVE  earlier'[q] + Allowance' <= Allowance' * execution'[q]
  BY DEF Spent
<1>0. Allowance' = Allowance
  BY DEF Allowance
<1>1. /\ earlier[q] + Allowance <= Allowance * execution[q]
      /\ earlier[q] \in Nat /\ execution[q] \in Nat
  BY DEF SpentInv, Spent, CeilingInv, TypeOK
<1>2. CASE UNCHANGED <<earlier, execution>>
  BY <1>0, <1>1, <1>2
<1>3. ASSUME NEW r \in Run, Resume(r)
      PROVE  earlier'[q] + Allowance <= Allowance * execution'[q]
  <2>1. CASE q # r
    <3>1. earlier'[q] = earlier[q] /\ execution'[q] = execution[q]
      BY <1>3, <2>1 DEF Resume, SpentInv, CeilingInv, TypeOK
    <3>. QED  BY <1>1, <3>1
  <2>2. CASE q = r
    <3>1. earlier'[q] = earlier[q] + totals[q].run /\ execution'[q] = execution[q] + 1
      BY <1>3, <2>2 DEF Resume, SpentInv, CeilingInv, TypeOK
    <3>2. totals[q].run \in Nat /\ totals[q].run <= Allowance
      BY WithinAllowance DEF SpentInv
    <3>3. Allowance * (execution[q] + 1) = Allowance * execution[q] + Allowance
      BY <1>1, AllowanceType, Successor
    <3>4. Allowance * execution[q] \in Nat
      BY <1>1, AllowanceType, Monotone
    <3>. QED  BY <1>1, <3>1, <3>2, <3>3, <3>4, AllowanceType
  <2>. QED  BY <2>1, <2>2
<1>4. ASSUME NEW c \in Agent, AgentStep(c) PROVE UNCHANGED <<earlier, execution>>
  BY <1>4 DEF AgentStep, Check, Transient, Fatal, AnswerSummary, AnswerReply, RunTool
<1>5. ASSUME NEW r \in Run, RunStep(r) \/ Crash(r) PROVE UNCHANGED <<earlier, execution>>
  BY <1>5 DEF RunStep, Crash, Begin, Commit, Abort, ReturnSub, LeaveGraph, Finalize, Judge
<1>6. CASE UNCHANGED vars
  BY <1>2, <1>6 DEF vars
<1>. QED  BY <1>0, <1>2, <1>3, <1>4, <1>5, <1>6 DEF Next

\* The tracker of an execution passes its ceilings by no more than the price of one call
\* for each agent of a superstep: two in a debate, whose two debaters are checked before
\* either is charged. All executions of a run together count that much for each of them.
THEOREM CallsOvershoot == Spec => []OvershootBound
<1>1. SpentInv => OvershootBound
  <2>. SUFFICES ASSUME SpentInv, NEW r \in Run
                PROVE  /\ totals[r].run <= RunLimit + Width * MaxCost
                       /\ totals[r].experiment <= ExperimentLimit + Width * MaxCost
                       /\ earlier[r] + totals[r].run <= execution[r] * (RunLimit + Width * MaxCost)
    BY DEF OvershootBound
  <2>1. MaxCost * Cardinality(Waiting(r)) \in Nat /\ MaxCost * Width \in Nat
        /\ Width * MaxCost = MaxCost * Width
    BY WaitingIsActive, RunAndCostTypes, Monotone
  <2>2. totals[r].run \in Nat /\ totals[r].experiment \in Nat
    BY RunTotals DEF SpentInv, CeilingInv
  <2>3. /\ totals[r].run <= RunLimit + Width * MaxCost
        /\ totals[r].experiment <= ExperimentLimit + Width * MaxCost
    BY <2>1, <2>2, RunAndCostTypes DEF SpentInv, CeilingInv, Within
  <2>4. earlier[r] + totals[r].run <= execution[r] * (RunLimit + Width * MaxCost)
    <3>1. /\ earlier[r] + Allowance <= Allowance * execution[r]
          /\ earlier[r] \in Nat /\ execution[r] \in Nat
      BY DEF SpentInv, Spent, CeilingInv, TypeOK
    <3>2. totals[r].run <= Allowance
      BY WithinAllowance DEF SpentInv
    <3>3. Allowance * execution[r] = execution[r] * Allowance /\ Allowance * execution[r] \in Nat
      BY <3>1, AllowanceType, Monotone
    <3>4. earlier[r] + totals[r].run <= execution[r] * Allowance
      BY <2>2, <3>1, <3>2, <3>3, AllowanceType
    <3>. QED  BY <3>4, AllowanceType
  <2>. QED  BY <2>3, <2>4
<1>2. Init => SpentInv
  <2>. SUFFICES ASSUME Init PROVE SpentInv
    OBVIOUS
  <2>1. ASSUME NEW r \in Run PROVE earlier[r] + Allowance <= Allowance * execution[r]
    <3>1. earlier[r] = 0 /\ execution[r] = 1
      BY DEF Init
    <3>. QED  BY <3>1, AllowanceType
  <2>. QED  BY <2>1, CeilingInit DEF SpentInv, Spent
<1>3. SpentInv /\ [Next]_vars => SpentInv'
  BY CeilingStep, SpentStep DEF SpentInv
<1>. QED  BY <1>1, <1>2, <1>3, PTL DEF Spec

-----------------------------------------------------------------------------
(* What is paid and not counted.                                           *)

\* The price of the calls lost so far.
Slack(n, s) == MaxCost * (n * (Width - 1) + IF s = "failed" THEN Width ELSE 0)

LEMMA SlackGrows ==
  ASSUME NEW n \in Nat, NEW s
  PROVE  /\ Slack(n, s) \in Nat
         /\ MaxCost * (n * (Width - 1)) <= Slack(n, s)
         /\ s # "failed" => Slack(n, s) = MaxCost * (n * (Width - 1))
         /\ s = "failed" => Slack(n, s) = MaxCost * (n * (Width - 1)) + MaxCost * Width
         /\ MaxCost * ((n + 1) * (Width - 1)) = MaxCost * (n * (Width - 1)) + MaxCost * (Width - 1)
<1>0. MaxCost \in Nat /\ Width \in Nat \ {0}
  BY RunAndCostTypes
<1>. DEFINE k == Width - 1
            m == n * k
<1>1. k \in Nat
  BY <1>0
<1>2. m \in Nat
  BY <1>1
<1>3. (n + 1) * k = m + k
  BY <1>1
<1>4. \A i, j \in Nat : MaxCost * (i + j) = MaxCost * i + MaxCost * j /\ MaxCost * i \in Nat
  BY <1>0
<1>5. Slack(n, s) = MaxCost * (m + IF s = "failed" THEN Width ELSE 0)
  BY DEF Slack
<1>. HIDE DEF k, m
<1>6. MaxCost * (m + k) = MaxCost * m + MaxCost * k /\ MaxCost * m \in Nat
  BY <1>1, <1>2, <1>4
<1>7. MaxCost * (m + Width) = MaxCost * m + MaxCost * Width /\ MaxCost * Width \in Nat
  BY <1>0, <1>2, <1>4
<1>8. MaxCost * (m + 0) = MaxCost * m
  BY <1>2
<1>9. /\ Slack(n, s) \in Nat
      /\ MaxCost * m <= Slack(n, s)
      /\ s # "failed" => Slack(n, s) = MaxCost * m
      /\ s = "failed" => Slack(n, s) = MaxCost * m + MaxCost * Width
  BY <1>5, <1>6, <1>7, <1>8
<1>. QED  BY <1>3, <1>6, <1>9 DEF k, m

Counted == \A r \in Run : billed[r] <= totals[r].run + Slack(aborts[r], stage[r])

CountedInv == CeilingInv /\ Counted

CountedNext(q) == billed'[q] <= totals'[q].run + Slack(aborts'[q], stage'[q])

\* Nothing is lost by a charge, nor by a step that leaves the money alone.
LEMMA CountedKept ==
  ASSUME CountedInv, NEW q \in Run, aborts'[q] = aborts[q],
         stage'[q] = stage[q] \/ stage[q] # "failed",
         \/ billed'[q] = billed[q] /\ totals'[q] = totals[q]
         \/ \E cost \in Cost : Charge(q, cost)
  PROVE  CountedNext(q)
<1>1. billed[q] \in Nat /\ totals[q].run \in Nat /\ aborts[q] \in Nat
  BY RunTotals DEF CountedInv, CeilingInv
<1>2. billed[q] <= totals[q].run + Slack(aborts[q], stage[q])
  BY DEF CountedInv, Counted
<1>3. /\ Slack(aborts[q], stage[q]) \in Nat /\ Slack(aborts'[q], stage'[q]) \in Nat
      /\ Slack(aborts[q], stage[q]) <= Slack(aborts'[q], stage'[q])
  BY <1>1, SlackGrows
<1>4. CASE billed'[q] = billed[q] /\ totals'[q] = totals[q]
  BY <1>1, <1>2, <1>3, <1>4 DEF CountedNext
<1>5. ASSUME NEW cost \in Cost, Charge(q, cost) PROVE CountedNext(q)
  <2>1. billed'[q] = billed[q] + cost /\ totals'[q].run = totals[q].run + cost /\ cost \in Nat
    BY <1>5, ChargeEffect, RunAndCostTypes DEF CountedInv, CeilingInv
  <2>. QED  BY <1>1, <1>2, <1>3, <2>1 DEF CountedNext
<1>. QED  BY <1>4, <1>5

LEMMA CountedAgentStep ==
  ASSUME CountedInv, NEW c \in Agent, AgentStep(c), NEW q \in Run
  PROVE  CountedNext(q)
<1>. USE DEF CountedInv, CeilingInv
<1>1. stage' = stage /\ aborts' = aborts /\ (Admitted(c) \/ Answered(c) \/ Dropped(c))
  BY StepEffect
<1>2. CASE Admitted(c) \/ Dropped(c)
  BY <1>1, <1>2, CountedKept DEF Admitted, Dropped
<1>3. CASE Answered(c)
  <2>1. PICK cost \in Cost : Charge(RunOf[c], cost)
    BY <1>3 DEF Answered
  <2>2. q # RunOf[c] => billed'[q] = billed[q] /\ totals'[q] = totals[q]
    BY <2>1, ChargeEffect, RunAndCostTypes
  <2>. QED  BY <1>1, <2>1, <2>2, CountedKept
<1>. QED  BY <1>1, <1>2, <1>3

\* The agent that raised is not in flight, so an abort loses its siblings only.
LEMMA AbortLoses ==
  ASSUME CountedInv, NEW r \in Run, Abort(r)
  PROVE  CountedNext(r)
<1>. USE DEF CountedInv, CeilingInv
<1>. DEFINE W == Cardinality(Waiting(r))
<1>1. PICK c \in At(r, {"budget", "error"}) : stage' = [stage EXCEPT ![r] = StageAfter(r, pc[c])]
  BY DEF Abort
<1>2. c \in Active(r) /\ c \notin Waiting(r)
  BY DEF At, Active, Waiting
<1>3. W <= Width - 1 /\ W \in Nat
  <2>1. Waiting(r) \subseteq Active(r) \ {c}
    BY <1>2, WaitingIsActive
  <2>2. IsFiniteSet(Active(r) \ {c}) /\ Cardinality(Active(r) \ {c}) = Cardinality(Active(r)) - 1
    BY <1>2, WaitingIsActive, FS_RemoveElement
  <2>3. W <= Cardinality(Active(r)) - 1
    BY <2>1, <2>2, FS_Subset
  <2>. QED  BY <2>3, WaitingIsActive, RunAndCostTypes DEF Together
<1>4. stage[r] = "graph"
  BY <1>2 DEF Together
<1>5. PICK lost \in 0 .. MaxCost * W : billed' = [billed EXCEPT ![r] = @ + lost]
  BY DEF Abort, Lose
<1>6. totals' = totals /\ aborts' = [aborts EXCEPT ![r] = @ + 1]
  BY DEF Abort, Lose
<1>7. /\ billed'[r] = billed[r] + lost /\ aborts'[r] = aborts[r] + 1
      /\ billed[r] \in Nat /\ totals[r].run \in Nat /\ aborts[r] \in Nat
  BY <1>5, <1>6, RunTotals DEF TypeOK
<1>8. MaxCost * W <= MaxCost * (Width - 1) /\ MaxCost * W \in Nat /\ MaxCost * (Width - 1) \in Nat
  <2>1. Width - 1 \in Nat /\ MaxCost \in Nat
    BY RunAndCostTypes
  <2>. QED  BY <1>3, <2>1, Monotone
<1>9. billed[r] <= totals[r].run + MaxCost * (aborts[r] * (Width - 1))
  BY <1>4, <1>7, SlackGrows DEF Counted
<1>10. /\ MaxCost * (aborts'[r] * (Width - 1)) = MaxCost * (aborts[r] * (Width - 1)) + MaxCost * (Width - 1)
       /\ Slack(aborts[r], stage[r]) = MaxCost * (aborts[r] * (Width - 1))
       /\ Slack(aborts[r], stage[r]) \in Nat
  BY <1>4, <1>7, SlackGrows
<1>11. /\ MaxCost * (aborts'[r] * (Width - 1)) <= Slack(aborts'[r], stage'[r])
       /\ Slack(aborts'[r], stage'[r]) \in Nat
  <2>1. aborts'[r] \in Nat
    BY <1>7
  <2>. QED  BY <2>1, SlackGrows
<1>. DEFINE before == MaxCost * (aborts[r] * (Width - 1))
            more == MaxCost * (Width - 1)
            after == Slack(aborts'[r], stage'[r])
<1>12. before \in Nat /\ more \in Nat /\ after \in Nat /\ before + more <= after
  BY <1>8, <1>10, <1>11
<1>13. lost \in Nat /\ lost <= more
  BY <1>5, <1>8
<1>14. billed[r] <= totals[r].run + before
  BY <1>9
<1>15. billed'[r] <= totals'[r].run + after
  <2>. HIDE DEF before, more, after
  <2>. QED  BY <1>6, <1>7, <1>12, <1>13, <1>14
<1>. QED  BY <1>15 DEF CountedNext

\* A dying process loses the calls of all its agents.
LEMMA CrashLoses ==
  ASSUME CountedInv, NEW r \in Run, Crash(r)
  PROVE  CountedNext(r)
<1>. USE DEF CountedInv, CeilingInv
<1>. DEFINE W == Cardinality(Waiting(r))
<1>1. PICK lost \in 0 .. MaxCost * W : billed' = [billed EXCEPT ![r] = @ + lost]
  BY DEF Crash, Lose
<1>2. totals' = totals /\ aborts' = aborts /\ stage'[r] = "failed" /\ stage[r] # "failed"
  BY DEF Crash, Lose, TypeOK, Ended
<1>3. /\ billed'[r] = billed[r] + lost
      /\ billed[r] \in Nat /\ totals[r].run \in Nat /\ aborts[r] \in Nat
  BY <1>1, RunTotals DEF TypeOK
<1>4. MaxCost * W <= MaxCost * Width /\ MaxCost * W \in Nat /\ MaxCost * Width \in Nat
  BY WaitingIsActive, RunAndCostTypes, Monotone DEF Together
<1>5. /\ Slack(aborts'[r], stage'[r]) = Slack(aborts[r], stage[r]) + MaxCost * Width
      /\ Slack(aborts[r], stage[r]) \in Nat
  BY <1>2, <1>3, SlackGrows
<1>6. billed[r] <= totals[r].run + Slack(aborts[r], stage[r])
  BY DEF Counted
<1>. QED  BY <1>1, <1>2, <1>3, <1>4, <1>5, <1>6 DEF CountedNext

LEMMA CountedRunStep ==
  ASSUME CountedInv, NEW r \in Run, RunStep(r) \/ Crash(r) \/ Resume(r), NEW q \in Run
  PROVE  CountedNext(q)
<1>. USE DEF CountedInv, CeilingInv
<1>1. ASSUME NEW g \in SUBSET Agent, Begin(r, g) PROVE CountedNext(q)
  BY <1>1, CountedKept DEF Begin, money
<1>2. CASE Commit(r) \/ ReturnSub(r)
  BY <1>2, CountedKept DEF Commit, ReturnSub, money
<1>3. CASE LeaveGraph(r)
  BY <1>3, CountedKept DEF LeaveGraph, TypeOK
<1>4. CASE Finalize(r) \/ Judge(r)
  <2>1. /\ aborts' = aborts /\ stage[r] # "failed" /\ ClosingCall(r)
        /\ (q # r => stage'[q] = stage[q])
    BY <1>4 DEF Finalize, Judge, TypeOK
  <2>2. CASE UNCHANGED <<totals, billed>>
    BY <2>1, <2>2, CountedKept
  <2>3. ASSUME NEW cost \in Cost, Charge(r, cost) PROVE CountedNext(q)
    BY <2>1, <2>3, ChargeEffect, CountedKept
  <2>. QED  BY <2>1, <2>2, <2>3, ClosingEffect
<1>5. CASE Abort(r) /\ q # r
  BY <1>5, CountedKept DEF Abort, Lose, TypeOK
<1>6. CASE Crash(r) /\ q # r
  BY <1>6, CountedKept DEF Crash, Lose, TypeOK
<1>7. CASE Resume(r)
  <2>1. CASE q # r
    BY <1>7, <2>1, CountedKept DEF Resume, TypeOK
  <2>2. CASE q = r
    <3>1. billed'[r] = 0 /\ totals'[r].run = 0 /\ aborts'[r] = 0
      BY <1>7 DEF Resume, FreshTracker, NewTracker, TypeOK
    <3>2. Slack(0, stage'[r]) \in Nat
      BY SlackGrows
    <3>. QED  BY <2>2, <3>1, <3>2 DEF CountedNext
  <2>. QED  BY <2>1, <2>2
<1>. QED  BY <1>1, <1>2, <1>3, <1>4, <1>5, <1>6, <1>7, AbortLoses, CrashLoses DEF RunStep

\* What a provider charges beyond the tracker's total is bounded by the calls that an
\* error or a crash cancelled.
THEOREM CallsUncounted == Spec => []UncountedBound
<1>1. Init => CountedInv
  <2>. SUFFICES ASSUME Init PROVE CountedInv
    OBVIOUS
  <2>1. \A r \in Run : billed[r] = 0 /\ totals[r].run = 0 /\ aborts[r] = 0
    BY DEF Init, NewTracker
  <2>2. \A s : Slack(0, s) \in Nat
    BY SlackGrows
  <2>. QED  BY <2>1, <2>2, CeilingInit DEF CountedInv, Counted
<1>2. CountedInv /\ [Next]_vars => CountedInv'
  <2>. SUFFICES ASSUME CountedInv, [Next]_vars PROVE CountedInv'
    OBVIOUS
  <2>1. ASSUME NEW q \in Run PROVE CountedNext(q)
    <3>1. CASE UNCHANGED vars
      BY <3>1 DEF vars, money, CountedInv, Counted, CountedNext
    <3>. QED  BY <3>1, CountedAgentStep, CountedRunStep DEF Next
  <2>. QED  BY <2>1, CeilingStep DEF CountedInv, Counted, CountedNext
<1>3. CountedInv => UncountedBound
  BY DEF CountedInv, Counted, UncountedBound, Slack
<1>. QED  BY <1>1, <1>2, <1>3, PTL DEF Spec

-----------------------------------------------------------------------------
(* A refused call.                                                         *)

\* In a run of a single topology a refusal is on its way up, or has ended the run.
RefusalSeen(q) ==
  ~adaptive[q] /\ refused[q] =>
    stage[q] \in {"budget_exceeded", "failed"} \/ \E c \in Crew(q) : pc[c] = "budget"

RefusalInv == TypeOK /\ Together /\ \A q \in Run : RefusalSeen(q)

LEMMA RefusalAgentStep ==
  ASSUME RefusalInv, NEW c \in Agent, AgentStep(c), NEW q \in Run
  PROVE  RefusalSeen(q)'
<1>. USE DEF RefusalInv
<1>1. pc[c] # "budget" /\ adaptive' = adaptive /\ stage' = stage
  BY DEF AgentStep, Check, Transient, Fatal, AnswerSummary, AnswerReply, RunTool
<1>2. \A d \in Agent : d # c => pc'[d] = pc[d]
  BY DEF AgentStep, Check, Transient, TriesAgain, Fatal, AnswerSummary, AnswerReply, RunTool, Goto, TypeOK
<1>3. CASE refused' = refused
  BY <1>1, <1>2, <1>3 DEF RefusalSeen, Crew
<1>4. CASE refused' # refused
  <2>1. Check(c)
    BY <1>4 DEF AgentStep, Transient, Fatal, AnswerSummary, AnswerReply, RunTool, money
  <2>2. Goto(c, "budget") /\ refused' = [refused EXCEPT ![RunOf[c]] = TRUE]
    BY <1>4, <2>1 DEF Check
  <2>3. pc'[c] = "budget" /\ (q # RunOf[c] => refused'[q] = refused[q])
    BY <2>2 DEF TypeOK, Goto
  <2>4. CASE q = RunOf[c]
    BY <2>3, <2>4 DEF RefusalSeen, Crew
  <2>5. CASE q # RunOf[c]
    BY <1>1, <1>2, <2>3, <2>5 DEF RefusalSeen, Crew
  <2>. QED  BY <2>4, <2>5
<1>. QED  BY <1>3, <1>4

LEMMA RefusalRunStep ==
  ASSUME RefusalInv, NEW r \in Run, RunStep(r) \/ Crash(r) \/ Resume(r), NEW q \in Run
  PROVE  RefusalSeen(q)'
<1>. USE DEF RefusalInv
<1>1. q # r => stage'[q] = stage[q] /\ refused'[q] = refused[q] /\ adaptive' = adaptive
  BY DEF RunStep, Begin, Commit, Abort, Lose, ReturnSub, LeaveGraph, Finalize, Judge, Crash, Resume,
         money, TypeOK
<1>2. q # r => \A d \in Crew(q) : pc'[d] = pc[d]
  BY DEF RunStep, Begin, Commit, Abort, Rest, ReturnSub, LeaveGraph, Finalize, Judge, Crash, Resume,
         agents, Crew
<1>3. CASE q # r
  BY <1>1, <1>2, <1>3 DEF RefusalSeen, Crew
<1>4. Active(r) = {} => \A d \in Crew(r) : pc[d] # "budget"
  BY DEF Active, At
<1>5. CASE (\E g \in SUBSET Agent : Begin(r, g)) \/ LeaveGraph(r) \/ Finalize(r) \/ Judge(r)
  <2>1. Active(r) = {} /\ stage[r] \notin {"budget_exceeded", "failed"}
    BY <1>5 DEF Begin, LeaveGraph, Finalize, Judge, Together
  <2>2. refused' = refused /\ adaptive' = adaptive
    BY <1>5 DEF Begin, LeaveGraph, Finalize, Judge, money
  <2>. QED  BY <1>3, <1>4, <2>1, <2>2 DEF RefusalSeen
<1>6. CASE Commit(r)
  <2>1. \A d \in Crew(r) : pc[d] # "budget"
    BY <1>6 DEF Commit, Active, At
  <2>. QED  BY <1>3, <1>6, <2>1 DEF Commit, RefusalSeen, money
<1>7. CASE ReturnSub(r)
  BY <1>7 DEF ReturnSub, RefusalSeen, money, agents, Crew
<1>8. CASE Abort(r)
  <2>1. adaptive' = adaptive /\ \E c \in At(r, {"budget", "error"}) : stage'[r] = StageAfter(r, pc[c])
    BY <1>8 DEF Abort, TypeOK
  <2>2. ~adaptive[r] => stage'[r] \in {"budget_exceeded", "failed"}
    BY <2>1 DEF StageAfter, At
  <2>. QED  BY <1>3, <2>1, <2>2 DEF RefusalSeen
<1>9. CASE Crash(r)
  <2>1. stage'[r] = "failed"
    BY <1>9 DEF Crash, TypeOK
  <2>. QED  BY <1>3, <2>1 DEF RefusalSeen
<1>10. CASE Resume(r)
  <2>1. refused'[r] = FALSE
    BY <1>10 DEF Resume, TypeOK
  <2>. QED  BY <1>3, <2>1 DEF RefusalSeen
<1>. QED  BY <1>5, <1>6, <1>7, <1>8, <1>9, <1>10 DEF RunStep

\* Outside the meta-graph BudgetExceededError always ends the run: nothing between the
\* wrapper and run_one catches it.
THEOREM CallsRefusalStops == Spec => []RefusalStops
<1>1. Init => RefusalInv
  BY CeilingInit DEF RefusalInv, CeilingInv, RefusalSeen, Init
<1>2. RefusalInv /\ [Next]_vars => RefusalInv'
  <2>. SUFFICES ASSUME RefusalInv, [Next]_vars PROVE RefusalInv'
    OBVIOUS
  <2>1. TypeOK' /\ Together'
    BY StepTypes, RunTypes, StutterTypes, TogetherStep DEF Next, RefusalInv
  <2>2. ASSUME NEW q \in Run PROVE RefusalSeen(q)'
    <3>1. CASE UNCHANGED vars
      BY <3>1 DEF vars, money, agents, RefusalInv, RefusalSeen, Crew
    <3>. QED  BY <3>1, RefusalAgentStep, RefusalRunStep DEF Next
  <2>. QED  BY <2>1, <2>2 DEF RefusalInv
<1>3. RefusalInv => RefusalStops
  <2>. SUFFICES ASSUME RefusalInv, NEW r \in Run, ~adaptive[r], refused[r],
                       stage[r] \in {"finalizing", "judging", "completed"}
                PROVE  FALSE
    BY DEF RefusalStops
  <2>1. Active(r) = {}
    BY DEF RefusalInv, Together
  <2>. QED  BY <2>1 DEF RefusalInv, RefusalSeen, Active, At
<1>. QED  BY <1>1, <1>2, <1>3, PTL DEF Spec

-----------------------------------------------------------------------------
(* Sums over a finite set. MapThenSumSet chooses a solution of an equation *)
(* whose existence takes an induction: WFMin of the library, which ranges   *)
(* over sets and not over operators, gives it.                             *)

Pick(s) == CHOOSE x \in s : TRUE

\* The equation of the sum of f over the subsets of S, as MapThenSumSet defines it.
Sums(sum, f, D) ==
  sum = [s \in D |-> IF s = {} THEN 0 ELSE f[Pick(s)] + sum[s \ {Pick(s)}]]

LEMMA PickIn == ASSUME NEW s, s # {} PROVE Pick(s) \in s
BY DEF Pick

\* A set of numbers that holds 0 and, with a number, the next one holds all of them.
LEMMA NumbersInduction ==
  ASSUME NEW Good \in SUBSET Nat, 0 \in Good, \A n \in Good : n + 1 \in Good
  PROVE  Good = Nat
<1>. SUFFICES ASSUME Nat \ Good # {} PROVE FALSE
  OBVIOUS
<1>1. PICK n \in Nat \ Good : \A m \in Nat \ Good : ~(<<m, n>> \in OpToRel(<, Nat))
  <2>1. \E n \in Nat \ Good : \A m \in Nat \ Good : ~(<<m, n>> \in OpToRel(<, Nat))
    BY NatLessThanWellFounded, WFMin
  <2>. QED  BY <2>1
<1>2. n - 1 \in Nat /\ n - 1 < n
  OBVIOUS
<1>3. <<n - 1, n>> \in OpToRel(<, Nat)
  BY <1>2 DEF OpToRel
<1>4. n - 1 \in Good
  BY <1>1, <1>2, <1>3
<1>. QED  BY <1>2, <1>4

Upto(S, n) == {s \in SUBSET S : Cardinality(s) <= n}

LEMMA UptoNext ==
  ASSUME NEW S, IsFiniteSet(S), NEW n \in Nat, NEW s \in Upto(S, n + 1), s # {}
  PROVE  s \ {Pick(s)} \in Upto(S, n)
<1>1. IsFiniteSet(s) /\ Pick(s) \in s /\ s \in SUBSET S /\ Cardinality(s) <= n + 1
  BY PickIn, FS_Subset DEF Upto
<1>2. Cardinality(s \ {Pick(s)}) = Cardinality(s) - 1
  BY <1>1, FS_RemoveElement
<1>3. Cardinality(s) \in Nat
  BY <1>1, FS_CardinalityType
<1>. QED  BY <1>1, <1>2, <1>3 DEF Upto

LEMMA UptoZero ==
  ASSUME NEW S, IsFiniteSet(S)
  PROVE  \A s \in Upto(S, 0) : s = {}
<1>. TAKE s \in Upto(S, 0)
<1>1. IsFiniteSet(s) /\ Cardinality(s) \in Nat /\ Cardinality(s) <= 0
  BY FS_Subset, FS_CardinalityType DEF Upto
<1>. QED  BY <1>1, FS_EmptySet

\* The equation has a solution.
LEMMA SumsExist ==
  ASSUME NEW S, IsFiniteSet(S), NEW f
  PROVE  \E sum : Sums(sum, f, SUBSET S)
<1>. DEFINE Good == {n \in Nat : \E sum : Sums(sum, f, Upto(S, n))}
<1>1. 0 \in Good
  <2>2. Sums([s \in Upto(S, 0) |-> 0], f, Upto(S, 0))
    BY UptoZero DEF Sums
  <2>. QED  BY <2>2
<1>2. ASSUME NEW n \in Good PROVE n + 1 \in Good
  <2>1. PICK g : Sums(g, f, Upto(S, n))
    BY <1>2
  <2>. DEFINE Term(s) == IF s = {} THEN 0 ELSE f[Pick(s)] + g[s \ {Pick(s)}]
              h == [s \in Upto(S, n + 1) |-> Term(s)]
  <2>2. \A s \in Upto(S, n) : g[s] = Term(s)
    BY <2>1 DEF Sums
  <2>3. n \in Nat /\ \A s \in Upto(S, n) : s \in Upto(S, n + 1)
    <3>1. \A s \in SUBSET S : Cardinality(s) \in Nat
      BY FS_Subset, FS_CardinalityType
    <3>. QED  BY <3>1, <1>2 DEF Upto
  <2>4. \A s \in Upto(S, n + 1) : s # {} => h[s \ {Pick(s)}] = g[s \ {Pick(s)}]
    <3>. TAKE s \in Upto(S, n + 1)
    <3>. HAVE s # {}
    <3>. DEFINE t == s \ {Pick(s)}
    <3>1. t \in Upto(S, n)
      BY <2>3, UptoNext
    <3>. HIDE DEF t
    <3>2. h[t] = Term(t)
      BY <2>3, <3>1
    <3>3. g[t] = Term(t)
      BY <2>2, <3>1
    <3>4. h[t] = g[t]
      BY <3>2, <3>3
    <3>. QED  BY <3>4 DEF t
  <2>5. Sums(h, f, Upto(S, n + 1))
    BY <2>4 DEF Sums
  <2>. QED  BY <2>3, <2>5
<1>3. Good = Nat
  BY <1>1, <1>2, NumbersInduction
<1>4. PICK sum : Sums(sum, f, Upto(S, Cardinality(S)))
  <2>1. Cardinality(S) \in Good
    BY <1>3, FS_CardinalityType
  <2>. QED  BY <2>1
<1>5. Upto(S, Cardinality(S)) = SUBSET S
  BY FS_Subset DEF Upto
<1>. QED  BY <1>4, <1>5

\* Induction over the subsets of a finite set, an element at a time.
LEMMA SubsetInduction ==
  ASSUME NEW S, IsFiniteSet(S), NEW Good \in SUBSET (SUBSET S), {} \in Good,
         \A s \in SUBSET S : s # {} /\ s \ {Pick(s)} \in Good => s \in Good
  PROVE  Good = SUBSET S
<1>. DEFINE Fine == {n \in Nat : Upto(S, n) \subseteq Good}
<1>1. 0 \in Fine
  BY UptoZero
<1>2. ASSUME NEW n \in Fine PROVE n + 1 \in Fine
  <2>1. ASSUME NEW s \in Upto(S, n + 1) PROVE s \in Good
    <3>1. CASE s = {}
      BY <3>1
    <3>2. CASE s # {}
      BY <3>2, UptoNext DEF Upto
    <3>. QED  BY <3>1, <3>2
  <2>. QED  BY <2>1
<1>3. Fine = Nat
  <2>. HIDE DEF Fine
  <2>1. Fine \in SUBSET Nat
    BY DEF Fine
  <2>. QED  BY <1>1, <1>2, <2>1, NumbersInduction
<1>4. Upto(S, Cardinality(S)) \subseteq Good
  BY <1>3, FS_CardinalityType
<1>5. Upto(S, Cardinality(S)) = SUBSET S
  BY FS_Subset DEF Upto
<1>. QED  BY <1>4, <1>5

\* If one element weighs at most k more and no other weighs more, so does their sum.
LEMMA SumsGrow ==
  ASSUME NEW S, IsFiniteSet(S), NEW f, NEW g, NEW F, NEW G, NEW c, NEW k \in Nat,
         Sums(F, f, SUBSET S), Sums(G, g, SUBSET S),
         \A d \in S : f[d] \in Nat /\ g[d] \in Nat,
         \A d \in S : g[d] <= IF d = c THEN f[d] + k ELSE f[d]
  PROVE  F[S] \in Nat /\ G[S] \in Nat /\ G[S] <= F[S] + k
<1>. DEFINE Good == {s \in SUBSET S : /\ F[s] \in Nat /\ G[s] \in Nat
                                      /\ G[s] <= IF c \in s THEN F[s] + k ELSE F[s]}
<1>1. {} \in Good
  BY DEF Sums
<1>2. ASSUME NEW s \in SUBSET S, s # {}, s \ {Pick(s)} \in Good PROVE s \in Good
  <2>. DEFINE x == Pick(s)
              t == s \ {x}
  <2>1. x \in s /\ x \notin t /\ t \in SUBSET S /\ (c \in s <=> c \in t \/ c = x)
    BY <1>2, PickIn
  <2>2. F[s] = f[x] + F[t] /\ G[s] = g[x] + G[t]
    BY <1>2 DEF Sums
  <2>3. F[t] \in Nat /\ G[t] \in Nat /\ (G[t] <= IF c \in t THEN F[t] + k ELSE F[t])
    BY <1>2
  <2>4. f[x] \in Nat /\ g[x] \in Nat /\ (g[x] <= IF x = c THEN f[x] + k ELSE f[x])
    BY <2>1
  <2>. HIDE DEF x, t
  <2>5. F[s] \in Nat /\ G[s] \in Nat /\ (G[s] <= IF c \in s THEN F[s] + k ELSE F[s])
    BY <2>1, <2>2, <2>3, <2>4
  <2>. QED  BY <2>5
<1>3. Good = SUBSET S
  <2>. HIDE DEF Good
  <2>1. Good \in SUBSET (SUBSET S)
    BY DEF Good
  <2>. QED  BY <1>1, <1>2, <2>1, SubsetInduction
<1>. QED  BY <1>3

-----------------------------------------------------------------------------
(* What the agents of a run believe to have spent.                         *)

\* The state of an agent at rest, and the state the meta-graph keeps of it.
Settled ==
  /\ \A c \in Agent :
       /\ pc[c] = "idle" => delta[c] = NoDelta
       /\ outer[c].cost_spent_usd <= memory[c].cost_spent_usd
  /\ \A r \in Run : execution[r] >= 1

LEMMA StateTypes ==
  ASSUME TypeOK, NEW c \in Agent
  PROVE  /\ memory[c].cost_spent_usd \in Nat /\ outer[c].cost_spent_usd \in Nat
         /\ memory[c].step_count \in Nat /\ delta[c].cost \in Nat
         /\ memory[c].scratchpad \in Seq(Nat) /\ delta[c].scratchpad \in Seq(Nat)
         /\ outer[c].scratchpad \in Seq(Nat)
         /\ RunOf[c] \in Run
BY RunAndCostTypes DEF TypeOK, State

\* No agent of a run is active: all of them are at rest.
LEMMA AllIdle ==
  ASSUME TypeOK, Settled, NEW r \in Run, Active(r) = {}, NEW c \in Crew(r)
  PROVE  pc[c] = "idle" /\ delta[c] = NoDelta
<1>1. c \in Agent /\ c \notin Active(r)
  BY DEF Crew
<1>2. pc[c] = "idle"
  BY <1>1 DEF Active, At, TypeOK
<1>. QED  BY <1>1, <1>2 DEF Settled

LEMMA MergeCost ==
  ASSUME NEW left \in State, NEW right \in State
  PROVE  /\ Merge(left, right).cost_spent_usd \in Nat
         /\ left.cost_spent_usd <= Merge(left, right).cost_spent_usd
         /\ left.cost_spent_usd <= right.cost_spent_usd
              => Merge(left, right).cost_spent_usd = right.cost_spent_usd
BY DEF Merge, Larger, State

\* What an agent believes to have spent: its state and the delta of the step under way.
Believed == [c \in Agent |-> memory[c].cost_spent_usd + delta[c].cost]

LEMMA CommitState ==
  ASSUME TypeOK, Settled, NEW r \in Run, Commit(r), NEW c \in Agent
  PROVE  /\ outer' = outer
         /\ RunOf[c] # r => memory'[c] = memory[c] /\ delta'[c] = delta[c] /\ pc'[c] = pc[c]
         /\ RunOf[c] = r => /\ pc'[c] = "idle" /\ delta'[c] = NoDelta
                            /\ \/ memory'[c] = memory[c] /\ delta[c] = NoDelta
                               \/ memory'[c] = Merge(memory[c], StepState(c))
<1>1. c \in Active(r) <=> RunOf[c] = r /\ pc[c] # "idle"
  BY DEF Active, At, Crew, TypeOK
<1>. QED  BY <1>1 DEF Commit, Rest, Settled

LEMMA ReturnState ==
  ASSUME TypeOK, Settled, NEW r \in Run, ReturnSub(r), NEW c \in Agent
  PROVE  /\ delta' = delta /\ pc' = pc /\ memory'[c] = (IF RunOf[c] = r THEN outer'[c] ELSE memory[c])
         /\ outer'[c] = (IF RunOf[c] = r THEN Merge(outer[c], memory[c]) ELSE outer[c])
         /\ RunOf[c] = r => delta[c] = NoDelta
<1>1. RunOf[c] = r => delta[c] = NoDelta
  BY AllIdle DEF ReturnSub, Crew
<1>. QED  BY <1>1 DEF ReturnSub, agents

LEMMA DropState ==
  ASSUME NEW r \in Run, Abort(r) \/ Crash(r) \/ Resume(r), NEW c \in Agent
  PROVE  /\ outer' = outer
         /\ memory'[c] = memory[c] \/ (RunOf[c] = r /\ memory'[c] = outer[c])
         /\ \/ RunOf[c] = r /\ pc'[c] = "idle" /\ delta'[c] = NoDelta
            \/ (RunOf[c] # r \/ Resume(r)) /\ pc'[c] = pc[c] /\ delta'[c] = delta[c]
BY DEF Abort, Crash, Resume, Rest, agents

LEMMA OtherState ==
  ASSUME NEW r \in Run, (\E g \in SUBSET Agent : Begin(r, g)) \/ LeaveGraph(r) \/ Finalize(r) \/ Judge(r)
  PROVE  UNCHANGED <<delta, memory, outer>>
BY DEF Begin, LeaveGraph, Finalize, Judge, agents

LEMMA AgentState ==
  ASSUME TypeOK, NEW c \in Agent, AgentStep(c)
  PROVE  /\ UNCHANGED <<memory, outer, stage, execution, reported>>
         /\ pc[c] # "idle" /\ pc'[c] # "idle" /\ \A d \in Agent : d # c => pc'[d] = pc[d] /\ delta'[d] = delta[d]
         /\ \/ delta' = delta
            \/ \E cost \in Cost :
                 /\ Charge(RunOf[c], cost)
                 /\ delta'[c] = [scratchpad |-> Append(delta[c].scratchpad, memory[c].step_count + 1),
                                 cost |-> cost]
            \/ delta'[c] = [delta[c] EXCEPT !.scratchpad = @ \o Times(2, memory[c].step_count + 1)]
<1>1. /\ UNCHANGED <<memory, outer, stage, execution, reported>>
      /\ pc[c] # "idle" /\ pc'[c] # "idle" /\ \A d \in Agent : d # c => pc'[d] = pc[d]
  BY DEF AgentStep, Check, Transient, TriesAgain, Fatal, AnswerSummary, AnswerReply, RunTool, Goto, money, TypeOK
<1>2. CASE Check(c) \/ Transient(c) \/ Fatal(c) \/ AnswerSummary(c)
  BY <1>1, <1>2 DEF Check, Transient, Fatal, AnswerSummary
<1>3. CASE AnswerReply(c)
  BY <1>1, <1>3 DEF AnswerReply, TypeOK
<1>4. CASE RunTool(c)
  BY <1>1, <1>4 DEF RunTool, TypeOK
<1>. QED  BY <1>2, <1>3, <1>4 DEF AgentStep

LEMMA SettledStep == ASSUME TypeOK, Together, Settled, [Next]_vars PROVE Settled'
<1>1. ASSUME NEW c \in Agent, AgentStep(c) PROVE Settled'
  BY <1>1, AgentState DEF Settled
<1>2. ASSUME NEW r \in Run, (\E g \in SUBSET Agent : Begin(r, g)) \/ LeaveGraph(r) \/ Finalize(r) \/ Judge(r)
      PROVE  Settled'
  <2>1. execution' = execution /\ \A c \in Agent : pc'[c] = "idle" => pc[c] = "idle"
    BY <1>2 DEF Begin, LeaveGraph, Finalize, Judge, agents
  <2>. QED  BY <1>2, <2>1, OtherState DEF Settled
<1>3. ASSUME NEW r \in Run, Commit(r) PROVE Settled'
  <2>1. execution' = execution
    BY <1>3 DEF Commit
  <2>2. ASSUME NEW c \in Agent
        PROVE  outer[c].cost_spent_usd <= Merge(memory[c], StepState(c)).cost_spent_usd
    <3>1. memory[c] \in State /\ StepState(c) \in State
      BY StepStateType DEF TypeOK
    <3>2. outer[c].cost_spent_usd <= memory[c].cost_spent_usd
      BY DEF Settled
    <3>. QED  BY <3>1, <3>2, MergeCost, StateTypes
  <2>. QED  BY <1>3, <2>1, <2>2, CommitState DEF Settled
<1>4. ASSUME NEW r \in Run, ReturnSub(r) PROVE Settled'
  <2>1. execution' = execution
    BY <1>4 DEF ReturnSub
  <2>2. ASSUME NEW c \in Agent
        PROVE  outer'[c].cost_spent_usd <= memory'[c].cost_spent_usd
    <3>1. CASE RunOf[c] = r
      <4>1. outer'[c] = memory'[c] /\ outer'[c].cost_spent_usd \in Nat
        <5>1. outer[c] \in State /\ memory[c] \in State
          BY DEF TypeOK
        <5>. QED  BY <1>4, <3>1, <5>1, ReturnState, MergeCost
      <4>. QED  BY <4>1
    <3>. QED  BY <1>4, <3>1, ReturnState DEF Settled
  <2>. QED  BY <1>4, <2>1, <2>2, ReturnState DEF Settled
<1>5. ASSUME NEW r \in Run, Abort(r) \/ Crash(r) \/ Resume(r) PROVE Settled'
  <2>1. execution' = execution \/ execution' = [execution EXCEPT ![r] = @ + 1]
    BY <1>5 DEF Abort, Crash, Resume
  <2>2. execution \in [Run -> Nat]
    BY DEF TypeOK
  <2>3. ASSUME NEW c \in Agent PROVE outer'[c].cost_spent_usd <= memory'[c].cost_spent_usd
    BY <1>5, DropState, StateTypes DEF Settled
  <2>4. ASSUME NEW c \in Agent, pc'[c] = "idle" PROVE delta'[c] = NoDelta
    BY <1>5, <2>4, DropState DEF Settled
  <2>5. \A q \in Run : execution'[q] >= 1
    BY <2>1, <2>2 DEF Settled
  <2>. QED  BY <2>3, <2>4, <2>5 DEF Settled
<1>6. CASE UNCHANGED vars
  BY <1>6 DEF vars, agents, Settled
<1>. QED  BY <1>1, <1>2, <1>3, <1>4, <1>5, <1>6 DEF Next, RunStep

\* The agents of a run believe to have spent no more than b.
BelievedWithin(q, b) ==
  \A sum : Sums(sum, Believed, SUBSET Crew(q)) => sum[Crew(q)] <= b

\* While the first execution of q lasts, its tracker counted what the agents believe, and
\* once the cost is reported, so did the report.
Accounts(q) ==
  execution[q] = 1 =>
    /\ BelievedWithin(q, totals[q].run)
    /\ stage[q] \in {"judging", "completed"} =>
         BelievedWithin(q, reported[q]) /\ reported[q] <= totals[q].run

BelievedWithinNext(q, b) ==
  \A sum : Sums(sum, Believed', SUBSET Crew(q)) => sum[Crew(q)] <= b

LEMMA BelievedGrows ==
  ASSUME TypeOK, TypeOK', NEW q \in Run, NEW c, NEW k \in Nat, NEW b \in Nat, NEW e \in Nat,
         BelievedWithin(q, b), b + k <= e,
         \A d \in Crew(q) : Believed'[d] <= IF d = c THEN Believed[d] + k ELSE Believed[d]
  PROVE  BelievedWithinNext(q, e)
<1>. DEFINE S == Crew(q)
<1>1. S \subseteq Agent /\ IsFiniteSet(S)
  BY CallsAssumption, FS_Subset DEF Crew
<1>2. \A d \in S : Believed[d] \in Nat /\ Believed'[d] \in Nat
  <2>1. \A d \in S : Believed[d] \in Nat
    BY <1>1, StateTypes DEF Believed
  <2>2. ASSUME NEW d \in S PROVE Believed'[d] \in Nat
    <3>. DEFINE n == memory'[d].cost_spent_usd  y == delta'[d].cost
    <3>1. n \in Nat /\ y \in Nat
      BY <1>1 DEF TypeOK, State
    <3>2. Believed'[d] = n + y
      BY <1>1 DEF Believed
    <3>. HIDE DEF n, y
    <3>. QED  BY <3>1, <3>2
  <2>. QED  BY <2>1, <2>2
<1>. SUFFICES ASSUME NEW G, Sums(G, Believed', SUBSET S) PROVE G[S] <= e
  BY DEF BelievedWithinNext
<1>3. PICK F : Sums(F, Believed, SUBSET S)
  BY <1>1, SumsExist
<1>4. F[S] \in Nat /\ G[S] \in Nat /\ G[S] <= F[S] + k
  <2>. HIDE DEF S
  <2>1. \A d \in S : Believed'[d] <= IF d = c THEN Believed[d] + k ELSE Believed[d]
    BY DEF S
  <2>. DEFINE f == Believed  g == Believed'
  <2>2. /\ Sums(F, f, SUBSET S) /\ Sums(G, g, SUBSET S)
        /\ \A d \in S : f[d] \in Nat /\ g[d] \in Nat
        /\ \A d \in S : g[d] <= IF d = c THEN f[d] + k ELSE f[d]
    BY <1>2, <1>3, <2>1
  <2>. HIDE DEF f, g
  <2>. QED  BY <1>1, <2>2, SumsGrow
<1>5. F[S] <= b
  BY <1>3 DEF BelievedWithin
<1>. QED  BY <1>4, <1>5

AccountsInv == TypeOK /\ Together /\ Settled /\ \A q \in Run : Accounts(q)

\* The first execution is under way and nothing of it is reported yet, or its agents rest.
LEMMA BelievedStays ==
  ASSUME AccountsInv, TypeOK', NEW q \in Run, execution'[q] = 1 => execution[q] = 1,
         totals[q].run <= totals'[q].run,
         \A d \in Crew(q) : Believed'[d] <= Believed[d],
         stage'[q] \in {"judging", "completed"} /\ execution[q] = 1 =>
           \/ stage[q] \in {"judging", "completed"} /\ reported'[q] = reported[q]
           \/ reported'[q] = totals'[q].run
  PROVE  Accounts(q)'
<1>. USE DEF AccountsInv
<1>. SUFFICES ASSUME execution[q] = 1 PROVE
       /\ BelievedWithinNext(q, totals'[q].run)
       /\ stage'[q] \in {"judging", "completed"} =>
            BelievedWithinNext(q, reported'[q]) /\ reported'[q] <= totals'[q].run
  BY DEF Accounts, BelievedWithin, BelievedWithinNext
<1>1. /\ totals[q].run \in Nat /\ reported[q] \in Nat
      /\ totals'[q].run \in Nat /\ reported'[q] \in Nat
  BY DEF TypeOK
<1>2. BelievedWithin(q, totals[q].run)
  BY DEF Accounts
<1>3. \A d \in Crew(q) : Believed[d] + 0 = Believed[d]
  BY StateTypes DEF Believed, Crew
<1>4. ASSUME NEW b \in Nat, NEW e \in Nat, b <= e, BelievedWithin(q, b)
      PROVE  BelievedWithinNext(q, e)
  <2>1. \A d \in Crew(q) : Believed'[d] <= IF d = 0 THEN Believed[d] + 0 ELSE Believed[d]
    BY <1>3
  <2>2. b + 0 <= e
    BY <1>4
  <2>. QED  BY <1>4, <2>1, <2>2, BelievedGrows
<1>5. BelievedWithinNext(q, totals'[q].run)
  BY <1>1, <1>2, <1>4
<1>6. CASE stage[q] \in {"judging", "completed"} /\ reported'[q] = reported[q]
  <2>1. BelievedWithin(q, reported[q]) /\ reported[q] <= totals[q].run
    BY <1>6 DEF Accounts
  <2>2. BelievedWithinNext(q, reported'[q])
    BY <1>1, <1>4, <1>6, <2>1
  <2>. QED  BY <1>1, <1>5, <1>6, <2>1, <2>2
<1>7. CASE reported'[q] = totals'[q].run
  BY <1>1, <1>5, <1>7
<1>. QED  BY <1>5, <1>6, <1>7

LEMMA AccountsAgentStep ==
  ASSUME AccountsInv, TypeOK', NEW c \in Agent, AgentStep(c), NEW q \in Run
  PROVE  Accounts(q)'
<1>. USE DEF AccountsInv
<1>0. /\ stage' = stage /\ execution' = execution /\ reported' = reported /\ memory' = memory
      /\ \A d \in Agent : d # c => delta'[d] = delta[d]
  BY AgentState
<1>1. c \in Active(RunOf[c]) /\ stage[RunOf[c]] = "graph"
  <2>1. c \in Active(RunOf[c])
    BY AgentState DEF Active, At, Crew, TypeOK
  <2>. QED  BY <2>1, StateTypes DEF Together
<1>2. RunOf[c] \in Run
  BY StateTypes
<1>3. totals[q].run <= totals'[q].run
  <2>1. CASE totals' = totals
    BY <2>1, RunTotals
  <2>2. ASSUME NEW cost \in Cost, Charge(RunOf[c], cost) PROVE totals[q].run <= totals'[q].run
    <3>1. totals'[q].run = totals[q].run \/ totals'[q].run = totals[q].run + cost
      BY <1>2, <2>2, ChargeEffect
    <3>. QED  BY <3>1, RunAndCostTypes, RunTotals
  <2>. QED  BY <2>1, <2>2, StepEffect DEF Admitted, Answered, Dropped
<1>4. CASE \A d \in Crew(q) : delta'[d].cost = delta[d].cost
  <2>1. \A d \in Crew(q) : Believed'[d] = Believed[d] /\ Believed[d] \in Nat
    BY <1>0, <1>4, StateTypes DEF Believed, Crew
  <2>. QED  BY <1>0, <1>3, <2>1, BelievedStays
<1>5. ASSUME NEW cost \in Cost, Charge(RunOf[c], cost), delta'[c].cost = cost, q = RunOf[c]
      PROVE  Accounts(q)'
  <2>1. totals'[q].run = totals[q].run + cost /\ cost \in Nat
    BY <1>2, <1>5, ChargeEffect, RunAndCostTypes
  <2>2. totals[q].run \in Nat /\ totals'[q].run \in Nat
    BY RunTotals, <2>1
  <2>3. ASSUME NEW d \in Crew(q)
        PROVE  Believed'[d] <= IF d = c THEN Believed[d] + cost ELSE Believed[d]
    <3>1. d \in Agent
      BY DEF Crew
    <3>. DEFINE m == memory[d].cost_spent_usd  x == delta[d].cost  y == delta'[d].cost
    <3>2. /\ Believed[d] = m + x /\ Believed'[d] = m + y
          /\ m \in Nat /\ x \in Nat
          /\ IF d = c THEN y = cost ELSE y = x
      BY <1>0, <1>5, <3>1, StateTypes DEF Believed
    <3>. HIDE DEF m, x, y
    <3>. QED  BY <2>1, <3>2
  <2>4. stage'[q] \notin {"judging", "completed"}
    BY <1>0, <1>1, <1>5
  <2>5. execution[q] = 1 => BelievedWithinNext(q, totals'[q].run)
    <3>. HAVE execution[q] = 1
    <3>1. BelievedWithin(q, totals[q].run) /\ totals[q].run + cost <= totals'[q].run
      BY <2>1, <2>2 DEF Accounts
    <3>. QED  BY <2>1, <2>2, <2>3, <3>1, BelievedGrows
  <2>. QED  BY <1>0, <2>4, <2>5 DEF Accounts, BelievedWithin, BelievedWithinNext
<1>6. \/ \A d \in Crew(q) : delta'[d].cost = delta[d].cost
      \/ q = RunOf[c] /\ \E cost \in Cost : Charge(RunOf[c], cost) /\ delta'[c].cost = cost
  <2>1. CASE q # RunOf[c]
    BY <1>0, <2>1 DEF Crew
  <2>2. CASE delta' = delta
    BY <2>2
  <2>3. CASE delta'[c] = [delta[c] EXCEPT !.scratchpad = @ \o Times(2, memory[c].step_count + 1)]
    <3>1. delta[c] \in [scratchpad : Seq(Nat), cost : Nat]
      BY DEF TypeOK
    <3>2. delta'[c].cost = delta[c].cost
      BY <2>3, <3>1
    <3>. QED  BY <1>0, <3>2 DEF Crew
  <2>4. ASSUME NEW cost \in Cost, Charge(RunOf[c], cost),
               delta'[c] = [scratchpad |-> Append(delta[c].scratchpad, memory[c].step_count + 1),
                            cost |-> cost]
        PROVE  delta'[c].cost = cost
    BY <2>4
  <2>. QED  BY <2>1, <2>2, <2>3, <2>4, AgentState
<1>. QED  BY <1>4, <1>5, <1>6

LEMMA AccountsRunStep ==
  ASSUME AccountsInv, TypeOK', NEW r \in Run, RunStep(r) \/ Crash(r) \/ Resume(r), NEW q \in Run
  PROVE  Accounts(q)'
<1>. USE DEF AccountsInv
<1>0. \A d \in Agent : /\ memory[d].cost_spent_usd \in Nat /\ delta[d].cost \in Nat
                       /\ outer[d].cost_spent_usd \in Nat
                       /\ outer[d].cost_spent_usd <= memory[d].cost_spent_usd
  BY StateTypes DEF Settled
<1>. DEFINE Quiet == \A d \in Crew(q) : Believed'[d] <= Believed[d]
<1>1. ASSUME UNCHANGED <<delta, memory>> PROVE Quiet
  BY <1>0, <1>1 DEF Believed, Crew
<1>2. totals[q].run \in Nat
  BY RunTotals
<1>3. CASE (\E g \in SUBSET Agent : Begin(r, g)) \/ LeaveGraph(r)
  <2>1. UNCHANGED <<delta, memory>> /\ totals' = totals /\ execution' = execution
    BY <1>3 DEF Begin, LeaveGraph, agents, money
  <2>2. /\ stage'[q] \in {"judging", "completed"} => stage'[q] = stage[q]
        /\ stage'[q] = stage[q] => reported'[q] = reported[q]
    <3>1. CASE LeaveGraph(r)
      <4>1. stage[r] = "graph" /\ stage' = [stage EXCEPT ![r] = "finalizing"]
            /\ \A p \in Run : p # r => reported'[p] = reported[p]
        BY <3>1 DEF LeaveGraph, TypeOK
      <4>. QED  BY <4>1 DEF TypeOK
    <3>2. CASE \E g \in SUBSET Agent : Begin(r, g)
      <4>1. stage' = stage /\ reported' = reported
        BY <3>2 DEF Begin, money
      <4>. QED  BY <4>1
    <3>. QED  BY <1>3, <3>1, <3>2
  <2>. QED  BY <1>1, <1>2, <2>1, <2>2, BelievedStays
<1>4. CASE Finalize(r) \/ Judge(r)
  <2>1. UNCHANGED <<delta, memory>> /\ execution' = execution /\ ClosingCall(r)
    BY <1>4 DEF Finalize, Judge, agents
  <2>2. totals[q].run <= totals'[q].run
    <3>1. CASE UNCHANGED totals
      BY <1>2, <3>1
    <3>2. ASSUME NEW cost \in Cost, Charge(r, cost) PROVE totals[q].run <= totals'[q].run
      <4>1. totals'[q].run = totals[q].run \/ totals'[q].run = totals[q].run + cost
        BY <3>2, ChargeEffect
      <4>. QED  BY <4>1, <1>2, RunAndCostTypes
    <3>. QED  BY <2>1, <3>1, <3>2, ClosingEffect
  <2>3. stage'[q] \in {"judging", "completed"} /\ execution[q] = 1 =>
           \/ stage[q] \in {"judging", "completed"} /\ reported'[q] = reported[q]
           \/ reported'[q] = totals'[q].run
    <3>. SUFFICES ASSUME stage'[q] \in {"judging", "completed"}, execution[q] = 1
                  PROVE  \/ stage[q] \in {"judging", "completed"} /\ reported'[q] = reported[q]
                         \/ reported'[q] = totals'[q].run
      OBVIOUS
    <3>1. CASE Finalize(r)
      <4>1. /\ stage' = [stage EXCEPT ![r] = "judging"]
            /\ reported' = IF execution[r] = 1 THEN [reported EXCEPT ![r] = totals'[r].run] ELSE reported
        BY <3>1 DEF Finalize
      <4>. QED  BY <4>1 DEF TypeOK
    <3>2. CASE Judge(r)
      <4>1. /\ stage[r] = "judging" /\ reported' = reported
            /\ \E s \in {"completed", "failed"} : stage' = [stage EXCEPT ![r] = s]
        BY <3>2 DEF Judge
      <4>. QED  BY <4>1 DEF TypeOK
    <3>. QED  BY <1>4, <3>1, <3>2
  <2>. QED  BY <1>1, <2>1, <2>2, <2>3, BelievedStays
<1>5. CASE Commit(r)
  <2>1. ASSUME NEW d \in Crew(q) PROVE Believed'[d] <= Believed[d]
    <3>1. d \in Agent
      BY DEF Crew
    <3>2. StepState(d) \in State /\ memory[d] \in State
      BY <3>1, StepStateType DEF TypeOK
    <3>. DEFINE m == memory[d].cost_spent_usd  x == delta[d].cost
    <3>3. m \in Nat /\ x \in Nat /\ Believed[d] = m + x
      BY <1>0, <3>1 DEF Believed
    <3>4. Merge(memory[d], StepState(d)).cost_spent_usd = m + x
      <4>1. StepState(d).cost_spent_usd = m + x
        BY DEF StepState
      <4>. HIDE DEF m, x
      <4>2. memory[d].cost_spent_usd <= StepState(d).cost_spent_usd
        BY <3>3, <4>1 DEF m
      <4>. QED  BY <3>2, <4>1, <4>2, MergeCost
    <3>5. Believed'[d] = memory'[d].cost_spent_usd + delta'[d].cost
      BY <3>1 DEF Believed
    <3>6. memory'[d].cost_spent_usd + delta'[d].cost = m + x
      BY <1>5, <3>1, <3>3, <3>4, CommitState DEF NoDelta
    <3>. HIDE DEF m, x
    <3>. QED  BY <3>3, <3>5, <3>6
  <2>2. totals' = totals /\ execution' = execution /\ stage' = stage /\ reported' = reported
    BY <1>5 DEF Commit, money
  <2>. QED  BY <1>2, <2>1, <2>2, BelievedStays
<1>6. CASE ReturnSub(r)
  <2>1. ASSUME NEW d \in Crew(q) PROVE Believed'[d] <= Believed[d]
    <3>1. d \in Agent /\ outer[d] \in State /\ memory[d] \in State
      BY DEF Crew, TypeOK
    <3>2. Merge(outer[d], memory[d]).cost_spent_usd = memory[d].cost_spent_usd
      BY <1>0, <3>1, MergeCost
    <3>3. memory'[d].cost_spent_usd = memory[d].cost_spent_usd /\ delta' = delta
      BY <1>6, <3>1, <3>2, ReturnState
    <3>. QED  BY <1>0, <3>1, <3>3 DEF Believed
  <2>2. totals' = totals /\ execution' = execution /\ stage' = stage /\ reported' = reported
    BY <1>6 DEF ReturnSub, money
  <2>. QED  BY <1>2, <2>1, <2>2, BelievedStays
<1>7. CASE Abort(r) \/ Crash(r)
  <2>1. ASSUME NEW d \in Crew(q) PROVE Believed'[d] <= Believed[d]
    <3>1. d \in Agent
      BY DEF Crew
    <3>. DEFINE m == memory[d].cost_spent_usd  x == delta[d].cost  o == outer[d].cost_spent_usd
                n == memory'[d].cost_spent_usd  y == delta'[d].cost
    <3>2. /\ Believed'[d] = n + y /\ Believed[d] = m + x
          /\ m \in Nat /\ x \in Nat /\ o \in Nat /\ o <= m
      BY <1>0, <3>1 DEF Believed
    <3>3. (n = m \/ n = o) /\ (y = x \/ y = 0)
      BY <1>7, <3>1, DropState DEF NoDelta
    <3>. HIDE DEF m, x, o, n, y
    <3>. QED  BY <3>2, <3>3
  <2>2. totals' = totals /\ execution' = execution /\ reported' = reported
    BY <1>7 DEF Abort, Crash, Lose
  <2>3. stage'[q] \in {"judging", "completed"} => stage'[q] = stage[q]
    <3>1. \E s \in {"graph", "budget_exceeded", "failed"} : stage' = [stage EXCEPT ![r] = s]
      <4>1. CASE Abort(r)
        <5>1. PICK c \in At(r, {"budget", "error"}) : stage' = [stage EXCEPT ![r] = StageAfter(r, pc[c])]
          BY <4>1 DEF Abort
        <5>2. pc[c] \in {"budget", "error"} /\ adaptive[r] \in BOOLEAN
          BY DEF At, TypeOK
        <5>3. StageAfter(r, pc[c]) \in {"graph", "budget_exceeded", "failed"}
          BY <5>2 DEF StageAfter
        <5>. QED  BY <5>1, <5>3
      <4>2. CASE Crash(r)
        BY <4>2 DEF Crash
      <4>. QED  BY <1>7, <4>1, <4>2
    <3>. QED  BY <3>1 DEF TypeOK
  <2>. QED  BY <1>2, <2>1, <2>2, <2>3, BelievedStays
<1>8. CASE Resume(r)
  <2>1. CASE q = r
    <3>1. execution'[r] = execution[r] + 1 /\ execution[r] \in Nat /\ execution[r] >= 1
      BY <1>8 DEF Resume, TypeOK, Settled
    <3>. QED  BY <2>1, <3>1 DEF Accounts
  <2>2. CASE q # r
    <3>1. \A d \in Crew(q) : Believed'[d] = Believed[d] /\ Believed[d] \in Nat
      BY <1>0, <1>8, <2>2 DEF Resume, agents, Believed, Crew
    <3>2. /\ totals'[q] = totals[q] /\ execution'[q] = execution[q]
          /\ stage'[q] = stage[q] /\ reported'[q] = reported[q]
      BY <1>8, <2>2 DEF Resume, TypeOK
    <3>. QED  BY <1>2, <3>1, <3>2, BelievedStays
  <2>. QED  BY <2>1, <2>2
<1>. QED  BY <1>3, <1>4, <1>5, <1>6, <1>7, <1>8 DEF RunStep

LEMMA SumsZero ==
  ASSUME NEW S, IsFiniteSet(S), NEW f, NEW F, Sums(F, f, SUBSET S), \A d \in S : f[d] = 0
  PROVE  F[S] = 0
<1>. DEFINE Good == {s \in SUBSET S : F[s] = 0}
<1>1. {} \in Good
  BY DEF Sums
<1>2. ASSUME NEW s \in SUBSET S, s # {}, s \ {Pick(s)} \in Good PROVE s \in Good
  <2>1. Pick(s) \in S
    BY <1>2, PickIn
  <2>2. F[s] = f[Pick(s)] + F[s \ {Pick(s)}]
    BY <1>2 DEF Sums
  <2>. QED  BY <1>2, <2>1, <2>2
<1>3. Good = SUBSET S
  <2>. HIDE DEF Good
  <2>1. Good \in SUBSET (SUBSET S)
    BY DEF Good
  <2>. QED  BY <1>1, <1>2, <2>1, SubsetInduction
<1>. QED  BY <1>3

LEMMA AccountsHoldFirst == Init => AccountsInv
<1>. SUFFICES ASSUME Init PROVE AccountsInv
  OBVIOUS
<1>1. TypeOK /\ Together
  BY CeilingInit DEF CeilingInv
<1>2. Settled
  BY DEF Init, Settled
<1>3. ASSUME NEW q \in Run PROVE Accounts(q)
  <2>1. \A d \in Agent : Believed[d] = 0
    BY DEF Init, Believed, NoDelta
  <2>2. BelievedWithin(q, totals[q].run)
    <3>1. totals[q].run = 0 /\ Crew(q) \subseteq Agent /\ IsFiniteSet(Crew(q))
      BY CallsAssumption, FS_Subset DEF Init, NewTracker, Crew
    <3>2. ASSUME NEW sum, Sums(sum, Believed, SUBSET Crew(q)) PROVE sum[Crew(q)] <= 0
      <4>. DEFINE f == Believed  S == Crew(q)
      <4>1. Sums(sum, f, SUBSET S) /\ \A d \in S : f[d] = 0
        BY <2>1, <3>1, <3>2
      <4>2. IsFiniteSet(S)
        BY <3>1
      <4>. HIDE DEF f, S
      <4>3. sum[S] = 0
        BY <4>1, <4>2, SumsZero
      <4>. QED  BY <4>3 DEF S
    <3>. QED  BY <3>1, <3>2 DEF BelievedWithin
  <2>3. stage[q] = "graph"
    BY DEF Init
  <2>. QED  BY <2>2, <2>3 DEF Accounts
<1>. QED  BY <1>1, <1>2, <1>3 DEF AccountsInv

LEMMA AccountsStep == AccountsInv /\ [Next]_vars => AccountsInv'
<1>. SUFFICES ASSUME AccountsInv, [Next]_vars PROVE AccountsInv'
  OBVIOUS
<1>1. TypeOK' /\ Together' /\ Settled'
  BY StepTypes, RunTypes, StutterTypes, TogetherStep, SettledStep DEF Next, AccountsInv
<1>2. ASSUME NEW q \in Run PROVE Accounts(q)'
  <2>1. CASE UNCHANGED vars
    <3>1. Believed' = Believed /\ UNCHANGED <<totals, reported, execution, stage>>
      BY <2>1 DEF vars, agents, money, Believed
    <3>. QED  BY <3>1 DEF AccountsInv, Accounts, BelievedWithin
  <2>. QED  BY <1>1, <2>1, AccountsAgentStep, AccountsRunStep DEF Next
<1>. QED  BY <1>1, <1>2 DEF AccountsInv

\* The sum in the property is a solution of the equation of the sums.
LEMMA MemorySum ==
  ASSUME NEW q \in Run
  PROVE  \E sum : /\ Sums(sum, [c \in Agent |-> memory[c].cost_spent_usd], SUBSET Crew(q))
                  /\ MapThenSumSet(LAMBDA c : memory[c].cost_spent_usd, Crew(q)) = sum[Crew(q)]
<1>. DEFINE f == [c \in Agent |-> memory[c].cost_spent_usd]
            S == Crew(q)
            Solves(iter) == iter = [s \in SUBSET S |->
              IF s = {} THEN 0 ELSE memory[CHOOSE x \in s : TRUE].cost_spent_usd + iter[s \ {CHOOSE x \in s : TRUE}]]
<1>1. S \subseteq Agent /\ IsFiniteSet(S)
  BY CallsAssumption, FS_Subset DEF Crew
<1>2. ASSUME NEW iter PROVE Solves(iter) <=> Sums(iter, f, SUBSET S)
  <2>1. \A s \in SUBSET S : s # {} => f[Pick(s)] = memory[Pick(s)].cost_spent_usd
    BY <1>1, PickIn
  <2>2. [s \in SUBSET S |-> IF s = {} THEN 0 ELSE f[Pick(s)] + iter[s \ {Pick(s)}]]
        = [s \in SUBSET S |-> IF s = {} THEN 0
                              ELSE memory[Pick(s)].cost_spent_usd + iter[s \ {Pick(s)}]]
    <3>. HIDE DEF f, S
    <3>. QED  BY <2>1
  <2>. HIDE DEF f, S
  <2>. QED  BY <2>2 DEF Sums, Pick
<1>3. \E iter : Solves(iter)
  <2>. HIDE DEF f, S, Solves
  <2>. QED  BY <1>1, <1>2, SumsExist
<1>4. Solves(CHOOSE iter : Solves(iter))
  <2>. HIDE DEF Solves
  <2>. QED  BY <1>3
<1>5. MapThenSumSet(LAMBDA c : memory[c].cost_spent_usd, S) = (CHOOSE iter : Solves(iter))[S]
  BY DEF MapThenSumSet, MapThenFoldSet
<1>. DEFINE best == CHOOSE iter : Solves(iter)
<1>6. Sums(best, f, SUBSET S)
  <2>. HIDE DEF f, S, Solves
  <2>. QED  BY <1>2, <1>4
<1>7. MapThenSumSet(LAMBDA c : memory[c].cost_spent_usd, S) = best[S]
  BY <1>5
<1>. QED
  <2>. HIDE DEF best
  <2>. QED  BY <1>6, <1>7

\* The agents' own accounts never exceed the report of a first execution, nor the report
\* the tracker: a reply is charged before its cost enters a delta, a delta reaches the
\* state at most once, and an abort only takes from the state what the tracker keeps.
THEOREM CallsCompletedAccounts == Spec => []CompletedAccounts
<1>1. AccountsInv => CompletedAccounts
  <2>. SUFFICES ASSUME AccountsInv, NEW r \in Run, stage[r] = "completed", execution[r] = 1
                PROVE  /\ MapThenSumSet(LAMBDA c : memory[c].cost_spent_usd, Crew(r)) <= reported[r]
                       /\ reported[r] <= totals[r].run
    BY DEF CompletedAccounts
  <2>1. /\ BelievedWithin(r, reported[r]) /\ reported[r] <= totals[r].run
        /\ TypeOK /\ Settled /\ Active(r) = {}
    BY DEF AccountsInv, Accounts, Together
  <2>. DEFINE f == [c \in Agent |-> memory[c].cost_spent_usd]
              S == Crew(r)
  <2>2. S \subseteq Agent /\ IsFiniteSet(S)
    BY CallsAssumption, FS_Subset DEF Crew
  <2>3. ASSUME NEW d \in S PROVE f[d] = Believed[d] /\ f[d] \in Nat
    <3>1. delta[d].cost = 0
      BY <2>1, AllIdle DEF NoDelta
    <3>2. memory[d].cost_spent_usd \in Nat
      BY <2>1, <2>2, StateTypes
    <3>. QED  BY <2>2, <3>1, <3>2 DEF Believed
  <2>4. PICK sum : /\ Sums(sum, f, SUBSET S)
                   /\ MapThenSumSet(LAMBDA c : memory[c].cost_spent_usd, Crew(r)) = sum[S]
    BY MemorySum
  <2>5. PICK F : Sums(F, Believed, SUBSET S)
    <3>. HIDE DEF S
    <3>. QED  BY <2>2, SumsExist
  <2>6. F[S] <= reported[r]
    BY <2>1, <2>5 DEF BelievedWithin
  <2>7. sum[S] <= F[S] + 0 /\ sum[S] \in Nat /\ F[S] \in Nat
    <3>. DEFINE b == Believed
    <3>1. \A d \in S : b[d] \in Nat /\ f[d] \in Nat
      BY <2>3
    <3>2. \A d \in S : f[d] <= IF d = 0 THEN b[d] + 0 ELSE b[d]
      BY <2>3, <3>1
    <3>3. Sums(F, b, SUBSET S)
      BY <2>5
    <3>. HIDE DEF b, f, S
    <3>. QED  BY <2>2, <2>4, <3>1, <3>2, <3>3, SumsGrow
  <2>8. reported[r] \in Nat
    BY <2>1 DEF TypeOK
  <2>. QED  BY <2>1, <2>4, <2>6, <2>7, <2>8
<1>. QED  BY <1>1, AccountsHoldFirst, AccountsStep, PTL DEF Spec

-----------------------------------------------------------------------------
(* What an agent remembers.                                                *)

OneStep(s) == \A i, j \in DOMAIN s : s[i] = s[j]

\* Every scratchpad is of one step, and the delta's of the step after the state's.
Remembered(c) ==
  /\ OneStep(memory[c].scratchpad) /\ OneStep(outer[c].scratchpad)
  /\ \A i \in DOMAIN delta[c].scratchpad : delta[c].scratchpad[i] = memory[c].step_count + 1

RememberedInv == TypeOK /\ Together /\ Settled /\ \A c \in Agent : Remembered(c)

LEMMA MergeRemembers ==
  ASSUME NEW left, NEW right, OneStep(left.scratchpad), OneStep(right.scratchpad)
  PROVE  OneStep(Merge(left, right).scratchpad)
BY DEF Merge, Longer

LEMMA EventsOf ==
  ASSUME NEW s \in Seq(Nat), NEW n \in Nat, \A i \in DOMAIN s : s[i] = n
  PROVE  /\ \A i \in DOMAIN Append(s, n) : Append(s, n)[i] = n
         /\ \A i \in DOMAIN (s \o Times(2, n)) : (s \o Times(2, n))[i] = n
<1>1. \A i \in 1 .. Len(s) : s[i] = n
  OBVIOUS
<1>2. Times(2, n) \in Seq(Nat) /\ Len(Times(2, n)) = 2 /\ \A i \in 1 .. 2 : Times(2, n)[i] = n
  BY DEF Times
<1>3. \A i \in DOMAIN Append(s, n) : Append(s, n)[i] = n
  BY <1>1
<1>4. \A i \in DOMAIN (s \o Times(2, n)) : (s \o Times(2, n))[i] = n
  <2>. HIDE DEF Times
  <2>. DEFINE t == Times(2, n)
  <2>1. t \in Seq(Nat) /\ Len(t) = 2 /\ \A i \in 1 .. 2 : t[i] = n
    BY <1>2
  <2>. HIDE DEF t
  <2>2. \A i \in DOMAIN (s \o t) : (s \o t)[i] = n
    <3>. TAKE i \in DOMAIN (s \o t)
    <3>1. i \in 1 .. Len(s) + 2 /\ Len(s) \in Nat
      <4>1. s \o t \in Seq(Nat)
        BY <2>1, ConcatProperties
      <4>2. Len(s \o t) = Len(s) + Len(t)
        BY <2>1, ConcatProperties
      <4>3. i \in 1 .. Len(s \o t)
        BY <4>1, LenProperties
      <4>. QED  BY <2>1, <4>2, <4>3, LenProperties
    <3>2. (s \o t)[i] = IF i <= Len(s) THEN s[i] ELSE t[i - Len(s)]
      BY <2>1, <3>1
    <3>. QED  BY <1>1, <2>1, <3>1, <3>2
  <2>. QED  BY <2>2 DEF t
<1>. QED  BY <1>3, <1>4

LEMMA NoDeltaRemembered ==
  ASSUME NEW n PROVE \A i \in DOMAIN NoDelta.scratchpad : NoDelta.scratchpad[i] = n
BY DEF NoDelta

LEMMA RememberedAgentStep ==
  ASSUME RememberedInv, NEW d \in Agent, AgentStep(d), NEW c \in Agent
  PROVE  Remembered(c)'
<1>. USE DEF RememberedInv
<1>. DEFINE n == memory[c].step_count + 1  s == delta[c].scratchpad
<1>1. memory' = memory /\ outer' = outer /\ (d # c => delta'[c] = delta[c])
  BY AgentState
<1>2. n \in Nat /\ s \in Seq(Nat) /\ \A i \in DOMAIN s : s[i] = n
  BY DeltaType DEF Remembered
<1>3. delta'[c].scratchpad \in {s, Append(s, n), s \o Times(2, n)}
  <2>1. CASE d # c
    BY <1>1, <2>1
  <2>2. CASE d = c
    <3>1. CASE delta' = delta
      BY <3>1
    <3>2. CASE \E cost \in Cost : delta'[c] = [scratchpad |-> Append(s, n), cost |-> cost]
      BY <3>2
    <3>3. CASE delta'[c] = [delta[c] EXCEPT !.scratchpad = @ \o Times(2, n)]
      <4>1. delta[c] \in [scratchpad : Seq(Nat), cost : Nat]
        BY DEF TypeOK
      <4>. HIDE DEF n
      <4>. QED  BY <3>3, <4>1
    <3>. QED  BY <2>2, <3>1, <3>2, <3>3, AgentState
  <2>. QED  BY <2>1, <2>2
<1>4. \A i \in DOMAIN delta'[c].scratchpad : delta'[c].scratchpad[i] = n
  <2>. DEFINE e == delta'[c].scratchpad
  <2>0. e \in {s, Append(s, n), s \o Times(2, n)}
    BY <1>3
  <2>. HIDE DEF n, s, e
  <2>1. /\ \A i \in DOMAIN Append(s, n) : Append(s, n)[i] = n
        /\ \A i \in DOMAIN (s \o Times(2, n)) : (s \o Times(2, n))[i] = n
    BY <1>2, EventsOf
  <2>2. CASE e = s
    BY <1>2, <2>2 DEF e
  <2>3. CASE e = Append(s, n)
    BY <2>1, <2>3, Zenon DEF e
  <2>4. CASE e = s \o Times(2, n)
    BY <2>1, <2>4, Zenon DEF e
  <2>. QED  BY <2>0, <2>2, <2>3, <2>4
<1>. QED  BY <1>1, <1>4 DEF Remembered

LEMMA RememberedRunStep ==
  ASSUME RememberedInv, NEW r \in Run, RunStep(r) \/ Crash(r) \/ Resume(r), NEW c \in Agent
  PROVE  Remembered(c)'
<1>. USE DEF RememberedInv
<1>0. Remembered(c)
  OBVIOUS
<1>1. CASE (\E g \in SUBSET Agent : Begin(r, g)) \/ LeaveGraph(r) \/ Finalize(r) \/ Judge(r)
  BY <1>0, <1>1, OtherState DEF Remembered
<1>2. CASE Commit(r)
  <2>1. OneStep(Merge(memory[c], StepState(c)).scratchpad)
    <3>1. OneStep(StepState(c).scratchpad)
      BY <1>0 DEF Remembered, StepState, OneStep
    <3>. QED  BY <1>0, <3>1, MergeRemembers DEF Remembered
  <2>2. outer' = outer /\ (memory'[c] = memory[c] \/ memory'[c] = Merge(memory[c], StepState(c)))
    BY <1>2, CommitState
  <2>3. OneStep(memory'[c].scratchpad) /\ OneStep(outer'[c].scratchpad)
    BY <1>0, <2>1, <2>2 DEF Remembered
  <2>4. \A i \in DOMAIN delta'[c].scratchpad : delta'[c].scratchpad[i] = memory'[c].step_count + 1
    <3>1. CASE RunOf[c] = r
      <4>1. delta'[c] = NoDelta
        BY <1>2, <3>1, CommitState
      <4>. QED  BY <4>1, NoDeltaRemembered
    <3>2. CASE RunOf[c] # r
      BY <1>0, <1>2, <3>2, CommitState DEF Remembered
    <3>. QED  BY <3>1, <3>2
  <2>. QED  BY <2>3, <2>4 DEF Remembered
<1>3. CASE ReturnSub(r)
  <2>1. OneStep(Merge(outer[c], memory[c]).scratchpad)
    BY <1>0, MergeRemembers DEF Remembered
  <2>2. CASE RunOf[c] = r
    <3>1. /\ memory'[c] = Merge(outer[c], memory[c]) /\ outer'[c] = memory'[c]
          /\ delta'[c] = NoDelta
      BY <1>3, <2>2, ReturnState
    <3>. QED  BY <2>1, <3>1, NoDeltaRemembered DEF Remembered
  <2>3. CASE RunOf[c] # r
    <3>1. memory'[c] = memory[c] /\ outer'[c] = outer[c] /\ delta'[c] = delta[c]
      BY <1>3, <2>3, ReturnState
    <3>. QED  BY <1>0, <3>1 DEF Remembered
  <2>. QED  BY <2>2, <2>3
<1>4. CASE Abort(r) \/ Crash(r) \/ Resume(r)
  <2>1. Resume(r) /\ RunOf[c] = r => delta[c] = NoDelta
    <3>1. Resume(r) => Active(r) = {}
      BY DEF Resume, Together
    <3>. QED  BY <3>1, AllIdle DEF Crew
  <2>2. CASE delta'[c] = NoDelta
    BY <1>0, <1>4, <2>2, DropState, NoDeltaRemembered DEF Remembered
  <2>3. CASE RunOf[c] # r /\ delta'[c] = delta[c]
    BY <1>0, <1>4, <2>3, DropState DEF Remembered
  <2>. QED  BY <1>4, <2>1, <2>2, <2>3, DropState
<1>. QED  BY <1>1, <1>2, <1>3, <1>4 DEF RunStep

\* Whatever the merges, aborts and resumes, the scratchpad of an agent is the one of a
\* single step of its: no merge mixes the events of two.
THEOREM CallsOneStepRemembered == Spec => []OneStepRemembered
<1>1. Init => RememberedInv
  <2>. SUFFICES ASSUME Init PROVE RememberedInv
    OBVIOUS
  <2>1. TypeOK /\ Together
    BY CeilingInit DEF CeilingInv
  <2>2. Settled
    BY DEF Init, Settled
  <2>3. \A c \in Agent : Remembered(c)
    <3>. TAKE c \in Agent
    <3>1. memory[c].scratchpad = << >> /\ outer[c].scratchpad = << >> /\ delta[c] = NoDelta
      BY DEF Init
    <3>2. OneStep(<< >>)
      BY DEF OneStep
    <3>. QED  BY <3>1, <3>2, NoDeltaRemembered DEF Remembered
  <2>. QED  BY <2>1, <2>2, <2>3 DEF RememberedInv
<1>2. RememberedInv /\ [Next]_vars => RememberedInv'
  <2>. SUFFICES ASSUME RememberedInv, [Next]_vars PROVE RememberedInv'
    OBVIOUS
  <2>1. TypeOK' /\ Together' /\ Settled'
    BY StepTypes, RunTypes, StutterTypes, TogetherStep, SettledStep DEF Next, RememberedInv
  <2>2. ASSUME NEW c \in Agent PROVE Remembered(c)'
    <3>1. CASE UNCHANGED vars
      BY <3>1 DEF vars, agents, RememberedInv, Remembered
    <3>. QED  BY <3>1, RememberedAgentStep, RememberedRunStep DEF Next
  <2>. QED  BY <2>1, <2>2 DEF RememberedInv
<1>3. RememberedInv => OneStepRemembered
  BY DEF RememberedInv, Remembered, OneStep, OneStepRemembered
<1>. QED  BY <1>1, <1>2, <1>3, PTL DEF Spec
=============================================================================
