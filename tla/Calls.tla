-------------------------------- MODULE Calls --------------------------------
(***************************************************************************)
(* How a run spends money: Agent.step and its tool loop (agents/base.py),  *)
(* LLMWrapper.ainvoke (llm/wrapper.py) with the retries of llm/retry.py    *)
(* and the ceilings of llm/budget.py, the merge of the agents' deltas      *)
(* (core/reducers.py), and what run_one does with an error and with the    *)
(* total (experiment/runner.py).                                           *)
(*                                                                         *)
(* The agents of one superstep run as asyncio tasks of one process, so a   *)
(* step is the code between two awaits that suspend. A lock of the tracker *)
(* is never contended: nothing suspends while it is held. Money is counted *)
(* in units; a call's estimate and its price are both in 0 .. MaxCost.     *)
(***************************************************************************)
EXTENDS Naturals, Sequences, FiniteSets, FiniteSetsExt

CONSTANTS
  Run, Agent,
  RunOf,           \* the run an agent works in
  Width,           \* agents in one superstep at most: the two debaters, else one
  MaxCost,         \* the dearest call
  CallLimit, RunLimit, ExperimentLimit,   \* cfg.budget
  MaxRetries,      \* RetryPolicy.max_retries
  MaxToolIters,    \* cfg.max_tool_iters
  Window,          \* cfg.window_size
  MaxTurns,        \* bound: supersteps of a run, its resumes included (the topologies' caps)
  MaxExecutions    \* bound: run_one and the resumes after it

ASSUME CallsAssumption ==
  /\ RunOf \in [Agent -> Run]
  /\ IsFiniteSet(Agent)
  /\ {Width, MaxToolIters} \subseteq Nat \ {0}
  /\ {MaxCost, CallLimit, RunLimit, ExperimentLimit, MaxRetries, Window,
      MaxTurns, MaxExecutions} \subseteq Nat

Cost == 0 .. MaxCost
Ended == {"completed", "budget_exceeded", "failed"}

VARIABLES
  adaptive,    \* the run's topology is the meta-graph
  stage,       \* where run_one is
  execution,   \* how often the run was started
  turns,       \* supersteps of the run
  aborts,      \* supersteps of this execution that an error ended
  totals,      \* BudgetTracker._totals
  warned,      \* BudgetTracker._warned
  reported,    \* RunResult.metrics["cost_usd"]
  earlier,     \* observer: what the trackers of the run's earlier executions counted
  billed,      \* observer: what the provider charges for this execution
  refused,     \* observer: a check refused a call of the graph in this execution
  pc,          \* where an agent is in its step
  ask,         \* what its next call is for
  tries,       \* failed attempts of that call
  rounds,      \* rounds of the tool loop
  delta,       \* what the step will return: scratchpad events and the cost of the reply
  memory,      \* the agent's AgentState in the graph that runs it
  outer        \* and in the meta-graph around that graph

money == <<totals, warned, reported, billed, refused>>
agents == <<pc, ask, tries, rounds, delta>>
vars == <<adaptive, earlier, stage, execution, turns, aborts, money, agents, memory, outer>>

State == [step_count : Nat, scratchpad : Seq(Nat), cost_spent_usd : Nat]

TypeOK ==
  /\ adaptive \in [Run -> BOOLEAN]
  /\ stage \in [Run -> {"graph", "finalizing", "judging"} \cup Ended]
  /\ execution \in [Run -> Nat] /\ turns \in [Run -> Nat] /\ aborts \in [Run -> Nat]
  /\ totals \in [Run -> [run : Nat, experiment : Nat]] /\ earlier \in [Run -> Nat]
  /\ warned \in [Run -> SUBSET {"run", "experiment"}]
  /\ reported \in [Run -> Nat] /\ billed \in [Run -> Nat] /\ refused \in [Run -> BOOLEAN]
  /\ pc \in [Agent -> {"idle", "check", "waiting", "tools", "done", "budget", "error"}]
  /\ ask \in [Agent -> {"summary", "reply"}]
  /\ tries \in [Agent -> Nat] /\ rounds \in [Agent -> Nat]
  /\ delta \in [Agent -> [scratchpad : Seq(Nat), cost : Nat]]
  /\ memory \in [Agent -> State] /\ outer \in [Agent -> State]

NoDelta == [scratchpad |-> << >>, cost |-> 0]

\* Every execution has a tracker of its own: the totals of earlier runs and of earlier
\* executions of this run are not in it.
NewTracker == [run |-> 0, experiment |-> 0]

Init ==
  /\ adaptive \in [Run -> BOOLEAN]
  /\ stage = [r \in Run |-> "graph"]
  /\ execution = [r \in Run |-> 1]
  /\ turns = [r \in Run |-> 0] /\ aborts = [r \in Run |-> 0]
  /\ totals = [r \in Run |-> NewTracker] /\ warned = [r \in Run |-> {}]
  /\ earlier = [r \in Run |-> 0]
  /\ reported = [r \in Run |-> 0] /\ billed = [r \in Run |-> 0]
  /\ refused = [r \in Run |-> FALSE]
  /\ pc = [c \in Agent |-> "idle"] /\ ask = [c \in Agent |-> "reply"]
  /\ tries = [c \in Agent |-> 0] /\ rounds = [c \in Agent |-> 0]
  /\ delta = [c \in Agent |-> NoDelta]
  /\ memory = [c \in Agent |-> [step_count |-> 0, scratchpad |-> << >>, cost_spent_usd |-> 0]]
  /\ outer = memory

Crew(r) == {c \in Agent : RunOf[c] = r}
At(r, places) == {c \in Crew(r) : pc[c] \in places}
Active(r) == At(r, {"check", "waiting", "tools", "done", "budget", "error"})
Waiting(r) == At(r, {"waiting"})

-----------------------------------------------------------------------------
(* llm/budget.py                                                           *)

\* Faulty: only the level CALL is checked.
AdmitsCall(r, estimate) == estimate <= CallLimit

\* check: CALL, RUN and EXPERIMENT. Nothing is recorded at the level CALL, whose total
\* stays zero.
Admits(r, estimate) ==
  /\ estimate <= CallLimit
  /\ totals[r].run + estimate <= RunLimit
  /\ totals[r].experiment + estimate <= ExperimentLimit

\* Faulty: a price is recorded once, at the outermost level.
RecordedOnce(t, cost) == [t EXCEPT !.experiment = @ + cost]

\* record, for RUN and for EXPERIMENT.
Recorded(t, cost) == [run |-> t.run + cost, experiment |-> t.experiment + cost]

\* A level is warned about once, at four fifths of its limit.
Warnings(t) ==
  {l \in {"run", "experiment"} :
     5 * t[l] >= 4 * (IF l = "run" THEN RunLimit ELSE ExperimentLimit)}

\* The provider answered; the wrapper parses the usage and prices it.
Charge(r, cost) ==
  LET t == Recorded(totals[r], cost)
  IN /\ totals' = [totals EXCEPT ![r] = t]
     /\ warned' = [warned EXCEPT ![r] = @ \cup Warnings(t)]
     /\ billed' = [billed EXCEPT ![r] = @ + cost]

-----------------------------------------------------------------------------
(* The step of an agent.                                                   *)

\* _maybe_summarize looks at the events that are no longer in the window.
MaySummarize(c) == Len(memory[c].scratchpad) > Window

\* A superstep of the graph starts the agents g together.
Begin(r, g) ==
  /\ stage[r] = "graph" /\ Active(r) = {} /\ turns[r] < MaxTurns
  /\ g # {} /\ g \subseteq Crew(r) /\ Cardinality(g) <= Width
  /\ \E s \in SUBSET {c \in g : MaySummarize(c)} :
       ask' = [c \in Agent |-> IF c \in s THEN "summary" ELSE ask[c]]
  /\ pc' = [c \in Agent |-> IF c \in g THEN "check" ELSE pc[c]]
  /\ turns' = [turns EXCEPT ![r] = @ + 1]
  /\ UNCHANGED <<adaptive, earlier, stage, execution, aborts, money, tries, rounds, delta, memory, outer>>

Goto(c, l) == pc' = [pc EXCEPT ![c] = l]

\* ainvoke estimates the call and checks it; BudgetExceededError leaves the step.
Check(c) ==
  LET r == RunOf[c]
  IN /\ pc[c] = "check"
     /\ \E estimate \in Cost :
          \/ Admits(r, estimate) /\ Goto(c, "waiting") /\ UNCHANGED refused
          \/ ~Admits(r, estimate) /\ Goto(c, "budget") /\ refused' = [refused EXCEPT ![r] = TRUE]
     /\ UNCHANGED <<adaptive, earlier, stage, execution, turns, aborts, totals, warned, reported, billed,
                    ask, tries, rounds, delta, memory, outer>>

\* Faulty: after the last attempt it starts over.
NeverGivesUp(c) ==
  /\ tries' = [tries EXCEPT ![c] = IF @ < MaxRetries THEN @ + 1 ELSE 0]
  /\ UNCHANGED pc

\* with_retry: after a transient error it sleeps and tries again, up to MaxRetries times;
\* then it raises LLMError.
TriesAgain(c) ==
  IF tries[c] < MaxRetries
  THEN tries' = [tries EXCEPT ![c] = @ + 1] /\ UNCHANGED pc
  ELSE Goto(c, "error") /\ UNCHANGED tries

Transient(c) ==
  /\ pc[c] = "waiting"
  /\ TriesAgain(c)
  /\ UNCHANGED <<adaptive, earlier, stage, execution, turns, aborts, money, ask, rounds, delta,
                 memory, outer>>

\* Any other error of the provider leaves the step at once.
Fatal(c) ==
  /\ pc[c] = "waiting"
  /\ Goto(c, "error")
  /\ UNCHANGED <<adaptive, earlier, stage, execution, turns, aborts, money, ask, tries, rounds, delta,
                 memory, outer>>

Times(n, s) == [i \in 1 .. n |-> s]

\* The summary is the answer to a call of its own; the step then asks for the reply.
AnswerSummary(c) ==
  /\ pc[c] = "waiting" /\ ask[c] = "summary"
  /\ \E cost \in Cost : Charge(RunOf[c], cost)
  /\ ask' = [ask EXCEPT ![c] = "reply"]
  /\ tries' = [tries EXCEPT ![c] = 0]
  /\ Goto(c, "check")
  /\ UNCHANGED <<adaptive, earlier, stage, execution, turns, aborts, reported, refused, rounds, delta,
                 memory, outer>>

\* The reply is an event of the scratchpad and ends the loop, unless it calls a tool. The
\* delta carries the cost of the last reply only.
AnswerReply(c) ==
  /\ pc[c] = "waiting" /\ ask[c] = "reply"
  /\ \E cost \in Cost :
       /\ Charge(RunOf[c], cost)
       /\ delta' = [delta EXCEPT ![c] =
            [scratchpad |-> Append(@.scratchpad, memory[c].step_count + 1), cost |-> cost]]
  /\ \E calls_tool \in BOOLEAN : Goto(c, IF calls_tool THEN "tools" ELSE "done")
  /\ tries' = [tries EXCEPT ![c] = 0]
  /\ UNCHANGED <<adaptive, earlier, stage, execution, turns, aborts, reported, refused, ask, rounds,
                 memory, outer>>

\* ainvoke_by_name turns every error of the tool into a failed result, and the loop the
\* one of an unknown name: the call and its observation are two more events either way.
RunTool(c) ==
  /\ pc[c] = "tools"
  /\ delta' = [delta EXCEPT ![c].scratchpad = @ \o Times(2, memory[c].step_count + 1)]
  /\ rounds' = [rounds EXCEPT ![c] = @ + 1]
  /\ Goto(c, IF rounds[c] + 1 < MaxToolIters THEN "check" ELSE "done")
  /\ UNCHANGED <<adaptive, earlier, stage, execution, turns, aborts, money, ask, tries, memory, outer>>

-----------------------------------------------------------------------------
(* The superstep ends.                                                     *)

Larger(a, b) == IF a > b THEN a ELSE b
Longer(left, right) == IF Len(right) >= Len(left) THEN right ELSE left

\* Faulty: the cost of the delta is taken for an increment.
SumMerge(left, right) ==
  [step_count |-> Larger(left.step_count, right.step_count),
   scratchpad |-> Longer(left.scratchpad, right.scratchpad),
   cost_spent_usd |-> left.cost_spent_usd + right.cost_spent_usd]

\* merge_agent_states: counters take the larger value, scratchpads the longer list.
Merge(left, right) ==
  [step_count |-> Larger(left.step_count, right.step_count),
   scratchpad |-> Longer(left.scratchpad, right.scratchpad),
   cost_spent_usd |-> Larger(left.cost_spent_usd, right.cost_spent_usd)]

\* The delta of a step carries the new absolute counters and the new events.
StepState(c) ==
  [step_count |-> memory[c].step_count + 1,
   scratchpad |-> delta[c].scratchpad,
   cost_spent_usd |-> memory[c].cost_spent_usd + delta[c].cost]

\* Faulty: the events of a step are collected in a list of the agent.
RestKeepsDelta(r) ==
  /\ pc' = [c \in Agent |-> IF RunOf[c] = r THEN "idle" ELSE pc[c]]
  /\ ask' = [c \in Agent |-> IF RunOf[c] = r THEN "reply" ELSE ask[c]]
  /\ tries' = [c \in Agent |-> IF RunOf[c] = r THEN 0 ELSE tries[c]]
  /\ rounds' = [c \in Agent |-> IF RunOf[c] = r THEN 0 ELSE rounds[c]]
  /\ UNCHANGED delta

\* No task of the superstep is left, and with it go the locals of its step.
Rest(r) ==
  /\ pc' = [c \in Agent |-> IF RunOf[c] = r THEN "idle" ELSE pc[c]]
  /\ ask' = [c \in Agent |-> IF RunOf[c] = r THEN "reply" ELSE ask[c]]
  /\ tries' = [c \in Agent |-> IF RunOf[c] = r THEN 0 ELSE tries[c]]
  /\ rounds' = [c \in Agent |-> IF RunOf[c] = r THEN 0 ELSE rounds[c]]
  /\ delta' = [c \in Agent |-> IF RunOf[c] = r THEN NoDelta ELSE delta[c]]

\* All agents of the superstep returned: the graph merges their deltas.
Commit(r) ==
  /\ Active(r) # {} /\ Active(r) = At(r, {"done"})
  /\ memory' = [c \in Agent |-> IF c \in Active(r) THEN Merge(memory[c], StepState(c)) ELSE memory[c]]
  /\ Rest(r)
  /\ UNCHANGED <<adaptive, earlier, stage, execution, turns, aborts, money, outer>>

\* Calls cancelled in flight: the provider may charge for each, the tracker does not.
Lose(r, callers) ==
  /\ \E lost \in 0 .. MaxCost * Cardinality(callers) : billed' = [billed EXCEPT ![r] = @ + lost]
  /\ UNCHANGED <<totals, warned, reported, refused>>

\* Faulty: run_one takes an error for an end of the graph like any other.
AnyEnd(r, error) == IF adaptive[r] THEN "graph" ELSE "finalizing"

\* dispatch_topology_node catches every exception of its sub-topology and goes on;
\* otherwise run_one ends the run by the kind of error.
StageAfter(r, error) ==
  CASE adaptive[r] -> "graph"
    [] ~adaptive[r] /\ error = "budget" -> "budget_exceeded"
    [] ~adaptive[r] /\ error = "error" -> "failed"

\* An agent raised: the graph cancels the others and drops every delta of the superstep;
\* the meta-graph drops the whole state of the sub-topology. A run that ends so reports
\* the initial value of budget_spent.
Abort(r) ==
  /\ \E c \in At(r, {"budget", "error"}) : stage' = [stage EXCEPT ![r] = StageAfter(r, pc[c])]
  /\ Lose(r, Waiting(r))
  /\ memory' = [c \in Agent |-> IF RunOf[c] = r /\ adaptive[r] THEN outer[c] ELSE memory[c]]
  /\ aborts' = [aborts EXCEPT ![r] = @ + 1]
  /\ Rest(r)
  /\ UNCHANGED <<adaptive, earlier, execution, turns, outer>>

\* A sub-topology returns: its state is merged into the state of the meta-graph.
ReturnSub(r) ==
  /\ stage[r] = "graph" /\ adaptive[r] /\ Active(r) = {}
  /\ \E c \in Crew(r) : outer[c] # memory[c]
  /\ outer' = [c \in Agent |-> IF RunOf[c] = r THEN Merge(outer[c], memory[c]) ELSE outer[c]]
  /\ memory' = [c \in Agent |-> IF RunOf[c] = r THEN outer'[c] ELSE memory[c]]
  /\ UNCHANGED <<adaptive, earlier, stage, execution, turns, aborts, money, agents>>

-----------------------------------------------------------------------------
(* run_one and _execute_existing_run after the graph.                      *)

\* The graph ends. A resumed run reads the tracker here, before the final call.
LeaveGraph(r) ==
  /\ stage[r] = "graph" /\ Active(r) = {} /\ turns[r] > 0
  /\ adaptive[r] => \A c \in Crew(r) : outer[c] = memory[c]
  /\ stage' = [stage EXCEPT ![r] = "finalizing"]
  /\ reported' = IF execution[r] > 1 THEN [reported EXCEPT ![r] = totals[r].run] ELSE reported
  /\ UNCHANGED <<adaptive, earlier, execution, turns, aborts, totals, warned, billed, refused,
                 agents, memory, outer>>

\* One more call through the run's tracker. Its caller swallows every error, that of the
\* budget too, so a refusal only leaves the answer as it was.
ClosingCall(r) ==
  \/ \E estimate, cost \in Cost : Admits(r, estimate) /\ Charge(r, cost)
  \/ UNCHANGED <<totals, warned, billed>>

\* maybe_finalize_answer; the first execution reads the tracker after it.
Finalize(r) ==
  /\ stage[r] = "finalizing"
  /\ ClosingCall(r)
  /\ reported' = IF execution[r] = 1 THEN [reported EXCEPT ![r] = totals'[r].run] ELSE reported
  /\ stage' = [stage EXCEPT ![r] = "judging"]
  /\ UNCHANGED <<adaptive, earlier, execution, turns, aborts, refused, agents, memory, outer>>

\* compute_quality with the judge's wrapper; then the writer is closed and the row is
\* updated, and an error of either makes the run a failed one.
Judge(r) ==
  /\ stage[r] = "judging"
  /\ ClosingCall(r)
  /\ \E s \in {"completed", "failed"} : stage' = [stage EXCEPT ![r] = s]
  /\ UNCHANGED <<adaptive, earlier, execution, turns, aborts, reported, refused, agents, memory, outer>>

\* The process dies; a later reconcile marks the row as failed.
Crash(r) ==
  /\ stage[r] \notin Ended
  /\ Lose(r, Waiting(r))
  /\ stage' = [stage EXCEPT ![r] = "failed"]
  /\ Rest(r)
  /\ UNCHANGED <<adaptive, earlier, execution, turns, aborts, memory, outer>>

FreshTracker(r) == NewTracker

\* resume_one: a new process, a new tracker; the agents' states are those of the last
\* checkpoint of the outermost graph.
Resume(r) ==
  /\ stage[r] \in {"budget_exceeded", "failed"} /\ execution[r] < MaxExecutions
  /\ stage' = [stage EXCEPT ![r] = "graph"]
  /\ execution' = [execution EXCEPT ![r] = @ + 1]
  /\ aborts' = [aborts EXCEPT ![r] = 0]
  /\ earlier' = [earlier EXCEPT ![r] = @ + totals[r].run]
  /\ totals' = [totals EXCEPT ![r] = FreshTracker(r)]
  /\ warned' = [warned EXCEPT ![r] = {}]
  /\ reported' = [reported EXCEPT ![r] = 0]
  /\ billed' = [billed EXCEPT ![r] = 0]
  /\ refused' = [refused EXCEPT ![r] = FALSE]
  /\ memory' = [c \in Agent |-> IF RunOf[c] = r /\ adaptive[r] THEN outer[c] ELSE memory[c]]
  /\ UNCHANGED <<adaptive, turns, agents, outer>>

-----------------------------------------------------------------------------
AgentStep(c) ==
  \/ Check(c)
  \/ Transient(c)
  \/ Fatal(c)
  \/ AnswerSummary(c)
  \/ AnswerReply(c)
  \/ RunTool(c)

RunStep(r) ==
  \/ \E g \in SUBSET Agent : Begin(r, g)
  \/ Commit(r)
  \/ Abort(r)
  \/ ReturnSub(r)
  \/ LeaveGraph(r)
  \/ Finalize(r)
  \/ Judge(r)

Next ==
  \/ \E c \in Agent : AgentStep(c)
  \/ \E r \in Run : RunStep(r) \/ Crash(r) \/ Resume(r)

Spec == Init /\ [][Next]_vars

\* The event loop runs what is ready, and a provider answers or fails in the end.
FairSpec ==
  /\ Spec
  /\ \A c \in Agent : WF_vars(AgentStep(c))
  /\ \A r \in Run : WF_vars(RunStep(r))

-----------------------------------------------------------------------------
(* Properties.                                                             *)

\* What the ceilings are worth. Calls are checked before they are made and charged after:
\* those in flight together pass the ceilings of their tracker together, by the price of
\* one call for each of them and no more. The tracker is the one of an execution, so a run
\* that is resumed pays its ceiling once for each execution. (BudgetTracker's docstring
\* promises a ceiling over the run and one over all runs: see MCCalls.)
OvershootBound ==
  \A r \in Run :
    /\ totals[r].run <= RunLimit + Width * MaxCost
    /\ totals[r].experiment <= ExperimentLimit + Width * MaxCost
    /\ earlier[r] + totals[r].run <= execution[r] * (RunLimit + Width * MaxCost)

\* What the provider charges and the tracker never sees is bounded by the siblings of
\* the agents that raised, and by what a dying process left in flight.
UncountedBound ==
  \A r \in Run :
    billed[r] <= totals[r].run
                 + MaxCost * (aborts[r] * (Width - 1) + IF stage[r] = "failed" THEN Width ELSE 0)

\* In a run of a single topology, a refused call of an agent ends the graph: the run is
\* not finalized, judged or completed.
RefusalStops ==
  \A r \in Run : stage[r] \in {"finalizing", "judging", "completed"} /\ ~adaptive[r] => ~refused[r]

\* What the agents of a finished first execution believe to have spent is in the cost the
\* run reports, and that is in what the tracker counted.
CompletedAccounts ==
  \A r \in Run :
    stage[r] = "completed" /\ execution[r] = 1 =>
      /\ MapThenSumSet(LAMBDA c : memory[c].cost_spent_usd, Crew(r)) <= reported[r]
      /\ reported[r] <= totals[r].run

\* An agent remembers the events of one of its steps and of no other: merge_agent_states
\* keeps the longer list. (The docstrings of agents/base.py speak of a scratchpad that is
\* appended to: see MCCalls.)
OneStepRemembered ==
  \A c \in Agent : \A i, j \in DOMAIN memory[c].scratchpad :
    memory[c].scratchpad[i] = memory[c].scratchpad[j]

\* Retries, tool loops and resumes are bounded: every run ends and stays so.
RunEnds == \A r \in Run : <>[](stage[r] \in Ended)

\* runner.py's own account of a refused call: the run ends as "budget_exceeded".
BudgetStopsRun == \A r \in Run : refused[r] => stage[r] # "completed"
=============================================================================
