# Formal verification of the adaptive multi-agent runner (`atm`)

This directory holds TLA+ models of the control logic of `src/src/atm`, the TLC
configurations that check them on small instances, and theorems about them that TLAPS
proves for all values of their constants. `PROJECT.json` maps every definition to the
lines it models and lists the runs, the faulty variants, the hazards and the theorems.

Paths below are relative to `src/src/atm/`.

## 1. The system

`atm` runs one task with a team of LLM agents arranged in a *topology*. The *adaptive*
topology is a meta-graph that chooses, tick by tick, which of five topologies works next.
An experiment is a grid of such runs, each in a process of its own, recorded in a
PostgreSQL database and in parquet files.

| component | state | operations | meets | hard behaviour |
|---|---|---|---|---|
| adaptive meta-graph (`topology/adaptive.py`) | `state["shared"]`; three closure slots; tick, iteration and switch counters | route phase, route topology, ask the advisor, dispatch, gate, loop test | routers, guards, sub-topologies, human gateway | decisions travel outside the state; a failing sub-topology rolls the state back; two sets of caps; ends? |
| routers and guards (`phases/`) | none (functions of `shared`) | decide a phase, decide a topology, refuse a switch | the meta-graph | a counter that is absent; history cut to a tail; reasons that consume signals |
| chain, star, mesh, debate, hierarchical (`topology/*.py`) | their keys of `shared` (signals, rounds, drafts) | one round of agents, count, route | the meta-graph | flags that survive to the next dispatch; each counts in its own way |
| agents (`agents/`, `core/reducers.py`) | `AgentState`: counters, scratchpad, cost | `step()`: summary, tool loop, delta; what it emits into `shared` | topologies, LLM wrapper | deltas merged by a reducer that takes the larger or the longer; signals raised and never lowered |
| human in the loop (`human/`, the human nodes, the callbacks) | gateway caches, threads in `input()`, rows of `human_interactions` | request, answer, timeout policy, log | topologies, meta-graph, database | late answers, repeated request ids, resumed executions |
| experiment runner (`experiment/runner.py`) | rows of `runs` and `experiments`; the `ParquetWriter` | run, resume, replay; report the outcome | grid, reconcile, storage | processes that die, updates that fail, two executors of a run |
| reconciliation (`experiment/reconcile.py`) | none | scan for zombies, mark them | rows, other processes | checks that are old when used |
| grid (`experiment/grid.py`) | futures, counters | submit, collect, fail fast, aggregate | process pool, runner | cancellation of what already runs, a broken pool |
| observability (`observability/`, `storage/`) | buffers, open phase row, budget row | callbacks, buffered writes, flush, close | runner, meta-graph | flushes that fail, order of human events |
| budget and LLM wrapper (`llm/`) | totals per level | check, call, record, retry | agents, judge | check-then-record under concurrent calls |
| command line (`experiment/cli.py`) | none | parse, preflight, report | grid, runner, reconcile | order of reconcile, resume and new cells |

What makes each correct:

* meta-graph: it ends; it never works past its caps by more than a stated amount; every
  tick counts; a phase decided is a phase reached; the history is the path really taken;
  a guard that holds when asked holds when applied.
* runner and reconcile: one executor per run; an outcome that was written stays visible;
  what is reported completed is on disk; a zombie is dead; a replay repeats its original.
* grid: the experiment's status is never better than its rows, and not worse either; the
  sweep returns; fail-fast stops what it can.
* a topology on its own: it ends before LangGraph's recursion limit; it asks the human anew
  each time; its answer is the one its criterion chose, not an earlier one.
* human in the loop: an answer reaches the question it was given to and no other, one id has
  one answer, the log keeps the first; whoever does not answer does not stop the run.
* budget: the ceilings hold up to the calls in flight; a refused call ends the run; what is
  reported is what was recorded.

## 2. Modules

```
SharedState          the control keys of state["shared"], agents' steps
  Routing            phase router, topology routers, switch guards
  Chain Star Mesh Debate Hierarchical      one round of each, as sets of results
    Adaptive         the meta-graph: composes the above
      TopologyProofs, AdaptiveProofs, AdaptiveControl     proofs
    Solo             a run of one topology, with a human in it: composes the same five
      SoloProofs       proofs
TopologyControl      abstract: what the guards promise; Adaptive implements it
Calls                agents' steps, LLM wrapper, budget, reducers, the end of run_one
  CallsProofs        proofs
Human                requests, gateways, timeouts, run_with_human, the log
  HumanProofs        proofs
RunLifecycle         rows of runs, workers, resume/replay, reconcile, the writer
  LifecycleProofs    proofs
Grid                 run_grid and the process pool
  GridProofs         proofs
MCAdaptive, MCSolo, MCCalls, MCHuman, MCRunLifecycle, MCGrid          instances for TLC
```

### Adaptive and what it is made of

`pc` is the LangGraph node that runs next; the graph runs one node at a time, so a step of
the model is a node (or one round of a sub-topology, which `dispatch_topology_node` invokes
and waits for). `shared` holds the keys of `state["shared"]` that decide anything, with the
signals dictionary split by use (a set of truthy flags, two counters, the advisor's hint).
`phase_dec`, `topo_dec` and `pre_phase` are the closure slots; `entry` is the state handed to
a sub-topology, to which `SubTopologyRaises` rolls back. `ran`, `switches` are observers: no
action reads them.

| action | code (`topology/adaptive.py`) |
|---|---|
| `PhaseRouter`, `TopologyRouter`, `TopologyRouterRaises` | the router nodes; the guards are inside `Guarded` |
| `HumanAdvise`, `HumanOverride`, `HumanFails` | `human_advisor_node` |
| `Dispatch` | `dispatch_topology_node` up to the invocation, with its own caps |
| `RunChain` ... `RunTeamB` | the nodes of the sub-topologies, a round at a time |
| `SubTopologyRaises` | its `except` |
| `Gate` | `transition_gate_node`, `apply_transition_gate`, `_should_end` |

Agents are nondeterministic: a critic may approve or not, an executor may emit any subset
of the signals its class emits, a judge or coordinator any verdict. `PlannerSignals` and
`ExecutorSignals` say which agent classes a configuration uses. An LLM router answers with
any valid topology and any reason; a reason matters only through the signal keys it
mentions (`ReasonMentions`), because the gate deletes those.

`TopologyControl` is the abstract specification: a run adopts a topology and afterwards
switches only to one it has not left recently, after `MinDwell` iterations, and at most
`MaxPerRun` times. The refinement maps the clock to `entry.iter_total` while a sub-topology
works, because what it counts joins the run only when it returns.

### Solo

`Adaptive` builds its sub-topologies without a human. `Solo` is what `run_one` builds when
the configuration names one topology: the same rounds (`ChainTurn`, `StarWorker`,
`MeshTally`, ... are shared with `Adaptive`) between the nodes of the compiled graph, with a
reviewer (chain, star, hierarchical), a voting peer (mesh) or a judge (debate) where `setup`
has one. `node` is the next node; `steps` counts supersteps as LangGraph does, so that a node
of a model that stands for three of the graph takes three. A draft is its author and a
number, an `answer` the drafts or the vote it was taken from; that tells a stale answer from
a fresh one. `asked` is the list of request ids, made of the counters of the moment.

| actions | code |
|---|---|
| `ChainPlans`, `ChainWorks` | `topology/chain.py`: planner; executor, critic, critic_postprocess |
| `StarCoordinates`, `StarWorks` | `topology/star.py`: coordinator, worker |
| `Review` | the human reviewer of chain, star and hierarchical |
| `MeshDispatches`, `MeshWorks`, `PeerVotes` | `topology/mesh.py`: dispatcher with its two policies, an agent or the human, then broadcast and tally |
| `DebateOpens`, `DebatersArgue`, `JudgeDecides`, `HumanJudges` | `topology/debate.py`, human modes "judge" and "both" |
| `TopCoordinates`, `SubReview`, `TeamAWorks`, `TeamBWorks`, `Finalizes` | `topology/hierarchical.py`, scopes "top" and "sub_team" |
| `Raises` | any exception of a node: the run fails |

### Calls

The agents of a superstep are asyncio tasks of one process, so a step of the model is the
code between two awaits that suspend: check (and start) a call, an answer with its price,
a transient or a fatal error, a tool. `totals` is the tracker of one execution; money is
counted in units, a call costs at most `MaxCost`. `Commit` merges what the agents return
by the reducer, `Abort` is an exception that ends the superstep: the siblings are cancelled,
and the meta-graph (`adaptive`) goes on from `outer`, its own copy of the agents' states,
where `run_one` of a single topology ends by the kind of error. `LeaveGraph`, `Finalize` and
`Judge` are what follows the graph, each with one more call whose errors are swallowed.
`billed` (what the provider charges), `refused` and `earlier` (what the trackers of a run's
earlier executions counted) are observers.

### Human

A request has a number and an id; an answer is who gave it and the number of the question it
was given to, so an answer that reaches another question shows. `caller` is a human node or
`run_with_human`, which may be given no fallback gateway (`backup`); the gateway is the terminal, whose `input()` runs in a thread that no
timeout ends (`readers`), or a model. `event` is the custom event whose handler runs;
LangChain awaits it before the sender goes on. `log` is the table, `used`, `first` and `lost`
are observers. `Resume` starts a new process with empty caches and the old log.

| action | code |
|---|---|
| `Ask`, `Apply` | the human nodes and `run_with_human` before and after the gateway |
| `ResolveAgain`, `TooMany` | `run_with_human`'s `_resolved` and `max_interactions` |
| `CallGateway`, `HumanTypes`, `ModelAnswers`, `ModelFails` | `human/cli_gateway.py`, `human/llm_simulated.py` |
| `RefusesToAsk`, `TimesOut`, `FallbackAnswers`, `FallbackFails` | `human/_timeout.py` |
| `HandleRequest`, `HandleResponse`, `HandlerFails` | `observability/callbacks.py` |

### RunLifecycle

A process is `idle`, then `inserting` (experiment ensured), `executing`, `reporting`, or
`fetched` (an operator read the row and has not yet checked the pid), `checking` (reconcile has
read the running rows and has owners to check), `marking` (zombies to mark), or `gone`. A step is
one transaction, one pid check or one parquet write; `Die` can come between any two, and any
number of operators work at once. `buffered[p]` is the run whose rows sit in p's
`ParquetWriter`; `saved` the runs that have an `llm_calls.parquet`, without which a
deterministic replay refuses. `reported` (the latest execution wrote its outcome), `raced` (two
resumes of the run overlapped) and `lost` (rows a death or a failed write took) are observers.

### Grid

A cell has four faces that move apart: its place in the pool (`work`), its row (`row`), the
worker's answer (`answer`, `inbox`) and the parent's future (`future`). The pool and asyncio
are external: modelled from how `run_grid` uses them (first in first out, a call queue of
`Workers + 1` whose cells cannot be cancelled, a dead worker fails all that is held, results
reach the event loop in order, a future cancelled meanwhile stays cancelled).

### Faulty variants

A definition whose comment begins `Faulty:` is not part of any specification. It is a
plausible bug of the definition below it (a dropped guard, an off-by-one, a missing reset),
and replacing that definition by it makes TLC find the property violated that
`PROJECT.json` names beside it: the evidence that each property says something.

## 3. Runs

| run | instance | states | question |
|---|---|---|---|
| `adaptive` | rule router, guards on, human overrides; 7 iterations, 6 ticks, limits of 1-2 | 613 thousand | does a run dispatch, count, switch and end as promised? |
| `adaptive_llm` | LLM router that answers anything and whose reasons may delete the phase counter; 5 iterations, 4 ticks, tail 2 | 469 thousand | do the guards (`ControlSpec`) hold, and does the run end, whatever the LLM says? |
| `adaptive_oracle` | oracle that names an unregistered topology, no guards, advising human; 12 iterations, 9 ticks | 546 thousand | is the history right when nothing restrains switching? |
| `solo` | the five topologies with every human part; 10 iterations, bus of 8, threshold 2 | 30,774 | does it end within both limits, ask anew, and answer with what it chose? |
| `calls` | two debaters, ceiling 1 for the run and 2 for the experiment, one retry, two tool rounds, two supersteps, two executions; adaptive or not | 737 thousand | how far are the ceilings overshot, in one execution and over all, what goes uncounted, does a refusal stop the run, does the run end? |
| `human` | both callers, both gateways, every policy; 2 roles, 2 ids, 3 requests, 2 executions | 984 thousand | no cross talk, one answer per id, the log keeps the first, requests settle |
| `run_lifecycle` | 1 worker, 2 operators at once, 2 runs, one host, writes that may fail, symmetric | 928 thousand | what leads to two executors? is an outcome hidden? who still holds rows of a completed run? |
| `grid` | 4 cells, 1 worker process | 1.1 million | counting, fail-fast, broken pool, and that `run_grid` returns |
| `phase_monotonic`, `advice_followed`, `budget_stops`, `winner_is_judged` | as above, one property each | - | statements of the repository that the code does not keep (section 5) |

Why the bounds are enough for the cases to happen:

* *Adaptive.* `MaxIter` and `MaxTicks` are reached by different behaviours of one run, so
  both caps end runs. Every phase limit is 2, so a phase ends by signal and by limit.
  `SubMax = 2` lets a topology stop early, at its limit, and overshoot. `MaxPerRun` and
  `MaxPerPhase` are below the number of switches the ticks allow, so guards refuse; a
  history tail of 1 or 2 is shorter than the path. `iter_total` and `meta_ticks` are
  bounded by the code's own caps: no artificial constraint is needed.
* *Solo.* With ten iterations star and mesh, which take the most supersteps per iteration,
  come close to the recursion limit and the other caps (rounds of debate, hierarchical and
  mesh) all end runs too. Nine rounds with an executor, a critic and a peer let the peer vote
  more often than `Threshold`, after rounds in which it was skipped, and fill the bus.
* *Calls.* Two agents are the widest superstep of the code (the debaters). One unit is left
  under the ceiling when both check, so they pass it together; then a call is refused. A
  window of 2 makes the second step summarize. `MaxTurns` and `MaxExecutions` stand for the
  topologies' caps and an operator's patience; prices of 0 and 1 make estimate and price
  differ in both directions.
* *Human.* Three requests over two ids repeat an id, in one execution and across a resume;
  while the third is open two threads of timed-out requests can be waiting for a line.
* *RunLifecycle.* One worker, two operators and two rows are the smallest instance in which
  a run changes owner twice, two resumes of a run overlap, a replay refers to another run, and
  a reconcile pass over two rows is interrupted between its checks and between its marks. All state is finite; processes that are gone stay gone,
  so the system may stop, and this run does not check for deadlock. Neither do `solo`,
  `calls` and `human`, whose runs end.
* *Grid.* With one worker process two cells are prefetched; with four cells there is, when
  the first one fails, a cell that runs, two that can no longer be cancelled and one that can.

*Fairness.* `Adaptive!FairSpec` is weak fairness of the node steps together: every node
ends (an LLM call returns or raises through its client library; a human request ends by an
answer or, with `timeout_s` set, by the timeout policy), and LangGraph then runs the next
one. A configuration without `timeout_s` and a human who never answers is outside this
assumption. Which outcome a node has is never forced. `Grid!FairSpec`
is weak fairness of the steps of pool and parent together, without `Break`: cells end by
their own limits, and no worker has to die. `Solo!FairSpec` is weak fairness of the nodes;
a `Raises` is never forced. `Calls!FairSpec` is weak fairness of each agent's step and of each
run's: a provider answers or fails, which its client's timeout provides. `Human!FairSpec` is
weak fairness of the handlers, of the code that calls and applies, of models (they answer or
fail) and of timers, separately; nobody has to type, and `RequestSettles` therefore speaks of
requests to a model or with a timeout. `RunLifecycle` states no liveness: nothing
promises that an operator resumes or reconciles.

## 4. Proofs

All theorems hold for every value of the constants that meets the modules' `ASSUME`s.

*Adaptive.* `TypeCorrect` rests on effect lemmas, one per round of each topology
(`TopologyProofs`): what the round keeps, that it counts, by how much. Further invariants
are each one lemma: `Going` (only a gate that did not end the run leads back to a router)
gives `CapsAgree`; `Progress` gives `EveryTickCounts`; `Windows` gives `WindowsStayOpen`;
`Overshoot`, which bounds the counter by the place the run is at, gives `OvershootBounded`;
`SlotsFilled` (the gate finds the slots of its own tick) gives `AdvanceKept`. `History`
says of `shared` *and* of `entry` that the history follows the counter, because a failing
sub-topology falls back to `entry`; it gives `HistoryFollowsCounter`. For the refinement,
`Clearance` carries what the guards tested from router or human to the gate: between
the two only iterations are added, which can only lengthen a dwell. `GuardsHold` is then
`Spec => ControlSpec` when guards are on. It needs `Cooldown <= HistoryTail`, an `ASSUME` of
`Adaptive`: with a longer cooldown the history is too short for the guard.

`PhaseBudgetHolds` (no phase has more switches than its guard allows) has two hypotheses: guards
are on, and `CounterUntold`, no reason mentions the key `phase_switch_count`. The second is not a
convenience: the gate deletes the keys a reason mentions, the guard then reads an absent counter as
zero, and without the hypothesis TLC finds the budget exceeded (section 5). Rule routers name other
keys only; an LLM's prose or an oracle's entry may name any. The proof adds to `Clearance` that the
guard of this tick saw the counter the gate increments (`GateCounter`, `GateBudget`), which no
round of a sub-topology touches (`SteadyPath`).

*Solo.* `Inv` joins the types to four facts about control. `Placed`: the next node belongs to
the topology of the run. `Paced`: supersteps are at most four per iteration and a lead that depends
on the node, and iterations at most the room the node still has; both slacks are needed, since each
node spends one or the other, and together at an end they are `SoloWithinLimits`. `AsksNew`: a
request of this iteration can be in the log only at the nodes that follow the question, and
requests differ in the iteration: `SoloNeverAsksTwice`. `StarOpen`: a star that goes on has not entered
its last phase. `SoloSuccessIsFresh` and `SoloHumanHasTheLastWord` follow from `Inv` topology by topology,
and, for the chain, from `ChainFresh`: from the end of a round on the answer is the executor's last
draft or none.
`SoloSilenceNeverWins` needs `VotesApart` as well: of the votes on the bus that stand for a request
nobody answered, each names a round of its own, so that no two of them are for the same thing and
none reaches a `Threshold` above one.

*RunLifecycle.* `Jobs` (what a process holds at each place of its program) makes `TypeOK`
inductive: `LifecycleTypes`. `Unreported` (a row that runs, or is a zombie, has no outcome)
makes `ZombieHidesNoOutcome` inductive: `OutcomesKept`, on any number of hosts. With
`OneHost` (one host, no `--force`), `Ownership` says that, until two resumes of a run overlap, the
row names its executor and an operator that fetched it knows the owner, and that both stay true of
the process that created the row even then, since nobody takes a run from a process that lives:
`OneExecutor`. With it `Buffers` (who executes a run holds its rows, and a run that is executed
does not say completed unless resumes overlapped) gives `FlushedBeforeCompleted`.

`OneHost` is what the code needs: `resume_one` cannot check a pid of another host, and `--force`
skips the check. Nothing else is assumed: operators overlap, processes die and writes fail. So
the two theorems say what the pid check and the order of close and update are worth, and no more:
that two concurrent resumes do execute one run, and that a completed run may lack rows, is in
section 5.

*Calls.* A superstep's calls in flight are the slack of every bound. `CallsOvershoot` is
inductive with it: recorded money plus `MaxCost` for each agent that waits stays within the
ceiling plus `MaxCost * Width`, because a check admits a call only below the ceiling and at
most `Width` agents are active. That is the tracker of one execution; `Spent` (the executions
before this one counted at most their allowances) adds the run's executions up. There is no such
bound over the runs of an experiment (section 5). `CallsUncounted` has the same shape for `billed` against the
recorded total: an abort turns at most `Width - 1` waiting calls into money nobody recorded (one of
the agents raised, so it was not waiting), a death at most `Width`. `CallsRefusalStops` needs
where a refused agent is: at "budget" until the abort, which only the meta-graph survives.
`CallsCompletedAccounts` compares sums over the crew. `AccountsInv` says at every place of a first
execution that the agents' own costs add up to no more than what the tracker counted, and from the
judge on to no more than what was reported. `Together` (nobody is active outside the graph) and
`Settled` (an idle agent has no delta, the outer copy of a cost is not ahead) serve the merge and the
abort. `CallsOneStepRemembered` is inductive once it speaks of both copies of a scratchpad and says that a
delta under way holds events of the step after the last one (`Remembered`). The sums are `MapThenSumSet`,
a recursive function over sets: `SumsExist` obtains it by induction on the size of the set, which is done
with sets of numbers in place of predicates (`NumbersInduction`, from the well-foundedness of `<`), since the
induction theorems of the library take an operator as parameter and no back end can instantiate them.

*Human.* `Types` adds to the type invariant that whoever waits has asked. `Belongs` (the
cache, `resolved`, the answer in hand, the event under way and the log hold under an id only
what was given to a question of that id) is what makes `NoCrossTalk` inductive. `Remembers`
(what an execution used came from, or went into, the cache or `resolved` unless a policy gave
it) gives `HumanOneAnswer`. `Eaten` counts lines against threads, and threads other than the
current one against timeouts: `HumanLinesEaten`. `Logged` relates log, event under way and
`first` at every place of the asking code: `HumanLogIsFirst`; `HumanLoggedForGood` is an action property from
`Types` alone, by the actions that write the log.

*Grid.* `Counts` follows a cell from its row to the parent: an answer "completed" means a
completed row, a counted "completed" such an answer, and a cell that was passed over means
that a failure was counted before: `CompletedIsTrue`. `Tells` adds that answers come from
rows and that counts come from answers unless the pool broke: `GridAggregate`. `Prefetched`
bounds the cells that are queued *or* started late, together, by what the pool prefetches:
`GridFailFast`, for any number of cells and workers.

*Only model-checked*: liveness (`Terminates`, `Returns`, `RunEnds`, `RequestSettles`), which is
out of the prover's reach, since it needs ENABLED. Every invariant and every step property
of the passing runs is a theorem.

## 5. Where code and text disagree

Shown by a run, each a counterexample:

* **`PhaseMonotonic`** A chain dispatched in verification pins the phase to execution
  (`topology/chain.py:260`) and the run goes back (`core/types.py:45` calls it monotonic).
* **`AdviceFollowed`** The advisor's hint is written after the router of the tick and deleted
  by the gate before the next one reads it (`tests/unit/phases/test_topology_router.py:493`).
* **`BudgetStopsRun`** `experiment/runner.py:24` says that an exceeded budget ends a run as
  "budget_exceeded". Under the adaptive topology the exception ends the sub-topology only
  (`topology/adaptive.py:631`), and the run can be completed.
* **`WinnerIsJudged`** The judge of a debate is told to name the winner
  (`experiment/runner.py:952`), but it is a `Critic`, whose decision has no winner
  (`agents/critic.py:101`); `topology/debate.py:100` then takes "pro".

Stated in a module, violated when checked there, without a run of their own:

* `PhaseSwitchBudget` fails in `MCAdaptive` with `ReasonMentions <- MCMentionsCounter`: a reason that
  mentions `phase_switch_count` makes the gate delete the counter (`topology/adaptive.py:169`), and the
  phase starts a new budget, where `tests/integration/test_adaptive_m8.py:622` wants the counter to
  "reflect actual per-phase switches". For reasons that leave it alone it is a theorem.
* `ZombieIsDead` (`MCRunLifecycle`): reconcile marks a row that was resumed after the scan;
  the update asks for the status, not for the owner that was checked
  (`experiment/reconcile.py:205`).
* `ReplayKeepsConfig` (`MCRunLifecycle`, two configurations): a replay takes the experiment's
  snapshot, which is the first cell's (`README.md:151` promises the same configuration).
* `OneAtATime` (`MCRunLifecycle`): `resume_one` is documented to refuse "if the run is still alive"
  (`experiment/runner.py:1583`), but two resumes that read the row of a dead owner both find it
  dead, and the update asks for neither status nor owner.
* `CompletedIsOnDisk` (`MCRunLifecycle`): `experiment/runner.py:18` ensures that "all buffered
  observability data is flushed to disk before the run record is marked complete".
  `ParquetWriter.close` sets `_closed` before it flushes, so after a failed flush the runner's own
  close does nothing; and a resume completes a run whose first execution died with rows in its buffers.
* `RunCeiling` and `ExperimentCeiling` (`MCCalls`): `llm/budget.py:59-60` documents `per_run_usd` as
  "cumulative across calls in one run" and `per_experiment_usd` as "across all runs in an
  experiment". Every execution starts a tracker at zero (`experiment/runner.py:1043`, `:1942`), so a
  resumed run pays its ceiling again, and so does each run of an experiment.
* `ScratchpadAppends` (`MCCalls`): `agents/base.py` calls the scratchpad "append-only, never
  truncated" (13, 73) and its reducer a concatenation (118); `agents/executor.py:57-62` and
  `:129` scan what they take for the full accumulated one. A step returns its own events and the
  reducer keeps the longer list (`core/reducers.py:59`; its docstring, line 81, says so), so the state
  holds the events of one step: `OneStepRemembered`.
* `FailedMeansNone` (`MCGrid`): fail-fast drops the results of cells that go on to complete:
  the experiment is "failed" where `experiment/grid.py:18` says "partial".

Met while modelling, each visible in a definition:

* `human/gateway.py:29-33` asks of a gateway that a repeated id has the same answer. After a
  timeout the fallback's answer is not remembered, and a resumed process remembers nothing;
  `OneAnswerPerId` says what remains.
* The docstring of `_handle_human_response` (`observability/callbacks.py:484`) speaks of handlers
  in parallel and of ON CONFLICT UPDATE; handlers are awaited, and the code inserts with DO
  NOTHING.
* With the terminal as gateway, `timeout_policy = "llm_fallback"` always fails the run at the
  first timeout: the fallback is built from the gateway's model, and the terminal has none
  (`HasFallback`; `tests/unit/experiment/test_config_human.py:149` has it as valid).
  `run_with_human`, when it is given no fallback gateway, raises before it asks (`RefusesToAsk`).
* With `on_consensus_pending` a mesh peer is asked only after somebody voted, and nobody but
  the peer votes (`Skipped`, `OnBus`).
* A mesh agent's whole outbox goes to the bus each time it acts, so the cap of the bus evicts
  the peer's votes (`MeshWorks`).
* `"<incomplete>"` is a truthy answer: where debate falls back to it, a later fallback keeps it (`VerdictAnswer`).
* A failed run's row reports 0 spent: the total is read after the graph
  (`experiment/runner.py:1189`), and an exception comes before.

## 6. Not modelled

Message buffers of the agents, prompts, tool results (data without control); the contents of
tools and of the files an agent writes, which are not told apart from drafts; mesh's own
underscored signal keys in reasons; `LLMPhaseRouter` (nothing builds it); the checkpointer (a
resume is an execution that may end in any way, or in `Calls` goes on from the agents' states
of the last checkpoint); reuse of pids and the failure of `_register_worker_identity`, which
only rewrites what the insert wrote; retries inside the database driver; what a line at the
terminal parses to (any allowed action; a line that is none becomes the first, "approve"); the
routes of star for the signal `human_phase_override`, which nothing writes (`StarStops`); the
columns of `llm_calls.parquet`, which two writers write under two schemas; the rows of LLM
calls, phases, switches and budget events, which nothing reads back; progress callbacks and
exports of the grid; the command line, configuration loading, cost estimation, evaluation,
plots and statistics, which are functions without interaction.

The recursion limit of the *meta-graph* is not in `Adaptive`: there a tick with an advisor takes
five supersteps and may count one iteration, so a long run can meet it (as a failure, which
the model allows at any time) before its own cap. `WithinLimits` is about single topologies.

## 7. Plan

Done: everything in section 2. What would come next:

1. `EventLog`: phase and topology rows of the callback against the gate's records. A phase the
   sub-topology entered itself is never announced (`topology/adaptive.py:684`), so what can be
   promised is about intervals that do not overlap.
2. Proofs: the rate of the meta-graph, as a bound of `meta_ticks` by what was counted, which
   is the safety half of `Terminates`; the same for the queue of `Grid` (cells queued, running and answered
   are all cells) and the threads of `Human`; `FailedMeansNone` without fail-fast.
3. `Calls` composed with `Adaptive`, so that a run's iterations are bounded by what it may
   spend and not by a bound of the model.
