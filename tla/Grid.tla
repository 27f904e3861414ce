-------------------------------- MODULE Grid --------------------------------
(***************************************************************************)
(* run_grid (experiment/grid.py): a parent that hands the cells of a sweep *)
(* to a ProcessPoolExecutor and counts what comes back.                    *)
(*                                                                         *)
(* A cell has four faces that move apart: its place in the pool, its row   *)
(* in `runs` (written by the worker), the worker's answer, and the asyncio *)
(* future the parent waits for. The pool is the standard library's: it     *)
(* prefetches Workers + 1 cells, which then count as running and cannot be *)
(* cancelled; when a worker process dies it fails every cell it holds.     *)
(***************************************************************************)
EXTENDS Naturals, FiniteSets, Sequences

CONSTANTS
  Total,     \* the number of cells of the sweep
  Workers    \* parallelism

ASSUME GridAssumption == {Total, Workers} \subseteq Nat \ {0}

Cell == 1 .. Total

Outcome == {"completed", "failed", "budget_exceeded"}
Failure == {"failed", "budget_exceeded"}

VARIABLES
  fail_fast,    \* the flag
  work,         \* the pool's view of a cell
  row,          \* runs.status of the cell's run, "none" before it is inserted
  answer,       \* the status in the worker's result
  inbox,        \* finished cells on their way to the event loop, in order
  future,       \* the parent's future
  status,       \* what the parent counted for the cell
  taken,        \* the cells as_completed has yielded
  cancelled,    \* fail_fast fired
  late,         \* observer: the cells that started after it fired
  returned,     \* run_grid returned
  experiment    \* experiments.status

vars == <<fail_fast, work, row, answer, inbox, future, status, taken, cancelled, late,
          returned, experiment>>
pool == <<work, row, answer, inbox>>
parent == <<status, taken, cancelled, returned, experiment>>

TypeOK ==
  /\ fail_fast \in BOOLEAN /\ cancelled \in BOOLEAN /\ returned \in BOOLEAN
  /\ work \in [Cell -> {"pending", "queued", "running", "returned", "broken", "cancelled"}]
  /\ row \in [Cell -> {"none", "running"} \cup Outcome]
  /\ answer \in [Cell -> {"none"} \cup Outcome]
  /\ inbox \in Seq(Cell)
  /\ future \in [Cell -> {"waiting", "ready", "cancelled"}]
  /\ status \in [Cell -> {"none"} \cup Outcome]
  /\ taken \subseteq Cell /\ late \subseteq Cell
  /\ experiment \in {"running", "completed", "failed", "partial"}

Init ==
  /\ fail_fast \in BOOLEAN
  /\ work = [c \in Cell |-> "pending"]
  /\ row = [c \in Cell |-> "none"]
  /\ answer = [c \in Cell |-> "none"]
  /\ inbox = << >>
  /\ future = [c \in Cell |-> "waiting"]
  /\ status = [c \in Cell |-> "none"]
  /\ taken = {} /\ late = {}
  /\ cancelled = FALSE /\ returned = FALSE
  /\ experiment = "running"

At(places) == {c \in Cell : work[c] \in places}

\* The pool's queues are first in, first out.
First(c, place) == work[c] = place /\ \A d \in At({place}) : c <= d

-----------------------------------------------------------------------------
(* The pool and its workers.                                               *)

Prefetch(c) ==
  /\ First(c, "pending") /\ Cardinality(At({"queued"})) < Workers + 1
  /\ work' = [work EXCEPT ![c] = "queued"]
  /\ UNCHANGED <<fail_fast, row, answer, inbox, future, late, parent>>

StartCell(c) ==
  /\ First(c, "queued") /\ Cardinality(At({"running"})) < Workers
  /\ work' = [work EXCEPT ![c] = "running"]
  /\ late' = IF cancelled THEN late \cup {c} ELSE late
  /\ UNCHANGED <<fail_fast, row, answer, inbox, future, parent>>

\* run_one inserts the row, and updates it with its outcome.
WriteRow(c) ==
  /\ work[c] = "running" /\ row[c] \in {"none", "running"}
  /\ \E s \in IF row[c] = "none" THEN {"running"} ELSE Outcome : row' = [row EXCEPT ![c] = s]
  /\ UNCHANGED <<fail_fast, work, answer, inbox, future, late, parent>>

\* Faulty: the worker answers with the status of the row.
AnswersRow(c) == IF row[c] = "none" THEN {"failed"} ELSE {row[c]}

\* _run_cell_worker never raises. Without a row (invalid configuration, no database)
\* it answers "failed"; with a row whose last update was lost, a failure too.
Answers(c) ==
  CASE row[c] = "none" -> {"failed"} [] row[c] = "running" -> Failure [] OTHER -> {row[c]}

Return(c) ==
  /\ work[c] = "running"
  /\ \E s \in Answers(c) : answer' = [answer EXCEPT ![c] = s]
  /\ work' = [work EXCEPT ![c] = "returned"]
  /\ inbox' = Append(inbox, c)
  /\ UNCHANGED <<fail_fast, row, future, late, parent>>

\* A worker is killed: the pool fails all it holds, in order, and terminates the other workers,
\* whose rows stay as they are, finished or not.
Break ==
  LET held == At({"pending", "queued", "running"})
  IN /\ At({"running"}) # {}
     /\ work' = [c \in Cell |-> IF c \in held THEN "broken" ELSE work[c]]
     /\ \E order \in [1 .. Cardinality(held) -> held] :
          /\ \A i, j \in DOMAIN order : i < j => order[i] < order[j]
          /\ inbox' = inbox \o order
     /\ UNCHANGED <<fail_fast, row, answer, future, late, parent>>

-----------------------------------------------------------------------------
(* The parent.                                                             *)

\* The callback of a finished cell reaches the event loop; one that was cancelled
\* there meanwhile stays so.
Deliver(c) ==
  /\ inbox # << >> /\ c = Head(inbox)
  /\ inbox' = Tail(inbox)
  /\ future' = [future EXCEPT ![c] = IF @ = "waiting" THEN "ready" ELSE @]
  /\ UNCHANGED <<fail_fast, work, row, answer, late, parent>>

\* Faulty: a broken pool is passed over like a cancellation.
CountedWithoutBroken(c) == IF work[c] = "broken" THEN "none" ELSE answer[c]

Counted(c) == IF work[c] = "broken" THEN "failed" ELSE answer[c]

\* Faulty: the flag is not asked for.
TriggersAlways(c) == ~cancelled /\ work[c] # "broken" /\ Counted(c) \in Failure

\* The branch for a broken pool leaves the loop body before the test.
Triggers(c) == fail_fast /\ ~cancelled /\ work[c] # "broken" /\ Counted(c) \in Failure

\* Faulty: only the parent's futures are cancelled, the pool goes on.
CancelFuturesOnly(c) ==
  /\ future' = [d \in Cell |-> IF d # c /\ future[d] = "waiting" THEN "cancelled" ELSE future[d]]
  /\ UNCHANGED work

\* Every future that is not done is cancelled, that of a running cell included; the
\* pool drops the pending cells only.
CancelRest(c) ==
  /\ future' = [d \in Cell |-> IF d # c /\ future[d] = "waiting" THEN "cancelled" ELSE future[d]]
  /\ work' = [d \in Cell |-> IF work[d] = "pending" THEN "cancelled" ELSE work[d]]

Collect(c) ==
  /\ future[c] = "ready" /\ c \notin taken
  /\ taken' = taken \cup {c}
  /\ status' = [status EXCEPT ![c] = Counted(c)]
  /\ IF Triggers(c)
     THEN CancelRest(c) /\ cancelled' = TRUE
     ELSE UNCHANGED <<future, work, cancelled>>
  /\ UNCHANGED <<fail_fast, row, answer, inbox, late, returned, experiment>>

\* Faulty: a cancelled future is not passed over.
PassOverNothing(c) == FALSE /\ UNCHANGED vars

PassOver(c) ==
  /\ future[c] = "cancelled" /\ c \notin taken
  /\ taken' = taken \cup {c}
  /\ UNCHANGED <<fail_fast, pool, future, late, status, cancelled, returned, experiment>>

Aggregate(statuses) ==
  IF "completed" \notin statuses THEN "failed"
  ELSE IF statuses \cap Failure # {} THEN "partial" ELSE "completed"

\* The loop is over and the pool has shut down. The update of the experiment may fail.
Finish ==
  /\ ~returned /\ taken = Cell /\ At({"pending", "queued", "running"}) = {}
  /\ experiment' \in {experiment, Aggregate({status[c] : c \in Cell} \ {"none"})}
  /\ returned' = TRUE
  /\ UNCHANGED <<fail_fast, pool, future, late, status, taken, cancelled>>

-----------------------------------------------------------------------------
Step(c) ==
  \/ Prefetch(c) \/ StartCell(c) \/ WriteRow(c) \/ Return(c)
  \/ Deliver(c) \/ Collect(c) \/ PassOver(c)

Progress == Finish \/ \E c \in Cell : Step(c)

Next == Progress \/ Break \/ (returned /\ UNCHANGED vars)

Spec == Init /\ [][Next]_vars

\* A run ends by its own limits, a worker returns, and the event loop goes on.
FairSpec == Spec /\ WF_vars(Progress)

-----------------------------------------------------------------------------
(* Correctness.                                                            *)

\* _aggregate_experiment_status: an experiment is completed only if every cell's
\* row is, whatever was cancelled, lost or broken on the way.
CompletedMeansAll == experiment = "completed" => \A c \in Cell : row[c] = "completed"

\* Without fail_fast and with a pool that survived, the status of the experiment is
\* the aggregate of its rows (a row that was left running counts as a failure).
AggregateIsTrue ==
  ~fail_fast /\ At({"broken"}) = {} /\ returned
    => LET settled == {IF row[c] \in Outcome THEN row[c] ELSE "failed" : c \in Cell}
       IN experiment \in {"running", Aggregate(settled)}

\* After fail_fast fired, no more cells start than the pool had prefetched.
FailFastBound == Cardinality(late) <= Workers + 1

\* run_grid returns.
Returns == <>returned
=============================================================================
