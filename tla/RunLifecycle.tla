---------------------------- MODULE RunLifecycle ----------------------------
(***************************************************************************)
(* The rows of the table `runs` and the processes that write them: workers *)
(* of `atm run` and `atm grid`, and operators of `atm resume`, `atm replay`*)
(* and `atm reconcile` (experiment/runner.py, experiment/reconcile.py).    *)
(*                                                                         *)
(* A step is one transaction of the database, one check of a process or    *)
(* one write of a parquet file. Between two steps any other process may    *)
(* work, and any process may die. All runs belong to one experiment, whose *)
(* row keeps the configuration of the cell that came first. A process      *)
(* stands for its host and pid; pids are not reused.                       *)
(***************************************************************************)
EXTENDS Naturals

CONSTANTS
  Worker,        \* processes that call run_one
  Operator,      \* processes that resume, replay and reconcile
  Run,           \* ids for the rows
  Config,        \* configurations of the grid's cells
  HostOf,        \* the host of each process
  Forced,        \* resume --force
  DiskFails,     \* writing a parquet file may fail
  NoRun, NoConfig, NoProc, NoRow

Proc == Worker \cup Operator

ASSUME LifecycleAssumption ==
  /\ NoRun \notin Run /\ NoConfig \notin Config /\ NoProc \notin Proc
  /\ {Forced, DiskFails} \subseteq BOOLEAN
  /\ HostOf = [p \in Proc |-> HostOf[p]]

Outcome == {"completed", "budget_exceeded", "failed"}

\* A row; `zombie` is finish_reason = "zombie", the other reasons follow the status.
Row == [status : {"running"} \cup Outcome, zombie : BOOLEAN, owner : Proc,
        config : Config, replay_of : Run \cup {NoRun}]

ASSUME RowAssumption == NoRow \notin Row

VARIABLES
  rows,       \* the table runs
  snapshot,   \* experiments.config_snapshot
  saved,      \* the runs that have an llm_calls.parquet
  pc, run, cfg, outcome,   \* of a process: where it is, its run, the cell to insert, result
  seen,       \* the owner resume_one read
  listed,     \* the running rows a reconcile pass has read and not yet checked
  marks,      \* the zombies it has still to mark
  buffered,   \* the run whose rows the process's ParquetWriter has not written yet
  reported,   \* observer: the latest execution of the run wrote its outcome
  raced,      \* observer: two resumes of the run overlapped
  lost        \* observer: runs some of whose buffered rows will never be written

pass == <<listed, marks>>
observers == <<raced, lost>>
vars == <<rows, snapshot, saved, pc, run, cfg, outcome, seen, pass, buffered, reported, observers>>
job == <<run, cfg, outcome, seen>>

Phase == {"idle", "inserting", "executing", "reporting", "fetched", "checking", "marking", "gone"}

TypeOK ==
  /\ rows \in [Run -> Row \cup {NoRow}]
  /\ snapshot \in Config \cup {NoConfig}
  /\ saved \subseteq Run
  /\ pc \in [Proc -> Phase]
  /\ run \in [Proc -> Run \cup {NoRun}]
  /\ cfg \in [Proc -> Config \cup {NoConfig}]
  /\ outcome \in [Proc -> Outcome \cup {"none"}]
  /\ seen \in [Proc -> Proc \cup {NoProc}]
  /\ listed \in [Proc -> SUBSET [run : Run, owner : Proc]]
  /\ marks \in [Proc -> SUBSET Run]
  /\ buffered \in [Proc -> Run \cup {NoRun}]
  /\ reported \in [Run -> BOOLEAN]
  /\ raced \in [Run -> BOOLEAN]
  /\ lost \subseteq Run

Init ==
  /\ rows = [r \in Run |-> NoRow]
  /\ snapshot = NoConfig
  /\ saved = {}
  /\ pc = [p \in Proc |-> "idle"]
  /\ run = [p \in Proc |-> NoRun]
  /\ cfg = [p \in Proc |-> NoConfig]
  /\ outcome = [p \in Proc |-> "none"]
  /\ seen = [p \in Proc |-> NoProc]
  /\ listed = [p \in Proc |-> {}]
  /\ marks = [p \in Proc |-> {}]
  /\ buffered = [p \in Proc |-> NoRun]
  /\ reported = [r \in Run |-> FALSE]
  /\ raced = [r \in Run |-> FALSE]
  /\ lost = {}

Stored(r) == rows[r] # NoRow
Alive(p) == pc[p] # "gone"
Goto(p, l) == pc' = [pc EXCEPT ![p] = l]

\* The process is done with its run; it goes to l.
Leave(p, l) ==
  /\ Goto(p, l)
  /\ run' = [run EXCEPT ![p] = NoRun]
  /\ cfg' = [cfg EXCEPT ![p] = NoConfig]
  /\ outcome' = [outcome EXCEPT ![p] = "none"]
  /\ seen' = [seen EXCEPT ![p] = NoProc]

\* A new row.
Running(p, config, original) ==
  [status |-> "running", zombie |-> FALSE, owner |-> p, config |-> config, replay_of |-> original]

-----------------------------------------------------------------------------
(* run_one.                                                                *)

\* _ensure_experiment: the insert does nothing when the experiment exists.
EnsureExperiment(p, c) ==
  /\ p \in Worker /\ pc[p] = "idle"
  /\ snapshot' = IF snapshot = NoConfig THEN c ELSE snapshot
  /\ cfg' = [cfg EXCEPT ![p] = c]
  /\ Goto(p, "inserting")
  /\ UNCHANGED <<rows, saved, run, outcome, seen, pass, buffered, reported, observers>>

\* _insert_run, and _register_worker_identity that writes the same owner again.
InsertRun(p, r) ==
  /\ pc[p] = "inserting" /\ ~Stored(r)
  /\ rows' = [rows EXCEPT ![r] = Running(p, cfg[p], NoRun)]
  /\ run' = [run EXCEPT ![p] = r]
  /\ cfg' = [cfg EXCEPT ![p] = NoConfig]
  /\ Goto(p, "executing")
  /\ UNCHANGED <<snapshot, saved, outcome, seen, pass, buffered, reported, observers>>

\* Without a run_id the handlers of run_one have no row to update.
InsertFails(p) ==
  /\ pc[p] = "inserting"
  /\ Leave(p, "idle")
  /\ UNCHANGED <<rows, snapshot, saved, pass, buffered, reported, observers>>

\* A callback writes to a stream of the ParquetWriter: the row waits in the buffer, or
\* fills it and that stream goes to disk. One of the five streams is llm_calls.
Observe(p) ==
  /\ pc[p] = "executing"
  /\ \E f \in SUBSET {run[p]} : saved' = saved \cup f
  /\ \E b \in {NoRun, run[p]} : buffered' = [buffered EXCEPT ![p] = b]
  /\ UNCHANGED <<rows, snapshot, pc, job, pass, reported, observers>>

\* Faulty: nothing closes the writer before the row is updated.
CloseNothing(p, files) == UNCHANGED <<saved, buffered, lost>>

\* ParquetWriter.close marks the writer closed and then flushes, so only its first
\* caller flushes: the root callback, or a handler. Both swallow its failure, and what
\* it did not write is gone.
CloseWriter(p, files) ==
  /\ \E f \in files : saved' = saved \cup f
  /\ buffered' = [buffered EXCEPT ![p] = NoRun]
  /\ \/ UNCHANGED lost
     \/ DiskFails /\ lost' = lost \cup ({buffered[p]} \ {NoRun})

\* The graph ended: on_chain_end closes the writer, then _write_replay_parquet writes
\* llm_calls.parquet when the state has responses; the close that follows is a no-op.
GraphEnds(p) ==
  /\ pc[p] = "executing"
  /\ outcome' = [outcome EXCEPT ![p] = "completed"]
  /\ CloseWriter(p, SUBSET {run[p]})
  /\ Goto(p, "reporting")
  /\ UNCHANGED <<rows, snapshot, run, cfg, seen, pass, reported, raced>>

\* An exception: on_chain_error or the handler closes the writer, if there is one.
GraphRaises(p) ==
  /\ pc[p] = "executing"
  /\ \E o \in {"failed", "budget_exceeded"} : outcome' = [outcome EXCEPT ![p] = o]
  /\ CloseWriter(p, IF buffered[p] = run[p] THEN SUBSET {run[p]} ELSE {{}})
  /\ Goto(p, "reporting")
  /\ UNCHANGED <<rows, snapshot, run, cfg, seen, pass, reported, raced>>

\* _update_run_success and _update_run_failed, WHERE id = run_id only.
Report(p) ==
  LET r == run[p]
  IN /\ pc[p] = "reporting"
     /\ rows' = [rows EXCEPT ![r] = [@ EXCEPT !.status = outcome[p], !.zombie = FALSE]]
     /\ reported' = [reported EXCEPT ![r] = TRUE]
     /\ Leave(p, "idle")
     /\ UNCHANGED <<snapshot, saved, pass, buffered, observers>>

\* The update raises. A success becomes a failure, which the handler reports; a
\* failure that cannot be reported is logged and the row stays as it is.
ReportLost(p) ==
  /\ pc[p] = "reporting"
  /\ IF outcome[p] = "completed"
     THEN outcome' = [outcome EXCEPT ![p] = "failed"] /\ UNCHANGED <<pc, run, cfg, seen>>
     ELSE Leave(p, "idle")
  /\ UNCHANGED <<rows, snapshot, saved, pass, buffered, reported, observers>>

\* A process is killed, or exits.
Die(p) ==
  /\ Alive(p)
  /\ Leave(p, "gone")
  /\ buffered' = [buffered EXCEPT ![p] = NoRun]
  /\ lost' = lost \cup ({buffered[p]} \ {NoRun})
  /\ listed' = [listed EXCEPT ![p] = {}]
  /\ marks' = [marks EXCEPT ![p] = {}]
  /\ UNCHANGED <<rows, snapshot, saved, reported, raced>>

-----------------------------------------------------------------------------
(* resume_one and replay_one.                                              *)

\* Operators that read the row of r and have not yet made themselves its owner.
Resuming(r) == {q \in Operator : pc[q] = "fetched" /\ run[q] = r}

\* _fetch_run_row and _fetch_experiment_snapshot; the status is not looked at.
ResumeFetch(p, r) ==
  /\ p \in Operator /\ pc[p] = "idle" /\ Stored(r)
  /\ run' = [run EXCEPT ![p] = r]
  /\ seen' = [seen EXCEPT ![p] = rows[r].owner]
  /\ raced' = [raced EXCEPT ![r] = @ \/ Resuming(r) # {}]
  /\ Goto(p, "fetched")
  /\ UNCHANGED <<rows, snapshot, saved, cfg, outcome, pass, buffered, reported, lost>>

\* Faulty: resume does not ask whether the owner lives.
MayTakeOverBlindly(p) == TRUE

\* The pid check: only on this host, only of the owner that was read.
MayTakeOver(p) == Forced \/ HostOf[seen[p]] # HostOf[p] \/ ~Alive(seen[p])

\* _set_run_status_running, WHERE id = run_id only; then _execute_existing_run.
ResumeSet(p) ==
  LET r == run[p]
  IN /\ pc[p] = "fetched" /\ MayTakeOver(p)
     /\ rows' = [rows EXCEPT ![r] = [@ EXCEPT !.status = "running", !.zombie = FALSE, !.owner = p]]
     /\ reported' = [reported EXCEPT ![r] = FALSE]
     /\ seen' = [seen EXCEPT ![p] = NoProc]
     /\ Goto(p, "executing")
     /\ UNCHANGED <<snapshot, saved, run, cfg, outcome, pass, buffered, observers>>

\* "still has a live process", or the update raises.
ResumeRefused(p) ==
  /\ pc[p] = "fetched"
  /\ Leave(p, "idle")
  /\ UNCHANGED <<rows, snapshot, saved, pass, buffered, reported, observers>>

\* A new row for the replay of `original`, with the experiment's configuration.
\* The deterministic mode needs the original's llm_calls.parquet.
Replay(p, original, r, mode) ==
  /\ p \in Operator /\ pc[p] = "idle" /\ Stored(original) /\ ~Stored(r)
  /\ mode = "deterministic" => original \in saved
  /\ rows' = [rows EXCEPT ![r] = Running(p, snapshot, original)]
  /\ run' = [run EXCEPT ![p] = r]
  /\ Goto(p, "executing")
  /\ UNCHANGED <<snapshot, saved, cfg, outcome, seen, pass, buffered, reported, observers>>

-----------------------------------------------------------------------------
(* reconcile_zombies.                                                      *)

\* _classify_row: another host's processes cannot be checked.
IsZombie(p, owner) == HostOf[owner] # HostOf[p] \/ ~Alive(owner)

\* One SELECT of the running rows, with their owners.
ReconcileScan(p) ==
  /\ p \in Operator /\ pc[p] = "idle"
  /\ listed' = [listed EXCEPT ![p] =
       {[run |-> r, owner |-> rows[r].owner] : r \in {q \in Run : Stored(q) /\ rows[q].status = "running"}}]
  /\ listed'[p] # {}
  /\ Goto(p, "checking")
  /\ UNCHANGED <<rows, snapshot, saved, job, marks, buffered, reported, observers>>

\* The owners that were read are checked one after the other, outside any transaction.
ReconcileCheck(p, row) ==
  /\ pc[p] = "checking" /\ row \in listed[p]
  /\ listed' = [listed EXCEPT ![p] = @ \ {row}]
  /\ marks' = [marks EXCEPT ![p] = IF IsZombie(p, row.owner) THEN @ \cup {row.run} ELSE @]
  /\ Goto(p, IF listed[p] # {row} THEN "checking" ELSE IF marks'[p] # {} THEN "marking" ELSE "idle")
  /\ UNCHANGED <<rows, snapshot, saved, job, buffered, reported, observers>>

\* Faulty: a status of its own for zombies.
MarkedByStatus(row) == IF row.status = "running" THEN [row EXCEPT !.status = "zombie"] ELSE row

\* Faulty: UPDATE without WHERE status = 'running'.
MarkedAlways(row) == [row EXCEPT !.status = "failed", !.zombie = TRUE]

Marked(row) ==
  IF row.status = "running" THEN [row EXCEPT !.status = "failed", !.zombie = TRUE] ELSE row

\* One UPDATE per zombie, WHERE status = 'running'.
ReconcileMark(p, r) ==
  /\ pc[p] = "marking" /\ r \in marks[p]
  /\ rows' = [rows EXCEPT ![r] = Marked(@)]
  /\ marks' = [marks EXCEPT ![p] = @ \ {r}]
  /\ Goto(p, IF marks[p] = {r} THEN "idle" ELSE "marking")
  /\ UNCHANGED <<snapshot, saved, job, listed, buffered, reported, observers>>

-----------------------------------------------------------------------------
Execution(p) ==
  \/ \E c \in Config : EnsureExperiment(p, c)
  \/ \E r \in Run : InsertRun(p, r)
  \/ InsertFails(p)
  \/ Observe(p) \/ GraphEnds(p) \/ GraphRaises(p)
  \/ Report(p) \/ ReportLost(p)

Operation(p) ==
  \/ \E r \in Run : ResumeFetch(p, r)
  \/ ResumeSet(p) \/ ResumeRefused(p)
  \/ \E o, r \in Run, m \in {"deterministic", "semantic"} : Replay(p, o, r, m)
  \/ ReconcileScan(p)
  \/ \E row \in listed[p] : ReconcileCheck(p, row)
  \/ \E r \in Run : ReconcileMark(p, r)

Next == \E p \in Proc : Execution(p) \/ Operation(p) \/ Die(p)

Spec == Init /\ [][Next]_vars

-----------------------------------------------------------------------------
(* Correctness.                                                            *)

Works(p, r) == pc[p] \in {"executing", "reporting"} /\ run[p] = r

\* resume_one reads the owner, checks its pid and takes the run over in three steps. On
\* one host and without --force, two processes execute a run only after two resumes of
\* it overlapped, and never beside the process that created the row.
SoleExecutor ==
  \A r \in Run : \A p, q \in Proc :
    Works(p, r) /\ Works(q, r) /\ p # q => raced[r] /\ {p, q} \subseteq Operator

\* reconcile.py: "if the row's status changed between the SELECT and the UPDATE (e.g. a
\* sibling worker wrote 'completed')" the mark is a no-op. An owner may report and exit
\* after the SELECT and before its pid is checked, a run may be resumed before the mark:
\* a zombie row never hides an outcome its execution wrote.
ZombieHidesNoOutcome == \A r \in Run : Stored(r) /\ rows[r].zombie => ~reported[r]

\* runner.py, the flush-before-update invariant: the writer is closed before the row is
\* updated. No process holds unwritten rows of a run whose row says completed, but one
\* that still executes it after two resumes overlapped. (Rows that a death or a failed
\* write took are not held any more: see CompletedIsOnDisk in MCRunLifecycle.)
CompletedIsFlushed ==
  \A r \in Run : Stored(r) /\ rows[r].status = "completed"
    => \A p \in Proc : buffered[p] = r => raced[r] /\ Works(p, r)
=============================================================================
