-------------------------- MODULE LifecycleProofs ---------------------------
(***************************************************************************)
(* Theorems about RunLifecycle, with concurrent operators and with parquet *)
(* writes that may fail. The first two hold on any number of hosts and with*)
(* --force; the others on one host without --force, which is as far as the *)
(* pid check of resume_one reaches.                                        *)
(***************************************************************************)
EXTENDS RunLifecycle, TLAPS

\* What a process holds at each place of its program: the run it works on has a
\* row, and the row an insert is about to copy has a configuration.
Jobs ==
  /\ \A p \in Proc : pc[p] = "inserting" => cfg[p] \in Config /\ snapshot \in Config
  /\ \A p \in Proc : pc[p] \in {"executing", "reporting", "fetched"}
       => run[p] \in Run /\ Stored(run[p])
  /\ \A p \in Proc : pc[p] = "reporting" => outcome[p] \in Outcome
  /\ \A r \in Run : Stored(r) => snapshot \in Config
  /\ \A p \in Proc : \A r \in marks[p] : Stored(r)
  /\ \A p \in Proc : \A row \in listed[p] : Stored(row.run)

TypeInv == TypeOK /\ Jobs

LEMMA NewRow ==
  ASSUME NEW p \in Proc, NEW c \in Config, NEW o \in Run \cup {NoRun}
  PROVE  Running(p, c, o) \in Row /\ Running(p, c, o) # NoRow
<1>1. Running(p, c, o) \in Row
  BY DEF Running, Row
<1>. QED  BY <1>1, RowAssumption

LEMMA ExecutionTypes ==
  ASSUME TypeInv, NEW p \in Proc, Execution(p)
  PROVE  TypeInv'
<1>. USE LifecycleAssumption, RowAssumption DEF TypeInv, TypeOK, Jobs, Stored, Goto, Leave, Phase, pass, observers
<1>1. ASSUME NEW c \in Config, EnsureExperiment(p, c) PROVE TypeInv'
  BY <1>1 DEF EnsureExperiment
<1>2. ASSUME NEW r \in Run, InsertRun(p, r) PROVE TypeInv'
  <2>1. Running(p, cfg[p], NoRun) \in Row /\ Running(p, cfg[p], NoRun) # NoRow
    BY <1>2, NewRow DEF InsertRun
  <2>. QED  BY <1>2, <2>1 DEF InsertRun
<1>3. CASE InsertFails(p)
  BY <1>3 DEF InsertFails
<1>4. CASE Observe(p)
  BY <1>4 DEF Observe, job
<1>5. CASE GraphEnds(p)
  BY <1>5 DEF GraphEnds, CloseWriter, Outcome
<1>6. CASE GraphRaises(p)
  BY <1>6 DEF GraphRaises, CloseWriter, Outcome
<1>7. CASE Report(p)
  <2>. DEFINE r == run[p]
              w == [rows[r] EXCEPT !.status = outcome[p], !.zombie = FALSE]
  <2>1. r \in Run /\ rows[r] \in Row /\ outcome[p] \in Outcome
    BY <1>7 DEF Report
  <2>2. w \in Row
    BY <2>1 DEF Row
  <2>. QED  BY <1>7, <2>1, <2>2 DEF Report
<1>8. CASE ReportLost(p)
  <2>1. UNCHANGED <<rows, snapshot, saved, listed, marks, buffered, reported, raced, lost>>
    BY <1>8 DEF ReportLost
  <2>2. CASE outcome[p] = "completed"
    BY <1>8, <2>1, <2>2 DEF ReportLost, Outcome
  <2>3. CASE outcome[p] # "completed"
    BY <1>8, <2>1, <2>3 DEF ReportLost
  <2>. QED  BY <2>2, <2>3
<1>. QED  BY <1>1, <1>2, <1>3, <1>4, <1>5, <1>6, <1>7, <1>8 DEF Execution

LEMMA OperationTypes ==
  ASSUME TypeInv, NEW p \in Proc, Operation(p)
  PROVE  TypeInv'
<1>. USE LifecycleAssumption, RowAssumption DEF TypeInv, TypeOK, Jobs, Stored, Goto, Leave, Phase, job, pass, observers
<1>1. ASSUME NEW r \in Run, ResumeFetch(p, r) PROVE TypeInv'
  <2>1. rows[r].owner \in Proc
    BY <1>1 DEF ResumeFetch, Row
  <2>. QED  BY <1>1, <2>1 DEF ResumeFetch
<1>2. CASE ResumeSet(p)
  <2>. DEFINE r == run[p]
              w == [rows[r] EXCEPT !.status = "running", !.zombie = FALSE, !.owner = p]
  <2>1. r \in Run /\ rows[r] \in Row
    BY <1>2 DEF ResumeSet
  <2>2. w \in Row
    BY <2>1 DEF Row
  <2>. QED  BY <1>2, <2>1, <2>2 DEF ResumeSet
<1>3. CASE ResumeRefused(p)
  BY <1>3 DEF ResumeRefused
<1>4. ASSUME NEW o \in Run, NEW r \in Run, NEW m \in {"deterministic", "semantic"}, Replay(p, o, r, m)
      PROVE  TypeInv'
  <2>1. Running(p, snapshot, o) \in Row /\ Running(p, snapshot, o) # NoRow
    BY <1>4, NewRow DEF Replay
  <2>. QED  BY <1>4, <2>1 DEF Replay
<1>5. CASE ReconcileScan(p)
  <2>. DEFINE found == {[run |-> r, owner |-> rows[r].owner] :
                          r \in {q \in Run : Stored(q) /\ rows[q].status = "running"}}
  <2>1. found \in SUBSET [run : Run, owner : Proc] /\ \A row \in found : Stored(row.run)
    BY DEF Row
  <2>2. listed' = [listed EXCEPT ![p] = found]
    BY <1>5 DEF ReconcileScan
  <2>. HIDE DEF found
  <2>. QED  BY <1>5, <2>1, <2>2 DEF ReconcileScan
<1>7. ASSUME NEW row \in listed[p], ReconcileCheck(p, row) PROVE TypeInv'
  <2>1. row.run \in Run /\ row.owner \in Proc /\ Stored(row.run)
    OBVIOUS
  <2>2. marks'[p] \in SUBSET Run /\ \A r \in marks'[p] : Stored(r)
    BY <1>7, <2>1 DEF ReconcileCheck
  <2>. QED  BY <1>7, <2>2 DEF ReconcileCheck
<1>6. ASSUME NEW r \in Run, ReconcileMark(p, r) PROVE TypeInv'
  <2>1. rows[r] \in Row
    BY <1>6 DEF ReconcileMark
  <2>2. Marked(rows[r]) \in Row
    BY <2>1 DEF Marked, Row, Outcome
  <2>. QED  BY <1>6, <2>1, <2>2 DEF ReconcileMark
<1>. QED  BY <1>1, <1>2, <1>3, <1>4, <1>5, <1>6, <1>7 DEF Operation

LEMMA TypeStep == ASSUME TypeInv, [Next]_vars PROVE TypeInv'
<1>1. ASSUME NEW p \in Proc, Die(p) PROVE TypeInv'
  BY <1>1, LifecycleAssumption DEF Die, Leave, Goto, Phase, TypeInv, TypeOK, Jobs, Stored, pass, observers
<1>2. CASE UNCHANGED vars
  BY <1>2 DEF vars, pass, observers, TypeInv, TypeOK, Jobs, Stored
<1>. QED  BY <1>1, <1>2, ExecutionTypes, OperationTypes DEF Next

LEMMA TypeInvariant == Spec => []TypeInv
<1>1. Init => TypeInv
  BY LifecycleAssumption DEF Init, TypeInv, TypeOK, Jobs, Stored, Phase
<1>. QED  BY <1>1, TypeStep, PTL DEF Spec

\* Every reachable state of the rows, the processes and the files is well-typed: no
\* step reads the row or the outcome of a run that is not there.
THEOREM LifecycleTypes == Spec => []TypeOK
BY TypeInvariant, PTL DEF TypeInv

-----------------------------------------------------------------------------
(* Reconciling and reporting.                                              *)

\* A running row has no outcome yet, and a zombie row has none either: marking,
\* which only a running row undergoes, cannot bring the two together.
Unreported ==
  \A r \in Run : Stored(r) /\ (rows[r].status = "running" \/ rows[r].zombie) => ~reported[r]

\* What a step does to a row: nothing, insert it unreported, start it again
\* unreported, report it with its zombie mark cleared, or mark it while it runs.
RowStep(r) ==
  \/ rows'[r] = rows[r] /\ reported'[r] = reported[r]
  \/ ~Stored(r) /\ reported'[r] = reported[r]
  \/ ~reported'[r]
  \/ rows'[r].status \in Outcome /\ ~rows'[r].zombie
  \/ Stored(r) /\ rows[r].status = "running" /\ reported'[r] = reported[r]

\* A row that is not there was never reported.
Fresh == \A r \in Run : ~Stored(r) => ~reported[r]

LEMMA EveryRowStep ==
  ASSUME TypeInv, NEW p \in Proc, Execution(p) \/ Operation(p) \/ Die(p), NEW r \in Run
  PROVE  RowStep(r) /\ (Stored(r) => Stored(r)') /\ (~Stored(r)' => reported'[r] = reported[r])
<1>. USE DEF TypeInv, TypeOK, Stored, RowStep
<1>1. CASE Report(p)
  <2>. DEFINE u == run[p]
              w == [rows[u] EXCEPT !.status = outcome[p], !.zombie = FALSE]
  <2>1. u \in Run /\ rows[u] \in Row /\ outcome[p] \in Outcome
    BY <1>1 DEF Report, Jobs
  <2>2. w \in Row /\ w.status \in Outcome /\ ~w.zombie
    BY <2>1 DEF Row
  <2>. QED  BY <1>1, <2>1, <2>2, RowAssumption DEF Report
<1>2. CASE ResumeSet(p)
  <2>. DEFINE u == run[p]
              w == [rows[u] EXCEPT !.status = "running", !.zombie = FALSE, !.owner = p]
  <2>1. u \in Run /\ rows[u] \in Row
    BY <1>2 DEF ResumeSet, Jobs
  <2>2. w \in Row
    BY <2>1 DEF Row
  <2>. QED  BY <1>2, <2>1, <2>2, RowAssumption DEF ResumeSet
<1>3. ASSUME NEW u \in Run, ReconcileMark(p, u)
      PROVE  RowStep(r) /\ (Stored(r) => Stored(r)') /\ (~Stored(r)' => reported'[r] = reported[r])
  <2>1. rows[u] \in Row
    BY <1>3 DEF ReconcileMark, Jobs
  <2>2. Marked(rows[u]) \in Row /\ (rows[u].status # "running" => Marked(rows[u]) = rows[u])
    BY <2>1 DEF Marked, Row, Outcome
  <2>. QED  BY <1>3, <2>1, <2>2, RowAssumption DEF ReconcileMark
<1>4. ASSUME NEW u \in Run, NEW c \in Config, NEW o \in Run \cup {NoRun},
             ~Stored(u), rows' = [rows EXCEPT ![u] = Running(p, c, o)], reported' = reported
      PROVE  RowStep(r) /\ (Stored(r) => Stored(r)') /\ (~Stored(r)' => reported'[r] = reported[r])
  BY <1>4, NewRow
<1>5. ASSUME NEW u \in Run, InsertRun(p, u)
      PROVE  RowStep(r) /\ (Stored(r) => Stored(r)') /\ (~Stored(r)' => reported'[r] = reported[r])
  <2>1. cfg[p] \in Config
    BY <1>5 DEF InsertRun, Jobs
  <2>. QED  BY <1>4, <1>5, <2>1 DEF InsertRun
<1>6. ASSUME NEW o \in Run, NEW u \in Run, NEW m \in {"deterministic", "semantic"}, Replay(p, o, u, m)
      PROVE  RowStep(r) /\ (Stored(r) => Stored(r)') /\ (~Stored(r)' => reported'[r] = reported[r])
  <2>1. snapshot \in Config
    BY <1>6 DEF Replay, Jobs
  <2>. QED  BY <1>4, <1>6, <2>1 DEF Replay
<1>7. ASSUME UNCHANGED <<rows, reported>>
      PROVE  RowStep(r) /\ (Stored(r) => Stored(r)') /\ (~Stored(r)' => reported'[r] = reported[r])
  BY <1>7
<1>8. Report(p) \/ ResumeSet(p) \/ (\E u \in Run : ReconcileMark(p, u))
      \/ (\E u \in Run : InsertRun(p, u))
      \/ (\E o, u \in Run, m \in {"deterministic", "semantic"} : Replay(p, o, u, m))
      \/ UNCHANGED <<rows, reported>>
  BY DEF Execution, Operation, EnsureExperiment, InsertFails, Observe, GraphEnds, GraphRaises,
         ReportLost, Die, ResumeFetch, ResumeRefused, ReconcileScan, ReconcileCheck
<1>. QED  BY <1>1, <1>2, <1>3, <1>5, <1>6, <1>7, <1>8

LEMMA UnreportedStep ==
  ASSUME TypeInv, Unreported, Fresh, [Next]_vars
  PROVE  Unreported' /\ Fresh'
<1>1. CASE UNCHANGED vars
  BY <1>1 DEF vars, Unreported, Fresh, Stored
<1>2. ASSUME NEW p \in Proc, Execution(p) \/ Operation(p) \/ Die(p)
      PROVE  Unreported' /\ Fresh'
  <2>1. Fresh'
    BY <1>2, EveryRowStep DEF Fresh, Stored
  <2>2. ASSUME NEW r \in Run, Stored(r)', rows'[r].status = "running" \/ rows'[r].zombie
        PROVE  ~reported'[r]
    <3>1. RowStep(r)
      BY <1>2, EveryRowStep
    <3>. QED  BY <2>2, <3>1 DEF RowStep, Unreported, Fresh, Stored, Outcome
  <2>. QED  BY <2>1, <2>2 DEF Unreported, Stored
<1>. QED  BY <1>1, <1>2 DEF Next

\* reconcile.py's WHERE status = 'running': on any number of hosts and under any
\* race of workers, operators and reconcilers, no outcome is overwritten by "zombie".
THEOREM OutcomesKept == Spec => []ZombieHidesNoOutcome
<1>1. Init => Unreported /\ Fresh
  BY DEF Init, Unreported, Fresh, Stored
<1>2. Unreported => ZombieHidesNoOutcome
  BY DEF Unreported, ZombieHidesNoOutcome
<1>. QED  BY <1>1, <1>2, UnreportedStep, TypeInvariant, PTL DEF Spec

-----------------------------------------------------------------------------
(* One host, no --force: resume's pid check.                               *)

OneHost ==
  /\ \A p, q \in Proc : HostOf[p] = HostOf[q]
  /\ ~Forced

Busy(p) == pc[p] \in {"executing", "reporting"}
Fetched(p) == pc[p] = "fetched"

\* The row of a run names the process that executes it, and an operator that fetched a
\* row still knows its owner, until two resumes of the run overlap. Of the process that
\* created the row both are true all the same: while it works nobody takes its run.
Ownership ==
  /\ \A p \in Proc : Fetched(p) => p \in Operator /\ seen[p] \in Proc
  /\ \A p, q \in Proc : Fetched(p) /\ Fetched(q) /\ run[p] = run[q] /\ p # q => raced[run[p]]
  /\ \A p \in Proc : Busy(p) /\ (~raced[run[p]] \/ p \notin Operator) => rows[run[p]].owner = p
  /\ \A p \in Proc : Fetched(p) /\ ~raced[run[p]] => seen[p] = rows[run[p]].owner
  /\ \A p, q \in Proc : Busy(p) /\ p \notin Operator /\ Fetched(q) /\ run[q] = run[p] => seen[q] = p
  /\ \A p, q \in Proc : Busy(p) /\ Busy(q) /\ run[p] = run[q] /\ p # q
       => raced[run[p]] /\ p \in Operator /\ q \in Operator

\* A step of p that leaves every owner alone, and takes p neither to work nor to a
\* fetched row, keeps it.
LEMMA OwnersKept ==
  ASSUME TypeInv, Ownership, NEW p \in Proc,
         \A q \in Proc \ {p} : pc'[q] = pc[q] /\ run'[q] = run[q] /\ seen'[q] = seen[q],
         \A r \in Run : Stored(r) => rows'[r].owner = rows[r].owner,
         raced' = raced,
         pc'[p] # "fetched",
         Busy(p)' => Busy(p) /\ run'[p] = run[p]
  PROVE  Ownership'
<1>1. \A q \in Proc : Busy(q) \/ Fetched(q) => run[q] \in Run /\ Stored(run[q])
  BY DEF TypeInv, Jobs, Busy, Fetched
<1>2. \A q \in Proc : Busy(q)' => Busy(q) /\ run'[q] = run[q]
  BY DEF Busy
<1>3. \A q \in Proc : Fetched(q)' => Fetched(q) /\ run'[q] = run[q] /\ seen'[q] = seen[q]
  BY DEF Fetched
<1>. QED  BY <1>1, <1>2, <1>3 DEF Ownership

LEMMA OwnershipStep ==
  ASSUME OneHost, TypeInv, Ownership, [Next]_vars
  PROVE  Ownership'
<1>. USE DEF TypeInv, TypeOK, Goto, Leave, job, pass, observers
<1>0. \A q \in Proc : Busy(q) \/ Fetched(q) => run[q] \in Run /\ Stored(run[q])
  BY DEF Jobs, Busy, Fetched
<1>1. CASE UNCHANGED vars
  BY <1>1 DEF vars, Ownership, Busy, Fetched
<1>2. ASSUME NEW p \in Proc, Execution(p) \/ Operation(p) \/ Die(p) PROVE Ownership'
  <2>1. CASE \/ \E c \in Config : EnsureExperiment(p, c)
             \/ InsertFails(p) \/ Observe(p) \/ GraphEnds(p) \/ GraphRaises(p) \/ ReportLost(p)
             \/ Die(p) \/ ResumeRefused(p) \/ ReconcileScan(p)
             \/ \E row \in listed[p] : ReconcileCheck(p, row)
    <3>1. /\ \A q \in Proc \ {p} : pc'[q] = pc[q] /\ run'[q] = run[q] /\ seen'[q] = seen[q]
          /\ pc'[p] # "fetched"
          /\ Busy(p)' => Busy(p) /\ run'[p] = run[p]
          /\ rows' = rows /\ raced' = raced
      BY <2>1 DEF EnsureExperiment, InsertFails, Observe, GraphEnds, GraphRaises, ReportLost,
                  Die, ResumeRefused, ReconcileScan, ReconcileCheck, Busy
    <3>. QED  BY <3>1, OwnersKept
  <2>2. CASE Report(p)
    <3>1. run[p] \in Run /\ rows[run[p]] \in Row
      BY <2>2 DEF Report, Jobs, Stored
    <3>2. \A r \in Run : Stored(r) => rows'[r].owner = rows[r].owner
      BY <2>2, <3>1 DEF Report, Row, Stored
    <3>. QED  BY <2>2, <3>2, OwnersKept DEF Report, Busy
  <2>3. ASSUME NEW u \in Run, ReconcileMark(p, u) PROVE Ownership'
    <3>1. rows[u] \in Row
      BY <2>3 DEF ReconcileMark, Jobs, Stored
    <3>2. Marked(rows[u]).owner = rows[u].owner
      BY <3>1 DEF Marked, Row
    <3>3. \A r \in Run : Stored(r) => rows'[r].owner = rows[r].owner
      BY <2>3, <3>2 DEF ReconcileMark
    <3>. QED  BY <2>3, <3>3, OwnersKept DEF ReconcileMark, Busy
  <2>4. ASSUME NEW u \in Run, ResumeFetch(p, u) PROVE Ownership'
    <3>0. rows[u] \in Row /\ rows[u].owner \in Proc
      BY <2>4 DEF ResumeFetch, Stored, Row
    <3>1. /\ p \in Operator /\ ~Busy(p) /\ ~Fetched(p) /\ rows' = rows
          /\ Fetched(p)' /\ run'[p] = u /\ seen'[p] = rows[u].owner
          /\ \A q \in Proc \ {p} : pc'[q] = pc[q] /\ run'[q] = run[q] /\ seen'[q] = seen[q]
      BY <2>4 DEF ResumeFetch, Busy, Fetched
    <3>2. /\ raced' \in [Run -> BOOLEAN]
          /\ \A r \in Run : raced[r] => raced'[r]
          /\ \A r \in Run \ {u} : raced'[r] = raced[r]
          /\ \A q \in Proc : Fetched(q) /\ run[q] = u => raced'[u]
      BY <2>4 DEF ResumeFetch, Resuming, Ownership, Fetched
    <3>3. \A q \in Proc : Busy(q)' => q # p /\ Busy(q) /\ run'[q] = run[q]
      BY <2>4, <3>1 DEF ResumeFetch, Busy
    <3>4. \A q \in Proc \ {p} : Fetched(q)' => Fetched(q) /\ run'[q] = run[q] /\ seen'[q] = seen[q]
      BY <3>1 DEF Fetched
    <3>5. \A q \in Proc : Busy(q) /\ (~raced'[run[q]] \/ q \notin Operator) => rows[run[q]].owner = q
      BY <1>0, <3>2 DEF Ownership
    <3>. QED  BY <1>0, <3>0, <3>1, <3>2, <3>3, <3>4, <3>5 DEF Ownership
  <2>5. CASE ResumeSet(p)
    <3>. DEFINE u == run[p]
    <3>1. u \in Run /\ rows[u] \in Row /\ Stored(u) /\ Fetched(p) /\ p \in Operator
      BY <2>5 DEF ResumeSet, Jobs, Stored, Fetched, Ownership
    <3>2. ~Alive(seen[p])
      <4>1. seen[p] \in Proc
        BY <3>1 DEF Ownership
      <4>. QED  BY <2>5, <4>1 DEF ResumeSet, MayTakeOver, OneHost
    <3>3. \A q \in Proc : Busy(q) /\ run[q] = u => raced[u] /\ q \in Operator
      BY <1>0, <3>1, <3>2 DEF Ownership, Busy, Alive
    <3>4. \A q \in Proc \ {p} : Fetched(q) /\ run[q] = u => raced[u]
      BY <3>1 DEF Ownership
    <3>5. rows'[u].owner = p /\ \A r \in Run : r # u => rows'[r] = rows[r]
      BY <2>5, <3>1 DEF ResumeSet, Row
    <3>6. raced' = raced /\ ~Fetched(p)' /\ Busy(p)' /\ run' = run
          /\ \A q \in Proc \ {p} : pc'[q] = pc[q] /\ seen'[q] = seen[q]
      BY <2>5 DEF ResumeSet, Busy, Fetched
    <3>. HIDE DEF u
    <3>7. \A q \in Proc : Busy(q)' /\ q # p => Busy(q)
      BY <3>6 DEF Busy
    <3>8. \A q \in Proc : Fetched(q)' => q # p /\ Fetched(q) /\ seen'[q] = seen[q]
      BY <3>6 DEF Fetched
    <3>9. run[p] = u
      BY DEF u
    <3>. QED  BY <1>0, <3>1, <3>3, <3>4, <3>5, <3>6, <3>7, <3>8, <3>9 DEF Ownership
  <2>6. ASSUME NEW u \in Run, NEW c \in Config, NEW o \in Run \cup {NoRun}, ~Stored(u),
               rows' = [rows EXCEPT ![u] = Running(p, c, o)],
               run' = [run EXCEPT ![p] = u], pc' = [pc EXCEPT ![p] = "executing"],
               seen' = seen, raced' = raced
        PROVE  Ownership'
    <3>1. rows'[u].owner = p /\ \A r \in Run : r # u => rows'[r] = rows[r]
      BY <2>6 DEF Running
    <3>2. \A q \in Proc : Busy(q) \/ Fetched(q) => run[q] \in Run \ {u}
      BY <1>0, <2>6
    <3>3. \A q \in Proc \ {p} : (Busy(q)' <=> Busy(q)) /\ run'[q] = run[q]
      BY <2>6 DEF Busy
    <3>4. \A q \in Proc : Fetched(q)' => q # p /\ Fetched(q) /\ run'[q] = run[q]
      BY <2>6 DEF Fetched
    <3>5. run'[p] = u
      BY <2>6
    <3>. QED  BY <2>6, <3>1, <3>2, <3>3, <3>4, <3>5 DEF Ownership
  <2>7. ASSUME NEW u \in Run, InsertRun(p, u) PROVE Ownership'
    <3>1. cfg[p] \in Config
      BY <2>7 DEF InsertRun, Jobs
    <3>. QED  BY <2>6, <2>7, <3>1 DEF InsertRun
  <2>8. ASSUME NEW o \in Run, NEW u \in Run, NEW m \in {"deterministic", "semantic"}, Replay(p, o, u, m)
        PROVE  Ownership'
    <3>1. snapshot \in Config
      BY <2>8 DEF Replay, Jobs
    <3>. QED  BY <2>6, <2>8, <3>1 DEF Replay
  <2>. QED  BY <1>2, <2>1, <2>2, <2>3, <2>4, <2>5, <2>7, <2>8 DEF Execution, Operation
<1>. QED  BY <1>1, <1>2 DEF Next

LEMMA OwnershipAlways == OneHost => (Spec => []Ownership)
<1>1. Init => Ownership
  BY DEF Init, Ownership, Busy, Fetched
<1>2. OneHost /\ TypeInv /\ Ownership /\ [Next]_vars => OneHost' /\ Ownership'
  BY OwnershipStep DEF OneHost
<1>. QED  BY <1>1, <1>2, TypeInvariant, PTL DEF Spec

\* resume_one reads the owner, checks its pid and takes the run over, in three steps. On
\* one host and without --force, whatever dies and however many operators work: two
\* processes execute a run only after two resumes of it overlapped, and never beside the
\* process that created the row.
THEOREM OneExecutor == OneHost => (Spec => []SoleExecutor)
<1>1. Ownership => SoleExecutor
  BY DEF Ownership, Busy, SoleExecutor, Works
<1>. QED  BY <1>1, OwnershipAlways, PTL

-----------------------------------------------------------------------------
(* Flush before update.                                                    *)

\* Only a process that executes a run holds unwritten rows, of that run; and a run
\* that is executed does not say completed before two resumes of it overlap.
Buffers ==
  /\ \A p \in Proc : buffered[p] # NoRun => pc[p] = "executing" /\ buffered[p] = run[p]
  /\ \A p \in Proc : Busy(p) /\ ~raced[run[p]] => rows[run[p]].status # "completed"

\* A step of p that completes no row, and leaves p without rows to write or at work
\* on the run it had, keeps it.
LEMMA BuffersKept ==
  ASSUME TypeInv, Buffers, NEW p \in Proc,
         \A q \in Proc \ {p} : pc'[q] = pc[q] /\ run'[q] = run[q] /\ buffered'[q] = buffered[q],
         \A r \in Run : Stored(r) /\ rows'[r].status = "completed" => rows[r].status = "completed",
         \A r \in Run : raced[r] => raced'[r],
         buffered'[p] # NoRun => pc'[p] = "executing" /\ buffered'[p] = run'[p],
         Busy(p)' => Busy(p) /\ run'[p] = run[p]
  PROVE  Buffers'
<1>1. \A q \in Proc : Busy(q)' => Busy(q) /\ run'[q] = run[q] /\ run[q] \in Run /\ Stored(run[q])
  BY DEF Busy, TypeInv, Jobs
<1>2. \A q \in Proc : buffered'[q] # NoRun => pc'[q] = "executing" /\ buffered'[q] = run'[q]
  BY DEF Buffers
<1>. QED  BY <1>1, <1>2 DEF Buffers

LEMMA BuffersStep ==
  ASSUME TypeInv, Ownership, Buffers, [Next]_vars
  PROVE  Buffers'
<1>. USE DEF TypeInv, TypeOK, Goto, Leave, job, pass, observers
<1>0. \A q \in Proc : Busy(q) => run[q] \in Run
  BY DEF Busy, Jobs
<1>1. CASE UNCHANGED vars
  BY <1>1 DEF vars, Buffers, Busy
<1>2. ASSUME NEW p \in Proc, Execution(p) \/ Operation(p) \/ Die(p) PROVE Buffers'
  <2>1. CASE \/ \E c \in Config : EnsureExperiment(p, c)
             \/ InsertFails(p) \/ Observe(p) \/ GraphEnds(p) \/ GraphRaises(p) \/ ReportLost(p)
             \/ Die(p) \/ ResumeRefused(p) \/ ReconcileScan(p)
             \/ \E row \in listed[p] : ReconcileCheck(p, row)
    <3>1. /\ \A q \in Proc \ {p} : pc'[q] = pc[q] /\ run'[q] = run[q] /\ buffered'[q] = buffered[q]
          /\ buffered'[p] # NoRun => pc'[p] = "executing" /\ buffered'[p] = run'[p]
          /\ Busy(p)' => Busy(p) /\ run'[p] = run[p]
          /\ rows' = rows /\ raced' = raced
      BY <2>1 DEF EnsureExperiment, InsertFails, Observe, GraphEnds, GraphRaises, CloseWriter,
                  ReportLost, Die, ResumeRefused, ReconcileScan, ReconcileCheck, Busy, Buffers
    <3>. QED  BY <3>1, BuffersKept
  <2>2. CASE Report(p)
    <3>. DEFINE u == run[p]
    <3>1. u \in Run /\ pc[p] = "reporting" /\ buffered[p] = NoRun
      BY <2>2 DEF Report, Jobs, Buffers
    <3>2. \A r \in Run : r # u => rows'[r] = rows[r]
      BY <2>2, <3>1 DEF Report
    <3>3. \A q \in Proc \ {p} : Busy(q) /\ run[q] = u => raced[u]
      BY <3>1 DEF Busy, Ownership
    <3>. QED  BY <1>0, <2>2, <3>1, <3>2, <3>3 DEF Report, Buffers, Busy
  <2>3. ASSUME NEW u \in Run, ReconcileMark(p, u) PROVE Buffers'
    <3>1. rows[u] \in Row
      BY <2>3 DEF ReconcileMark, Jobs, Stored
    <3>2. Marked(rows[u]).status = "completed" => rows[u].status = "completed"
      BY <3>1 DEF Marked, Row
    <3>3. \A r \in Run : Stored(r) /\ rows'[r].status = "completed" => rows[r].status = "completed"
      BY <2>3, <3>2 DEF ReconcileMark
    <3>. QED  BY <2>3, <3>3, BuffersKept DEF ReconcileMark, Busy, Buffers
  <2>4. CASE ResumeSet(p)
    <3>. DEFINE u == run[p]
    <3>1. u \in Run /\ rows[u] \in Row /\ buffered[p] = NoRun
      BY <2>4 DEF ResumeSet, Jobs, Stored, Buffers
    <3>2. rows'[u].status = "running" /\ \A r \in Run : r # u => rows'[r] = rows[r]
      BY <2>4, <3>1 DEF ResumeSet, Row
    <3>. QED  BY <1>0, <2>4, <3>1, <3>2 DEF ResumeSet, Buffers, Busy
  <2>5. ASSUME NEW u \in Run, NEW c \in Config, NEW o \in Run \cup {NoRun},
               pc[p] \in {"idle", "inserting"},
               rows' = [rows EXCEPT ![u] = Running(p, c, o)],
               run' = [run EXCEPT ![p] = u], pc' = [pc EXCEPT ![p] = "executing"],
               buffered' = buffered, raced' = raced
        PROVE  Buffers'
    <3>1. rows'[u].status = "running" /\ \A r \in Run : r # u => rows'[r] = rows[r]
      BY <2>5 DEF Running
    <3>2. buffered[p] = NoRun
      BY <2>5 DEF Buffers
    <3>. QED  BY <1>0, <2>5, <3>1, <3>2 DEF Buffers, Busy
  <2>6. ASSUME NEW u \in Run, InsertRun(p, u) PROVE Buffers'
    <3>1. cfg[p] \in Config
      BY <2>6 DEF InsertRun, Jobs
    <3>. QED  BY <2>5, <2>6, <3>1 DEF InsertRun
  <2>7. ASSUME NEW o \in Run, NEW u \in Run, NEW m \in {"deterministic", "semantic"}, Replay(p, o, u, m)
        PROVE  Buffers'
    <3>1. snapshot \in Config
      BY <2>7 DEF Replay, Jobs
    <3>. QED  BY <2>5, <2>7, <3>1 DEF Replay
  <2>8. ASSUME NEW u \in Run, ResumeFetch(p, u) PROVE Buffers'
    <3>1. \A r \in Run : raced[r] => raced'[r]
      BY <2>8 DEF ResumeFetch
    <3>. QED  BY <2>8, <3>1, BuffersKept DEF ResumeFetch, Busy, Buffers
  <2>. QED  BY <1>2, <2>1, <2>2, <2>3, <2>4, <2>6, <2>7, <2>8 DEF Execution, Operation
<1>. QED  BY <1>1, <1>2 DEF Next

\* runner.py's flush-before-update invariant, the order of close and update: on one host
\* and without --force, no process holds unwritten rows of a run that says completed,
\* but one that still executes it after two resumes of the run overlapped. What a death
\* or a failed write takes is not held, and not covered.
THEOREM FlushedBeforeCompleted == OneHost => (Spec => []CompletedIsFlushed)
<1>1. Init => Buffers
  BY DEF Init, Buffers, Busy
<1>2. TypeInv /\ Ownership /\ Buffers /\ [Next]_vars => Buffers'
  BY BuffersStep
<1>3. TypeInv /\ Buffers => CompletedIsFlushed
  <2>. SUFFICES ASSUME TypeInv, Buffers, NEW r \in Run, rows[r].status = "completed",
                       NEW p \in Proc, buffered[p] = r
                PROVE  raced[r] /\ Works(p, r)
    BY DEF CompletedIsFlushed
  <2>1. pc[p] = "executing" /\ run[p] = r
    BY LifecycleAssumption DEF Buffers
  <2>. QED  BY <2>1 DEF Buffers, Busy, Works
<1>. QED  BY <1>1, <1>2, <1>3, TypeInvariant, OwnershipAlways, PTL DEF Spec
=============================================================================
