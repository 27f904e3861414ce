--------------------------- MODULE MCRunLifecycle ---------------------------
(* Small instances of RunLifecycle: every process on one host. *)
EXTENDS RunLifecycle, TLC

CONSTANTS w1, o1, o2, r1, r2

MCWorker == {w1}
MCOperator == {o1, o2}
MCRun == {r1, r2}
MCHostOf == [p \in {w1, o1, o2} |-> "host"]

\* Rows are interchangeable, and so are operators.
MCSymmetry == Permutations({r1, r2}) \cup Permutations({o1, o2})

-----------------------------------------------------------------------------
(* Sentences of the repository that the code does not keep. No run checks  *)
(* them; as an INVARIANT each yields a short counterexample.               *)

\* resume_one: RuntimeError "if the run is still alive". Two resumes that read the row
\* of a dead worker both find it dead.
OneAtATime == \A r \in Run : \A p, q \in Proc : Works(p, r) /\ Works(q, r) => p = q

\* runner.py: "all buffered observability data is flushed to disk before the run record
\* is marked complete". A failed flush is swallowed, and a resume completes a run whose
\* first execution died with rows in its buffers.
CompletedIsOnDisk == \A r \in Run : Stored(r) /\ rows[r].status = "completed" => r \notin lost

\* reconcile.py: a zombie is a row "whose owning OS process is no longer alive".
ZombieIsDead == \A r \in Run : Stored(r) /\ rows[r].zombie => ~Alive(rows[r].owner)

\* README: replay creates a run "with the same configuration".
ReplayKeepsConfig ==
  \A r \in Run : Stored(r) /\ rows[r].replay_of # NoRun
    => rows[r].config = rows[rows[r].replay_of].config
=============================================================================
