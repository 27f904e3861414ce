----------------------------- MODULE GridProofs -----------------------------
(***************************************************************************)
(* Theorems about Grid, for any number of cells and workers: what the      *)
(* status of the experiment says of the rows, and what fail_fast bounds.   *)
(***************************************************************************)
EXTENDS Grid, FiniteSetTheorems, TLAPS

-----------------------------------------------------------------------------
(* The types.                                                              *)

LEMMA FiniteCells ==
  ASSUME NEW places
  PROVE  IsFiniteSet(At(places)) /\ Cardinality(At(places)) \in Nat
<1>1. IsFiniteSet(Cell)
  BY GridAssumption, FS_Interval DEF Cell
<1>2. At(places) \subseteq Cell
  BY DEF At
<1>. QED  BY <1>1, <1>2, FS_Subset, FS_CardinalityType

\* What a dying worker leaves behind is a sequence of the cells the pool held.
LEMMA BreakOrder ==
  ASSUME TypeOK, Break
  PROVE  \E order \in Seq(At({"pending", "queued", "running"})) : inbox' = inbox \o order
<1> DEFINE held == At({"pending", "queued", "running"})
<1>1. PICK order \in [1 .. Cardinality(held) -> held] : inbox' = inbox \o order
  BY DEF Break
<1>2. order \in Seq(held)
  BY <1>1, FiniteCells
<1>. QED  BY <1>1, <1>2

LEMMA CountedType ==
  ASSUME TypeOK, NEW c \in Cell
  PROVE  Counted(c) \in {"none"} \cup Outcome
BY DEF TypeOK, Counted, Outcome

LEMMA TypesInit == Init => TypeOK
<1>1. << >> \in Seq(Cell)
  OBVIOUS
<1>. QED  BY <1>1 DEF Init, TypeOK

LEMMA TypesNext == TypeOK /\ [Next]_vars => TypeOK'
<1>. SUFFICES ASSUME TypeOK, [Next]_vars  PROVE TypeOK'
  OBVIOUS
<1>1. ASSUME NEW c \in Cell, Prefetch(c)  PROVE TypeOK'
  BY <1>1 DEF Prefetch, TypeOK, parent
<1>2. ASSUME NEW c \in Cell, StartCell(c)  PROVE TypeOK'
  BY <1>2 DEF StartCell, TypeOK, parent
<1>3. ASSUME NEW c \in Cell, WriteRow(c)  PROVE TypeOK'
  BY <1>3 DEF WriteRow, TypeOK, parent
<1>4. ASSUME NEW c \in Cell, Return(c)  PROVE TypeOK'
  <2>1. Answers(c) \subseteq Outcome
    BY DEF Answers, TypeOK, Outcome, Failure
  <2>. QED  BY <1>4, <2>1 DEF Return, TypeOK, parent
<1>5. ASSUME NEW c \in Cell, Deliver(c)  PROVE TypeOK'
  <2>1. Tail(inbox) \in Seq(Cell)
    BY <1>5 DEF Deliver, TypeOK
  <2>2. future' \in [Cell -> {"waiting", "ready", "cancelled"}]
    BY <1>5 DEF Deliver, TypeOK
  <2>. QED  BY <1>5, <2>1, <2>2 DEF Deliver, TypeOK, parent
<1>6. ASSUME NEW c \in Cell, Collect(c)  PROVE TypeOK'
  <2>1. status' \in [Cell -> {"none"} \cup Outcome] /\ taken' \subseteq Cell
    BY <1>6, CountedType DEF Collect, TypeOK
  <2>2. /\ future' \in [Cell -> {"waiting", "ready", "cancelled"}] /\ cancelled' \in BOOLEAN
        /\ work' \in [Cell -> {"pending", "queued", "running", "returned", "broken", "cancelled"}]
    BY <1>6 DEF Collect, CancelRest, TypeOK
  <2>. QED  BY <1>6, <2>1, <2>2 DEF Collect, TypeOK
<1>7. ASSUME NEW c \in Cell, PassOver(c)  PROVE TypeOK'
  BY <1>7 DEF PassOver, TypeOK, pool
<1>8. CASE Finish
  <2>1. \A statuses : Aggregate(statuses) \in {"partial", "completed", "failed"}
    BY DEF Aggregate
  <2>. QED  BY <1>8, <2>1 DEF Finish, TypeOK, pool
<1>9. CASE Break
  <2>1. inbox' \in Seq(Cell)
    <3>1. PICK order \in Seq(At({"pending", "queued", "running"})) : inbox' = inbox \o order
      BY <1>9, BreakOrder
    <3>2. order \in Seq(Cell)
      BY <3>1 DEF At
    <3>. QED  BY <3>1, <3>2 DEF TypeOK
  <2>. QED  BY <1>9, <2>1 DEF Break, TypeOK, parent
<1>10. CASE UNCHANGED vars
  BY <1>10 DEF vars, TypeOK
<1>. QED  BY <1>1, <1>2, <1>3, <1>4, <1>5, <1>6, <1>7, <1>8, <1>9, <1>10 DEF Next, Progress, Step

\* Cells, rows, answers and futures are well-typed on every path.
THEOREM GridTypeCorrect == Spec => []TypeOK
BY TypesInit, TypesNext, PTL DEF Spec

-----------------------------------------------------------------------------
(* What the parent counted is what a worker answered, and what it passed   *)
(* over is there only because a failure was counted.                       *)

Settled == {"returned", "broken"}

Counts ==
  /\ \A c \in Cell :
       /\ answer[c] = "completed" => row[c] = "completed"
       /\ work[c] = "returned" => answer[c] \in Outcome
       /\ answer[c] # "none" => work[c] = "returned"
       /\ future[c] = "ready" => work[c] \in Settled
       /\ status[c] = "completed" => answer[c] = "completed"
       /\ status[c] # "none" => c \in taken
       /\ c \in taken => status[c] \in Outcome \/ future[c] = "cancelled"
       /\ future[c] = "cancelled" => cancelled
       /\ returned => work[c] \notin {"pending", "queued", "running"}
       /\ experiment = "completed" => row[c] = "completed"
  /\ \A i \in DOMAIN inbox : work[inbox[i]] \in Settled
  /\ cancelled => fail_fast /\ \E c \in Cell : status[c] \in Failure
  /\ returned => taken = Cell
  /\ experiment # "running" => returned

LEMMA CountsInit == Init => Counts
BY DEF Init, Counts, Outcome

LEMMA CountsNext == TypeOK /\ Counts /\ [Next]_vars => Counts'
<1>. SUFFICES ASSUME TypeOK, Counts, [Next]_vars  PROVE Counts'
  OBVIOUS
<1>1. ASSUME NEW c \in Cell, Prefetch(c) \/ StartCell(c)  PROVE Counts'
  <2>1. /\ work[c] \in {"pending", "queued"} /\ work'[c] \in {"queued", "running"}
        /\ \A d \in Cell \ {c} : work'[d] = work[d]
        /\ UNCHANGED <<fail_fast, row, answer, inbox, future, parent>>
    BY <1>1 DEF Prefetch, StartCell, First, TypeOK
  <2>2. ~returned
    BY <2>1 DEF Counts
  <2>3. \A i \in DOMAIN inbox : inbox[i] \in Cell
    BY DEF TypeOK
  <2>. QED  BY <2>1, <2>2, <2>3 DEF Counts, Settled, parent
<1>2. ASSUME NEW c \in Cell, WriteRow(c)  PROVE Counts'
  <2>1. /\ work[c] = "running" /\ \A d \in Cell \ {c} : row'[d] = row[d]
        /\ UNCHANGED <<fail_fast, work, answer, inbox, future, parent>>
    BY <1>2 DEF WriteRow, TypeOK
  <2>2. ~returned /\ answer[c] = "none"
    BY <2>1 DEF Counts
  <2>. QED  BY <2>1, <2>2 DEF Counts, parent
<1>3. ASSUME NEW c \in Cell, Return(c)  PROVE Counts'
  <2>1. /\ work[c] = "running" /\ work'[c] = "returned" /\ answer'[c] \in Answers(c)
        /\ \A d \in Cell \ {c} : work'[d] = work[d] /\ answer'[d] = answer[d]
        /\ inbox' = Append(inbox, c)
        /\ UNCHANGED <<fail_fast, row, future, parent>>
    BY <1>3 DEF Return, TypeOK
  <2>2. /\ answer'[c] \in Outcome
        /\ answer'[c] = "completed" => row[c] = "completed"
    BY <2>1 DEF Answers, TypeOK, Outcome, Failure
  <2>3. \A i \in DOMAIN inbox' : work'[inbox'[i]] \in Settled
    <3>1. \A i \in DOMAIN inbox : inbox[i] \in Cell /\ work[inbox[i]] \in Settled
      BY DEF TypeOK, Counts
    <3>2. \A i \in DOMAIN inbox' : inbox'[i] = c \/ (i \in DOMAIN inbox /\ inbox'[i] = inbox[i])
      BY <2>1 DEF TypeOK
    <3>. QED  BY <2>1, <3>1, <3>2 DEF Settled
  <2>. QED  BY <2>1, <2>2, <2>3 DEF Counts, Settled, parent
<1>4. ASSUME NEW c \in Cell, Deliver(c)  PROVE Counts'
  <2>1. /\ inbox # << >> /\ c = Head(inbox) /\ inbox' = Tail(inbox)
        /\ future'[c] = (IF future[c] = "waiting" THEN "ready" ELSE future[c])
        /\ \A d \in Cell \ {c} : future'[d] = future[d]
        /\ UNCHANGED <<fail_fast, work, row, answer, parent>>
    BY <1>4 DEF Deliver, TypeOK
  <2>2. work[c] \in Settled /\ \A i \in DOMAIN inbox' : work[inbox'[i]] \in Settled
    <3>1. \A i \in DOMAIN inbox' : i + 1 \in DOMAIN inbox /\ inbox'[i] = inbox[i + 1]
      BY <2>1 DEF TypeOK
    <3>2. c = inbox[1] /\ 1 \in DOMAIN inbox
      BY <2>1 DEF TypeOK
    <3>. QED  BY <3>1, <3>2 DEF Counts
  <2>. QED  BY <2>1, <2>2 DEF Counts, parent
<1>5. ASSUME NEW c \in Cell, Collect(c)  PROVE Counts'
  <2>1. /\ future[c] = "ready" /\ c \notin taken /\ taken' = taken \cup {c}
        /\ status'[c] = Counted(c) /\ \A d \in Cell \ {c} : status'[d] = status[d]
        /\ UNCHANGED <<fail_fast, row, answer, inbox, returned, experiment>>
    BY <1>5 DEF Collect, TypeOK
  <2>2. ~returned /\ experiment = "running" /\ status[c] = "none"
    BY <2>1 DEF Counts
  <2>3. /\ Counted(c) \in Outcome /\ (Counted(c) = "completed" => answer[c] = "completed")
    BY <2>1 DEF Counts, Counted, Settled, Outcome
  <2>4. CASE Triggers(c)
    <3>1. /\ cancelled' /\ fail_fast /\ Counted(c) \in Failure
          /\ \A d \in Cell : future'[d] = IF d # c /\ future[d] = "waiting" THEN "cancelled"
                                          ELSE future[d]
          /\ \A d \in Cell : work'[d] = IF work[d] = "pending" THEN "cancelled" ELSE work[d]
      BY <1>5, <2>4 DEF Collect, CancelRest, Triggers
    <3>2. \A i \in DOMAIN inbox : inbox[i] \in Cell
      BY DEF TypeOK
    <3>. QED  BY <2>1, <2>2, <2>3, <3>1, <3>2 DEF Counts, Settled
  <2>5. CASE ~Triggers(c)
    <3>1. UNCHANGED <<future, work, cancelled>>
      BY <1>5, <2>5 DEF Collect
    <3>2. cancelled => \E d \in Cell : status'[d] \in Failure
      BY <2>1, <2>2 DEF Counts, Failure
    <3>. QED  BY <2>1, <2>2, <2>3, <3>1, <3>2 DEF Counts
  <2>. QED  BY <2>4, <2>5
<1>6. ASSUME NEW c \in Cell, PassOver(c)  PROVE Counts'
  <2>1. /\ future[c] = "cancelled" /\ c \notin taken /\ taken' = taken \cup {c}
        /\ UNCHANGED <<fail_fast, pool, future, status, cancelled, returned, experiment>>
    BY <1>6 DEF PassOver
  <2>2. ~returned
    BY <2>1 DEF Counts
  <2>. QED  BY <2>1, <2>2 DEF Counts, pool
<1>7. CASE Finish
  <2>1. /\ ~returned /\ taken = Cell /\ returned'
        /\ \A c \in Cell : work[c] \notin {"pending", "queued", "running"}
        /\ experiment' \in {experiment, Aggregate({status[c] : c \in Cell} \ {"none"})}
        /\ UNCHANGED <<fail_fast, pool, future, status, taken, cancelled>>
    BY <1>7 DEF Finish, At
  <2>2. experiment = "running"
    BY <2>1 DEF Counts
  <2>3. ASSUME experiment' = "completed", NEW c \in Cell  PROVE row[c] = "completed"
    <3>1. ({status[d] : d \in Cell} \ {"none"}) \cap Failure = {}
      BY <2>1, <2>2, <2>3 DEF Aggregate
    <3>2. \A d \in Cell : status[d] \notin Failure
      BY <3>1 DEF Failure
    <3>3. status[c] \in Outcome
      BY <2>1, <3>2 DEF Counts
    <3>4. status[c] = "completed"
      BY <3>2, <3>3 DEF Outcome, Failure
    <3>. QED  BY <3>4 DEF Counts
  <2>. QED  BY <2>1, <2>3 DEF Counts, pool
<1>8. CASE Break
  <2> DEFINE held == At({"pending", "queued", "running"})
  <2>1. /\ \A c \in Cell : work'[c] = IF c \in held THEN "broken" ELSE work[c]
        /\ held # {} /\ held \subseteq Cell
        /\ \A c \in held : work[c] \in {"pending", "queued", "running"}
        /\ UNCHANGED <<fail_fast, row, answer, future, parent>>
    BY <1>8 DEF Break, At
  <2>2. ~returned /\ \A c \in held : answer[c] = "none"
    BY <2>1 DEF Counts
  <2>3. \A i \in DOMAIN inbox' : work'[inbox'[i]] \in Settled
    <3>1. PICK order \in Seq(held) : inbox' = inbox \o order
      BY <1>8, BreakOrder
    <3>2. ASSUME NEW i \in DOMAIN inbox'
          PROVE  inbox'[i] \in held \/ (i \in DOMAIN inbox /\ inbox'[i] = inbox[i])
      BY <3>1, <3>2 DEF TypeOK
    <3>3. \A i \in DOMAIN inbox : inbox[i] \in Cell /\ work[inbox[i]] \in Settled
      BY DEF TypeOK, Counts
    <3>. QED  BY <2>1, <3>2, <3>3 DEF Settled
  <2>. HIDE DEF held
  <2>4. \A c \in Cell : work'[c] \in {work[c], "broken"}
                        /\ (work[c] = "returned" => work'[c] = "returned")
                        /\ (work[c] \in Settled => work'[c] \in Settled)
    BY <2>1 DEF Settled
  <2>. QED  BY <2>1, <2>2, <2>3, <2>4 DEF Counts, parent
<1>9. CASE UNCHANGED vars
  BY <1>9 DEF vars, Counts
<1>. QED  BY <1>1, <1>2, <1>3, <1>4, <1>5, <1>6, <1>7, <1>8, <1>9 DEF Next, Progress, Step

\* An experiment is completed only if the row of every cell is, whatever was cancelled,
\* lost or broken.
THEOREM CompletedIsTrue == Spec => []CompletedMeansAll
<1>1. Counts => CompletedMeansAll
  BY DEF Counts, CompletedMeansAll
<1>. QED  BY <1>1, TypesInit, TypesNext, CountsInit, CountsNext, PTL DEF Spec
-----------------------------------------------------------------------------
(* What the parent counted is told by the rows, when no worker died.       *)

Tells ==
  /\ \A c \in Cell :
       /\ work[c] = "returned" => answer[c] \in Answers(c)
       /\ status[c] # "none" /\ work[c] # "broken" => work[c] = "returned" /\ status[c] = answer[c]
  /\ experiment # "running" => experiment = Aggregate({status[c] : c \in Cell} \ {"none"})

LEMMA TellsInit == Init => Tells
BY DEF Init, Tells

LEMMA TellsNext == TypeOK /\ Counts /\ Tells /\ [Next]_vars => Tells'
<1>. SUFFICES ASSUME TypeOK, Counts, Tells, [Next]_vars  PROVE Tells'
  OBVIOUS
<1>1. ASSUME NEW c \in Cell, Prefetch(c) \/ StartCell(c)  PROVE Tells'
  <2>1. /\ work[c] \in {"pending", "queued"} /\ work'[c] \in {"queued", "running"}
        /\ \A d \in Cell \ {c} : work'[d] = work[d]
        /\ UNCHANGED <<row, answer, status, experiment>>
    BY <1>1 DEF Prefetch, StartCell, First, TypeOK, parent
  <2>2. \A d \in Cell : Answers(d)' = Answers(d)
    BY <2>1 DEF Answers
  <2>. QED  BY <2>1, <2>2 DEF Tells
<1>2. ASSUME NEW c \in Cell, WriteRow(c)  PROVE Tells'
  <2>1. /\ work[c] = "running" /\ \A d \in Cell \ {c} : row'[d] = row[d]
        /\ UNCHANGED <<work, answer, status, experiment>>
    BY <1>2 DEF WriteRow, TypeOK, parent
  <2>2. \A d \in Cell \ {c} : Answers(d)' = Answers(d)
    BY <2>1 DEF Answers
  <2>. QED  BY <2>1, <2>2 DEF Tells
<1>3. ASSUME NEW c \in Cell, Return(c)  PROVE Tells'
  <2>1. /\ work[c] = "running" /\ work'[c] = "returned" /\ answer'[c] \in Answers(c)
        /\ \A d \in Cell \ {c} : work'[d] = work[d] /\ answer'[d] = answer[d]
        /\ UNCHANGED <<row, status, experiment>>
    BY <1>3 DEF Return, TypeOK, parent
  <2>2. \A d \in Cell : Answers(d)' = Answers(d)
    BY <2>1 DEF Answers
  <2>. QED  BY <2>1, <2>2 DEF Tells
<1>4. ASSUME NEW c \in Cell, Deliver(c) \/ PassOver(c)  PROVE Tells'
  <2>1. UNCHANGED <<work, row, answer, status, experiment>>
    BY <1>4 DEF Deliver, PassOver, parent, pool
  <2>2. \A d \in Cell : Answers(d)' = Answers(d)
    BY <2>1 DEF Answers
  <2>. QED  BY <2>1, <2>2 DEF Tells
<1>5. ASSUME NEW c \in Cell, Collect(c)  PROVE Tells'
  <2>1. /\ future[c] = "ready" /\ c \notin taken
        /\ status'[c] = Counted(c) /\ \A d \in Cell \ {c} : status'[d] = status[d]
        /\ \A d \in Cell : work'[d] \in {work[d], "cancelled"}
        /\ \A d \in Cell : work[d] \in Settled => work'[d] = work[d]
        /\ UNCHANGED <<row, answer, experiment>>
    BY <1>5 DEF Collect, CancelRest, TypeOK, Settled
  <2>2. experiment = "running" /\ work[c] \in Settled
    BY <2>1 DEF Counts
  <2>3. \A d \in Cell : Answers(d)' = Answers(d)
    BY <2>1 DEF Answers
  <2>4. \A d \in Cell \ {c} : status[d] # "none" => work[d] \in Settled
    BY DEF Tells, Settled
  <2>5. work'[c] # "broken" => work'[c] = "returned" /\ status'[c] = answer'[c]
    BY <2>1, <2>2 DEF Counted, Settled
  <2>. QED  BY <2>1, <2>2, <2>3, <2>4, <2>5 DEF Tells, Settled
<1>6. CASE Finish
  <2>1. /\ experiment' \in {experiment, Aggregate({status[c] : c \in Cell} \ {"none"})}
        /\ UNCHANGED <<work, row, answer, inbox, status>>
    BY <1>6 DEF Finish, pool
  <2>2. \A d \in Cell : Answers(d)' = Answers(d)
    BY <2>1 DEF Answers
  <2>. QED  BY <2>1, <2>2 DEF Tells
<1>7. CASE Break
  <2>1. /\ UNCHANGED <<row, answer, status, experiment>>
        /\ \A c \in Cell : work'[c] \in {work[c], "broken"}
    BY <1>7 DEF Break, parent
  <2>2. \A d \in Cell : Answers(d)' = Answers(d)
    BY <2>1 DEF Answers
  <2>. QED  BY <2>1, <2>2 DEF Tells
<1>8. CASE UNCHANGED vars
  BY <1>8 DEF vars, Tells, Answers
<1>. QED  BY <1>1, <1>2, <1>3, <1>4, <1>5, <1>6, <1>7, <1>8 DEF Next, Progress, Step

\* Without fail_fast and with a pool that survived, the status of the experiment is the
\* aggregate of its rows: nothing a worker wrote is lost between its row and the parent.
THEOREM GridAggregate == Spec => []AggregateIsTrue
<1>1. TypeOK /\ Counts /\ Tells => AggregateIsTrue
  <2>. SUFFICES ASSUME TypeOK, Counts, Tells,
                       ~fail_fast, At({"broken"}) = {}, returned, experiment # "running"
                PROVE  experiment = Aggregate({IF row[c] \in Outcome THEN row[c] ELSE "failed"
                                                 : c \in Cell})
    BY DEF AggregateIsTrue
  <2> DEFINE settled == {IF row[c] \in Outcome THEN row[c] ELSE "failed" : c \in Cell}
             counted == {status[c] : c \in Cell} \ {"none"}
  <2>1. ASSUME NEW c \in Cell
        PROVE  status[c] \in Outcome /\ work[c] = "returned" /\ status[c] \in Answers(c)
    <3>1. status[c] \in Outcome /\ work[c] # "broken"
      BY DEF Counts, At
    <3>. QED  BY <3>1 DEF Tells, Outcome
  <2>2. ASSUME NEW c \in Cell
        PROVE  IF row[c] \in Outcome THEN status[c] = row[c] ELSE status[c] \in Failure
    <3>1. row[c] \in {"none", "running"} \cup Outcome
      BY DEF TypeOK
    <3>2. CASE row[c] \in Outcome
      <4>1. row[c] # "none" /\ row[c] # "running"
        BY <3>2 DEF Outcome
      <4>. QED  BY <2>1, <3>2, <4>1 DEF Answers
    <3>3. CASE row[c] \in {"none", "running"}
      <4>1. row[c] \notin Outcome
        BY <3>3 DEF Outcome
      <4>. QED  BY <2>1, <3>3, <4>1 DEF Answers, Failure
    <3>. QED  BY <3>1, <3>2, <3>3
  <2>3. "completed" \in counted <=> "completed" \in settled
    BY <2>1, <2>2 DEF Outcome, Failure
  <2>4. counted \cap Failure # {} <=> settled \cap Failure # {}
    BY <2>1, <2>2 DEF Outcome, Failure
  <2>. QED  BY <2>3, <2>4 DEF Tells, Aggregate
<1>. QED  BY <1>1, TypesInit, TypesNext, CountsInit, CountsNext, TellsInit, TellsNext,
             PTL DEF Spec

-----------------------------------------------------------------------------
(* What starts after fail_fast fired was prefetched before.                *)

Prefetched ==
  /\ ~cancelled => late = {}
  /\ cancelled => At({"pending"}) = {}
  /\ Cardinality(late \cup At({"queued"})) <= Workers + 1

LEMMA PrefetchedInit == Init => Prefetched
<1>. SUFFICES ASSUME Init  PROVE Prefetched
  OBVIOUS
<1>1. late \cup At({"queued"}) = {}
  BY DEF Init, At
<1>2. Cardinality(late \cup At({"queued"})) = 0
  BY <1>1, FS_EmptySet
<1>3. 0 <= Workers + 1
  BY GridAssumption
<1>. QED  BY <1>2, <1>3 DEF Init, Prefetched

LEMMA PrefetchedFinite ==
  ASSUME TypeOK  PROVE IsFiniteSet(late \cup At({"queued"}))
<1>1. IsFiniteSet(Cell)
  BY GridAssumption, FS_Interval DEF Cell
<1>2. late \cup At({"queued"}) \subseteq Cell
  BY DEF TypeOK, At
<1>. QED  BY <1>1, <1>2, FS_Subset

\* The cells that are queued or started late only grow by what the pool prefetches.
LEMMA PrefetchedShrinks ==
  ASSUME TypeOK, Prefetched, late' \cup At({"queued"})' \subseteq late \cup At({"queued"})
  PROVE  Cardinality(late' \cup At({"queued"})') <= Workers + 1
<1>1. IsFiniteSet(late \cup At({"queued"}))
  BY PrefetchedFinite
<1>2. /\ IsFiniteSet(late' \cup At({"queued"})')
      /\ Cardinality(late' \cup At({"queued"})') <= Cardinality(late \cup At({"queued"}))
  BY <1>1, FS_Subset
<1>3. /\ Cardinality(late \cup At({"queued"})) \in Nat
      /\ Cardinality(late' \cup At({"queued"})') \in Nat
  BY <1>1, <1>2, FS_CardinalityType
<1>. QED  BY <1>2, <1>3, GridAssumption DEF Prefetched

LEMMA PrefetchedNext == TypeOK /\ Prefetched /\ [Next]_vars => Prefetched'
<1>. SUFFICES ASSUME TypeOK, Prefetched, [Next]_vars  PROVE Prefetched'
  OBVIOUS
<1>1. ASSUME NEW c \in Cell, Prefetch(c)  PROVE Prefetched'
  <2>1. /\ work[c] = "pending" /\ Cardinality(At({"queued"})) < Workers + 1
        /\ work' = [work EXCEPT ![c] = "queued"] /\ UNCHANGED <<late, cancelled>>
    BY <1>1 DEF Prefetch, First, parent
  <2>2. ~cancelled /\ late = {}
    BY <2>1 DEF Prefetched, At
  <2>3. At({"queued"})' = At({"queued"}) \cup {c} /\ c \notin At({"queued"})
    BY <2>1 DEF At, TypeOK
  <2>4. Cardinality(At({"queued"})') = Cardinality(At({"queued"})) + 1
    BY <2>3, FiniteCells, FS_AddElement
  <2>5. late' \cup At({"queued"})' = At({"queued"})'
    BY <2>1, <2>2
  <2>. QED  BY <2>1, <2>2, <2>4, <2>5, FiniteCells, GridAssumption DEF Prefetched
<1>2. ASSUME NEW c \in Cell, StartCell(c)  PROVE Prefetched'
  <2>1. /\ work[c] = "queued" /\ work' = [work EXCEPT ![c] = "running"]
        /\ late' = (IF cancelled THEN late \cup {c} ELSE late) /\ UNCHANGED cancelled
    BY <1>2 DEF StartCell, First, parent
  <2>2. late' \cup At({"queued"})' \subseteq late \cup At({"queued"})
    BY <2>1 DEF At, TypeOK
  <2>3. cancelled => At({"pending"})' = {}
    BY <2>1 DEF Prefetched, At, TypeOK
  <2>. QED  BY <2>1, <2>2, <2>3, PrefetchedShrinks DEF Prefetched
<1>3. ASSUME NEW c \in Cell, Collect(c)  PROVE Prefetched'
  <2>1. /\ \A d \in Cell : work'[d] = work[d] \/ (work[d] = "pending" /\ work'[d] = "cancelled")
        /\ UNCHANGED late
        /\ cancelled' # cancelled => ~cancelled /\ \A d \in Cell : work'[d] # "pending"
        /\ cancelled => cancelled'
    BY <1>3 DEF Collect, Triggers, CancelRest, TypeOK
  <2>2. late' \cup At({"queued"})' \subseteq late \cup At({"queued"})
    BY <2>1 DEF At
  <2>3. cancelled' => At({"pending"})' = {}
    BY <2>1 DEF Prefetched, At, TypeOK
  <2>4. ~cancelled' => late' = {}
    BY <2>1 DEF Prefetched
  <2>. QED  BY <2>2, <2>3, <2>4, PrefetchedShrinks DEF Prefetched
<1>4. ASSUME NEW c \in Cell, Return(c)  PROVE Prefetched'
  <2>1. work' = [work EXCEPT ![c] = "returned"] /\ UNCHANGED <<late, cancelled>>
    BY <1>4 DEF Return, parent
  <2>2. late' \cup At({"queued"})' \subseteq late \cup At({"queued"})
    BY <2>1 DEF At, TypeOK
  <2>3. cancelled => At({"pending"})' = {}
    BY <2>1 DEF Prefetched, At, TypeOK
  <2>. QED  BY <2>1, <2>2, <2>3, PrefetchedShrinks DEF Prefetched
<1>5. CASE Break
  <2>1. /\ \A c \in Cell : work'[c] \in {work[c], "broken"}
        /\ UNCHANGED <<late, cancelled>>
    BY <1>5 DEF Break, parent
  <2>2. late' \cup At({"queued"})' \subseteq late \cup At({"queued"})
    BY <2>1 DEF At
  <2>3. cancelled => At({"pending"})' = {}
    BY <2>1 DEF Prefetched, At
  <2>. QED  BY <2>1, <2>2, <2>3, PrefetchedShrinks DEF Prefetched
<1>6. ASSUME NEW c \in Cell, WriteRow(c) \/ Deliver(c) \/ PassOver(c)  PROVE Prefetched'
  <2>1. UNCHANGED <<work, late, cancelled>>
    BY <1>6 DEF WriteRow, Deliver, PassOver, parent, pool
  <2>. QED  BY <2>1 DEF Prefetched, At
<1>7. CASE Finish \/ UNCHANGED vars
  <2>1. UNCHANGED <<work, late, cancelled>>
    BY <1>7 DEF Finish, vars, pool
  <2>. QED  BY <2>1 DEF Prefetched, At
<1>. QED  BY <1>1, <1>2, <1>3, <1>4, <1>5, <1>6, <1>7 DEF Next, Progress, Step

\* After fail_fast fired, no more cells start than the pool had prefetched, for any
\* size of the sweep and of the pool.
THEOREM GridFailFast == Spec => []FailFastBound
<1>1. TypeOK /\ Prefetched => FailFastBound
  <2>. SUFFICES ASSUME TypeOK, Prefetched  PROVE FailFastBound
    OBVIOUS
  <2>1. IsFiniteSet(late \cup At({"queued"}))
    BY PrefetchedFinite
  <2>2. IsFiniteSet(late) /\ Cardinality(late) <= Cardinality(late \cup At({"queued"}))
    BY <2>1, FS_Subset
  <2>3. Cardinality(late) \in Nat /\ Cardinality(late \cup At({"queued"})) \in Nat
    BY <2>1, <2>2, FS_CardinalityType
  <2>. QED  BY <2>2, <2>3, GridAssumption DEF Prefetched, FailFastBound
<1>. QED  BY <1>1, TypesInit, TypesNext, PrefetchedInit, PrefetchedNext, PTL DEF Spec
=============================================================================
