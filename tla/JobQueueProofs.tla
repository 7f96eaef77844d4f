---------------------------- MODULE JobQueueProofs ----------------------------
(***************************************************************************)
(* Theorems about JobQueue, for every set of jobs and workers and every    *)
(* choice of the bounds and of the failures that happen; and that JobQueue *)
(* implements JobContract: every step of the queue is a step of the        *)
(* contract or changes nothing the contract speaks of.                     *)
(***************************************************************************)
EXTENDS JobQueueContract, FiniteSetTheorems, TLAPS

USE DEF historyVars

\* The fields of a row and what each UPDATE makes of it.
LEMMA RowTypes ==
    ASSUME NEW r \in Row, NEW w \in Workers
    PROVE  /\ Leased(r, w) \in Row
           /\ Completed(r) \in Row
           /\ Requeued(r) \in Row
           /\ Ended(r, "dead") \in Row
           /\ Ended(r, "failed") \in Row
           /\ Ended(r, "cancelled") \in Row
           /\ Parked(r) \in Row
           /\ Reaped(r) \in Row
  <1> USE JobQueueAssumption
  <1>0. /\ r.status \in JobStatus \cup {"absent"}
        /\ r.attempts \in Nat /\ r.waits \in 0 .. ParkBudget
    BY DEF Row
  <1>1. Leased(r, w) \in Row
    <2>1. (IF r.status = "waiting_on_model" THEN r.attempts
                                           ELSE r.attempts + 1) \in Nat
      BY <1>0
    <2> QED BY <2>1 DEF Row, Leased, JobStatus
  <1>2. Completed(r) \in Row /\ Requeued(r) \in Row
    <2>1. 0 \in 0 .. ParkBudget
      OBVIOUS
    <2> QED BY <2>1 DEF Row, Completed, Requeued, JobStatus, TERMINAL
  <1>3. /\ Ended(r, "dead") \in Row /\ Ended(r, "failed") \in Row
        /\ Ended(r, "cancelled") \in Row
    BY DEF Row, Ended, JobStatus, TERMINAL
  <1>4. Parked(r) \in Row
    <2>1. (IF r.waits < ParkBudget THEN r.waits + 1 ELSE r.waits) \in 0 .. ParkBudget
      BY <1>0
    <2> QED BY <2>1 DEF Row, Parked, JobStatus
  <1>5. Reaped(r) \in Row
    <2>1. (IF r.attempts >= MaxAttempts THEN "dead" ELSE "queued")
             \in JobStatus \cup {"absent"}
      BY DEF JobStatus, TERMINAL
    <2> QED BY <2>1 DEF Row, Reaped
  <1> QED BY <1>1, <1>2, <1>3, <1>4, <1>5

LEMMA LeasedFacts ==
    ASSUME NEW r \in Row, NEW w \in Workers
    PROVE  /\ Leased(r, w).status = "running"
           /\ Leased(r, w).leasedBy = w
           /\ Leased(r, w).expired = FALSE
           /\ Leased(r, w).attempts = IF r.status = "waiting_on_model"
                                      THEN r.attempts ELSE r.attempts + 1
  BY DEF Row, Leased

LEMMA RowFacts ==
    ASSUME NEW r \in Row
    PROVE  /\ Completed(r).status = "complete"
           /\ Requeued(r).status = "queued"
           /\ \A s : Ended(r, s).status = s
           /\ Parked(r).status = "waiting_on_model"
           /\ Reaped(r).status = IF r.attempts >= MaxAttempts
                                 THEN "dead" ELSE "queued"
           /\ \A u \in {Completed(r), Requeued(r), Parked(r), Reaped(r)} :
                 u.leasedBy = NoWorker /\ u.expired = FALSE
                 /\ u.attempts = r.attempts
           /\ \A s : /\ Ended(r, s).leasedBy = NoWorker
                     /\ Ended(r, s).expired = FALSE
                     /\ Ended(r, s).attempts = r.attempts
  BY DEF Row, Completed, Requeued, Ended, Parked, Reaped

-----------------------------------------------------------------------------
(* Type correctness, together with what pc says of the claim in hand.      *)

WorkerType ==
    /\ pc \in [Workers -> RunnerState]
    /\ cur \in [Workers -> Jobs \cup {NoJob}]
    /\ todo \in [Workers -> SUBSET Jobs]
    /\ snap \in [Workers -> [Jobs -> Snapshot]]

\* WriteRunning keeps the table a table.
LEMMA WriteType ==
    ASSUME row \in [Jobs -> Row], NEW j \in Jobs, NEW r \in Row,
           WriteRunning(j, r)
    PROVE  row' \in [Jobs -> Row]
  BY DEF WriteRunning

LEMMA NoSnapshotType == NoSnapshot \in Snapshot
  <1>1. 0 \in 0 .. ParkBudget
    BY JobQueueAssumption
  <1> QED BY <1>1 DEF NoSnapshot, Snapshot

\* The end of a run leaves the worker polling or between two jobs.
LEMMA RunEndsWorker ==
    ASSUME WorkerType, WorkerInv, NEW w \in Workers,
           pc[w] \in {"run", "on_dead"}, RunEnds(w)
    PROVE  WorkerType' /\ WorkerInv'
  <1>1. WorkerType'
    BY NoSnapshotType DEF WorkerType, RunEnds, RunnerState
  <1>2. WorkerInv'
    BY JobQueueAssumption DEF WorkerType, WorkerInv, RunEnds
  <1> QED BY <1>1, <1>2

\* So does losing everything.
LEMMA LosesAllWorker ==
    ASSUME WorkerType, WorkerInv, NEW w \in Workers, LosesAll(w),
           NEW s \in {"down", "stopped"}, pc' = [pc EXCEPT ![w] = s]
    PROVE  WorkerType' /\ WorkerInv'
  <1>1. WorkerType'
    BY NoSnapshotType DEF WorkerType, LosesAll, RunnerState
  <1>2. WorkerInv'
    BY JobQueueAssumption DEF WorkerType, WorkerInv, LosesAll
  <1> QED BY <1>1, <1>2

\* fail() writes a row of the table and ends the run or goes on to on_dead.
LEMMA FailType ==
    ASSUME TypeOK, WorkerInv, NEW w \in Workers, pc[w] = "run",
           NEW retryable \in BOOLEAN, Fail(w, retryable)
    PROVE  row' \in [Jobs -> Row] /\ WorkerType' /\ WorkerInv'
  <1> DEFINE j == cur[w]
             end == IF retryable THEN "dead" ELSE "failed"
  <1>0. j \in Jobs /\ row[j] \in Row /\ WorkerType
    BY DEF TypeOK, WorkerInv, WorkerType
  <1>1. Ended(row[j], end) \in Row /\ Requeued(row[j]) \in Row
    BY <1>0, RowTypes
  <1>2. CASE retryable /\ snap[w][j].attempts < MaxAttempts
    <2>1. WriteRunning(j, Requeued(row[j])) /\ RunEnds(w)
      BY <1>2 DEF Fail
    <2>2. row' \in [Jobs -> Row]
      BY <2>1, <1>0, <1>1, WriteType DEF TypeOK
    <2> QED BY <2>1, <2>2, <1>0, RunEndsWorker
  <1>3. CASE ~(retryable /\ snap[w][j].attempts < MaxAttempts)
    <2>1. /\ WriteRunning(j, Ended(row[j], end))
          /\ pc' = [pc EXCEPT ![w] = "on_dead"]
          /\ UNCHANGED <<cur, todo, snap>>
      BY <1>3 DEF Fail
    <2>2. row' \in [Jobs -> Row]
      BY <2>1, <1>0, <1>1, WriteType DEF TypeOK
    <2>3. WorkerType'
      BY <2>1, <1>0 DEF WorkerType, RunnerState
    <2>4. WorkerInv'
      BY <2>1, <1>0 DEF WorkerType, WorkerInv
    <2> QED BY <2>2, <2>3, <2>4
  <1> QED BY <1>2, <1>3

TypeInv == TypeOK /\ WorkerInv

LEMMA TypeInit == Init => TypeInv
  <1> SUFFICES ASSUME Init PROVE TypeInv
    OBVIOUS
  <1> USE JobQueueAssumption DEF Init
  <1>1. row \in [Jobs -> Row]
    BY DEF Row
  <1>2. snap \in [Workers -> [Jobs -> Snapshot]]
    BY NoSnapshotType
  <1>3. TypeOK
    <2>1. faults \in 0 .. MaxFaults
      OBVIOUS
    <2>2. told \in [Jobs -> BOOLEAN]
      OBVIOUS
    <2> QED BY <1>1, <1>2, <2>1, <2>2 DEF TypeOK, RunnerState
  <1>4. WorkerInv
    BY DEF WorkerInv
  <1> QED BY <1>3, <1>4 DEF TypeInv

\* A step of the environment.
LEMMA TypeEnvironment ==
    ASSUME TypeInv, Environment
    PROVE  TypeInv'
  <1> USE DEF TypeInv, TypeOK
  <1>1. PICK j \in Jobs : Enqueue(j) \/ BecomesDue(j) \/ LeaseExpires(j)
                            \/ LeaseMissed(j)
    BY DEF Environment
  <1>2. row[j] \in Row
    OBVIOUS
  <1>3. /\ UNCHANGED workerVars /\ told' = told /\ lapsed' = lapsed
        /\ faults' \in 0 .. MaxFaults
    BY <1>1, JobQueueAssumption
    DEF Enqueue, BecomesDue, LeaseExpires, LeaseMissed, Expire, Fault
  <1>4. row' \in [Jobs -> Row]
    <2>1. CASE Enqueue(j)
      BY <2>1, <1>2 DEF Enqueue, Row, JobStatus
    <2>2. CASE BecomesDue(j)
      BY <2>2, <1>2 DEF BecomesDue, Row
    <2>3. CASE LeaseExpires(j) \/ LeaseMissed(j)
      <3>1. row' = [row EXCEPT ![j].expired = TRUE]
        BY <2>3 DEF LeaseExpires, LeaseMissed, Expire
      <3> QED BY <3>1, <1>2 DEF Row
    <2> QED BY <1>1, <2>1, <2>2, <2>3
  <1>5. WorkerInv'
    BY <1>3 DEF WorkerInv, workerVars
  <1> QED BY <1>3, <1>4, <1>5 DEF workerVars

\* A claim's UPDATE, whatever was selected.
LEMMA TypeLease ==
    ASSUME TypeInv, NEW w \in Workers, NEW B \in SUBSET Jobs,
           pc[w] \in {"claim", "scanned"}, Lease(w, B), UNCHANGED <<cur, historyVars, faults>>
    PROVE  TypeInv'
  <1> USE DEF TypeInv, TypeOK
  <1>1. \A j \in Jobs : row[j] \in Row /\ Leased(row[j], w) \in Row
    BY RowTypes
  <1>2. row' \in [Jobs -> Row]
    BY <1>1 DEF Lease
  <1>3. \A j \in Jobs : [attempts |-> Leased(row[j], w).attempts,
                         waits    |-> row[j].waits] \in Snapshot
    BY <1>1 DEF Row, Snapshot
  <1>4. snap' \in [Workers -> [Jobs -> Snapshot]]
    BY <1>3, NoSnapshotType DEF Lease
  <1>5. /\ pc' \in [Workers -> RunnerState]
        /\ todo' \in [Workers -> SUBSET Jobs]
    BY DEF Lease, RunnerState
  <1>6. WorkerInv'
    BY <1>5 DEF Lease, WorkerInv
  <1> QED BY <1>2, <1>4, <1>5, <1>6

\* A claim.
LEMMA TypeClaim ==
    ASSUME TypeInv, NEW w \in Workers, Claim(w)
    PROVE  TypeInv'
  BY TypeLease DEF Claim

\* Any other step of a worker.
LEMMA TypeRunner ==
    ASSUME TypeInv, NEW w \in Workers, RunnerStep(w)
    PROVE  TypeInv'
  <1> USE DEF TypeInv
  <1>a. /\ WorkerType /\ WorkerInv /\ row \in [Jobs -> Row]
        /\ told \in [Jobs -> BOOLEAN] /\ lapsed \subseteq Jobs /\ faults \in 0 .. MaxFaults
    BY DEF TypeOK, WorkerType
  <1>b. SUFFICES /\ WorkerType' /\ WorkerInv' /\ row' \in [Jobs -> Row]
                 /\ told' \in [Jobs -> BOOLEAN] /\ lapsed' \subseteq Jobs
                 /\ faults' \in 0 .. MaxFaults
    BY DEF TypeOK, WorkerType
  <1>c. ASSUME NEW k, Fault(k) PROVE faults' \in 0 .. MaxFaults
    BY <1>a, <1>c, JobQueueAssumption DEF Fault
  <1>d. ASSUME pc[w] = "run" PROVE cur[w] \in Jobs /\ row[cur[w]] \in Row
    BY <1>a, <1>d DEF WorkerInv
  <1>1. CASE Reap(w)
    <2>1. \A j \in Jobs : row[j] \in Row /\ Reaped(row[j]) \in Row
      BY <1>a, RowTypes
    <2> QED BY <1>1, <1>a, <2>1 DEF Reap, WorkerType, WorkerInv, RunnerState
  <1>2. CASE ReapFails(w)
    BY <1>2, <1>a, <1>c DEF ReapFails, WorkerType, WorkerInv, RunnerState
  <1>3. CASE StartRun(w)
    <2>1. PICK j \in todo[w] : /\ cur' = [cur EXCEPT ![w] = j]
                               /\ todo' = [todo EXCEPT ![w] = @ \ {j}]
      BY <1>3 DEF StartRun
    <2>2. WorkerType'
      BY <1>3, <1>a, <2>1 DEF StartRun, WorkerType, RunnerState
    <2>3. WorkerInv'
      BY <1>3, <1>a, <2>1 DEF StartRun, WorkerType, WorkerInv
    <2> QED BY <1>3, <1>a, <2>2, <2>3 DEF StartRun
  <1>4. CASE Heartbeat(w)
    <2>1. cur[w] \in Jobs /\ row[cur[w]] \in Row
      BY <1>4, <1>a DEF Heartbeat, WorkerInv
    <2>2. row' \in [Jobs -> Row]
      BY <1>4, <1>a, <2>1 DEF Heartbeat, Row
    <2> QED BY <1>4, <1>a, <2>2 DEF Heartbeat, workerVars, WorkerType, WorkerInv
  <1>5. CASE Complete(w)
    BY <1>5, <1>a, <1>d, RowTypes, WriteType, RunEndsWorker DEF Complete
  <1>6. CASE HandlerFails(w)
    <2>1. PICK retryable \in BOOLEAN : Fail(w, retryable)
      BY <1>6 DEF HandlerFails
    <2> QED BY <1>6, <1>a, <2>1, FailType DEF HandlerFails
  <1>7. CASE BackendWarming(w)
    <2>1. CASE Fail(w, TRUE)
      BY <1>7, <1>a, <2>1, FailType DEF BackendWarming
    <2>2. CASE WriteRunning(cur[w], Parked(row[cur[w]])) /\ RunEnds(w)
      BY <1>7, <1>a, <1>d, <2>2, RowTypes, WriteType, RunEndsWorker
      DEF BackendWarming
    <2> QED BY <1>7, <2>1, <2>2 DEF BackendWarming
  <1>8. CASE HandlerCancelled(w)
    BY <1>8, <1>a, <1>d, RowTypes, RunEndsWorker DEF HandlerCancelled
  <1>9. CASE CompleteFails(w)
    BY <1>9, <1>a, <1>c, FailType DEF CompleteFails
  <1>10. CASE OnDead(w) \/ OnDeadFails(w)
    BY <1>10, <1>a, <1>c, RunEndsWorker DEF OnDead, OnDeadFails
  <1>11. CASE Crash(w)
    BY <1>11, <1>a, <1>c, LosesAllWorker DEF Crash
  <1>12. CASE Restart(w)
    BY <1>12, <1>a DEF Restart, WorkerType, WorkerInv, RunnerState
  <1>13. CASE LoopDies(w)
    BY <1>13, <1>a, <1>c, LosesAllWorker DEF LoopDies
  <1> QED BY <1>1, <1>2, <1>3, <1>4, <1>5, <1>6, <1>7, <1>8, <1>9, <1>10,
             <1>11, <1>12, <1>13 DEF RunnerStep, Outcome

LEMMA TypeStep == TypeInv /\ [Next]_vars => TypeInv'
  <1> SUFFICES ASSUME TypeInv, [Next]_vars PROVE TypeInv'
    OBVIOUS
  <1>1. CASE UNCHANGED vars
    BY <1>1 DEF vars, TypeInv, TypeOK, WorkerInv
  <1>2. CASE Next
    BY <1>2, TypeEnvironment, TypeClaim, TypeRunner DEF Next
  <1> QED BY <1>1, <1>2

\* Every reachable state has its type, and pc tells what a worker holds.
THEOREM TypeCorrect == Spec => [](TypeOK /\ WorkerInv)
  BY TypeInit, TypeStep, PTL DEF Spec, TypeInv

-----------------------------------------------------------------------------
(* What a step other than a claim does to a row and to what workers hold.  *)

\* Nobody comes to hold a job, and what is held is remembered unchanged.
NoNewHolder ==
    \A v \in Workers : /\ Held(v)' \subseteq Held(v)
                       /\ \A j \in Held(v)' : snap'[v][j] = snap[v][j]

\* r becomes u by a write that is no claim: attempts stays, a settled row
\* stays as it is, the lease goes with the status and nobody gets one.
LeaseOK(r) ==
    /\ r.status = "running" <=> r.leasedBy # NoWorker
    /\ r.expired => r.status = "running"

Written(r, u) ==
    /\ u.attempts = r.attempts
    /\ r.status \in TERMINAL => u = r
    /\ LeaseOK(r) => LeaseOK(u)
    /\ u.leasedBy \in {r.leasedBy, NoWorker}
    /\ r.status = "absent" \/ u.status # "absent"

\* The row goes back to the queue.
BackInQueue(r, u) == u.status = "queued" /\ r.status # "queued"

LEMMA WrittenEnded ==
    ASSUME NEW r \in Row, r.status \in {"queued", "running", "waiting_on_model"},
           NEW s \in TERMINAL
    PROVE  Written(r, Ended(r, s))
  BY RowFacts DEF Written, LeaseOK, TERMINAL

LEMMA WrittenRunning ==
    ASSUME NEW r \in Row, r.status = "running"
    PROVE  /\ Written(r, Completed(r)) /\ Written(r, Requeued(r))
           /\ Written(r, Parked(r)) /\ Written(r, Reaped(r))
  <1>1. Reaped(r).status \in {"dead", "queued"}
    BY RowFacts
  <1> QED BY <1>1, RowFacts DEF Written, LeaseOK, TERMINAL

LEMMA RunEndsHeld ==
    ASSUME TypeInv, NEW w \in Workers, pc[w] \in {"run", "on_dead"}, RunEnds(w)
    PROVE  /\ NoNewHolder
           /\ cur[w] \in Held(w) /\ cur[w] \notin Held(w)'
  BY JobQueueAssumption
  DEF TypeInv, TypeOK, WorkerInv, RunEnds, NoNewHolder, Held

LEMMA LosesAllHeld ==
    ASSUME TypeInv, NEW w \in Workers, LosesAll(w)
    PROVE  NoNewHolder
  BY JobQueueAssumption DEF TypeInv, TypeOK, LosesAll, NoNewHolder, Held

LEMMA SameHeld ==
    ASSUME UNCHANGED <<cur, todo, snap>>
    PROVE  NoNewHolder
  BY DEF NoNewHolder, Held

LEMMA WroteRunning ==
    ASSUME row \in [Jobs -> Row], NEW j \in Jobs, NEW u, WriteRunning(j, u),
           row[j].status = "running" => Written(row[j], u),
           NEW k \in Jobs
    PROVE  /\ Written(row[k], row'[k])
           /\ BackInQueue(row[k], row'[k]) => k = j /\ u.status = "queued"
  <1>1. Written(row[k], row[k]) /\ ~BackInQueue(row[k], row[k])
    BY DEF Written, BackInQueue
  <1>2. row'[k] = row[k] \/ (row[j].status = "running" /\ k = j /\ row'[k] = u)
    BY DEF WriteRunning
  <1> QED BY <1>1, <1>2 DEF BackInQueue

\* The one way back into the queue past max_attempts: a stale Job object.
SpendsHolder(j) ==
    \E w \in Workers : w \in StaleHolders(j) /\ w \notin StaleHolders(j)'

RowStep(j) ==
    /\ Written(row[j], row'[j])
    /\ BackInQueue(row[j], row'[j]) =>
          \/ row[j].status = "absent"
          \/ row[j].attempts < MaxAttempts
          \/ SpendsHolder(j)

LEMMA FailStep ==
    ASSUME TypeInv, NEW w \in Workers, pc[w] = "run",
           NEW retryable \in BOOLEAN, Fail(w, retryable)
    PROVE  NoNewHolder /\ \A j \in Jobs : RowStep(j)
  <1> DEFINE end == IF retryable THEN "dead" ELSE "failed"
  <1>a. PICK j \in Jobs : j = cur[w]
    BY DEF TypeInv, WorkerInv
  <1>0. row \in [Jobs -> Row] /\ row[j] \in Row
    BY DEF TypeInv, TypeOK
  <1>1. CASE retryable /\ snap[w][j].attempts < MaxAttempts
    <2>1. WriteRunning(j, Requeued(row[j])) /\ RunEnds(w)
      BY <1>1, <1>a DEF Fail
    <2>2. NoNewHolder /\ j \in Held(w) /\ j \notin Held(w)'
      BY <1>a, <2>1, RunEndsHeld
    <2>3. SpendsHolder(j)
      BY <1>1, <2>2 DEF SpendsHolder, StaleHolders
    <2>4. ASSUME NEW k \in Jobs PROVE RowStep(k)
      BY <1>0, <2>1, <2>3, WroteRunning, WrittenRunning DEF RowStep
    <2> QED BY <2>2, <2>4
  <1>2. CASE ~(retryable /\ snap[w][j].attempts < MaxAttempts)
    <2>1. WriteRunning(j, Ended(row[j], end)) /\ UNCHANGED <<cur, todo, snap>>
      BY <1>2, <1>a DEF Fail
    <2>2. end \in TERMINAL /\ end # "queued"
      BY DEF TERMINAL
    <2>3. row[j].status = "running" => Written(row[j], Ended(row[j], end))
      BY <1>0, <2>2, WrittenEnded
    <2>4. Ended(row[j], end).status # "queued"
      BY <1>0, <2>2, RowFacts
    <2>5. ASSUME NEW k \in Jobs PROVE RowStep(k)
      BY <1>0, <2>1, <2>3, <2>4, WroteRunning DEF RowStep
    <2> QED BY <2>1, <2>5, SameHeld
  <1> QED BY <1>1, <1>2

LEMMA EnvironmentStep ==
    ASSUME TypeInv, Environment
    PROVE  NoNewHolder /\ \A j \in Jobs : RowStep(j)
  <1>1. PICK j \in Jobs : Enqueue(j) \/ BecomesDue(j) \/ LeaseExpires(j)
                            \/ LeaseMissed(j)
    BY DEF Environment
  <1>2. NoNewHolder
    BY <1>1, SameHeld
    DEF Enqueue, BecomesDue, LeaseExpires, LeaseMissed, Expire, workerVars
  <1>3. row \in [Jobs -> Row]
    BY DEF TypeInv, TypeOK
  <1>4. ASSUME NEW k \in Jobs PROVE RowStep(k)
    <2>0. Written(row[k], row[k]) /\ ~BackInQueue(row[k], row[k])
      BY DEF Written, BackInQueue
    <2>1. CASE Enqueue(j)
      <3>1. row' = [row EXCEPT ![j] = [@ EXCEPT !.status = "queued", !.due = TRUE]]
            /\ row[j].status = "absent"
        BY <2>1 DEF Enqueue
      <3> QED BY <1>3, <2>0, <3>1
              DEF RowStep, Written, LeaseOK, BackInQueue, Row, TERMINAL
    <2>2. CASE BecomesDue(j)
      <3>1. row' = [row EXCEPT ![j].due = TRUE]
            /\ row[j].status \in {"queued", "waiting_on_model"}
        BY <2>2 DEF BecomesDue
      <3> QED BY <1>3, <2>0, <3>1
              DEF RowStep, Written, LeaseOK, BackInQueue, Row, TERMINAL
    <2>3. CASE LeaseExpires(j) \/ LeaseMissed(j)
      <3>1. row' = [row EXCEPT ![j].expired = TRUE] /\ row[j].status = "running"
        BY <2>3 DEF LeaseExpires, LeaseMissed, Expire
      <3> QED BY <1>3, <2>0, <3>1
              DEF RowStep, Written, LeaseOK, BackInQueue, Row, TERMINAL
    <2> QED BY <1>1, <2>1, <2>2, <2>3
  <1> QED BY <1>2, <1>4

LEMMA RunnerStepFacts ==
    ASSUME TypeInv, NEW w \in Workers, RunnerStep(w)
    PROVE  NoNewHolder /\ \A j \in Jobs : RowStep(j)
  <1>0. row \in [Jobs -> Row]
    BY DEF TypeInv, TypeOK
  <1>a. ASSUME NEW j \in Jobs, row'[j] = row[j] PROVE RowStep(j)
    BY <1>a DEF RowStep, Written, BackInQueue
  <1>b. ASSUME pc[w] = "run" PROVE cur[w] \in Jobs
    BY <1>b DEF TypeInv, WorkerInv
  <1>c. ASSUME row' = row PROVE \A j \in Jobs : RowStep(j)
    BY <1>a, <1>c
  <1>1. CASE Reap(w)
    <2>1. NoNewHolder
      BY <1>1, SameHeld DEF Reap
    <2>2. ASSUME NEW j \in Jobs, Stale(row[j]) PROVE RowStep(j)
      <3>1. row'[j] = Reaped(row[j]) /\ row[j].status = "running"
        BY <1>1, <2>2 DEF Reap, Stale
      <3>2. Written(row[j], row'[j])
        BY <1>0, <3>1, WrittenRunning
      <3>3. row'[j].status = "queued" => row[j].attempts < MaxAttempts
        <4>1. row[j] \in Row /\ row[j].attempts \in Nat
          BY <1>0 DEF Row
        <4>2. Reaped(row[j]).status = IF row[j].attempts >= MaxAttempts
                                      THEN "dead" ELSE "queued"
          BY <4>1, RowFacts
        <4>3. MaxAttempts \in Nat
          BY JobQueueAssumption
        <4> QED BY <3>1, <4>1, <4>2, <4>3
      <3> QED BY <3>2, <3>3 DEF RowStep, BackInQueue
    <2>3. ASSUME NEW j \in Jobs, ~Stale(row[j]) PROVE RowStep(j)
      BY <1>1, <1>a, <2>3 DEF Reap
    <2> QED BY <2>1, <2>2, <2>3
  <1>2. CASE StartRun(w)
    <2>1. NoNewHolder
      <3>1. PICK j \in todo[w] : /\ cur' = [cur EXCEPT ![w] = j]
                                 /\ todo' = [todo EXCEPT ![w] = @ \ {j}]
        BY <1>2 DEF StartRun
      <3> QED BY <1>2, <3>1
              DEF StartRun, TypeInv, TypeOK, WorkerInv, NoNewHolder, Held
    <2> QED BY <1>2, <1>c, <2>1 DEF StartRun
  <1>3. CASE Heartbeat(w)
    <2>1. NoNewHolder
      BY <1>3, SameHeld DEF Heartbeat, workerVars
    <2>2. cur[w] \in Jobs /\ row[cur[w]].status = "running"
          /\ row' = [row EXCEPT ![cur[w]].expired = FALSE]
      BY <1>3 DEF Heartbeat, TypeInv, WorkerInv
    <2>3. ASSUME NEW j \in Jobs PROVE RowStep(j)
      BY <1>0, <1>a, <2>2
      DEF RowStep, Written, LeaseOK, BackInQueue, Row, TERMINAL
    <2> QED BY <2>1, <2>3
  <1>4. CASE Complete(w)
    <2>1. Completed(row[cur[w]]).status # "queued"
      BY <1>0, <1>4, <1>b, RowFacts DEF Complete
    <2> QED BY <1>4, <1>0, <1>b, <2>1, RunEndsHeld, WroteRunning, WrittenRunning
            DEF Complete, RowStep
  <1>5. CASE HandlerFails(w)
    BY <1>5, FailStep DEF HandlerFails
  <1>6. CASE BackendWarming(w)
    <2>1. Parked(row[cur[w]]).status # "queued"
      BY <1>0, <1>6, <1>b, RowFacts DEF BackendWarming
    <2>2. CASE Fail(w, TRUE)
      BY <1>6, <2>2, FailStep DEF BackendWarming
    <2>3. CASE WriteRunning(cur[w], Parked(row[cur[w]])) /\ RunEnds(w)
      BY <1>6, <1>0, <1>b, <2>1, <2>3, RunEndsHeld, WroteRunning, WrittenRunning
      DEF BackendWarming, RowStep
    <2> QED BY <1>6, <2>2, <2>3 DEF BackendWarming
  <1>7. CASE HandlerCancelled(w)
    <2>1. NoNewHolder
      BY <1>7, RunEndsHeld DEF HandlerCancelled
    <2>2. cur[w] \in Jobs /\ row[cur[w]] \in Row
      BY <1>0, <1>7, <1>b DEF HandlerCancelled
    <2>3. ASSUME NEW j \in Jobs, row'[j] # row[j] PROVE RowStep(j)
      <3>1. /\ row[j].status \in {"queued", "running", "waiting_on_model"}
            /\ row'[j] = Ended(row[j], "cancelled")
        BY <1>0, <1>7, <2>2, <2>3 DEF HandlerCancelled
      <3>2. Written(row[j], row'[j]) /\ row'[j].status = "cancelled"
        <4>1. row[j] \in Row /\ "cancelled" \in TERMINAL
          BY <1>0 DEF TERMINAL
        <4> QED BY <3>1, <4>1, WrittenEnded, RowFacts
      <3> QED BY <3>2 DEF RowStep, BackInQueue
    <2> QED BY <1>a, <2>1, <2>3
  <1>8. CASE CompleteFails(w)
    BY <1>8, FailStep DEF CompleteFails
  <1>9. CASE ReapFails(w) \/ Restart(w)
    BY <1>9, <1>c, SameHeld DEF ReapFails, Restart
  <1>10. CASE OnDead(w) \/ OnDeadFails(w)
    BY <1>10, <1>c, RunEndsHeld DEF OnDead, OnDeadFails
  <1>11. CASE Crash(w) \/ LoopDies(w)
    BY <1>11, <1>c, LosesAllHeld DEF Crash, LoopDies
  <1> QED BY <1>1, <1>2, <1>3, <1>4, <1>5, <1>6, <1>7, <1>8, <1>9, <1>10, <1>11
          DEF RunnerStep, Outcome

-----------------------------------------------------------------------------
(* The safety invariant.                                                   *)

AbsentFresh == \A j \in Jobs : row[j].status = "absent" => row[j].attempts = 0

Inv == TypeInv /\ LeaseIffRunning /\ AbsentFresh /\ RetryBudget

LEMMA LeaseRows == LeaseIffRunning <=> \A j \in Jobs : LeaseOK(row[j])
  BY DEF LeaseIffRunning, LeaseOK

LEMMA StaleFinite ==
    ASSUME NEW j \in Jobs
    PROVE  /\ IsFiniteSet(StaleHolders(j))
           /\ Cardinality(StaleHolders(j)) \in Nat
           /\ Cardinality(Workers) \in Nat
           /\ Cardinality(StaleHolders(j)) <= Cardinality(Workers)
  BY FS_Subset, FS_CardinalityType, JobQueueAssumption DEF StaleHolders

LEMMA InvInit == Init => Inv
  <1> SUFFICES ASSUME Init PROVE Inv
    OBVIOUS
  <1>1. LeaseIffRunning /\ AbsentFresh
    BY DEF Init, LeaseIffRunning, AbsentFresh
  <1>2. RetryBudget
    BY JobQueueAssumption DEF Init, RetryBudget
  <1> QED BY <1>1, <1>2, TypeInit DEF Inv

\* A step that is no claim keeps the budget of each job.
LEMMA BudgetKept ==
    ASSUME Inv, TypeInv', NoNewHolder, NEW j \in Jobs, RowStep(j),
           row'[j].attempts >= MaxAttempts
    PROVE  row'[j].attempts + Cardinality(StaleHolders(j)')
              + (IF row'[j].status = "queued" THEN 1 ELSE 0)
           < MaxAttempts + Cardinality(Workers)
  <1>1. row'[j].attempts = row[j].attempts /\ row[j].attempts \in Nat
    BY DEF RowStep, Written, Inv, TypeInv, TypeOK, Row
  <1>2. StaleHolders(j)' \subseteq StaleHolders(j)
    BY DEF NoNewHolder, StaleHolders
  <1>3. MaxAttempts \in Nat \ {0}
    BY JobQueueAssumption
  <1>4. /\ Cardinality(StaleHolders(j)') \in Nat
        /\ Cardinality(StaleHolders(j)') <= Cardinality(StaleHolders(j))
        /\ Cardinality(StaleHolders(j)) \in Nat /\ Cardinality(Workers) \in Nat
        /\ IsFiniteSet(StaleHolders(j))
    BY <1>2, StaleFinite, FS_Subset, FS_CardinalityType
  <1>5. row[j].attempts + Cardinality(StaleHolders(j))
           + (IF row[j].status = "queued" THEN 1 ELSE 0)
        < MaxAttempts + Cardinality(Workers)
    BY <1>1 DEF Inv, RetryBudget
  <1>6. CASE ~BackInQueue(row[j], row'[j])
    BY <1>1, <1>3, <1>4, <1>5, <1>6 DEF BackInQueue
  <1>7. CASE BackInQueue(row[j], row'[j])
    <2>1. SpendsHolder(j)
      BY <1>1, <1>3, <1>7 DEF RowStep, Inv, AbsentFresh
    <2>2. PICK w \in Workers : w \in StaleHolders(j) /\ w \notin StaleHolders(j)'
      BY <2>1 DEF SpendsHolder
    <2>3. StaleHolders(j)' \subseteq StaleHolders(j) \ {w}
      BY <1>2, <2>2
    <2>4. Cardinality(StaleHolders(j)') <= Cardinality(StaleHolders(j)) - 1
      <3>1. /\ IsFiniteSet(StaleHolders(j) \ {w})
            /\ Cardinality(StaleHolders(j) \ {w}) = Cardinality(StaleHolders(j)) - 1
        BY <1>4, <2>2, FS_RemoveElement
      <3> QED BY <2>3, <3>1, FS_Subset
    <2>5. row[j].status # "queued"
      BY <1>7 DEF BackInQueue
    <2> QED BY <1>1, <1>3, <1>4, <1>5, <2>4, <2>5
  <1> QED BY <1>6, <1>7

LEMMA InvOther ==
    ASSUME Inv, TypeInv', NoNewHolder, \A j \in Jobs : RowStep(j)
    PROVE  Inv'
  <1>1. LeaseIffRunning'
    BY LeaseRows DEF Inv, RowStep, Written, LeaseIffRunning, LeaseOK
  <1>2. AbsentFresh'
    BY DEF Inv, AbsentFresh, RowStep, Written
  <1>3. RetryBudget'
    BY BudgetKept DEF RetryBudget
  <1> QED BY <1>1, <1>2, <1>3 DEF Inv

\* A claim: the claimer held nothing, and what it gets is not stale once the
\* job has reached max_attempts.
LEMMA InvClaim ==
    ASSUME Inv, TypeInv', NEW w \in Workers, Claim(w)
    PROVE  Inv'
  <1> USE DEF Inv, TypeInv
  <1>1. PICK B \in SUBSET Jobs :
            IsClaim(B, {j \in Jobs : Claimable(j)}) /\ Lease(w, B)
    BY DEF Claim
  <1>2. row \in [Jobs -> Row]
    BY DEF TypeOK
  <1>3. \A j \in B : row[j].status \in {"queued", "waiting_on_model"}
    BY <1>1 DEF IsClaim, Claimable
  <1>4. \A j \in Jobs : row'[j] = IF j \in B THEN Leased(row[j], w) ELSE row[j]
    BY <1>1 DEF Lease
  <1>5. \A j \in B : /\ row'[j].status = "running" /\ row'[j].leasedBy = w
                     /\ row'[j].expired = FALSE
                     /\ row'[j].attempts = IF row[j].status = "waiting_on_model"
                          THEN row[j].attempts ELSE row[j].attempts + 1
    <2> SUFFICES ASSUME NEW j \in B
                 PROVE  /\ row'[j].status = "running" /\ row'[j].leasedBy = w
                        /\ row'[j].expired = FALSE
                        /\ row'[j].attempts = IF row[j].status = "waiting_on_model"
                             THEN row[j].attempts ELSE row[j].attempts + 1
      OBVIOUS
    <2>1. row'[j] = Leased(row[j], w) /\ row[j] \in Row
      BY <1>2, <1>4
    <2>2. /\ Leased(row[j], w).status = "running"
          /\ Leased(row[j], w).leasedBy = w
          /\ Leased(row[j], w).expired = FALSE
          /\ Leased(row[j], w).attempts = IF row[j].status = "waiting_on_model"
                                         THEN row[j].attempts ELSE row[j].attempts + 1
      BY <2>1, LeasedFacts, Zenon
    <2> QED BY <2>1, <2>2, Zenon
  <1>6. LeaseIffRunning'
    BY <1>4, <1>5, JobQueueAssumption DEF LeaseIffRunning
  <1>7. AbsentFresh'
    BY <1>4, <1>5 DEF AbsentFresh
  <1>8. ASSUME NEW j \in Jobs, row'[j].attempts >= MaxAttempts
        PROVE  row'[j].attempts + Cardinality(StaleHolders(j)')
                  + (IF row'[j].status = "queued" THEN 1 ELSE 0)
               < MaxAttempts + Cardinality(Workers)
    <2>1. StaleHolders(j)' \subseteq StaleHolders(j) \ {w}
      <3>1. Held(w) = {}
        BY JobQueueAssumption DEF Claim, WorkerInv, TypeOK, Held
      <3>2. \A v \in Workers \ {w} : Held(v)' = Held(v) /\ snap'[v] = snap[v]
        BY <1>1 DEF Lease, Claim, TypeOK, Held
      <3>3. j \in Held(w)' => snap'[w][j].attempts = row'[j].attempts
        BY <1>1, <1>4, JobQueueAssumption
        DEF Lease, Claim, WorkerInv, TypeOK, Held
      <3>4. row'[j].attempts \in Nat /\ MaxAttempts \in Nat
        BY JobQueueAssumption DEF TypeOK, Row
      <3>5. w \notin StaleHolders(j)'
        BY <1>8, <3>3, <3>4 DEF StaleHolders
      <3> QED BY <3>2, <3>5 DEF StaleHolders
    <2>2. /\ row[j].attempts \in Nat /\ row'[j].attempts \in Nat
          /\ MaxAttempts \in Nat
      BY JobQueueAssumption DEF TypeOK, Row
    <2>3. /\ Cardinality(StaleHolders(j)) \in Nat /\ Cardinality(Workers) \in Nat
          /\ Cardinality(StaleHolders(j)') \in Nat
          /\ Cardinality(StaleHolders(j)') <= Cardinality(StaleHolders(j))
          /\ Cardinality(StaleHolders(j)') <= Cardinality(Workers) - 1
      <3>1. StaleHolders(j)' \subseteq Workers \ {w}
        BY <2>1 DEF StaleHolders
      <3>2. /\ IsFiniteSet(Workers \ {w})
            /\ Cardinality(Workers \ {w}) = Cardinality(Workers) - 1
        BY FS_RemoveElement, JobQueueAssumption
      <3>3. Cardinality(StaleHolders(j)') <= Cardinality(Workers \ {w})
        BY <3>1, <3>2, FS_Subset
      <3>4. /\ Cardinality(StaleHolders(j)') <= Cardinality(StaleHolders(j))
            /\ Cardinality(StaleHolders(j)') \in Nat
        BY <2>1, StaleFinite, FS_Subset, FS_CardinalityType
      <3> QED BY <3>2, <3>3, <3>4, StaleFinite
    <2>4. CASE row[j].attempts >= MaxAttempts
      <3>1. row[j].attempts + Cardinality(StaleHolders(j))
               + (IF row[j].status = "queued" THEN 1 ELSE 0)
            < MaxAttempts + Cardinality(Workers)
        BY <2>4 DEF RetryBudget
      <3>2. CASE j \notin B
        BY <1>4, <2>2, <2>3, <3>1, <3>2
      <3>3. CASE j \in B /\ row[j].status = "queued"
        BY <1>5, <2>2, <2>3, <3>1, <3>3
      <3>4. CASE j \in B /\ row[j].status = "waiting_on_model"
        BY <1>5, <2>2, <2>3, <3>1, <3>4
      <3> QED BY <1>3, <3>2, <3>3, <3>4
    <2>5. CASE ~(row[j].attempts >= MaxAttempts)
      <3>1. j \in B /\ row'[j].attempts = row[j].attempts + 1
        BY <1>4, <1>5, <1>8, <2>2, <2>5
      <3>2. row'[j].attempts = MaxAttempts /\ row'[j].status = "running"
        BY <1>5, <1>8, <2>2, <2>5, <3>1
      <3> QED BY <2>2, <2>3, <3>2
    <2> QED BY <2>4, <2>5
  <1>9. RetryBudget'
    BY <1>8 DEF RetryBudget
  <1> QED BY <1>6, <1>7, <1>9

LEMMA InvStep == Inv /\ [Next]_vars => Inv'
  <1> SUFFICES ASSUME Inv, [Next]_vars PROVE Inv'
    OBVIOUS
  <1>0. TypeInv /\ TypeInv'
    BY TypeStep DEF Inv
  <1>1. CASE UNCHANGED vars
    BY <1>1 DEF vars, Inv, TypeInv, TypeOK, WorkerInv, LeaseIffRunning, Held,
                AbsentFresh, RetryBudget, StaleHolders
  <1>2. CASE Environment
    BY <1>0, <1>2, EnvironmentStep, InvOther
  <1>3. ASSUME NEW w \in Workers, RunnerStep(w) PROVE Inv'
    BY <1>0, <1>3, RunnerStepFacts, InvOther
  <1>4. ASSUME NEW w \in Workers, Claim(w) PROVE Inv'
    BY <1>0, <1>4, InvClaim
  <1> QED BY <1>1, <1>2, <1>3, <1>4 DEF Next

\* A row is running exactly while it is leased, and the runs past max_attempts
\* are paid for with Job objects that other workers claimed earlier.
THEOREM QueueSafe == Spec => [](LeaseIffRunning /\ RetryBudget)
  BY InvInit, InvStep, PTL DEF Spec, Inv

\* So attempts stays below max_attempts plus the number of workers: losing
\* leases cannot make the queue retry for ever.
THEOREM RetriesBounded == Spec => []AttemptsBounded
  <1>1. Inv => AttemptsBounded
    <2> SUFFICES ASSUME Inv, NEW j \in Jobs
                 PROVE  row[j].attempts < MaxAttempts + Cardinality(Workers)
      BY DEF AttemptsBounded
    <2>1. /\ row[j].attempts \in Nat /\ MaxAttempts \in Nat
          /\ Cardinality(StaleHolders(j)) \in Nat /\ Cardinality(Workers) \in Nat
      BY StaleFinite, JobQueueAssumption DEF Inv, TypeInv, TypeOK, Row
    <2>2. CASE row[j].attempts >= MaxAttempts
      BY <2>1, <2>2 DEF Inv, RetryBudget
    <2>3. CASE ~(row[j].attempts >= MaxAttempts)
      BY <2>1, <2>3
    <2> QED BY <2>2, <2>3
  <1> QED BY <1>1, InvInit, InvStep, PTL DEF Spec

\* No step changes a settled row, not even a write that arrives late.
THEOREM SettledForGood == Spec => TerminalIsFinal
  <1> DEFINE Final == \A j \in Jobs : row[j].status \in TERMINAL => row'[j] = row[j]
  <1>1. TypeInv /\ [Next]_vars => [Final]_vars
    <2> SUFFICES ASSUME TypeInv, Next PROVE Final
      OBVIOUS
    <2>1. CASE Environment
      BY <2>1, EnvironmentStep DEF RowStep, Written
    <2>2. ASSUME NEW w \in Workers, RunnerStep(w) PROVE Final
      BY <2>2, RunnerStepFacts DEF RowStep, Written
    <2>3. ASSUME NEW w \in Workers, Claim(w) PROVE Final
      <3>1. PICK B \in SUBSET Jobs :
                IsClaim(B, {j \in Jobs : Claimable(j)}) /\ Lease(w, B)
        BY <2>3 DEF Claim
      <3>2. \A j \in B : row[j].status \notin TERMINAL
        BY <3>1 DEF IsClaim, Claimable, TERMINAL
      <3> QED BY <3>1, <3>2 DEF Lease
    <2> QED BY <2>1, <2>2, <2>3 DEF Next
  <1> QED BY <1>1, TypeInit, TypeStep, PTL DEF Spec, TerminalIsFinal

-----------------------------------------------------------------------------
(* JobContract.                                                            *)

\* The contract calls such a job "open".
Open(r) == r.status \notin TERMINAL \cup {"absent"}

-----------------------------------------------------------------------------
(* How the refinement mapping moves.                                       *)

LEMMA JobMapped ==
    ASSUME NEW j \in Jobs
    PROVE  /\ AbstractJob[j] = IF Open(row[j]) THEN "open" ELSE row[j].status
           /\ AbstractJob'[j] = IF Open(row'[j]) THEN "open" ELSE row'[j].status
  BY DEF AbstractJob, Open

\* Claims, parks, retries and the clock are invisible.
LEMMA JobSame ==
    ASSUME \A j \in Jobs : row'[j] = row[j] \/ (Open(row[j]) /\ Open(row'[j]))
    PROVE  AbstractJob' = AbstractJob
  BY DEF AbstractJob, Open

\* A terminal status written into an open row settles the abstract job.
LEMMA JobSettled ==
    ASSUME row \in [Jobs -> Row], NEW j \in Jobs, NEW u, NEW s \in TERMINAL,
           Open(row[j]), row' = [row EXCEPT ![j] = u], u.status = s
    PROVE  /\ AbstractJob' = [AbstractJob EXCEPT ![j] = s]
           /\ AbstractJob[j] = "open"
  BY DEF AbstractJob, Open

LEMMA RunMapped ==
    ASSUME NEW w \in Workers
    PROVE  /\ pc[w] = "run" => AbstractRun[w] = [job |-> cur[w], phase |-> "run"]
           /\ pc[w] = "on_dead" => AbstractRun[w] = [job |-> cur[w], phase |-> "on_dead"]
           /\ pc[w] \notin {"run", "on_dead"} => AbstractRun[w] = Promise!Idle
  BY DEF AbstractRun, Promise!Idle

\* Worker w comes to rest: its run is over, or its process is.
LEMMA RunIdle ==
    ASSUME TypeInv, NEW w \in Workers, NEW s, s \notin {"run", "on_dead"},
           pc' = [pc EXCEPT ![w] = s], \A v \in Workers \ {w} : cur'[v] = cur[v]
    PROVE  AbstractRun' = [AbstractRun EXCEPT ![w] = Promise!Idle]
  BY DEF AbstractRun, Promise!Idle, TypeInv, TypeOK

LEMMA RunEndsIdle ==
    ASSUME TypeInv, NEW w \in Workers, RunEnds(w)
    PROVE  AbstractRun' = [AbstractRun EXCEPT ![w] = Promise!Idle]
  <1> DEFINE s == IF todo[w] = {} THEN "poll" ELSE "next"
  <1>1. pc' = [pc EXCEPT ![w] = s] /\ s \notin {"run", "on_dead"}
    BY DEF RunEnds
  <1>2. \A v \in Workers \ {w} : cur'[v] = cur[v]
    BY DEF RunEnds, TypeInv, TypeOK
  <1> HIDE DEF s
  <1> QED BY <1>1, <1>2, RunIdle

\* A step that moves w between states in which it runs nothing.
LEMMA RunSame ==
    ASSUME TypeInv, NEW w \in Workers, pc[w] \notin {"run", "on_dead"},
           NEW s, s \notin {"run", "on_dead"},
           pc' = [pc EXCEPT ![w] = s], cur' = cur
    PROVE  AbstractRun' = AbstractRun
  BY DEF AbstractRun, TypeInv, TypeOK

LEMMA RunUnchanged ==
    ASSUME UNCHANGED <<pc, cur>>
    PROVE  AbstractRun' = AbstractRun
  BY DEF AbstractRun

-----------------------------------------------------------------------------
(* Each action of the queue, as the contract sees it.                      *)

\* A worker's write into a row that is still running, or no write at all.
LEMMA WriteSeen ==
    ASSUME row \in [Jobs -> Row], NEW j \in Jobs, NEW u, WriteRunning(j, u)
    PROVE  /\ row[j].status = "running" =>
                 /\ Open(row[j])
                 /\ row' = [row EXCEPT ![j] = u]
           /\ row[j].status # "running" => row' = row
           /\ Open(u) => AbstractJob' = AbstractJob
  <1>1. row[j].status = "running" => Open(row[j])
    BY DEF Open, TERMINAL
  <1>2. Open(u) => AbstractJob' = AbstractJob
    BY <1>1, JobSame DEF WriteRunning
  <1> QED BY <1>1, <1>2 DEF WriteRunning

LEMMA SeenSubmit ==
    ASSUME TypeInv, NEW j \in Jobs, Enqueue(j)
    PROVE  Promise!Submit(j)
  <1>1. AbstractRun' = AbstractRun /\ told' = told
    BY RunUnchanged DEF Enqueue, workerVars
  <1>2. AbstractJob[j] = "absent"
    BY DEF Enqueue, AbstractJob
  <1>3. row \in [Jobs -> Row] /\ row[j] \in Row
    BY DEF TypeInv, TypeOK
  <1>4. /\ row'[j].status = "queued"
        /\ \A k \in Jobs \ {j} : row'[k] = row[k]
    BY <1>3 DEF Enqueue, Row
  <1>5. AbstractJob' = [AbstractJob EXCEPT ![j] = "open"]
    BY <1>4 DEF AbstractJob, TERMINAL
  <1> QED BY <1>1, <1>2, <1>5 DEF Promise!Submit

\* What the clock does is not seen.
LEMMA SeenClock ==
    ASSUME TypeInv, NEW j \in Jobs,
           BecomesDue(j) \/ LeaseExpires(j) \/ LeaseMissed(j)
    PROVE  UNCHANGED Promise!contractVars
  <1>1. AbstractRun' = AbstractRun /\ told' = told
    BY RunUnchanged
    DEF BecomesDue, LeaseExpires, LeaseMissed, Expire, workerVars
  <1>2. row \in [Jobs -> Row] /\ row[j] \in Row
    BY DEF TypeInv, TypeOK
  <1>3. \A k \in Jobs : row'[k].status = row[k].status
    BY <1>2 DEF BecomesDue, LeaseExpires, LeaseMissed, Expire, Row
  <1>4. AbstractJob' = AbstractJob
    BY <1>3 DEF AbstractJob
  <1> QED BY <1>1, <1>4 DEF Promise!contractVars

\* The rows a reaper makes dead.
Buried == {j \in Jobs : Stale(row[j]) /\ row[j].attempts >= MaxAttempts}

LEMMA SeenReap ==
    ASSUME TypeInv, NEW w \in Workers, Reap(w)
    PROVE  /\ UNCHANGED <<AbstractRun, told>>
           /\ Buried \subseteq {j \in Jobs : AbstractJob[j] = "open"}
           /\ AbstractJob' = [j \in Jobs |-> IF j \in Buried THEN "dead"
                                             ELSE AbstractJob[j]]
  <1>1. AbstractRun' = AbstractRun /\ told' = told
    BY RunSame DEF Reap
  <1>2. ASSUME NEW j \in Buried PROVE AbstractJob[j] = "open"
    BY <1>2 DEF Buried, Stale, AbstractJob, TERMINAL
  <1>3. ASSUME NEW j \in Jobs
        PROVE  AbstractJob'[j] = IF j \in Buried THEN "dead" ELSE AbstractJob[j]
    <2>1. row[j] \in Row
      BY DEF TypeInv, TypeOK
    <2>2. CASE Stale(row[j])
      <3>1. row'[j].status = IF row[j].attempts >= MaxAttempts THEN "dead" ELSE "queued"
        BY <2>1, <2>2, RowFacts DEF Reap
      <3>2. Open(row[j])
        BY <2>2 DEF Stale, Open, TERMINAL
      <3> QED BY <2>2, <3>1, <3>2, JobMapped DEF Buried, Open, TERMINAL
    <2>3. CASE ~Stale(row[j])
      BY <2>3, JobMapped DEF Reap, Buried
    <2> QED BY <2>2, <2>3
  <1>4. AbstractJob' = [j \in Jobs |-> AbstractJob'[j]]
    BY DEF AbstractJob
  <1> QED BY <1>1, <1>2, <1>3, <1>4 DEF Buried

LEMMA SeenClaim ==
    ASSUME TypeInv, NEW w \in Workers, Claim(w)
    PROVE  UNCHANGED Promise!contractVars
  <1>1. PICK B \in SUBSET Jobs :
            IsClaim(B, {j \in Jobs : Claimable(j)}) /\ Lease(w, B)
    BY DEF Claim
  <1>2. ASSUME NEW j \in Jobs
        PROVE  row'[j] = row[j] \/ (Open(row[j]) /\ Open(row'[j]))
    <2>1. CASE j \in B
      <3>1. Open(row[j])
        BY <1>1, <2>1 DEF IsClaim, Claimable, Open, TERMINAL
      <3>2. row[j] \in Row /\ row'[j] = Leased(row[j], w)
        BY <1>1, <2>1 DEF Lease, TypeInv, TypeOK
      <3>3. row'[j].status = "running"
        <4>1. Leased(row[j], w).status = "running"
          BY <3>2, LeasedFacts, Zenon
        <4> QED BY <3>2, <4>1, Zenon
      <3> QED BY <3>1, <3>3 DEF Open, TERMINAL
    <2>2. CASE j \notin B
      BY <1>1, <2>2 DEF Lease
    <2> QED BY <2>1, <2>2
  <1>3. AbstractJob' = AbstractJob
    BY <1>2, JobSame
  <1>4. AbstractRun' = AbstractRun
    <2> DEFINE s == IF B = {} THEN "poll" ELSE "next"
    <2>1. pc' = [pc EXCEPT ![w] = s] /\ s \notin {"run", "on_dead"}
      BY <1>1 DEF Lease
    <2>2. pc[w] \notin {"run", "on_dead"} /\ cur' = cur
      BY DEF Claim
    <2> HIDE DEF s
    <2> QED BY <2>1, <2>2, RunSame
  <1> QED BY <1>3, <1>4 DEF Claim, Promise!contractVars

\* What a worker has claimed has been queued.
HeldPresent ==
    \A w \in Workers : \A j \in Held(w) : row[j].status # "absent"

LEMMA SeenStart ==
    ASSUME TypeInv, HeldPresent, NEW w \in Workers, StartRun(w)
    PROVE  \E j \in todo[w] : Promise!Begin(w, j) /\ AbstractRun'[w].job = j
  <1>1. PICK j \in todo[w] : cur' = [cur EXCEPT ![w] = j]
    BY DEF StartRun
  <1>2. j \in Jobs /\ row[j].status # "absent"
    BY DEF HeldPresent, Held, TypeInv, TypeOK
  <1>3. AbstractRun[w] = Promise!Idle
    BY RunMapped DEF StartRun
  <1>4. AbstractRun' = [AbstractRun EXCEPT ![w] = [job |-> j, phase |-> "run"]]
    BY <1>1 DEF AbstractRun, StartRun, TypeInv, TypeOK
  <1>5. AbstractJob' = AbstractJob /\ told' = told
    BY DEF StartRun, AbstractJob
  <1>6. AbstractJob[j] # "absent"
    BY <1>2 DEF AbstractJob
  <1>7. AbstractRun'[w].job = j
    BY <1>4 DEF AbstractRun
  <1> QED BY <1>3, <1>4, <1>5, <1>6, <1>7 DEF Promise!Begin

LEMMA SeenHeartbeat ==
    ASSUME TypeInv, NEW w \in Workers, Heartbeat(w)
    PROVE  UNCHANGED Promise!contractVars
  <1>1. cur[w] \in Jobs /\ row \in [Jobs -> Row] /\ row[cur[w]] \in Row
    BY DEF Heartbeat, TypeInv, TypeOK, WorkerInv
  <1>2. \A k \in Jobs : row'[k].status = row[k].status
    BY <1>1 DEF Heartbeat, Row
  <1>3. AbstractJob' = AbstractJob
    BY <1>2 DEF AbstractJob
  <1> QED BY <1>3, RunUnchanged DEF Heartbeat, workerVars, Promise!contractVars

\* A run of cur[w] is under way.
LEMMA SeenRunning ==
    ASSUME TypeInv, NEW w \in Workers, pc[w] = "run"
    PROVE  /\ Promise!Running(w) /\ AbstractRun[w].job = cur[w]
           /\ cur[w] \in Jobs /\ row[cur[w]] \in Row /\ row \in [Jobs -> Row]
  <1>1. AbstractRun[w] = [job |-> cur[w], phase |-> "run"]
    BY RunMapped, Zenon
  <1>2. AbstractRun[w].job = cur[w] /\ AbstractRun[w].phase = "run"
    BY <1>1
  <1> QED BY <1>2 DEF Promise!Running, TypeInv, TypeOK, WorkerInv

\* The run is over and the job is as open, or as settled, as it was.
LEMMA SeenRelease ==
    ASSUME TypeInv, NEW w \in Workers, pc[w] = "run", NEW u,
           WriteRunning(cur[w], u), Open(u), RunEnds(w), UNCHANGED told
    PROVE  Promise!Release(w)
  BY SeenRunning, WriteSeen, RunEndsIdle DEF Promise!Release

LEMMA SeenComplete ==
    ASSUME TypeInv, NEW w \in Workers, Complete(w)
    PROVE  Promise!End(w, "complete") \/ Promise!Release(w)
  <1>0. pc[w] = "run" /\ RunEnds(w) /\ told' = told
    BY DEF Complete
  <1>1. PICK j \in Jobs : /\ j = cur[w] /\ AbstractRun[w].job = j
                          /\ row[j] \in Row /\ row \in [Jobs -> Row]
    BY <1>0, SeenRunning
  <1>2. Promise!Running(w) /\ AbstractRun' = [AbstractRun EXCEPT ![w] = Promise!Idle]
    BY <1>0, SeenRunning, RunEndsIdle
  <1>3. WriteRunning(j, Completed(row[j]))
    BY <1>1 DEF Complete
  <1>4. CASE row[j].status = "running"
    <2>1. row' = [row EXCEPT ![j] = Completed(row[j])] /\ Open(row[j])
      BY <1>1, <1>3, <1>4, WriteSeen
    <2>2. Completed(row[j]).status = "complete" /\ "complete" \in TERMINAL
      BY <1>1, RowFacts DEF TERMINAL
    <2>3. AbstractJob' = [AbstractJob EXCEPT ![j] = "complete"]
      BY <1>1, <2>1, <2>2, JobSettled
    <2>4. Promise!Settle(j, "complete")
      BY <2>1, <2>3, JobMapped DEF Promise!Settle
    <2> QED BY <1>0, <1>1, <1>2, <2>4 DEF Promise!End
  <1>5. CASE row[j].status # "running"
    <2>1. AbstractJob' = AbstractJob
      BY <1>1, <1>3, <1>5, WriteSeen, JobSame
    <2> QED BY <1>0, <1>2, <2>1 DEF Promise!Release
  <1> QED BY <1>4, <1>5

\* cancel() settles whatever is open, held by this worker or not.
LEMMA SeenCancelled ==
    ASSUME TypeInv, NEW w \in Workers, HandlerCancelled(w)
    PROVE  Promise!End(w, "cancelled")
  <1>0. pc[w] = "run" /\ RunEnds(w) /\ told' = told
    BY DEF HandlerCancelled
  <1>1. PICK j \in Jobs : /\ j = cur[w] /\ AbstractRun[w].job = j
                          /\ row[j] \in Row /\ row \in [Jobs -> Row]
    BY <1>0, SeenRunning
  <1>2. Promise!Running(w) /\ AbstractRun' = [AbstractRun EXCEPT ![w] = Promise!Idle]
    BY <1>0, SeenRunning, RunEndsIdle
  <1>3. Promise!Settle(j, "cancelled")
    <2>1. CASE Open(row[j])
      <3>1. row[j].status \in {"queued", "running", "waiting_on_model"}
        BY <1>1, <2>1 DEF Open, Row, JobStatus
      <3>2. row' = [row EXCEPT ![j] = Ended(row[j], "cancelled")]
        BY <1>1, <3>1 DEF HandlerCancelled
      <3>3. Ended(row[j], "cancelled").status = "cancelled"
            /\ "cancelled" \in TERMINAL
        BY <1>1, RowFacts DEF TERMINAL
      <3>4. AbstractJob' = [AbstractJob EXCEPT ![j] = "cancelled"]
        BY <1>1, <2>1, <3>2, <3>3, JobSettled
      <3> QED BY <2>1, <3>4, JobMapped DEF Promise!Settle
    <2>2. CASE ~Open(row[j])
      <3>1. row[j].status \notin {"queued", "running", "waiting_on_model"}
        BY <2>2 DEF Open, TERMINAL
      <3>2. AbstractJob' = AbstractJob
        BY <1>1, <3>1, JobSame DEF HandlerCancelled
      <3>3. AbstractJob[j] # "open"
        BY <2>2, JobMapped DEF Open, TERMINAL
      <3> QED BY <3>2, <3>3 DEF Promise!Settle
    <2> QED BY <2>1, <2>2
  <1> QED BY <1>0, <1>1, <1>2, <1>3 DEF Promise!End

\* fail(): the job goes back to the queue, or the run gives up; a row that is
\* no longer running is not touched.
LEMMA SeenFail ==
    ASSUME TypeInv, NEW w \in Workers, pc[w] = "run",
           NEW retryable \in BOOLEAN, Fail(w, retryable), UNCHANGED told
    PROVE  Promise!Release(w) \/ Promise!GiveUp(w)
  <1> DEFINE end == IF retryable THEN "dead" ELSE "failed"
  <1>1. PICK j \in Jobs : /\ j = cur[w] /\ AbstractRun[w].job = j
                          /\ row[j] \in Row /\ row \in [Jobs -> Row]
    BY SeenRunning
  <1>2. CASE retryable /\ snap[w][j].attempts < MaxAttempts
    <2>1. WriteRunning(j, Requeued(row[j])) /\ RunEnds(w)
      BY <1>1, <1>2 DEF Fail
    <2>2. Open(Requeued(row[j]))
      BY <1>1, RowFacts DEF Open, TERMINAL
    <2> QED BY <1>1, <2>1, <2>2, SeenRelease
  <1>3. CASE ~(retryable /\ snap[w][j].attempts < MaxAttempts)
    <2>1. /\ WriteRunning(j, Ended(row[j], end))
          /\ pc' = [pc EXCEPT ![w] = "on_dead"] /\ cur' = cur
      BY <1>1, <1>3 DEF Fail
    <2>2. AbstractRun' = [AbstractRun EXCEPT ![w].phase = "on_dead"]
      BY <2>1 DEF AbstractRun, TypeInv, TypeOK
    <2>3. /\ end \in {"failed", "dead"} /\ end \in TERMINAL
          /\ Ended(row[j], end).status = end
      BY <1>1, RowFacts DEF TERMINAL
    <2>4. CASE row[j].status = "running"
      <3>1. row' = [row EXCEPT ![j] = Ended(row[j], end)] /\ Open(row[j])
        BY <1>1, <2>1, <2>4, WriteSeen
      <3>2. AbstractJob' = [AbstractJob EXCEPT ![j] = end]
        BY <1>1, <2>3, <3>1, JobSettled
      <3>3. Promise!Settle(j, end)
        BY <3>1, <3>2, JobMapped DEF Promise!Settle
      <3> QED BY <1>1, <2>2, <2>3, <3>3, SeenRunning DEF Promise!GiveUp
    <2>5. CASE row[j].status # "running"
      <3>1. AbstractJob' = AbstractJob
        BY <1>1, <2>1, <2>5, WriteSeen, JobSame
      <3> QED BY <1>1, <2>2, <2>5, <3>1, SeenRunning DEF Promise!GiveUp
    <2> QED BY <2>4, <2>5
  <1> QED BY <1>2, <1>3

LEMMA SeenOnDead ==
    ASSUME TypeInv, NEW w \in Workers, OnDead(w) \/ OnDeadFails(w)
    PROVE  Promise!Tell(w)
  <1>1. pc[w] = "on_dead" /\ RunEnds(w) /\ row' = row
        /\ told' \in {told, [told EXCEPT ![cur[w]] = TRUE]}
    BY DEF OnDead, OnDeadFails
  <1>2. AbstractRun[w].phase = "on_dead" /\ AbstractRun[w].job = cur[w]
    <2>1. AbstractRun[w] = [job |-> cur[w], phase |-> "on_dead"]
      BY <1>1, RunMapped, Zenon
    <2> QED BY <2>1
  <1>3. AbstractJob' = AbstractJob
    BY <1>1 DEF AbstractJob
  <1> QED BY <1>1, <1>2, <1>3, RunEndsIdle DEF Promise!Tell

LEMMA SeenDie ==
    ASSUME TypeInv, NEW w \in Workers, Crash(w) \/ LoopDies(w)
    PROVE  Promise!Die(w)
  <1>1. PICK s \in {"down", "stopped"} : pc' = [pc EXCEPT ![w] = s]
    BY DEF Crash, LoopDies
  <1>2. \A v \in Workers \ {w} : cur'[v] = cur[v]
    BY DEF Crash, LoopDies, LosesAll, TypeInv, TypeOK
  <1>3. AbstractRun' = [AbstractRun EXCEPT ![w] = Promise!Idle]
    BY <1>1, <1>2, RunIdle
  <1>4. UNCHANGED <<AbstractJob, told>>
    BY DEF Crash, LoopDies, AbstractJob
  <1> QED BY <1>3, <1>4 DEF Promise!Die

LEMMA SeenQuiet ==
    ASSUME TypeInv, NEW w \in Workers, ReapFails(w) \/ Restart(w)
    PROVE  UNCHANGED Promise!contractVars
  <1>1. AbstractRun' = AbstractRun
    BY RunSame DEF ReapFails, Restart
  <1>2. UNCHANGED <<AbstractJob, told>>
    BY DEF ReapFails, Restart, AbstractJob
  <1> QED BY <1>1, <1>2 DEF Promise!contractVars

-----------------------------------------------------------------------------
(* The refinement, whatever leases are lost.                               *)

SeenInv == TypeInv /\ HeldPresent

LEMMA SeenInvInit == Init => SeenInv
  <1> SUFFICES ASSUME Init PROVE HeldPresent
    BY TypeInit DEF SeenInv
  <1> QED BY DEF Init, HeldPresent, Held

LEMMA SeenInvStep == SeenInv /\ [Next]_vars => SeenInv'
  <1> SUFFICES ASSUME SeenInv, [Next]_vars PROVE HeldPresent'
    BY TypeStep DEF SeenInv
  <1>0. TypeInv /\ HeldPresent /\ TypeInv'
    BY TypeStep DEF SeenInv
  <1>a. ASSUME NoNewHolder, \A j \in Jobs : RowStep(j) PROVE HeldPresent'
    <2>1. \A w \in Workers : Held(w)' \subseteq Jobs
      BY <1>0 DEF TypeInv, TypeOK, Held
    <2> QED BY <1>0, <1>a, <2>1 DEF HeldPresent, NoNewHolder, RowStep, Written
  <1>1. CASE UNCHANGED vars
    BY <1>0, <1>1 DEF vars, HeldPresent, Held
  <1>2. CASE Environment
    BY <1>0, <1>2, <1>a, EnvironmentStep
  <1>3. ASSUME NEW w \in Workers, RunnerStep(w) PROVE HeldPresent'
    BY <1>0, <1>3, <1>a, RunnerStepFacts
  <1>4. ASSUME NEW w \in Workers, Claim(w) PROVE HeldPresent'
    <2>1. PICK B \in SUBSET Jobs :
              IsClaim(B, {j \in Jobs : Claimable(j)}) /\ Lease(w, B)
      BY <1>4 DEF Claim
    <2>2. ASSUME NEW v \in Workers, NEW j \in Held(v)'
          PROVE  row'[j].status # "absent"
      <3>1. j \in Jobs /\ row[j] \in Row
        BY <1>0 DEF TypeInv, TypeOK, Held
      <3>2. CASE j \in B
        <4>1. row'[j] = Leased(row[j], w)
          BY <2>1, <3>2 DEF Lease
        <4>2. Leased(row[j], w).status = "running"
          BY <3>1, LeasedFacts, Zenon
        <4> QED BY <4>1, <4>2
      <3>3. CASE j \notin B
        <4>1. row'[j] = row[j]
          BY <2>1, <3>1, <3>3 DEF Lease
        <4>2. j \in Held(v)
          BY <1>0, <1>4, <2>1, <3>3 DEF Lease, Claim, Held, TypeInv, TypeOK
        <4> QED BY <1>0, <4>1, <4>2 DEF HeldPresent
      <3> QED BY <3>2, <3>3
    <2> QED BY <2>2 DEF HeldPresent
  <1> QED BY <1>1, <1>2, <1>3, <1>4 DEF Next

LEMMA SeenStep ==
    SeenInv /\ [Next]_vars => [Promise!ContractNext]_(Promise!contractVars)
  <1> SUFFICES ASSUME SeenInv, [Next]_vars
               PROVE  Promise!ContractNext \/ UNCHANGED Promise!contractVars
    OBVIOUS
  <1>0. TypeInv /\ HeldPresent
    BY DEF SeenInv
  <1>1. CASE UNCHANGED vars
    BY <1>1 DEF vars, Promise!contractVars, AbstractJob, AbstractRun
  <1>2. CASE Environment
    BY <1>0, <1>2, SeenSubmit, SeenClock DEF Environment, Promise!ContractNext
  <1>3. ASSUME NEW w \in Workers, Claim(w)
        PROVE  UNCHANGED Promise!contractVars
    BY <1>0, <1>3, SeenClaim
  <1>4. ASSUME NEW w \in Workers, Outcome(w) \/ CompleteFails(w)
        PROVE  Promise!ContractNext
    <2>1. ASSUME NEW r \in BOOLEAN, pc[w] = "run", Fail(w, r), UNCHANGED told
          PROVE  Promise!ContractNext
      BY <1>0, <2>1, SeenFail DEF Promise!ContractNext
    <2>2. CASE Complete(w)
      BY <1>0, <2>2, SeenComplete DEF Promise!ContractNext
    <2>3. CASE HandlerFails(w)
      BY <2>1, <2>3 DEF HandlerFails
    <2>4. CASE CompleteFails(w)
      BY <2>1, <2>4 DEF CompleteFails
    <2>5. CASE HandlerCancelled(w)
      BY <1>0, <2>5, SeenCancelled DEF Promise!ContractNext
    <2>6. CASE BackendWarming(w)
      <3>1. pc[w] = "run" /\ told' = told
        BY <2>6 DEF BackendWarming
      <3>2. Open(Parked(row[cur[w]]))
        BY <1>0, <3>1, SeenRunning, RowFacts DEF Open, TERMINAL
      <3>3. CASE WriteRunning(cur[w], Parked(row[cur[w]])) /\ RunEnds(w)
        BY <1>0, <3>1, <3>2, <3>3, SeenRelease DEF Promise!ContractNext
      <3>4. CASE Fail(w, TRUE)
        BY <2>1, <3>1, <3>4
      <3> QED BY <2>6, <3>3, <3>4 DEF BackendWarming
    <2> QED BY <1>4, <2>2, <2>3, <2>4, <2>5, <2>6 DEF Outcome
  <1>5. ASSUME NEW w \in Workers, Reap(w)
        PROVE  Promise!ContractNext
    <2>1. Promise!Bury
      BY <1>0, <1>5, SeenReap, Zenon DEF Promise!Bury
    <2> QED BY <2>1 DEF Promise!ContractNext
  <1>6. ASSUME NEW w \in Workers, StartRun(w)
        PROVE  Promise!ContractNext
    BY <1>0, <1>6, SeenStart DEF Promise!ContractNext, TypeInv, TypeOK
  <1>7. ASSUME NEW w \in Workers, Heartbeat(w) \/ ReapFails(w) \/ Restart(w)
        PROVE  UNCHANGED Promise!contractVars
    BY <1>0, <1>7, SeenHeartbeat, SeenQuiet
  <1>8. ASSUME NEW w \in Workers,
               OnDead(w) \/ OnDeadFails(w) \/ Crash(w) \/ LoopDies(w)
        PROVE  Promise!ContractNext
    BY <1>0, <1>8, SeenOnDead, SeenDie DEF Promise!ContractNext
  <1> QED BY <1>1, <1>2, <1>3, <1>4, <1>5, <1>6, <1>7, <1>8
          DEF Next, RunnerStep

\* Whatever fails, a handler sees the contract: a run begins
\* only for a job that was queued, settles an open job at most once and never
\* a settled one, and on_dead only follows a run that gave up.
THEOREM QueueImplementsContract == Spec => ImplementsContract
  <1>1. Init => Promise!ContractInit
    BY DEF Init, Promise!ContractInit, Promise!Idle, AbstractJob, AbstractRun
  <1> QED BY <1>1, SeenInvInit, SeenInvStep, SeenStep, PTL
          DEF Spec, ImplementsContract, Promise!Contract

-----------------------------------------------------------------------------
(* Exclusion, job by job, until its lease is taken from a worker that has  *)
(* it.  Until then what is in hand is the lease holder's.                  *)

\* The row still says what the claim left in it, or the run has settled it
\* and on_dead is to follow.
Own(w, j) ==
    \/ /\ row[j].status = "running" /\ row[j].leasedBy = w
       /\ snap[w][j].attempts = row[j].attempts
    \/ pc[w] = "on_dead" /\ cur[w] = j /\ row[j].status \in TERMINAL

OneHolder(j) ==
    \A w \in Workers : j \in Held(w) =>
        Own(w, j) /\ \A v \in Workers \ {w} : j \notin Held(v)

\* A queued job has an attempt left.
AttemptLeft(j) ==
    /\ row[j].attempts <= MaxAttempts
    /\ row[j].status = "queued" => row[j].attempts < MaxAttempts

Kept(j) == OneHolder(j) /\ AttemptLeft(j)

LapseInv == Inv /\ \A j \in Jobs \ lapsed : Kept(j)

LEMMA LapseInit == Init => LapseInv
  <1> SUFFICES ASSUME Init, NEW j \in Jobs PROVE Kept(j)
    BY InvInit DEF LapseInv
  <1>1. \A w \in Workers : Held(w) = {}
    BY DEF Init, Held
  <1>2. AttemptLeft(j)
    BY JobQueueAssumption DEF Init, AttemptLeft
  <1> QED BY <1>1, <1>2 DEF Kept, OneHolder

\* Nobody comes to hold j, its lease is left alone, and a worker that has
\* settled it stays where it is or lets it go.
LEMMA HolderKept ==
    ASSUME NEW j \in Jobs, OneHolder(j), NoNewHolder,
           row'[j].status = row[j].status, row'[j].leasedBy = row[j].leasedBy,
           row'[j].attempts = row[j].attempts,
           \A v \in Workers : j \in Held(v)' /\ pc[v] = "on_dead" /\ cur[v] = j =>
                                 pc'[v] = "on_dead" /\ cur'[v] = j
    PROVE  OneHolder(j)'
  <1> SUFFICES ASSUME NEW w \in Workers, j \in Held(w)'
               PROVE  Own(w, j)' /\ \A v \in Workers \ {w} : j \notin Held(v)'
    BY DEF OneHolder
  <1>1. j \in Held(w) /\ snap'[w][j] = snap[w][j]
    BY DEF NoNewHolder
  <1>2. Own(w, j) /\ \A v \in Workers \ {w} : j \notin Held(v)
    BY <1>1 DEF OneHolder
  <1>3. Own(w, j)'
    BY <1>1, <1>2 DEF Own
  <1>4. \A v \in Workers \ {w} : j \notin Held(v)'
    BY <1>2 DEF NoNewHolder
  <1> QED BY <1>3, <1>4

\* A job that nobody holds does not come to be held but by a claim.
LEMMA UnheldKept ==
    ASSUME NEW j \in Jobs, NoNewHolder, \A w \in Workers : j \notin Held(w)
    PROVE  OneHolder(j)'
  BY DEF NoNewHolder, OneHolder

\* A job that is queued, parked or not there is not held.
LEMMA NotRunningUnheld ==
    ASSUME NEW j \in Jobs, OneHolder(j),
           row[j].status \in {"absent", "queued", "waiting_on_model"}
    PROVE  \A w \in Workers : j \notin Held(w)
  BY DEF OneHolder, Own, TERMINAL

\* attempts and the queue: what a write that is no claim may do.
LEMMA AttemptWritten ==
    ASSUME Inv, NEW j \in Jobs, AttemptLeft(j), RowStep(j),
           BackInQueue(row[j], row'[j]) =>
               row[j].status = "absent" \/ row[j].attempts < MaxAttempts
    PROVE  AttemptLeft(j)'
  <1>1. row'[j].attempts = row[j].attempts /\ row[j].attempts \in Nat
    BY DEF RowStep, Written, Inv, TypeInv, TypeOK, Row
  <1>2. MaxAttempts \in Nat \ {0}
    BY JobQueueAssumption
  <1>3. row[j].status = "absent" => row[j].attempts = 0
    BY DEF Inv, AbsentFresh
  <1> QED BY <1>1, <1>2, <1>3 DEF AttemptLeft, BackInQueue

\* Time and callers.
LEMMA LapseEnvironment ==
    ASSUME Inv, NEW j \in Jobs, Kept(j), Environment
    PROVE  Kept(j)'
  <1>0. TypeInv /\ OneHolder(j) /\ AttemptLeft(j) /\ row \in [Jobs -> Row]
    BY DEF Inv, TypeInv, TypeOK, Kept
  <1>a. NoNewHolder /\ RowStep(j)
    BY <1>0, EnvironmentStep
  <1>1. PICK k \in Jobs : Enqueue(k) \/ BecomesDue(k) \/ LeaseExpires(k)
                            \/ LeaseMissed(k)
    BY DEF Environment
  <1>2. UNCHANGED <<pc, cur>>
    BY <1>1 DEF Enqueue, BecomesDue, LeaseExpires, LeaseMissed, Expire, workerVars
  <1>3. CASE Enqueue(k) /\ k = j
    <2>1. OneHolder(j)'
      BY <1>0, <1>a, <1>3, NotRunningUnheld, UnheldKept DEF Enqueue
    <2>2. AttemptLeft(j)'
      BY <1>0, <1>a, <1>3, AttemptWritten DEF Enqueue
    <2> QED BY <2>1, <2>2 DEF Kept
  <1>4. CASE ~(Enqueue(k) /\ k = j)
    <2>1. /\ row'[j].status = row[j].status /\ row'[j].leasedBy = row[j].leasedBy
          /\ row'[j].attempts = row[j].attempts
      BY <1>0, <1>1, <1>4
      DEF Enqueue, BecomesDue, LeaseExpires, LeaseMissed, Expire, Row
    <2>2. OneHolder(j)'
      BY <1>0, <1>a, <1>2, <2>1, HolderKept
    <2>3. AttemptLeft(j)'
      BY <1>0, <2>1 DEF AttemptLeft
    <2> QED BY <2>2, <2>3 DEF Kept
  <1> QED BY <1>3, <1>4

\* A claim: nobody holds what it takes, because what is held is running or
\* settled.
LEMMA LapseClaim ==
    ASSUME Inv, NEW j \in Jobs, Kept(j), NEW w \in Workers, Claim(w)
    PROVE  Kept(j)'
  <1>0. TypeInv /\ OneHolder(j) /\ AttemptLeft(j) /\ row[j] \in Row
    BY DEF Inv, TypeInv, TypeOK, Kept
  <1>1. PICK B \in SUBSET Jobs :
            IsClaim(B, {i \in Jobs : Claimable(i)}) /\ Lease(w, B)
    BY DEF Claim
  <1>2. pc[w] = "claim" /\ cur' = cur
    BY DEF Claim
  <1>3. /\ cur[w] = NoJob
        /\ todo' = [todo EXCEPT ![w] = B]
        /\ \A v \in Workers \ {w} : snap'[v] = snap[v] /\ pc'[v] = pc[v]
    BY <1>0, <1>1, <1>2 DEF Lease, TypeInv, TypeOK, WorkerInv
  <1>4. Held(w)' = B /\ \A v \in Workers \ {w} : Held(v)' = Held(v)
    BY <1>0, <1>2, <1>3 DEF Held, TypeInv, TypeOK
  <1>5. CASE j \in B
    <2>1. row[j].status \in {"queued", "waiting_on_model"}
      BY <1>1, <1>5 DEF IsClaim, Claimable
    <2>2. \A v \in Workers : j \notin Held(v)
      BY <1>0, <2>1, NotRunningUnheld
    <2>3. row'[j] = Leased(row[j], w) /\ row[j] \in Row
      BY <1>0, <1>1, <1>5 DEF Lease
    <2>a. /\ Leased(row[j], w).status = "running" /\ Leased(row[j], w).leasedBy = w
          /\ Leased(row[j], w).attempts = IF row[j].status = "waiting_on_model"
                                          THEN row[j].attempts ELSE row[j].attempts + 1
      BY <2>3, LeasedFacts, Zenon
    <2>4. /\ row'[j].status = "running" /\ row'[j].leasedBy = w
          /\ row'[j].attempts = IF row[j].status = "waiting_on_model"
                                THEN row[j].attempts ELSE row[j].attempts + 1
      BY <2>3, <2>a, Zenon
    <2>5. snap'[w][j].attempts = row'[j].attempts
      BY <1>0, <1>1, <1>5, <2>3 DEF Lease, TypeInv, TypeOK
    <2>6. OneHolder(j)'
      BY <1>4, <2>2, <2>4, <2>5 DEF OneHolder, Own
    <2>7. row[j].attempts \in Nat /\ MaxAttempts \in Nat
      BY <1>0, JobQueueAssumption DEF Row
    <2>8. AttemptLeft(j)'
      BY <1>0, <2>1, <2>4, <2>7 DEF AttemptLeft
    <2> QED BY <2>6, <2>8 DEF Kept
  <1>6. CASE j \notin B
    <2>1. row'[j] = row[j]
      BY <1>1, <1>6 DEF Lease
    <2>2. ASSUME NEW v \in Workers, j \in Held(v)'
          PROVE  /\ v # w /\ Own(v, j)'
                 /\ \A u \in Workers \ {v} : j \notin Held(u)'
      <3>1. v # w /\ j \in Held(v)
        BY <1>4, <1>6, <2>2
      <3>2. Own(v, j) /\ \A u \in Workers \ {v} : j \notin Held(u)
        BY <1>0, <3>1 DEF OneHolder
      <3>3. Own(v, j)'
        BY <1>2, <1>3, <2>1, <3>1, <3>2 DEF Own
      <3> QED BY <1>4, <1>6, <3>1, <3>2, <3>3
    <2>3. AttemptLeft(j)'
      BY <1>0, <2>1 DEF AttemptLeft
    <2> QED BY <2>2, <2>3 DEF Kept, OneHolder
  <1> QED BY <1>5, <1>6

\* The end of a run of w: its job is let go, and the rows of others stay.
LEMMA LapseRunEnds ==
    ASSUME TypeInv, NEW j \in Jobs, OneHolder(j), NEW w \in Workers,
           pc[w] \in {"run", "on_dead"}, RunEnds(w), j # cur[w] => row'[j] = row[j]
    PROVE  OneHolder(j)'
  <1>1. NoNewHolder /\ cur[w] \in Held(w) /\ cur[w] \notin Held(w)'
    BY RunEndsHeld
  <1>2. \A v \in Workers \ {w} : pc'[v] = pc[v] /\ cur'[v] = cur[v]
    BY DEF RunEnds, TypeInv, TypeOK
  <1>3. CASE j = cur[w]
    <2>1. \A v \in Workers : j \notin Held(v)'
      BY <1>1, <1>3 DEF OneHolder, NoNewHolder
    <2> QED BY <2>1 DEF OneHolder
  <1>4. CASE j # cur[w]
    BY <1>1, <1>2, <1>4, HolderKept
  <1> QED BY <1>3, <1>4

\* The same for both parts, when the row does not go back to the queue.
LEMMA LapseEnds ==
    ASSUME Inv, NEW j \in Jobs, Kept(j), RowStep(j), NEW w \in Workers,
           pc[w] \in {"run", "on_dead"}, RunEnds(w), j # cur[w] => row'[j] = row[j],
           BackInQueue(row[j], row'[j]) => row[j].attempts < MaxAttempts
    PROVE  Kept(j)'
  <1>1. OneHolder(j)'
    BY LapseRunEnds DEF Inv, Kept
  <1>2. AttemptLeft(j)'
    BY AttemptWritten DEF Kept
  <1> QED BY <1>1, <1>2 DEF Kept

\* fail() decides on the attempts of the Job object: while the lease is held
\* they are the row's.
LEMMA LapseFail ==
    ASSUME Inv, NEW j \in Jobs, Kept(j), NEW w \in Workers, pc[w] = "run",
           NEW retryable \in BOOLEAN, Fail(w, retryable)
    PROVE  Kept(j)'
  <1> DEFINE end == IF retryable THEN "dead" ELSE "failed"
  <1>0. TypeInv /\ OneHolder(j) /\ AttemptLeft(j) /\ row \in [Jobs -> Row]
    BY DEF Inv, TypeInv, TypeOK, Kept
  <1>1. PICK c \in Jobs : c = cur[w]
    BY <1>0 DEF TypeInv, WorkerInv
  <1>2. RowStep(j)
    BY <1>0, FailStep
  <1>3. c \in Held(w)
    BY <1>1, JobQueueAssumption DEF Held
  <1>4. CASE retryable /\ snap[w][c].attempts < MaxAttempts
    <2>1. WriteRunning(c, Requeued(row[c])) /\ RunEnds(w)
      BY <1>1, <1>4 DEF Fail
    <2>2. j # c => row'[j] = row[j]
      BY <1>0, <2>1 DEF WriteRunning
    <2>3. ASSUME BackInQueue(row[j], row'[j]) PROVE row[j].attempts < MaxAttempts
      <3>1. j = c /\ row[j].status = "running"
        BY <1>0, <2>1, <2>2, <2>3 DEF BackInQueue, WriteRunning
      <3>2. Own(w, j)
        BY <1>0, <1>3, <3>1 DEF OneHolder
      <3>3. snap[w][j].attempts = row[j].attempts
        BY <3>1, <3>2 DEF Own, TERMINAL
      <3> QED BY <1>4, <3>1, <3>3
    <2> QED BY <1>1, <1>2, <2>1, <2>2, <2>3, LapseEnds
  <1>5. CASE ~(retryable /\ snap[w][c].attempts < MaxAttempts)
    <2>1. /\ WriteRunning(c, Ended(row[c], end))
          /\ pc' = [pc EXCEPT ![w] = "on_dead"] /\ UNCHANGED <<cur, todo, snap>>
      BY <1>1, <1>5 DEF Fail
    <2>2. NoNewHolder /\ \A v \in Workers : Held(v)' = Held(v)
      BY <2>1, SameHeld DEF Held
    <2>3. /\ pc'[w] = "on_dead" /\ \A v \in Workers \ {w} : pc'[v] = pc[v]
      BY <1>0, <2>1 DEF TypeInv, TypeOK
    <2>a. row[c] \in Row
      BY <1>0
    <2>4. end \in TERMINAL /\ end # "queued" /\ Ended(row[c], end).status = end
      BY <2>a, RowFacts DEF TERMINAL
    <2>5. ~BackInQueue(row[j], row'[j])
      BY <1>0, <2>1, <2>4 DEF BackInQueue, WriteRunning
    <2>6. AttemptLeft(j)'
      BY <1>0, <1>2, <2>5, AttemptWritten
    <2>7. CASE j = c
      <3>1. Own(w, j) /\ \A v \in Workers \ {w} : j \notin Held(v)
        BY <1>0, <1>3, <2>7 DEF OneHolder
      <3>2. row[j].status = "running"
        BY <1>1, <3>1 DEF Own
      <3>3. row'[j].status \in TERMINAL
        BY <1>0, <2>1, <2>4, <2>7, <3>2 DEF WriteRunning
      <3>4. Own(w, j)'
        BY <1>1, <2>1, <2>3, <2>7, <3>3 DEF Own
      <3>5. OneHolder(j)'
        BY <2>2, <3>1, <3>4 DEF OneHolder
      <3> QED BY <2>6, <3>5 DEF Kept
    <2>8. CASE j # c
      <3>1. row'[j] = row[j]
        BY <1>0, <2>1, <2>8 DEF WriteRunning
      <3>2. OneHolder(j)'
        BY <1>0, <2>1, <2>2, <2>3, <3>1, HolderKept
      <3> QED BY <2>6, <3>2 DEF Kept
    <2> QED BY <2>7, <2>8
  <1> QED BY <1>4, <1>5

\* The reaper: a row that it takes and that somebody holds is counted.
LEMMA LapseReap ==
    ASSUME Inv, NEW j \in Jobs, Kept(j), j \notin lapsed', NEW w \in Workers, Reap(w)
    PROVE  Kept(j)'
  <1>0. TypeInv /\ OneHolder(j) /\ AttemptLeft(j) /\ row \in [Jobs -> Row]
    BY DEF Inv, TypeInv, TypeOK, Kept
  <1>a. NoNewHolder /\ RowStep(j)
    BY <1>0, RunnerStepFacts DEF RunnerStep
  <1>1. CASE Stale(row[j])
    <2>1. \A v \in Workers : j \notin Held(v)
      BY <1>1 DEF Reap, Stale
    <2>2. OneHolder(j)'
      BY <1>a, <2>1, UnheldKept
    <2>3. row'[j] = Reaped(row[j]) /\ row[j] \in Row
      BY <1>0, <1>1 DEF Reap
    <2>4. row'[j].status = IF row[j].attempts >= MaxAttempts THEN "dead" ELSE "queued"
      BY <2>3 DEF Reaped, Row
    <2>5. row[j].attempts \in Nat /\ MaxAttempts \in Nat
      BY <2>3, JobQueueAssumption DEF Row
    <2>6. BackInQueue(row[j], row'[j]) => row[j].attempts < MaxAttempts
      BY <2>4, <2>5 DEF BackInQueue
    <2>7. AttemptLeft(j)'
      BY <1>0, <1>a, <2>6, AttemptWritten
    <2> QED BY <2>2, <2>7 DEF Kept
  <1>2. CASE ~Stale(row[j])
    <2>1. row'[j] = row[j] /\ cur' = cur /\ pc[w] = "poll"
      BY <1>2 DEF Reap
    <2>2. \A v \in Workers : pc[v] = "on_dead" => pc'[v] = "on_dead"
      BY <1>0, <2>1 DEF Reap, TypeInv, TypeOK
    <2>3. OneHolder(j)'
      BY <1>0, <1>a, <2>1, <2>2, HolderKept
    <2>4. AttemptLeft(j)'
      BY <1>0, <2>1 DEF AttemptLeft
    <2> QED BY <2>3, <2>4 DEF Kept
  <1> QED BY <1>1, <1>2

\* Any other step of a worker.
LEMMA LapseRunner ==
    ASSUME Inv, NEW j \in Jobs, Kept(j), j \notin lapsed', NEW w \in Workers, RunnerStep(w)
    PROVE  Kept(j)'
  <1>0. TypeInv /\ OneHolder(j) /\ AttemptLeft(j) /\ row \in [Jobs -> Row]
    BY DEF Inv, TypeInv, TypeOK, Kept
  <1>a. NoNewHolder /\ RowStep(j)
    BY <1>0, RunnerStepFacts
  <1>b. ASSUME /\ row'[j].status = row[j].status /\ row'[j].leasedBy = row[j].leasedBy
               /\ row'[j].attempts = row[j].attempts,
               \A v \in Workers : j \in Held(v)' /\ pc[v] = "on_dead" /\ cur[v] = j =>
                                     pc'[v] = "on_dead" /\ cur'[v] = j
        PROVE  Kept(j)'
    <2>1. OneHolder(j)'
      BY <1>0, <1>a, <1>b, HolderKept
    <2>2. AttemptLeft(j)'
      BY <1>0, <1>b DEF AttemptLeft
    <2> QED BY <2>1, <2>2 DEF Kept
  <1>1. CASE Reap(w)
    BY <1>1, LapseReap
  <1>2. CASE ReapFails(w) \/ Restart(w)
    <2>1. row' = row /\ cur' = cur /\ pc[w] \in {"poll", "down"}
      BY <1>2 DEF ReapFails, Restart
    <2>2. \A v \in Workers \ {w} : pc'[v] = pc[v]
      BY <1>0, <1>2 DEF ReapFails, Restart, TypeInv, TypeOK
    <2> QED BY <1>b, <2>1, <2>2
  <1>3. CASE StartRun(w)
    <2>1. row' = row /\ pc[w] = "next"
      BY <1>3 DEF StartRun
    <2>2. \A v \in Workers \ {w} : pc'[v] = pc[v] /\ cur'[v] = cur[v]
      BY <1>0, <1>3 DEF StartRun, TypeInv, TypeOK
    <2> QED BY <1>b, <2>1, <2>2
  <1>4. CASE Heartbeat(w)
    <2>1. /\ row'[j].status = row[j].status /\ row'[j].leasedBy = row[j].leasedBy
          /\ row'[j].attempts = row[j].attempts
      BY <1>0, <1>4 DEF Heartbeat, Row
    <2>2. pc' = pc /\ cur' = cur
      BY <1>4 DEF Heartbeat, workerVars
    <2> QED BY <1>b, <2>1, <2>2
  <1>5. ASSUME NEW u, pc[w] = "run", RunEnds(w), WriteRunning(cur[w], u),
               u.status # "queued"
        PROVE  Kept(j)'
    <2>1. cur[w] \in Jobs
      BY <1>0, <1>5 DEF TypeInv, WorkerInv
    <2>2. (j # cur[w] => row'[j] = row[j]) /\ ~BackInQueue(row[j], row'[j])
      BY <1>0, <1>5, <2>1 DEF WriteRunning, BackInQueue
    <2> QED BY <1>5, <1>a, <2>2, LapseEnds
  <1>6. CASE Complete(w)
    <2>1. cur[w] \in Jobs
      BY <1>0, <1>6 DEF Complete, TypeInv, WorkerInv
    <2>2. Completed(row[cur[w]]).status # "queued"
      BY <1>0, <2>1, RowFacts
    <2> QED BY <1>5, <1>6, <2>2 DEF Complete
  <1>7. CASE HandlerFails(w) \/ CompleteFails(w)
    BY <1>7, LapseFail DEF HandlerFails, CompleteFails
  <1>8. CASE BackendWarming(w)
    <2>1. cur[w] \in Jobs /\ pc[w] = "run"
      BY <1>0, <1>8 DEF BackendWarming, TypeInv, WorkerInv
    <2>2. Parked(row[cur[w]]).status # "queued"
      BY <1>0, <2>1, RowFacts
    <2>3. CASE Fail(w, TRUE)
      BY <2>1, <2>3, LapseFail
    <2>4. CASE WriteRunning(cur[w], Parked(row[cur[w]])) /\ RunEnds(w)
      BY <1>5, <2>1, <2>2, <2>4
    <2> QED BY <1>8, <2>3, <2>4 DEF BackendWarming
  <1>9. CASE HandlerCancelled(w)
    <2>1. cur[w] \in Jobs /\ pc[w] = "run" /\ RunEnds(w)
      BY <1>0, <1>9 DEF HandlerCancelled, TypeInv, WorkerInv
    <2>a. row[cur[w]] \in Row
      BY <1>0, <2>1
    <2>2. Ended(row[cur[w]], "cancelled").status = "cancelled"
      BY <2>a, RowFacts
    <2>3. (j # cur[w] => row'[j] = row[j]) /\ ~BackInQueue(row[j], row'[j])
      BY <1>0, <1>9, <2>1, <2>2 DEF HandlerCancelled, BackInQueue
    <2> QED BY <1>a, <2>1, <2>3, LapseEnds
  <1>10. CASE OnDead(w) \/ OnDeadFails(w)
    <2>1. pc[w] = "on_dead" /\ RunEnds(w) /\ row' = row
      BY <1>10 DEF OnDead, OnDeadFails
    <2>2. ~BackInQueue(row[j], row'[j])
      BY <2>1 DEF BackInQueue
    <2> QED BY <1>a, <2>1, <2>2, LapseEnds
  <1>11. CASE Crash(w) \/ LoopDies(w)
    <2>1. row' = row /\ \A v \in Workers \ {w} : pc'[v] = pc[v] /\ cur'[v] = cur[v]
      BY <1>0, <1>11 DEF Crash, LoopDies, LosesAll, TypeInv, TypeOK
    <2>2. Held(w)' = {}
      BY <1>0, <1>11 DEF Crash, LoopDies, LosesAll, Held, TypeInv, TypeOK
    <2> QED BY <1>b, <2>1, <2>2
  <1> QED BY <1>1, <1>2, <1>3, <1>4, <1>6, <1>7, <1>8, <1>9, <1>10, <1>11
          DEF RunnerStep, Outcome

\* A job that has lapsed stays so.
LEMMA LapsedGrows == [Next]_vars => lapsed \subseteq lapsed'
  <1> SUFFICES ASSUME [Next]_vars PROVE lapsed \subseteq lapsed'
    OBVIOUS
  <1>1. CASE UNCHANGED vars
    BY <1>1 DEF vars
  <1>2. CASE Environment
    BY <1>2 DEF Environment, Enqueue, BecomesDue, LeaseExpires, LeaseMissed, Expire
  <1>3. ASSUME NEW w \in Workers, Claim(w) PROVE lapsed \subseteq lapsed'
    BY <1>3 DEF Claim
  <1>4. ASSUME NEW w \in Workers, RunnerStep(w) PROVE lapsed \subseteq lapsed'
    BY <1>4 DEF RunnerStep, Outcome, Reap, ReapFails, StartRun, Heartbeat, Complete,
                HandlerFails, BackendWarming, HandlerCancelled, CompleteFails, OnDead,
                OnDeadFails, Crash, Restart, LoopDies
  <1> QED BY <1>1, <1>2, <1>3, <1>4 DEF Next

LEMMA LapseStep == LapseInv /\ [Next]_vars => LapseInv'
  <1> SUFFICES ASSUME LapseInv, [Next]_vars, NEW j \in Jobs, j \notin lapsed'
               PROVE  Kept(j)'
    BY InvStep DEF LapseInv
  <1>0. Inv /\ Kept(j)
    BY LapsedGrows DEF LapseInv
  <1>1. CASE UNCHANGED vars
    BY <1>0, <1>1 DEF vars, Kept, OneHolder, Own, Held, AttemptLeft
  <1>2. CASE Environment
    BY <1>0, <1>2, LapseEnvironment
  <1>3. ASSUME NEW w \in Workers, RunnerStep(w) PROVE Kept(j)'
    BY <1>0, <1>3, LapseRunner
  <1>4. ASSUME NEW w \in Workers, Claim(w) PROVE Kept(j)'
    BY <1>0, <1>4, LapseClaim
  <1> QED BY <1>1, <1>2, <1>3, <1>4 DEF Next

LEMMA LapseAlways == Spec => []LapseInv
  BY LapseInit, LapseStep, PTL DEF Spec

\* Two workers have the same job in hand only if its lease was taken from one
\* that had it, whatever crashes, is late or does not get through
\* (jobs_claim(), heartbeat(), the reaper).
THEOREM JobsHeldOnce == Spec => []HeldOnce
  <1>1. ASSUME LapseInv PROVE HeldOnce
    <2> SUFFICES ASSUME NEW v \in Workers, NEW w \in Workers, v # w,
                        NEW j \in Held(v) \cap Held(w)
                 PROVE  j \in lapsed
      BY DEF HeldOnce
    <2>1. j \in Jobs
      BY <1>1 DEF Held, LapseInv, Inv, TypeInv, TypeOK
    <2> QED BY <1>1, <2>1 DEF LapseInv, Kept, OneHolder
  <1>2. LapseInv => HeldOnce
    BY <1>1
  <1> QED BY <1>2, LapseAlways, PTL

\* Until then max_attempts is exact: the Job object's count is the row's, so
\* neither fail() nor the reaper queues a job that has used all its attempts.
THEOREM AttemptsExact == Spec => []AttemptsWithinMax
  <1>1. ASSUME LapseInv PROVE AttemptsWithinMax
    <2> SUFFICES ASSUME NEW j \in Jobs, row[j].attempts > MaxAttempts, j \notin lapsed
                 PROVE  FALSE
      BY DEF AttemptsWithinMax
    <2>1. row[j].attempts <= MaxAttempts
      BY <1>1 DEF LapseInv, Kept, AttemptLeft
    <2>2. row[j].attempts \in Nat /\ MaxAttempts \in Nat
      BY <1>1, JobQueueAssumption DEF LapseInv, Inv, TypeInv, TypeOK, Row
    <2> QED BY <2>1, <2>2
  <1>2. LapseInv => AttemptsWithinMax
    BY <1>1
  <1> QED BY <1>2, LapseAlways, PTL

=============================================================================
