------------------------------- MODULE JobQueue -------------------------------
(***************************************************************************)
(* The Postgres lease queue of libs/jobs and the runner that drains it,    *)
(* with the plain claim jobs_claim().  A row of the table "jobs" is a      *)
(* record; a worker is one JobRunner process; the handler of a job is      *)
(* abstracted to its outcome.                                              *)
(*                                                                         *)
(* Time is abstracted to three flags of the row that only time sets:       *)
(*   due      run_at <= now()                                              *)
(*   expired  lease_expires_at < now() - grace                             *)
(*   waits    0 while waiting_since is NULL, else how often the job was    *)
(*            parked since; the warming budget may end after any park and  *)
(*            has ended after ParkBudget of them                           *)
(***************************************************************************)
EXTENDS Naturals, FiniteSets

CONSTANTS
    Jobs,         \* rows that may be enqueued
    Workers,      \* JobRunner processes, named by their worker_id
    NoWorker,     \* leased_by IS NULL
    NoJob,        \* a worker that runs nothing
    Priority,     \* the column priority
    MaxAttempts,  \* the column max_attempts
    Batch,        \* JobRunner(batch = ...)
    ParkBudget,   \* parks after which warming_decision() stops waiting
    Faults,       \* which failures of the environment happen
    MaxFaults     \* how many of them (bound)

FaultKinds == {"crash", "stall", "reap", "db", "complete", "on_dead"}

ASSUME JobQueueAssumption ==
    /\ IsFiniteSet(Jobs) /\ IsFiniteSet(Workers)
    /\ NoWorker \notin Workers /\ NoJob \notin Jobs
    /\ Priority \in [Jobs -> Nat]
    /\ MaxAttempts \in Nat \ {0} /\ Batch \in Nat \ {0}
    /\ ParkBudget \in Nat \ {0} /\ MaxFaults \in Nat
    /\ Faults \subseteq FaultKinds

VARIABLES
    row,     \* row[j]: the columns of job j
    pc,      \* pc[w]: where worker w is in run_forever / run_one
    cur,     \* cur[w]: the job w runs
    todo,    \* todo[w]: jobs of w's claim that it has not run yet
    snap,    \* snap[w][j]: what the Job object w claimed remembers of the row
    told,    \* told[j]: on_dead was called for j
    lapsed,  \* history: jobs whose lease was reaped while a worker held them
    faults   \* failures so far

workerVars == <<pc, cur, todo, snap>>
historyVars == <<told, lapsed>>
vars == <<row, pc, cur, todo, snap, historyVars, faults>>

-----------------------------------------------------------------------------
(* Types.                                                                  *)

TERMINAL == {"complete", "failed", "cancelled", "dead"}

JobStatus == {"queued", "running", "waiting_on_model"} \cup TERMINAL

\* "absent": the row has not been inserted yet.
Row == [status   : JobStatus \cup {"absent"},
        attempts : Nat,
        leasedBy : Workers \cup {NoWorker},
        expired  : BOOLEAN,
        due      : BOOLEAN,
        waits    : 0 .. ParkBudget]

\* The fields of the claimed Job object that the runner reads again later.
Snapshot == [attempts : Nat, waits : 0 .. ParkBudget]

NoSnapshot == [attempts |-> 0, waits |-> 0]

\* "down": the process is gone; "stopped": run_forever() has raised, but the
\* process waits for a signal and nobody restarts it; "scanned" is a step of
\* the fair claim only (JobQueueFair).
RunnerState == {"poll", "claim", "scanned", "next", "run", "on_dead", "down", "stopped"}

TypeOK ==
    /\ row \in [Jobs -> Row]
    /\ pc \in [Workers -> RunnerState]
    /\ cur \in [Workers -> Jobs \cup {NoJob}]
    /\ todo \in [Workers -> SUBSET Jobs]
    /\ snap \in [Workers -> [Jobs -> Snapshot]]
    /\ told \in [Jobs -> BOOLEAN] /\ lapsed \subseteq Jobs
    /\ faults \in 0 .. MaxFaults

Init ==
    /\ row = [j \in Jobs |-> [status |-> "absent", attempts |-> 0,
                              leasedBy |-> NoWorker, expired |-> FALSE,
                              due |-> FALSE, waits |-> 0]]
    /\ pc = [w \in Workers |-> "poll"]
    /\ cur = [w \in Workers |-> NoJob]
    /\ todo = [w \in Workers |-> {}]
    /\ snap = [w \in Workers |-> [j \in Jobs |-> NoSnapshot]]
    /\ told = [j \in Jobs |-> FALSE] /\ lapsed = {}
    /\ faults = 0

Fault(kind) ==
    /\ kind \in Faults
    /\ faults < MaxFaults
    /\ faults' = faults + 1

-----------------------------------------------------------------------------
(* The transitions of a row, one per UPDATE statement.                     *)

\* The SET clause of jobs_claim(): a job re-claimed from waiting_on_model
\* does not consume an attempt.
Leased(r, w) ==
    [r EXCEPT !.status   = "running",
              !.attempts = IF r.status = "waiting_on_model" THEN @ ELSE @ + 1,
              !.leasedBy = w,
              !.expired  = FALSE]

Completed(r) ==
    [r EXCEPT !.status = "complete", !.leasedBy = NoWorker,
              !.expired = FALSE, !.waits = 0]

\* fail() with attempts left: run_at moves into the future by the backoff.
Requeued(r) ==
    [r EXCEPT !.status = "queued", !.leasedBy = NoWorker, !.expired = FALSE,
              !.due = FALSE, !.waits = 0]

\* fail() for good: waiting_since stays.
Ended(r, status) ==
    [r EXCEPT !.status = status, !.leasedBy = NoWorker, !.expired = FALSE]

\* wait_on_model(): waiting_since is COALESCEd, so it keeps its first value.
Parked(r) ==
    [r EXCEPT !.status = "waiting_on_model", !.leasedBy = NoWorker,
              !.expired = FALSE, !.due = FALSE,
              !.waits = IF @ < ParkBudget THEN @ + 1 ELSE @]

\* Mutant: the reaper never gives up.
ReapedForever(r) ==
    [r EXCEPT !.status = "queued", !.leasedBy = NoWorker, !.expired = FALSE,
              !.due = TRUE]

\* jobs_reap_stale_leases(): the row's own attempts decide; waiting_since stays.
Reaped(r) ==
    [r EXCEPT !.status   = IF r.attempts >= MaxAttempts THEN "dead" ELSE "queued",
              !.leasedBy = NoWorker, !.expired = FALSE, !.due = TRUE]

\* Mutant: WHERE id = $1 alone.
WriteAny(j, new) == row' = [row EXCEPT ![j] = new]

\* Every write of a runner says WHERE id = $1 AND status = 'running': it names
\* the job and not the lease, and writing no row at all is not an error.
WriteRunning(j, new) ==
    row' = IF row[j].status = "running" THEN [row EXCEPT ![j] = new] ELSE row

-----------------------------------------------------------------------------
(* Callers, and the passage of time.                                       *)

\* No caller asks for a later run_at.  A second enqueue() with the same
\* idempotency key returns the row that is there and changes nothing.
Enqueue(j) ==
    /\ row[j].status = "absent"
    /\ row' = [row EXCEPT ![j] = [@ EXCEPT !.status = "queued", !.due = TRUE]]
    /\ UNCHANGED <<workerVars, historyVars, faults>>

BecomesDue(j) ==
    /\ row[j].status \in {"queued", "waiting_on_model"}
    /\ ~row[j].due
    /\ row' = [row EXCEPT ![j].due = TRUE]
    /\ UNCHANGED <<workerVars, historyVars, faults>>

\* The jobs a worker has claimed and not finished.
Held(w) == todo[w] \cup ({cur[w]} \ {NoJob})

\* The heartbeat task lives as long as run_one(): the other jobs of a batch
\* are leased and have none.  No time passes between two jobs of a batch.
InHand(w, j) ==
    \/ cur[w] = j /\ pc[w] \in {"run", "on_dead"}
    \/ j \in todo[w] /\ pc[w] = "next"

Renewed(j) == \E w \in Workers : row[j].leasedBy = w /\ InHand(w, j)

Expire(j) ==
    /\ row[j].status = "running"
    /\ ~row[j].expired
    /\ row' = [row EXCEPT ![j].expired = TRUE]
    /\ UNCHANGED <<workerVars, historyVars>>

\* A lease nobody renews expires.
LeaseExpires(j) == Expire(j) /\ ~Renewed(j) /\ UNCHANGED faults

\* A stall of the process or of the database makes a renewal late.
LeaseMissed(j) == Expire(j) /\ Renewed(j) /\ Fault("stall")

-----------------------------------------------------------------------------
(* JobRunner.run_forever(): reap, claim, run each job of the claim.        *)

\* Mutant: the reaper does not look at the lease.
StaleWhenRunning(r) == r.status = "running"

Stale(r) == r.status = "running" /\ r.expired

Reap(w) ==
    /\ pc[w] = "poll"
    /\ row' = [j \in Jobs |-> IF Stale(row[j]) THEN Reaped(row[j]) ELSE row[j]]
    /\ lapsed' = lapsed \cup {j \in Jobs : row[j].expired /\ \E v \in Workers : j \in Held(v)}
    /\ pc' = [pc EXCEPT ![w] = "claim"]
    /\ UNCHANGED <<cur, todo, snap, told, faults>>

ReapFails(w) ==
    /\ pc[w] = "poll"
    /\ Fault("reap")
    /\ pc' = [pc EXCEPT ![w] = "claim"]
    /\ UNCHANGED <<row, cur, todo, snap, historyVars>>

\* Mutant: a parked job is never claimed again.
ClaimableQueued(j) == row[j].status = "queued" /\ row[j].due

Claimable(j) == row[j].status \in {"queued", "waiting_on_model"} /\ row[j].due

\* ORDER BY priority DESC, run_at LIMIT max_rows.  Any order of run_at.
IsClaim(B, S) ==
    /\ B \subseteq S
    /\ Cardinality(B) = IF Cardinality(S) < Batch THEN Cardinality(S) ELSE Batch
    /\ \A j \in B, k \in S \ B : Priority[k] <= Priority[j]

\* UPDATE ... RETURNING *: the rows of B are leased to w, which keeps the Job
\* objects; B = {} is an empty poll.
Lease(w, B) ==
    /\ row' = [j \in Jobs |-> IF j \in B THEN Leased(row[j], w) ELSE row[j]]
    /\ snap' = [snap EXCEPT ![w] =
                  [j \in Jobs |-> IF j \in B
                                  THEN [attempts |-> Leased(row[j], w).attempts,
                                        waits    |-> row[j].waits]
                                  ELSE NoSnapshot]]
    /\ todo' = [todo EXCEPT ![w] = B]
    /\ pc' = [pc EXCEPT ![w] = IF B = {} THEN "poll" ELSE "next"]

\* jobs_claim(): FOR UPDATE SKIP LOCKED on the rows it selects makes the
\* selection and the update one step.
Claim(w) ==
    /\ pc[w] = "claim"
    /\ \E B \in SUBSET Jobs :
          /\ IsClaim(B, {j \in Jobs : Claimable(j)})
          /\ Lease(w, B)
    /\ UNCHANGED <<cur, historyVars, faults>>

\* RETURNING gives the rows in no particular order.
StartRun(w) ==
    /\ pc[w] = "next"
    /\ \E j \in todo[w] :
          /\ cur' = [cur EXCEPT ![w] = j]
          /\ todo' = [todo EXCEPT ![w] = @ \ {j}]
    /\ pc' = [pc EXCEPT ![w] = "run"]
    /\ UNCHANGED <<row, snap, historyVars, faults>>

\* heartbeat() is the one write that also asks for leased_by.
Heartbeat(w) ==
    /\ pc[w] \in {"run", "on_dead"}
    /\ LET r == row[cur[w]] IN r.status = "running" /\ r.leasedBy = w /\ r.expired
    /\ row' = [row EXCEPT ![cur[w]].expired = FALSE]
    /\ UNCHANGED <<workerVars, historyVars, faults>>

-----------------------------------------------------------------------------
(* JobRunner.run_one(): the outcomes of a run.                             *)

\* run_one() returns; the loop goes on with the batch.
RunEnds(w) ==
    /\ cur' = [cur EXCEPT ![w] = NoJob]
    /\ snap' = [snap EXCEPT ![w][cur[w]] = NoSnapshot]
    /\ pc' = [pc EXCEPT ![w] = IF todo[w] = {} THEN "poll" ELSE "next"]
    /\ UNCHANGED todo

\* Mutant: one attempt too many.
FailOneMore(w, retryable) ==
    LET j == cur[w] IN
    IF retryable /\ snap[w][j].attempts <= MaxAttempts
    THEN /\ WriteRunning(j, Requeued(row[j]))
         /\ RunEnds(w)
    ELSE /\ WriteRunning(j, Ended(row[j], IF retryable THEN "dead" ELSE "failed"))
         /\ pc' = [pc EXCEPT ![w] = "on_dead"]
         /\ UNCHANGED <<cur, todo, snap>>

\* JobQueue.fail() and _if_dead(): the attempts of the claimed Job object
\* decide, and the status returned is the one asked for, written or not.
Fail(w, retryable) ==
    LET j == cur[w] IN
    IF retryable /\ snap[w][j].attempts < MaxAttempts
    THEN /\ WriteRunning(j, Requeued(row[j]))
         /\ RunEnds(w)
    ELSE /\ WriteRunning(j, Ended(row[j], IF retryable THEN "dead" ELSE "failed"))
         /\ pc' = [pc EXCEPT ![w] = "on_dead"]
         /\ UNCHANGED <<cur, todo, snap>>

\* The handler returns; _complete() writes usage and the row in one
\* transaction.
Complete(w) ==
    /\ pc[w] = "run"
    /\ WriteRunning(cur[w], Completed(row[cur[w]]))
    /\ RunEnds(w)
    /\ UNCHANGED <<historyVars, faults>>

\* That transaction fails: an unhandled error, retryable.
CompleteFails(w) ==
    /\ pc[w] = "run"
    /\ Fault("complete")
    /\ Fail(w, TRUE)
    /\ UNCHANGED historyVars

\* A ProviderError other than warming, or an unhandled exception.
HandlerFails(w) ==
    /\ pc[w] = "run"
    /\ \E retryable \in BOOLEAN : Fail(w, retryable)
    /\ UNCHANGED <<historyVars, faults>>

\* warming_decision(): a backend without a cold start is not waited for, any
\* other one until the budget is used up, which it may be after any park.
WarmingDecision(waits) == {wait \in BOOLEAN : wait => waits < ParkBudget}

\* wait_on_model() decides on the waiting_since of the claimed Job object.
BackendWarming(w) ==
    /\ pc[w] = "run"
    /\ \E wait \in WarmingDecision(snap[w][cur[w]].waits) :
          \/ wait /\ WriteRunning(cur[w], Parked(row[cur[w]])) /\ RunEnds(w)
          \/ ~wait /\ Fail(w, TRUE)
    /\ UNCHANGED <<historyVars, faults>>

\* TranscriptionCancelledError.  cancel() takes any row that is not settled.
HandlerCancelled(w) ==
    /\ pc[w] = "run"
    /\ row' = IF row[cur[w]].status \in {"queued", "running", "waiting_on_model"}
              THEN [row EXCEPT ![cur[w]] = Ended(@, "cancelled")]
              ELSE row
    /\ RunEnds(w)
    /\ UNCHANGED <<historyVars, faults>>

OnDead(w) ==
    /\ pc[w] = "on_dead"
    /\ told' = [told EXCEPT ![cur[w]] = TRUE]
    /\ RunEnds(w)
    /\ UNCHANGED <<row, lapsed, faults>>

OnDeadFails(w) ==
    /\ pc[w] = "on_dead"
    /\ Fault("on_dead")
    /\ RunEnds(w)
    /\ UNCHANGED <<row, historyVars>>

-----------------------------------------------------------------------------
(* Failures of the worker.                                                 *)

LosesAll(w) ==
    /\ cur' = [cur EXCEPT ![w] = NoJob]
    /\ todo' = [todo EXCEPT ![w] = {}]
    /\ snap' = [snap EXCEPT ![w] = [j \in Jobs |-> NoSnapshot]]

\* The process dies or is stopped by a signal (run_one() re-raises
\* CancelledError and writes nothing).
Crash(w) ==
    /\ pc[w] # "down"
    /\ Fault("crash")
    /\ pc' = [pc EXCEPT ![w] = "down"]
    /\ LosesAll(w)
    /\ UNCHANGED <<row, historyVars>>

Restart(w) ==
    /\ pc[w] = "down"
    /\ pc' = [pc EXCEPT ![w] = "poll"]
    /\ UNCHANGED <<row, cur, todo, snap, historyVars, faults>>

\* claim(), or the write that settles a run, raises: nothing in run_forever()
\* catches it, the task ends, and run() goes on waiting for a signal.
LoopDies(w) ==
    /\ pc[w] \in {"claim", "run"}
    /\ Fault("db")
    /\ pc' = [pc EXCEPT ![w] = "stopped"]
    /\ LosesAll(w)
    /\ UNCHANGED <<row, historyVars>>

-----------------------------------------------------------------------------
Environment ==
    \E j \in Jobs : Enqueue(j) \/ BecomesDue(j) \/ LeaseExpires(j) \/ LeaseMissed(j)

Outcome(w) ==
    Complete(w) \/ HandlerFails(w) \/ BackendWarming(w) \/ HandlerCancelled(w)

\* Everything a worker does but claim.
RunnerStep(w) ==
    \/ Reap(w) \/ ReapFails(w) \/ StartRun(w) \/ Heartbeat(w)
    \/ Outcome(w) \/ CompleteFails(w) \/ OnDead(w) \/ OnDeadFails(w)
    \/ Crash(w) \/ Restart(w) \/ LoopDies(w)

Next ==
    \/ Environment
    \/ \E w \in Workers : RunnerStep(w) \/ Claim(w)

Spec == Init /\ [][Next]_vars

\* The loop is scheduled, a handler ends (its provider calls time out), time
\* passes, and the orchestrator restarts a process that exited.
Fairness ==
    /\ \A j \in Jobs : WF_vars(BecomesDue(j)) /\ WF_vars(LeaseExpires(j))
    /\ \A w \in Workers :
          /\ WF_vars(Reap(w)) /\ WF_vars(Claim(w)) /\ WF_vars(StartRun(w))
          /\ WF_vars(Outcome(w)) /\ WF_vars(OnDead(w)) /\ WF_vars(Restart(w))

FairSpec == Spec /\ Fairness

-----------------------------------------------------------------------------
(* Properties.                                                             *)

\* A row is running exactly while it carries a lease: every UPDATE that leaves
\* 'running' clears leased_by, and only a claim sets it.  A running row with no
\* lease would be out of the reaper's reach for good (NULL never expires).
LeaseIffRunning ==
    \A j \in Jobs :
        /\ row[j].status = "running" <=> row[j].leasedBy # NoWorker
        /\ row[j].expired => row[j].status = "running"

\* A settled job is never touched again, whichever worker, reaper or late
\* writer comes after (the status guards of complete(), fail(), cancel(),
\* wait_on_model(), the claim and the reaper together).
TerminalIsFinal ==
    [][\A j \in Jobs : row[j].status \in TERMINAL => row'[j] = row[j]]_vars

\* What the program counter says of the claim in hand.
WorkerInv ==
    \A w \in Workers :
        /\ pc[w] \in {"run", "on_dead"} <=> cur[w] \in Jobs
        /\ pc[w] \notin {"next", "run", "on_dead"} => todo[w] = {}
        /\ cur[w] \notin todo[w]

\* The workers whose Job object still allows a retry.
StaleHolders(j) ==
    {w \in Workers : j \in Held(w) /\ snap[w][j].attempts < MaxAttempts}

\* Once a job has used up max_attempts, each further run of it spends one of
\* the Job objects that were claimed before, and those are other workers':
\* the retries past max_attempts are a budget that only shrinks.
RetryBudget ==
    \A j \in Jobs : row[j].attempts >= MaxAttempts =>
        row[j].attempts + Cardinality(StaleHolders(j))
            + (IF row[j].status = "queued" THEN 1 ELSE 0)
        < MaxAttempts + Cardinality(Workers)

\* attempts never runs past max_attempts by more than the workers that lost
\* their lease can cause: each puts the job back at most once with its stale
\* count.
AttemptsBounded ==
    \A j \in Jobs : row[j].attempts < MaxAttempts + Cardinality(Workers)

\* "Beyond max_attempts it is dead" (0022_jobs.sql): a job runs past
\* max_attempts only if its lease was once taken from a worker that had it.
AttemptsWithinMax ==
    \A j \in Jobs : row[j].attempts > MaxAttempts => j \in lapsed

\* Two workers have the same job in hand only if its lease was once taken from
\* one of them that was late with it: whatever else fails (a crash, a reaper or
\* an outcome that does not get through), the lease keeps them apart.
HeldOnce ==
    \A v, w \in Workers : v # w => Held(v) \cap Held(w) \subseteq lapsed

\* Every job that is queued is settled in the end, through retries, parks,
\* lost leases and crashes.
Settles ==
    \A j \in Jobs : row[j].status = "queued" ~> row[j].status \in TERMINAL

=============================================================================
