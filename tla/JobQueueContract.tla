--------------------------- MODULE JobQueueContract ---------------------------
(***************************************************************************)
(* JobQueue implements JobContract: leases, batches, attempts, parking and *)
(* time are hidden, and what is left of a row is whether it is settled.    *)
(***************************************************************************)
EXTENDS JobQueue

AbstractJob ==
    [j \in Jobs |-> IF row[j].status \in TERMINAL \cup {"absent"}
                    THEN row[j].status ELSE "open"]

AbstractRun ==
    [w \in Workers |-> IF pc[w] \in {"run", "on_dead"}
                       THEN [job |-> cur[w], phase |-> pc[w]]
                       ELSE [job |-> NoJob, phase |-> "idle"]]

Promise == INSTANCE JobContract WITH job <- AbstractJob, run <- AbstractRun

\* Whatever leases are lost, a handler sees the contract: a run begins only
\* for a job that was queued, ends once, leaves a settled job as it is, and
\* on_dead follows a run that gave up (JobRunner.run_one()).
ImplementsContract == Promise!Contract

=============================================================================
