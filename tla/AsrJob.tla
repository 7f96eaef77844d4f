-------------------------------- MODULE AsrJob --------------------------------
(***************************************************************************)
(* A transcription job from upload to outcome: the submit and cancel       *)
(* handlers and the reaper of asr-service, the Redis stream with its       *)
(* pending list and dead-letter stream, the asr-worker processes, and the  *)
(* operator's erasure.  One message per job; the transcript is abstracted  *)
(* to whether its object exists.                                           *)
(*                                                                         *)
(* Every statement of a handler that reads or writes the row, the stream   *)
(* or the object store is a step of its own: the row is read and written   *)
(* under READ COMMITTED and most writes name only the id.                  *)
(***************************************************************************)
EXTENDS Naturals, Sequences, FiniteSets

CONSTANTS
    Jobs,         \* submissions of the tenant
    Workers,      \* asr-worker processes
    NoJob,        \* a worker that processes nothing
    Cap,          \* per_tenant_concurrent_jobs
    MaxRetries,   \* asr_jobs_max_retries
    LongJobs,     \* TRUE if processing may outlast reclaim_idle_ms (60 s)
    MaxCopies,    \* length of a worker's _reclaimed queue (bound)
    Faults,       \* which failures of the environment happen
    MaxFaults     \* how many of them (bound)

\* "crash" a worker; "submit" the request handler dies; "send" XADD raises;
\* "skew" the payload does not parse; "audit" write_event() raises; "db" the
\* last write of a dead-lettered job is lost; "edge" the first statements of a
\* delivery or its acknowledgement raise; "erase" a delete fails.
FaultKinds == {"crash", "submit", "send", "skew", "audit", "db", "edge", "erase"}

ASSUME AsrJobAssumption ==
    /\ IsFiniteSet(Jobs) /\ NoJob \notin Jobs
    /\ Cap \in Nat \ {0} /\ MaxRetries \in Nat \ {0}
    /\ LongJobs \in BOOLEAN /\ MaxCopies \in Nat \ {0}
    /\ Faults \subseteq FaultKinds /\ MaxFaults \in Nat

VARIABLES
    job,     \* job[j]: the columns of the row of transcription_jobs
    obj,     \* obj[j]: the transcript object exists
    sub,     \* sub[j]: where submit_job() is
    entry,   \* entry[j]: the stream entry of j
    bump,    \* bump[j]: the field of j in the attempts hash
    copies,  \* copies[w]: _reclaimed, entries claimed by the background task
    pc,      \* pc[w]: where worker w is in run_forever() / _process_one()
    cur,     \* cur[w]: the job of the message w processes
    seen,    \* seen[j]: the status for which the reaper's scan returned j
    eras,    \* eras[j]: progress of the erasure of j
    told,    \* told[j]: outcome notifications sent, 2 for two or more (history)
    disputed, \* jobs two deliveries worked at, or one failed once settled (history)
    dropped, \* jobs of which a failure took message or row away (history)
    faults   \* failures so far

workerVars == <<copies, pc, cur>>
streamVars == <<entry, bump>>
historyVars == <<told, disputed, dropped>>
vars == <<job, obj, sub, entry, bump, copies, pc, cur, seen, eras, historyVars, faults>>

-----------------------------------------------------------------------------

ACTIVE == {"queued", "running"}

SETTLED == {"complete", "failed", "cancelled"}

\* stale: queued_at or started_at is beyond its grace window.
Row == [status : ACTIVE \cup SETTLED \cup {"absent", "erased"},
        cancel : BOOLEAN, stale : BOOLEAN]

\* "written" is the status just written to the row, not yet audited.
Written == {"wrote_complete", "wrote_failed", "wrote_cancelled"}

WorkerState == {"idle", "read", "mark", "work", "put", "save", "fail", "dlq",
                "exhausted", "ack", "down"} \cup Written

TypeOK ==
    /\ job \in [Jobs -> Row]
    /\ obj \in [Jobs -> BOOLEAN]
    /\ sub \in [Jobs -> {"new", "checked", "inserted", "unsent", "done"}]
    /\ entry \in [Jobs -> {"none", "new", "pending", "acked", "dead"}]
    /\ bump \in [Jobs -> 0 .. MaxRetries]
    /\ copies \in [Workers -> Seq(Jobs)]
    /\ \A w \in Workers : Len(copies[w]) <= MaxCopies
    /\ pc \in [Workers -> WorkerState]
    /\ cur \in [Workers -> Jobs \cup {NoJob}]
    /\ \A w \in Workers : cur[w] = NoJob <=> pc[w] \in {"idle", "down"}
    /\ seen \in [Jobs -> ACTIVE \cup {"none"}]
    /\ eras \in [Jobs -> {"none", "planned", "emptied", "partial", "done"}]
    /\ told \in [Jobs -> 0 .. 2]
    /\ disputed \subseteq Jobs /\ dropped \subseteq Jobs
    /\ faults \in 0 .. MaxFaults

Init ==
    /\ job = [j \in Jobs |-> [status |-> "absent", cancel |-> FALSE, stale |-> FALSE]]
    /\ obj = [j \in Jobs |-> FALSE]
    /\ sub = [j \in Jobs |-> "new"]
    /\ entry = [j \in Jobs |-> "none"]
    /\ bump = [j \in Jobs |-> 0]
    /\ copies = [w \in Workers |-> <<>>]
    /\ pc = [w \in Workers |-> "idle"]
    /\ cur = [w \in Workers |-> NoJob]
    /\ seen = [j \in Jobs |-> "none"]
    /\ eras = [j \in Jobs |-> "none"]
    /\ told = [j \in Jobs |-> 0]
    /\ disputed = {} /\ dropped = {}
    /\ faults = 0

Fault(kind) ==
    /\ kind \in Faults
    /\ faults < MaxFaults
    /\ faults' = faults + 1

SetStatus(j, status) == job' = [job EXCEPT ![j].status = status]

-----------------------------------------------------------------------------
(* asr-service: submit_job().                                              *)

SubmitStep(j, from, to) == sub[j] = from /\ sub' = [sub EXCEPT ![j] = to]

Active == {j \in Jobs : job[j].status \in ACTIVE}

\* The concurrency cap is checked before the upload, in a transaction of its
\* own; the row is inserted in another one.
CheckCap(j) ==
    /\ SubmitStep(j, "new", "checked")
    /\ Cardinality(Active) < Cap
    /\ UNCHANGED <<job, obj, streamVars, workerVars, seen, eras, historyVars, faults>>

InsertRow(j) ==
    /\ SubmitStep(j, "checked", "inserted")
    /\ SetStatus(j, "queued")
    /\ UNCHANGED <<obj, streamVars, workerVars, seen, eras, historyVars, faults>>

Send(j) ==
    /\ SubmitStep(j, "inserted", "done")
    /\ entry' = [entry EXCEPT ![j] = "new"]
    /\ UNCHANGED <<job, obj, bump, workerVars, seen, eras, historyVars, faults>>

\* XADD raises: a lost answer is also an exception, with the entry added.
SendRaises(j) ==
    /\ SubmitStep(j, "inserted", "unsent")
    /\ Fault("send")
    /\ \E e \in {"none", "new"} : entry' = [entry EXCEPT ![j] = e]
    /\ UNCHANGED <<job, obj, bump, workerVars, seen, eras, historyVars>>

\* Mutant: the interlock is missing.
FailAny(j, onlyIf) == SetStatus(j, "failed")

\* fail_job(): only_if_status is the interlock.
FailJob(j, onlyIf) ==
    job' = IF job[j].status \in onlyIf THEN [job EXCEPT ![j].status = "failed"] ELSE job

SubmitFails(j) ==
    /\ SubmitStep(j, "unsent", "done")
    /\ FailJob(j, ACTIVE)
    /\ UNCHANGED <<obj, streamVars, workerVars, seen, eras, historyVars, faults>>

\* 429: the cap is reached, with jobs outside the model too, or after the
\* upload the monthly quota is.
SubmitRefused(j) ==
    /\ \E s \in {"new", "checked"} : SubmitStep(j, s, "done")
    /\ UNCHANGED <<job, obj, streamVars, workerVars, seen, eras, historyVars, faults>>

SubmitDies(j) ==
    /\ \E s \in {"inserted", "unsent"} : SubmitStep(j, s, "done")
    /\ Fault("submit")
    /\ dropped' = dropped \cup {j}
    /\ UNCHANGED <<job, obj, streamVars, workerVars, seen, eras, told, disputed>>

\* request_cancel() locks the row: a queued job is cancelled at once, a running
\* one is flagged for its worker.
Cancel(j) ==
    /\ job[j].status \in ACTIVE
    /\ ~job[j].cancel
    /\ job' = [job EXCEPT ![j].cancel = TRUE,
                          ![j].status = IF @ = "queued" THEN "cancelled" ELSE @]
    /\ UNCHANGED <<obj, sub, streamVars, workerVars, seen, eras, historyVars, faults>>

-----------------------------------------------------------------------------
(* asr-service: the reaper.                                                *)

Holds(w, j) == cur[w] = j \/ \E i \in 1 .. Len(copies[w]) : copies[w][i] = j

Processed(j) == \E w \in Workers : cur[w] = j

\* The grace windows: six hours without a worker, or longer than any job may
\* run plus a redelivery.
GoesStale(j) ==
    /\ job[j].status \in ACTIVE
    /\ ~job[j].stale
    /\ job[j].status = "running" => ~Processed(j)
    /\ job' = [job EXCEPT ![j].stale = TRUE]
    /\ UNCHANGED <<obj, sub, streamVars, workerVars, seen, eras, historyVars, faults>>

\* Mutant: only a dead worker is looked for, not a lost message.
StaleRunningOnly(j) == job[j].stale /\ job[j].status = "running"

Stale(j) == job[j].stale /\ job[j].status \in ACTIVE

\* list_stale_jobs() and fail_job() are two statements; the second one looks
\* at the status again, and not at the age.
ReapScan(j) ==
    /\ Stale(j)
    /\ seen[j] = "none"
    /\ seen' = [seen EXCEPT ![j] = job[j].status]
    /\ UNCHANGED <<job, obj, sub, streamVars, workerVars, eras, historyVars, faults>>

ReapFail(j) ==
    /\ seen[j] # "none"
    /\ FailJob(j, {seen[j]})
    /\ seen' = [seen EXCEPT ![j] = "none"]
    /\ UNCHANGED <<obj, sub, streamVars, workerVars, eras, historyVars, faults>>

-----------------------------------------------------------------------------
(* libs/messaging: RedisStreamsConsumer.                                   *)

Step(w, from, to) == pc[w] = from /\ pc' = [pc EXCEPT ![w] = to]

Release(w) == pc' = [pc EXCEPT ![w] = "idle"] /\ cur' = [cur EXCEPT ![w] = NoJob]

\* Reclaimed entries first, then XREADGROUP '>' with count 1.
Take(w) ==
    /\ Step(w, "idle", "read")
    /\ \/ /\ copies[w] # <<>>
          /\ cur' = [cur EXCEPT ![w] = Head(copies[w])]
          /\ copies' = [copies EXCEPT ![w] = Tail(@)]
          /\ UNCHANGED entry
       \/ /\ copies[w] = <<>>
          /\ \E j \in Jobs : /\ entry[j] = "new"
                             /\ cur' = [cur EXCEPT ![w] = j]
                             /\ entry' = [entry EXCEPT ![j] = "pending"]
          /\ UNCHANGED copies
    /\ UNCHANGED <<job, obj, sub, bump, seen, eras, historyVars, faults>>

\* XAUTOCLAIM takes what has been idle for reclaim_idle_ms, whoever holds it
\* (this worker too): nothing renews the entry of a job in progress.
IdleEntry(j) ==
    /\ entry[j] = "pending"
    /\ LongJobs \/ \A w \in Workers : ~Holds(w, j)

Reclaim(w) ==
    /\ pc[w] # "down"
    /\ Len(copies[w]) < MaxCopies
    /\ \E j \in Jobs : /\ IdleEntry(j)
                       /\ copies' = [copies EXCEPT ![w] = Append(@, j)]
    /\ UNCHANGED <<job, obj, sub, streamVars, pc, cur, seen, eras, historyVars, faults>>

\* XACK and HDEL; acknowledging twice is not an error.
Acked(j, as) ==
    /\ entry' = [entry EXCEPT ![j] = IF @ = "pending" THEN as ELSE @]
    /\ bump' = [bump EXCEPT ![j] = 0]

Ack(w) ==
    /\ pc[w] = "ack"
    /\ Acked(cur[w], "acked")
    /\ Release(w)
    /\ UNCHANGED <<job, obj, sub, copies, seen, eras, historyVars, faults>>

\* fail(): below the cap the entry stays pending for a reclaim.  Two workers
\* that fail together may both reach the cap; the count stops there.
Bump(w) ==
    /\ pc[w] = "fail"
    /\ bump' = [bump EXCEPT ![cur[w]] = IF @ < MaxRetries THEN @ + 1 ELSE @]
    /\ IF bump[cur[w]] + 1 >= MaxRetries
       THEN pc' = [pc EXCEPT ![w] = "dlq"] /\ UNCHANGED cur
       ELSE Release(w)
    /\ UNCHANGED <<job, obj, sub, entry, copies, seen, eras, historyVars, faults>>

\* At the cap: XADD to the dead-letter stream, XACK, HDEL.
DeadLetter(w) ==
    /\ Step(w, "dlq", "exhausted")
    /\ Acked(cur[w], "dead")
    /\ UNCHANGED <<job, obj, sub, copies, cur, seen, eras, historyVars, faults>>

-----------------------------------------------------------------------------
(* asr-worker: _process_one().                                             *)

\* A payload that does not parse is acknowledged and nothing is written.
BadPayload(w) ==
    /\ Step(w, "read", "ack")
    /\ Fault("skew")
    /\ dropped' = dropped \cup {cur[w]}
    /\ UNCHANGED <<job, obj, sub, streamVars, copies, cur, seen, eras, told, disputed>>

\* Mutant: a failed job is run again.
SkippedComplete(status) == status \in {"complete", "cancelled", "erased"}

Skipped(status) == status \in SETTLED \cup {"erased"}

\* _mark_cancelled(): WHERE status NOT IN (the settled ones).
MarkCancelled(j) ==
    job' = IF job[j].status \in ACTIVE THEN [job EXCEPT ![j].status = "cancelled"] ELSE job

\* The delivery w works at is past its first statement, and not at its end.
Engaged(w) == pc[w] \notin {"idle", "down", "read", "ack"}

\* w goes on with a job that is settled, or that another worker is at.
Disputes(w) ==
    disputed' = IF \/ Skipped(job[cur[w]].status)
                   \/ \E v \in Workers \ {w} : Engaged(v) /\ cur[v] = cur[w]
                THEN disputed \cup {cur[w]} ELSE disputed

\* SELECT status, cancel_requested.
ReadRow(w) ==
    LET j == cur[w] IN
    /\ pc[w] = "read"
    /\ \/ /\ Skipped(job[j].status)
          /\ Step(w, "read", "ack")
          /\ UNCHANGED <<job, disputed>>
       \/ /\ ~Skipped(job[j].status) /\ job[j].cancel
          /\ Step(w, "read", "wrote_cancelled")
          /\ MarkCancelled(j)
          /\ Disputes(w)
       \/ /\ ~Skipped(job[j].status) /\ ~job[j].cancel
          /\ Step(w, "read", "mark")
          /\ Disputes(w)
          /\ UNCHANGED job
    /\ UNCHANGED <<obj, sub, streamVars, copies, cur, seen, eras, told, dropped, faults>>

\* UPDATE ... WHERE status IN ('queued','running'): whether it matched a row is
\* not looked at.
MarkRunning(w) ==
    LET j == cur[w] IN
    /\ Step(w, "mark", "work")
    /\ job' = IF job[j].status \in ACTIVE
              THEN [job EXCEPT ![j].status = "running", ![j].stale = FALSE] ELSE job
    /\ UNCHANGED <<obj, sub, streamVars, copies, cur, seen, eras, historyVars, faults>>

\* The checks after decoding, between chunks, during diarization and before
\* the result is stored read the flag.
CancelSeen(w) ==
    /\ Step(w, "work", "wrote_cancelled")
    /\ job[cur[w]].cancel
    /\ MarkCancelled(cur[w])
    /\ UNCHANGED <<obj, sub, streamVars, copies, cur, seen, eras, historyVars, faults>>

\* Audio fetched, decoded, transcribed and diarized, and the last check passed.
Transcribed(w) ==
    /\ Step(w, "work", "put")
    /\ ~job[cur[w]].cancel
    /\ UNCHANGED <<job, obj, sub, streamVars, copies, cur, seen, eras, historyVars, faults>>

\* _mark_failed(): WHERE id = $1.
MarkFailed(j) ==
    job' = IF job[j].status # "erased" THEN [job EXCEPT ![j].status = "failed"] ELSE job

\* die() with a terminal kind.
Die(w) ==
    /\ Step(w, "work", "wrote_failed")
    /\ MarkFailed(cur[w])
    /\ UNCHANGED <<obj, sub, streamVars, copies, cur, seen, eras, historyVars, faults>>

\* Mutant: a retryable failure is acknowledged like a terminal one.
RetryAcked(w) ==
    /\ \E s \in {"work", "put", "save"} : Step(w, s, "ack")
    /\ UNCHANGED <<job, obj, sub, streamVars, copies, cur, seen, eras, historyVars, faults>>

\* die() with a retryable kind, or an unhandled exception: the row keeps its
\* status.  The store and the database fail like this too.
RetryableError(w) ==
    /\ \E s \in {"work", "put", "save"} : Step(w, s, "fail")
    /\ UNCHANGED <<job, obj, sub, streamVars, copies, cur, seen, eras, historyVars, faults>>

\* The SELECT or the UPDATE that begins a delivery, or the XACK that ends it
\* (with or without effect), raises: the same path, whatever the row says.
EdgeFails(w) ==
    /\ \E s \in {"read", "mark", "ack"} : Step(w, s, "fail")
    /\ Fault("edge")
    /\ \/ UNCHANGED entry
       \/ /\ pc[w] = "ack" /\ entry[cur[w]] = "pending"
          /\ entry' = [entry EXCEPT ![cur[w]] = "acked"]
    /\ Disputes(w)
    /\ UNCHANGED <<job, obj, sub, bump, copies, cur, seen, eras, told, dropped>>

\* Mutant: the row is written although the object was not stored.
PutUnchecked(w) ==
    /\ Step(w, "put", "save")
    /\ \E stored \in BOOLEAN : obj' = [obj EXCEPT ![cur[w]] = @ \/ stored]
    /\ UNCHANGED <<job, sub, streamVars, copies, cur, seen, eras, historyVars, faults>>

PutResult(w) ==
    /\ Step(w, "put", "save")
    /\ obj' = [obj EXCEPT ![cur[w]] = TRUE]
    /\ UNCHANGED <<job, sub, streamVars, copies, cur, seen, eras, historyVars, faults>>

\* UPDATE ... SET status='complete' ... WHERE id = $1.
SaveComplete(w) ==
    LET j == cur[w] IN
    /\ Step(w, "save", "wrote_complete")
    /\ job' = IF job[j].status # "erased" THEN [job EXCEPT ![j].status = "complete"] ELSE job
    /\ UNCHANGED <<obj, sub, streamVars, copies, cur, seen, eras, historyVars, faults>>

Announce(j) == told' = [told EXCEPT ![j] = IF @ < 2 THEN @ + 1 ELSE @]

\* The audit event, then the notification (a cancel has none).
Audit(w) ==
    /\ \E s \in Written : Step(w, s, "ack")
    /\ IF pc[w] = "wrote_cancelled" THEN UNCHANGED told ELSE Announce(cur[w])
    /\ UNCHANGED <<job, obj, sub, streamVars, copies, cur, seen, eras, disputed, dropped, faults>>

\* write_event() raises: an unhandled exception after the row was written.
AuditFails(w) ==
    /\ \E s \in Written : Step(w, s, "fail")
    /\ Fault("audit")
    /\ Disputes(w)
    /\ UNCHANGED <<job, obj, sub, streamVars, copies, cur, seen, eras, told, dropped>>

\* _fail_or_retry() after the message was dead-lettered.
Exhausted(w) ==
    /\ pc[w] = "exhausted"
    /\ MarkFailed(cur[w])
    /\ Announce(cur[w])
    /\ Release(w)
    /\ UNCHANGED <<obj, sub, streamVars, copies, seen, eras, disputed, dropped, faults>>

\* contextlib.suppress(Exception) around it: the write is lost, or the row is
\* written and the rest is lost.
ExhaustedLost(w) ==
    /\ pc[w] = "exhausted"
    /\ Fault("db")
    /\ UNCHANGED job \/ MarkFailed(cur[w])
    /\ Release(w)
    /\ dropped' = dropped \cup {cur[w]}
    /\ UNCHANGED <<obj, sub, streamVars, copies, seen, eras, told, disputed>>

Crash(w) ==
    /\ pc[w] # "down"
    /\ Fault("crash")
    /\ pc' = [pc EXCEPT ![w] = "down"]
    /\ cur' = [cur EXCEPT ![w] = NoJob]
    /\ copies' = [copies EXCEPT ![w] = <<>>]
    /\ dropped' = IF pc[w] = "exhausted" THEN dropped \cup {cur[w]} ELSE dropped
    /\ UNCHANGED <<job, obj, sub, streamVars, seen, eras, told, disputed>>

Restart(w) ==
    /\ Step(w, "down", "idle")
    /\ UNCHANGED <<job, obj, sub, streamVars, copies, cur, seen, eras, historyVars, faults>>

-----------------------------------------------------------------------------
(* The operator's erasure: plan(), the objects, the rows.                  *)

EraseStep(j, from, to) == eras[j] \in from /\ eras' = [eras EXCEPT ![j] = to]

ErasePlan(j) ==
    /\ EraseStep(j, {"none", "partial"}, "planned")
    /\ job[j].status \in SETTLED
    /\ UNCHANGED <<job, obj, sub, streamVars, workerVars, seen, historyVars, faults>>

EraseObjects(j) ==
    /\ EraseStep(j, {"planned"}, "emptied")
    /\ obj' = [obj EXCEPT ![j] = FALSE]
    /\ UNCHANGED <<job, sub, streamVars, workerVars, seen, historyVars, faults>>

\* The audio object or a connection fails after some transcript was deleted.
EraseFails(j) ==
    /\ EraseStep(j, {"planned", "emptied"}, "partial")
    /\ Fault("erase")
    /\ UNCHANGED <<job, obj, sub, streamVars, workerVars, seen, historyVars>>

EraseRows(j) ==
    /\ EraseStep(j, {"emptied"}, "done")
    /\ job' = [job EXCEPT ![j] = [status |-> "erased", cancel |-> FALSE, stale |-> FALSE]]
    /\ UNCHANGED <<obj, sub, streamVars, workerVars, seen, historyVars, faults>>

-----------------------------------------------------------------------------

ServiceNext ==
    \E j \in Jobs :
        \/ CheckCap(j) \/ InsertRow(j) \/ Send(j) \/ SendRaises(j)
        \/ SubmitFails(j) \/ SubmitRefused(j) \/ SubmitDies(j)
        \/ Cancel(j)
        \/ GoesStale(j) \/ ReapScan(j) \/ ReapFail(j)
        \/ ErasePlan(j) \/ EraseObjects(j) \/ EraseFails(j) \/ EraseRows(j)

\* What a worker does when nothing keeps it from running.
WorkerStep(w) ==
    \/ Take(w) \/ Ack(w) \/ Bump(w) \/ DeadLetter(w)
    \/ ReadRow(w) \/ MarkRunning(w) \/ CancelSeen(w) \/ Transcribed(w)
    \/ Die(w) \/ RetryableError(w) \/ PutResult(w) \/ SaveComplete(w)
    \/ Audit(w) \/ Exhausted(w)

WorkerNext ==
    \E w \in Workers :
        \/ WorkerStep(w) \/ Reclaim(w) \/ Restart(w)
        \/ BadPayload(w) \/ EdgeFails(w) \/ AuditFails(w) \/ ExhaustedLost(w)
        \/ Crash(w)

\* Every submission has run its course.
Over ==
    /\ \A j \in Jobs : /\ sub[j] = "done"
                       /\ job[j].status \notin ACTIVE
                       /\ entry[j] \in {"none", "acked", "dead"}
    /\ \A w \in Workers : pc[w] = "idle" /\ copies[w] = <<>>

Finished == Over /\ UNCHANGED vars

Next == ServiceNext \/ WorkerNext \/ Finished

Spec == Init /\ [][Next]_vars

\* The event loops of the service and of the workers run, the orchestrator
\* restarts a worker, the background tasks (reclaim, reaper) fire again and
\* again, and time passes.
Fairness ==
    /\ \A j \in Jobs : /\ WF_vars(Send(j) \/ SubmitFails(j))
                       /\ WF_vars(InsertRow(j))
                       /\ WF_vars(GoesStale(j))
                       /\ WF_vars(ReapScan(j))
                       /\ WF_vars(ReapFail(j))
    /\ \A w \in Workers : /\ WF_vars(WorkerStep(w))
                          /\ WF_vars(Reclaim(w))
                          /\ WF_vars(Restart(w))

FairSpec == Spec /\ Fairness

-----------------------------------------------------------------------------
(* Properties.                                                             *)

\* A complete row points at a stored transcript, unless an operator erases
\* the job: the result is stored before the row is written, whatever the
\* redeliveries, crashes and retries in between (processor.py, "a `complete`
\* row pointing at a missing object").
CompleteHasResult ==
    \A j \in Jobs : job[j].status = "complete" /\ eras[j] = "none" => obj[j]

\* A job nobody processes and whose submission is over is settled, or its
\* message is still in the stream: the worker hands a failure back or records
\* it, and drops no message in between (_fail_or_retry, fail()).  Excepted are
\* the jobs that the reaper is there for: the request died before it sent, the
\* payload did not parse, or the message was dead-lettered and the row's last
\* write was lost.
Accounted ==
    \A j \in Jobs :
        job[j].status \in ACTIVE /\ sub[j] = "done" /\ ~Processed(j)
            => entry[j] \in {"new", "pending"} \/ j \in dropped

\* A stored transcript is final: once the row is complete only an erasure
\* takes it away (fail_job's interlock; the skip of a settled row).  Only two
\* things can fail a complete job: a second delivery that was begun while the
\* first was worked at, longer than the reclaim window; and a delivery that
\* raised after the row was settled and was given up at the retry cap.
CompleteIsFinal ==
    [][\A j \in Jobs \ disputed : job[j].status = "complete"
                          => job'[j].status \in {"complete", "erased"}]_vars

\* The submitter is told one outcome, once, across crashes, redeliveries and
\* the reaper (emit_transcription_completed, emit_transcription_failed); with
\* the same two exceptions.
AnnouncedOnce == \A j \in Jobs : told[j] > 1 => j \in disputed

\* Every job that was recorded reaches an outcome: the worker, or the reaper
\* behind it, settles the row.
Settles ==
    \A j \in Jobs : job[j].status \in ACTIVE ~> job[j].status \notin ACTIVE

=============================================================================
