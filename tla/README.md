# Verification of notes_ai: jobs, transcription, notes, sharing, notifications

TLA+ models of the parts of notes_ai in which several processes share rows,
messages and objects, the TLC runs that check them and the TLAPS proofs about
them. Paths are relative to the repository; `S/` stands for `services/`.

## 1. Inventory

| component | state it keeps | operations | models |
|---|---|---|---|
| Job queue, `libs/jobs` (`queue.py`, `runner.py`, `policy.py`, migration `0022_jobs.sql`) | table `jobs`: status, attempts, lease, run_at, waiting_since | enqueue, claim, heartbeat, complete, fail, wait_on_model, cancel, reap | `JobQueue` |
| Job runner and note worker (`runner.py`, `S/note-service/.../worker.py`) | batch in memory, heartbeat task | run_forever, run_one, on_dead, shutdown | `JobQueue` |
| Fair claim (`0055_jobs_fair_claim.sql`) | none of its own | jobs_claim_fair | `JobQueueFair` |
| Streams, `libs/messaging` (`redis_streams.py`) | stream, pending list, attempts hash, dead-letter stream | send, iterate, reclaim, ack, fail | in `AsrJob`, reduced in `Rediarize` |
| asr-service (`routers/jobs.py`, `domain/repository.py`, `reaper.py`, `job_erasure.py`) | `transcription_jobs`, audio and transcript objects | submit, cancel, reap, erase; rediarize, undo | `AsrJob`, `Rediarize` |
| asr-worker (`processor.py`) | message in hand, reclaimed messages | process one message: transcription or re-run | `AsrJob`, `Rediarize` |
| Note generation (`S/note-service/.../jobs/generate_note.py`, `domain/generation_*.py`, `note_apply.py`, `snapshot_sweeper.py`) | `note_generations`, items, snapshot objects | start, handle_generate, mark_dead, sweep | `NoteGeneration` |
| Meetings, drafts, versions (`routers/notes_meeting.py`, `notes_from_transcript.py`, `notes_drafts.py`, `notes_repository.py`) | `notes`, `note_versions`, `note_meetings` | start, attach job, attach transcript, save, cancel, delete | `NoteGeneration` |
| Moves (`0078_move_note_to_workspace.sql`, `rehome_media.py`) | workspace, media_state, URI columns, stubs, objects | move, re-home, mark_failed | `NoteMove` |
| Share links (`routers/notes_sharing.py`, `shared_public.py`, `domain/share_links.py`) | links, responses, opt-out list | mint, send, open, answer, opt out, revoke | `ShareLinks` |
| notification-service | notifications, outbox, dead letters, digest progress | ingest, deliver, digest | `Notifications` |
| audit chain, `libs/audit` | hash-chained events per tenant | append, verify | planned |
| auth-service, nlp-service, generation-service, `libs/models`, `libs/diarization`, `libs/crypto`, `libs/storage`, `libs/ratelimit`, telemetry, clients | see PROJECT.json | | not modelled |

How they interact. asr-service writes a row, then adds a message to a Redis
stream; asr-worker takes the message, moves the row on, stores the transcript,
writes the row, audits, notifies, acknowledges. Nothing ties the row, the
object and the message together but the order of these statements; a reaper
in asr-service looks for what fell through. note-service enqueues rows into
`jobs` within its own transaction; the note worker leases them, runs the
handler under a heartbeat and settles them; every runner reaps expired leases
before it claims. The two handlers of the note worker write a generated text
into a note that people edit meanwhile, and carry a moved note's objects after
its rows. Share links are requests of the author and of people outside, with a
mail in the middle that no transaction covers. Services publish facts on
another stream; notification-service turns them into rows, mails and digests.

What is hard there:

- leases and pending entries expire while their holder is only slow, so two
  holders act on one row (stale reads, late writes, shared object keys);
- most writes name the row and a status, or the row alone, and not the holder;
- processes die between any two statements; answers of Redis get lost;
- a reaper decides on one read and writes in a later statement;
- retry counts live in two places (the row and the claimed object; the
  attempts hash), and both have a cap;
- a handler checks in one transaction, calls a model, a store or a mail relay
  without a connection, and writes in the next one;
- READ COMMITTED lets another transaction in between a read and a write, and a
  raising handler takes back what its whole transaction wrote, mails not;
- everything that waits (queued, parked, pending, a running re-run) must end.

What makes each part correct is stated in section 4, and the hazards with
their lines are listed in PROJECT.json.

## 2. Modules

### JobQueue

`row[j]` holds the columns of a job. Each UPDATE statement is an operator on
the row (`Leased`, `Completed`, `Requeued`, `Ended`, `Parked`, `Reaped`), and
`WriteRunning` is the guard `WHERE id = $1 AND status = 'running'` that the
runner's writes share: it names the job and not the lease, and a write that
matches nothing is silent. `snap[w][j]` is the claimed `Job` object, whose
`attempts` and `waiting_since` decide about retry and park later although the
row may have moved on. `pc`, `cur`, `todo` are `run_forever()` and its batch.

Time is three facts about a row: `due` (run_at has passed), `expired` (lease
and grace have passed) and `waits` (parks since waiting_since). `LeaseExpires`
is the expiry of a lease nobody renews: only the job that runs has a heartbeat
(`Renewed`), the rest of a batch has none. `LeaseMissed` is a renewal that
comes too late (a stall), a counted fault. Faults are the kinds crash, stall,
reap (the reaper raises, the loop goes on), db (claim or a settling write
raises and `run_forever()` ends), complete (the completing transaction fails)
and on_dead (the hook raises). `lapsed` is history: the jobs whose lease the
reaper took while a worker had them in hand.

### JobQueueFair

Extends JobQueue with `jobs_claim_fair()`, which a runner with `per_tenant`
set uses; the note worker's default is 3 (`note_generation_per_tenant`), so
there the plain claim of JobQueue is the exception. Its `FOR UPDATE SKIP LOCKED` stands
in a SELECT from a WITH query; PostgreSQL does not apply a locking clause to
the WITH queries a statement refers to. So the claim is `Scan`, on the
snapshot of the statement, then `Update` by id. The cap and the ranking within
a workspace (`Eligible`, `Headroom`, `Rankings`, `IsPick`) follow the CTEs.

### AsrJob

One transcription job from `submit_job()` to its outcome. Every statement that
touches the row, the stream or the store is an action: `CheckCap`, `InsertRow`,
`Send` for the submission; `Take`, `ReadRow`, `MarkRunning`, `Transcribed`,
`PutResult`, `SaveComplete`, `Audit`, `Ack` for the worker, with `CancelSeen`,
`Die`, `RetryableError`, `Bump`, `DeadLetter`, `Exhausted` for the other ways
out; `ReapScan`, `ReapFail` for the reaper; `ErasePlan`, `EraseObjects`,
`EraseRows` for the operator's erasure. `LongJobs` says whether processing may
outlast the 60 s after which XAUTOCLAIM hands a pending entry to another
worker: with it duplicates happen without any fault, and the run has it. Two
variables are history. `disputed` are the jobs that a worker went on with while
another was at them, or whose delivery was given up at the retry cap after the
row was settled. `dropped` are the jobs of which a failure took the row or the
message: the request died before it sent, the payload did not parse, or the
row's last write was lost after the dead-letter. The audio, the model and
the guards on the transcript are abstracted to the outcomes success, terminal
failure and retryable failure.

### Rediarize

The re-labelling of one complete job. Artifacts are numbered by revision (the
key is a function of the revision) and hold the request that computed them, so
that the model tells labellings apart. `Claim`, `Release`, `Undo`, `Reap` are
transactions of asr-service under the row lock; the worker's re-run is
`ClaimRun`, `ReadCurrent`, `PutRevision`, `Swap`, `DeleteSuperseded`, `Ack`.
`overran` is history: a re-run has outlasted the reclaim window, after which
`NamesFit` and the last part of `RevisionNamesLabels` claim nothing.

### JobContract and JobQueueContract

`JobContract` is the abstract specification of the queue as a handler sees it:
`job[j]` is absent, open or settled, `run[w]` what a worker runs, `told[j]`
whether `on_dead` was called. No lease, claim, attempt or clock. Runs of a job
may overlap, and one may begin after the job was settled: the note worker claims
two jobs at a time, of which one has no heartbeat, and heartbeats may be late.

`JobQueueContract` maps JobQueue onto it (`AbstractJob`, `AbstractRun`; `told`
is itself) and states the refinement, which the run `queue` shows under every
fault. The fair claim is not part of it: its UPDATE asks for the id alone and may
put a row that was settled meanwhile back to running.
NoteGeneration and NoteMove EXTEND the contract and conjoin its actions with
their own, so that they meet every run order the queue allows without its
state space.

### NoteGeneration

On the contract: a lost lease gives two runs of one generation, or one
after it was settled. `gen` are the rows of `note_generations`, `objects` the
snapshots, `note` the row with its head version. A text is abstracted to the
generation whose sections are shown and the set of edits it holds. The handler
`handle_generate()` is `Load`, `Read`, `Write`, `Commit`, `Discard` with `Fail`
and the raising ends; `mark_dead()` is `DeadLoad` and `Fail`; `run_one()` around
it is `Completes`, `Retries`, `GivesUp`, `DeadTold`, and pays the usage records:
`Paid` with the completion, `Flush` at every other end. `unpaid` counts the
calls that are not in the ledger. Requests of people are their transactions:
`regenerate()` is check, put, insert; `attach_transcript()` is check and attach; an editor loads the head
and saves it under the optimistic version check. `late` is history: a run wrote
to a generation that was settled.

### NoteMove

On the contract, so that runs of one re-homing overlap. `Move` is the SQL
function `move_note_to_workspace()` in one step; the job walks the plan object
by object: put the copy, point the row, delete the old one. `Undo` and `Rerun`
are the undo and the re-run of a re-labelling, which share the columns and ask
for no media state. `disturbed` is history: one of the two happened while a run
had a plan in hand, a move started from failed media or while a run was at
work, or a run began for a move that is over.

### ShareLinks

A request handler is a value of `op[r]` that goes from step to step; reads and
writes of one transaction are separate steps wherever the write relies on the
read. `mailed`, `unwanted`, `opened` and `raced` are history. The mail relay
accepts or refuses. `ShowPage` and `ShowPdf` record a first view; only the page
announces it.

### Notifications

`stream` and `cons` are the consumer with the retry counter and the dead-letter
stream, `cap` the Redis counter that decides about folding, `outbox` the e-mail
rows. A delivery worker or digest runner has one transaction open over all it
mails; what it has done so far is in `tx[w]` or `dig[q]` and reaches the tables
with `Commit`, or is undone with the mails out; `undone` records that. A send
that raises may have been taken by the relay all the same (`MaybeMailed`, for
a single mail and for a digest); `unsure` records that. A recipient who has left
gets no row (`TellsNobody`); one who leaves later, or a category without a mail
template, ends the row dead without a dead letter (`NothingToSend`). What raises
in the consumer's own error handling stops it (`FailRaises`, `RejectFails`).

### MC modules, proofs

The MC modules give the sets of jobs, workers, clients and faults of the runs.
The theorems are in `JobQueueProofs`, `JobQueueFairProofs`, `AsrJobProofs`,
`RediarizeProofs`, `NoteGenerationProofs`, `NoteMoveProofs`, `ShareLinksProofs`
and `NotificationsProofs`, each of which extends the module it is about.
Definitions whose comment starts with "Mutant" are wrong variants of the
definition below them; no specification uses them. They show that a property
fails when the code does what they say.

## 3. Bounds and fairness

Two workers are enough for every race here: all of them are between the holder
of a job and one later holder, or a worker and a handler or the reaper. Two
retries, two attempts and one park each reach their cap and what follows it.
Faults are counted and capped by `MaxFaults`; one or two per behaviour, of any
kind and at any step, on top of expiry, duplicate delivery, errors of the
handler and cancels, which are not counted.

| bound | value | why |
|---|---|---|
| `Jobs` of JobQueue | 2 | a batch with one job waiting behind the other, two priorities |
| `Jobs` of JobQueueFair | 4 | three of one workspace, so that a cap of 2 can be exceeded, one of another |
| `Jobs` of AsrJob | 1 | jobs share only the worker; duplicates of one job are the races |
| `MaxCopies` | 1 | a reclaimed entry waiting behind the one in hand |
| `MaxRequests` of Rediarize | 3 | two runs allowed, and one request released or superseded |
| `Bounded` (constraint of `move`) | once disturbed, no third run | the two properties about objects claim nothing then; keeps two workers in reach |
| `Jobs`, `MaxRuns` of NoteGeneration | 2, 2 | a generation and a later one, both run; a retry, or two runs of one |
| `MaxEdits`, `MaxTexts` | 1, 2 | an editor that is stale; a transcript that is there twice |
| `Jobs`, `Workspaces`, `MaxRuns` of NoteMove | 3, 3, 3 | there, back, on; a circle of stubs; each job run, or one of them three times |
| `MaxLinks`, `MaxRequests` of ShareLinks | 2, 3 | two links of a note or an address; a race of two requests and what follows |
| `Events`, `RateCap`, `MaxDays` of Notifications | 2, 1, 2 | one event under and one over the cap; a digest at midnight |
| `FirstAttempts` (constraint of `fair`) | first attempts, nothing settled | claims differ in nothing else; keeps four jobs in reach |

`Finished` in AsrJob lets a system that is done stutter, so deadlock is
checked there, as it is in JobQueue. Rediarize really may stop (all requests
made and nothing to undo) and has CHECK_DEADLOCK FALSE, and so do the modules
of notes, links and notifications, where people stop asking. In NoteMove a
crash is not counted; runs are.

Fairness is weak fairness only. JobQueue: the loop's own steps, the end of a
handler (its provider calls have timeouts), time (`BecomesDue`,
`LeaseExpires`), and the restart of a process that exited (the orchestrator's
restart policy). Nothing is assumed of `Enqueue`, of faults or of heartbeats.
AsrJob and Rediarize: the steps of workers and of the request handlers that
are under way, the background tasks of reclaim and reaper, which are periodic,
time, and restart. Cancels, erasures, undos and new requests are not fair.
Notifications: the loops of consumers and delivery workers and the end of a
backoff or of quiet hours; no digest and no preference is.

## 4. Runs

Passing:

- **queue**: batches of two, all faults. A settled row is never written again;
  retries past max_attempts, which stale claims do cause, are a budget that only
  shrinks (`RetryBudget`), so that attempts stays below max_attempts + workers. A
  job is in two hands, or past max_attempts, only after its lease was taken from
  a worker that had it: no crash, failing write or stale claim does it otherwise.
  The queue implements JobContract.
- **queue_live**: batches of two, one fault of any kind but a dying loop (it
  would end all service, see below) and a missed heartbeat (for the run's size:
  the leases of jobs that wait in a batch expire here too, with the same effect).
  A job is settled in the end (under fairness).
- **fair**: overlapping fair claims and a crash. One worker never leases more
  of a workspace than the cap, and a claim is shared between workspaces.
- **asr**: long jobs with duplicate deliveries, one fault of any kind. A complete
  row has its transcript; an unsettled job that nobody processes still has its
  message; one outcome is announced and complete is kept unless two deliveries
  met at the job or one was given up once it was settled; every recorded job
  gets an outcome (under fairness).
- **rerun**: duplicates, one fault, three requests of which two may run. The
  labelling shown and the one an undo restores are stored; names belong to
  them; the row points at other labels only under a higher revision, and what a
  revision shows is not overwritten before a re-run outlasts its window; a re-run
  is failed only for being stale or by a worker at that request; it ends (under
  fairness).
- **generation**: people, two workers, one fault of any kind. A row that names
  a snapshot has one; nothing saved or generated is undone by somebody else's
  save; no worker writes into a note that is gone; a transcript is in the note
  once; model calls are paid but for one run's calls per failure; the newest run
  is shown; a live generation, which blocks every later one, has an open job, or
  one given up whose handler was never told.
- **move**: three moves, two workers whose runs overlap, crashes anywhere, a
  labelling undone or made anew at any time. A ready note has its objects at
  home; no object is ever without a copy; old links lead to the note (a stub
  points to the note or to a workspace it left later); a note on its way has an
  open job, or one given up whose handler was never told.
- **share**: three overlapping requests. One notice of an
  opening; one stance per recipient; 'sent' only
  after a mail; no mail from the send endpoints to who had opted out.
- **notify**: two events, two delivery workers, two digest runners, two days,
  one failure, sends whose outcome is unknown. An entry is acknowledged only with
  its fact in the tables or its recipient gone; nothing is mailed twice, alone or
  in a digest, except after an undone transaction or a send that raised with the
  mail taken; dead letters are true.
- **notify_live**: two consumers, two failures. Every entry leaves the stream
  and every pending mail is sent or given up (under fairness).

Two runs contradict a statement of the repository (quoted in PROJECT.json,
"findings"): **fair_twice**, two fair claims at the same time lease one job
twice; **notify_twice**, a mail whose answer was lost is sent again although
"re-driving the worker over the same row cannot produce a second send".

### Why properties and runs except what they except

The exceptions are not for convenience: without them the property is false of
the code. They are observations a reader of the code should know.

Queue, transcription, re-labelling. Each was a counterexample of one of the
models under the constants named here (the last one follows from AsrJob's and
Rediarize's statements and needs their composition).

- A job whose last worker died is made dead by the reaper in SQL, and `on_dead`
  is never called for it (`0022_jobs.sql:136`). LiveIsServed and
  RehomingIsServed except it: a generation stays live and blocks the next one,
  a moved note stays 'rehoming' and refuses moves.
- A message is acknowledged before its row is terminal, at the retry cap and
  for a payload that does not parse (`redis_streams.py:224`).
- Of two deliveries of a long job one completes the row and the other fails it
  afterwards; `_mark_failed()` has no guard.
- An undo restores the names and leaves `speaker_name_sources`, the provenance
  of the undone labelling (`repository.py:643`).
- `lapsed` in `HeldOnce` and `AttemptsWithinMax`: of a batch of two
  (`worker.py:37`) the second job loses its lease while the first runs
  (`runner.py:131`), or a heartbeat is late; the old holder's `fail()` then
  re-queues with its stale attempts (`queue.py:163`) or reports a death that was
  not written (`queue.py:177`). The fair claim leases twice without any lapse.
- `Settles` of JobQueue with fault db: an exception of `claim()` or of the
  settling write ends `run_forever()` (`runner.py:101`) while `run()` waits for
  a signal only (`worker.py:224`).
- `disputed` in `CompleteIsFinal` and `AnnouncedOnce`: of two deliveries of a long
  job each may announce, and the later one's failure overwrites the outcome; an
  error after the row was written (the audit write, the acknowledgement) sends
  the message through retry and dead-letter, and `_mark_failed()` overwrites it.
- `dropped` in `Accounted`: a request that dies before it sends, a payload that
  does not parse and a last write that is lost leave a row behind without a
  message. The reaper is there for this, and `Settles` covers it.
- A cancel that arrives between the last check and the completing UPDATE is
  overwritten (`processor.py:754`, `803`).
- An erasure does not stop a duplicate delivery, which stores the transcript
  again (`job_erasure.py:101`), with `LongJobs`.
- The concurrency cap is checked before the upload and not with the insert
  (`routers/jobs.py:286`), so overlapping submissions exceed it.
- `overran` in `NamesFit` and `RevisionNamesLabels`: a duplicate of a failed
  request overwrites the artifact of its successor, which has the same revision
  key (`processor.py:1820`).
- A late duplicate of the transcription itself re-points the row at the first
  artifact under the re-run's revision (`processor.py:803`).

Notes.

- A run that comes back after its generation was settled marks it running and
  complete again, since `mark()` has no guard (`generation_repository.py:168`):
  the older run's items replace the newer's, or a settled generation is live
  again with nobody on it. Hence `late` in NewestShownInTime and LiveIsServed.
- A failing delete after the row's key was cleared, a refused insert, or a
  request that dies after the put leave objects no sweeper knows.
- `_complete()` drains the usage records before its transaction, and
  `_flush_standalone()` logs its own failure and goes on; when either fails the
  records are gone (`runner.py:168`, `184`), as with the process. UsageKept
  allows one run's calls for each such failure.
- `attach_transcript()` does not ask again whether the note is a draft: a
  transcript, and a generation, come to a note that was cancelled meanwhile.
- `mark_no_audio()`, or a second `attach_job()`, that read the meeting before it
  was ready writes over 'ready' afterwards (`notes_meeting.py:672`); the next
  device appends the transcript again. Hence `overwritten` in TranscriptOnce.
- `disturbed` in HomeUndisturbed and CopyRemains: a labelling undone or made anew
  while a run has its plan in hand changes the columns under the plan; a move
  from 'failed' finds objects in two workspaces; a run, or a pending delete, of
  an earlier move works on keys that a move back made current again. Each can
  end with an object without any copy. So does a run of a late job of a move that
  is over, when the note is back where that move led.
- `mark_failed()` of an earlier move writes 'failed' over a later one.

Sharing.

- `share_by_email()` never asks the opt-out list, though the page tells the
  recipient "You won't receive further e-mails from {brand} users.";
  SendRespectsOptOut is about the send endpoints.
- A public link that has expired and is not revoked still takes the place of
  the one public link. Two links for one address may be minted at once.
- 'suppressed' is written in a transaction that the refusal then rolls back; an
  outcome that is written late replaces 'suppressed'.
- Opting out through a link that was revoked does nothing and says nothing.
- Answers of one link that overlap pile up (`raced` in OneStance).

Notifications.

- A redelivery after the counter was incremented is counted again, and an event
  that has its row is folded into the coalescing row as well.
- An exception in a batch rolls back the statuses and attempt counts of mails
  that are out; they are sent again (`undone` in MailedOnce). The same for a
  digest, and a digest open at midnight is followed by the next day's.
- The insert of an ingest dead letter, the `ack()` after it and `fail()` may raise
  out of `run_forever()` (`consumer.py:84`); nobody watches the task, and the
  consumer is gone (`down` in EverySettles).
- A send that raises, on a timeout after the relay took the mail too, is not sent
  to the worker, and is tried again (`worker.py:156`; `unsure` in MailedOnce). A
  digest's comment calls its failed send "never re-sent" (`digest.py:179`), which
  holds of that user-day; the items are deferred still and go out with the next.
- The table of dead letters is for "a channel never sent", and that is not known
  of a last try that raised.
- A row without an address, or in a category without a template, ends dead
  without a dead letter (`worker.py:107`, `114`). Items of a digest that failed
  age out of the next one.

## 5. Proofs

Every safety property that a run checks, state invariant, action property or
refinement, is also a theorem, for every value of the constants that the
module's `ASSUME` admits: any number of jobs, workers, requests, workspaces,
events, any caps and any number of faults of every kind. No theorem assumes more
than the specification: where the code breaks a property in a known way, the
property itself excepts the job or the behaviour to which that happened, by a
history variable (`lapsed`, `disputed`, `dropped`, `overran`, `late`,
`overwritten`, `disturbed`, `raced`, `undone`, `unsure`), and section 4 names the
code that does it. Most of the invariants are not inductive; the strengthenings
were model-checked with the MC modules before they were proved.

| theorem | states |
|---|---|
| `TypeCorrect`, `QueueSafe`, `RetriesBounded`, `SettledForGood` | TypeOK, WorkerInv; LeaseIffRunning, RetryBudget; AttemptsBounded; TerminalIsFinal |
| `QueueImplementsContract` | ImplementsContract |
| `JobsHeldOnce`, `AttemptsExact` | HeldOnce; AttemptsWithinMax |
| `WorkerWithinCap`, `ClaimsTakeTurns` | SoftCap; RoundRobin |
| `CompleteHasTranscript`, `JobsAccountedFor` | TypeOK, CompleteHasResult; Accounted |
| `SubmitterToldOnce`, `TranscriptIsFinal` | AnnouncedOnce; CompleteIsFinal |
| `LabellingsAreStored`, `NamesAlwaysFit`, `RevisionsNameLabels`, `FailsForCause` | TypeOK, LabellingsExist; NamesFit; RevisionNamesLabels; FailedForCause |
| `UsageIsKept`, `SnapshotsBacked`, `LiveGenerationsServed`, `NewestIsShown`, `NothingIsReverted`, `GoneNotesLeftAlone`, `TranscriptIsThereOnce` | TypeOK, UsageKept; SnapshotBacked; LiveIsServed; NewestShownInTime; NothingReverted; GoneIsLeftAlone; TranscriptOnce |
| `RehomingServed`, `OldLinksLead` | TypeOK, RehomingIsServed; StubsLead |
| `ReadyIsHome`, `CopiesRemain` | HomeUndisturbed; CopyRemains |
| `SharingTyped`, `AlwaysOnePublic`, `SentIsTrue`, `OptOutRespected`, `OpeningToldOnce`, `AnswersReplace` | TypeOK; OnePublic; SentWasMailed; SendRespectsOptOut; OpenedOnce; OneStance |
| `FactsKept`, `MailsOnce`, `LettersTrue` | TypeOK, NoFactLost; MailedOnce; LettersAreTrue |

The modules have the same shape: lemmas about the operators on rows, one lemma
on the effect of each action, one per action and part of the invariant, and the
temporal theorems at the end of each part.

### JobQueueProofs

`AttemptsBounded` is not inductive: a stale retry re-queues a
job at its last attempt, and the next claim counts one more. `RetryBudget`
says what pays for that: beyond max_attempts, attempts plus the workers that
still hold a `Job` object with attempts left plus one for a queued row stays
below max_attempts + |Workers|. A stale retry takes its worker out of the set
when it puts the row back, a claim of a queued row turns the one for the queue
into the attempt, a claim at or past max_attempts gives its worker no right to
retry, and reaper, completion and parks only lower the sum. The step where
max_attempts is reached needs that the claiming worker itself is not in the
set, hence the bound is strict. `WorkerInv` ties `pc`, `cur` and `todo`
together, so that a worker whose run ends loses its entry in the set. The
cardinalities are handled by a few lemmas on `StaleHolders` that rest on
FiniteSetTheorems.

The refinement of the contract follows from the type invariant and
`SeenInv` (a job in hand was queued once): `SeenStep` goes through the actions
and shows for each which contract action it is under the mapping, or that
`AbstractJob`, `AbstractRun` and `told` stay.

`LapseInv` carries exclusion job by job: of a job that is not `lapsed`, what a
worker has in hand is the lease holder's, with the row's count of attempts, and
nobody else's (`OneHolder`), and a queued job has an attempt left
(`AttemptLeft`). The reaper can only take a lease that has expired, and taking
it from a worker that has the job in hand is what puts the job into `lapsed`; so
an ordinary retry is decided by the row's own count, and the claim that follows
counts at most to max_attempts.

### JobQueueFairProofs

It extends the lemmas of JobQueueProofs. A scan counts every running row of a
workspace, so also the scanning worker's own; between scan and update others
can only take leases from it. `FairInv` says that what a worker has leased and
what it has selected (`Share`) fit the cap together. Two lemmas on ranks carry
the arithmetic: jobs of one workspace with ranks up to n are at most n
(`RankedFew`), and some job of every waiting workspace has rank 1
(`RankedFirst`), both from the injection of jobs into ranks. From the second
follows `RoundRobin`: the first job of a workspace that gets nothing would come
before any second job that was taken.

### AsrJobProofs

- `StoredInv`: a row is complete, or about to be, only when the object is in
  the store or an erasure is in progress; object keys are per job, so a
  duplicate's put replaces and never removes.
- `AccountInv` with `HeldInv` (who holds which delivery): an open job that is not
  `dropped` is with its submitter, in the stream, or in a worker's hands, and
  every way out of a worker's hands settles the row or leaves the entry.
- `OneEngaged`: of a job that is not disputed, at most one worker is past the
  first statement of a delivery. Who finds the job unsettled with nobody at it is
  the first; who goes on although another is at it disputes it. `OutcomeInv`: of
  such a job a worker that has it complete or announced has just settled it or
  will recognise it and skip it.

### RediarizeProofs

`TypeInv` has the numbering of revisions; `LabelInv` says that the artifacts the
row points at and goes back to are in the store and are not what a superseding
delete is about to remove; `PutInv` what a worker's put may overwrite: only a
revision above both. `HandsInv` adds, until a re-run outlasts its window, that
the artifact of the next revision comes from the request that may swap it in.
`RevisionNamesLabels` has three parts: revisions only grow, a swap or an undo
takes a new one, and while a revision stays the labels stored under it stay
(`ContentsStep`). The last holds until a re-run outlasts its window: the names
stay with the revision, and they fit the labels before and after the step.

### NoteGenerationProofs

On the contract, so duplicates and runs after the end are in. `TypeInv` has the
types, what a handler at each step holds, and the account of usage: the calls
that are neither in the ledger nor in a worker's memory are at most the failures
so far, one run's calls each. `Inv`
adds `RowInv` (snapshots: a put precedes its insert, and a discard or a sweep
clears the row's key before the object goes), `RequestInv` (what a request that
has checked may still rely on) and `OrderInv` (complete generations and placed
items are in the order of their numbers, until `late`). `HeadInv` (an editor's
base version and its edits) and `MeetingInv` (attached texts) carry the
properties of the note. LiveIsServed names the job alone: a live generation
whose job is neither open nor given up untold would be stuck whoever holds it.

### NoteMoveProofs

`TypeInv` has the moves in order, the last of them saying where the note is.
`ServedInv` says that a note on its way has not had the job of its last move
settled well, cancelled or told. `HomeInv` holds until the note is `disturbed`,
with any number of runs at work: whoever works does so for the last move
(`WorkInv`); the columns name different objects, each of them home, or under way
with a copy at one end (`MediaInv`); and the rest of every worker's plan covers
every row that still names the origin (`LeftInv`), so that whose plan is empty
finds all at home. Overlapping runs put the same copy, point the row to the same
key and delete only what the row has left. `StubInv` has a witness for StubsLead:
the number of the move that left each workspace. It grows along the stubs,
since the move that leaves a workspace is newer than every stub that points
there.

### ShareLinksProofs

The inductive invariant is `SharingInv`, the conjunction of

- `Sound`: TypeOK, and what a request at a step has in its hands (`GoodOp`): a
  request past minting names a link, one that records has an outcome. Without
  it nothing can be said of the row a step writes;
- `LinkInv`: OnePublic, and that a row not yet minted is not revoked, so that
  what is minted is the one live public link;
- `MailInv`: a request about to write 'sent' has mailed that link; one that
  knew of an opt-out when it began still finds it in the list, since the list
  only grows (`Growing`), and so never gets from the check to the mail;
- `OpenInv`: at most one request is about to announce a link, the link is then
  marked viewed and not yet announced;
- `StanceInv`: on a link without overlapping transactions, a live row is the
  only one and the note is not deleted; a request between its UPDATE and its
  INSERT is alone there and has replaced whatever is still live.

Two lemmas carry the case analysis: `Entering` (what a request may hold when it
enters a step) and `LinkChanges` (the few ways a row changes); the parts of the
invariant are proved from them and look at single actions only where those do
not suffice.

### NotificationsProofs

- `IngestInv`: a consumer about to acknowledge has written its fact or found
  nobody to tell, one about to write a dead letter has an entry that does not
  decode. `NoFactLost` is a property of steps: an entry is acknowledged
  with its fact in the tables, with a dead letter, or when the recipient is gone
  (`AckedInTables`).
- `LockInv`: a row locked by a delivery worker is pending and locked once.
- `DigestInv`: what a digest runner holds was deferred, and nobody else holds
  it unless it may be mailed again: `claim_user_day()` admits one runner a day,
  and what a runner of another day still holds goes to `undone` when it is
  taken.
- `MailInv`: a mail that went out, neither `undone` nor `unsure`, went once and
  is marked as sent or digested, or its transaction is open (`Marked`). A worker
  that mails has the row locked, so pending, so not marked; a runner has it
  deferred and alone.
- `LetterInv`: a verdict of 'dead' has its letter before its transaction ends, or
  there is no address or no template to send with.

World and consumers change nothing of this (`Quiet`): they only add rows that
nobody has locked, mailed or given up.

### Only model-checked

Liveness under fairness (`Settles` of JobQueue and AsrJob, `RerunSettles`,
`EverySettles`, `OutboxSettles`): TLAPS has no ENABLED, which fairness needs.

## 6. Not modelled

PROJECT.json lists every component with the reason. The repository has about
110,000 lines; most of them are not about shared state and stay outside:
evaluation and build scripts, the clients, numerical code (diarization,
decoding, language identification, coverage), text pipelines, prompts and
providers, views and serialisation, credentials and encryption, telemetry and
keep-warm. They are pure, outcomes in the models, or read-only. What is mapped
is the code that orders the writes of several actors.

Of the modelled parts: trimming of the stream by MAXLEN, creation of the
consumer group, prices of usage, speaker edits and corrections, series and
carried items of meetings, comments, sharing inside a workspace (visibility and
collaborators are single-row CRUD), verification codes, policy switches, rate
limits of the public pages, the websocket feed, read endpoints.

## 7. Plan

1. The fair claim in the contract: NoteGeneration and NoteMove over a queue that
   may also lease a settled job again; which faults of JobQueue `Settles` really
   excludes.
2. `AuditChain`: appends under the tenant's lock against the verifier's walk.
3. Memberships and invitations of auth-service, where two administrators act on
   one workspace.
4. Composition of AsrJob with Rediarize for late duplicates.
