------------------------------- MODULE Rediarize -------------------------------
(***************************************************************************)
(* Speaker re-labelling of one complete transcription job: the request and *)
(* undo handlers and the reaper of asr-service, and the re-run of          *)
(* asr-worker, _rediarize_one().  The stream is the one of AsrJob, reduced *)
(* to what a delivery needs; no delivery of the transcription itself is    *)
(* still under way.                                                        *)
(*                                                                         *)
(* A transcript object is named by its revision (1 is the key the          *)
(* transcription wrote, n > 1 is .r{n}) and holds a labelling: the request *)
(* that computed it, 0 for the transcription's own.                        *)
(***************************************************************************)
EXTENDS Naturals, FiniteSets

CONSTANTS
    Workers,      \* asr-worker processes
    MaxRequests,  \* requests ever made (bound)
    MaxRuns,      \* rediarize_max_runs
    MaxRetries,   \* asr_jobs_max_retries
    Faults,       \* which failures of the environment happen
    MaxFaults     \* how many of them (bound)

\* "crash" a worker; "handler" the request handler dies; "send" XADD raises.
FaultKinds == {"crash", "handler", "send"}

ASSUME RediarizeAssumption ==
    /\ MaxRequests \in Nat \ {0} /\ MaxRuns \in Nat \ {0}
    /\ MaxRetries \in Nat \ {0}
    /\ Faults \subseteq FaultKinds /\ MaxFaults \in Nat

VARIABLES
    row,    \* the columns of the job that a re-run reads or writes
    store,  \* store[n]: the labelling in object n
    msg,    \* msg[r]: the message of request r and its handler
    pc,     \* pc[w]: where worker w is in _rediarize_one()
    cur,    \* cur[w]: the request w works on
    from,   \* from[w]: current_key, the object w's re-run starts from
    old,    \* old[w]: superseded, the object w deletes at the end
    nreq,   \* requests made so far
    undone, \* artifacts that an undo handler is about to delete
    overran, \* a re-run has outlasted reclaim_idle_ms, 60 s (history)
    faults  \* failures so far

workerVars == <<pc, cur, from, old>>
vars == <<row, store, msg, pc, cur, from, old, nreq, undone, overran, faults>>

-----------------------------------------------------------------------------

LIVE == {"queued", "running"}

NULL == 0          \* no object, no request

Requests == 1 .. MaxRequests

\* The first revision, and one more for every swap and every undo.
Revisions == 1 .. 2 * MaxRequests + 1

Labelling == 0 .. MaxRequests

NoObject == MaxRequests + 1

\* names: the labelling whose labels speaker_names uses; stale:
\* diarization_updated_at is beyond its grace window.
Row == [diar : LIVE \cup {"null", "complete", "failed"}, stale : BOOLEAN,
        runs : Nat, rev : Revisions, uri : Revisions, prev : Revisions \cup {NULL},
        names : Labelling, prevNames : Labelling,
        req : Requests \cup {NULL}]

\* handler: the request handler; state: the stream entry; target, prior:
\* the payload's target_rev and the status before the claim.
Msg == [handler : {"none", "claimed", "unsent", "done"},
        state : {"none", "new", "pending", "acked"},
        tries : 0 .. MaxRetries, target : Revisions,
        prior : {"null", "complete", "failed"}]

TypeOK ==
    /\ row \in Row
    /\ store \in [Revisions -> Labelling \cup {NoObject}]
    /\ msg \in [Requests -> Msg]
    /\ pc \in [Workers -> {"idle", "claim", "read", "put", "swap", "delete",
                           "audit", "exhausted", "ack"}]
    /\ cur \in [Workers -> Requests \cup {NULL}]
    /\ from \in [Workers -> Revisions \cup {NULL}]
    /\ old \in [Workers -> Revisions \cup {NULL}]
    /\ nreq \in 0 .. MaxRequests
    /\ undone \subseteq Revisions
    /\ overran \in BOOLEAN
    /\ faults \in 0 .. MaxFaults

Init ==
    /\ row = [diar |-> "null", stale |-> FALSE, runs |-> 0, rev |-> 1, uri |-> 1,
              prev |-> NULL, names |-> 0, prevNames |-> 0,
              req |-> NULL]
    /\ store = [n \in Revisions |-> IF n = 1 THEN 0 ELSE NoObject]
    /\ msg = [r \in Requests |-> [handler |-> "none", state |-> "none", tries |-> 0,
                                  target |-> 1, prior |-> "null"]]
    /\ pc = [w \in Workers |-> "idle"]
    /\ cur = [w \in Workers |-> NULL]
    /\ from = [w \in Workers |-> NULL]
    /\ old = [w \in Workers |-> NULL]
    /\ nreq = 0
    /\ undone = {}
    /\ overran = FALSE
    /\ faults = 0

Fault(kind) ==
    /\ kind \in Faults
    /\ faults < MaxFaults
    /\ faults' = faults + 1

-----------------------------------------------------------------------------
(* asr-service: rediarize(), undo_rediarize(), the reaper.                 *)

HandlerStep(r, s, t) == msg[r].handler = s /\ msg' = [msg EXCEPT ![r].handler = t]

MayClaim == row.diar \notin LIVE /\ row.runs < MaxRuns

\* claim_rediarize(), under the row lock.
Claim ==
    LET r == nreq + 1 IN
    /\ nreq < MaxRequests
    /\ MayClaim
    /\ nreq' = r
    /\ row' = [row EXCEPT !.diar = "queued", !.runs = @ + 1, !.stale = FALSE, !.req = r]
    /\ msg' = [msg EXCEPT ![r] = [@ EXCEPT !.handler = "claimed",
                                           !.target = row.rev + 1, !.prior = row.diar]]
    /\ UNCHANGED <<store, workerVars, undone, faults, overran>>

Send(r) ==
    /\ msg[r].handler = "claimed"
    /\ msg' = [msg EXCEPT ![r].handler = "done", ![r].state = "new"]
    /\ UNCHANGED <<row, store, workerVars, nreq, undone, faults, overran>>

\* XADD raises, with or without the entry added.
SendRaises(r) ==
    /\ msg[r].handler = "claimed"
    /\ Fault("send")
    /\ \E s \in {"none", "new"} :
          msg' = [msg EXCEPT ![r].handler = "unsent", ![r].state = s]
    /\ UNCHANGED <<row, store, workerVars, nreq, undone, overran>>

\* release_rediarize_claim(): only while this request is still queued.
Release(r) ==
    /\ HandlerStep(r, "unsent", "done")
    /\ row' = IF row.diar = "queued" /\ row.req = r
              THEN [row EXCEPT !.diar = msg[r].prior, !.stale = FALSE, !.req = NULL,
                               !.runs = IF @ > 0 THEN @ - 1 ELSE 0]
              ELSE row
    /\ UNCHANGED <<store, workerVars, nreq, undone, faults, overran>>

HandlerDies(r) ==
    /\ \E s \in {"claimed", "unsent"} : HandlerStep(r, s, "done")
    /\ Fault("handler")
    /\ UNCHANGED <<row, store, workerVars, nreq, undone, overran>>

\* Mutant: the revision goes back with the labelling.
UndoneRevision(rw) == rw.rev - 1

\* The revision moves forward, so edits made on the undone labelling stay dead.
NextRevision(rw) == rw.rev + 1

\* undo_rediarize(), under the row lock.
Undo ==
    /\ row.diar \notin LIVE
    /\ row.prev # NULL
    /\ row' = [row EXCEPT !.uri = row.prev, !.prev = NULL, !.names = row.prevNames,
                          !.prevNames = 0, !.rev = NextRevision(row),
                          !.diar = "complete", !.stale = FALSE]
    /\ undone' = undone \cup {row.uri}
    /\ UNCHANGED <<store, msg, workerVars, nreq, faults, overran>>

\* The handler deletes the undone artifact afterwards (best effort).
UndoDelete(n) ==
    /\ n \in undone
    /\ undone' = undone \ {n}
    /\ store' = [store EXCEPT ![n] = NoObject] \/ UNCHANGED store
    /\ UNCHANGED <<row, msg, workerVars, nreq, faults, overran>>

Processed(r) == \E w \in Workers : cur[w] = r

\* The grace windows are longer than any run and a redelivery.
GoesStale ==
    /\ row.diar \in LIVE
    /\ ~row.stale
    /\ ~Processed(row.req)
    /\ row' = [row EXCEPT !.stale = TRUE]
    /\ UNCHANGED <<store, msg, workerVars, nreq, undone, faults, overran>>

\* Mutant: a lost message is not looked for.
ReapableRunning == row.diar = "running" /\ row.stale

\* Mutant: a re-run is failed for its status alone.
ReapableByStatus == row.diar \in LIVE

\* fail_rediarize() looks at the status and at the age again, so the scan
\* before it is not a step of its own.
Reapable == row.diar \in LIVE /\ row.stale

Reap ==
    /\ Reapable
    /\ row' = [row EXCEPT !.diar = "failed", !.stale = FALSE]
    /\ UNCHANGED <<store, msg, workerVars, nreq, undone, faults, overran>>

-----------------------------------------------------------------------------
(* asr-worker: _rediarize_one().                                           *)

Step(w, s, t) == pc[w] = s /\ pc' = [pc EXCEPT ![w] = t]

Free(w) ==
    /\ pc' = [pc EXCEPT ![w] = "idle"]
    /\ cur' = [cur EXCEPT ![w] = NULL]
    /\ from' = [from EXCEPT ![w] = NULL]
    /\ old' = [old EXCEPT ![w] = NULL]

\* A new entry, or one that XAUTOCLAIM found idle: also while another worker is
\* still at it.
Deliver(w, r) ==
    /\ Step(w, "idle", "claim")
    /\ msg[r].state \in {"new", "pending"}
    /\ overran' = (overran \/ Processed(r))
    /\ cur' = [cur EXCEPT ![w] = r]
    /\ msg' = [msg EXCEPT ![r].state = "pending"]
    /\ UNCHANGED <<row, store, from, old, nreq, undone, faults>>

\* Mutant: the claim does not name the request.
MayRunAny(r) == row.diar \in LIVE /\ row.rev = msg[r].target - 1

\* The claim is per request, from the revision the request was made for;
\* `running` can be claimed again.
MayRun(r) == row.diar \in LIVE /\ row.rev = msg[r].target - 1 /\ row.req = r

ClaimRun(w) ==
    LET r == cur[w] IN
    /\ pc[w] = "claim"
    /\ IF MayRun(r)
       THEN /\ row' = [row EXCEPT !.diar = "running", !.stale = FALSE]
            /\ from' = [from EXCEPT ![w] = row.uri]
            /\ pc' = [pc EXCEPT ![w] = "read"]
       ELSE /\ pc' = [pc EXCEPT ![w] = "ack"]
            /\ UNCHANGED <<row, from>>
    /\ UNCHANGED <<store, msg, cur, old, nreq, undone, faults, overran>>

\* _mark_rediarize_failed(): this request's re-run only.
MarkFailed(r) ==
    row' = IF row.diar \in LIVE /\ row.req = r
           THEN [row EXCEPT !.diar = "failed", !.stale = FALSE] ELSE row

ReadCurrent(w) ==
    /\ pc[w] = "read"
    /\ IF store[from[w]] # NoObject
       THEN Step(w, "read", "put") /\ UNCHANGED row
       ELSE Step(w, "read", "ack") /\ MarkFailed(cur[w])
    /\ UNCHANGED <<store, msg, cur, from, old, nreq, undone, faults, overran>>

\* A terminal kind: the audio is gone or corrupt, the diarizer fails.
RunFails(w) ==
    /\ \E s \in {"read", "put"} : Step(w, s, "ack")
    /\ MarkFailed(cur[w])
    /\ UNCHANGED <<store, msg, cur, from, old, nreq, undone, faults, overran>>

\* A retryable kind or an unhandled exception: consumer.fail(); at the cap the
\* message is dead-lettered and acknowledged.
RunRetries(w) ==
    LET r == cur[w] IN
    /\ pc[w] \in {"claim", "read", "put", "swap", "audit", "ack"}
    /\ IF msg[r].tries + 1 >= MaxRetries
       THEN /\ msg' = [msg EXCEPT ![r].tries = 0, ![r].state = "acked"]
            /\ pc' = [pc EXCEPT ![w] = "exhausted"]
            /\ UNCHANGED <<cur, from, old>>
       ELSE msg' = [msg EXCEPT ![r].tries = @ + 1] /\ Free(w)
    /\ UNCHANGED <<row, store, nreq, undone, faults, overran>>

Exhausted(w) ==
    /\ pc[w] = "exhausted"
    /\ MarkFailed(cur[w])
    /\ Free(w)
    /\ UNCHANGED <<store, msg, nreq, undone, faults, overran>>

\* The key depends on the target revision alone.
PutRevision(w) ==
    /\ Step(w, "put", "swap")
    /\ store' = [store EXCEPT ![msg[cur[w]].target] = cur[w]]
    /\ UNCHANGED <<row, msg, cur, from, old, nreq, undone, faults, overran>>

\* Under the row lock: revision and request, not the status.
MaySwap(r) == row.rev = msg[r].target - 1 /\ row.req = r

Swap(w) ==
    LET r == cur[w] IN
    /\ pc[w] = "swap"
    /\ IF MaySwap(r)
       THEN /\ row' = [row EXCEPT !.prev = row.uri, !.prevNames = row.names,
                                  !.uri = msg[r].target, !.rev = msg[r].target,
                                  !.names = r,
                                  !.diar = "complete", !.stale = FALSE]
            /\ old' = [old EXCEPT ![w] = row.prev]
            /\ pc' = [pc EXCEPT ![w] = "delete"]
       ELSE /\ pc' = [pc EXCEPT ![w] = "ack"]
            /\ UNCHANGED <<row, old>>
    /\ UNCHANGED <<store, msg, cur, from, nreq, undone, faults, overran>>

\* Mutant: the revision just replaced is deleted, not the one before it.
SupersededCurrent(w) == {from[w]}

\* Neither the new artifact nor the one it replaced.
Superseded(w) == {old[w]} \ {NULL, msg[cur[w]].target, from[w]}

DeleteSuperseded(w) ==
    /\ Step(w, "delete", "audit")
    /\ \E D \in {{}, Superseded(w)} :
          store' = [n \in Revisions |-> IF n \in D THEN NoObject ELSE store[n]]
    /\ UNCHANGED <<row, msg, cur, from, old, nreq, undone, faults, overran>>

Ack(w) ==
    /\ pc[w] \in {"audit", "ack"}
    /\ msg' = [msg EXCEPT ![cur[w]].state = "acked", ![cur[w]].tries = 0]
    /\ Free(w)
    /\ UNCHANGED <<row, store, nreq, undone, faults, overran>>

\* The worker dies and is started again.
Crash(w) ==
    /\ pc[w] # "idle"
    /\ Fault("crash")
    /\ Free(w)
    /\ UNCHANGED <<row, store, msg, nreq, undone, overran>>

-----------------------------------------------------------------------------

RunStep(w) ==
    \/ \E r \in Requests : Deliver(w, r)
    \/ ClaimRun(w) \/ ReadCurrent(w) \/ PutRevision(w) \/ Swap(w)
    \/ DeleteSuperseded(w) \/ Ack(w) \/ RunFails(w) \/ RunRetries(w) \/ Exhausted(w)

Next ==
    \/ Claim \/ Undo \/ GoesStale \/ Reap
    \/ \E n \in Revisions : UndoDelete(n)
    \/ \E r \in Requests : Send(r) \/ SendRaises(r) \/ Release(r) \/ HandlerDies(r)
    \/ \E w \in Workers : RunStep(w) \/ Crash(w)

Spec == Init /\ [][Next]_vars

\* The handler, the workers and the reaper run, and time passes.
FairSpec ==
    /\ Spec
    /\ WF_vars(\E r \in Requests : Send(r) \/ Release(r))
    /\ \A w \in Workers : WF_vars(RunStep(w))
    /\ WF_vars(GoesStale \/ Reap)

-----------------------------------------------------------------------------
(* Properties.                                                             *)

\* The labelling the row points at, and the one an undo goes back to, are
\* stored: the deletes of a worker and of an undo hit neither, in any order
\* (_rediarize_one's last step, undo_rediarize).
LabellingsExist ==
    /\ store[row.uri] # NoObject
    /\ row.prev # NULL => store[row.prev] # NoObject

\* Speaker names describe the labelling the row points at, and those kept for
\* an undo the labelling it would restore, as long as no re-run outlasts the
\* reclaim window (repository.py: rev, names and artifact "must come from the
\* same moment").
NamesFit == ~overran =>
    /\ row.names = store[row.uri]
    /\ row.prev # NULL => row.prevNames = store[row.prev]

\* A revision names one labelling for good: it never goes down, the row points
\* elsewhere only with a higher one, and while it stays what the object behind
\* it says stays too, so that edits of one labelling are never applied to
\* another (result_rev of the speaker edits).  Excepted are the contents once a
\* re-run has outlasted the reclaim window: a second delivery of the request may
\* then still write the key that is already swapped in.
RevisionNamesLabels ==
    [][/\ row'.rev >= row.rev
       /\ row'.uri # row.uri => row'.rev > row.rev
       /\ row'.rev = row.rev /\ ~overran' => store'[row'.uri] = store[row.uri]]_vars

\* A re-run fails because it is stale or because a worker at that very request
\* says so; a re-run that moved on is left alone (fail_rediarize,
\* _mark_rediarize_failed).
FailedForCause ==
    [][row.diar \in LIVE /\ row'.diar = "failed" /\ row'.req = row.req
          => row.stale \/ \E w \in Workers : cur[w] = row.req /\ pc'[w] # pc[w]]_vars

\* A re-run that was asked for ends.
RerunSettles == row.diar \in LIVE ~> row.diar \notin LIVE

=============================================================================
