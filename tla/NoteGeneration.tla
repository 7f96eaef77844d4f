---------------------------- MODULE NoteGeneration ----------------------------
(***************************************************************************)
(* A note that is written from a transcript while people edit it: the job  *)
(* note.generate on top of the queue's contract, the requests that start a *)
(* generation, the editors that save drafts, and the snapshot sweeper.     *)
(*                                                                         *)
(* There is one note.  A generation and its job have the same number; the  *)
(* numbers are given out when the snapshot is written.  created_at is the  *)
(* position of the row (field at).  A database transaction is one step.    *)
(* The model's text is abstracted to the generation that wrote it, and the *)
(* author's text to the set of edits it contains.                          *)
(***************************************************************************)
EXTENDS JobContract, Naturals, FiniteSets

CONSTANTS
    Clients,     \* browsers and devices of the people who may edit the note
    MaxRuns,     \* runs of all jobs together (bound)
    MaxPerDay,   \* MAX_REGENERATIONS_PER_DAY
    MaxEdits,    \* saves (bound)
    MaxTexts,    \* versions that add the transcript (bound)
    Faults,      \* which failures of the environment happen
    MaxFaults    \* how many of them (bound)

FaultKinds == {"crash", "request", "store", "db", "complete", "ledger", "on_dead",
               "overwrite"}

\* The jobs are the numbers 1 .. N.
ASSUME GenerationAssumption ==
    /\ Jobs \subseteq Nat \ {0} /\ IsFiniteSet(Jobs) /\ IsFiniteSet(Workers)
    /\ MaxRuns \in Nat \ {0} /\ MaxPerDay \in Nat
    /\ MaxEdits \in Nat /\ MaxTexts \in Nat /\ MaxFaults \in Nat
    /\ Faults \subseteq FaultKinds

VARIABLES
    gen,      \* gen[g]: the row of note_generations
    objects,  \* generations whose snapshot is in the transcript store
    note,     \* the row of notes and its head version
    meeting,  \* the row of note_meetings and the requests on it
    placed,   \* generations whose items are placed as 'written'
    editor,   \* editor[c]: the head version that c has loaded
    req,      \* req[c]: the request c has in flight
    h,        \* h[w]: where w is in the handler
    runs,     \* runs so far
    unpaid,   \* model calls made whose records are not in the ledger
    late,     \* a handler has written to a generation that was settled
    faults    \* failures so far

noteVars == <<note, meeting, editor, req>>
vars == <<contractVars, gen, objects, noteVars, placed, h, runs, unpaid, late, faults>>

-----------------------------------------------------------------------------
(* Types.                                                                  *)

LIVE == {"queued", "running"}
Finished == {"complete", "failed", "superseded"}

GenRow == [status : LIVE \cup Finished \cup {"absent"},
           key    : BOOLEAN,    \* snapshot_key IS NOT NULL
           at     : Nat]        \* rank of created_at

\* shown: the generation whose sections the head version has.
Head == [version : Nat, edits : SUBSET (1 .. MaxEdits),
         shown : Jobs \cup {0}]

\* open: recording, transcribing or no_audio; nobody tells them apart, so that
\* mark_no_audio() in time and sweep_stale() change nothing here.
\* bound: a job is bound.  fetching: an attach_transcript() has passed its first
\* transaction; any number of devices send them, so another one may follow for
\* ever after.  texts: transcripts in the note.  overwritten: a
\* request that had read an earlier state has written over "ready".
Meeting == [state    : {"none", "open", "ready"},
            bound    : BOOLEAN,
            fetching : BOOLEAN,
            texts    : 0 .. MaxTexts,
            overwritten : BOOLEAN]

HandlerState ==
    {"idle", "load", "read", "write", "commit", "fail", "discard",
     "raise", "done", "dead_load"}

TypeOK ==
    /\ ContractTypeOK
    /\ gen \in [Jobs -> GenRow]
    /\ objects \subseteq Jobs
    /\ note \in [status : {"absent", "draft", "cancelled", "deleted"}, head : Head]
    /\ meeting \in Meeting
    /\ placed \subseteq Jobs
    /\ editor \in [Clients -> Head]
    /\ req \in [Clients -> [pc : {"idle", "fetch", "insert"}, id : Jobs \cup {0}]]
    /\ h \in [Workers -> [pc : HandlerState, used : BOOLEAN]]
    /\ runs \in 0 .. MaxRuns
    /\ unpaid \in Nat
    /\ late \in BOOLEAN
    /\ faults \in 0 .. MaxFaults

EmptyHead == [version |-> 1, edits |-> {}, shown |-> 0]
NoMeeting == [state |-> "none", bound |-> FALSE, fetching |-> FALSE,
              texts |-> 0, overwritten |-> FALSE]
NoRequest == [pc |-> "idle", id |-> 0]
IdleHandler == [pc |-> "idle", used |-> FALSE]

Init ==
    /\ ContractInit
    /\ gen = [g \in Jobs |-> [status |-> "absent", key |-> FALSE, at |-> 0]]
    /\ objects = {}
    /\ note = [status |-> "absent", head |-> EmptyHead]
    /\ meeting = NoMeeting
    /\ placed = {}
    /\ editor = [c \in Clients |-> EmptyHead]
    /\ req = [c \in Clients |-> NoRequest]
    /\ h = [w \in Workers |-> IdleHandler]
    /\ runs = 0
    /\ unpaid = 0
    /\ late = FALSE
    /\ faults = 0

Fault(kind) ==
    /\ kind \in Faults
    /\ faults < MaxFaults
    /\ faults' = faults + 1

-----------------------------------------------------------------------------
(* Starting a generation: snapshot, row, job, in that order.               *)

Created == {g \in Jobs : gen[g].status # "absent"}

\* note_generations_live_idx: one queued or running row per note.
LiveElsewhere(g) == \E k \in Jobs \ {g} : gen[k].status \in LIVE

\* The next number nobody has used: for a row, for an object, for a request.
FreshId(g) ==
    g \in Jobs \ Created /\ g \notin objects
    /\ \A k \in Jobs : k < g => k \in Created \/ k \in objects

\* store.put() of start().
PutSnapshot(g) == FreshId(g) /\ objects' = objects \cup {g}

\* gen_repo.create() and queue.enqueue() in the caller's transaction.
Create(g) ==
    /\ gen' = [gen EXCEPT ![g] = [status |-> "queued", key |-> TRUE,
                                  at |-> 1 + Cardinality(Created)]]
    /\ Submit(g)

-----------------------------------------------------------------------------
(* Requests.                                                               *)

Draft == note.status = "draft"
Exists == note.status \in {"draft", "cancelled"}

generationVars == <<gen, objects, placed, contractVars>>
workerVars == <<h, runs, unpaid, late>>

\* start_meeting(): the note exists before there is a recording.
StartMeeting ==
    /\ note.status = "absent"
    /\ note' = [note EXCEPT !.status = "draft"]
    /\ meeting' = [NoMeeting EXCEPT !.state = "open"]
    /\ UNCHANGED <<editor, req, generationVars, workerVars, faults>>

\* create_note_from_transcript(): the note, and unless generation is off,
\* over budget or without a store, its first generation.
FromTranscript ==
    /\ note.status = "absent"
    /\ note' = [note EXCEPT !.status = "draft"]
    /\ meeting' = [NoMeeting EXCEPT !.bound = TRUE]
    /\ \/ \E g \in Jobs : PutSnapshot(g) /\ Create(g)
       \/ UNCHANGED <<gen, objects, contractVars>>
    /\ UNCHANGED <<editor, req, placed, workerVars, faults>>

\* attach_job(): the recording reached asr-service.
AttachJob ==
    /\ Exists /\ meeting.state # "none" /\ ~meeting.bound
    /\ meeting' = [meeting EXCEPT !.state = "open", !.bound = TRUE]
    /\ UNCHANGED <<note, editor, req, generationVars, workerVars, faults>>

\* mark_no_audio() leaves a meeting that is ready alone, attach_job() one that is
\* bound; but they read it without a lock, and write whatever it is by then.
OverwriteReady ==
    /\ meeting.state = "ready" /\ Fault("overwrite")
    /\ meeting' = [meeting EXCEPT !.state = "open", !.overwritten = TRUE]
    /\ UNCHANGED <<note, editor, req, generationVars, workerVars>>

\* cancel_note(), the idle draft cleanup; delete_note().  A cancelled note may
\* be deleted as well, with the same effect.  No editor can save any more.
Leave(status) ==
    /\ Draft
    /\ note' = [note EXCEPT !.status = status]
    /\ editor' = [c \in Clients |-> EmptyHead]
    /\ UNCHANGED <<meeting, req, generationVars, workerVars, faults>>

\* First transaction of regenerate(): the note is a draft made from a recording.
RegenerateCheck(c) ==
    /\ req[c].pc = "idle"
    /\ Draft /\ meeting.bound
    /\ req' = [req EXCEPT ![c].pc = "fetch"]
    /\ UNCHANGED <<note, meeting, editor, generationVars, workerVars, faults>>

\* Its second transaction, which looks at the note no more: the day's limit,
\* then the snapshot.
RegeneratePut(c) ==
    /\ req[c].pc = "fetch"
    /\ Cardinality(Created) < MaxPerDay
    /\ \E g \in Jobs : PutSnapshot(g) /\ req' = [req EXCEPT ![c] = [pc |-> "insert", id |-> g]]
    /\ UNCHANGED <<note, meeting, editor, gen, placed, contractVars, workerVars, faults>>

\* The transcript cannot be read, the limit or the budget is reached, the
\* store is down: nothing was written.
RegenerateRefused(c) ==
    /\ req[c].pc = "fetch"
    /\ req' = [req EXCEPT ![c] = NoRequest]
    /\ UNCHANGED <<note, meeting, editor, generationVars, workerVars, faults>>

\* The insert, and the 409 when a generation is live: the object stays.
RegenerateInsert(c) ==
    /\ req[c].pc = "insert"
    /\ IF LiveElsewhere(req[c].id) THEN UNCHANGED <<gen, contractVars>> ELSE Create(req[c].id)
    /\ req' = [req EXCEPT ![c] = NoRequest]
    /\ UNCHANGED <<note, meeting, editor, objects, placed, workerVars, faults>>

\* The service dies between the object and the row.
RequestDies(c) ==
    /\ req[c].pc = "insert"
    /\ Fault("request")
    /\ req' = [req EXCEPT ![c] = NoRequest]
    /\ UNCHANGED <<note, meeting, editor, generationVars, workerVars>>

\* First transaction of attach_transcript().
AttachCheck ==
    /\ Draft /\ meeting.bound /\ meeting.state = "open"
    /\ ~meeting.fetching
    /\ meeting' = [meeting EXCEPT !.fetching = TRUE]
    /\ UNCHANGED <<note, editor, req, generationVars, workerVars, faults>>

\* The transcript is appended to its section, unless it is empty.
WithTranscript(changed) ==
    /\ changed => meeting.texts < MaxTexts
    /\ note' = IF changed THEN [note EXCEPT !.head.version = @ + 1] ELSE note
    /\ meeting' = [meeting EXCEPT !.state = "ready",
                                 !.texts = IF changed THEN @ + 1 ELSE @]

\* Mutant: the state is not read again.
AttachedNever == FALSE

\* "A second device got there first."
Attached == meeting.state = "ready"

\* Its second one, under the note's lock: transcript, first generation and
\* state.  It does not ask again whether the note is a draft.  Nothing is
\* generated from silence, nor when generation is off, over budget or without a
\* store.  A generation that is live fails the insert and with it the
\* transaction; only the object stays.
AttachTranscript ==
    /\ meeting.fetching /\ Exists /\ ~Attached
    /\ \/ WithTranscript(TRUE) /\ \E g \in Jobs : PutSnapshot(g) /\ ~LiveElsewhere(g) /\ Create(g)
       \/ \E changed \in BOOLEAN : WithTranscript(changed) /\ UNCHANGED <<gen, objects, contractVars>>
       \/ /\ \E g \in Jobs : PutSnapshot(g) /\ LiveElsewhere(g)
          /\ UNCHANGED <<note, meeting, gen, contractVars>>
    /\ UNCHANGED <<editor, req, placed, workerVars, faults>>

-----------------------------------------------------------------------------
(* Editors.                                                                *)

OpenEditor(c) ==
    /\ Draft /\ editor[c] # note.head
    /\ Cardinality(note.head.edits) < MaxEdits
    /\ editor' = [editor EXCEPT ![c] = note.head]
    /\ UNCHANGED <<note, meeting, req, generationVars, workerVars, faults>>

\* Mutant: the head may have moved.
HeadIsAny(version) == TRUE

\* append_version(): the version that was expected is the head.
HeadIs(version) == note.head.version = version

\* update_draft(): what the editor has loaded, with one more edit.  A stale
\* editor gets a 409 and loads the note again; so does one that has saved,
\* before it saves more.
Save(c) ==
    /\ Draft
    /\ HeadIs(editor[c].version)
    /\ Cardinality(note.head.edits) < MaxEdits
    /\ note' = [note EXCEPT !.head =
                  [version |-> editor[c].version + 1,
                   edits   |-> editor[c].edits \cup {1 + Cardinality(note.head.edits)},
                   shown   |-> editor[c].shown]]
    /\ editor' = [editor EXCEPT ![c] = EmptyHead]
    /\ UNCHANGED <<meeting, req, generationVars, workerVars, faults>>

-----------------------------------------------------------------------------
(* handle_generate() in a run of the job, and mark_dead() in its on_dead.  *)

Goto(w, pc) == h' = [h EXCEPT ![w].pc = pc]

At(w, pc) == h[w].pc = pc

BeginRun(w, g) ==
    /\ runs < MaxRuns
    /\ Begin(w, g)
    /\ runs' = runs + 1
    /\ h' = [h EXCEPT ![w] = [pc |-> "load", used |-> FALSE]]
    /\ UNCHANGED <<gen, objects, noteVars, placed, unpaid, late, faults>>

\* gen_repo.mark(): the row's status is written whatever it was.
Mark(g, status) == gen' = [gen EXCEPT ![g].status = status]

Late(g) == late' = (late \/ gen[g].status \notin LIVE)

\* The first transaction: a note that is no longer a draft ends the run; the
\* live index fails the update when another generation of the note is live; no
\* key, no generation.
Load(w) ==
    LET g == run[w].job IN
    /\ At(w, "load")
    /\ \/ ~Draft /\ Mark(g, "superseded") /\ Late(g) /\ Goto(w, "done")
       \/ Draft /\ LiveElsewhere(g) /\ Goto(w, "raise") /\ UNCHANGED <<gen, late>>
       \/ /\ Draft /\ ~LiveElsewhere(g)
          /\ Mark(g, "running") /\ Late(g)
          /\ Goto(w, IF gen[g].key THEN "read" ELSE "fail")
    /\ UNCHANGED <<contractVars, objects, noteVars, placed, runs, unpaid, faults>>

\* The snapshot: it cannot be read, or has no turns in it.
Read(w) ==
    /\ At(w, "read")
    /\ \/ run[w].job \in objects /\ Goto(w, "write")
       \/ Goto(w, "fail")
    /\ UNCHANGED <<contractVars, gen, objects, noteVars, placed, runs, unpaid, late, faults>>

\* writer.write(): a call per window.  A failing call raises; the calls before
\* it were made, and their output is cached beside the snapshot, which only
\* spares the next run those calls.
Write(w) ==
    /\ At(w, "write")
    /\ \E pc \in {"commit", "raise"} : h' = [h EXCEPT ![w].pc = pc, ![w].used = TRUE]
    /\ unpaid' = unpaid + 1
    /\ UNCHANGED <<contractVars, gen, objects, noteVars, placed, runs, late, faults>>

\* Mutant: the note is not looked at again.
ApplyUnchecked(g, changed) ==
    note' = IF changed
            THEN [note EXCEPT !.head.version = @ + 1, !.head.shown = g]
            ELSE note

\* note_apply.apply(): under the note's lock, if it still is a draft.  The
\* sections of earlier generations go, everything else stays (the title is
\* written over the placeholder only); text that is there already makes no
\* version.
Apply(g, changed) ==
    note' = IF Draft /\ changed
            THEN [note EXCEPT !.head.version = @ + 1, !.head.shown = g]
            ELSE note

\* Mutant: the items of earlier generations stay.
SupersedeNothing(g) == placed' = placed \cup {g}

\* replace_lines() and supersede_previous().
ReplaceLines(g) == placed' = {g}

\* The last transaction of the handler: items, note and status together.
\* Output without a section has no items and leaves the note as it is.
Commit(w) ==
    LET g == run[w].job IN
    /\ At(w, "commit")
    /\ \/ ReplaceLines(g) /\ \E changed \in {TRUE, note.head.shown = 0} : Apply(g, changed)
       \/ placed' = {} /\ UNCHANGED note
    /\ Mark(g, "complete")
    /\ Late(g)
    /\ Goto(w, "discard")
    /\ UNCHANGED <<contractVars, objects, meeting, editor, req, runs, unpaid, faults>>

\* The transaction fails: the handler raises.
CommitFails(w) ==
    /\ At(w, "commit") /\ Fault("db")
    /\ Goto(w, "raise")
    /\ UNCHANGED <<contractVars, gen, objects, noteVars, placed, runs, unpaid, late>>

\* _fail(): mark, then discard.
Fail(w) ==
    /\ At(w, "fail")
    /\ Mark(run[w].job, "failed")
    /\ Late(run[w].job)
    /\ Goto(w, "discard")
    /\ UNCHANGED <<contractVars, objects, noteVars, placed, runs, unpaid, faults>>

\* Mutant: the object goes, and the row's key only with it.
ObjectFirst(w) ==
    LET g == run[w].job IN
    /\ At(w, "discard")
    /\ objects' = objects \ {g}
    /\ gen' = gen
    /\ Goto(w, "done")
    /\ UNCHANGED <<contractVars, noteVars, placed, runs, unpaid, late, faults>>

\* _discard_snapshot(): the row's key first, then the object it named.
Discard(w) ==
    LET g == run[w].job IN
    /\ At(w, "discard")
    /\ gen' = [gen EXCEPT ![g].key = FALSE]
    /\ objects' = IF gen[g].key THEN objects \ {g} ELSE objects
    /\ Goto(w, "done")
    /\ UNCHANGED <<contractVars, noteVars, placed, runs, unpaid, late, faults>>

\* The delete fails: a warning, and the run goes on.
DiscardFails(w) ==
    LET g == run[w].job IN
    /\ At(w, "discard") /\ gen[g].key /\ Fault("store")
    /\ gen' = [gen EXCEPT ![g].key = FALSE]
    /\ Goto(w, "done")
    /\ UNCHANGED <<contractVars, objects, noteVars, placed, runs, unpaid, late>>

\* Mutant: a row that is still queued is left alone.
DeadLoadRunning(w) ==
    /\ At(w, "dead_load")
    /\ Goto(w, IF gen[run[w].job].status = "running" THEN "fail" ELSE "done")
    /\ UNCHANGED <<contractVars, gen, objects, noteVars, placed, runs, unpaid, late, faults>>

\* mark_dead() reads the row in one transaction and settles it in another.
DeadLoad(w) ==
    /\ At(w, "dead_load")
    /\ Goto(w, IF gen[run[w].job].status \in LIVE THEN "fail" ELSE "done")
    /\ UNCHANGED <<contractVars, gen, objects, noteVars, placed, runs, unpaid, late, faults>>

-----------------------------------------------------------------------------
(* run_one() around the handler: the job, and the usage records.           *)

\* The records of the run are in the ledger.
Paid(w) == unpaid' = unpaid - IF h[w].used THEN 1 ELSE 0

\* _flush_standalone() at the end of every run but a complete one: what is still
\* in the memory goes to the ledger, or is lost when that write fails.
Flush(w) ==
    \/ Paid(w) /\ faults' = faults
    \/ h[w].used /\ UNCHANGED unpaid /\ Fault("ledger")

HandlerEnds(w) == h' = [h EXCEPT ![w] = IdleHandler]

\* Mutant: the records are drained and not written.
CompletesUnpaid(w) ==
    /\ At(w, "done") /\ End(w, "complete")
    /\ UNCHANGED unpaid /\ HandlerEnds(w)
    /\ UNCHANGED <<gen, objects, noteVars, placed, runs, late, faults>>

\* _complete(): usage and job in one transaction.
Completes(w) ==
    /\ At(w, "done") /\ End(w, "complete")
    /\ Paid(w) /\ HandlerEnds(w)
    /\ UNCHANGED <<gen, objects, noteVars, placed, runs, late, faults>>

\* That transaction fails after the records were drained: they are lost.
CompleteFails(w) ==
    /\ At(w, "done") /\ Running(w) /\ Fault("complete")
    /\ h' = [h EXCEPT ![w].pc = "raise", ![w].used = FALSE]
    /\ UNCHANGED <<contractVars, gen, objects, noteVars, placed, runs, unpaid, late>>

\* The probe, a model call or the database raised: tried again later.
Retries(w) ==
    /\ h[w].pc \in {"load", "raise"} /\ runs < MaxRuns
    /\ Release(w)
    /\ Flush(w) /\ HandlerEnds(w)
    /\ UNCHANGED <<gen, objects, noteVars, placed, runs, late>>

\* For the last time, or not retryable: mark_dead() follows.
GivesUp(w) ==
    /\ h[w].pc \in {"load", "raise"}
    /\ GiveUp(w)
    /\ Goto(w, "dead_load")
    /\ UNCHANGED <<gen, objects, noteVars, placed, runs, unpaid, late, faults>>

DeadTold(w) ==
    /\ At(w, "done") /\ Tell(w) /\ told'[run[w].job]
    /\ Flush(w) /\ HandlerEnds(w)
    /\ UNCHANGED <<gen, objects, noteVars, placed, runs, late>>

\* on_dead raises: logged, the job is settled anyway; what made it raise may
\* lose the records too.
DeadFails(w) ==
    /\ h[w].pc \in {"dead_load", "fail"} /\ run[w].phase = "on_dead" /\ Fault("on_dead")
    /\ Tell(w) /\ told' = told
    /\ Paid(w) \/ UNCHANGED unpaid
    /\ HandlerEnds(w)
    /\ UNCHANGED <<gen, objects, noteVars, placed, runs, late>>

\* The records go with the process.
Crash(w) ==
    /\ run[w] # Idle /\ Fault("crash")
    /\ Die(w) /\ HandlerEnds(w)
    /\ UNCHANGED <<gen, objects, noteVars, placed, runs, unpaid, late>>

\* The reaper ends a job whose last run was lost.
Buried(g) ==
    /\ runs = MaxRuns /\ job[g] = "open"
    /\ Bury /\ job' = [job EXCEPT ![g] = "dead"]
    /\ UNCHANGED <<gen, objects, noteVars, placed, h, runs, unpaid, late, faults>>

-----------------------------------------------------------------------------
(* snapshot_sweeper, a day after any start: row first, then the object;    *)
(* never the window cache.                                                 *)

StaleSnapshot(g) == gen[g].key /\ gen[g].status # "queued"

Sweep(g) ==
    /\ StaleSnapshot(g)
    /\ gen' = [gen EXCEPT ![g].key = FALSE]
    /\ objects' = objects \ {g}
    /\ UNCHANGED <<contractVars, noteVars, placed, workerVars, faults>>

\* The delete fails or the process dies: nobody knows the key any more.
SweepFails(g) ==
    /\ StaleSnapshot(g) /\ Fault("store")
    /\ gen' = [gen EXCEPT ![g].key = FALSE]
    /\ UNCHANGED <<contractVars, objects, noteVars, placed, workerVars>>

-----------------------------------------------------------------------------
HandlerStep(w) ==
    \/ Load(w) \/ Read(w) \/ Write(w) \/ Commit(w) \/ Fail(w) \/ Discard(w)
    \/ DeadLoad(w)
    \/ Completes(w) \/ Retries(w) \/ GivesUp(w) \/ DeadTold(w)

HandlerFault(w) ==
    CommitFails(w) \/ DiscardFails(w) \/ CompleteFails(w) \/ DeadFails(w) \/ Crash(w)

ClientStep(c) ==
    \/ RegenerateCheck(c) \/ RegeneratePut(c) \/ RegenerateRefused(c)
    \/ RegenerateInsert(c) \/ RequestDies(c)
    \/ OpenEditor(c) \/ Save(c)

Next ==
    \/ StartMeeting \/ FromTranscript \/ AttachJob
    \/ OverwriteReady \/ AttachCheck \/ AttachTranscript
    \/ Leave("cancelled") \/ Leave("deleted")
    \/ \E c \in Clients : ClientStep(c)
    \/ \E w \in Workers : HandlerStep(w) \/ HandlerFault(w) \/ \E g \in Jobs : BeginRun(w, g)
    \/ \E g \in Jobs : Buried(g) \/ Sweep(g) \/ SweepFails(g)

Spec == Init /\ [][Next]_vars

-----------------------------------------------------------------------------
(* Properties.                                                             *)

\* A row that names a snapshot has one: start() writes the object before the
\* row, and every discard clears the row before it deletes the object.  A
\* retry would otherwise turn a good transcript into snapshot_unreadable.
SnapshotBacked == \A g \in Jobs : gen[g].key => g \in objects

\* Whoever writes a version, nothing the others wrote is undone: no edit that
\* was saved disappears, and the generated sections change only by the commit
\* of a generation.
NothingReverted ==
    [][/\ note.head.edits \subseteq note'.head.edits
       /\ note'.head.shown # note.head.shown => placed' = {note'.head.shown}]_vars

\* A worker adds no version to a note that was cancelled or deleted while the
\* model was writing; only attach_transcript(), which does not ask again, may.
GoneIsLeftAlone ==
    [][note.status \in {"cancelled", "deleted"} =>
          note'.head = note.head \/ meeting'.state # meeting.state]_vars

\* However many devices report the end of a recording, its transcript is in the
\* note once, unless a request that had read an earlier state wrote over
\* "ready" (attach_transcript(): "A second device got there first").
TranscriptOnce == meeting.texts > 1 => meeting.overwritten

\* A model call is in the ledger or in the memory of a worker that will write
\* it: a run that fails, parks or dies in on_dead pays too ("still a cost",
\* run_one()), and a call goes missing only where a process dies or a database
\* write fails, no more than one run's calls each time.
UsageKept ==
    unpaid - Cardinality({w \in Workers : h[w].used}) \in 0 .. faults

CompleteRuns == {g \in Jobs : gen[g].status = "complete"}

\* "The items of the newest run replace the older run's" (regenerate()): no
\* items are placed as written that are older than a complete run, which is
\* the one items_for_note(current_only) looks for, unless a run came back to a
\* generation that was settled.
NewestShownInTime ==
    late \/ \A g \in placed, k \in CompleteRuns : gen[k].at <= gen[g].at

\* The job is over and on_dead was not called, or did not get through.
Untold(g) == job[g] \in {"dead", "failed"} /\ ~told[g]

\* A live generation blocks every later one.  Unless a run came back to a
\* settled one, its job is open, or the job's end has not reached the handler:
\* on_dead is still to finish, or did not get through.
LiveIsServed ==
    \A g \in Jobs : gen[g].status \in LIVE => late \/ job[g] = "open" \/ Untold(g)

=============================================================================
