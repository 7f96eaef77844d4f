------------------------------- MODULE NoteMove -------------------------------
(***************************************************************************)
(* A note that moves between workspaces: move_note_to_workspace() re-parents *)
(* its rows in one transaction and queues note.rehome_media, which then    *)
(* brings the encrypted objects after them, on top of the queue's contract. *)
(*                                                                         *)
(* There is one note with a recording that was re-labelled once: its audio, *)
(* the original transcript (kept for an undo) and the re-run's transcript, *)
(* which the row names and which also has a derived key.  A second re-run  *)
(* may follow it.  A key is an object and the workspace in whose segment   *)
(* it is, with whose secret it is sealed.  Move number j queues job j.  By *)
(* the contract the runs of a job may overlap.                             *)
(***************************************************************************)
EXTENDS JobContract, Naturals, Sequences

CONSTANTS
    Workspaces,
    Home,                   \* where the note is created
    Nowhere,
    MaxRuns                 \* runs of all jobs together (bound)

ASSUME MoveAssumption ==
    /\ Home \in Workspaces /\ Nowhere \notin Workspaces
    /\ Jobs \subseteq Nat \ {0}
    /\ MaxRuns \in Nat \ {0}

VARIABLES
    note,      \* the row of notes: its workspace and media_state
    rows,      \* the URI columns: the object and workspace each one names
    copies,    \* the keys under which there is an object
    stub,      \* note_relocations: where the note went from each workspace
    move,      \* move[j]: from and to of move number j
    h,         \* h[w]: the handler of w
    runs,      \* runs so far
    disturbed  \* something happened that the re-homing does not reckon with

mediaVars == <<rows, copies>>
handlerVars == <<h, runs>>
vars == <<contractVars, note, mediaVars, stub, move, handlerVars, disturbed>>

-----------------------------------------------------------------------------
(* Types.                                                                  *)

Columns == {"audio", "previous", "result"}
Objects == {"audio", "original", "rerun", "second"}
Key == [obj : Objects, ws : Workspaces]
NoUri == [obj |-> "none", ws |-> Nowhere]

\* An object to re-home and the column that names it, or none (derived key).
Item == [col : Columns \cup {"none"}, obj : Objects, ws : Workspaces]

NoteRow == [ws : Workspaces, media : {"ready", "rehoming", "failed"}]

TypeOK ==
    /\ ContractTypeOK
    /\ note \in NoteRow
    /\ rows \in [Columns -> Key \cup {NoUri}]
    /\ copies \subseteq Key
    /\ stub \in [Workspaces -> Workspaces \cup {Nowhere}]
    /\ move \in [Jobs -> [from : Workspaces, to : Workspaces] \cup {NoUri}]
    /\ h \in [Workers -> [pc : {"idle", "plan", "put", "point", "delete", "audit", "dead"},
                          left : Seq(Item), old : BOOLEAN]]
    /\ runs \in 0 .. MaxRuns
    /\ disturbed \in BOOLEAN

At(obj, ws) == [obj |-> obj, ws |-> ws]
IdleHandler == [pc |-> "idle", left |-> << >>, old |-> FALSE]

Init ==
    /\ ContractInit
    /\ note = [ws |-> Home, media |-> "ready"]
    /\ rows = [c \in Columns |->
                 CASE c = "audio"    -> At("audio", Home)
                   [] c = "previous" -> At("original", Home)
                   [] c = "result"   -> At("rerun", Home)]
    /\ copies = {At(o, Home) : o \in {"audio", "original", "rerun"}}
    /\ stub = [ws \in Workspaces |-> Nowhere]
    /\ move = [j \in Jobs |-> NoUri]
    /\ h = [w \in Workers |-> IdleHandler]
    /\ runs = 0
    /\ disturbed = FALSE

-----------------------------------------------------------------------------
(* People.                                                                 *)

\* Mutant: the stub that points back stays.
StubsKept(t) == [stub EXCEPT ![note.ws] = t]

\* A stub where the note leaves; moving back clears the one that pointed here.
Stubs(t) == [stub EXCEPT ![note.ws] = t, ![t] = Nowhere]

\* "The last move's media is still on its way; moving again would race that
\* job."
MediaSettled == note.media # "rehoming"

\* A run that has the objects in hand, or will have once it has planned.
AtWork(w) == h[w].pc \in {"put", "point", "delete"}
Working(w) == AtWork(w) \/ h[w].pc = "plan"

\* move_note_to_workspace(), which repeats the checks of the requests before
\* it: rows, media state, job and stub in one transaction.
Move(j, t) ==
    /\ t # note.ws
    /\ MediaSettled
    /\ \A i \in Jobs : i < j => job[i] # "absent"
    /\ Submit(j)
    /\ note' = [ws |-> t, media |-> "rehoming"]
    /\ move' = [move EXCEPT ![j] = [from |-> note.ws, to |-> t]]
    /\ stub' = Stubs(t)
    /\ disturbed' = (disturbed \/ note.media = "failed" \/ \E w \in Workers : Working(w))
    /\ UNCHANGED <<mediaVars, handlerVars>>

\* A change of the transcript's columns that no plan in hand knows of.
Relabelled(result, previous) ==
    /\ rows' = [rows EXCEPT !["result"] = result, !["previous"] = previous]
    /\ disturbed' = (disturbed \/ \E w \in Workers : AtWork(w))
    /\ UNCHANGED <<contractVars, note, stub, move, handlerVars>>

\* undo_rediarize() of asr-service, which asks for a role on the note and not
\* for its media: the row, then the undone object.
Undo ==
    /\ rows["previous"] # NoUri
    /\ Relabelled(rows["previous"], NoUri)
    /\ copies' \in {copies, copies \ {rows["result"]}}

\* A second re-run, _rediarize_one() of asr-worker, whose request asks for no
\* media state either: it reads the recording and the transcript with the
\* workspace's secret, puts its own under the derived key, swaps it in and then
\* deletes what is superseded.  A move is refused from the request to the swap.
\* One second re-run is there at a time (bound).
Rerun ==
    LET new == At("second", note.ws) IN
    /\ rows["result"].ws = note.ws
    /\ {At("audio", note.ws), rows["result"]} \subseteq copies
    /\ \A k \in copies \cup {rows[c] : c \in Columns} : k.obj # "second"
    /\ Relabelled(new, rows["result"])
    /\ copies' \in {copies \cup {new}, (copies \cup {new}) \ {rows["previous"]}}

-----------------------------------------------------------------------------
(* handle_rehome() in a run of the job.                                    *)

From(w) == move[run[w].job].from
To(w) == move[run[w].job].to

\* A connection of the job's workspace sees the note and its rows there only.
Here(w) == note.ws = To(w)

\* The run is for the last move.
InTime(j) == \A i \in Jobs : i > j => job[i] = "absent"

BeginRun(w, j) ==
    /\ runs < MaxRuns
    /\ Begin(w, j)
    /\ runs' = runs + 1
    /\ h' = [h EXCEPT ![w] = [IdleHandler EXCEPT !.pc = "plan"]]
    /\ disturbed' = (disturbed \/ ~InTime(j))
    /\ UNCHANGED <<note, mediaVars, stub, move>>

Named(c) == IF rows[c] = NoUri THEN << >>
            ELSE <<[col |-> c, obj |-> rows[c].obj, ws |-> rows[c].ws]>>

\* plan(): the derived keys of the re-runs, the previous transcript, the audio,
\* and the current transcript last.
Planned(w) ==
    <<[col |-> "none", obj |-> "rerun", ws |-> From(w)],
      [col |-> "none", obj |-> "second", ws |-> From(w)]>>
      \o Named("previous") \o Named("audio") \o Named("result")

\* A note that moved on belongs to the newer move.
Plan(w) ==
    /\ h[w].pc = "plan"
    /\ h' = IF Here(w) THEN [h EXCEPT ![w].pc = "put", ![w].left = Planned(w)]
            ELSE [h EXCEPT ![w].pc = "audit"]
    /\ UNCHANGED <<contractVars, note, mediaVars, stub, move, runs, disturbed>>

NextItem(w) == h' = [h EXCEPT ![w].pc = "put", ![w].left = Tail(@)]

\* Mutant: the write is taken for done.
WrittenNot(w, item) == copies

\* The object under the new key: written there, or found there.
Written(w, item) == copies \cup {At(item.obj, To(w))}

\* rehome_one(), up to the verification: nothing to do for a key that is not
\* under the old workspace or an object that is in neither.
Put(w) ==
    LET item == Head(h[w].left)
        old  == At(item.obj, From(w)) \in copies
    IN
    /\ h[w].pc = "put" /\ h[w].left # << >>
    /\ IF item.ws # From(w) \/ (~old /\ At(item.obj, To(w)) \notin copies)
       THEN copies' = copies /\ NextItem(w)
       ELSE /\ copies' = Written(w, item)
            /\ h' = [h EXCEPT ![w].pc = "point", ![w].old = old]
    /\ UNCHANGED <<contractVars, note, rows, stub, move, runs, disturbed>>

\* Mutant: the row is left where it is.
PointedNot(w, item) == rows

\* _point_row_at(): whatever the column names by now.
Pointed(w, item) ==
    IF item.col # "none" /\ Here(w) /\ rows[item.col] # NoUri
    THEN [rows EXCEPT ![item.col] = At(item.obj, To(w))] ELSE rows

Point(w) ==
    /\ h[w].pc = "point"
    /\ rows' = Pointed(w, Head(h[w].left))
    /\ IF h[w].old THEN h' = [h EXCEPT ![w].pc = "delete"] ELSE NextItem(w)
    /\ UNCHANGED <<contractVars, note, copies, stub, move, runs, disturbed>>

DeleteOld(w) ==
    /\ h[w].pc = "delete"
    /\ copies' = copies \ {At(Head(h[w].left).obj, From(w))}
    /\ NextItem(w)
    /\ UNCHANGED <<contractVars, note, rows, stub, move, runs, disturbed>>

\* The last object is home.
Ready(w) ==
    /\ h[w].pc = "put" /\ h[w].left = << >>
    /\ note' = IF Here(w) THEN [note EXCEPT !.media = "ready"] ELSE note
    /\ h' = [h EXCEPT ![w].pc = "audit"]
    /\ UNCHANGED <<contractVars, mediaVars, stub, move, runs, disturbed>>

-----------------------------------------------------------------------------
(* run_one() around it.                                                    *)

HandlerEnds(w) == h' = [h EXCEPT ![w] = IdleHandler]

Completes(w) ==
    /\ h[w].pc = "audit"
    /\ End(w, "complete") /\ HandlerEnds(w)
    /\ UNCHANGED <<note, mediaVars, stub, move, runs, disturbed>>

\* The store, the database or the audit writer raises: tried again, or given up.
Retries(w) ==
    /\ h[w].pc \notin {"idle", "dead"} /\ runs < MaxRuns
    /\ Release(w) /\ HandlerEnds(w)
    /\ UNCHANGED <<note, mediaVars, stub, move, runs, disturbed>>

GivesUp(w) ==
    /\ h[w].pc \notin {"idle", "dead"}
    /\ GiveUp(w)
    /\ h' = [h EXCEPT ![w] = [IdleHandler EXCEPT !.pc = "dead"]]
    /\ UNCHANGED <<note, mediaVars, stub, move, runs, disturbed>>

\* Mutant: the note is left as it is.
DeadUnmarked(w) == note

\* mark_failed().
DeadMarked(w) ==
    IF Here(w) /\ note.media = "rehoming" THEN [note EXCEPT !.media = "failed"] ELSE note

\* on_dead, which may raise before or after the row: that is logged.
MarkFailed(w) ==
    /\ h[w].pc = "dead"
    /\ Tell(w) /\ HandlerEnds(w)
    /\ note' \in {DeadMarked(w)} \cup IF told'[run[w].job] THEN {} ELSE {note}
    /\ UNCHANGED <<mediaVars, stub, move, runs, disturbed>>

Crash(w) ==
    /\ run[w] # Idle
    /\ Die(w) /\ HandlerEnds(w)
    /\ UNCHANGED <<note, mediaVars, stub, move, runs, disturbed>>

\* The reaper ends a job whose last run was lost.
Buried(j) ==
    /\ runs = MaxRuns /\ job[j] = "open"
    /\ Bury /\ job' = [job EXCEPT ![j] = "dead"]
    /\ UNCHANGED <<note, mediaVars, stub, move, handlerVars, disturbed>>

-----------------------------------------------------------------------------
People ==
    \/ \E t \in Workspaces, j \in Jobs : Move(j, t)
    \/ Undo \/ Rerun

Worker(w) ==
    \/ \E j \in Jobs : BeginRun(w, j)
    \/ Plan(w) \/ Put(w) \/ Point(w) \/ DeleteOld(w) \/ Ready(w)
    \/ Completes(w) \/ Retries(w) \/ GivesUp(w) \/ MarkFailed(w) \/ Crash(w)

Next == People \/ (\E w \in Workers : Worker(w)) \/ \E j \in Jobs : Buried(j)

Spec == Init /\ [][Next]_vars

-----------------------------------------------------------------------------
(* Properties.                                                             *)

\* "When the last object is home the note's media_state turns ready and the
\* transcript opens" (rehome_media.py): what the rows of a ready note name is
\* there, in the note's own workspace, whose key opens it, however many runs of
\* the job overlap and wherever an undo or a re-run comes between them.  Except:
\* an undo or a re-run while a run has a plan in hand; a move that starts from
\* failed media or while a run is at work; a run for a move that is over.
HomeUndisturbed ==
    ~disturbed /\ note.media = "ready" =>
        \A c \in Columns : rows[c] # NoUri => rows[c].ws = note.ws /\ rows[c] \in copies

\* "At no point are there zero copies": whatever crashes, fails, is tried again
\* or runs twice, every object that a row names is somewhere, with the same
\* exceptions.
CopyRemains ==
    disturbed \/ \A c \in Columns :
        rows[c] # NoUri => \E k \in copies : k.obj = rows[c].obj

\* Whoever opens an old link finds the note: from every workspace it left the
\* stubs lead to where it is, where there is none.  A stub points to where the
\* note is or to where it was left by a later move, so no chain of them turns
\* in a circle or ends anywhere else (Stubs, and the stub that moving back
\* clears).
StubsLead ==
    /\ stub[note.ws] = Nowhere
    /\ \E left \in [Workspaces -> Jobs \cup {0}] :
          \A ws \in Workspaces : stub[ws] # Nowhere =>
              \/ stub[ws] = note.ws
              \/ stub[stub[ws]] # Nowhere /\ left[ws] < left[stub[ws]]

\* A note whose media are on their way refuses moves and erasures, so somebody
\* must get to it: the job of its last move is still open, or it was given up
\* and its end was never told to the handler (the reaper's dead jobs, an
\* on_dead that failed).
RehomingIsServed ==
    note.media = "rehoming" =>
        \E j \in Jobs :
            /\ \A i \in Jobs : i > j => job[i] = "absent"
            /\ job[j] = "open" \/ (job[j] \in {"failed", "dead"} /\ ~told[j])

=============================================================================
