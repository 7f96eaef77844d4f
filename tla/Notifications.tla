---------------------------- MODULE Notifications ----------------------------
(***************************************************************************)
(* notification-service: facts arrive on a Redis stream, are materialised  *)
(* as rows with an outbox, and leave as mails, one by one or in a daily    *)
(* digest.                                                                 *)
(*                                                                         *)
(* There is one recipient and one category, with or without an e-mail      *)
(* template, that a digest may hold.  The in-app channel is the row        *)
(* itself.  A delivery worker or digest runner                             *)
(* keeps one transaction open over all it mails: what it has written so    *)
(* far is in tx or dig and reaches the tables when it commits.             *)
(***************************************************************************)
EXTENDS Naturals, FiniteSets

CONSTANTS
    Events, Consumers, Workers, Runners,
    RateCap,            \* rate_cap_per_category
    MaxRetries,         \* ingest_max_retries
    MaxAttempts,        \* delivery_max_attempts
    MaxDays,            \* days (bound)
    MaxFaults           \* exceptions and deaths of a process (bound)

ASSUME NotificationsAssumption ==
    /\ RateCap \in Nat /\ MaxDays \in Nat \ {0} /\ MaxFaults \in Nat
    /\ MaxRetries \in Nat \ {0} /\ MaxAttempts \in Nat \ {0}

VARIABLES
    stream,     \* stream[e]: the entry of e and its retry counter
    bad,        \* entries that do not decode
    cons,       \* cons[k]: what consumer k is doing
    cap,        \* the recipient's counter in Redis
    own,        \* events with a row of their own (dedupe_key)
    folded,     \* events folded into the coalescing row
    outbox,     \* outbox[e]: the e-mail row of e's notification
    letters,    \* audit.notification_dead_letters
    address,    \* the recipient is a member and has an address
    template,   \* the category has an e-mail template (catalog.py)
    tx,         \* tx[w]: what worker w's transaction did to each row it locked
    dig,        \* dig[q]: the transaction of digest runner q
    day, claimed,               \* today; notification_digest_progress
    mails,      \* mails[e]: mails that carried e
    undone,     \* events mailed or given up by what was undone or overlapped (history)
    unsure,     \* events whose mail was taken by a send that raised (history)
    faults

streamVars == <<stream, bad, cons, cap>>
rowVars == <<own, folded, outbox, letters>>
whoVars == <<address, template>>
digestVars == <<dig, day, claimed>>
mailVars == <<mails, undone, unsure>>
vars == <<streamVars, rowVars, whoVars, tx, digestVars, mailVars, faults>>

-----------------------------------------------------------------------------
(* Types.                                                                  *)

Days == 1 .. MaxDays
Modes == {"immediate", "digest", "off"}
Statuses == {"none", "pending", "sent", "dead", "off", "deferred", "digested"}
Verdicts == {"none", "todo", "sent", "retry", "dead"}

\* born: the day the row was written; fresh: less than a day ago.
OutboxRow == [st : Statuses, tries : 0 .. MaxAttempts, due : BOOLEAN,
              born : 0 .. MaxDays, fresh : BOOLEAN]
NoRow == [st |-> "none", tries |-> 0, due |-> FALSE, born |-> 0, fresh |-> FALSE]

NoConsumer == [pc |-> "idle", e |-> {}]
NoDigest == [pc |-> "idle", day |-> 0, items |-> {}]

\* A mail counter tells none, one and several apart.
Counted(n) == IF n = 2 THEN 2 ELSE n + 1

TypeOK ==
    /\ stream \in [Events -> [st : {"absent", "pending", "acked", "dlq"},
                              tries : 0 .. MaxRetries]]
    /\ bad \subseteq Events
    /\ cons \in [Consumers -> [pc : {"idle", "count", "write", "fold", "after", "letter", "down"},
                               e : SUBSET Events]]
    /\ cap \in 0 .. RateCap + 1
    /\ own \subseteq Events /\ folded \subseteq Events /\ letters \subseteq Events
    /\ outbox \in [Events -> OutboxRow]
    /\ address \in BOOLEAN /\ template \in BOOLEAN
    /\ tx \in [Workers -> [Events -> Verdicts]]
    /\ dig \in [Runners -> [pc : {"idle", "claimed", "answered"}, day : 0 .. MaxDays,
                            items : SUBSET Events]]
    /\ day \in Days /\ claimed \subseteq Days
    /\ mails \in [Events -> 0 .. 2]
    /\ undone \subseteq Events /\ unsure \subseteq Events
    /\ faults \in 0 .. MaxFaults

Init ==
    /\ stream = [e \in Events |-> [st |-> "absent", tries |-> 0]]
    /\ bad = {}
    /\ cons = [k \in Consumers |-> NoConsumer]
    /\ cap = 0
    /\ own = {} /\ folded = {} /\ letters = {}
    /\ outbox = [e \in Events |-> NoRow]
    /\ address = TRUE /\ template \in BOOLEAN
    /\ tx = [w \in Workers |-> [e \in Events |-> "none"]]
    /\ dig = [q \in Runners |-> NoDigest]
    /\ day = 1 /\ claimed = {}
    /\ mails = [e \in Events |-> 0]
    /\ undone = {} /\ unsure = {}
    /\ faults = 0

-----------------------------------------------------------------------------
(* Producers, the recipient and time.                                      *)

\* publish_event(): fire and forget; a lost one was never emitted.
Emit(e) ==
    /\ stream[e].st = "absent"
    /\ stream' = [stream EXCEPT ![e].st = "pending"]
    /\ bad' \in {bad, bad \cup {e}}
    /\ UNCHANGED <<cons, cap, rowVars, whoVars, tx, digestVars, mailVars, faults>>

\* The recipient leaves the workspace: profile_of_subs() has no row for them.
Leaves ==
    /\ address /\ address' = FALSE
    /\ UNCHANGED <<streamVars, rowVars, template, tx, digestVars, mailVars, faults>>

\* The window of the counter ends: its key expires.
WindowEnds ==
    /\ cap # 0 /\ cap' = 0
    /\ UNCHANGED <<stream, bad, cons, rowVars, whoVars, tx, digestVars, mailVars, faults>>

\* next_attempt_at passes: a backoff or the quiet hours end.
BecomesDue(e) ==
    /\ outbox[e].st = "pending" /\ ~outbox[e].due
    /\ outbox' = [outbox EXCEPT ![e].due = TRUE]
    /\ UNCHANGED <<streamVars, own, folded, letters, whoVars, tx, digestVars, mailVars, faults>>

NextDay ==
    /\ day < MaxDays /\ day' = day + 1
    /\ UNCHANGED <<streamVars, rowVars, whoVars, tx, dig, claimed, mailVars, faults>>

\* A day after it was written a row falls out of what a digest looks at.
Ages(e) ==
    /\ outbox[e].fresh /\ outbox[e].born < day
    /\ outbox' = [outbox EXCEPT ![e].fresh = FALSE]
    /\ UNCHANGED <<streamVars, own, folded, letters, whoVars, tx, digestVars, mailVars, faults>>

-----------------------------------------------------------------------------
(* Ingest: run_forever(), handle_message() and materialize().              *)

Goes(k, pc) == cons' = [cons EXCEPT ![k].pc = pc]
IsAt(k, pc, e) == cons[k].pc = pc /\ cons[k].e = {e}
Rests(k) == cons' = [cons EXCEPT ![k] = NoConsumer]

\* Mutant: only new entries are read.
DeliverableNew(e) == stream[e].st = "pending" /\ stream[e].tries = 0

\* XREADGROUP, or XAUTOCLAIM of an entry somebody has held too long.
Deliverable(e) == stream[e].st = "pending"

\* parse_event() tells at once whether it decodes.
Take(k, e) ==
    /\ cons[k].pc = "idle"
    /\ Deliverable(e)
    /\ cons' = [cons EXCEPT ![k] = [pc |-> IF e \in bad THEN "letter" ELSE "count",
                                    e |-> {e}]]
    /\ UNCHANGED <<stream, bad, cap, rowVars, whoVars, tx, digestVars, mailVars, faults>>

\* filter_to_tenant_members() leaves nobody to tell: no row is written and
\* nothing is counted.
TellsNobody(k, e) ==
    /\ IsAt(k, "count", e) /\ ~address
    /\ Goes(k, "after")
    /\ UNCHANGED <<stream, bad, cap, rowVars, whoVars, tx, digestVars, mailVars, faults>>

\* _over_rate_cap(): an INCR that no rollback takes back.
Count(k, e) ==
    /\ IsAt(k, "count", e) /\ address
    /\ cap' = IF cap > RateCap THEN cap ELSE cap + 1
    /\ Goes(k, IF cap >= RateCap THEN "fold" ELSE "write")
    /\ UNCHANGED <<stream, bad, rowVars, whoVars, tx, digestVars, mailVars, faults>>

\* resolve(): suppressed, left to the digest, or pending, and then due now or
\* when the quiet hours end.  The preference m is read now; the recipient may
\* change it at any time.
Decision(m) ==
    LET row(st, due) == [st |-> st, tries |-> 0, due |-> due, born |-> day, fresh |-> TRUE] IN
    IF m = "off" \/ ~address THEN {row("off", FALSE)}
    ELSE IF m = "digest" THEN {row("deferred", FALSE)}
    ELSE {row("pending", TRUE), row("pending", FALSE)}

\* insert_notification() with its outbox row; a redelivery meets its dedupe_key.
\* user_email() looks again: the recipient may have left since.
Write(k, e) ==
    /\ IsAt(k, "write", e)
    /\ own' = own \cup {e}
    /\ IF e \in own THEN UNCHANGED outbox
       ELSE \E m \in Modes : \E r \in Decision(m) : outbox' = [outbox EXCEPT ![e] = r]
    /\ Goes(k, "after")
    /\ UNCHANGED <<stream, bad, cap, folded, letters, whoVars, tx, digestVars, mailVars, faults>>

\* _coalesce(): one row for the storm, inserted or refreshed, without an outbox.
Fold(k, e) ==
    /\ IsAt(k, "fold", e)
    /\ folded' = folded \cup {e}
    /\ Goes(k, "after")
    /\ UNCHANGED <<stream, bad, cap, own, outbox, letters, whoVars, tx, digestVars, mailVars, faults>>

\* Mutant: the entry is acknowledged on sight.
AckableAny(k, e) == cons[k].e = {e}

\* The entry is acknowledged once its transaction has committed.
Ackable(k, e) == IsAt(k, "after", e)

Ack(k, e) ==
    /\ Ackable(k, e)
    /\ stream' = [stream EXCEPT ![e].st = IF @ = "dlq" THEN @ ELSE "acked"]
    /\ Rests(k)
    /\ UNCHANGED <<bad, cap, rowVars, whoVars, tx, digestVars, mailVars, faults>>

Exhausted(e) == stream[e].tries + 1 >= MaxRetries

\* _bump_attempts(): past the cap only the comparison with it matters.
Bumped(e) == [stream[e] EXCEPT !.tries = IF @ < MaxRetries THEN @ + 1 ELSE @]

\* Any exception before or after the commit.
Excepts(k, e) ==
    /\ faults < MaxFaults /\ faults' = faults + 1
    /\ cons[k].e = {e} /\ cons[k].pc \in {"count", "write", "fold", "after"}
    /\ UNCHANGED <<bad, cap, rowVars, whoVars, tx, digestVars, mailVars>>

\* What fail() makes of the entry: one more attempt and, at the cap, the
\* dead-letter stream.
FailedEntry(e) ==
    IF stream[e].st # "pending" THEN stream[e]
    ELSE IF Exhausted(e) THEN [Bumped(e) EXCEPT !.st = "dlq"] ELSE Bumped(e)

Fail(k, e) ==
    /\ Excepts(k, e)
    /\ stream' = [stream EXCEPT ![e] = FailedEntry(e)]
    /\ Rests(k)

Stops(k) == cons' = [cons EXCEPT ![k] = [pc |-> "down", e |-> {}]]

\* fail() raises in its turn, before or after any of its writes: the exception
\* leaves run_forever(), whose task nobody watches.
FailRaises(k, e) ==
    /\ Excepts(k, e)
    /\ \E r \in {stream[e], Bumped(e), FailedEntry(e)} : stream' = [stream EXCEPT ![e] = r]
    /\ Stops(k)

\* An entry that does not decode is written down and acknowledged.
Reject(k, e) ==
    /\ IsAt(k, "letter", e)
    /\ letters' = letters \cup {e}
    /\ stream' = [stream EXCEPT ![e].st = "acked"]
    /\ Rests(k)
    /\ UNCHANGED <<bad, cap, own, folded, outbox, whoVars, tx, digestVars, mailVars, faults>>

\* The letter cannot be written, or the ack() after it raises, done or not.
RejectFails(k, e) ==
    /\ faults < MaxFaults /\ faults' = faults + 1
    /\ IsAt(k, "letter", e)
    /\ letters' \in {letters, letters \cup {e}}
    /\ \/ UNCHANGED stream
       \/ e \in letters' /\ stream' = [stream EXCEPT ![e].st = "acked"]
    /\ Stops(k)
    /\ UNCHANGED <<bad, cap, own, folded, outbox, whoVars, tx, digestVars, mailVars>>

\* The process dies and is started again: any transaction is undone, the
\* entry stays pending.
ConsumerRestarts(k) ==
    /\ faults < MaxFaults /\ faults' = faults + 1
    /\ cons[k].pc # "idle"
    /\ Rests(k)
    /\ UNCHANGED <<stream, bad, cap, rowVars, whoVars, tx, digestVars, mailVars>>

-----------------------------------------------------------------------------
(* Delivery: deliver_once().                                               *)

\* Mutant: no SKIP LOCKED.
LockedByNobody(e) == FALSE

Locked(e) == \E w \in Workers : tx[w][e] # "none"

\* Mutant: a row that is to be tried again is not found.
DueUntried == {e \in Events : outbox[e] = [outbox[e] EXCEPT !.st = "pending", !.tries = 0,
                                                            !.due = TRUE] /\ ~Locked(e)}

\* claim_due_outbox()
Due == {e \in Events : outbox[e].st = "pending" /\ outbox[e].due /\ ~Locked(e)}

Working(w) == \E e \in Events : tx[w][e] # "none"

Claim(w) ==
    /\ ~Working(w) /\ Due # {}
    /\ tx' = [tx EXCEPT ![w] = [e \in Events |-> IF e \in Due THEN "todo" ELSE "none"]]
    /\ UNCHANGED <<streamVars, rowVars, whoVars, digestVars, mailVars, faults>>

Verdict(w, e, v) ==
    /\ tx[w][e] = "todo"
    /\ tx' = [tx EXCEPT ![w][e] = v]
    /\ UNCHANGED <<streamVars, own, folded, outbox, whoVars, digestVars, undone, faults>>

MailedWith(S) == [e \in Events |-> IF e \in S THEN Counted(mails[e]) ELSE mails[e]]

\* provider.send() raises, on a timeout too: the relay may have taken the mail.
MaybeMailed(S) ==
    \/ UNCHANGED <<mails, unsure>>
    \/ mails' = MailedWith(S) /\ unsure' = unsure \cup S

\* Nobody to mail, or no template to mail: dead, and nothing is written down.
NothingToSend(w, e) ==
    /\ ~address \/ ~template
    /\ Verdict(w, e, "dead")
    /\ UNCHANGED <<letters, mails, unsure>>

Sends(w, e) ==
    /\ address /\ template
    /\ Verdict(w, e, "sent")
    /\ mails' = MailedWith({e})
    /\ UNCHANGED <<letters, unsure>>

LastTry(e) == outbox[e].tries + 1 >= MaxAttempts

SendsLater(w, e) ==
    /\ address /\ template /\ ~LastTry(e)
    /\ Verdict(w, e, "retry")
    /\ MaybeMailed({e})
    /\ UNCHANGED letters

\* Mutant: the dead letter is not written.
LettersKept(e) == letters

\* _dead_letter() commits on a connection of its own.
LettersWith(e) == letters \cup {e}

\* A refusal for good (a 5xx), or an exception at the last try.
GivesUp(w, e) ==
    /\ address /\ template
    /\ Verdict(w, e, "dead")
    /\ letters' = LettersWith(e)
    /\ UNCHANGED <<mails, unsure>> \/ (LastTry(e) /\ MaybeMailed({e}))

\* mark_outbox_sent(), mark_outbox_retry() and mark_outbox_dead()
Settled(e, v) ==
    [outbox[e] EXCEPT !.st = IF v = "retry" THEN "pending" ELSE v,
                      !.tries = @ + 1, !.due = FALSE]

Commit(w) ==
    /\ Working(w) /\ \A e \in Events : tx[w][e] # "todo"
    /\ outbox' = [e \in Events |-> IF tx[w][e] = "none" THEN outbox[e]
                                   ELSE Settled(e, tx[w][e])]
    /\ tx' = [tx EXCEPT ![w] = [e \in Events |-> "none"]]
    /\ UNCHANGED <<streamVars, own, folded, letters, whoVars, digestVars, mailVars, faults>>

\* A row's exception or the death of the process undoes the whole batch.
Rollback(w) ==
    /\ faults < MaxFaults /\ faults' = faults + 1
    /\ Working(w)
    /\ tx' = [tx EXCEPT ![w] = [e \in Events |-> "none"]]
    /\ undone' = undone \cup {e \in Events : tx[w][e] \in {"sent", "dead"}}
    /\ UNCHANGED <<streamVars, rowVars, whoVars, digestVars, mails, unsure>>

-----------------------------------------------------------------------------
(* The daily digest: run_digest_for_tenant().                              *)

\* pending_digest_rows()
Deferred == {e \in Events : outbox[e].st = "deferred" /\ outbox[e].fresh}

\* claim_user_day(): the INSERT waits for a claim that is not committed.
DayFree == day \notin claimed /\ \A q \in Runners : dig[q].day # day

\* The candidates are read with the items.  A run of the day before that has
\* not committed has not marked its rows yet: this one takes them again.
DigestClaim(q) ==
    /\ dig[q].pc = "idle"
    /\ Deferred # {} /\ DayFree
    /\ dig' = [dig EXCEPT ![q] = [pc |-> "claimed", day |-> day, items |-> Deferred]]
    /\ undone' = undone \cup (Deferred \cap UNION {dig[r].items : r \in {p \in Runners : dig[p].day # day}})
    /\ UNCHANGED <<streamVars, rowVars, whoVars, tx, day, claimed, mails, unsure, faults>>

DigestSends(q) ==
    /\ dig[q].pc = "claimed" /\ address
    /\ mails' = MailedWith(dig[q].items)
    /\ dig' = [dig EXCEPT ![q].pc = "answered"]
    /\ UNCHANGED <<streamVars, rowVars, whoVars, tx, day, claimed, undone, unsure, faults>>

\* No address, or provider.send() raises: no row will be marked, the claim
\* stays.
DigestFails(q) ==
    /\ dig[q].pc = "claimed"
    /\ UNCHANGED <<mails, unsure>> \/ (address /\ MaybeMailed(dig[q].items))
    /\ dig' = [dig EXCEPT ![q].pc = "answered", ![q].items = {}]
    /\ UNCHANGED <<streamVars, rowVars, whoVars, tx, day, claimed, undone, faults>>

\* "Folded rows must not be included by a later run."
FoldedIn(q) == [e \in Events |-> IF e \in dig[q].items
                                 THEN [outbox[e] EXCEPT !.st = "digested"] ELSE outbox[e]]

DigestCommits(q) ==
    /\ dig[q].pc = "answered"
    /\ outbox' = FoldedIn(q)
    /\ claimed' = claimed \cup {dig[q].day}
    /\ dig' = [dig EXCEPT ![q] = NoDigest]
    /\ UNCHANGED <<streamVars, own, folded, letters, whoVars, tx, day, mailVars, faults>>

\* The audit write or another user's statement raises, or the process dies:
\* the claim goes with the transaction.
DigestRollback(q) ==
    /\ faults < MaxFaults /\ faults' = faults + 1
    /\ dig[q].pc # "idle"
    /\ undone' = IF dig[q].pc = "answered" THEN undone \cup dig[q].items ELSE undone
    /\ dig' = [dig EXCEPT ![q] = NoDigest]
    /\ UNCHANGED <<streamVars, rowVars, whoVars, tx, day, claimed, mails, unsure>>

-----------------------------------------------------------------------------
Ingest(k, e) ==
    \/ Take(k, e) \/ TellsNobody(k, e) \/ Count(k, e) \/ Write(k, e) \/ Fold(k, e)
    \/ Ack(k, e) \/ Reject(k, e)

Deliver(w, e) == NothingToSend(w, e) \/ Sends(w, e) \/ SendsLater(w, e) \/ GivesUp(w, e)

Next ==
    \/ \E e \in Events : Emit(e) \/ BecomesDue(e) \/ Ages(e)
    \/ Leaves \/ WindowEnds \/ NextDay
    \/ \E k \in Consumers : \E e \in Events :
         Ingest(k, e) \/ Fail(k, e) \/ FailRaises(k, e) \/ RejectFails(k, e)
    \/ \E k \in Consumers : ConsumerRestarts(k)
    \/ \E w \in Workers :
         Claim(w) \/ Commit(w) \/ Rollback(w) \/ (\E e \in Events : Deliver(w, e))
    \/ \E q \in Runners :
         DigestClaim(q) \/ DigestSends(q) \/ DigestFails(q) \/ DigestCommits(q) \/ DigestRollback(q)

Spec == Init /\ [][Next]_vars

\* The loops of the service keep running, and time passes.
Fairness ==
    /\ \A k \in Consumers : WF_vars(\E e \in Events : Ingest(k, e))
    /\ \A w \in Workers : WF_vars(Claim(w) \/ Commit(w) \/ (\E e \in Events : Deliver(w, e)))
    /\ \A e \in Events : WF_vars(BecomesDue(e))

FairSpec == Spec /\ Fairness

-----------------------------------------------------------------------------
(* Properties.                                                             *)

\* No step acknowledges an entry before its fact is in the tables (a row of its
\* own, the coalescing row or a dead letter), whoever handled it and whatever
\* died meanwhile, unless its recipient has left (handle_message() before ack()).
NoFactLost ==
    [][\A e \in Events :
         stream[e].st = "pending" /\ stream'[e].st = "acked" =>
           e \in own' \cup folded' \cup letters' \/ ~address]_vars

\* Nothing is mailed twice, alone or in a digest, by however many workers and
\* runners, unless a transaction was undone after it had mailed, a digest was
\* still open at midnight, or a send that raised had been taken by the relay
\* (SKIP LOCKED, claim_user_day(), the status written with the mail).
MailedOnce == \A e \in Events : mails[e] > 1 => e \in undone \cup unsure

\* "UNIQUE (notification_id, channel) is the delivery-idempotency anchor:
\* re-driving the worker over the same row cannot produce a second send"
\* (0011_notifications.sql).  It can, without any process dying.
NoSecondSend == \A e \in Events : mails[e] < 2

\* A row that was given up towards an address, in a category with a template,
\* has its dead letter, and a letter is about a row that was given up or an entry
\* that did not decode, unless a batch was undone (the letter commits alone).
LettersAreTrue ==
    \A e \in Events :
        /\ outbox[e].st = "dead" /\ address /\ template => e \in letters
        /\ e \in letters => \/ e \in bad \cup undone \/ outbox[e].st = "dead"
                            \/ \E w \in Workers : tx[w][e] = "dead"

\* Every entry is acknowledged or moved to the dead-letter stream in the end,
\* whichever consumer dies or stops over it, unless every consumer has stopped
\* (the reclaim of pending entries, the counter of fail()).
EverySettles ==
    \A e \in Events :
        stream[e].st = "pending" ~> \/ stream[e].st \in {"acked", "dlq"}
                                    \/ \A k \in Consumers : cons[k].pc = "down"

\* A mail that is to go out, now or after the quiet hours, is sent or given up.
OutboxSettles ==
    \A e \in Events : outbox[e].st = "pending" ~> outbox[e].st # "pending"

=============================================================================
