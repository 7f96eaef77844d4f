------------------------------ MODULE ShareLinks ------------------------------
(***************************************************************************)
(* Links of one note for people outside the workspace: minting, mailing,   *)
(* opening, answering, revoking and the recipient's opt-out from mail.     *)
(*                                                                         *)
(* tenant_connection() makes one transaction of what it encloses and rolls *)
(* it back when the handler raises.  A request here is its transactions,   *)
(* and a transaction that reads and then writes on what it read is two     *)
(* steps: READ COMMITTED lets another one commit in between.               *)
(*                                                                         *)
(* Refusals that change nothing (policy switches, rate limits, levels of   *)
(* access, verification codes) are requests that are never made.           *)
(***************************************************************************)
EXTENDS Naturals

CONSTANTS
    Requests,           \* request handlers that may be under way together
    MaxLinks,           \* links that may be minted (bound)
    Addresses,
    NoOne,
    MaxRequests         \* requests altogether (bound)

ASSUME ShareAssumption ==
    /\ MaxLinks \in Nat
    /\ NoOne \notin Addresses
    /\ MaxRequests \in Nat

\* Ids in the order of minting.
Links == 1 .. MaxLinks

VARIABLES
    note,       \* the note's status as far as a link cares
    link,       \* rows of note_share_links
    rows,       \* the live rows of share_link_responses on one item
    optout,     \* addresses in the suppression list
    op,         \* op[r]: the request handled by r
    asked,      \* requests so far
    mailed,     \* links the relay accepted a mail with
    unwanted,   \* paths that mailed an address that had opted out before
    opened,     \* opened[l]: "opened" notifications to the author
    raced       \* links with two transactions on their answers at once

tableVars == <<note, link, rows, optout>>
mailVars == <<mailed, unwanted>>
historyVars == <<mailVars, opened, raced>>
vars == <<tableVars, op, asked, historyVars>>

-----------------------------------------------------------------------------
(* Types.                                                                  *)

Stances == {"confirm", "dispute"}
Deliveries == {"not_sent", "sent", "failed", "suppressed"}
LinkRow == [kind : {"absent", "public", "recipient"}, to : Addresses \cup {NoOne},
            revoked : BOOLEAN, expired : BOOLEAN, delivery : Deliveries,
            viewed : BOOLEAN]

\* A live row is known by its link and kind (share_link_responses_live_idx).
ResponseRow == [link : Links, kind : Stances]

PCs == {"idle", "mintPublic", "mint", "check", "mail", "record", "page",
        "announce", "answer", "insert"}

\* What a request does after minting: nothing, POST /links with send, or
\* POST /share/email.
Paths == {"none", "send", "email"}

\* knew: the address had opted out before the request began.
Request == [pc : PCs, l : Links \cup {0}, to : Addresses \cup {NoOne}, path : Paths,
            kind : Stances \cup {"sent", "failed", "withdraw", "none"},
            seen : SUBSET ResponseRow, knew : BOOLEAN]

TypeOK ==
    /\ note \in {"live", "cancelled", "deleted"}
    /\ link \in [Links -> LinkRow]
    /\ rows \subseteq ResponseRow
    /\ optout \subseteq Addresses
    /\ op \in [Requests -> Request] /\ asked \in 0 .. MaxRequests
    /\ mailed \subseteq Links /\ unwanted \subseteq Paths
    /\ opened \in [Links -> Nat]
    /\ raced \subseteq Links

NoLink == [kind |-> "absent", to |-> NoOne, revoked |-> FALSE, expired |-> FALSE,
           delivery |-> "not_sent", viewed |-> FALSE]
Idle == [pc |-> "idle", l |-> 0, to |-> NoOne, path |-> "none", kind |-> "none",
         seen |-> {}, knew |-> FALSE]

Init ==
    /\ note = "live"
    /\ link = [l \in Links |-> NoLink]
    /\ rows = {}
    /\ optout = {}
    /\ op = [r \in Requests |-> Idle] /\ asked = 0
    /\ mailed = {} /\ unwanted = {}
    /\ opened = [l \in Links |-> 0]
    /\ raced = {}

-----------------------------------------------------------------------------
(* Reading the tables.                                                     *)

Unrevoked(l) == link[l].kind # "absent" /\ ~link[l].revoked
Live(l) == Unrevoked(l) /\ ~link[l].expired

\* fetch_note() does not see a deleted note.
NoteFound == note # "deleted"

\* _load_note(): nor does the shared page show a cancelled one.
NoteShown == note = "live"

\* resolve_note_share_link()
Resolves(l) == Live(l) /\ NoteFound

\* fetch_live_share_link()
LivePublic == {l \in Links : Live(l) /\ link[l].kind = "public"}

\* find_live_recipient_link()
LiveFor(a) == {l \in Links : Live(l) /\ link[l].to = a}
IsNewest(l, S) == l \in S /\ \A k \in S : k <= l

\* The id the next INSERT INTO note_share_links gets.
IsNext(l) == link[l].kind = "absent" /\ \A k \in Links : k < l => link[k].kind # "absent"

LiveRows(l) == {x \in rows : x.link = l}

\* Rows that are cleared are no longer there for a transaction that saw them.
Forget(o, S) == [q \in Requests |-> [o[q] EXCEPT !.seen = @ \ S]]

Start(r, rec) ==
    /\ op[r].pc = "idle"
    /\ asked < MaxRequests /\ asked' = asked + 1
    /\ op' = [op EXCEPT ![r] = rec]
Step(r, rec) == op' = [op EXCEPT ![r] = rec] /\ UNCHANGED asked
Done(r) == Step(r, Idle)

-----------------------------------------------------------------------------
(* Minting.                                                                *)

\* create_public_link(): with a live one it answers that one and changes
\* nothing; without, it goes on to the INSERT.
AskPublic(r) ==
    /\ NoteFound /\ LivePublic = {}
    /\ Start(r, [Idle EXCEPT !.pc = "mintPublic"])
    /\ UNCHANGED <<tableVars, historyVars>>

\* note_share_links_live_public_idx, which knows of revoked_at and not of
\* expires_at.
PublicSlot == \A l \in Links : Unrevoked(l) => link[l].kind # "public"

InsertPublic(r, l) ==
    /\ op[r].pc = "mintPublic"
    /\ PublicSlot /\ IsNext(l)
    /\ link' = [link EXCEPT ![l].kind = "public"]
    /\ Done(r)
    /\ UNCHANGED <<note, rows, optout, historyVars>>

\* The index refuses the row and the transaction rolls back.
InsertPublicFails(r) ==
    /\ op[r].pc = "mintPublic"
    /\ ~PublicSlot
    /\ Done(r)
    /\ UNCHANGED <<tableVars, historyVars>>

\* Where a request goes once it has its link: POST /links checks the opt-out
\* list before it mails, and mails no cancelled note; POST /share/email mails.
WithLink(req, l) ==
    CASE req.path = "none"  -> Idle
      [] req.path = "send"  -> [req EXCEPT !.pc = "check", !.l = l]
      [] req.path = "email" -> [req EXCEPT !.pc = "mail", !.l = l, !.to = NoOne]

\* create_recipient_link(): a live link of the address is handed back.
AskRecipient(r, a, path) ==
    /\ NoteFound
    /\ LET then == IF path = "send" /\ note = "cancelled" THEN "none" ELSE path
           req  == [Idle EXCEPT !.pc = "mint", !.to = a, !.path = then,
                                !.knew = then # "none" /\ a \in optout]
       IN  \/ LiveFor(a) = {} /\ Start(r, req)
           \/ \E l \in Links : IsNewest(l, LiveFor(a)) /\ Start(r, WithLink(req, l))
    /\ UNCHANGED <<tableVars, historyVars>>

\* Otherwise one is minted, unseen by a request that looked meanwhile.
InsertRecipient(r, l) ==
    /\ op[r].pc = "mint"
    /\ IsNext(l)
    /\ link' = [link EXCEPT ![l].kind = "recipient", ![l].to = op[r].to]
    /\ Step(r, WithLink(op[r], l))
    /\ UNCHANGED <<note, rows, optout, historyVars>>

-----------------------------------------------------------------------------
(* Mailing.                                                                *)

\* send_link(): the link is read in a transaction of its own.
SendLink(r, l) ==
    /\ NoteShown /\ Unrevoked(l) /\ link[l].to # NoOne
    /\ Start(r, [Idle EXCEPT !.pc = "check", !.path = "send", !.l = l,
                            !.to = link[l].to, !.knew = link[l].to \in optout])
    /\ UNCHANGED <<tableVars, historyVars>>

\* Mutant: the opt-out list is not asked.
MayMailAny(r) == TRUE

MayMail(r) == op[r].to \notin optout

\* _send_recipient_link(): an address on the list is refused.  The outcome
\* "suppressed" it writes first goes with the transaction it raises from.
Check(r) ==
    /\ op[r].pc = "check"
    /\ IF MayMail(r) THEN Step(r, [op[r] EXCEPT !.pc = "mail", !.to = NoOne]) ELSE Done(r)
    /\ UNCHANGED <<tableVars, historyVars>>

\* recipient_mail.send_link() or share_email.send_many(): an outcome, never an
\* exception, and no connection is held meanwhile.
MailAccepted(r) ==
    /\ op[r].pc = "mail"
    /\ mailed' = mailed \cup {op[r].l}
    /\ unwanted' = IF op[r].knew THEN unwanted \cup {op[r].path} ELSE unwanted
    /\ Step(r, [Idle EXCEPT !.pc = "record", !.l = op[r].l, !.kind = "sent"])
    /\ UNCHANGED <<tableVars, opened, raced>>

MailRefused(r) ==
    /\ op[r].pc = "mail"
    /\ Step(r, [Idle EXCEPT !.pc = "record", !.l = op[r].l, !.kind = "failed"])
    /\ UNCHANGED <<tableVars, historyVars>>

\* Mutant: the outcome is taken for granted.
OutcomeSent(r) == "sent"

Outcome(r) == op[r].kind

\* record_send_outcome(), by id, whatever became of the link.
Record(r) ==
    /\ op[r].pc = "record"
    /\ link' = [link EXCEPT ![op[r].l].delivery = Outcome(r)]
    /\ Done(r)
    /\ UNCHANGED <<note, rows, optout, historyVars>>

\* suppress_links_for_email()
Suppressed(l) ==
    [k \in Links |-> IF Unrevoked(k) /\ link[k].to = link[l].to
                     THEN [link[k] EXCEPT !.delivery = "suppressed"] ELSE link[k]]

\* unsubscribe(): the address is the one on the link's row, and a row that has
\* lost it leaves everything as it was.
Unsubscribe(l) ==
    /\ link[l].to # NoOne
    /\ optout' = optout \cup {link[l].to}
    /\ link' = Suppressed(l)
    /\ UNCHANGED <<note, rows, op, asked, historyVars>>

-----------------------------------------------------------------------------
(* The shared page.                                                        *)

\* The page or its PDF.
OpenPage(r, l) ==
    /\ Resolves(l)
    /\ Start(r, [Idle EXCEPT !.pc = "page", !.l = l])
    /\ UNCHANGED <<tableVars, historyVars>>

\* Mutant: the count is not read back from the row that was written.
FirstViewAny(l) == TRUE

\* record_share_link_view() answers from the row it updated.
FirstView(l) == ~link[l].viewed

\* _page(): the second transaction finds the link by id and asks for the note
\* only.  The first view of a recipient's link is told.
ShowPage(r) ==
    LET l == op[r].l IN
    /\ op[r].pc = "page" /\ NoteShown
    /\ link' = [link EXCEPT ![l].viewed = TRUE]
    /\ IF FirstView(l) /\ link[l].kind = "recipient"
       THEN Step(r, [op[r] EXCEPT !.pc = "announce"]) ELSE Done(r)
    /\ UNCHANGED <<note, rows, optout, historyVars>>

\* read_shared_note_pdf(): the same two transactions.  A first view it records
\* is told to nobody, then or later.
ShowPdf(r) ==
    /\ op[r].pc = "page" /\ NoteShown
    /\ link' = [link EXCEPT ![op[r].l].viewed = TRUE]
    /\ Done(r)
    /\ UNCHANGED <<note, rows, optout, historyVars>>

Announce(r) ==
    /\ op[r].pc = "announce"
    /\ opened' = [opened EXCEPT ![op[r].l] = @ + 1]
    /\ Done(r)
    /\ UNCHANGED <<tableVars, mailVars, raced>>

\* _writable(): only a recipient's link answers.
Answer(r, l, k) ==
    /\ Resolves(l) /\ link[l].kind = "recipient"
    /\ Start(r, [Idle EXCEPT !.pc = "answer", !.l = l, !.kind = k])
    /\ UNCHANGED <<tableVars, historyVars>>

\* Another transaction on the answers of l is open.
Overlaps(l, r) == \E q \in Requests \ {r} : op[q].pc = "insert" /\ op[q].l = l

\* Mutant: one answer per kind, as the unique index has it.
ReplacesSameKind(r) == {x \in LiveRows(op[r].l) : x.kind = op[r].kind}

\* The rows the UPDATE of upsert_response() finds.
Replaces(r) == LiveRows(op[r].l)

ClearOld(r) ==
    /\ op[r].pc = "answer" /\ op[r].kind # "withdraw"
    /\ NoteShown
    /\ Step(r, [op[r] EXCEPT !.pc = "insert", !.seen = Replaces(r)])
    /\ raced' = IF Overlaps(op[r].l, r) THEN raced \cup {op[r].l} ELSE raced
    /\ UNCHANGED <<tableVars, mailVars, opened>>

\* share_link_responses_live_idx: one live row per link, kind and item.
NewRow(r) == [link |-> op[r].l, kind |-> op[r].kind]
Clashes(r) == NewRow(r) \in rows \ op[r].seen

InsertNew(r) ==
    /\ op[r].pc = "insert"
    /\ ~Clashes(r)
    /\ rows' = (rows \ op[r].seen) \cup {NewRow(r)}
    /\ op' = Forget([op EXCEPT ![r] = Idle], op[r].seen)
    /\ UNCHANGED <<note, link, optout, asked, historyVars>>

InsertNewFails(r) ==
    /\ op[r].pc = "insert"
    /\ Clashes(r)
    /\ Done(r)
    /\ UNCHANGED <<tableVars, historyVars>>

\* withdraw_response()
Withdraw(r) ==
    /\ op[r].pc = "answer" /\ op[r].kind = "withdraw"
    /\ rows' = rows \ LiveRows(op[r].l)
    /\ op' = Forget([op EXCEPT ![r] = Idle], LiveRows(op[r].l))
    /\ UNCHANGED <<note, link, optout, asked, historyVars>>

\* The note went between the two transactions: a 404.
Gone(r) ==
    /\ op[r].pc \in {"page", "answer"} /\ op[r].kind # "withdraw"
    /\ ~NoteShown
    /\ Done(r)
    /\ UNCHANGED <<tableVars, historyVars>>

-----------------------------------------------------------------------------
(* The author, time and the process.                                       *)

\* A revoked link forgets the address.
RevokedRow(S) ==
    [l \in Links |-> IF l \in S /\ Unrevoked(l)
                     THEN [link[l] EXCEPT !.revoked = TRUE, !.to = NoOne] ELSE link[l]]

Revoke(S) ==
    /\ NoteFound
    /\ \E l \in S : Unrevoked(l)
    /\ link' = RevokedRow(S)
    /\ UNCHANGED <<note, rows, optout, op, asked, historyVars>>

\* clear_response()
ClearResponse(x) ==
    /\ NoteFound
    /\ rows' = rows \ {x}
    /\ op' = Forget(op, {x})
    /\ UNCHANGED <<note, link, optout, asked, historyVars>>

\* soft_delete_note(): the note, its links and its answers.
DeleteNote ==
    /\ NoteFound
    /\ note' = "deleted"
    /\ link' = RevokedRow(Links)
    /\ rows' = {}
    /\ op' = Forget(op, rows)
    /\ raced' = raced \cup {l \in Links : \E r \in Requests :
                                            op[r].pc = "insert" /\ op[r].l = l}
    /\ UNCHANGED <<optout, asked, mailVars, opened>>

CancelNote ==
    /\ note = "live"
    /\ note' = "cancelled"
    /\ UNCHANGED <<link, rows, optout, op, asked, historyVars>>

Expire(l) ==
    /\ Live(l)
    /\ link' = [link EXCEPT ![l].expired = TRUE]
    /\ UNCHANGED <<note, rows, optout, op, asked, historyVars>>

\* The process dies in a request that has committed something or mailed; any
\* other request is as if it had not been made.
Dies(r) ==
    /\ op[r].pc \in {"check", "mail", "record", "announce"}
    /\ Done(r)
    /\ UNCHANGED <<tableVars, historyVars>>

Next ==
    \/ \E r \in Requests :
         \/ AskPublic(r) \/ InsertPublicFails(r)
         \/ Check(r) \/ MailAccepted(r) \/ MailRefused(r) \/ Record(r)
         \/ ShowPage(r) \/ ShowPdf(r) \/ Announce(r)
         \/ ClearOld(r) \/ InsertNew(r) \/ InsertNewFails(r) \/ Withdraw(r) \/ Gone(r)
         \/ Dies(r)
         \/ \E a \in Addresses, p \in Paths : AskRecipient(r, a, p)
         \/ \E l \in Links :
              \/ InsertPublic(r, l) \/ InsertRecipient(r, l)
              \/ SendLink(r, l) \/ OpenPage(r, l)
              \/ \E k \in Stances \cup {"withdraw"} : Answer(r, l, k)
    \/ \E l \in Links : Unsubscribe(l) \/ Expire(l) \/ Revoke({l})
    \/ Revoke(Links) \/ DeleteNote \/ CancelNote
    \/ \E x \in rows : ClearResponse(x)

Spec == Init /\ [][Next]_vars

-----------------------------------------------------------------------------
(* Properties.                                                             *)

\* "a note has at most one live link": however two requests of the sharer
\* interleave, one public link is not revoked (create_public_link()).
OnePublic ==
    \A k, l \in Links :
        /\ Unrevoked(k) /\ link[k].kind = "public"
        /\ Unrevoked(l) /\ link[l].kind = "public"
        => k = l

\* The author hears at most once that a link was opened, though its page is
\* loaded by several requests at once (record_share_link_view(), _page()).
OpenedOnce == \A l \in Links : opened[l] <= 1

\* "a recipient's stance on an item is one of confirm / done / dispute, not a
\* pile of them", and none is left on a deleted note, unless two transactions
\* on the link's answers overlapped (upsert_response(), soft_delete_note()).
OneStance ==
    \A x \in rows : x.link \notin raced =>
        note # "deleted" /\ LiveRows(x.link) = {x}

\* A row says "sent" only if the relay took a mail with that link, though the
\* outcome is written in a later transaction than the link and the mail.
SentWasMailed ==
    \A l \in Links : link[l].delivery = "sent" => l \in mailed

\* POST /links and POST /links/{id}/send mail nobody who had opted out before
\* the request, though the address comes from an earlier transaction.
SendRespectsOptOut == "send" \notin unwanted

=============================================================================
