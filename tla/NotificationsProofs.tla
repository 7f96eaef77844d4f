------------------------- MODULE NotificationsProofs -------------------------
(***************************************************************************)
(* Theorems about Notifications, for every number of facts, consumers,     *)
(* delivery workers and digest runners and every choice of the limits.     *)
(***************************************************************************)
EXTENDS Notifications, TLAPS

-----------------------------------------------------------------------------
(* The inductive invariants.                                               *)

\* A consumer that is about to acknowledge has its fact in the tables, or found
\* nobody to tell; one that is about to write a dead letter holds an entry that
\* does not decode.
IngestInv ==
    \A k \in Consumers :
       /\ cons[k].pc = "after" => ~address \/ cons[k].e \subseteq own \cup folded
       /\ cons[k].pc = "letter" => cons[k].e \subseteq bad

\* A locked row is pending, and locked once; tries are left while it is.
LockInv ==
    /\ \A e \in Events : /\ e \in own <=> outbox[e].st # "none"
                         /\ outbox[e].st = "pending" => outbox[e].tries < MaxAttempts
    /\ \A w \in Workers, e \in Events :
          /\ tx[w][e] # "none" => /\ outbox[e].st = "pending"
                                  /\ \A v \in Workers : tx[v][e] # "none" => v = w
          /\ tx[w][e] = "retry" => outbox[e].tries + 1 < MaxAttempts

\* What a digest runner holds was left to the digest, and nobody else holds it
\* or has mailed it, unless a runner of another day did.
DigestInv ==
    /\ \A q \in Runners : IF dig[q].pc = "idle" THEN dig[q].items = {} ELSE dig[q].day # 0
    /\ \A q \in Runners, e \in Events : e \in dig[q].items =>
          /\ outbox[e].st \in {"deferred", "digested"}
          /\ e \notin undone => /\ outbox[e].st = "deferred"
                                /\ \A r \in Runners : e \in dig[r].items => r = q

\* The row of a mail that went out says so, or its transaction is open.
Marked(e) ==
    \/ outbox[e].st \in {"sent", "digested"}
    \/ \E w \in Workers : tx[w][e] = "sent"
    \/ \E q \in Runners : dig[q].pc = "answered" /\ e \in dig[q].items

MailInv ==
    \A e \in Events :
       e \notin undone \cup unsure /\ mails[e] # 0 => mails[e] = 1 /\ Marked(e)

LetterInv ==
    /\ LettersAreTrue
    /\ \A w \in Workers, e \in Events : tx[w][e] = "dead" => e \in letters \/ ~address \/ ~template

Inv == TypeOK /\ IngestInv /\ LockInv /\ DigestInv /\ MailInv /\ LetterInv

-----------------------------------------------------------------------------
(* The steps, by who takes them.                                           *)

World ==
    \/ \E e \in Events : Emit(e) \/ BecomesDue(e) \/ Ages(e)
    \/ Leaves \/ WindowEnds \/ NextDay

Consuming ==
    \/ \E k \in Consumers : \E e \in Events :
         Ingest(k, e) \/ Fail(k, e) \/ FailRaises(k, e) \/ RejectFails(k, e)
    \/ \E k \in Consumers : ConsumerRestarts(k)

Delivering ==
    \E w \in Workers :
       Claim(w) \/ Commit(w) \/ Rollback(w) \/ (\E e \in Events : Deliver(w, e))

Digesting ==
    \E q \in Runners :
       DigestClaim(q) \/ DigestSends(q) \/ DigestFails(q) \/ DigestCommits(q) \/ DigestRollback(q)

\* Every step is the world's, a consumer's, a delivery worker's or a runner's.
LEMMA NextSplit == Next => World \/ Consuming \/ Delivering \/ Digesting
  BY DEF Next, World, Consuming, Delivering, Digesting

\* What the world and the consumers do to the tables: a row keeps its status
\* and tries or is new, nothing in a transaction changes, and a new letter is
\* about an entry that does not decode.
Quiet ==
    /\ UNCHANGED <<tx, dig, mails, undone, unsure, template>> /\ (address' => address)
    /\ bad \subseteq bad' /\ letters \subseteq letters' /\ letters' \subseteq letters \cup bad'
    /\ \A e \in Events :
          \/ /\ outbox'[e].st = outbox[e].st /\ outbox'[e].tries = outbox[e].tries
             /\ e \in own' <=> e \in own
          \/ /\ outbox[e].st = "none" /\ outbox'[e].st \in {"off", "deferred", "pending"}
             /\ outbox'[e].tries = 0 /\ e \in own'

-----------------------------------------------------------------------------
(* Type correctness.                                                       *)

StreamType ==
    /\ stream \in [Events -> [st : {"absent", "pending", "acked", "dlq"},
                              tries : 0 .. MaxRetries]]
    /\ bad \subseteq Events
    /\ cons \in [Consumers -> [pc : {"idle", "count", "write", "fold", "after", "letter", "down"},
                               e : SUBSET Events]]
    /\ cap \in 0 .. RateCap + 1

RowType ==
    /\ own \subseteq Events /\ folded \subseteq Events /\ letters \subseteq Events
    /\ outbox \in [Events -> OutboxRow]

TxType ==
    /\ address \in BOOLEAN /\ template \in BOOLEAN
    /\ tx \in [Workers -> [Events -> Verdicts]]
    /\ mails \in [Events -> 0 .. 2]
    /\ undone \subseteq Events /\ unsure \subseteq Events

DigType ==
    /\ dig \in [Runners -> [pc : {"idle", "claimed", "answered"}, day : 0 .. MaxDays,
                            items : SUBSET Events]]
    /\ day \in Days /\ claimed \subseteq Days

FaultType == faults \in 0 .. MaxFaults

LEMMA TypeParts == TypeOK => StreamType /\ RowType /\ TxType /\ DigType /\ FaultType
  BY DEF TypeOK, StreamType, RowType, TxType, DigType, FaultType

LEMMA TypeJoins ==
  ASSUME StreamType', RowType', TxType', DigType', FaultType'
  PROVE  TypeOK'
  BY DEF TypeOK, StreamType, RowType, TxType, DigType, FaultType

\* The world keeps the types, and what it does is quiet.
LEMMA WorldEffect ==
  ASSUME TypeOK, LockInv, World
  PROVE  TypeOK' /\ Quiet
<1> USE NotificationsAssumption, TypeParts
<1>1. ASSUME NEW e \in Events, Emit(e) PROVE TypeOK' /\ Quiet
  <2>1. StreamType' BY <1>1 DEF Emit, StreamType
  <2>2. RowType' /\ TxType' /\ DigType' /\ FaultType'
    BY <1>1 DEF Emit, RowType, TxType, DigType, FaultType, rowVars, digestVars, whoVars, mailVars
  <2>3. Quiet BY <1>1 DEF Emit, Quiet, rowVars, digestVars, whoVars, mailVars
  <2> QED BY <2>1, <2>2, <2>3, TypeJoins
<1>2. ASSUME NEW e \in Events, BecomesDue(e) \/ Ages(e) PROVE TypeOK' /\ Quiet
  <2>1. RowType'
    <3>1. RowType /\ outbox[e] \in OutboxRow BY DEF RowType
    <3>2. PICK r \in OutboxRow : outbox' = [outbox EXCEPT ![e] = r]
      <4>1. /\ [outbox[e] EXCEPT !.due = TRUE] \in OutboxRow
            /\ [outbox[e] EXCEPT !.fresh = FALSE] \in OutboxRow
        BY <3>1 DEF OutboxRow
      <4>2. CASE BecomesDue(e)
        <5>1. outbox' = [outbox EXCEPT ![e] = [outbox[e] EXCEPT !.due = TRUE]]
          BY <4>2 DEF BecomesDue
        <5> QED BY <4>1, <5>1
      <4>3. CASE Ages(e)
        <5>1. outbox' = [outbox EXCEPT ![e] = [outbox[e] EXCEPT !.fresh = FALSE]]
          BY <4>3 DEF Ages
        <5> QED BY <4>1, <5>1
      <4> QED BY <1>2, <4>2, <4>3
    <3>3. UNCHANGED <<own, folded, letters>> BY <1>2 DEF BecomesDue, Ages
    <3> QED BY <3>1, <3>2, <3>3 DEF RowType
  <2>2. StreamType' /\ TxType' /\ DigType' /\ FaultType'
    BY <1>2 DEF BecomesDue, Ages, StreamType, TxType, DigType, FaultType, streamVars, digestVars, whoVars, mailVars
  <2>3. Quiet BY <1>2 DEF BecomesDue, Ages, Quiet, RowType, OutboxRow, streamVars, digestVars, whoVars, mailVars
  <2> QED BY <2>1, <2>2, <2>3, TypeJoins
<1>3. CASE Leaves \/ WindowEnds \/ NextDay
  <2>1. StreamType' BY <1>3 DEF Leaves, WindowEnds, NextDay, StreamType, streamVars
  <2>2. RowType' /\ TxType' /\ FaultType'
    BY <1>3 DEF Leaves, WindowEnds, NextDay, RowType, TxType, FaultType, rowVars, whoVars, mailVars
  <2>3. DigType' BY <1>3 DEF Leaves, WindowEnds, NextDay, DigType, Days, digestVars
  <2>4. Quiet BY <1>3 DEF Leaves, WindowEnds, NextDay, Quiet, streamVars, rowVars, digestVars, whoVars, mailVars
  <2> QED BY <2>1, <2>2, <2>3, <2>4, TypeJoins
<1> QED BY <1>1, <1>2, <1>3 DEF World

\* A new row as resolve() decides it.
LEMMA DecisionRow ==
  ASSUME TypeOK, NEW m \in Modes, NEW r \in Decision(m)
  PROVE  /\ r \in OutboxRow /\ r.tries = 0
         /\ r.st \in {"off", "deferred", "pending"}
<1> USE NotificationsAssumption
<1>1. day \in 0 .. MaxDays BY DEF TypeOK, Days
<1>2. \A st \in Statuses, due \in BOOLEAN :
        LET row == [st |-> st, tries |-> 0, due |-> due, born |-> day, fresh |-> TRUE]
        IN row \in OutboxRow /\ row.tries = 0 /\ row.st = st
  BY <1>1 DEF OutboxRow
<1>3. \E st \in {"off", "deferred", "pending"}, due \in BOOLEAN :
        r = [st |-> st, tries |-> 0, due |-> due, born |-> day, fresh |-> TRUE]
  <2>1. CASE m = "off" \/ ~address BY <2>1 DEF Decision
  <2>2. CASE ~(m = "off" \/ ~address) /\ m = "digest" BY <2>2 DEF Decision
  <2>3. CASE ~(m = "off" \/ ~address) /\ m # "digest" BY <2>3 DEF Decision
  <2> QED BY <2>1, <2>2, <2>3
<1> QED BY <1>2, <1>3 DEF Statuses

\* What fail() leaves of an entry, done, half done or not done.
LEMMA EntryType ==
  ASSUME TypeOK, NEW e \in Events
  PROVE  \A r \in {stream[e], Bumped(e), FailedEntry(e)} :
           r \in [st : {"absent", "pending", "acked", "dlq"}, tries : 0 .. MaxRetries]
<1> USE NotificationsAssumption
<1> DEFINE entries == [st : {"absent", "pending", "acked", "dlq"}, tries : 0 .. MaxRetries]
<1>1. stream[e] \in entries BY DEF TypeOK
<1>2. (IF stream[e].tries < MaxRetries THEN stream[e].tries + 1 ELSE stream[e].tries)
        \in 0 .. MaxRetries
  BY <1>1
<1>3. Bumped(e) \in entries BY <1>1, <1>2 DEF Bumped
<1>4. [Bumped(e) EXCEPT !.st = "dlq"] \in entries BY <1>3
<1> QED BY <1>1, <1>3, <1>4 DEF FailedEntry

\* Consumers keep the types, and what they do to the tables is quiet.
LEMMA ConsumingEffect ==
  ASSUME TypeOK, IngestInv, LockInv, Consuming
  PROVE  TypeOK' /\ Quiet
<1> USE NotificationsAssumption, TypeParts
<1>1. ASSUME NEW k \in Consumers, NEW e \in Events,
             \/ Take(k, e) \/ TellsNobody(k, e) \/ Count(k, e) \/ Ack(k, e)
             \/ Fail(k, e) \/ FailRaises(k, e)
      PROVE  TypeOK' /\ Quiet
  <2>1. StreamType'
    <3>1. CASE Take(k, e) \/ TellsNobody(k, e)
      BY <3>1 DEF Take, TellsNobody, Goes, StreamType
    <3>2. CASE Count(k, e) BY <3>2 DEF Count, Goes, StreamType
    <3>3. CASE Ack(k, e) BY <3>3 DEF Ack, Rests, NoConsumer, StreamType
    <3>4. CASE Fail(k, e) \/ FailRaises(k, e)
      <4>1. PICK r \in {stream[e], Bumped(e), FailedEntry(e)} : stream' = [stream EXCEPT ![e] = r]
        BY <3>4 DEF Fail, FailRaises
      <4>2. stream' \in [Events -> [st : {"absent", "pending", "acked", "dlq"},
                                    tries : 0 .. MaxRetries]]
        BY <4>1, EntryType DEF StreamType
      <4>3. cons' \in [Consumers -> [pc : {"idle", "count", "write", "fold", "after", "letter", "down"},
                                     e : SUBSET Events]]
        BY <3>4 DEF Fail, FailRaises, Rests, Stops, NoConsumer, StreamType
      <4> QED BY <3>4, <4>2, <4>3 DEF Fail, FailRaises, Excepts, StreamType
    <3> QED BY <1>1, <3>1, <3>2, <3>3, <3>4
  <2>2. RowType' /\ TxType' /\ DigType'
    BY <1>1 DEF Take, TellsNobody, Count, Ack, Fail, FailRaises, Excepts, RowType, TxType, DigType,
                rowVars, digestVars, whoVars, mailVars
  <2>3. FaultType'
    BY <1>1 DEF Take, TellsNobody, Count, Ack, Fail, FailRaises, Excepts, FaultType
  <2>4. Quiet
    BY <1>1 DEF Take, TellsNobody, Count, Ack, Fail, FailRaises, Excepts, Quiet,
                rowVars, digestVars, whoVars, mailVars
  <2> QED BY <2>1, <2>2, <2>3, <2>4, TypeJoins
<1>2. ASSUME NEW k \in Consumers, NEW e \in Events, Write(k, e) PROVE TypeOK' /\ Quiet
  <2>1. PICK r \in OutboxRow :
          /\ e \notin own => r.tries = 0 /\ r.st \in {"off", "deferred", "pending"}
          /\ e \in own => r = outbox[e]
          /\ outbox' = [outbox EXCEPT ![e] = r]
    <3>1. CASE e \in own BY <3>1, <1>2 DEF Write, RowType
    <3>2. CASE e \notin own
      <4>1. PICK m \in Modes : \E r \in Decision(m) : outbox' = [outbox EXCEPT ![e] = r]
        BY <3>2, <1>2 DEF Write
      <4>2. PICK r \in Decision(m) : outbox' = [outbox EXCEPT ![e] = r] BY <4>1
      <4> QED BY <3>2, <4>2, DecisionRow
    <3> QED BY <3>1, <3>2
  <2>2. RowType' BY <2>1, <1>2 DEF Write, RowType
  <2>3. StreamType' BY <1>2 DEF Write, Goes, StreamType
  <2>4. TxType' /\ DigType' /\ FaultType' BY <1>2 DEF Write, TxType, DigType, FaultType, digestVars, whoVars, mailVars
  <2>5. Quiet
    <3>1. ASSUME NEW d \in Events
          PROVE  \/ /\ outbox'[d].st = outbox[d].st /\ outbox'[d].tries = outbox[d].tries
                    /\ d \in own' <=> d \in own
                 \/ /\ outbox[d].st = "none" /\ outbox'[d].st \in {"off", "deferred", "pending"}
                    /\ outbox'[d].tries = 0 /\ d \in own'
      <4>1. CASE d # e BY <4>1, <2>1, <1>2 DEF Write, RowType
      <4>2. CASE d = e BY <4>2, <2>1, <1>2 DEF Write, RowType, LockInv
      <4> QED BY <4>1, <4>2
    <3> QED BY <3>1, <1>2 DEF Write, Quiet, digestVars, whoVars, mailVars
  <2> QED BY <2>2, <2>3, <2>4, <2>5, TypeJoins
<1>3. ASSUME NEW k \in Consumers, NEW e \in Events, Fold(k, e) \/ Reject(k, e) \/ RejectFails(k, e)
      PROVE  TypeOK' /\ Quiet
  <2>1. StreamType'
    <3>1. CASE Fold(k, e) BY <3>1 DEF Fold, Goes, StreamType
    <3>2. CASE Reject(k, e) BY <3>2 DEF Reject, Rests, NoConsumer, StreamType
    <3>3. CASE RejectFails(k, e) BY <3>3 DEF RejectFails, Stops, StreamType
    <3> QED BY <1>3, <3>1, <3>2, <3>3
  <2>2. RowType' BY <1>3 DEF Fold, Reject, RejectFails, RowType
  <2>3. TxType' /\ DigType' /\ FaultType'
    BY <1>3 DEF Fold, Reject, RejectFails, TxType, DigType, FaultType, digestVars, whoVars, mailVars
  <2>4. Reject(k, e) \/ RejectFails(k, e) => e \in bad BY DEF Reject, RejectFails, IsAt, IngestInv
  <2>5. Quiet
    BY <2>4, <1>3 DEF Fold, Reject, RejectFails, Quiet, digestVars, whoVars, mailVars
  <2> QED BY <2>1, <2>2, <2>3, <2>5, TypeJoins
<1>4. ASSUME NEW k \in Consumers, ConsumerRestarts(k) PROVE TypeOK' /\ Quiet
  <2>1. StreamType' /\ FaultType'
    BY <1>4 DEF ConsumerRestarts, Rests, NoConsumer, StreamType, FaultType
  <2>2. RowType' /\ TxType' /\ DigType'
    BY <1>4 DEF ConsumerRestarts, RowType, TxType, DigType, rowVars, digestVars, whoVars, mailVars
  <2>3. Quiet BY <1>4 DEF ConsumerRestarts, Quiet, rowVars, digestVars, whoVars, mailVars
  <2> QED BY <2>1, <2>2, <2>3, TypeJoins
<1> QED BY <1>1, <1>2, <1>3, <1>4 DEF Consuming, Ingest

\* The row of a locked event once its verdict is committed.
LEMMA SettledRow ==
  ASSUME TypeOK, LockInv, NEW w \in Workers, NEW e \in Events,
         tx[w][e] # "none", tx[w][e] # "todo"
  PROVE  /\ Settled(e, tx[w][e]) \in OutboxRow
         /\ Settled(e, tx[w][e]).tries = outbox[e].tries + 1
         /\ tx[w][e] = "retry" => Settled(e, tx[w][e]).st = "pending"
         /\ tx[w][e] # "retry" => Settled(e, tx[w][e]).st = tx[w][e]
<1> USE NotificationsAssumption
<1>1. outbox[e] \in OutboxRow /\ tx[w][e] \in Verdicts BY DEF TypeOK
<1>2. outbox[e].tries + 1 \in 0 .. MaxAttempts BY <1>1 DEF LockInv, OutboxRow
<1>3. (IF tx[w][e] = "retry" THEN "pending" ELSE tx[w][e]) \in Statuses
  BY <1>1 DEF Verdicts, Statuses
<1>4. CASE tx[w][e] = "retry"
  <2>1. Settled(e, tx[w][e]) = [outbox[e] EXCEPT !.st = "pending", !.tries = @ + 1, !.due = FALSE]
    BY <1>4 DEF Settled
  <2> QED BY <1>1, <1>2, <1>4, <2>1 DEF OutboxRow, Statuses
<1>5. CASE tx[w][e] # "retry"
  <2>1. Settled(e, tx[w][e]) = [outbox[e] EXCEPT !.st = tx[w][e], !.tries = @ + 1, !.due = FALSE]
    BY <1>5 DEF Settled
  <2> QED BY <1>1, <1>2, <1>3, <1>5, <2>1 DEF OutboxRow
<1> QED BY <1>4, <1>5

\* Mailing more keeps the counters.
LEMMA MailedType ==
  ASSUME TypeOK, NEW S
  PROVE  MailedWith(S) \in [Events -> 0 .. 2]
<1>1. \A e \in Events : mails[e] \in 0 .. 2 /\ Counted(mails[e]) \in 0 .. 2 BY DEF TypeOK, Counted
<1> QED BY <1>1 DEF MailedWith

\* Delivery keeps the types.
LEMMA DeliveringTypes ==
  ASSUME TypeOK, LockInv, Delivering
  PROVE  TypeOK'
<1> USE NotificationsAssumption, TypeParts
<1> PICK w \in Workers :
      Claim(w) \/ Commit(w) \/ Rollback(w) \/ (\E e \in Events : Deliver(w, e))
  BY DEF Delivering
<1>1. CASE Claim(w)
  <2>1. TxType'
    <3>1. [e \in Events |-> IF e \in Due THEN "todo" ELSE "none"] \in [Events -> Verdicts]
      BY DEF Verdicts
    <3> QED BY <1>1, <3>1 DEF Claim, TxType, whoVars, mailVars
  <2>2. StreamType' /\ RowType' /\ DigType' /\ FaultType'
    BY <1>1 DEF Claim, StreamType, RowType, DigType, FaultType, streamVars, rowVars, digestVars
  <2> QED BY <2>1, <2>2, TypeJoins
<1>2. CASE Commit(w)
  <2>1. RowType'
    <3>1. \A e \in Events : (IF tx[w][e] = "none" THEN outbox[e] ELSE Settled(e, tx[w][e])) \in OutboxRow
      BY <1>2, SettledRow DEF Commit, RowType
    <3> QED BY <1>2, <3>1 DEF Commit, RowType
  <2>2. TxType'
    <3>1. [e \in Events |-> "none"] \in [Events -> Verdicts] BY DEF Verdicts
    <3> QED BY <1>2, <3>1 DEF Commit, TxType, whoVars, mailVars
  <2>3. StreamType' /\ DigType' /\ FaultType'
    BY <1>2 DEF Commit, StreamType, DigType, FaultType, streamVars, digestVars
  <2> QED BY <2>1, <2>2, <2>3, TypeJoins
<1>3. CASE Rollback(w)
  <2>1. TxType'
    <3>1. [e \in Events |-> "none"] \in [Events -> Verdicts] BY DEF Verdicts
    <3> QED BY <1>3, <3>1 DEF Rollback, TxType, whoVars
  <2>2. StreamType' /\ RowType' /\ DigType' /\ FaultType'
    BY <1>3 DEF Rollback, StreamType, RowType, DigType, FaultType, streamVars, rowVars, digestVars
  <2> QED BY <2>1, <2>2, TypeJoins
<1>4. ASSUME NEW e \in Events, Deliver(w, e) PROVE TypeOK'
  <2>1. PICK v \in Verdicts : Verdict(w, e, v)
    BY <1>4 DEF Deliver, NothingToSend, Sends, SendsLater, GivesUp, Verdicts
  <2>2. TxType'
    <3>1. tx' \in [Workers -> [Events -> Verdicts]] BY <2>1 DEF Verdict, TxType
    <3>2. MailedWith({e}) \in [Events -> 0 .. 2] BY MailedType
    <3>3. mails' \in [Events -> 0 .. 2] /\ unsure' \subseteq Events
      BY <1>4, <3>2 DEF Deliver, NothingToSend, Sends, SendsLater, GivesUp, MaybeMailed, TxType
    <3> QED BY <2>1, <3>1, <3>3 DEF Verdict, TxType, whoVars
  <2>3. RowType'
    BY <2>1, <1>4 DEF Deliver, NothingToSend, Sends, SendsLater, GivesUp, LettersWith, Verdict, RowType
  <2>4. StreamType' /\ DigType' /\ FaultType'
    BY <2>1 DEF Verdict, StreamType, DigType, FaultType, streamVars, digestVars
  <2> QED BY <2>2, <2>3, <2>4, TypeJoins
<1> QED BY <1>1, <1>2, <1>3, <1>4

\* A digest keeps the types.
LEMMA DigestingTypes ==
  ASSUME TypeOK, DigestInv, Digesting
  PROVE  TypeOK'
<1> USE NotificationsAssumption, TypeParts
<1> PICK q \in Runners :
      DigestClaim(q) \/ DigestSends(q) \/ DigestFails(q) \/ DigestCommits(q) \/ DigestRollback(q)
  BY DEF Digesting
<1>1. StreamType'
  BY DEF DigestClaim, DigestSends, DigestFails, DigestCommits, DigestRollback, StreamType, streamVars
<1>2. FaultType'
  BY DEF DigestClaim, DigestSends, DigestFails, DigestCommits, DigestRollback, FaultType
<1>3. RowType'
  <2>1. CASE DigestCommits(q)
    <3>1. \A e \in Events : outbox[e] \in OutboxRow
                            /\ [outbox[e] EXCEPT !.st = "digested"] \in OutboxRow
      BY DEF RowType, OutboxRow, Statuses
    <3> QED BY <2>1, <3>1 DEF DigestCommits, FoldedIn, RowType
  <2>2. CASE DigestClaim(q) \/ DigestSends(q) \/ DigestFails(q) \/ DigestRollback(q)
    BY <2>2 DEF DigestClaim, DigestSends, DigestFails, DigestRollback, RowType, rowVars
  <2> QED BY <2>1, <2>2
<1>4. TxType'
  <2>1. CASE DigestClaim(q) BY <2>1 DEF DigestClaim, Deferred, TxType, whoVars
  <2>2. CASE DigestSends(q) \/ DigestFails(q)
    <3>1. dig[q].items \subseteq Events BY DEF DigType
    <3>2. mails' \in [Events -> 0 .. 2] /\ unsure' \subseteq Events
      BY <2>2, <3>1, MailedType DEF DigestSends, DigestFails, MaybeMailed, TxType
    <3> QED BY <2>2, <3>2 DEF DigestSends, DigestFails, TxType, whoVars
  <2>3. CASE DigestCommits(q) BY <2>3 DEF DigestCommits, TxType, whoVars, mailVars
  <2>4. CASE DigestRollback(q)
    <3>1. dig[q].items \subseteq Events BY DEF DigType
    <3> QED BY <2>4, <3>1 DEF DigestRollback, TxType, whoVars
  <2> QED BY <2>1, <2>2, <2>3, <2>4
<1>5. DigType'
  <2>1. CASE DigestClaim(q) BY <2>1 DEF DigestClaim, Deferred, Days, DigType
  <2>2. CASE DigestSends(q) \/ DigestFails(q) BY <2>2 DEF DigestSends, DigestFails, DigType
  <2>3. CASE DigestCommits(q) \/ DigestRollback(q)
    <3>1. dig[q].pc # "idle" => dig[q].day \in Days BY DEF DigType, DigestInv, Days
    <3> QED BY <2>3, <3>1 DEF DigestCommits, DigestRollback, NoDigest, Days, DigType
  <2> QED BY <2>1, <2>2, <2>3
<1> QED BY <1>1, <1>2, <1>3, <1>4, <1>5, TypeJoins

-----------------------------------------------------------------------------
(* Ingest.                                                                 *)

\* What NoFactLost says of a step.
AckedInTables ==
    \A e \in Events : stream[e].st = "pending" /\ stream'[e].st = "acked" =>
                         e \in own' \cup folded' \cup letters' \/ ~address

\* A consumer moves to its acknowledgement only by writing its fact or finding
\* nobody to tell, and an entry leaves the stream only by that or with its dead
\* letter.
LEMMA IngestStep ==
  ASSUME TypeOK, IngestInv, Consuming
  PROVE  IngestInv' /\ AckedInTables
<1> USE TypeParts
<1>1. ASSUME NEW k \in Consumers, NEW e \in Events,
             Take(k, e) \/ TellsNobody(k, e) \/ Count(k, e)
      PROVE  IngestInv' /\ AckedInTables
  <2>1. UNCHANGED <<stream, bad, own, folded, address>>
    BY <1>1 DEF Take, TellsNobody, Count, rowVars, whoVars
  <2>2. \A j \in Consumers \ {k} : cons'[j] = cons[j]
    BY <1>1 DEF Take, TellsNobody, Count, Goes, StreamType
  <2>3. /\ cons'[k].pc = "after" => ~address
        /\ cons'[k].pc = "letter" => cons'[k].e \subseteq bad
    BY <1>1 DEF Take, TellsNobody, Count, Goes, StreamType
  <2>4. IngestInv' BY <2>1, <2>2, <2>3 DEF IngestInv
  <2> QED BY <2>1, <2>4 DEF AckedInTables
<1>2. ASSUME NEW k \in Consumers, NEW e \in Events, Write(k, e) \/ Fold(k, e)
      PROVE  IngestInv' /\ AckedInTables
  <2>1. UNCHANGED <<stream, bad, address>> /\ own \cup folded \cup {e} \subseteq own' \cup folded'
    BY <1>2 DEF Write, Fold, whoVars
  <2>2. \A j \in Consumers \ {k} : cons'[j] = cons[j]
    BY <1>2 DEF Write, Fold, Goes, StreamType
  <2>3. cons'[k].pc = "after" /\ cons'[k].e = {e}
    BY <1>2 DEF Write, Fold, Goes, IsAt, StreamType
  <2>4. IngestInv' BY <2>1, <2>2, <2>3 DEF IngestInv
  <2> QED BY <2>1, <2>4 DEF AckedInTables
<1>3. ASSUME NEW k \in Consumers, NEW e \in Events,
             \/ Ack(k, e) \/ Reject(k, e) \/ RejectFails(k, e)
             \/ Fail(k, e) \/ FailRaises(k, e)
      PROVE  IngestInv' /\ AckedInTables
  <2>1. /\ UNCHANGED <<bad, own, folded, address>>
        /\ \A d \in Events \ {e} : stream'[d] = stream[d]
    BY <1>3 DEF Ack, Reject, RejectFails, Fail, FailRaises, Excepts, rowVars, whoVars, StreamType
  <2>2. \A j \in Consumers : cons'[j] = cons[j] \/ cons'[j].pc \in {"idle", "down"}
    BY <1>3 DEF Ack, Reject, RejectFails, Fail, FailRaises, Rests, Stops, NoConsumer, StreamType
  <2>3. IngestInv' BY <2>1, <2>2 DEF IngestInv
  <2>4. stream[e].st = "pending" /\ stream'[e].st = "acked" =>
          e \in own' \cup folded' \cup letters' \/ ~address
    <3>1. CASE Ack(k, e) BY <3>1, <2>1 DEF Ack, Ackable, IsAt, IngestInv
    <3>2. CASE Reject(k, e) \/ RejectFails(k, e) BY <3>2 DEF Reject, RejectFails, StreamType
    <3>3. CASE Fail(k, e) \/ FailRaises(k, e)
      <4>1. stream[e].st = "pending" => Bumped(e).st = "pending" BY DEF Bumped, StreamType
      <4>2. stream[e].st = "pending" => FailedEntry(e).st \in {"pending", "dlq"}
        <5>1. Bumped(e) \in [st : {"absent", "pending", "acked", "dlq"}, tries : 0 .. MaxRetries]
          BY EntryType
        <5> QED BY <4>1, <5>1 DEF FailedEntry
      <4> QED BY <3>3, <4>1, <4>2 DEF Fail, FailRaises, StreamType
    <3> QED BY <1>3, <3>1, <3>2, <3>3
  <2> QED BY <2>1, <2>3, <2>4 DEF AckedInTables
<1>4. ASSUME NEW k \in Consumers, ConsumerRestarts(k) PROVE IngestInv' /\ AckedInTables
  <2>1. UNCHANGED <<own, folded, bad, stream, address>>
    BY <1>4 DEF ConsumerRestarts, rowVars, whoVars
  <2>2. \A j \in Consumers : cons'[j] = cons[j] \/ cons'[j].pc = "idle"
    BY <1>4 DEF ConsumerRestarts, Rests, NoConsumer, StreamType
  <2> QED BY <2>1, <2>2 DEF IngestInv, AckedInTables
<1> QED BY <1>1, <1>2, <1>3, <1>4 DEF Consuming, Ingest

\* The steps of the others leave the stream and its consumers alone, but for what
\* is published, and take no fact out of the tables.
LEMMA IngestIdle ==
  ASSUME TypeOK, IngestInv, World \/ Delivering \/ Digesting
  PROVE  IngestInv' /\ AckedInTables
<1> USE TypeParts
<1>1. CASE /\ UNCHANGED <<own, folded, cons>> /\ bad \subseteq bad' /\ (address' => address)
           /\ \A e \in Events : stream'[e].st = stream[e].st \/ stream'[e].st = "pending"
  BY <1>1 DEF IngestInv, AckedInTables
<1>2. ASSUME NEW e \in Events, Emit(e) PROVE IngestInv' /\ AckedInTables
  BY <1>1, <1>2 DEF Emit, rowVars, whoVars, StreamType
<1>3. (\E e \in Events : BecomesDue(e) \/ Ages(e)) \/ Leaves \/ WindowEnds \/ NextDay =>
        UNCHANGED <<own, folded, stream, cons, bad>> /\ (address' => address)
  BY DEF BecomesDue, Ages, Leaves, WindowEnds, NextDay, streamVars, rowVars, whoVars
<1>4. Delivering => UNCHANGED <<own, folded, stream, cons, bad, address>>
  BY DEF Delivering, Claim, Commit, Rollback, Deliver, NothingToSend, Sends, SendsLater, GivesUp,
         Verdict, streamVars, rowVars, whoVars
<1>5. Digesting => UNCHANGED <<own, folded, stream, cons, bad, address>>
  BY DEF Digesting, DigestClaim, DigestSends, DigestFails, DigestCommits, DigestRollback,
         streamVars, rowVars, whoVars
<1> QED BY <1>1, <1>2, <1>3, <1>4, <1>5 DEF World

-----------------------------------------------------------------------------
(* Mail: the locks, the digests, the letters.                              *)

\* What the world and the consumers do cannot disturb mail: no new row is
\* locked, held by a digest, mailed or given up.
LEMMA QuietStep ==
  ASSUME TypeOK, LockInv, DigestInv, MailInv, LetterInv, Quiet
  PROVE  LockInv' /\ DigestInv' /\ MailInv' /\ LetterInv'
<1> USE NotificationsAssumption
<1>1. LockInv'
  <2>1. \A e \in Events : (e \in own <=> outbox[e].st # "none")'
    BY DEF Quiet, LockInv
  <2>2. \A e \in Events : (outbox[e].st = "pending" => outbox[e].tries < MaxAttempts)'
    BY DEF Quiet, LockInv
  <2>3. ASSUME NEW w \in Workers, NEW e \in Events, tx'[w][e] # "none"
        PROVE  /\ outbox'[e].st = "pending" /\ outbox'[e].tries = outbox[e].tries
               /\ \A v \in Workers : tx'[v][e] # "none" => v = w
    BY <2>3 DEF Quiet, LockInv
  <2>4. \A w \in Workers, e \in Events :
          tx'[w][e] = "retry" => outbox'[e].tries + 1 < MaxAttempts
    BY <2>3 DEF Quiet, LockInv
  <2> QED BY <2>1, <2>2, <2>3, <2>4 DEF LockInv
<1>2. DigestInv'
  <2>1. \A e \in Events : outbox[e].st \in {"deferred", "digested"} => outbox'[e].st = outbox[e].st
    BY DEF Quiet
  <2> QED BY <2>1 DEF Quiet, DigestInv
<1>3. MailInv'
  <2> SUFFICES ASSUME NEW e \in Events, e \notin undone' \cup unsure', mails'[e] # 0
               PROVE  mails'[e] = 1 /\ Marked(e)'
    BY DEF MailInv
  <2>1. mails[e] = 1 /\ Marked(e) BY DEF MailInv, Quiet
  <2>2. Marked(e)' BY <2>1 DEF Marked, Quiet
  <2> QED BY <2>1, <2>2 DEF Quiet
<1>4. LetterInv'
  <2>1. ASSUME NEW e \in Events, outbox'[e].st = "dead", address', template' PROVE e \in letters'
    BY <2>1 DEF Quiet, LetterInv, LettersAreTrue
  <2>2. ASSUME NEW e \in Events, e \in letters'
        PROVE  \/ e \in bad' \cup undone' \/ outbox'[e].st = "dead"
               \/ \E w \in Workers : tx'[w][e] = "dead"
    BY <2>2 DEF Quiet, LetterInv, LettersAreTrue
  <2>3. \A w \in Workers, e \in Events :
          tx'[w][e] = "dead" => e \in letters' \/ ~address' \/ ~template'
    BY DEF Quiet, LetterInv
  <2> QED BY <2>1, <2>2, <2>3 DEF LetterInv, LettersAreTrue
<1> QED BY <1>1, <1>2, <1>3, <1>4

\* A claim locks rows that are due and that nobody has locked.
LEMMA ClaimStep ==
  ASSUME TypeOK, LockInv, DigestInv, MailInv, LetterInv, NEW w \in Workers, Claim(w)
  PROVE  LockInv' /\ DigestInv' /\ MailInv' /\ LetterInv'
<1> USE TypeParts
<1>1. /\ UNCHANGED <<own, outbox, letters, bad, address, template, dig, mails, undone, unsure>>
      /\ \A e \in Events : tx[w][e] = "none"
      /\ \A v \in Workers, e \in Events :
            tx'[v][e] = IF v = w THEN IF e \in Due THEN "todo" ELSE "none" ELSE tx[v][e]
  BY DEF Claim, Working, TxType, streamVars, rowVars, digestVars, whoVars, mailVars
<1>2. \A e \in Due : outbox[e].st = "pending" /\ \A v \in Workers : tx[v][e] = "none"
  BY DEF Due, Locked
<1>3. LockInv' BY <1>1, <1>2 DEF LockInv
<1>4. DigestInv' BY <1>1 DEF DigestInv
<1>5. MailInv'
  <2>1. \A e \in Events : Marked(e) => Marked(e)' BY <1>1 DEF Marked
  <2> QED BY <1>1, <2>1 DEF MailInv
<1>6. LetterInv'
  <2>1. \A v \in Workers, e \in Events : tx'[v][e] = "dead" <=> tx[v][e] = "dead" BY <1>1
  <2> QED BY <1>1, <2>1 DEF LetterInv, LettersAreTrue
<1> QED BY <1>3, <1>4, <1>5, <1>6

\* A mail that its sender does not know of: none, or one in doubt.
MailedInDoubt(e) ==
    \/ UNCHANGED <<mails, unsure>>
    \/ mails' = MailedWith({e}) /\ unsure' = unsure \cup {e}

\* A verdict on a locked row: its mail has not gone out before, and giving it
\* up is written down at once.
LEMMA DeliverStep ==
  ASSUME TypeOK, LockInv, DigestInv, MailInv, LetterInv,
         NEW w \in Workers, NEW e \in Events, Deliver(w, e)
  PROVE  LockInv' /\ DigestInv' /\ MailInv' /\ LetterInv'
<1> USE TypeParts, NotificationsAssumption
<1>1. PICK v \in Verdicts :
        /\ v \notin {"none", "todo"}
        /\ tx[w][e] = "todo" /\ tx' = [tx EXCEPT ![w][e] = v]
        /\ UNCHANGED <<own, outbox, bad, address, template, dig, undone>>
        /\ v = "retry" => ~LastTry(e)
        /\ letters' = letters \/ (v = "dead" /\ letters' = letters \cup {e})
        /\ v = "dead" => e \in letters' \/ ~address \/ ~template
        /\ IF v = "sent" THEN mails' = MailedWith({e}) /\ unsure' = unsure ELSE MailedInDoubt(e)
  <2>1. CASE NothingToSend(w, e)
    BY <2>1 DEF NothingToSend, Verdict, Verdicts, MailedInDoubt, streamVars, whoVars, digestVars
  <2>2. CASE Sends(w, e)
    BY <2>2 DEF Sends, Verdict, Verdicts, streamVars, whoVars, digestVars
  <2>3. CASE SendsLater(w, e)
    BY <2>3 DEF SendsLater, MaybeMailed, MailedInDoubt, Verdict, Verdicts, streamVars, whoVars,
                digestVars
  <2>4. CASE GivesUp(w, e)
    BY <2>4 DEF GivesUp, MaybeMailed, MailedInDoubt, LettersWith, Verdict, Verdicts, streamVars,
                whoVars, digestVars
  <2> QED BY <2>1, <2>2, <2>3, <2>4 DEF Deliver
<1>2. \A u \in Workers, d \in Events :
        tx'[u][d] = IF u = w /\ d = e THEN v ELSE tx[u][d]
  BY <1>1 DEF TxType
<1>3. /\ outbox[e].st = "pending" /\ outbox[e].tries \in Nat
      /\ \A u \in Workers : u # w => tx[u][e] = "none"
      /\ \A q \in Runners : e \notin dig[q].items
  BY <1>1 DEF LockInv, DigestInv, RowType, OutboxRow
<1>4. LockInv' BY <1>1, <1>2, <1>3 DEF LockInv, LastTry
<1>5. DigestInv' BY <1>1 DEF DigestInv
<1>6. MailInv'
  <2> SUFFICES ASSUME NEW d \in Events, d \notin undone' \cup unsure', mails'[d] # 0
               PROVE  mails'[d] = 1 /\ Marked(d)'
    BY DEF MailInv
  <2>1. /\ unsure \subseteq unsure'
        /\ d # e \/ v # "sent" => mails'[d] = mails[d]
        /\ d = e /\ v = "sent" => mails'[d] = Counted(mails[d])
    BY <1>1 DEF MailedInDoubt, MailedWith
  <2>2. CASE d # e
    <3>1. mails'[d] = 1 /\ Marked(d) BY <1>1, <2>1, <2>2 DEF MailInv
    <3> QED BY <1>1, <1>2, <2>2, <3>1 DEF Marked
  <2>3. CASE d = e
    <3>1. ~Marked(e) BY <1>1, <1>3 DEF Marked
    <3>2. mails[e] = 0 BY <1>1, <2>1, <2>3, <3>1 DEF MailInv
    <3>3. v = "sent" /\ mails'[e] = 1 BY <2>1, <2>3, <3>2 DEF Counted
    <3>4. Marked(e)' BY <1>2, <3>3 DEF Marked
    <3> QED BY <2>3, <3>3, <3>4
  <2> QED BY <2>2, <2>3
<1>7. LetterInv'
  <2>1. \A u \in Workers, d \in Events :
          tx'[u][d] = "dead" => d \in letters' \/ ~address' \/ ~template'
    BY <1>1, <1>2 DEF LetterInv
  <2>2. \A d \in Events : outbox'[d].st = "dead" /\ address' /\ template' => d \in letters'
    BY <1>1 DEF LetterInv, LettersAreTrue
  <2>3. \A d \in Events, u \in Workers : tx[u][d] = "dead" => tx'[u][d] = "dead"
    BY <1>1, <1>2
  <2>4. ASSUME NEW d \in Events, d \in letters'
        PROVE  d \in bad' \cup undone' \/ outbox'[d].st = "dead" \/ \E u \in Workers : tx'[u][d] = "dead"
    <3>1. CASE d \in letters BY <1>1, <2>3, <3>1 DEF LetterInv, LettersAreTrue
    <3>2. CASE d \notin letters
      <4>1. d = e /\ v = "dead" BY <1>1, <2>4, <3>2
      <4>2. tx'[w][d] = "dead" BY <1>2, <4>1
      <4> QED BY <4>2
    <3> QED BY <3>1, <3>2
  <2> QED BY <2>1, <2>2, <2>4 DEF LetterInv, LettersAreTrue
<1> QED BY <1>4, <1>5, <1>6, <1>7

\* A commit writes the verdicts on rows that were locked, and so pending.
LEMMA CommitStep ==
  ASSUME TypeOK, LockInv, DigestInv, MailInv, LetterInv, NEW w \in Workers, Commit(w)
  PROVE  LockInv' /\ DigestInv' /\ MailInv' /\ LetterInv'
<1> USE TypeParts, NotificationsAssumption
<1>1. /\ UNCHANGED <<own, letters, bad, address, template, dig, mails, undone, unsure>>
      /\ \A v \in Workers, e \in Events : tx'[v][e] = IF v = w THEN "none" ELSE tx[v][e]
  BY DEF Commit, TxType, streamVars, digestVars, whoVars, mailVars
<1>2. \A e \in Events : tx[w][e] = "none" => outbox'[e] = outbox[e] BY DEF Commit
<1>3. ASSUME NEW e \in Events, tx[w][e] # "none"
      PROVE  /\ outbox[e].st = "pending" /\ \A v \in Workers : tx'[v][e] = "none"
             /\ outbox'[e].st = IF tx[w][e] = "retry" THEN "pending" ELSE tx[w][e]
             /\ outbox'[e].st \in Verdicts \cup {"pending"}
             /\ outbox'[e].st # "none"
             /\ outbox'[e].st = "pending" => outbox'[e].tries < MaxAttempts
  <2>1. outbox'[e] = Settled(e, tx[w][e]) /\ tx[w][e] # "todo" BY <1>3 DEF Commit
  <2>2. tx[w][e] \in Verdicts /\ tx[w][e] # "pending" BY DEF TxType, Verdicts
  <2>3. outbox[e].st = "pending" /\ \A v \in Workers : tx'[v][e] = "none"
    BY <1>1, <1>3 DEF LockInv
  <2>4. CASE tx[w][e] = "retry" BY <1>3, <2>1, <2>3, <2>4, SettledRow DEF LockInv
  <2>5. CASE tx[w][e] # "retry" BY <1>3, <2>1, <2>2, <2>3, <2>5, SettledRow
  <2> QED BY <2>4, <2>5
<1>4. LockInv'
  <2>1. \A e \in Events : (e \in own <=> outbox[e].st # "none")'
    BY <1>1, <1>2, <1>3 DEF LockInv
  <2>2. \A e \in Events : (outbox[e].st = "pending" => outbox[e].tries < MaxAttempts)'
    BY <1>2, <1>3 DEF LockInv
  <2>3. ASSUME NEW v \in Workers, NEW e \in Events, tx'[v][e] # "none"
        PROVE  tx'[v][e] = tx[v][e] /\ outbox'[e] = outbox[e]
    BY <1>1, <1>2, <1>3, <2>3
  <2>4. \A v \in Workers, e \in Events : tx'[v][e] # "none" => tx[v][e] # "none"
    BY <2>3
  <2> QED BY <2>1, <2>2, <2>3, <2>4 DEF LockInv
<1>5. DigestInv'
  <2>1. \A e \in Events : outbox[e].st \in {"deferred", "digested"} => outbox'[e] = outbox[e]
    BY <1>2, <1>3
  <2> QED BY <1>1, <2>1 DEF DigestInv
<1>6. MailInv'
  <2> SUFFICES ASSUME NEW e \in Events, e \notin undone' \cup unsure', mails'[e] # 0
               PROVE  mails'[e] = 1 /\ Marked(e)'
    BY DEF MailInv
  <2>1. mails'[e] = 1 /\ Marked(e) BY <1>1 DEF MailInv
  <2>2. CASE tx[w][e] = "sent" BY <2>1, <2>2, <1>3 DEF Marked
  <2>3. CASE tx[w][e] # "sent" /\ tx[w][e] # "none"
    <3>1. \E q \in Runners : dig[q].pc = "answered" /\ e \in dig[q].items
      BY <2>1, <2>3, <1>3 DEF Marked, LockInv
    <3> QED BY <3>1, <2>1, <1>1 DEF Marked
  <2>4. CASE tx[w][e] = "none" BY <2>1, <2>4, <1>1, <1>2 DEF Marked
  <2> QED BY <2>2, <2>3, <2>4
<1>7. LetterInv'
  <2>1. \A v \in Workers, e \in Events :
          tx'[v][e] = "dead" => e \in letters' \/ ~address' \/ ~template'
    BY <1>1 DEF LetterInv
  <2>2. \A e \in Events : outbox'[e].st = "dead" /\ address' /\ template' => e \in letters'
    BY <1>1, <1>2, <1>3 DEF LetterInv, LettersAreTrue
  <2>3. ASSUME NEW e \in Events, e \in letters'
        PROVE  e \in bad' \cup undone' \/ outbox'[e].st = "dead" \/ \E v \in Workers : tx'[v][e] = "dead"
    <3>1. CASE e \in bad \cup undone BY <3>1, <1>1
    <3>2. CASE outbox[e].st = "dead" BY <3>2, <1>2, <1>3
    <3>3. ASSUME NEW v \in Workers, tx[v][e] = "dead"
          PROVE  outbox'[e].st = "dead" \/ tx'[v][e] = "dead"
      BY <3>3, <1>1, <1>3
    <3> QED BY <2>3, <1>1, <3>1, <3>2, <3>3 DEF LetterInv, LettersAreTrue
  <2> QED BY <2>1, <2>2, <2>3 DEF LetterInv, LettersAreTrue
<1> QED BY <1>4, <1>5, <1>6, <1>7

\* A rollback forgets what was mailed or given up: those may go out again.
LEMMA RollbackStep ==
  ASSUME TypeOK, LockInv, DigestInv, MailInv, LetterInv, NEW w \in Workers, Rollback(w)
  PROVE  LockInv' /\ DigestInv' /\ MailInv' /\ LetterInv'
<1> USE TypeParts
<1>1. /\ UNCHANGED <<own, outbox, letters, bad, address, template, dig, mails, unsure>>
      /\ \A v \in Workers, e \in Events : tx'[v][e] = IF v = w THEN "none" ELSE tx[v][e]
      /\ \A e \in Events : e \in undone' <=> e \in undone \/ tx[w][e] \in {"sent", "dead"}
  BY DEF Rollback, TxType, streamVars, rowVars, digestVars, whoVars
<1>2. LockInv' BY <1>1 DEF LockInv
<1>3. DigestInv' BY <1>1 DEF DigestInv
<1>4. MailInv'
  <2> SUFFICES ASSUME NEW e \in Events, e \notin undone' \cup unsure', mails'[e] # 0
               PROVE  mails'[e] = 1 /\ Marked(e)'
    BY DEF MailInv
  <2>1. mails'[e] = 1 /\ Marked(e) /\ tx[w][e] # "sent" BY <1>1 DEF MailInv
  <2> QED BY <2>1, <1>1 DEF Marked
<1>5. LetterInv'
  <2>1. ASSUME NEW e \in Events, e \in letters'
        PROVE  e \in bad' \cup undone' \/ outbox'[e].st = "dead" \/ \E v \in Workers : tx'[v][e] = "dead"
    BY <1>1, <2>1 DEF LetterInv, LettersAreTrue
  <2> QED BY <1>1, <2>1 DEF LetterInv, LettersAreTrue
<1> QED BY <1>2, <1>3, <1>4, <1>5

\* A runner takes what no runner of its day holds; what another day's holds may
\* be mailed again.
LEMMA DigestClaimStep ==
  ASSUME TypeOK, LockInv, DigestInv, MailInv, LetterInv, NEW q \in Runners, DigestClaim(q)
  PROVE  LockInv' /\ DigestInv' /\ MailInv' /\ LetterInv'
<1> USE TypeParts
<1>1. /\ UNCHANGED <<own, outbox, letters, bad, address, template, tx, mails, unsure>>
      /\ undone \subseteq undone'
      /\ dig[q].pc = "idle" /\ \A r \in Runners : dig[r].day # day
      /\ undone' = undone \cup (Deferred \cap UNION {dig[r].items : r \in {p \in Runners : dig[p].day # day}})
      /\ \A r \in Runners :
            dig'[r] = IF r = q THEN [pc |-> "claimed", day |-> day, items |-> Deferred] ELSE dig[r]
  BY DEF DigestClaim, DayFree, DigType, streamVars, rowVars, whoVars
<1>2. \A e \in Events, r \in Runners : e \in Deferred /\ e \in dig[r].items => e \in undone'
  BY <1>1
<1>3. day # 0 BY NotificationsAssumption DEF DigType, Days
<1>4. LockInv' BY <1>1 DEF LockInv
<1>5. DigestInv'
  <2>1. \A r \in Runners : IF dig'[r].pc = "idle" THEN dig'[r].items = {} ELSE dig'[r].day # 0
    BY <1>1, <1>3 DEF DigestInv
  <2>2. ASSUME NEW r \in Runners, NEW e \in Events, e \in dig'[r].items
        PROVE  /\ outbox'[e].st \in {"deferred", "digested"}
               /\ e \notin undone' => outbox'[e].st = "deferred"
    <3>1. CASE r = q
      <4>1. e \in Deferred BY <1>1, <2>2, <3>1
      <4> QED BY <4>1, <1>1 DEF Deferred
    <3>2. CASE r # q
      <4>1. e \in dig[r].items BY <1>1, <2>2, <3>2
      <4> QED BY <4>1, <1>1 DEF DigestInv
    <3> QED BY <3>1, <3>2
  <2>3. ASSUME NEW r \in Runners, NEW p \in Runners, NEW e \in Events,
               e \in dig'[r].items, e \in dig'[p].items, e \notin undone'
        PROVE  r = p
    <3>1. CASE r # q /\ p # q BY <3>1, <2>3, <1>1 DEF DigestInv
    <3>2. CASE r = q \/ p = q BY <3>2, <2>3, <1>1, <1>2
    <3> QED BY <3>1, <3>2
  <2> QED BY <2>1, <2>2, <2>3 DEF DigestInv
<1>6. MailInv'
  <2> SUFFICES ASSUME NEW e \in Events, e \notin undone' \cup unsure', mails'[e] # 0
               PROVE  mails'[e] = 1 /\ Marked(e)'
    BY DEF MailInv
  <2>1. mails'[e] = 1 /\ Marked(e) BY <1>1 DEF MailInv
  <2> QED BY <2>1, <1>1 DEF Marked
<1>7. LetterInv' BY <1>1 DEF LetterInv, LettersAreTrue
<1> QED BY <1>4, <1>5, <1>6, <1>7

\* What a runner mails had not been mailed, unless it may be again.
LEMMA DigestSendsStep ==
  ASSUME TypeOK, LockInv, DigestInv, MailInv, LetterInv, NEW q \in Runners, DigestSends(q)
  PROVE  LockInv' /\ DigestInv' /\ MailInv' /\ LetterInv'
<1> USE TypeParts
<1>1. /\ UNCHANGED <<own, outbox, letters, bad, address, template, tx, undone, unsure>>
      /\ dig[q].pc = "claimed"
      /\ \A e \in Events : mails'[e] = IF e \in dig[q].items THEN Counted(mails[e]) ELSE mails[e]
      /\ \A r \in Runners : /\ dig'[r].pc = IF r = q THEN "answered" ELSE dig[r].pc
                            /\ dig'[r].items = dig[r].items /\ dig'[r].day = dig[r].day
  BY DEF DigestSends, MailedWith, DigType, streamVars, rowVars, whoVars
<1>2. LockInv' BY <1>1 DEF LockInv
<1>3. DigestInv' BY <1>1 DEF DigestInv
<1>4. MailInv'
  <2> SUFFICES ASSUME NEW e \in Events, e \notin undone' \cup unsure', mails'[e] # 0
               PROVE  mails'[e] = 1 /\ Marked(e)'
    BY DEF MailInv
  <2>1. CASE e \notin dig[q].items
    <3>1. mails'[e] = 1 /\ Marked(e) BY <2>1, <1>1 DEF MailInv
    <3> QED BY <3>1, <1>1 DEF Marked
  <2>2. CASE e \in dig[q].items
    <3>1. outbox[e].st = "deferred" /\ \A r \in Runners : e \in dig[r].items => r = q
      BY <2>2, <1>1 DEF DigestInv
    <3>2. ~Marked(e) BY <3>1, <1>1 DEF Marked, LockInv
    <3>3. mails[e] = 0 BY <3>2, <1>1 DEF MailInv
    <3>4. mails'[e] = 1 BY <3>3, <2>2, <1>1 DEF Counted
    <3>5. Marked(e)' BY <2>2, <1>1 DEF Marked
    <3> QED BY <3>4, <3>5
  <2> QED BY <2>1, <2>2
<1>5. LetterInv' BY <1>1 DEF LetterInv, LettersAreTrue
<1> QED BY <1>2, <1>3, <1>4, <1>5

\* A runner that is told of no mail keeps no items; whether the relay took it or
\* not, it had not mailed them before.
LEMMA DigestFailsStep ==
  ASSUME TypeOK, LockInv, DigestInv, MailInv, LetterInv, NEW q \in Runners, DigestFails(q)
  PROVE  LockInv' /\ DigestInv' /\ MailInv' /\ LetterInv'
<1> USE TypeParts
<1>1. /\ UNCHANGED <<own, outbox, letters, bad, address, template, tx, undone>>
      /\ dig[q].pc = "claimed" /\ unsure \subseteq unsure'
      /\ \A e \in Events : e \notin unsure' => mails'[e] = mails[e]
      /\ \A r \in Runners : IF r = q THEN /\ dig'[q].pc = "answered" /\ dig'[q].items = {}
                                         /\ dig'[q].day = dig[q].day
                            ELSE dig'[r] = dig[r]
  <2>1. \/ UNCHANGED <<mails, unsure>>
        \/ mails' = MailedWith(dig[q].items) /\ unsure' = unsure \cup dig[q].items
    BY DEF DigestFails, MaybeMailed
  <2>2. unsure \subseteq unsure' /\ \A e \in Events : e \notin unsure' => mails'[e] = mails[e]
    BY <2>1 DEF MailedWith
  <2>3. dig' = [dig EXCEPT ![q].pc = "answered", ![q].items = {}] BY DEF DigestFails
  <2>4. \A r \in Runners : IF r = q THEN /\ dig'[q].pc = "answered" /\ dig'[q].items = {}
                                         /\ dig'[q].day = dig[q].day
                              ELSE dig'[r] = dig[r]
    BY <2>3 DEF DigType
  <2> QED BY <2>2, <2>4 DEF DigestFails, streamVars, rowVars, whoVars
<1>2. LockInv' BY <1>1 DEF LockInv
<1>3. DigestInv' BY <1>1 DEF DigestInv
<1>4. MailInv'
  <2> SUFFICES ASSUME NEW e \in Events, e \notin undone' \cup unsure', mails'[e] # 0
               PROVE  mails'[e] = 1 /\ Marked(e)'
    BY DEF MailInv
  <2>1. mails'[e] = 1 /\ Marked(e) BY <1>1 DEF MailInv
  <2> QED BY <2>1, <1>1 DEF Marked
<1>5. LetterInv' BY <1>1 DEF LetterInv, LettersAreTrue
<1> QED BY <1>2, <1>3, <1>4, <1>5

\* A runner that is undone after it mailed leaves its items to be mailed again.
LEMMA DigestRollbackStep ==
  ASSUME TypeOK, LockInv, DigestInv, MailInv, LetterInv, NEW q \in Runners, DigestRollback(q)
  PROVE  LockInv' /\ DigestInv' /\ MailInv' /\ LetterInv'
<1> USE TypeParts
<1>1. /\ UNCHANGED <<own, outbox, letters, bad, address, template, tx, mails, unsure>>
      /\ undone \subseteq undone'
      /\ dig[q].pc = "answered" => dig[q].items \subseteq undone'
      /\ \A r \in Runners : dig'[r] = IF r = q THEN NoDigest ELSE dig[r]
  BY DEF DigestRollback, DigType, streamVars, rowVars, whoVars
<1>2. LockInv' BY <1>1 DEF LockInv
<1>3. DigestInv' BY <1>1 DEF DigestInv, NoDigest
<1>4. MailInv'
  <2> SUFFICES ASSUME NEW e \in Events, e \notin undone' \cup unsure', mails'[e] # 0
               PROVE  mails'[e] = 1 /\ Marked(e)'
    BY DEF MailInv
  <2>1. mails'[e] = 1 /\ Marked(e) BY <1>1 DEF MailInv
  <2> QED BY <2>1, <1>1 DEF Marked
<1>5. LetterInv' BY <1>1 DEF LetterInv, LettersAreTrue
<1> QED BY <1>2, <1>3, <1>4, <1>5

\* A runner that commits marks what it mailed.
LEMMA DigestCommitsStep ==
  ASSUME TypeOK, LockInv, DigestInv, MailInv, LetterInv, NEW q \in Runners, DigestCommits(q)
  PROVE  LockInv' /\ DigestInv' /\ MailInv' /\ LetterInv'
<1> USE TypeParts
<1>1. /\ UNCHANGED <<own, letters, bad, address, template, tx, mails, undone, unsure>>
      /\ \A r \in Runners : dig'[r] = IF r = q THEN NoDigest ELSE dig[r]
  BY DEF DigestCommits, DigType, streamVars, whoVars, mailVars
<1>2. \A e \in Events : e \notin dig[q].items => outbox'[e] = outbox[e]
  BY DEF DigestCommits, FoldedIn
<1>3. \A e \in Events : e \in dig[q].items =>
        outbox[e].st \in {"deferred", "digested"} /\ outbox'[e].st = "digested"
  BY DEF DigestCommits, FoldedIn, RowType, OutboxRow, DigestInv
<1>4. LockInv'
  <2>1. \A e \in Events : (e \in own <=> outbox[e].st # "none")'
    BY <1>1, <1>2, <1>3 DEF LockInv
  <2>2. \A e \in Events : (outbox[e].st = "pending" => outbox[e].tries < MaxAttempts)'
    BY <1>2, <1>3 DEF LockInv
  <2>3. \A w \in Workers, e \in Events : tx[w][e] # "none" => outbox'[e] = outbox[e]
    BY <1>2, <1>3 DEF LockInv
  <2> QED BY <1>1, <2>1, <2>2, <2>3 DEF LockInv
<1>5. DigestInv'
  <2>1. ASSUME NEW r \in Runners, NEW e \in Events, e \in dig'[r].items
        PROVE  /\ r # q /\ e \in dig[r].items
               /\ e \notin undone' => e \notin dig[q].items
    BY <1>1, <2>1 DEF NoDigest, DigestInv
  <2>2. \A r \in Runners : IF dig'[r].pc = "idle" THEN dig'[r].items = {} ELSE dig'[r].day # 0
    BY <1>1 DEF NoDigest, DigestInv
  <2>3. ASSUME NEW r \in Runners, NEW e \in Events, e \in dig'[r].items
        PROVE  /\ outbox'[e].st \in {"deferred", "digested"}
               /\ e \notin undone' => /\ outbox'[e].st = "deferred"
                                      /\ \A p \in Runners : e \in dig'[p].items => p = r
    BY <1>1, <1>2, <1>3, <2>1, <2>3 DEF DigestInv
  <2> QED BY <2>2, <2>3 DEF DigestInv
<1>6. MailInv'
  <2> SUFFICES ASSUME NEW e \in Events, e \notin undone' \cup unsure', mails'[e] # 0
               PROVE  mails'[e] = 1 /\ Marked(e)'
    BY DEF MailInv
  <2>1. mails'[e] = 1 /\ Marked(e) BY <1>1 DEF MailInv
  <2>2. CASE e \in dig[q].items BY <2>1, <2>2, <1>3 DEF Marked
  <2>3. CASE e \notin dig[q].items BY <2>1, <2>3, <1>1, <1>2 DEF Marked
  <2> QED BY <2>2, <2>3
<1>7. LetterInv'
  <2>1. \A e \in Events : outbox'[e].st = "dead" <=> outbox[e].st = "dead" BY <1>2, <1>3
  <2> QED BY <1>1, <2>1 DEF LetterInv, LettersAreTrue
<1> QED BY <1>4, <1>5, <1>6, <1>7

-----------------------------------------------------------------------------
(* The theorems.                                                           *)

LEMMA InitInv == Init => Inv
<1> SUFFICES ASSUME Init PROVE Inv OBVIOUS
<1> USE NotificationsAssumption DEF Init
<1>1. StreamType BY DEF StreamType, NoConsumer
<1>2. RowType BY DEF RowType, OutboxRow, NoRow, Statuses
<1>3. TxType BY DEF TxType, Verdicts
<1>4. DigType /\ FaultType BY DEF DigType, FaultType, NoDigest, Days
<1>5. TypeOK
  BY <1>1, <1>2, <1>3, <1>4 DEF TypeOK, StreamType, RowType, TxType, DigType, FaultType
<1>6. IngestInv BY DEF IngestInv, NoConsumer
<1>7. LockInv BY DEF LockInv, NoRow
<1>8. DigestInv BY DEF DigestInv, NoDigest
<1>9. MailInv /\ LetterInv BY DEF MailInv, LetterInv, LettersAreTrue, NoRow
<1> QED BY <1>5, <1>6, <1>7, <1>8, <1>9 DEF Inv

LEMMA StepInv ==
  ASSUME Inv, [Next]_vars
  PROVE  Inv' /\ (AckedInTables \/ UNCHANGED vars)
<1> USE DEF Inv
<1>1. CASE World BY <1>1, WorldEffect, QuietStep, IngestIdle
<1>2. CASE Consuming BY <1>2, ConsumingEffect, QuietStep, IngestStep
<1>3. CASE Delivering
  <2>1. TypeOK' /\ IngestInv' /\ AckedInTables BY <1>3, DeliveringTypes, IngestIdle
  <2>2. LockInv' /\ DigestInv' /\ MailInv' /\ LetterInv'
    BY <1>3, ClaimStep, CommitStep, RollbackStep, DeliverStep DEF Delivering
  <2> QED BY <2>1, <2>2
<1>4. CASE Digesting
  <2>1. TypeOK' /\ IngestInv' /\ AckedInTables BY <1>4, DigestingTypes, IngestIdle
  <2>2. LockInv' /\ DigestInv' /\ MailInv' /\ LetterInv'
    BY <1>4, DigestClaimStep, DigestSendsStep, DigestFailsStep, DigestCommitsStep,
       DigestRollbackStep DEF Digesting
  <2> QED BY <2>1, <2>2
<1>5. CASE UNCHANGED vars
  <2> USE <1>5 DEF vars, streamVars, rowVars, whoVars, digestVars, mailVars
  <2>1. TypeOK' BY DEF TypeOK
  <2>2. IngestInv' BY DEF IngestInv
  <2>3. LockInv' /\ DigestInv' BY DEF LockInv, DigestInv
  <2>4. MailInv' BY DEF MailInv, Marked
  <2>5. LetterInv' BY DEF LetterInv, LettersAreTrue
  <2> QED BY <2>1, <2>2, <2>3, <2>4, <2>5
<1> QED BY <1>1, <1>2, <1>3, <1>4, <1>5, NextSplit

\* However many consumers read the stream and die over it, no step acknowledges
\* an entry before its fact is in the tables, unless its recipient has left.
THEOREM FactsKept == Spec => []TypeOK /\ NoFactLost
<1>1. Inv => TypeOK BY DEF Inv
<1>2. Inv /\ [Next]_vars =>
        [\A e \in Events : stream[e].st = "pending" /\ stream'[e].st = "acked" =>
                             e \in own' \cup folded' \cup letters' \/ ~address]_vars
  BY StepInv DEF AckedInTables
<1>3. Inv /\ [Next]_vars => Inv' BY StepInv
<1> QED BY InitInv, <1>1, <1>2, <1>3, PTL DEF Spec, NoFactLost

\* However many delivery workers and digest runners there are, nothing is mailed
\* twice unless a transaction that had mailed was undone, a digest was still open
\* at midnight, or a send that raised had been taken by the relay.
THEOREM MailsOnce == Spec => []MailedOnce
<1>1. Inv => MailedOnce BY DEF Inv, MailInv, MailedOnce, TypeOK
<1>2. Inv /\ [Next]_vars => Inv' BY StepInv
<1> QED BY InitInv, <1>1, <1>2, PTL DEF Spec

\* Whatever is given up towards an address, in a category with a template, is in
\* the dead letters, and only what was given up or did not decode is, but for
\* batches that were undone.
THEOREM LettersTrue == Spec => []LettersAreTrue
<1>1. Inv => LettersAreTrue BY DEF Inv, LetterInv
<1>2. Inv /\ [Next]_vars => Inv' BY StepInv
<1> QED BY InitInv, <1>1, <1>2, PTL DEF Spec

=============================================================================
