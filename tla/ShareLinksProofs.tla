--------------------------- MODULE ShareLinksProofs ---------------------------
(***************************************************************************)
(* Theorems about ShareLinks, for any number of links, recipients and      *)
(* requests under way.                                                     *)
(***************************************************************************)
EXTENDS ShareLinks, TLAPS

OnLink == {"check", "mail", "record", "page", "announce", "answer", "insert"}

\* What the program counter of a request says about its other fields.
GoodOp(o) ==
    /\ o.pc \in OnLink => o.l \in Links
    /\ o.pc = "record" => o.kind \in {"sent", "failed"}
    /\ o.pc = "insert" => o.kind \in Stances
    /\ o.pc = "answer" => o.kind \in Stances \cup {"withdraw"}

Sound == TypeOK /\ \A r \in Requests : GoodOp(op[r])

LEMMA IdleIsGood == Idle \in Request /\ GoodOp(Idle) /\ NoLink \in LinkRow
  BY DEF Idle, Request, GoodOp, OnLink, PCs, Paths, Stances, NoLink, LinkRow, Deliveries

\* One request goes on, the others stay.
LEMMA OneMoves ==
    ASSUME Sound, NEW r \in Requests, NEW rec \in Request, GoodOp(rec),
           op' = [op EXCEPT ![r] = rec]
    PROVE  op' \in [Requests -> Request] /\ \A q \in Requests : GoodOp(op'[q])
  BY DEF Sound, TypeOK

LEMMA DoneMoves ==
    ASSUME Sound, NEW r \in Requests, Done(r)
    PROVE  /\ op' \in [Requests -> Request] /\ \A q \in Requests : GoodOp(op'[q])
           /\ asked' \in 0 .. MaxRequests
  BY OneMoves, IdleIsGood DEF Done, Step, Sound, TypeOK

LEMMA StepMoves ==
    ASSUME Sound, NEW r \in Requests, NEW rec \in Request, GoodOp(rec), Step(r, rec)
    PROVE  /\ op' \in [Requests -> Request] /\ \A q \in Requests : GoodOp(op'[q])
           /\ asked' \in 0 .. MaxRequests
  BY OneMoves DEF Step, Sound, TypeOK

LEMMA StartMoves ==
    ASSUME Sound, NEW r \in Requests, NEW rec \in Request, GoodOp(rec), Start(r, rec)
    PROVE  /\ op' \in [Requests -> Request] /\ \A q \in Requests : GoodOp(op'[q])
           /\ asked' \in 0 .. MaxRequests
  <1>1. asked' \in 0 .. MaxRequests
    BY ShareAssumption DEF Start, Sound, TypeOK
  <1> QED BY <1>1, OneMoves DEF Start

LEMMA WithLinkIsGood ==
    ASSUME NEW req \in Request, NEW l \in Links
    PROVE  WithLink(req, l) \in Request /\ GoodOp(WithLink(req, l))
  <1>1. CASE req.path = "none"
    BY <1>1, IdleIsGood DEF WithLink
  <1>2. CASE req.path = "send"
    <2>1. WithLink(req, l) = [req EXCEPT !.pc = "check", !.l = l]
      BY <1>2 DEF WithLink
    <2> QED BY <2>1 DEF Request, PCs, GoodOp, OnLink
  <1>3. CASE req.path = "email"
    <2>1. WithLink(req, l) = [req EXCEPT !.pc = "mail", !.l = l, !.to = NoOne]
      BY <1>3 DEF WithLink
    <2> QED BY <2>1 DEF Request, PCs, GoodOp, OnLink
  <1> QED BY <1>1, <1>2, <1>3 DEF Request, Paths

\* Forget() only shortens what a request has seen.
LEMMA ForgetMoves ==
    ASSUME NEW o \in [Requests -> Request], \A q \in Requests : GoodOp(o[q]), NEW S
    PROVE  /\ Forget(o, S) \in [Requests -> Request]
           /\ \A q \in Requests : GoodOp(Forget(o, S)[q])
  <1> SUFFICES ASSUME NEW q \in Requests
               PROVE  /\ [o[q] EXCEPT !.seen = @ \ S] \in Request
                      /\ GoodOp([o[q] EXCEPT !.seen = @ \ S])
    BY DEF Forget
  <1>1. o[q] \in Request /\ GoodOp(o[q])
    OBVIOUS
  <1> QED BY <1>1 DEF Request, GoodOp

\* The same with a request that ends.
LEMMA ForgetEnds ==
    ASSUME Sound, NEW r \in Requests, NEW S, op' = Forget([op EXCEPT ![r] = Idle], S)
    PROVE  op' \in [Requests -> Request] /\ \A q \in Requests : GoodOp(op'[q])
  <1> DEFINE o == [op EXCEPT ![r] = Idle]
  <1>1. o \in [Requests -> Request] /\ \A q \in Requests : GoodOp(o[q])
    BY IdleIsGood DEF Sound, TypeOK
  <1> HIDE DEF o
  <1>2. op' = Forget(o, S)
    BY DEF o
  <1> QED BY <1>1, <1>2, ForgetMoves

\* What send_link() starts with.
LEMMA CheckIsGood ==
    ASSUME NEW l \in Links, NEW a \in Addresses \cup {NoOne}, NEW S
    PROVE  LET rec == [Idle EXCEPT !.pc = "check", !.path = "send", !.l = l,
                                   !.to = a, !.knew = a \in S]
           IN  rec \in Request /\ GoodOp(rec)
  <1>1. (a \in S) \in BOOLEAN
    <2>1. (a \in S) = TRUE \/ (a \in S) = FALSE
      OBVIOUS
    <2> QED BY <2>1, Zenon
  <1>2. ASSUME NEW b \in BOOLEAN
        PROVE  LET rec == [Idle EXCEPT !.pc = "check", !.path = "send", !.l = l,
                                       !.to = a, !.knew = b]
               IN  rec \in Request /\ GoodOp(rec)
    BY DEF Idle, Request, GoodOp, OnLink, PCs, Paths
  <1> QED BY <1>1, <1>2, Zenon

LEMMA RevokedType ==
    ASSUME Sound, NEW S PROVE RevokedRow(S) \in [Links -> LinkRow]
  BY DEF Sound, TypeOK, RevokedRow, LinkRow

LEMMA TypeInit == ASSUME Init PROVE Sound
  BY IdleIsGood, ShareAssumption DEF Init, Sound, TypeOK

LEMMA TypeStep ==
    ASSUME Sound, [Next]_vars
    PROVE  Sound'
  <1> USE IdleIsGood
  <1> USE DEF Sound, TypeOK, tableVars, historyVars, mailVars
  <1>1. ASSUME NEW r \in Requests, AskPublic(r) PROVE Sound'
    <2>1. [Idle EXCEPT !.pc = "mintPublic"] \in Request /\ GoodOp([Idle EXCEPT !.pc = "mintPublic"])
      BY DEF Idle, Request, GoodOp, OnLink, PCs, Paths, Stances
    <2> QED BY <1>1, <2>1, StartMoves DEF AskPublic
  <1>2. ASSUME NEW r \in Requests, NEW l \in Links, InsertPublic(r, l) PROVE Sound'
    <2>1. link' \in [Links -> LinkRow]
      BY <1>2 DEF InsertPublic, LinkRow
    <2> QED BY <1>2, <2>1, DoneMoves DEF InsertPublic
  <1>3. ASSUME NEW r \in Requests, NEW a \in Addresses, NEW p \in Paths, AskRecipient(r, a, p)
        PROVE Sound'
    <2> DEFINE then == IF p = "send" /\ note = "cancelled" THEN "none" ELSE p
               req == [Idle EXCEPT !.pc = "mint", !.to = a, !.path = then,
                                   !.knew = then # "none" /\ a \in optout]
    <2>1. req \in Request /\ GoodOp(req)
      BY DEF Idle, Request, GoodOp, OnLink, PCs, Paths
    <2> HIDE DEF req
    <2>2. \E rec \in Request : GoodOp(rec) /\ Start(r, rec)
      BY <1>3, <2>1, WithLinkIsGood DEF AskRecipient, req
    <2> QED BY <1>3, <2>2, StartMoves DEF AskRecipient
  <1>4. ASSUME NEW r \in Requests,
               InsertPublicFails(r) \/ InsertNewFails(r) \/ Gone(r) \/ Dies(r)
        PROVE Sound'
    BY <1>4, DoneMoves DEF InsertPublicFails, InsertNewFails, Gone, Dies
  <1>5. ASSUME NEW r \in Requests, NEW l \in Links, InsertRecipient(r, l) PROVE Sound'
    <2>1. op[r] \in Request
      OBVIOUS
    <2>2. op[r].to \in Addresses \cup {NoOne}
      BY <2>1 DEF Request
    <2>3. link' \in [Links -> LinkRow]
      BY <1>5, <2>2 DEF InsertRecipient, LinkRow
    <2> QED BY <1>5, <2>1, <2>3, WithLinkIsGood, StepMoves DEF InsertRecipient
  <1>6. ASSUME NEW r \in Requests, NEW l \in Links, SendLink(r, l) PROVE Sound'
    <2> DEFINE rec == [Idle EXCEPT !.pc = "check", !.path = "send", !.l = l,
                                   !.to = link[l].to, !.knew = link[l].to \in optout]
    <2>1. link[l].to \in Addresses \cup {NoOne}
      BY DEF LinkRow
    <2>2. rec \in Request /\ GoodOp(rec)
      BY <2>1, CheckIsGood
    <2> HIDE DEF rec
    <2>3. Start(r, rec)
      BY <1>6 DEF SendLink, rec
    <2> QED BY <1>6, <2>2, <2>3, StartMoves DEF SendLink
  <1>7. ASSUME NEW r \in Requests, Check(r) PROVE Sound'
    <2> DEFINE rec == [op[r] EXCEPT !.pc = "mail", !.to = NoOne]
    <2>1. op[r] \in Request /\ GoodOp(op[r]) /\ op[r].pc = "check"
      BY <1>7 DEF Check
    <2>2. rec \in Request /\ GoodOp(rec)
      BY <2>1 DEF Request, GoodOp, OnLink, PCs
    <2> HIDE DEF rec
    <2>3. Done(r) \/ Step(r, rec)
      BY <1>7 DEF Check, rec
    <2> QED BY <1>7, <2>2, <2>3, StepMoves, DoneMoves DEF Check
  <1>8. ASSUME NEW r \in Requests, MailAccepted(r) \/ MailRefused(r) PROVE Sound'
    <2>1. op[r] \in Request /\ GoodOp(op[r]) /\ op[r].pc = "mail"
      BY <1>8 DEF MailAccepted, MailRefused
    <2>2. op[r].l \in Links /\ op[r].path \in Paths
      BY <2>1 DEF Request, GoodOp, OnLink
    <2>3. ASSUME NEW k \in {"sent", "failed"}
          PROVE  /\ [Idle EXCEPT !.pc = "record", !.l = op[r].l, !.kind = k] \in Request
                 /\ GoodOp([Idle EXCEPT !.pc = "record", !.l = op[r].l, !.kind = k])
      BY <2>2 DEF Idle, Request, GoodOp, OnLink, PCs, Paths
    <2>4. mailed' \subseteq Links /\ unwanted' \subseteq Paths
      BY <1>8, <2>2 DEF MailAccepted, MailRefused
    <2> QED BY <1>8, <2>3, <2>4, StepMoves DEF MailAccepted, MailRefused
  <1>9. ASSUME NEW r \in Requests, Record(r) PROVE Sound'
    <2>1. op[r] \in Request /\ GoodOp(op[r]) /\ op[r].pc = "record"
      BY <1>9 DEF Record
    <2>2. op[r].kind \in Deliveries
      BY <2>1 DEF GoodOp, Deliveries
    <2>3. link' \in [Links -> LinkRow]
      BY <1>9, <2>2 DEF Record, Outcome, LinkRow
    <2> QED BY <1>9, <2>3, DoneMoves DEF Record
  <1>10. ASSUME NEW l \in Links, Unsubscribe(l) PROVE Sound'
    <2>1. link' \in [Links -> LinkRow]
      BY <1>10 DEF Unsubscribe, Suppressed, LinkRow, Deliveries
    <2>2. optout' \subseteq Addresses
      BY <1>10 DEF Unsubscribe, LinkRow
    <2> QED BY <1>10, <2>1, <2>2 DEF Unsubscribe
  <1>11. ASSUME NEW r \in Requests, NEW l \in Links, OpenPage(r, l) PROVE Sound'
    <2>1. /\ [Idle EXCEPT !.pc = "page", !.l = l] \in Request
          /\ GoodOp([Idle EXCEPT !.pc = "page", !.l = l])
      BY DEF Idle, Request, GoodOp, OnLink, PCs, Paths
    <2> QED BY <1>11, <2>1, StartMoves DEF OpenPage
  <1>12. ASSUME NEW r \in Requests, ShowPage(r) PROVE Sound'
    <2> DEFINE rec == [op[r] EXCEPT !.pc = "announce"]
    <2>1. op[r] \in Request /\ GoodOp(op[r]) /\ op[r].pc = "page"
      BY <1>12 DEF ShowPage
    <2>2. rec \in Request /\ GoodOp(rec)
      BY <2>1 DEF Request, GoodOp, OnLink, PCs
    <2>3. link' \in [Links -> LinkRow]
      BY <1>12 DEF ShowPage, LinkRow
    <2> HIDE DEF rec
    <2>4. Done(r) \/ Step(r, rec)
      BY <1>12 DEF ShowPage, rec
    <2> QED BY <1>12, <2>2, <2>3, <2>4, StepMoves, DoneMoves DEF ShowPage
  <1>24. ASSUME NEW r \in Requests, ShowPdf(r) PROVE Sound'
    <2>1. op[r].l \in Links
      BY <1>24 DEF ShowPdf, GoodOp, OnLink
    <2>2. link' \in [Links -> LinkRow]
      BY <1>24, <2>1 DEF ShowPdf, LinkRow
    <2> QED BY <1>24, <2>2, DoneMoves DEF ShowPdf
  <1>13. ASSUME NEW r \in Requests, Announce(r) PROVE Sound'
    <2>1. op[r].l \in Links
      BY <1>13 DEF Announce, GoodOp, OnLink
    <2>2. opened[op[r].l] + 1 \in Nat
      BY <2>1
    <2>3. opened' \in [Links -> Nat]
      BY <1>13, <2>2 DEF Announce
    <2> QED BY <1>13, <2>3, DoneMoves DEF Announce
  <1>14. ASSUME NEW r \in Requests, NEW l \in Links, NEW k \in Stances \cup {"withdraw"},
                Answer(r, l, k)
         PROVE Sound'
    <2>1. /\ [Idle EXCEPT !.pc = "answer", !.l = l, !.kind = k] \in Request
          /\ GoodOp([Idle EXCEPT !.pc = "answer", !.l = l, !.kind = k])
      BY DEF Idle, Request, GoodOp, OnLink, PCs, Paths
    <2> QED BY <1>14, <2>1, StartMoves DEF Answer
  <1>15. ASSUME NEW r \in Requests, ClearOld(r) PROVE Sound'
    <2> DEFINE rec == [op[r] EXCEPT !.pc = "insert", !.seen = Replaces(r)]
    <2>1. /\ op[r] \in Request /\ GoodOp(op[r])
          /\ op[r].pc = "answer" /\ op[r].kind # "withdraw"
      BY <1>15 DEF ClearOld
    <2>2. Replaces(r) \subseteq ResponseRow
      BY DEF Replaces, LiveRows
    <2>3. rec \in Request /\ GoodOp(rec)
      BY <2>1, <2>2 DEF Request, GoodOp, OnLink, PCs
    <2>4. raced' \subseteq Links
      BY <1>15, <2>1 DEF ClearOld, GoodOp, OnLink
    <2> HIDE DEF rec
    <2>5. Step(r, rec)
      BY <1>15 DEF ClearOld, rec
    <2> QED BY <1>15, <2>3, <2>4, <2>5, StepMoves DEF ClearOld
  <1>16. ASSUME NEW r \in Requests, InsertNew(r) PROVE Sound'
    <2>1. op[r] \in Request /\ GoodOp(op[r]) /\ op[r].pc = "insert"
      BY <1>16 DEF InsertNew
    <2>2. NewRow(r) \in ResponseRow
      BY <2>1 DEF NewRow, ResponseRow, GoodOp, OnLink
    <2>3. /\ op' \in [Requests -> Request]
          /\ \A q \in Requests : GoodOp(op'[q])
      BY <1>16, ForgetEnds DEF InsertNew
    <2> QED BY <1>16, <2>2, <2>3 DEF InsertNew
  <1>17. ASSUME NEW r \in Requests, Withdraw(r) PROVE Sound'
    <2>1. /\ op' \in [Requests -> Request]
          /\ \A q \in Requests : GoodOp(op'[q])
      BY <1>17, ForgetEnds DEF Withdraw
    <2> QED BY <1>17, <2>1 DEF Withdraw
  <1>18. ASSUME NEW S, Revoke(S) PROVE Sound'
    BY <1>18, RevokedType DEF Revoke
  <1>19. ASSUME NEW x, ClearResponse(x) PROVE Sound'
    <2>1. /\ op' \in [Requests -> Request]
          /\ \A q \in Requests : GoodOp(op'[q])
      BY <1>19, ForgetMoves DEF ClearResponse
    <2> QED BY <1>19, <2>1 DEF ClearResponse
  <1>20. CASE DeleteNote
    <2>1. /\ op' \in [Requests -> Request]
          /\ \A q \in Requests : GoodOp(op'[q])
      BY <1>20, ForgetMoves DEF DeleteNote
    <2>2. link' \in [Links -> LinkRow]
      BY <1>20, RevokedType DEF DeleteNote
    <2> QED BY <1>20, <2>1, <2>2 DEF DeleteNote
  <1>21. CASE CancelNote
    BY <1>21 DEF CancelNote
  <1>22. ASSUME NEW l \in Links, Expire(l) PROVE Sound'
    <2>1. link' \in [Links -> LinkRow]
      BY <1>22 DEF Expire, LinkRow
    <2> QED BY <1>22, <2>1 DEF Expire
  <1>23. CASE UNCHANGED vars
    BY <1>23 DEF vars, GoodOp
  <1> HIDE DEF Sound, TypeOK, tableVars, historyVars, mailVars
  <1> QED
    BY <1>1, <1>2, <1>3, <1>4, <1>5, <1>6, <1>7, <1>8, <1>9, <1>10, <1>11, <1>12,
       <1>13, <1>14, <1>15, <1>16, <1>17, <1>18, <1>19, <1>20, <1>21, <1>22, <1>23, <1>24
       DEF Next

-----------------------------------------------------------------------------
(* What a step does to one request and to one link.                        *)

\* q stays where it is, and may have seen less.
Stays(q) ==
    /\ op'[q].pc = op[q].pc /\ op'[q].l = op[q].l /\ op'[q].to = op[q].to
    /\ op'[q].path = op[q].path /\ op'[q].kind = op[q].kind /\ op'[q].knew = op[q].knew

Enters(q) ==
    \/ \E a \in Addresses, p \in Paths : AskRecipient(q, a, p)
    \/ \E l \in Links : InsertRecipient(q, l) \/ SendLink(q, l)
    \/ Check(q) \/ MailAccepted(q) \/ MailRefused(q) \/ ShowPage(q) \/ ClearOld(q)

LEMMA Forgets ==
    ASSUME Sound, NEW q \in Requests, NEW S, op' = Forget(op, S)
    PROVE  Stays(q)
  <1>1. op[q] \in Request /\ op'[q] = [op[q] EXCEPT !.seen = @ \ S]
    BY DEF Sound, TypeOK, Forget
  <1> QED BY <1>1 DEF Stays, Request

LEMMA ForgetsOthers ==
    ASSUME Sound, NEW q \in Requests, NEW r \in Requests, NEW S,
           op' = Forget([op EXCEPT ![r] = Idle], S)
    PROVE  Stays(q) \/ op'[q].pc = "idle"
  <1>1. CASE q = r
    <2>1. op'[q] = [Idle EXCEPT !.seen = @ \ S]
      BY <1>1 DEF Sound, TypeOK, Forget
    <2> QED BY <2>1 DEF Idle
  <1>2. CASE q # r
    <2>1. op[q] \in Request /\ op'[q] = [op[q] EXCEPT !.seen = @ \ S]
      BY <1>2 DEF Sound, TypeOK, Forget
    <2> QED BY <2>1 DEF Stays, Request
  <1> QED BY <1>1, <1>2

\* How a request gets to where the invariants below have something to say.
LEMMA Entering ==
    ASSUME Sound, [Next]_vars, NEW q \in Requests
    PROVE  Stays(q) \/ Enters(q) \/ op'[q].pc \in {"idle", "mintPublic", "page", "answer"}
  <1> DEFINE G == Stays(q) \/ Enters(q) \/ op'[q].pc \in {"idle", "mintPublic", "page", "answer"}
  <1>0. op \in [Requests -> Request]
    BY DEF Sound, TypeOK
  <1>1. ASSUME NEW r \in Requests,
               \/ AskPublic(r) \/ InsertPublicFails(r) \/ Record(r) \/ Announce(r)
               \/ InsertNewFails(r) \/ Gone(r) \/ Dies(r) \/ ShowPdf(r)
        PROVE  G
    BY <1>0, <1>1 DEF AskPublic, InsertPublicFails, Record, Announce, InsertNewFails, Gone,
                      Dies, ShowPdf, Start, Done, Step, Idle, Stays
  <1>2. ASSUME NEW r \in Requests,
               \/ Check(r) \/ MailAccepted(r) \/ MailRefused(r) \/ ShowPage(r) \/ ClearOld(r)
        PROVE  G
    <2>1. \E rec : op' = [op EXCEPT ![r] = rec]
      BY <1>2 DEF Check, MailAccepted, MailRefused, ShowPage, ClearOld, Step, Done
    <2> QED BY <1>0, <1>2, <2>1 DEF Stays, Enters
  <1>3. ASSUME NEW r \in Requests, NEW l \in Links, InsertPublic(r, l) PROVE G
    BY <1>0, <1>3 DEF InsertPublic, Done, Step, Idle, Stays
  <1>14. ASSUME NEW r \in Requests, NEW l \in Links, OpenPage(r, l) PROVE G
    BY <1>0, <1>14 DEF OpenPage, Start, Idle, Stays
  <1>4. ASSUME NEW r \in Requests, NEW l \in Links, InsertRecipient(r, l) \/ SendLink(r, l) PROVE G
    <2>1. \E rec : op' = [op EXCEPT ![r] = rec]
      BY <1>4 DEF InsertRecipient, SendLink, Start, Step
    <2> QED BY <1>0, <1>4, <2>1 DEF Stays, Enters
  <1>5. ASSUME NEW r \in Requests, NEW a \in Addresses, NEW p \in Paths, AskRecipient(r, a, p)
        PROVE  G
    <2>1. \E rec : op' = [op EXCEPT ![r] = rec]
      BY <1>5 DEF AskRecipient, Start
    <2> QED BY <1>0, <1>5, <2>1 DEF Stays, Enters
  <1>6. ASSUME NEW r \in Requests, NEW l \in Links, NEW k \in Stances \cup {"withdraw"},
               Answer(r, l, k)
        PROVE  G
    BY <1>0, <1>6 DEF Answer, Start, Idle, Stays
  <1>7. ASSUME NEW r \in Requests, InsertNew(r) \/ Withdraw(r) PROVE G
    BY <1>7, ForgetsOthers DEF InsertNew, Withdraw
  <1>8. ASSUME NEW x \in rows, ClearResponse(x) PROVE G
    BY <1>8, Forgets DEF ClearResponse
  <1>9. ASSUME DeleteNote PROVE G
    BY <1>9, Forgets DEF DeleteNote
  <1>10. ASSUME NEW l \in Links, Unsubscribe(l) \/ Expire(l) PROVE G
    BY <1>10 DEF Unsubscribe, Expire, Stays
  <1>11. ASSUME NEW S, Revoke(S) PROVE G
    BY <1>11 DEF Revoke, Stays
  <1>12. ASSUME CancelNote \/ UNCHANGED vars PROVE G
    BY <1>12 DEF CancelNote, vars, Stays
  <1> HIDE DEF G
  <1>13. G
    BY <1>1, <1>2, <1>3, <1>4, <1>5, <1>6, <1>7, <1>8, <1>9, <1>10, <1>11, <1>12, <1>14 DEF Next
  <1> QED BY <1>13 DEF G

Revokes(l) == Unrevoked(l) /\ link'[l] = [link[l] EXCEPT !.revoked = TRUE, !.to = NoOne]

\* What a step does to a link.
LEMMA LinkChanges ==
    ASSUME Sound, [Next]_vars, NEW l \in Links
    PROVE  \/ link'[l] = link[l]
           \/ link'[l] = [link[l] EXCEPT !.expired = TRUE]
           \/ link'[l] = [link[l] EXCEPT !.delivery = "suppressed"]
           \/ link'[l] = [link[l] EXCEPT !.viewed = TRUE]
           \/ Revokes(l)
           \/ \E r \in Requests : /\ Record(r) /\ op[r].l = l
                                  /\ link'[l] = [link[l] EXCEPT !.delivery = op[r].kind]
           \/ \E r \in Requests : /\ InsertPublic(r, l)
                                  /\ link'[l] = [link[l] EXCEPT !.kind = "public"]
           \/ \E r \in Requests : /\ InsertRecipient(r, l)
                                  /\ link'[l] = [link[l] EXCEPT !.kind = "recipient",
                                                                !.to = op[r].to]
  <1> DEFINE G ==
           \/ link'[l] = link[l]
           \/ link'[l] = [link[l] EXCEPT !.expired = TRUE]
           \/ link'[l] = [link[l] EXCEPT !.delivery = "suppressed"]
           \/ link'[l] = [link[l] EXCEPT !.viewed = TRUE]
           \/ Revokes(l)
           \/ \E r \in Requests : /\ Record(r) /\ op[r].l = l
                                  /\ link'[l] = [link[l] EXCEPT !.delivery = op[r].kind]
           \/ \E r \in Requests : /\ InsertPublic(r, l)
                                  /\ link'[l] = [link[l] EXCEPT !.kind = "public"]
           \/ \E r \in Requests : /\ InsertRecipient(r, l)
                                  /\ link'[l] = [link[l] EXCEPT !.kind = "recipient",
                                                                !.to = op[r].to]
  <1>0. link \in [Links -> LinkRow]
    BY DEF Sound, TypeOK
  <1>1. ASSUME NEW r \in Requests,
               \/ AskPublic(r) \/ InsertPublicFails(r) \/ Announce(r) \/ Check(r)
               \/ MailAccepted(r) \/ MailRefused(r) \/ ClearOld(r) \/ InsertNew(r)
               \/ InsertNewFails(r) \/ Withdraw(r) \/ Gone(r) \/ Dies(r)
        PROVE  G
    BY <1>1 DEF AskPublic, InsertPublicFails, Announce, Check, MailAccepted, MailRefused,
                ClearOld, InsertNew, InsertNewFails, Withdraw, Gone, Dies, tableVars
  <1>2. ASSUME NEW r \in Requests, NEW k \in Links, SendLink(r, k) \/ OpenPage(r, k) PROVE G
    BY <1>2 DEF SendLink, OpenPage, tableVars
  <1>3. ASSUME NEW r \in Requests, NEW a \in Addresses, NEW p \in Paths, AskRecipient(r, a, p)
        PROVE  G
    BY <1>3 DEF AskRecipient, tableVars
  <1>14. ASSUME NEW r \in Requests, NEW k \in Links, NEW x \in Stances \cup {"withdraw"},
                Answer(r, k, x)
         PROVE  G
    BY <1>14 DEF Answer, tableVars
  <1>4. ASSUME NEW r \in Requests, NEW k \in Links, InsertPublic(r, k) PROVE G
    <2>1. link'[l] = IF k = l THEN [link[l] EXCEPT !.kind = "public"] ELSE link[l]
      BY <1>0, <1>4 DEF InsertPublic
    <2> QED BY <1>4, <2>1
  <1>5. ASSUME NEW r \in Requests, NEW k \in Links, InsertRecipient(r, k) PROVE G
    <2>1. link'[l] = IF k = l THEN [link[l] EXCEPT !.kind = "recipient", !.to = op[r].to]
                     ELSE link[l]
      BY <1>0, <1>5 DEF InsertRecipient, LinkRow
    <2> QED BY <1>5, <2>1
  <1>6. ASSUME NEW r \in Requests, Record(r) PROVE G
    BY <1>0, <1>6 DEF Record, Outcome
  <1>7. ASSUME NEW r \in Requests, ShowPage(r) \/ ShowPdf(r) PROVE G
    BY <1>0, <1>7 DEF ShowPage, ShowPdf
  <1>8. ASSUME NEW k \in Links, Unsubscribe(k) PROVE G
    BY <1>0, <1>8 DEF Unsubscribe, Suppressed
  <1>9. ASSUME NEW k \in Links, Expire(k) PROVE G
    BY <1>0, <1>9 DEF Expire
  <1>10. ASSUME NEW S, Revoke(S) PROVE G
    BY <1>0, <1>10 DEF Revoke, RevokedRow, Revokes
  <1>15. ASSUME DeleteNote PROVE G
    BY <1>0, <1>15 DEF DeleteNote, RevokedRow, Revokes
  <1>11. ASSUME CancelNote \/ UNCHANGED vars PROVE G
    BY <1>11 DEF CancelNote, vars, tableVars
  <1>12. ASSUME NEW x \in rows, ClearResponse(x) PROVE G
    BY <1>12 DEF ClearResponse
  <1> HIDE DEF G
  <1>13. G
    BY <1>1, <1>2, <1>3, <1>4, <1>5, <1>6, <1>7, <1>8, <1>9, <1>10, <1>11, <1>12, <1>14,
       <1>15 DEF Next
  <1> QED BY <1>13 DEF G

-----------------------------------------------------------------------------
(* Links: one public link.                                                 *)

\* A row is not revoked before it exists: needed where a link is minted.
LinkInv ==
    /\ OnePublic
    /\ \A l \in Links : link[l].kind = "absent" => ~link[l].revoked

LEMMA LinkInit == ASSUME Init PROVE LinkInv
  BY DEF Init, LinkInv, OnePublic, NoLink, Unrevoked

LEMMA LinkStep ==
    ASSUME Sound, LinkInv, [Next]_vars
    PROVE  LinkInv'
  <1>0. link \in [Links -> LinkRow]
    BY DEF Sound, TypeOK
  <1>1. ASSUME NEW l \in Links
        PROVE  link'[l].kind = "absent" => ~link'[l].revoked
    <2>1. link[l] \in LinkRow /\ (link[l].kind = "absent" => ~link[l].revoked)
      BY <1>0 DEF LinkInv
    <2>2. CASE \E r \in Requests : /\ InsertRecipient(r, l)
                                   /\ link'[l] = [link[l] EXCEPT !.kind = "recipient",
                                                                 !.to = op[r].to]
      <3>1. link[l].kind = "absent"
        BY <2>2 DEF InsertRecipient, IsNext
      <3> QED BY <2>1, <2>2, <3>1 DEF LinkRow
    <2>3. CASE Revokes(l)
      BY <2>1, <2>3 DEF Revokes, Unrevoked, LinkRow
    <2>4. CASE \E r \in Requests : /\ Record(r) /\ op[r].l = l
                                   /\ link'[l] = [link[l] EXCEPT !.delivery = op[r].kind]
      BY <2>1, <2>4 DEF LinkRow
    <2>5. CASE \E r \in Requests : /\ InsertPublic(r, l)
                                   /\ link'[l] = [link[l] EXCEPT !.kind = "public"]
      BY <2>1, <2>5 DEF LinkRow
    <2>6. CASE \/ link'[l] = link[l]
               \/ link'[l] = [link[l] EXCEPT !.expired = TRUE]
               \/ link'[l] = [link[l] EXCEPT !.delivery = "suppressed"]
               \/ link'[l] = [link[l] EXCEPT !.viewed = TRUE]
      BY <2>1, <2>6 DEF LinkRow
    <2> QED BY <2>2, <2>3, <2>4, <2>5, <2>6, LinkChanges
  <1>2. ASSUME NEW l \in Links, Unrevoked(l)', link'[l].kind = "public"
        PROVE  \/ Unrevoked(l) /\ link[l].kind = "public"
               \/ \E r \in Requests : InsertPublic(r, l)
    <2>1. link[l] \in LinkRow
      BY <1>0
    <2> QED BY <1>2, <2>1, LinkChanges DEF Unrevoked, Revokes, LinkRow
  <1>3. ASSUME NEW k \in Links, NEW l \in Links, NEW r \in Requests, InsertPublic(r, k), k # l,
               Unrevoked(l)', link'[l].kind = "public"
        PROVE  FALSE
    <2>1. link'[l] = link[l]
      BY <1>0, <1>3 DEF InsertPublic
    <2> QED BY <1>3, <2>1 DEF InsertPublic, PublicSlot, Unrevoked
  <1>4. OnePublic'
    BY <1>2, <1>3 DEF OnePublic, LinkInv
  <1> QED BY <1>1, <1>4 DEF LinkInv

-----------------------------------------------------------------------------
(* Mail: what is recorded, and who is mailed.                              *)

\* A request that will record "sent" has mailed its link; one that may still
\* mail has not known of an opt-out that the list does not have, and one that
\* has passed the check has not known of any.
MailInv ==
    /\ SentWasMailed /\ SendRespectsOptOut
    /\ \A r \in Requests :
         /\ op[r].pc = "record" /\ op[r].kind = "sent" => op[r].l \in mailed
         /\ op[r].pc \in {"mint", "check"} /\ op[r].knew => op[r].to \in optout
         /\ op[r].pc = "check" => op[r].path = "send"
         /\ op[r].pc = "mail" /\ op[r].path = "send" => ~op[r].knew

LEMMA MailInit == ASSUME Init PROVE MailInv
  BY DEF Init, MailInv, SentWasMailed, SendRespectsOptOut, NoLink, Idle

\* The suppression list and the mails only grow.
LEMMA Growing ==
    ASSUME [Next]_vars
    PROVE  optout \subseteq optout' /\ mailed \subseteq mailed'
  <1> DEFINE G == optout \subseteq optout' /\ mailed \subseteq mailed'
  <1>1. ASSUME NEW l, Unsubscribe(l) PROVE G
    BY <1>1 DEF Unsubscribe, historyVars, mailVars
  <1>2. ASSUME NEW r, MailAccepted(r) PROVE G
    BY <1>2 DEF MailAccepted, tableVars
  <1>3. ASSUME NEW r, \/ AskPublic(r) \/ InsertPublicFails(r) \/ Announce(r) \/ Check(r)
                      \/ MailRefused(r) \/ ClearOld(r) \/ InsertNew(r) \/ Record(r)
                      \/ InsertNewFails(r) \/ Withdraw(r) \/ Gone(r) \/ Dies(r) \/ ShowPage(r)
                      \/ ShowPdf(r)
        PROVE  G
    BY <1>3 DEF AskPublic, ShowPdf, InsertPublicFails, Announce, Check, MailRefused, ClearOld, InsertNew,
                Record, InsertNewFails, Withdraw, Gone, Dies, ShowPage, tableVars, historyVars,
                mailVars
  <1>4. ASSUME NEW r, NEW l, \/ InsertPublic(r, l) \/ InsertRecipient(r, l)
                             \/ SendLink(r, l) \/ OpenPage(r, l)
        PROVE  G
    BY <1>4 DEF InsertPublic, InsertRecipient, SendLink, OpenPage, tableVars, historyVars, mailVars
  <1>5. ASSUME NEW r, NEW a, NEW p, AskRecipient(r, a, p) \/ Answer(r, a, p) PROVE G
    BY <1>5 DEF AskRecipient, Answer, tableVars, historyVars, mailVars
  <1>6. ASSUME NEW x, Revoke(x) \/ ClearResponse(x) \/ Expire(x) PROVE G
    BY <1>6 DEF Revoke, ClearResponse, Expire, historyVars, mailVars
  <1>7. ASSUME DeleteNote \/ CancelNote \/ UNCHANGED vars PROVE G
    BY <1>7 DEF DeleteNote, CancelNote, vars, tableVars, historyVars, mailVars
  <1> HIDE DEF G
  <1>8. G
    BY <1>1, <1>2, <1>3, <1>4, <1>5, <1>6, <1>7 DEF Next
  <1> QED BY <1>8 DEF G

\* What a request asks next, once it has its link.
LEMMA WithLinkFacts ==
    ASSUME NEW req \in Request, NEW l \in Links, NEW o, o = WithLink(req, l)
    PROVE  \/ o.pc = "idle"
           \/ o.pc = "check" /\ o.path = "send" /\ o.to = req.to /\ o.knew = req.knew
           \/ o.pc = "mail" /\ o.path = "email"
  <1>1. CASE req.path = "none"
    BY <1>1 DEF WithLink, Idle
  <1>2. CASE req.path = "send"
    <2>1. o = [req EXCEPT !.pc = "check", !.l = l]
      BY <1>2 DEF WithLink
    <2> QED BY <1>2, <2>1 DEF Request
  <1>3. CASE req.path = "email"
    <2>1. o = [req EXCEPT !.pc = "mail", !.l = l, !.to = NoOne]
      BY <1>3 DEF WithLink
    <2> QED BY <1>3, <2>1 DEF Request
  <1> QED BY <1>1, <1>2, <1>3 DEF Request, Paths

\* A request that has just come from somewhere else.
LEMMA MailEnters ==
    ASSUME Sound, MailInv, NEW q \in Requests, Enters(q), Sound'
    PROVE  /\ op'[q].pc = "record" /\ op'[q].kind = "sent" => op'[q].l \in mailed'
           /\ op'[q].pc \in {"mint", "check"} /\ op'[q].knew => op'[q].to \in optout'
           /\ op'[q].pc = "check" => op'[q].path = "send"
           /\ op'[q].pc = "mail" /\ op'[q].path = "send" => ~op'[q].knew
  <1> DEFINE G == /\ op'[q].pc = "record" /\ op'[q].kind = "sent" => op'[q].l \in mailed'
                  /\ op'[q].pc \in {"mint", "check"} /\ op'[q].knew => op'[q].to \in optout'
                  /\ op'[q].pc = "check" => op'[q].path = "send"
                  /\ op'[q].pc = "mail" /\ op'[q].path = "send" => ~op'[q].knew
  <1>0. op \in [Requests -> Request] /\ op[q] \in Request
    BY DEF Sound, TypeOK
  <1>1. ASSUME NEW a \in Addresses, NEW p \in Paths, AskRecipient(q, a, p) PROVE G
    <2> DEFINE then == IF p = "send" /\ note = "cancelled" THEN "none" ELSE p
               req == [Idle EXCEPT !.pc = "mint", !.to = a, !.path = then,
                                   !.knew = then # "none" /\ a \in optout]
    <2>1. /\ req \in Request /\ req.pc = "mint" /\ req.to = a
          /\ req.knew => a \in optout
      BY DEF Idle, Request, PCs, Paths
    <2> HIDE DEF req
    <2>2. \/ Start(q, req)
          \/ \E l \in Links : Start(q, WithLink(req, l))
      BY <1>1 DEF AskRecipient, req
    <2>3. optout' = optout
      BY <1>1 DEF AskRecipient, tableVars
    <2>4. \/ op'[q] = req
          \/ \E l \in Links : op'[q] = WithLink(req, l)
      BY <1>0, <2>2 DEF Start
    <2> QED BY <2>1, <2>3, <2>4, WithLinkFacts
  <1>2. ASSUME NEW l \in Links, InsertRecipient(q, l) PROVE G
    <2>1. op[q].pc = "mint" /\ optout' = optout /\ op'[q] = WithLink(op[q], l)
      BY <1>0, <1>2 DEF InsertRecipient, Step
    <2>2. op[q].knew => op[q].to \in optout
      BY <2>1 DEF MailInv
    <2> QED BY <1>0, <2>1, <2>2, WithLinkFacts
  <1>3. ASSUME NEW l \in Links, SendLink(q, l) PROVE G
    <2>1. optout' = optout
      BY <1>3 DEF SendLink, tableVars
    <2>2. op'[q] = [Idle EXCEPT !.pc = "check", !.path = "send", !.l = l,
                                !.to = link[l].to, !.knew = link[l].to \in optout]
      BY <1>0, <1>3 DEF SendLink, Start
    <2> QED BY <2>1, <2>2 DEF Idle
  <1>4. ASSUME Check(q) PROVE G
    <2>1. op[q].pc = "check"
      BY <1>4 DEF Check
    <2>2. op[q].knew => op[q].to \in optout
      BY <2>1 DEF MailInv
    <2>3. \/ op'[q] = Idle
          \/ /\ op[q].to \notin optout
             /\ op'[q] = [op[q] EXCEPT !.pc = "mail", !.to = NoOne]
      BY <1>0, <1>4 DEF Check, MayMail, Step, Done
    <2>4. CASE op'[q] = Idle
      BY <2>4 DEF Idle
    <2>5. CASE /\ op[q].to \notin optout
               /\ op'[q] = [op[q] EXCEPT !.pc = "mail", !.to = NoOne]
      <3>1. op'[q].pc = "mail" /\ op'[q].knew = op[q].knew
        BY <1>0, <2>5 DEF Request
      <3> QED BY <2>2, <2>5, <3>1
    <2> QED BY <2>3, <2>4, <2>5
  <1>5. ASSUME MailAccepted(q) PROVE G
    <2>1. /\ op'[q] = [Idle EXCEPT !.pc = "record", !.l = op[q].l, !.kind = "sent"]
          /\ op[q].l \in mailed'
      BY <1>0, <1>5 DEF MailAccepted, Step
    <2> QED BY <2>1 DEF Idle
  <1>6. ASSUME MailRefused(q) PROVE G
    BY <1>0, <1>6 DEF MailRefused, Step, Idle
  <1>7. ASSUME ShowPage(q) \/ ClearOld(q) PROVE G
    <2>1. op'[q].pc \in {"idle", "announce", "insert"}
      <3>1. \/ op'[q] = Idle
            \/ op'[q] = [op[q] EXCEPT !.pc = "announce"]
            \/ op'[q] = [op[q] EXCEPT !.pc = "insert", !.seen = Replaces(q)]
        BY <1>0, <1>7 DEF ShowPage, ClearOld, Step, Done
      <3>2. CASE op'[q] = Idle
        BY <3>2 DEF Idle
      <3>3. CASE op'[q] = [op[q] EXCEPT !.pc = "announce"]
        BY <1>0, <3>3 DEF Request
      <3>4. CASE op'[q] = [op[q] EXCEPT !.pc = "insert", !.seen = Replaces(q)]
        BY <1>0, <3>4 DEF Request
      <3> QED BY <3>1, <3>2, <3>3, <3>4
    <2> QED BY <2>1
  <1> HIDE DEF G
  <1>8. G
    BY <1>1, <1>2, <1>3, <1>4, <1>5, <1>6, <1>7 DEF Enters
  <1> QED BY <1>8 DEF G

\* Only MailAccepted() adds to unwanted, and by then a request of the path
\* "send" knew of no opt-out.
LEMMA UnwantedStep ==
    ASSUME Sound, MailInv, [Next]_vars
    PROVE  SendRespectsOptOut'
  <1> DEFINE G == "send" \notin unwanted'
  <1>0. "send" \notin unwanted
    BY DEF MailInv, SendRespectsOptOut
  <1>1. ASSUME NEW r \in Requests, MailAccepted(r) PROVE G
    <2>1. op[r].pc = "mail" /\ (op[r].path = "send" => ~op[r].knew)
      BY <1>1 DEF MailAccepted, MailInv
    <2> QED BY <1>0, <1>1, <2>1 DEF MailAccepted
  <1>2. ASSUME NEW r, \/ AskPublic(r) \/ InsertPublicFails(r) \/ Announce(r) \/ Check(r)
                      \/ MailRefused(r) \/ ClearOld(r) \/ InsertNew(r) \/ Record(r)
                      \/ InsertNewFails(r) \/ Withdraw(r) \/ Gone(r) \/ Dies(r) \/ ShowPage(r)
                      \/ ShowPdf(r)
        PROVE  G
    BY <1>0, <1>2 DEF AskPublic, ShowPdf, InsertPublicFails, Announce, Check, MailRefused, ClearOld,
                      InsertNew, Record, InsertNewFails, Withdraw, Gone, Dies, ShowPage,
                      historyVars, mailVars
  <1>3. ASSUME NEW r, NEW l, \/ InsertPublic(r, l) \/ InsertRecipient(r, l)
                             \/ SendLink(r, l) \/ OpenPage(r, l)
        PROVE  G
    BY <1>0, <1>3 DEF InsertPublic, InsertRecipient, SendLink, OpenPage, historyVars, mailVars
  <1>4. ASSUME NEW r, NEW a, NEW p, AskRecipient(r, a, p) \/ Answer(r, a, p) PROVE G
    BY <1>0, <1>4 DEF AskRecipient, Answer, historyVars, mailVars
  <1>5. ASSUME NEW x, Revoke(x) \/ ClearResponse(x) \/ Expire(x) \/ Unsubscribe(x) PROVE G
    BY <1>0, <1>5 DEF Revoke, ClearResponse, Expire, Unsubscribe, historyVars, mailVars
  <1>6. ASSUME DeleteNote \/ CancelNote \/ UNCHANGED vars PROVE G
    BY <1>0, <1>6 DEF DeleteNote, CancelNote, vars, historyVars, mailVars
  <1> HIDE DEF G
  <1>7. G
    BY <1>1, <1>2, <1>3, <1>4, <1>5, <1>6 DEF Next
  <1> QED BY <1>7 DEF G, SendRespectsOptOut

LEMMA MailStep ==
    ASSUME Sound, MailInv, [Next]_vars
    PROVE  MailInv'
  <1>0. Sound' /\ SendRespectsOptOut' /\ optout \subseteq optout' /\ mailed \subseteq mailed'
    BY TypeStep, UnwantedStep, Growing
  <1>1. ASSUME NEW q \in Requests
        PROVE  /\ op'[q].pc = "record" /\ op'[q].kind = "sent" => op'[q].l \in mailed'
               /\ op'[q].pc \in {"mint", "check"} /\ op'[q].knew => op'[q].to \in optout'
               /\ op'[q].pc = "check" => op'[q].path = "send"
               /\ op'[q].pc = "mail" /\ op'[q].path = "send" => ~op'[q].knew
    <2>1. CASE Stays(q)
      BY <1>0, <2>1 DEF Stays, MailInv
    <2>2. CASE Enters(q)
      BY <1>0, <2>2, MailEnters
    <2>3. CASE op'[q].pc \in {"idle", "mintPublic", "page", "answer"}
      BY <2>3
    <2> QED BY <2>1, <2>2, <2>3, Entering
  <1>2. ASSUME NEW l \in Links, link'[l].delivery = "sent" PROVE l \in mailed'
    <2>1. link[l] \in LinkRow
      BY DEF Sound, TypeOK
    <2>2. CASE \E r \in Requests : /\ Record(r) /\ op[r].l = l
                                   /\ link'[l] = [link[l] EXCEPT !.delivery = op[r].kind]
      <3>1. PICK r \in Requests : /\ Record(r) /\ op[r].l = l
                                  /\ link'[l] = [link[l] EXCEPT !.delivery = op[r].kind]
        BY <2>2
      <3>2. op[r].pc = "record" /\ op[r].kind = "sent"
        BY <1>2, <2>1, <3>1 DEF Record, LinkRow
      <3> QED BY <1>0, <3>1, <3>2 DEF MailInv
    <2>3. CASE link[l].delivery = "sent"
      BY <1>0, <2>3 DEF MailInv, SentWasMailed
    <2>4. CASE \E r \in Requests : /\ InsertRecipient(r, l)
                                   /\ link'[l] = [link[l] EXCEPT !.kind = "recipient",
                                                                 !.to = op[r].to]
      BY <1>2, <2>1, <2>3, <2>4 DEF LinkRow
    <2>5. CASE \E r \in Requests : /\ InsertPublic(r, l)
                                   /\ link'[l] = [link[l] EXCEPT !.kind = "public"]
      BY <1>2, <2>1, <2>3, <2>5 DEF LinkRow
    <2>6. CASE \/ link'[l] = link[l]
               \/ link'[l] = [link[l] EXCEPT !.expired = TRUE]
               \/ link'[l] = [link[l] EXCEPT !.delivery = "suppressed"]
               \/ link'[l] = [link[l] EXCEPT !.viewed = TRUE]
               \/ Revokes(l)
      BY <1>2, <2>1, <2>3, <2>6 DEF LinkRow, Revokes
    <2> QED BY <2>2, <2>4, <2>5, <2>6, LinkChanges
  <1>3. SentWasMailed'
    BY <1>2 DEF SentWasMailed
  <1> QED BY <1>0, <1>1, <1>3 DEF MailInv

-----------------------------------------------------------------------------
(* Openings: the author hears of the first one.                            *)

\* An opening that was told or is about to be told is on a link that has been
\* viewed, and one request tells it.
OpenInv ==
    /\ \A l \in Links : opened[l] = 0 \/ (opened[l] = 1 /\ link[l].viewed)
    /\ \A r \in Requests : op[r].pc = "announce" =>
         /\ link[op[r].l].viewed /\ opened[op[r].l] = 0
         /\ \A q \in Requests : op[q].pc = "announce" /\ op[q].l = op[r].l => q = r

LEMMA OpenInit == ASSUME Init PROVE OpenInv
  BY DEF Init, OpenInv, Idle

\* What was viewed stays viewed.
LEMMA ViewedStays ==
    ASSUME Sound, [Next]_vars, NEW l \in Links, link[l].viewed
    PROVE  link'[l].viewed
  <1>1. link[l] \in LinkRow
    BY DEF Sound, TypeOK
  <1>2. CASE \E r \in Requests : /\ Record(r) /\ op[r].l = l
                                 /\ link'[l] = [link[l] EXCEPT !.delivery = op[r].kind]
    BY <1>1, <1>2 DEF LinkRow
  <1>3. CASE \E r \in Requests : /\ InsertRecipient(r, l)
                                 /\ link'[l] = [link[l] EXCEPT !.kind = "recipient",
                                                               !.to = op[r].to]
    BY <1>1, <1>3 DEF LinkRow
  <1>4. CASE \E r \in Requests : /\ InsertPublic(r, l)
                                 /\ link'[l] = [link[l] EXCEPT !.kind = "public"]
    BY <1>1, <1>4 DEF LinkRow
  <1>5. CASE \/ link'[l] = link[l]
             \/ link'[l] = [link[l] EXCEPT !.expired = TRUE]
             \/ link'[l] = [link[l] EXCEPT !.delivery = "suppressed"]
             \/ link'[l] = [link[l] EXCEPT !.viewed = TRUE]
             \/ Revokes(l)
    BY <1>1, <1>5 DEF LinkRow, Revokes
  <1> QED BY <1>2, <1>3, <1>4, <1>5, LinkChanges

\* Only Announce() counts.
LEMMA OpenedChanges ==
    ASSUME [Next]_vars
    PROVE  opened' = opened \/ \E r \in Requests : Announce(r)
  <1> DEFINE G == opened' = opened \/ \E r \in Requests : Announce(r)
  <1>1. ASSUME NEW r, \/ AskPublic(r) \/ InsertPublicFails(r) \/ Check(r)
                      \/ MailRefused(r) \/ MailAccepted(r) \/ ClearOld(r) \/ InsertNew(r)
                      \/ Record(r) \/ InsertNewFails(r) \/ Withdraw(r) \/ Gone(r) \/ Dies(r)
                      \/ ShowPage(r) \/ ShowPdf(r)
        PROVE  G
    BY <1>1 DEF AskPublic, ShowPdf, InsertPublicFails, Check, MailRefused, MailAccepted, ClearOld,
                InsertNew, Record, InsertNewFails, Withdraw, Gone, Dies, ShowPage, historyVars
  <1>2. ASSUME NEW r, NEW l, \/ InsertPublic(r, l) \/ InsertRecipient(r, l)
                             \/ SendLink(r, l) \/ OpenPage(r, l)
        PROVE  G
    BY <1>2 DEF InsertPublic, InsertRecipient, SendLink, OpenPage, historyVars
  <1>3. ASSUME NEW r, NEW a, NEW p, AskRecipient(r, a, p) \/ Answer(r, a, p) PROVE G
    BY <1>3 DEF AskRecipient, Answer, historyVars
  <1>4. ASSUME NEW x, Revoke(x) \/ ClearResponse(x) \/ Expire(x) \/ Unsubscribe(x) PROVE G
    BY <1>4 DEF Revoke, ClearResponse, Expire, Unsubscribe, historyVars
  <1>5. ASSUME DeleteNote \/ CancelNote \/ UNCHANGED vars PROVE G
    BY <1>5 DEF DeleteNote, CancelNote, vars, historyVars
  <1>6. ASSUME NEW r \in Requests, Announce(r) PROVE G
    BY <1>6
  <1> HIDE DEF G
  <1>7. G
    BY <1>1, <1>2, <1>3, <1>4, <1>5, <1>6 DEF Next
  <1> QED BY <1>7 DEF G

\* Only ShowPage() of a link nobody has viewed goes on to tell.
LEMMA AnnounceEnters ==
    ASSUME Sound, NEW q \in Requests, Enters(q), op'[q].pc = "announce"
    PROVE  /\ op'[q].l = op[q].l /\ op[q].l \in Links
           /\ ~link[op[q].l].viewed /\ link'[op[q].l].viewed
           /\ opened' = opened
           /\ \A r \in Requests : r # q => op'[r] = op[r]
  <1>0. op \in [Requests -> Request] /\ op[q] \in Request /\ link \in [Links -> LinkRow]
    BY DEF Sound, TypeOK
  <1>1. ASSUME NEW l \in Links, NEW req \in Request PROVE WithLink(req, l).pc # "announce"
    BY <1>1, WithLinkFacts
  <1>2. ASSUME NEW a \in Addresses, NEW p \in Paths, AskRecipient(q, a, p) PROVE FALSE
    <2> DEFINE then == IF p = "send" /\ note = "cancelled" THEN "none" ELSE p
               req == [Idle EXCEPT !.pc = "mint", !.to = a, !.path = then,
                                   !.knew = then # "none" /\ a \in optout]
    <2>1. req \in Request /\ req.pc = "mint"
      BY DEF Idle, Request, PCs, Paths
    <2> HIDE DEF req
    <2>2. Start(q, req) \/ \E l \in Links : Start(q, WithLink(req, l))
      BY <1>2 DEF AskRecipient, req
    <2>3. op'[q] = req \/ \E l \in Links : op'[q] = WithLink(req, l)
      BY <1>0, <2>2 DEF Start
    <2> QED BY <1>1, <2>1, <2>3
  <1>3. ASSUME NEW l \in Links, InsertRecipient(q, l) PROVE FALSE
    BY <1>0, <1>1, <1>3 DEF InsertRecipient, Step
  <1>4. ASSUME NEW l \in Links, SendLink(q, l) PROVE FALSE
    BY <1>0, <1>4 DEF SendLink, Start, Idle
  <1>5. ASSUME Check(q) PROVE FALSE
    <2>1. op'[q] = Idle \/ op'[q] = [op[q] EXCEPT !.pc = "mail", !.to = NoOne]
      BY <1>0, <1>5 DEF Check, Step, Done
    <2>2. CASE op'[q] = Idle
      BY <2>2 DEF Idle
    <2>3. CASE op'[q] = [op[q] EXCEPT !.pc = "mail", !.to = NoOne]
      BY <1>0, <2>3 DEF Request
    <2> QED BY <2>1, <2>2, <2>3
  <1>6. ASSUME MailAccepted(q) \/ MailRefused(q) PROVE FALSE
    BY <1>0, <1>6 DEF MailAccepted, MailRefused, Step, Idle
  <1>7. ASSUME ClearOld(q) PROVE FALSE
    <2>1. op'[q] = [op[q] EXCEPT !.pc = "insert", !.seen = Replaces(q)]
      BY <1>0, <1>7 DEF ClearOld, Step
    <2> QED BY <1>0, <2>1 DEF Request
  <1>8. ShowPage(q)
    BY <1>2, <1>3, <1>4, <1>5, <1>6, <1>7 DEF Enters
  <1>9. op[q].l \in Links
    BY <1>8 DEF ShowPage, Sound, GoodOp, OnLink
  <1>10. /\ op'[q] = [op[q] EXCEPT !.pc = "announce"]
         /\ ~link[op[q].l].viewed
         /\ \A r \in Requests : r # q => op'[r] = op[r]
    BY <1>0, <1>8 DEF ShowPage, Step, Done, FirstView, Idle
  <1>11. link'[op[q].l].viewed
    BY <1>0, <1>8, <1>9 DEF ShowPage, LinkRow
  <1>12. opened' = opened
    BY <1>8 DEF ShowPage, historyVars
  <1>13. op'[q].l = op[q].l
    BY <1>0, <1>10 DEF Request
  <1> QED BY <1>9, <1>10, <1>11, <1>12, <1>13

LEMMA OpenStep ==
    ASSUME Sound, OpenInv, [Next]_vars
    PROVE  OpenInv'
  <1>0. /\ Sound' /\ opened \in [Links -> Nat] /\ op \in [Requests -> Request]
        /\ \A r \in Requests : op[r].pc = "announce" => op[r].l \in Links
    BY TypeStep DEF Sound, TypeOK, GoodOp, OnLink
  <1>1. CASE \E r \in Requests : Announce(r)
    <2>1. PICK r \in Requests : Announce(r)
      BY <1>1
    <2>2. op[r].pc = "announce" /\ op[r].l \in Links
      BY <1>0, <2>1 DEF Announce
    <2>3. /\ link' = link
          /\ opened' = [opened EXCEPT ![op[r].l] = opened[op[r].l] + 1]
          /\ op' = [op EXCEPT ![r] = Idle]
      BY <2>1 DEF Announce, tableVars, Done, Step
    <2>4. opened[op[r].l] = 0 /\ link[op[r].l].viewed
      BY <2>2 DEF OpenInv
    <2>5. \A l \in Links : opened'[l] = 0 \/ (opened'[l] = 1 /\ link'[l].viewed)
      BY <1>0, <2>2, <2>3, <2>4 DEF OpenInv
    <2>6. ASSUME NEW q \in Requests, op'[q].pc = "announce"
          PROVE  q # r /\ op'[q] = op[q] /\ op[q].l # op[r].l
      BY <1>0, <2>2, <2>3, <2>6 DEF OpenInv, Idle
    <2>7. ASSUME NEW q \in Requests, op'[q].pc = "announce"
          PROVE  /\ link'[op'[q].l].viewed /\ opened'[op'[q].l] = 0
      BY <1>0, <2>3, <2>6, <2>7 DEF OpenInv
    <2>8. ASSUME NEW p \in Requests, NEW q \in Requests, op'[p].pc = "announce",
                 op'[q].pc = "announce", op'[q].l = op'[p].l
          PROVE  p = q
      BY <2>6, <2>8 DEF OpenInv
    <2> QED BY <2>5, <2>7, <2>8 DEF OpenInv
  <1>2. CASE opened' = opened
    <2>1. \A l \in Links : opened'[l] = 0 \/ (opened'[l] = 1 /\ link'[l].viewed)
      BY <1>2, ViewedStays DEF OpenInv
    <2>2. ASSUME NEW q \in Requests, op'[q].pc = "announce"
          PROVE  Stays(q) \/ Enters(q)
      BY <2>2, Entering
    <2>3. ASSUME NEW q \in Requests, op'[q].pc = "announce", Stays(q)
          PROVE  /\ op[q].pc = "announce" /\ op'[q].l = op[q].l
                 /\ link'[op'[q].l].viewed /\ opened'[op'[q].l] = 0
                 /\ link[op'[q].l].viewed
      BY <1>0, <1>2, <2>3, ViewedStays DEF Stays, OpenInv
    <2>4. ASSUME NEW q \in Requests, op'[q].pc = "announce", Enters(q)
          PROVE  /\ link'[op'[q].l].viewed /\ opened'[op'[q].l] = 0
                 /\ ~link[op'[q].l].viewed
                 /\ \A r \in Requests : r # q => op'[r] = op[r]
      BY <1>2, <2>4, AnnounceEnters DEF OpenInv
    <2>5. ASSUME NEW p \in Requests, NEW q \in Requests, op'[p].pc = "announce",
                 op'[q].pc = "announce", op'[q].l = op'[p].l
          PROVE  p = q
      <3>1. CASE Stays(p) /\ Stays(q)
        BY <2>3, <2>5, <3>1 DEF OpenInv
      <3>2. CASE Enters(p)
        <4>1. SUFFICES ASSUME q # p PROVE FALSE
          OBVIOUS
        <4>2. op'[q] = op[q] /\ ~link[op'[p].l].viewed
          BY <2>4, <2>5, <3>2, <4>1
        <4> QED BY <2>5, <4>2 DEF OpenInv
      <3>3. CASE Enters(q)
        <4>1. SUFFICES ASSUME q # p PROVE FALSE
          OBVIOUS
        <4>2. op'[p] = op[p] /\ ~link[op'[q].l].viewed
          BY <2>4, <2>5, <3>3, <4>1
        <4> QED BY <2>5, <4>2 DEF OpenInv
      <3> QED BY <2>2, <2>5, <3>1, <3>2, <3>3
    <2> QED BY <2>1, <2>2, <2>3, <2>4, <2>5 DEF OpenInv
  <1> QED BY <1>1, <1>2, OpenedChanges

-----------------------------------------------------------------------------
(* Answers: one stance per link and item.                                  *)

\* On a link whose answers were never changed by two transactions at once,
\* there is one row at most, the transaction that is open has seen it, and
\* there is one such transaction.
StanceInv ==
    \A l \in Links : l \notin raced =>
        /\ \A x \in rows : x.link = l => note # "deleted" /\ LiveRows(l) = {x}
        /\ \A r \in Requests : op[r].pc = "insert" /\ op[r].l = l =>
             /\ note # "deleted"
             /\ LiveRows(l) \subseteq op[r].seen
             /\ \A q \in Requests : op[q].pc = "insert" /\ op[q].l = l => q = r

LEMMA StanceInit == ASSUME Init PROVE StanceInv
  BY DEF Init, StanceInv, Idle

LEMMA StanceImplied == ASSUME Sound, StanceInv PROVE OneStance
  BY DEF Sound, TypeOK, ResponseRow, StanceInv, OneStance

\* A step that leaves the answers and their transactions alone.
LEMMA StanceQuiet ==
    ASSUME Sound, StanceInv, rows' = rows, raced' = raced,
           note' = note \/ note' = "cancelled",
           \A q \in Requests : op'[q].pc = "insert" => op'[q] = op[q]
    PROVE  StanceInv'
  <1>1. \A l : LiveRows(l)' = LiveRows(l)
    BY DEF LiveRows
  <1> SUFFICES ASSUME NEW l \in Links, l \notin raced
               PROVE  /\ \A x \in rows : x.link = l => note' # "deleted" /\ LiveRows(l) = {x}
                      /\ \A r \in Requests : op'[r].pc = "insert" /\ op'[r].l = l =>
                           /\ note' # "deleted"
                           /\ LiveRows(l) \subseteq op'[r].seen
                           /\ \A q \in Requests : op'[q].pc = "insert" /\ op'[q].l = l => q = r
    BY <1>1 DEF StanceInv
  <1>2. \A r \in Requests : op'[r].pc = "insert" /\ op'[r].l = l
                              => op'[r] = op[r] /\ op[r].pc = "insert" /\ op[r].l = l
    OBVIOUS
  <1> QED BY <1>2 DEF StanceInv

\* A request moves to where it holds no transaction on answers.
LEMMA MovesElsewhere ==
    ASSUME Sound, NEW r \in Requests, NEW rec, rec.pc # "insert", op' = [op EXCEPT ![r] = rec]
    PROVE  \A q \in Requests : op'[q].pc = "insert" => op'[q] = op[q]
  BY DEF Sound, TypeOK

\* Rows are cleared and forgotten.
LEMMA StanceForgets ==
    ASSUME Sound, StanceInv, NEW S, rows' = rows \ S, raced' = raced, note' = note,
           \A q \in Requests : op'[q].pc = "insert" =>
               /\ op[q].pc = "insert" /\ op'[q].l = op[q].l
               /\ op'[q].seen = op[q].seen \ S
    PROVE  StanceInv'
  <1>1. \A l : LiveRows(l)' = LiveRows(l) \ S
    BY DEF LiveRows
  <1>2. \A l : \A x \in rows' : x.link = l => x \in LiveRows(l)'
    BY DEF LiveRows
  <1> SUFFICES ASSUME NEW l \in Links, l \notin raced
               PROVE  /\ \A x \in rows' : x.link = l => note' # "deleted" /\ LiveRows(l)' = {x}
                      /\ \A r \in Requests : op'[r].pc = "insert" /\ op'[r].l = l =>
                           /\ note' # "deleted"
                           /\ LiveRows(l)' \subseteq op'[r].seen
                           /\ \A q \in Requests : op'[q].pc = "insert" /\ op'[q].l = l => q = r
    BY DEF StanceInv
  <1>3. ASSUME NEW x \in rows', x.link = l PROVE note' # "deleted" /\ LiveRows(l)' = {x}
    <2>1. x \in rows /\ note # "deleted" /\ LiveRows(l) = {x}
      BY <1>3 DEF StanceInv
    <2> QED BY <1>1, <1>2, <1>3, <2>1
  <1>4. ASSUME NEW r \in Requests, op'[r].pc = "insert", op'[r].l = l
        PROVE  /\ note' # "deleted"
               /\ LiveRows(l)' \subseteq op'[r].seen
               /\ \A q \in Requests : op'[q].pc = "insert" /\ op'[q].l = l => q = r
    <2>1. /\ op[r].pc = "insert" /\ op[r].l = l /\ op'[r].seen = op[r].seen \ S
      BY <1>4
    <2>2. /\ note # "deleted" /\ LiveRows(l) \subseteq op[r].seen
          /\ \A q \in Requests : op[q].pc = "insert" /\ op[q].l = l => q = r
      BY <2>1 DEF StanceInv
    <2> QED BY <1>1, <2>1, <2>2
  <1> QED BY <1>3, <1>4

\* The two forms of Forget() seen from a request that is about to insert.
LEMMA ForgetsSeen ==
    ASSUME Sound, NEW S,
           \/ op' = Forget(op, S)
           \/ \E r \in Requests : op' = Forget([op EXCEPT ![r] = Idle], S)
    PROVE  \A q \in Requests : op'[q].pc = "insert" =>
               /\ op[q].pc = "insert" /\ op'[q].l = op[q].l /\ op'[q].kind = op[q].kind
               /\ op'[q].seen = op[q].seen \ S
  <1> SUFFICES ASSUME NEW q \in Requests, op'[q].pc = "insert"
               PROVE  /\ op[q].pc = "insert" /\ op'[q].l = op[q].l /\ op'[q].kind = op[q].kind
                      /\ op'[q].seen = op[q].seen \ S
    OBVIOUS
  <1>0. op \in [Requests -> Request] /\ op[q] \in Request
    BY DEF Sound, TypeOK
  <1>1. op'[q] = [op[q] EXCEPT !.seen = @ \ S] \/ op'[q] = [Idle EXCEPT !.seen = @ \ S]
    BY <1>0 DEF Forget
  <1>2. CASE op'[q] = [op[q] EXCEPT !.seen = @ \ S]
    BY <1>0, <1>2 DEF Request
  <1>3. CASE op'[q] = [Idle EXCEPT !.seen = @ \ S]
    BY <1>3 DEF Idle
  <1> QED BY <1>1, <1>2, <1>3

LEMMA StanceClearOld ==
    ASSUME Sound, StanceInv, NEW r \in Requests, ClearOld(r)
    PROVE  StanceInv'
  <1>0. op \in [Requests -> Request] /\ op[r] \in Request
    BY DEF Sound, TypeOK
  <1>1. /\ op'[r] = [op[r] EXCEPT !.pc = "insert", !.seen = LiveRows(op[r].l)]
        /\ \A q \in Requests : q # r => op'[q] = op[q]
        /\ rows' = rows /\ note' = note /\ note = "live" /\ op[r].pc = "answer"
        /\ raced' = IF Overlaps(op[r].l, r) THEN raced \cup {op[r].l} ELSE raced
    BY <1>0 DEF ClearOld, Step, Replaces, NoteShown, tableVars
  <1>2. op'[r].pc = "insert" /\ op'[r].l = op[r].l /\ op'[r].seen = LiveRows(op[r].l)
    BY <1>0, <1>1 DEF Request
  <1>3. \A l : LiveRows(l)' = LiveRows(l)
    BY <1>1 DEF LiveRows
  <1> SUFFICES ASSUME NEW l \in Links, l \notin raced'
               PROVE  /\ \A x \in rows : x.link = l => note # "deleted" /\ LiveRows(l) = {x}
                      /\ \A q \in Requests : op'[q].pc = "insert" /\ op'[q].l = l =>
                           /\ note # "deleted"
                           /\ LiveRows(l) \subseteq op'[q].seen
                           /\ \A p \in Requests : op'[p].pc = "insert" /\ op'[p].l = l => p = q
    BY <1>1, <1>3 DEF StanceInv
  <1>4. l \notin raced
    BY <1>1
  <1>5. CASE l = op[r].l
    <2>1. \A q \in Requests : q # r => ~(op[q].pc = "insert" /\ op[q].l = l)
      BY <1>1, <1>5 DEF Overlaps
    <2>2. \A q \in Requests : op'[q].pc = "insert" /\ op'[q].l = l => q = r
      BY <1>1, <2>1
    <2> QED BY <1>1, <1>2, <1>4, <1>5, <2>2 DEF StanceInv
  <1>6. CASE l # op[r].l
    <2>1. \A q \in Requests : op'[q].pc = "insert" /\ op'[q].l = l => q # r /\ op'[q] = op[q]
      BY <1>1, <1>2, <1>6
    <2> QED BY <1>4, <2>1 DEF StanceInv
  <1> QED BY <1>5, <1>6

\* The row that is inserted replaces what its transaction has seen, and on a
\* link without a race that is all there is.
LEMMA StanceInsert ==
    ASSUME Sound, StanceInv, NEW r \in Requests, InsertNew(r)
    PROVE  StanceInv'
  <1> DEFINE S == op[r].seen
  <1>0. /\ op \in [Requests -> Request]
        /\ op[r].pc = "insert"
        /\ rows' = (rows \ S) \cup {NewRow(r)}
        /\ raced' = raced /\ note' = note
        /\ op' = Forget([op EXCEPT ![r] = Idle], S)
    BY DEF Sound, TypeOK, InsertNew, historyVars
  <1>1. op'[r].pc = "idle"
    BY <1>0 DEF Forget, Idle
  <1>2. \A q \in Requests : op'[q].pc = "insert" =>
               /\ op[q].pc = "insert" /\ op'[q].l = op[q].l
               /\ op'[q].seen = op[q].seen \ S
    BY <1>0, ForgetsSeen
  <1>3. NewRow(r).link = op[r].l
    BY DEF NewRow
  <1>4. \A l : LiveRows(l)' = (LiveRows(l) \ S) \cup {x \in {NewRow(r)} : x.link = l}
    BY <1>0 DEF LiveRows
  <1> HIDE DEF S
  <1> SUFFICES ASSUME NEW l \in Links, l \notin raced
               PROVE  /\ \A x \in rows' : x.link = l => note # "deleted" /\ LiveRows(l)' = {x}
                      /\ \A q \in Requests : op'[q].pc = "insert" /\ op'[q].l = l =>
                           /\ note # "deleted"
                           /\ LiveRows(l)' \subseteq op'[q].seen
                           /\ \A p \in Requests : op'[p].pc = "insert" /\ op'[p].l = l => p = q
    BY <1>0 DEF StanceInv
  <1>5. CASE l = op[r].l
    <2>1. /\ note # "deleted" /\ LiveRows(l) \subseteq S
          /\ \A q \in Requests : op[q].pc = "insert" /\ op[q].l = l => q = r
      BY <1>0, <1>5 DEF StanceInv, S
    <2>2. LiveRows(l)' = {NewRow(r)}
      BY <1>3, <1>4, <1>5, <2>1
    <2>3. \A x \in rows' : x.link = l => x \in LiveRows(l)'
      BY DEF LiveRows
    <2>4. \A q \in Requests : ~(op'[q].pc = "insert" /\ op'[q].l = l)
      BY <1>1, <1>2, <2>1
    <2> QED BY <2>1, <2>2, <2>3, <2>4
  <1>6. CASE l # op[r].l
    <2>1. LiveRows(l)' = LiveRows(l) \ S
      BY <1>3, <1>4, <1>6
    <2>2. ASSUME NEW x \in rows', x.link = l PROVE note # "deleted" /\ LiveRows(l)' = {x}
      <3>1. x \in rows /\ x \in LiveRows(l)'
        BY <1>0, <1>3, <1>6, <2>2 DEF LiveRows
      <3>2. note # "deleted" /\ LiveRows(l) = {x}
        BY <2>2, <3>1 DEF StanceInv
      <3> QED BY <2>1, <3>1, <3>2
    <2>3. ASSUME NEW q \in Requests, op'[q].pc = "insert", op'[q].l = l
          PROVE  /\ note # "deleted" /\ LiveRows(l)' \subseteq op'[q].seen
                 /\ \A p \in Requests : op'[p].pc = "insert" /\ op'[p].l = l => p = q
      <3>1. op[q].pc = "insert" /\ op[q].l = l /\ op'[q].seen = op[q].seen \ S
        BY <1>2, <2>3
      <3>2. /\ note # "deleted" /\ LiveRows(l) \subseteq op[q].seen
            /\ \A p \in Requests : op[p].pc = "insert" /\ op[p].l = l => p = q
        BY <3>1 DEF StanceInv
      <3> QED BY <1>2, <2>1, <3>1, <3>2
    <2> QED BY <2>2, <2>3
  <1> QED BY <1>5, <1>6

\* Deleting the note leaves no answer, and a transaction that was open is
\* counted as a race.
LEMMA StanceDelete ==
    ASSUME Sound, StanceInv, DeleteNote
    PROVE  StanceInv'
  <1>1. /\ rows' = {} /\ op' = Forget(op, rows)
        /\ raced' = raced \cup {l \in Links : \E r \in Requests :
                                               op[r].pc = "insert" /\ op[r].l = l}
    BY DEF DeleteNote
  <1>2. \A q \in Requests : op'[q].pc = "insert" =>
            op[q].pc = "insert" /\ op'[q].l = op[q].l
    BY <1>1, ForgetsSeen
  <1> QED BY <1>1, <1>2 DEF StanceInv

LEMMA StanceStep ==
    ASSUME Sound, StanceInv, [Next]_vars
    PROVE  StanceInv'
  <1> DEFINE G == StanceInv'
  <1>0. op \in [Requests -> Request]
    BY DEF Sound, TypeOK
  <1>1. ASSUME NEW r \in Requests,
               \/ AskPublic(r) \/ InsertPublicFails(r) \/ Record(r) \/ Announce(r)
               \/ InsertNewFails(r) \/ Gone(r) \/ Dies(r) \/ MailAccepted(r) \/ MailRefused(r)
               \/ ShowPdf(r)
        PROVE  G
    <2>1. /\ rows' = rows /\ raced' = raced /\ note' = note
      BY <1>1 DEF AskPublic, InsertPublicFails, Record, Announce, InsertNewFails, Gone, Dies,
                  MailAccepted, MailRefused, ShowPdf, tableVars, historyVars, mailVars
    <2>2. \E rec : rec.pc # "insert" /\ op' = [op EXCEPT ![r] = rec]
      BY <1>1 DEF AskPublic, InsertPublicFails, Record, Announce, InsertNewFails, Gone, Dies,
                  MailAccepted, MailRefused, ShowPdf, Start, Step, Done, Idle
    <2> QED BY <2>1, <2>2, MovesElsewhere, StanceQuiet
  <1>2. ASSUME NEW r \in Requests, Check(r) \/ ShowPage(r) PROVE G
    <2>1. /\ rows' = rows /\ raced' = raced /\ note' = note
      BY <1>2 DEF Check, ShowPage, tableVars, historyVars
    <2>2. /\ Idle.pc # "insert" /\ op[r] \in Request
          /\ [op[r] EXCEPT !.pc = "mail", !.to = NoOne].pc # "insert"
          /\ [op[r] EXCEPT !.pc = "announce"].pc # "insert"
      BY <1>0 DEF Idle, Request
    <2>3. \E rec : rec.pc # "insert" /\ op' = [op EXCEPT ![r] = rec]
      BY <1>2, <2>2 DEF Check, ShowPage, Step, Done
    <2> QED BY <2>1, <2>3, MovesElsewhere, StanceQuiet
  <1>3. ASSUME NEW r \in Requests, NEW l \in Links,
               InsertPublic(r, l) \/ SendLink(r, l) \/ OpenPage(r, l)
        PROVE  G
    <2>1. /\ rows' = rows /\ raced' = raced /\ note' = note
      BY <1>3 DEF InsertPublic, SendLink, OpenPage, tableVars, historyVars
    <2>2. \E rec : rec.pc # "insert" /\ op' = [op EXCEPT ![r] = rec]
      BY <1>3 DEF InsertPublic, SendLink, OpenPage, Start, Step, Done, Idle
    <2> QED BY <2>1, <2>2, MovesElsewhere, StanceQuiet
  <1>4. ASSUME NEW r \in Requests, NEW l \in Links, InsertRecipient(r, l) PROVE G
    <2>1. /\ rows' = rows /\ raced' = raced /\ note' = note
          /\ op' = [op EXCEPT ![r] = WithLink(op[r], l)]
      BY <1>4 DEF InsertRecipient, Step, historyVars
    <2>2. WithLink(op[r], l).pc # "insert"
      BY <1>0, WithLinkFacts
    <2> QED BY <2>1, <2>2, MovesElsewhere, StanceQuiet
  <1>5. ASSUME NEW r \in Requests, NEW a \in Addresses, NEW p \in Paths, AskRecipient(r, a, p)
        PROVE  G
    <2> DEFINE then == IF p = "send" /\ note = "cancelled" THEN "none" ELSE p
               req == [Idle EXCEPT !.pc = "mint", !.to = a, !.path = then,
                                   !.knew = then # "none" /\ a \in optout]
    <2>1. req \in Request /\ req.pc = "mint"
      BY DEF Idle, Request, PCs, Paths
    <2>2. \A l \in Links : WithLink(req, l).pc # "insert"
      BY <2>1, WithLinkFacts
    <2> HIDE DEF req
    <2>3. Start(r, req) \/ \E l \in Links : Start(r, WithLink(req, l))
      BY <1>5 DEF AskRecipient, req
    <2>4. \E rec : rec.pc # "insert" /\ op' = [op EXCEPT ![r] = rec]
      BY <2>1, <2>2, <2>3 DEF Start
    <2>5. /\ rows' = rows /\ raced' = raced /\ note' = note
      BY <1>5 DEF AskRecipient, tableVars, historyVars
    <2> QED BY <2>4, <2>5, MovesElsewhere, StanceQuiet
  <1>6. ASSUME NEW r \in Requests, NEW l \in Links, NEW k \in Stances \cup {"withdraw"},
               Answer(r, l, k)
        PROVE  G
    <2>1. /\ rows' = rows /\ raced' = raced /\ note' = note
      BY <1>6 DEF Answer, tableVars, historyVars
    <2>2. \E rec : rec.pc # "insert" /\ op' = [op EXCEPT ![r] = rec]
      BY <1>6 DEF Answer, Start, Idle
    <2> QED BY <2>1, <2>2, MovesElsewhere, StanceQuiet
  <1>7. ASSUME NEW r \in Requests, Withdraw(r) PROVE G
    <2>1. /\ rows' = rows \ LiveRows(op[r].l) /\ raced' = raced /\ note' = note
          /\ op' = Forget([op EXCEPT ![r] = Idle], LiveRows(op[r].l))
      BY <1>7 DEF Withdraw, historyVars
    <2> QED BY <2>1, ForgetsSeen, StanceForgets
  <1>8. ASSUME NEW x \in rows, ClearResponse(x) PROVE G
    <2>1. /\ rows' = rows \ {x} /\ raced' = raced /\ note' = note
          /\ op' = Forget(op, {x})
      BY <1>8 DEF ClearResponse, historyVars
    <2> QED BY <2>1, ForgetsSeen, StanceForgets
  <1>9. ASSUME NEW S, Revoke(S) \/ Unsubscribe(S) \/ Expire(S) PROVE G
    <2>1. /\ rows' = rows /\ raced' = raced /\ note' = note /\ op' = op
      BY <1>9 DEF Revoke, Unsubscribe, Expire, historyVars
    <2> QED BY <2>1, StanceQuiet
  <1>10. ASSUME CancelNote \/ UNCHANGED vars PROVE G
    <2>1. /\ rows' = rows /\ raced' = raced /\ op' = op
          /\ note' = note \/ note' = "cancelled"
      BY <1>10 DEF CancelNote, vars, tableVars, historyVars
    <2> QED BY <2>1, StanceQuiet
  <1>11. ASSUME NEW r \in Requests, ClearOld(r) PROVE G
    BY <1>11, StanceClearOld
  <1>12. ASSUME NEW r \in Requests, InsertNew(r) PROVE G
    BY <1>12, StanceInsert
  <1>13. ASSUME DeleteNote PROVE G
    BY <1>13, StanceDelete
  <1> HIDE DEF G
  <1>14. G
    BY <1>1, <1>2, <1>3, <1>4, <1>5, <1>6, <1>7, <1>8, <1>9, <1>10, <1>11, <1>12, <1>13
       DEF Next
  <1> QED BY <1>14 DEF G

-----------------------------------------------------------------------------
(* The theorems.                                                           *)

\* The inductive invariant.
SharingInv == Sound /\ LinkInv /\ MailInv /\ OpenInv /\ StanceInv

LEMMA InvInit == Init => SharingInv
  BY TypeInit, LinkInit, MailInit, OpenInit, StanceInit DEF SharingInv

LEMMA InvStep == SharingInv /\ [Next]_vars => SharingInv'
  BY TypeStep, LinkStep, MailStep, OpenStep, StanceStep DEF SharingInv

LEMMA SharingAlways == Spec => []SharingInv
  BY InvInit, InvStep, PTL DEF Spec

\* Every reachable state of the links is well typed.
THEOREM SharingTyped == Spec => []TypeOK
  <1>1. SharingInv => TypeOK
    BY DEF SharingInv, Sound
  <1> QED BY <1>1, SharingAlways, PTL

\* However create_public_link() requests overlap, one public link is live.
THEOREM AlwaysOnePublic == Spec => []OnePublic
  <1>1. SharingInv => OnePublic
    BY DEF SharingInv, LinkInv
  <1> QED BY <1>1, SharingAlways, PTL

\* "sent" on a row means that the relay took a mail with its link.
THEOREM SentIsTrue == Spec => []SentWasMailed
  <1>1. SharingInv => SentWasMailed
    BY DEF SharingInv, MailInv
  <1> QED BY <1>1, SharingAlways, PTL

\* The two sending endpoints respect an opt-out that precedes the request.
THEOREM OptOutRespected == Spec => []SendRespectsOptOut
  <1>1. SharingInv => SendRespectsOptOut
    BY DEF SharingInv, MailInv
  <1> QED BY <1>1, SharingAlways, PTL

\* The author is told of the first opening only, however many pages load at
\* once.
THEOREM OpeningToldOnce == Spec => []OpenedOnce
  <1>1. SharingInv => OpenedOnce
    BY DEF SharingInv, OpenInv, OpenedOnce
  <1> QED BY <1>1, SharingAlways, PTL

\* Without overlapping transactions on its answers a recipient has one stance
\* on an item, and none on a deleted note.
THEOREM AnswersReplace == Spec => []OneStance
  <1>1. SharingInv => OneStance
    BY StanceImplied DEF SharingInv
  <1> QED BY <1>1, SharingAlways, PTL

=============================================================================
