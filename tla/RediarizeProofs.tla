---------------------------- MODULE RediarizeProofs ----------------------------
(***************************************************************************)
(* Theorems about Rediarize, for every number of workers and of requests,  *)
(* and every choice of the limits and of the failures.                     *)
(***************************************************************************)
EXTENDS Rediarize, TLAPS

-----------------------------------------------------------------------------
(* Type correctness, with what keeps the revisions in their range.         *)

\* The request on the row could still be swapped in.
MayStillSwap == row.req # NULL /\ row.rev = msg[row.req].target - 1

\* Revisions that the requests made so far may still use up: two for a request
\* that can be swapped in, one for a labelling that can be undone.
Outstanding ==
    (IF MayStillSwap THEN 2 ELSE 0) + (IF row.prev # NULL THEN 1 ELSE 0)

RevisionsLast == row.rev + Outstanding <= 2 * nreq + 1

\* A request is numbered before anything is done with it, for the revision
\* after the one its handler saw.
Numbered ==
    /\ row.req <= nreq
    /\ \A r \in Requests : msg[r].target <= row.rev + 1
    /\ \A r \in Requests : r > nreq => msg[r].handler = "none" /\ msg[r].state = "none"
    /\ \A w \in Workers : cur[w] <= nreq /\ (pc[w] # "idle" => cur[w] # NULL)

TypeInv == TypeOK /\ Numbered /\ RevisionsLast

WorkerType ==
    /\ pc \in [Workers -> {"idle", "claim", "read", "put", "swap", "delete",
                           "audit", "exhausted", "ack"}]
    /\ cur \in [Workers -> Requests \cup {NULL}]
    /\ from \in [Workers -> Revisions \cup {NULL}]
    /\ old \in [Workers -> Revisions \cup {NULL}]

RestType ==
    /\ store \in [Revisions -> Labelling \cup {NoObject}]
    /\ nreq \in 0 .. MaxRequests
    /\ undone \subseteq Revisions
    /\ overran \in BOOLEAN
    /\ faults \in 0 .. MaxFaults

LEMMA TypeParts ==
    /\ TypeOK <=> row \in Row /\ msg \in [Requests -> Msg] /\ WorkerType /\ RestType
    /\ TypeOK' <=> row' \in Row /\ msg' \in [Requests -> Msg] /\ WorkerType' /\ RestType'
  BY DEF TypeOK, WorkerType, RestType

LEMMA FaultType ==
    ASSUME faults \in 0 .. MaxFaults, NEW k, Fault(k)
    PROVE  faults' \in 0 .. MaxFaults
  BY RediarizeAssumption DEF Fault

LEMMA TypeInit == Init => TypeInv
  <1> SUFFICES ASSUME Init PROVE TypeInv
    OBVIOUS
  <1>1. row \in Row
    BY RediarizeAssumption DEF Init, Row, LIVE, Revisions, Labelling, NULL
  <1>2. msg \in [Requests -> Msg]
    BY RediarizeAssumption DEF Init, Msg, Revisions
  <1>3. WorkerType
    BY DEF Init, WorkerType
  <1>4. RestType
    <2>1. store \in [Revisions -> Labelling \cup {NoObject}]
      BY RediarizeAssumption DEF Init, Labelling
    <2>2. nreq \in 0 .. MaxRequests /\ undone \subseteq Revisions /\ faults \in 0 .. MaxFaults
      BY RediarizeAssumption DEF Init
    <2>3. overran \in BOOLEAN
      BY DEF Init
    <2> QED BY <2>1, <2>2, <2>3 DEF RestType
  <1>5. Numbered
    <2>1. /\ row.req = 0 /\ row.rev = 1 /\ nreq = 0
          /\ \A r \in Requests : msg[r].target = 1 /\ msg[r].handler = "none"
                                 /\ msg[r].state = "none"
          /\ \A w \in Workers : pc[w] = "idle" /\ cur[w] = 0
      BY DEF Init, NULL
    <2> QED BY <2>1 DEF Numbered
  <1>6. RevisionsLast
    BY DEF Init, RevisionsLast, Outstanding, MayStillSwap, NULL
  <1> QED BY <1>1, <1>2, <1>3, <1>4, <1>5, <1>6, TypeParts DEF TypeInv

\* The fields of a row that are compared with revisions.
LEMMA RowTypes ==
    ASSUME row \in Row
    PROVE  /\ row.rev \in Nat \ {0} /\ row.rev \in Revisions
           /\ row.uri \in Revisions /\ row.uri \in Nat \ {0}
           /\ row.prev \in Nat /\ (row.prev # NULL => row.prev \in Revisions)
           /\ row.req \in Nat /\ (row.req # NULL => row.req \in Requests)
           /\ row.names \in Labelling /\ row.prevNames \in Labelling /\ row.runs \in Nat
           /\ row.diar \in LIVE \cup {"null", "complete", "failed"}
           /\ row.stale \in BOOLEAN
  BY RediarizeAssumption DEF Row, Revisions, Requests, NULL

LEMMA MsgTypes ==
    ASSUME msg \in [Requests -> Msg], NEW r \in Requests
    PROVE  /\ r \in Nat \ {0} /\ msg[r].target \in Nat \ {0} /\ msg[r].target \in Revisions
           /\ msg[r].tries \in 0 .. MaxRetries
           /\ msg[r].prior \in {"null", "complete", "failed"}
  BY DEF Msg, Revisions, Requests

-----------------------------------------------------------------------------
(* The ways in which a step changes the row.                               *)

\* Only the status and its age.
Marked ==
    \E d \in LIVE \cup {"null", "complete", "failed"}, s \in BOOLEAN :
        row' = [row EXCEPT !.diar = d, !.stale = s]

SameLabels ==
    /\ row'.rev = row.rev /\ row'.uri = row.uri /\ row'.prev = row.prev
    /\ row'.names = row.names /\ row'.prevNames = row.prevNames

LEMMA MarkedRow ==
    ASSUME row \in Row, Marked
    PROVE  row' \in Row /\ SameLabels /\ row'.req = row.req
  BY DEF Marked, Row, SameLabels

\* A message keeps what it was sent with.
SameTargets == \A r \in Requests : msg'[r].target = msg[r].target

\* Steps that leave the labels, the request and the targets as they are.
LEMMA RevisionsSame ==
    ASSUME RevisionsLast, TypeOK, SameLabels, SameTargets, row'.req = row.req,
           nreq' = nreq
    PROVE  RevisionsLast'
  <1>1. row.req = NULL \/ row.req \in Requests
    BY RowTypes DEF TypeOK
  <1>2. MayStillSwap' <=> MayStillSwap
    BY <1>1 DEF MayStillSwap, SameLabels, SameTargets
  <1>3. Outstanding' = Outstanding
    BY <1>2 DEF Outstanding, SameLabels
  <1> QED BY <1>3 DEF RevisionsLast, SameLabels

-----------------------------------------------------------------------------
(* The service's steps.                                                    *)

\* A handler's step changes one message's handler and perhaps its state.
LEMMA HandlerMsg ==
    ASSUME TypeOK, NEW r \in Requests,
           NEW t \in {"none", "claimed", "unsent", "done"},
           NEW s \in {"none", "new", "pending", "acked"},
           \/ msg' = [msg EXCEPT ![r].handler = t]
           \/ msg' = [msg EXCEPT ![r].handler = t, ![r].state = s]
    PROVE  /\ msg' \in [Requests -> Msg] /\ SameTargets
           /\ \A k \in Requests \ {r} : msg'[k] = msg[k]
  BY DEF TypeOK, Msg, SameTargets

\* What a request's step does to its message.
RequestStep(r) == Send(r) \/ SendRaises(r) \/ Release(r) \/ HandlerDies(r)

LEMMA RequestMsg ==
    ASSUME TypeOK, NEW r \in Requests, RequestStep(r)
    PROVE  /\ msg' \in [Requests -> Msg] /\ SameTargets
           /\ \A k \in Requests \ {r} : msg'[k] = msg[k]
           /\ msg[r].handler \in {"claimed", "unsent"}
           /\ UNCHANGED <<store, workerVars, nreq, undone, overran>>
           /\ faults' \in 0 .. MaxFaults
           /\ row' = row \/ Release(r)
  <1>1. \E t \in {"none", "claimed", "unsent", "done"},
           s \in {"none", "new", "pending", "acked"} :
           \/ msg' = [msg EXCEPT ![r].handler = t]
           \/ msg' = [msg EXCEPT ![r].handler = t, ![r].state = s]
    <2>1. CASE Send(r) \/ SendRaises(r)
      BY <2>1 DEF Send, SendRaises
    <2>2. CASE Release(r) \/ HandlerDies(r)
      BY <2>2 DEF Release, HandlerDies, HandlerStep
    <2> QED BY <2>1, <2>2 DEF RequestStep
  <1>2. /\ msg' \in [Requests -> Msg] /\ SameTargets
        /\ \A k \in Requests \ {r} : msg'[k] = msg[k]
    BY <1>1, HandlerMsg
  <1>3. /\ msg[r].handler \in {"claimed", "unsent"}
        /\ UNCHANGED <<store, workerVars, nreq, undone, overran>>
        /\ row' = row \/ Release(r)
    BY DEF RequestStep, Send, SendRaises, Release, HandlerDies, HandlerStep
  <1>4. faults' = faults \/ \E k : Fault(k)
    BY DEF RequestStep, Send, SendRaises, Release, HandlerDies
  <1>5. faults' \in 0 .. MaxFaults
    BY <1>4, FaultType DEF TypeOK
  <1> QED BY <1>2, <1>3, <1>5

\* release_rediarize_claim() on the row.
LEMMA ReleaseRow ==
    ASSUME TypeOK, NEW r \in Requests, Release(r)
    PROVE  /\ row' \in Row /\ SameLabels
           /\ row' = row \/ (row.diar = "queued" /\ row.req = r /\ row'.req = NULL)
  <1>1. CASE row.diar = "queued" /\ row.req = r
    <2>1. row' = [row EXCEPT !.diar = msg[r].prior, !.stale = FALSE, !.req = NULL,
                             !.runs = IF @ > 0 THEN @ - 1 ELSE 0]
      BY <1>1 DEF Release
    <2>2. (IF row.runs > 0 THEN row.runs - 1 ELSE 0) \in Nat
          /\ msg[r].prior \in {"null", "complete", "failed"}
      BY RowTypes, MsgTypes DEF TypeOK
    <2>3. row' \in Row /\ SameLabels /\ row'.req = NULL
      BY <2>1, <2>2 DEF TypeOK, Row, SameLabels, NULL
    <2> QED BY <1>1, <2>3
  <1>2. CASE ~(row.diar = "queued" /\ row.req = r)
    BY <1>2 DEF Release, TypeOK, SameLabels
  <1> QED BY <1>1, <1>2

\* claim_rediarize() on the row and on the new request's message.
LEMMA ClaimEffect ==
    ASSUME TypeOK, Claim
    PROVE  /\ row' \in Row /\ SameLabels /\ row'.req = nreq + 1 /\ nreq' = nreq + 1
           /\ nreq + 1 \in Requests /\ row.diar \notin LIVE
           /\ \A r \in Requests \ {nreq + 1} : msg'[r] = msg[r]
           /\ msg'[nreq + 1].target = row.rev + 1
           /\ msg'[nreq + 1].state = msg[nreq + 1].state
           /\ row.rev + 1 \in Revisions => msg' \in [Requests -> Msg]
           /\ UNCHANGED <<store, workerVars, undone, faults, overran>>
  <1> DEFINE r == nreq + 1
  <1>1. /\ nreq < MaxRequests /\ row.diar \notin LIVE /\ nreq' = r
        /\ row' = [row EXCEPT !.diar = "queued", !.runs = @ + 1, !.stale = FALSE, !.req = r]
        /\ msg' = [msg EXCEPT ![r] = [@ EXCEPT !.handler = "claimed",
                                               !.target = row.rev + 1, !.prior = row.diar]]
        /\ UNCHANGED <<store, workerVars, undone, faults, overran>>
    BY DEF Claim, MayClaim
  <1>2. r \in Requests
    BY <1>1, RediarizeAssumption DEF TypeOK, Requests
  <1>3. row' \in Row /\ SameLabels /\ row'.req = r
    <2>1. row.runs + 1 \in Nat
      BY RowTypes DEF TypeOK
    <2> QED BY <1>1, <1>2, <2>1 DEF TypeOK, Row, SameLabels, LIVE
  <1>4. msg[r] \in Msg /\ row.diar \in {"null", "complete", "failed"}
    BY <1>1, <1>2, RowTypes DEF TypeOK
  <1>5. msg'[r] = [msg[r] EXCEPT !.handler = "claimed",
                                 !.target = row.rev + 1, !.prior = row.diar]
        /\ \A k \in Requests \ {r} : msg'[k] = msg[k]
    BY <1>1, <1>2 DEF TypeOK
  <1>6. msg'[r].target = row.rev + 1 /\ msg'[r].state = msg[r].state
    BY <1>4, <1>5 DEF Msg
  <1>7. row.rev + 1 \in Revisions => msg'[r] \in Msg
    BY <1>4, <1>5 DEF Msg
  <1>8. row.rev + 1 \in Revisions => msg' \in [Requests -> Msg]
    BY <1>1, <1>2, <1>7, <1>5 DEF TypeOK
  <1> QED BY <1>1, <1>2, <1>3, <1>5, <1>6, <1>8

\* undo_rediarize() on the row.
LEMMA UndoEffect ==
    ASSUME TypeOK, Undo
    PROVE  /\ row.diar \notin LIVE /\ row.prev # NULL /\ row.prev \in Revisions
           /\ row'.rev = row.rev + 1 /\ row'.uri = row.prev /\ row'.prev = NULL
           /\ row'.names = row.prevNames /\ row'.req = row.req
           /\ row.rev + 1 \in Revisions => row' \in Row
           /\ undone' = undone \cup {row.uri}
           /\ UNCHANGED <<store, msg, workerVars, nreq, faults, overran>>
  <1>1. /\ row.diar \notin LIVE /\ row.prev # NULL
        /\ row' = [row EXCEPT !.uri = row.prev, !.prev = NULL, !.names = row.prevNames,
                              !.prevNames = 0, !.rev = row.rev + 1,
                              !.diar = "complete", !.stale = FALSE]
        /\ undone' = undone \cup {row.uri}
        /\ UNCHANGED <<store, msg, workerVars, nreq, faults, overran>>
    BY DEF Undo, NextRevision
  <1>2. row.prev \in Revisions /\ 0 \in Labelling
    BY <1>1, RowTypes, RediarizeAssumption DEF TypeOK, Labelling
  <1>3. /\ row'.rev = row.rev + 1 /\ row'.uri = row.prev /\ row'.prev = NULL
        /\ row'.names = row.prevNames /\ row'.req = row.req
    BY <1>1 DEF TypeOK, Row
  <1>4. row.rev + 1 \in Revisions => row' \in Row
    BY <1>1, <1>2 DEF TypeOK, Row
  <1> QED BY <1>1, <1>2, <1>3, <1>4

-----------------------------------------------------------------------------
(* The worker's steps.                                                     *)

WorkerStep(w) == RunStep(w) \/ Crash(w)

OthersStay(w) ==
    \A v \in Workers \ {w} :
        pc'[v] = pc[v] /\ cur'[v] = cur[v] /\ from'[v] = from[v] /\ old'[v] = old[v]

\* A worker has a request in hand until it is free again.
LEMMA FreeEffect ==
    ASSUME WorkerType, NEW w \in Workers, Free(w)
    PROVE  WorkerType' /\ OthersStay(w) /\ pc'[w] = "idle" /\ cur'[w] = NULL
  BY DEF WorkerType, Free, OthersStay

LEMMA PcEffect ==
    ASSUME WorkerType, NEW w \in Workers,
           NEW s \in {"idle", "claim", "read", "put", "swap", "delete",
                      "audit", "exhausted", "ack"},
           pc' = [pc EXCEPT ![w] = s], UNCHANGED <<cur, from, old>>
    PROVE  WorkerType' /\ OthersStay(w) /\ pc'[w] = s /\ cur'[w] = cur[w]
  BY DEF WorkerType, OthersStay

\* Where a step takes its worker.
LEMMA WorkerMoves ==
    ASSUME TypeInv, NEW w \in Workers, WorkerStep(w)
    PROVE  /\ WorkerType' /\ OthersStay(w) /\ UNCHANGED <<nreq, undone>>
           /\ pc'[w] # "idle" => cur'[w] # NULL
           /\ \/ cur'[w] = NULL /\ pc'[w] = "idle"
              \/ cur'[w] = cur[w] /\ pc[w] # "idle" /\ cur[w] \in Requests
              \/ \E r \in Requests : Deliver(w, r) /\ cur'[w] = r /\ pc'[w] = "claim"
  <1>0. WorkerType /\ Numbered /\ row \in Row
    BY TypeParts DEF TypeInv
  <1>1. pc[w] # "idle" => cur[w] # NULL /\ cur[w] \in Requests
    BY <1>0 DEF WorkerType, Numbered
  <1>2. CASE \E r \in Requests : Deliver(w, r)
    <2>1. PICK r \in Requests : Deliver(w, r)
      BY <1>2
    <2>2. /\ pc' = [pc EXCEPT ![w] = "claim"] /\ cur' = [cur EXCEPT ![w] = r]
          /\ UNCHANGED <<from, old, nreq, undone>>
      BY <2>1 DEF Deliver, Step
    <2>3. WorkerType' /\ OthersStay(w) /\ cur'[w] = r /\ pc'[w] = "claim"
      BY <1>0, <2>2 DEF WorkerType, OthersStay
    <2>4. r # NULL
      BY DEF Requests, NULL
    <2> QED BY <2>1, <2>2, <2>3, <2>4
  <1>3. CASE ClaimRun(w)
    <2>1. /\ pc[w] = "claim" /\ UNCHANGED <<cur, old, nreq, undone>>
          /\ \/ pc' = [pc EXCEPT ![w] = "read"] /\ from' = [from EXCEPT ![w] = row.uri]
             \/ pc' = [pc EXCEPT ![w] = "ack"] /\ from' = from
      BY <1>3 DEF ClaimRun
    <2>2. WorkerType' /\ OthersStay(w) /\ cur'[w] = cur[w]
      BY <1>0, <2>1, RowTypes DEF WorkerType, OthersStay
    <2> QED BY <1>1, <2>1, <2>2
  <1>4. CASE ReadCurrent(w) \/ RunFails(w) \/ PutRevision(w) \/ DeleteSuperseded(w)
    <2>1. /\ pc[w] # "idle" /\ UNCHANGED <<cur, from, old, nreq, undone>>
          /\ \E s \in {"put", "ack", "swap", "audit"} : pc' = [pc EXCEPT ![w] = s]
      BY <1>4 DEF ReadCurrent, RunFails, PutRevision, DeleteSuperseded, Step
    <2> QED BY <1>0, <1>1, <2>1, PcEffect
  <1>5. CASE Swap(w)
    <2>1. /\ pc[w] = "swap" /\ UNCHANGED <<cur, from, nreq, undone>>
          /\ \/ pc' = [pc EXCEPT ![w] = "delete"] /\ old' = [old EXCEPT ![w] = row.prev]
             \/ pc' = [pc EXCEPT ![w] = "ack"] /\ old' = old
      BY <1>5 DEF Swap
    <2>2. WorkerType' /\ OthersStay(w) /\ cur'[w] = cur[w]
      BY <1>0, <2>1, RowTypes DEF WorkerType, OthersStay
    <2> QED BY <1>1, <2>1, <2>2
  <1>6. CASE RunRetries(w)
    <2>1. UNCHANGED <<nreq, undone>> /\ pc[w] # "idle"
      BY <1>6 DEF RunRetries
    <2>2. CASE Free(w)
      BY <1>0, <2>1, <2>2, FreeEffect
    <2>3. CASE pc' = [pc EXCEPT ![w] = "exhausted"] /\ UNCHANGED <<cur, from, old>>
      BY <1>0, <1>1, <2>1, <2>3, PcEffect
    <2> QED BY <1>6, <2>2, <2>3 DEF RunRetries
  <1>7. CASE Exhausted(w) \/ Ack(w) \/ Crash(w)
    <2>1. Free(w) /\ UNCHANGED <<nreq, undone>>
      BY <1>7 DEF Exhausted, Ack, Crash
    <2> QED BY <1>0, <2>1, FreeEffect
  <1> QED BY <1>2, <1>3, <1>4, <1>5, <1>6, <1>7 DEF WorkerStep, RunStep

\* What it does to the messages.
LEMMA WorkerMsg ==
    ASSUME TypeInv, NEW w \in Workers, WorkerStep(w)
    PROVE  /\ msg' \in [Requests -> Msg] /\ SameTargets
           /\ \A r \in Requests : /\ msg'[r].handler = msg[r].handler
                                  /\ msg[r].state = "none" => msg'[r].state = "none"
                                                              \/ cur[w] = r
  <1>0. TypeOK /\ msg \in [Requests -> Msg] /\ (pc[w] # "idle" => cur[w] \in Requests)
    BY DEF TypeInv, TypeOK, Numbered
  <1>a. 0 \in 0 .. MaxRetries
    BY RediarizeAssumption
  <1>1. ASSUME NEW r \in Requests, NEW t \in 0 .. MaxRetries,
               NEW s \in {"none", "new", "pending", "acked"},
               \/ msg' = [msg EXCEPT ![r].state = s]
               \/ msg' = [msg EXCEPT ![r].tries = t]
               \/ msg' = [msg EXCEPT ![r].tries = t, ![r].state = s]
               \/ msg' = [msg EXCEPT ![r].state = s, ![r].tries = t]
        PROVE  /\ msg' \in [Requests -> Msg] /\ SameTargets
               /\ \A k \in Requests : msg'[k].handler = msg[k].handler
               /\ \A k \in Requests \ {r} : msg'[k] = msg[k]
    BY <1>0, <1>1 DEF Msg, SameTargets
  <1>2. CASE msg' = msg
    BY <1>0, <1>2 DEF SameTargets
  <1>3. CASE \E r \in Requests : Deliver(w, r)
    <2>1. PICK r \in Requests : Deliver(w, r)
      BY <1>3
    <2>2. msg' = [msg EXCEPT ![r].state = "pending"] /\ msg[r].state # "none"
      BY <2>1 DEF Deliver
    <2>3. /\ msg' \in [Requests -> Msg] /\ SameTargets
          /\ \A k \in Requests : msg'[k].handler = msg[k].handler
          /\ \A k \in Requests \ {r} : msg'[k] = msg[k]
      BY <1>1, <1>a, <2>2
    <2> QED BY <2>2, <2>3
  <1>4. CASE RunRetries(w)
    <2>1. /\ cur[w] \in Requests /\ pc[w] # "idle"
          /\ \/ msg' = [msg EXCEPT ![cur[w]].tries = 0, ![cur[w]].state = "acked"]
             \/ /\ msg' = [msg EXCEPT ![cur[w]].tries = @ + 1]
                /\ ~(msg[cur[w]].tries + 1 >= MaxRetries)
      BY <1>0, <1>4 DEF RunRetries
    <2>2. msg[cur[w]].tries \in 0 .. MaxRetries
      BY <1>0, <2>1, MsgTypes
    <2>3. CASE msg' = [msg EXCEPT ![cur[w]].tries = 0, ![cur[w]].state = "acked"]
      <3>1. /\ msg' \in [Requests -> Msg] /\ SameTargets
            /\ \A k \in Requests : msg'[k].handler = msg[k].handler
            /\ \A k \in Requests \ {cur[w]} : msg'[k] = msg[k]
        BY <1>1, <1>a, <2>1, <2>3
      <3> QED BY <3>1
    <2>4. CASE /\ msg' = [msg EXCEPT ![cur[w]].tries = @ + 1]
               /\ ~(msg[cur[w]].tries + 1 >= MaxRetries)
      <3>1. msg[cur[w]].tries + 1 \in 0 .. MaxRetries
        BY <2>2, <2>4, RediarizeAssumption
      <3>2. msg' = [msg EXCEPT ![cur[w]].tries = msg[cur[w]].tries + 1]
        BY <2>4
      <3> QED BY <1>1, <2>1, <3>1, <3>2
    <2> QED BY <2>1, <2>3, <2>4
  <1>5. CASE Ack(w)
    <2>1. cur[w] \in Requests
          /\ msg' = [msg EXCEPT ![cur[w]].state = "acked", ![cur[w]].tries = 0]
      BY <1>0, <1>5 DEF Ack
    <2>2. /\ msg' \in [Requests -> Msg] /\ SameTargets
          /\ \A k \in Requests : msg'[k].handler = msg[k].handler
          /\ \A k \in Requests \ {cur[w]} : msg'[k] = msg[k]
      BY <1>1, <1>a, <2>1
    <2> QED BY <2>2
  <1> QED BY <1>2, <1>3, <1>4, <1>5
          DEF WorkerStep, RunStep, ClaimRun, ReadCurrent, RunFails, PutRevision, Swap,
              DeleteSuperseded, Exhausted, Crash

\* What it does to the row: the claim and the failure mark it, the swap replaces
\* the labelling, under a check of revision and request.
SwapRow(w) ==
    /\ pc[w] = "swap" /\ pc'[w] = "delete" /\ old'[w] = row.prev
    /\ MaySwap(cur[w]) /\ row'.rev = row.rev + 1
    /\ row'.uri = msg[cur[w]].target /\ row'.prev = row.uri
    /\ row'.names = cur[w] /\ row'.prevNames = row.names /\ row'.req = row.req
    /\ store' = store

LEMMA SwapEffect ==
    ASSUME TypeInv, NEW w \in Workers, Swap(w)
    PROVE  (row' = row /\ pc'[w] = "ack") \/ (row' \in Row /\ SwapRow(w))
  <1>0. row \in Row /\ msg \in [Requests -> Msg] /\ WorkerType
        /\ (pc[w] # "idle" => cur[w] \in Requests)
    BY DEF TypeInv, TypeOK, Numbered, WorkerType
  <1>1. cur[w] \in Requests /\ pc[w] = "swap"
    BY <1>0 DEF Swap
  <1>2. CASE ~MaySwap(cur[w])
    BY <1>0, <1>2 DEF Swap, WorkerType
  <1>3. CASE MaySwap(cur[w])
    <2>1. /\ row' = [row EXCEPT !.prev = row.uri, !.prevNames = row.names,
                                !.uri = msg[cur[w]].target, !.rev = msg[cur[w]].target,
                                !.names = cur[w], !.diar = "complete", !.stale = FALSE]
          /\ old' = [old EXCEPT ![w] = row.prev] /\ pc' = [pc EXCEPT ![w] = "delete"]
          /\ store' = store
      BY <1>3 DEF Swap
    <2>2. /\ msg[cur[w]].target \in Revisions /\ cur[w] \in Labelling
          /\ msg[cur[w]].target = row.rev + 1
      BY <1>0, <1>1, <1>3, MsgTypes, RowTypes DEF MaySwap, Labelling, Requests
    <2>3. row' \in Row
      BY <1>0, <2>1, <2>2, RowTypes DEF Row
    <2>4. /\ row'.rev = msg[cur[w]].target /\ row'.uri = msg[cur[w]].target
          /\ row'.prev = row.uri /\ row'.names = cur[w] /\ row'.prevNames = row.names
          /\ row'.req = row.req
      BY <1>0, <2>1 DEF Row
    <2>5. pc'[w] = "delete" /\ old'[w] = row.prev
      BY <1>0, <2>1 DEF WorkerType
    <2> QED BY <1>1, <1>3, <2>1, <2>2, <2>3, <2>4, <2>5 DEF SwapRow
  <1> QED BY <1>2, <1>3

LEMMA WorkerRow ==
    ASSUME TypeInv, NEW w \in Workers, WorkerStep(w)
    PROVE  /\ row' \in Row
           /\ \/ row' = row \/ SwapRow(w)
              \/ SameLabels /\ row'.req = row.req /\ row.req = cur[w]
                 /\ (ClaimRun(w) \/ ReadCurrent(w) \/ RunFails(w) \/ Exhausted(w))
  <1>0. row \in Row
    BY DEF TypeInv, TypeOK
  <1>1. CASE row' = row
    BY <1>0, <1>1
  <1>2. CASE Swap(w)
    BY <1>0, <1>2, SwapEffect
  <1>3. CASE row' # row /\ (ClaimRun(w) \/ ReadCurrent(w) \/ RunFails(w) \/ Exhausted(w))
    <2>1. Marked /\ row.req = cur[w]
      BY <1>3 DEF ClaimRun, MayRun, ReadCurrent, RunFails, Exhausted, MarkFailed, Marked, LIVE
    <2> QED BY <1>0, <1>3, <2>1, MarkedRow
  <1> QED BY <1>1, <1>2, <1>3
          DEF WorkerStep, RunStep, Deliver, PutRevision, DeleteSuperseded, Ack,
              RunRetries, Crash

\* What it does to the store: the new object, or the superseded one.
PutStore(w) ==
    /\ pc[w] = "put" /\ pc'[w] = "swap" /\ row' = row
    /\ store'[msg[cur[w]].target] = cur[w]
    /\ \A n \in Revisions \ {msg[cur[w]].target} : store'[n] = store[n]

DeleteStore(w) ==
    /\ pc[w] = "delete" /\ pc'[w] = "audit" /\ row' = row
    /\ \A n \in Revisions \ {old[w]} : store'[n] = store[n]

LEMMA WorkerStore ==
    ASSUME TypeInv, NEW w \in Workers, WorkerStep(w)
    PROVE  /\ RestType'
           /\ store' = store \/ PutStore(w) \/ DeleteStore(w)
           /\ overran' = overran \/ \E r \in Requests : Deliver(w, r)
  <1>0. /\ WorkerType /\ RestType /\ msg \in [Requests -> Msg]
        /\ (pc[w] # "idle" => cur[w] \in Requests)
    BY TypeParts DEF TypeInv, TypeOK, Numbered, WorkerType
  <1>1. UNCHANGED <<nreq, undone>>
    BY WorkerMoves
  <1>2. faults' = faults \/ \E k : Fault(k)
    BY DEF WorkerStep, RunStep, Deliver, ClaimRun, ReadCurrent, RunFails, PutRevision,
           Swap, DeleteSuperseded, Ack, RunRetries, Exhausted, Crash
  <1>3. faults' \in 0 .. MaxFaults
    BY <1>0, <1>2, FaultType DEF RestType
  <1>4. overran' = overran \/ \E r \in Requests : Deliver(w, r)
    BY DEF WorkerStep, RunStep, ClaimRun, ReadCurrent, RunFails, PutRevision,
           Swap, DeleteSuperseded, Ack, RunRetries, Exhausted, Crash
  <1>5. overran' \in BOOLEAN
    <2>1. CASE overran' = overran
      BY <1>0, <2>1 DEF RestType
    <2>2. CASE \E r \in Requests : Deliver(w, r)
      BY <2>2, Zenon DEF Deliver
    <2> QED BY <1>4, <2>1, <2>2
  <1>6. /\ store' \in [Revisions -> Labelling \cup {NoObject}]
        /\ store' = store \/ PutStore(w) \/ DeleteStore(w)
    <2>1. CASE store' = store
      BY <1>0, <2>1 DEF RestType
    <2>2. CASE PutRevision(w)
      <3>1. /\ pc[w] = "put" /\ pc' = [pc EXCEPT ![w] = "swap"] /\ row' = row
            /\ store' = [store EXCEPT ![msg[cur[w]].target] = cur[w]]
        BY <2>2 DEF PutRevision, Step
      <3>2. msg[cur[w]].target \in Revisions /\ cur[w] \in Labelling
        BY <1>0, <3>1, MsgTypes DEF Labelling, Requests
      <3> QED BY <1>0, <3>1, <3>2 DEF RestType, WorkerType, PutStore
    <2>3. CASE DeleteSuperseded(w)
      <3>1. PICK D \in {{}, Superseded(w)} :
                store' = [n \in Revisions |-> IF n \in D THEN NoObject ELSE store[n]]
        BY <2>3 DEF DeleteSuperseded
      <3>2. pc[w] = "delete" /\ pc' = [pc EXCEPT ![w] = "audit"] /\ row' = row
        BY <2>3 DEF DeleteSuperseded, Step
      <3>3. D \subseteq {old[w]}
        BY <3>1 DEF Superseded
      <3> QED BY <1>0, <3>1, <3>2, <3>3 DEF RestType, WorkerType, DeleteStore
    <2> QED BY <2>1, <2>2, <2>3
            DEF WorkerStep, RunStep, Deliver, ClaimRun, ReadCurrent, RunFails, Swap, Ack,
                RunRetries, Exhausted, Crash
  <1>7. RestType'
    BY <1>0, <1>1, <1>3, <1>5, <1>6 DEF RestType
  <1> QED BY <1>4, <1>6, <1>7

\* How it gets from one position to the next.
LEMMA WorkerPath ==
    ASSUME TypeInv, NEW w \in Workers, WorkerStep(w)
    PROVE  /\ pc'[w] = "read" => ClaimRun(w) /\ MayRun(cur[w])
           /\ pc'[w] = "put" => ReadCurrent(w) /\ pc[w] = "read" /\ row' = row
           /\ pc'[w] = "swap" => PutStore(w)
           /\ pc'[w] = "delete" => SwapRow(w)
  <1>0. WorkerType
    BY TypeParts DEF TypeInv
  <1>1. CASE ClaimRun(w)
    BY <1>0, <1>1 DEF ClaimRun, WorkerType
  <1>2. CASE ReadCurrent(w) \/ RunFails(w)
    BY <1>0, <1>2 DEF ReadCurrent, RunFails, Step, WorkerType
  <1>3. CASE PutRevision(w)
    <2>1. pc'[w] = "swap"
      BY <1>0, <1>3 DEF PutRevision, Step, WorkerType
    <2>2. PutStore(w)
      <3>1. /\ pc[w] = "put" /\ row' = row
            /\ store' = [store EXCEPT ![msg[cur[w]].target] = cur[w]]
        BY <1>3 DEF PutRevision, Step
      <3>2. cur[w] \in Requests /\ msg \in [Requests -> Msg]
        BY <3>1 DEF TypeInv, TypeOK, Numbered
      <3>3. msg[cur[w]].target \in Revisions
        BY <3>2, MsgTypes
      <3> QED BY <2>1, <3>1, <3>3 DEF PutStore, TypeInv, TypeOK
    <2> QED BY <2>1, <2>2
  <1>4. CASE Swap(w)
    BY <1>0, <1>4, SwapEffect DEF SwapRow
  <1>5. CASE DeleteSuperseded(w)
    BY <1>0, <1>5 DEF DeleteSuperseded, Step, WorkerType
  <1>6. CASE RunRetries(w)
    <2>1. pc'[w] \in {"idle", "exhausted"}
      BY <1>0, <1>6 DEF RunRetries, Free, WorkerType
    <2> QED BY <2>1
  <1>7. CASE Exhausted(w) \/ Ack(w) \/ Crash(w)
    <2>1. pc'[w] = "idle"
      BY <1>0, <1>7 DEF Exhausted, Ack, Crash, Free, WorkerType
    <2> QED BY <2>1
  <1>8. CASE \E r \in Requests : Deliver(w, r)
    <2>1. pc'[w] = "claim"
      BY <1>0, <1>8 DEF Deliver, Step, WorkerType
    <2> QED BY <2>1
  <1> QED BY <1>1, <1>2, <1>3, <1>4, <1>5, <1>6, <1>7, <1>8 DEF WorkerStep, RunStep

-----------------------------------------------------------------------------
(* The type invariant is preserved.                                        *)

LEMMA TypeClaim ==
    ASSUME TypeInv, Claim
    PROVE  TypeInv'
  <1>0. TypeOK /\ row \in Row /\ WorkerType /\ RestType /\ Numbered /\ RevisionsLast
        /\ nreq \in Nat
    BY TypeParts DEF TypeInv, RestType
  <1>a. /\ row.rev \in Nat \ {0} /\ row.req \in Nat
        /\ \A r \in Requests : msg[r].target \in Nat /\ r \in Nat
        /\ \A w \in Workers : cur[w] \in Nat
    BY <1>0, RowTypes, MsgTypes DEF TypeOK, Requests, NULL
  <1>1. /\ row' \in Row /\ SameLabels /\ row'.req = nreq + 1 /\ nreq' = nreq + 1
        /\ nreq + 1 \in Requests
        /\ \A r \in Requests \ {nreq + 1} : msg'[r] = msg[r]
        /\ msg'[nreq + 1].target = row.rev + 1
        /\ row.rev + 1 \in Revisions => msg' \in [Requests -> Msg]
        /\ UNCHANGED <<store, pc, cur, from, old, undone, faults, overran>>
    BY <1>0, ClaimEffect DEF workerVars
  <1>2. row.rev + 1 \in Revisions
    <2>1. row.rev <= 2 * nreq + 1
      BY <1>0, <1>a DEF RevisionsLast, Outstanding
    <2>2. nreq + 1 <= MaxRequests
      BY <1>1, RediarizeAssumption DEF Requests
    <2> QED BY <1>0, <1>a, <2>1, <2>2, RediarizeAssumption DEF Revisions
  <1>3. RevisionsLast'
    <2>1. MayStillSwap' \in BOOLEAN /\ row'.rev = row.rev /\ row'.prev = row.prev
      BY <1>1 DEF MayStillSwap, SameLabels
    <2>2. row.rev + (IF row.prev # NULL THEN 1 ELSE 0) <= 2 * nreq + 1
      BY <1>0, <1>a DEF RevisionsLast, Outstanding
    <2>3. Outstanding' <= 2 + (IF row.prev # NULL THEN 1 ELSE 0) /\ Outstanding' \in Nat
      BY <2>1 DEF Outstanding
    <2> QED BY <1>0, <1>1, <1>a, <2>1, <2>2, <2>3 DEF RevisionsLast
  <1>4. Numbered'
    <2>1. row'.req <= nreq' /\ \A w \in Workers : cur'[w] <= nreq' /\ (pc'[w] # "idle" => cur'[w] # NULL)
      BY <1>0, <1>1, <1>a DEF Numbered
    <2>2. \A r \in Requests : msg'[r].target <= row'.rev + 1
      BY <1>0, <1>1, <1>a DEF Numbered, SameLabels
    <2>3. \A r \in Requests : r > nreq' => msg'[r].handler = "none" /\ msg'[r].state = "none"
      BY <1>0, <1>1, <1>a DEF Numbered
    <2> QED BY <2>1, <2>2, <2>3 DEF Numbered
  <1>5. WorkerType' /\ RestType'
    <2>1. nreq' \in 0 .. MaxRequests
      BY <1>0, <1>1, RediarizeAssumption DEF Requests
    <2> QED BY <1>0, <1>1, <2>1 DEF WorkerType, RestType
  <1> QED BY <1>1, <1>2, <1>3, <1>4, <1>5, TypeParts DEF TypeInv

LEMMA TypeUndo ==
    ASSUME TypeInv, Undo
    PROVE  TypeInv'
  <1>0. TypeOK /\ row \in Row /\ WorkerType /\ RestType /\ Numbered /\ RevisionsLast
        /\ nreq \in Nat /\ nreq <= MaxRequests
    BY TypeParts DEF TypeInv, RestType
  <1>a. /\ row.rev \in Nat \ {0} /\ row.req \in Nat /\ row.uri \in Revisions
        /\ (row.req # NULL => row.req \in Requests)
        /\ \A r \in Requests : msg[r].target \in Nat
    BY <1>0, RowTypes, MsgTypes DEF TypeOK
  <1>1. /\ row.prev # NULL
        /\ row'.rev = row.rev + 1 /\ row'.prev = NULL /\ row'.req = row.req
        /\ row.rev + 1 \in Revisions => row' \in Row
        /\ undone' = undone \cup {row.uri}
        /\ UNCHANGED <<store, msg, pc, cur, from, old, nreq, faults, overran>>
    BY <1>0, UndoEffect DEF workerVars
  <1>2. row.rev + 1 <= 2 * nreq + 1
    BY <1>0, <1>1, <1>a DEF RevisionsLast, Outstanding
  <1>3. row.rev + 1 \in Revisions
    BY <1>0, <1>2, <1>a, RediarizeAssumption DEF Revisions
  <1>4. ~MayStillSwap'
    <2>1. \A r \in Requests : msg[r].target <= row.rev + 1
      BY <1>0 DEF Numbered
    <2> QED BY <1>1, <1>a, <2>1 DEF MayStillSwap
  <1>5. RevisionsLast'
    BY <1>1, <1>2, <1>4, <1>a DEF RevisionsLast, Outstanding
  <1>6. Numbered'
    BY <1>0, <1>1, <1>a DEF Numbered
  <1>7. WorkerType' /\ RestType'
    BY <1>0, <1>1, <1>a DEF WorkerType, RestType
  <1>8. msg' \in [Requests -> Msg]
    BY <1>0, <1>1 DEF TypeOK
  <1> QED BY <1>1, <1>3, <1>5, <1>6, <1>7, <1>8, TypeParts DEF TypeInv

\* The other steps of the service.
LEMMA ReaperEffect ==
    ASSUME TypeOK, GoesStale \/ Reap
    PROVE  /\ row' \in Row /\ SameLabels /\ row'.req = row.req
           /\ UNCHANGED <<store, msg, workerVars, nreq, undone, faults, overran>>
  <1>1. Marked /\ UNCHANGED <<store, msg, workerVars, nreq, undone, faults, overran>>
    <2>1. CASE GoesStale
      <3>1. row' = [row EXCEPT !.diar = row.diar, !.stale = TRUE]
        BY <2>1 DEF GoesStale, TypeOK, Row
      <3> QED BY <2>1, <3>1, RowTypes DEF GoesStale, Marked, TypeOK
    <2>2. CASE Reap
      BY <2>2 DEF Reap, Marked
    <2> QED BY <2>1, <2>2
  <1> QED BY <1>1, MarkedRow DEF TypeOK

LEMMA UndoDeleteEffect ==
    ASSUME TypeOK, NEW n \in Revisions, UndoDelete(n)
    PROVE  /\ n \in undone /\ undone' = undone \ {n}
           /\ store' \in [Revisions -> Labelling \cup {NoObject}]
           /\ \A m \in Revisions \ {n} : store'[m] = store[m]
           /\ UNCHANGED <<row, msg, workerVars, nreq, faults, overran>>
  BY DEF TypeOK, UndoDelete

\* A step that numbers no request and moves no revision.
LEMMA TypeQuiet ==
    ASSUME TypeInv, row' \in Row, msg' \in [Requests -> Msg], WorkerType', RestType',
           row'.rev = row.rev, row'.prev = row.prev,
           row'.req = row.req \/ row'.req = NULL, nreq' = nreq, SameTargets,
           \A r \in Requests : r > nreq => msg'[r].handler = "none" /\ msg'[r].state = "none",
           \A w \in Workers : cur'[w] <= nreq /\ (pc'[w] # "idle" => cur'[w] # NULL)
    PROVE  TypeInv'
  <1>0. TypeOK /\ Numbered /\ RevisionsLast /\ row \in Row /\ nreq \in Nat
    BY TypeParts DEF TypeInv, TypeOK
  <1>a. /\ row.rev \in Nat \ {0} /\ row.req \in Nat
        /\ (row.req # NULL => row.req \in Requests)
        /\ \A r \in Requests : msg[r].target \in Nat
    BY <1>0, RowTypes, MsgTypes DEF TypeOK
  <1>1. Numbered'
    <2>1. row'.req <= nreq'
      BY <1>0, <1>a DEF Numbered, NULL
    <2>2. \A r \in Requests : msg'[r].target <= row'.rev + 1
      BY <1>0 DEF Numbered, SameTargets
    <2> QED BY <2>1, <2>2 DEF Numbered
  <1>2. MayStillSwap' => MayStillSwap
    BY <1>a DEF MayStillSwap, SameTargets
  <1>3. Outstanding' <= Outstanding /\ Outstanding \in Nat /\ Outstanding' \in Nat
    BY <1>2 DEF Outstanding
  <1>4. RevisionsLast'
    BY <1>0, <1>a, <1>3 DEF RevisionsLast
  <1> QED BY <1>1, <1>4, TypeParts DEF TypeInv

LEMMA TypeWorker ==
    ASSUME TypeInv, NEW w \in Workers, WorkerStep(w)
    PROVE  TypeInv'
  <1>0. TypeOK /\ Numbered /\ RevisionsLast /\ row \in Row /\ nreq \in Nat /\ WorkerType
    BY TypeParts DEF TypeInv, TypeOK
  <1>a. /\ row.rev \in Nat \ {0} /\ row.req \in Nat
        /\ (row.req # NULL => row.req \in Requests)
        /\ \A r \in Requests : msg[r].target \in Nat /\ r \in Nat \ {0}
    BY <1>0, RowTypes, MsgTypes DEF TypeOK
  <1>1. /\ WorkerType' /\ OthersStay(w) /\ UNCHANGED <<nreq, undone>>
        /\ pc'[w] # "idle" => cur'[w] # NULL
        /\ \/ cur'[w] = NULL /\ pc'[w] = "idle"
           \/ cur'[w] = cur[w] /\ pc[w] # "idle" /\ cur[w] \in Requests
           \/ \E r \in Requests : Deliver(w, r) /\ cur'[w] = r /\ pc'[w] = "claim"
    BY WorkerMoves
  <1>2. /\ msg' \in [Requests -> Msg] /\ SameTargets
        /\ \A r \in Requests : /\ msg'[r].handler = msg[r].handler
                               /\ msg[r].state = "none" => msg'[r].state = "none"
                                                           \/ cur[w] = r
    BY WorkerMsg
  <1>3. row' \in Row /\ RestType'
    BY WorkerRow, WorkerStore
  <1>4. \A r \in Requests : r > nreq => msg'[r].handler = "none" /\ msg'[r].state = "none"
    BY <1>0, <1>2, <1>a DEF Numbered
  <1>5. \A v \in Workers : cur'[v] <= nreq /\ (pc'[v] # "idle" => cur'[v] # NULL)
    <2>1. ASSUME NEW r \in Requests, Deliver(w, r) PROVE r <= nreq
      <3>1. msg[r].state # "none"
        BY <2>1 DEF Deliver
      <3> QED BY <1>0, <1>a, <3>1 DEF Numbered
    <2>2. cur'[w] <= nreq
      BY <1>0, <1>1, <2>1 DEF Numbered, NULL
    <2> QED BY <1>0, <1>1, <2>2 DEF Numbered, OthersStay
  <1>6. CASE row' = row \/ (SameLabels /\ row'.req = row.req)
    <2>1. row'.rev = row.rev /\ row'.prev = row.prev /\ row'.req = row.req
      BY <1>6 DEF SameLabels
    <2> QED BY <1>1, <1>2, <1>3, <1>4, <1>5, <2>1, TypeQuiet
  <1>7. CASE SwapRow(w)
    <2>1. /\ row'.rev = row.rev + 1 /\ row'.req = row.req /\ row.req = cur[w]
          /\ cur[w] \in Requests /\ row.rev = msg[cur[w]].target - 1
      BY <1>0, <1>7, <1>1 DEF SwapRow, MaySwap, Numbered, WorkerType
    <2>2. MayStillSwap /\ ~MayStillSwap'
      BY <1>2, <1>a, <2>1 DEF MayStillSwap, SameTargets, Requests, NULL
    <2>3. RevisionsLast'
      BY <1>0, <1>1, <1>a, <2>1, <2>2 DEF RevisionsLast, Outstanding
    <2>4. Numbered'
      <3>1. \A r \in Requests : msg'[r].target <= row'.rev + 1
        BY <1>0, <1>2, <1>a, <2>1 DEF Numbered, SameTargets
      <3>2. row'.req <= nreq'
        BY <1>0, <1>1, <2>1 DEF Numbered
      <3> QED BY <1>1, <1>4, <1>5, <3>1, <3>2 DEF Numbered
    <2> QED BY <1>1, <1>2, <1>3, <2>3, <2>4, TypeParts DEF TypeInv
  <1> QED BY <1>6, <1>7, WorkerRow

LEMMA NextSplit ==
    ASSUME Next
    PROVE  \/ Claim \/ Undo \/ GoesStale \/ Reap
           \/ \E n \in Revisions : UndoDelete(n)
           \/ \E r \in Requests : RequestStep(r)
           \/ \E w \in Workers : WorkerStep(w)
  BY DEF Next, RequestStep, WorkerStep

LEMMA TypeStep == TypeInv /\ [Next]_vars => TypeInv'
  <1> SUFFICES ASSUME TypeInv, [Next]_vars PROVE TypeInv'
    OBVIOUS
  <1>0. /\ TypeOK /\ row \in Row /\ msg \in [Requests -> Msg] /\ WorkerType /\ RestType
        /\ Numbered
    BY TypeParts DEF TypeInv
  <1>a. SameTargets <=> \A r \in Requests : msg'[r].target = msg[r].target
    BY DEF SameTargets
  <1>1. CASE UNCHANGED vars
    BY <1>1 DEF vars, TypeInv, TypeOK, Numbered, RevisionsLast, Outstanding, MayStillSwap
  <1>2. CASE GoesStale \/ Reap
    <2>1. /\ row' \in Row /\ SameLabels /\ row'.req = row.req
          /\ UNCHANGED <<store, msg, pc, cur, from, old, nreq, undone, faults, overran>>
      BY <1>0, <1>2, ReaperEffect DEF workerVars
    <2>2. WorkerType' /\ RestType' /\ msg' \in [Requests -> Msg]
      BY <1>0, <2>1 DEF WorkerType, RestType
    <2> QED BY <1>0, <1>a, <2>1, <2>2, TypeQuiet DEF Numbered, SameLabels
  <1>3. ASSUME NEW n \in Revisions, UndoDelete(n)
        PROVE  TypeInv'
    <2>1. /\ undone' = undone \ {n}
          /\ store' \in [Revisions -> Labelling \cup {NoObject}]
          /\ UNCHANGED <<row, msg, pc, cur, from, old, nreq, faults, overran>>
      BY <1>0, <1>3, UndoDeleteEffect DEF workerVars
    <2>2. WorkerType' /\ RestType' /\ msg' \in [Requests -> Msg]
      BY <1>0, <2>1 DEF WorkerType, RestType
    <2> QED BY <1>0, <1>a, <2>1, <2>2, TypeQuiet DEF Numbered
  <1>4. ASSUME NEW r \in Requests, RequestStep(r)
        PROVE  TypeInv'
    <2>1. /\ msg' \in [Requests -> Msg] /\ SameTargets
          /\ \A k \in Requests \ {r} : msg'[k] = msg[k]
          /\ msg[r].handler \in {"claimed", "unsent"}
          /\ UNCHANGED <<store, pc, cur, from, old, nreq, undone, overran>>
          /\ faults' \in 0 .. MaxFaults
          /\ row' = row \/ Release(r)
      BY <1>0, <1>4, RequestMsg DEF workerVars
    <2>2. WorkerType' /\ RestType'
      BY <1>0, <2>1 DEF WorkerType, RestType
    <2>3. /\ row' \in Row /\ row'.rev = row.rev /\ row'.prev = row.prev
          /\ row'.req = row.req \/ row'.req = NULL
      BY <1>0, <2>1, ReleaseRow DEF SameLabels
    <2>4. ~(r > nreq)
      BY <1>0, <2>1 DEF Numbered
    <2>5. \A k \in Requests : k > nreq => msg'[k].handler = "none" /\ msg'[k].state = "none"
      BY <1>0, <2>1, <2>4 DEF Numbered
    <2> QED BY <1>0, <2>1, <2>2, <2>3, <2>5, TypeQuiet DEF Numbered
  <1> QED BY <1>1, <1>2, <1>3, <1>4, NextSplit, TypeClaim, TypeUndo, TypeWorker

-----------------------------------------------------------------------------
(* The labellings: who may delete what.                                    *)

\* Everything that is stored or named by the row has a revision up to the row's;
\* what an undo or a worker is about to delete is named by it no more.
LabelInv ==
    /\ row.uri <= row.rev
    /\ row.prev # NULL => row.prev < row.uri
    /\ \A n \in undone : n <= row.rev /\ n # row.uri /\ n # row.prev
    /\ \A w \in Workers : pc[w] = "delete" /\ old[w] # NULL =>
          old[w] <= row.rev /\ old[w] # row.uri /\ old[w] # row.prev

\* The object that a worker is about to swap in is there, as long as its
\* revision has not been reached.
PutInv ==
    \A w \in Workers :
        pc[w] = "swap" /\ row.rev < msg[cur[w]].target => store[msg[cur[w]].target] # NoObject

Inv == TypeInv /\ LabelInv /\ PutInv /\ LabellingsExist

LEMMA InvInit == Init => Inv
  <1> SUFFICES ASSUME Init PROVE Inv
    OBVIOUS
  <1>1. LabelInv /\ PutInv
    BY DEF Init, LabelInv, PutInv, NULL
  <1>2. 1 \in Revisions /\ 0 # NoObject
    BY RediarizeAssumption DEF Revisions, NoObject
  <1>3. LabellingsExist
    BY <1>2 DEF Init, LabellingsExist
  <1> QED BY <1>1, <1>3, TypeInit DEF Inv

\* The numbers that are compared.
LEMMA RevisionNumbers ==
    ASSUME TypeInv
    PROVE  /\ row.rev \in Nat \ {0} /\ row.uri \in Nat \ {0} /\ row.prev \in Nat
           /\ row.uri \in Revisions /\ (row.prev # NULL => row.prev \in Revisions)
           /\ \A n \in undone : n \in Nat \ {0}
           /\ \A r \in Requests : msg[r].target \in Nat \ {0} /\ msg[r].target \in Revisions
           /\ \A w \in Workers : old[w] \in Nat
           /\ \A w \in Workers : pc[w] # "idle" => cur[w] \in Requests
           /\ NULL = 0 /\ \A r \in Requests : r # NoObject
  <1>1. /\ row.rev \in Nat \ {0} /\ row.uri \in Nat \ {0} /\ row.prev \in Nat
        /\ row.uri \in Revisions /\ (row.prev # NULL => row.prev \in Revisions)
    BY RowTypes DEF TypeInv, TypeOK
  <1>2. \A r \in Requests : msg[r].target \in Nat \ {0} /\ msg[r].target \in Revisions
    BY MsgTypes DEF TypeInv, TypeOK
  <1>3. /\ \A n \in undone : n \in Nat \ {0}
        /\ \A w \in Workers : old[w] \in Nat
    BY DEF TypeInv, TypeOK, Revisions, NULL
  <1>4. \A w \in Workers : pc[w] # "idle" => cur[w] \in Requests
    BY DEF TypeInv, TypeOK, Numbered
  <1>5. NULL = 0 /\ \A r \in Requests : r # NoObject
    BY RediarizeAssumption DEF NULL, Requests, NoObject
  <1> QED BY <1>1, <1>2, <1>3, <1>4, <1>5

\* A step of the service that touches neither store nor labels.
LEMMA InvQuiet ==
    ASSUME Inv, SameLabels, UNCHANGED <<store, pc, cur, old, undone>>,
           \A w \in Workers : pc[w] # "idle" => msg'[cur[w]].target = msg[cur[w]].target
    PROVE  LabelInv' /\ PutInv' /\ LabellingsExist'
  BY DEF Inv, SameLabels, LabelInv, PutInv, LabellingsExist

LEMMA InvUndo ==
    ASSUME Inv, Undo
    PROVE  LabelInv' /\ PutInv' /\ LabellingsExist'
  <1>0. TypeInv /\ TypeOK /\ LabelInv /\ PutInv /\ LabellingsExist
    BY DEF Inv, TypeInv
  <1>1. /\ row.prev # NULL /\ row'.rev = row.rev + 1 /\ row'.uri = row.prev
        /\ row'.prev = NULL /\ undone' = undone \cup {row.uri}
        /\ UNCHANGED <<store, msg, pc, cur, old>>
    BY <1>0, UndoEffect DEF workerVars
  <1>2. LabelInv'
    <2>1. /\ row'.uri <= row'.rev /\ (row'.prev # NULL => row'.prev < row'.uri)
      BY <1>0, <1>1, RevisionNumbers DEF LabelInv
    <2>2. \A n \in undone' : n <= row'.rev /\ n # row'.uri /\ n # row'.prev
      BY <1>0, <1>1, RevisionNumbers DEF LabelInv
    <2>3. \A w \in Workers : pc'[w] = "delete" /\ old'[w] # NULL =>
              old'[w] <= row'.rev /\ old'[w] # row'.uri /\ old'[w] # row'.prev
      BY <1>0, <1>1, RevisionNumbers DEF LabelInv
    <2> QED BY <2>1, <2>2, <2>3 DEF LabelInv
  <1>3. PutInv'
    BY <1>0, <1>1, RevisionNumbers DEF PutInv
  <1>4. LabellingsExist'
    BY <1>0, <1>1 DEF LabellingsExist
  <1> QED BY <1>2, <1>3, <1>4

LEMMA InvUndoDelete ==
    ASSUME Inv, NEW n \in Revisions, UndoDelete(n)
    PROVE  LabelInv' /\ PutInv' /\ LabellingsExist'
  <1>0. TypeInv /\ TypeOK /\ LabelInv /\ PutInv /\ LabellingsExist
    BY DEF Inv, TypeInv
  <1>1. /\ n \in undone /\ undone' = undone \ {n}
        /\ \A m \in Revisions \ {n} : store'[m] = store[m]
        /\ UNCHANGED <<row, msg, pc, cur, old>>
    BY <1>0, UndoDeleteEffect DEF workerVars
  <1>2. n <= row.rev /\ n # row.uri /\ n # row.prev /\ n \in Nat
    BY <1>0, <1>1, RevisionNumbers DEF LabelInv
  <1>3. LabelInv'
    BY <1>0, <1>1 DEF LabelInv
  <1>4. PutInv'
    BY <1>0, <1>1, <1>2, RevisionNumbers DEF PutInv
  <1>5. LabellingsExist'
    BY <1>0, <1>1, <1>2, RevisionNumbers DEF LabellingsExist
  <1> QED BY <1>3, <1>4, <1>5

LEMMA InvWorker ==
    ASSUME Inv, NEW w \in Workers, WorkerStep(w)
    PROVE  LabelInv' /\ PutInv' /\ LabellingsExist'
  <1>0. TypeInv /\ TypeOK /\ LabelInv /\ PutInv /\ LabellingsExist
    BY DEF Inv, TypeInv
  <1>1. OthersStay(w) /\ undone' = undone /\ SameTargets
    BY <1>0, WorkerMoves, WorkerMsg
  <1>2. /\ pc'[w] = "swap" => PutStore(w)
        /\ pc'[w] = "delete" => SwapRow(w)
    BY <1>0, WorkerPath
  <1>3. CASE SwapRow(w)
    <2>1. /\ pc[w] = "swap" /\ pc'[w] = "delete" /\ old'[w] = row.prev
          /\ cur[w] \in Requests /\ row.rev = msg[cur[w]].target - 1
          /\ row'.rev = row.rev + 1 /\ row'.uri = msg[cur[w]].target /\ row'.prev = row.uri
          /\ store' = store
      BY <1>0, <1>3, RevisionNumbers DEF SwapRow, MaySwap
    <2>2. LabelInv'
      <3>1. /\ row'.uri <= row'.rev /\ (row'.prev # NULL => row'.prev < row'.uri)
        BY <1>0, <2>1, RevisionNumbers DEF LabelInv
      <3>2. \A n \in undone' : n <= row'.rev /\ n # row'.uri /\ n # row'.prev
        BY <1>0, <1>1, <2>1, RevisionNumbers DEF LabelInv
      <3>3. ASSUME NEW v \in Workers, pc'[v] = "delete" /\ old'[v] # NULL
            PROVE  old'[v] <= row'.rev /\ old'[v] # row'.uri /\ old'[v] # row'.prev
        <4>1. CASE v = w
          BY <1>0, <2>1, <3>3, <4>1, RevisionNumbers DEF LabelInv
        <4>2. CASE v # w
          <5>1. pc[v] = "delete" /\ old'[v] = old[v]
            BY <1>1, <3>3, <4>2 DEF OthersStay
          <5> QED BY <1>0, <2>1, <3>3, <5>1, RevisionNumbers DEF LabelInv
        <4> QED BY <4>1, <4>2
      <3> QED BY <3>1, <3>2, <3>3 DEF LabelInv
    <2>3. PutInv'
      <3> SUFFICES ASSUME NEW v \in Workers, pc'[v] = "swap", row'.rev < msg'[cur'[v]].target
                   PROVE  store'[msg'[cur'[v]].target] # NoObject
        BY DEF PutInv
      <3>1. v # w /\ pc[v] = "swap" /\ cur'[v] = cur[v]
        BY <1>1, <2>1 DEF OthersStay
      <3>2. cur[v] \in Requests /\ msg'[cur[v]].target = msg[cur[v]].target
        BY <1>0, <1>1, <3>1, RevisionNumbers DEF SameTargets
      <3> QED BY <1>0, <2>1, <3>1, <3>2, RevisionNumbers DEF PutInv
    <2>4. LabellingsExist'
      BY <1>0, <2>1, RevisionNumbers DEF PutInv, LabellingsExist
    <2> QED BY <2>2, <2>3, <2>4
  <1>4. CASE ~SwapRow(w)
    <2>1. SameLabels
      BY <1>0, <1>4, WorkerRow DEF SameLabels
    <2>2. pc'[w] # "delete"
      BY <1>2, <1>4
    <2>3. LabelInv'
      BY <1>0, <1>1, <2>1, <2>2 DEF LabelInv, SameLabels, OthersStay
    <2>4. ASSUME NEW n \in Revisions, store'[n] = NoObject, store[n] # NoObject
          PROVE  n <= row.rev /\ n # row.uri /\ n # row.prev
      <3>1. ~PutStore(w)
        BY <1>0, <2>4, RevisionNumbers DEF PutStore
      <3>2. pc[w] = "delete" /\ n = old[w] /\ n # NULL
        BY <1>0, <2>4, <3>1, WorkerStore DEF DeleteStore, Revisions, NULL
      <3> QED BY <1>0, <3>2 DEF LabelInv
    <2>5. LabellingsExist'
      BY <1>0, <2>1, <2>4, RevisionNumbers DEF LabellingsExist, SameLabels
    <2>6. PutInv'
      <3> SUFFICES ASSUME NEW v \in Workers, pc'[v] = "swap", row'.rev < msg'[cur'[v]].target
                   PROVE  store'[msg'[cur'[v]].target] # NoObject
        BY DEF PutInv
      <3>1. CASE v = w
        <4>1. PutStore(w)
          BY <1>2, <3>1
        <4>2. cur'[w] = cur[w] /\ cur[w] \in Requests
          BY <1>0, <3>1, <4>1, WorkerMoves, RevisionNumbers DEF PutStore
        <4> QED BY <1>0, <1>1, <3>1, <4>1, <4>2, RevisionNumbers DEF PutStore, SameTargets
      <3>2. CASE v # w
        <4>1. pc[v] = "swap" /\ cur'[v] = cur[v] /\ cur[v] \in Requests
          BY <1>0, <1>1, <3>2, RevisionNumbers DEF OthersStay
        <4>2. row.rev < msg[cur[v]].target /\ msg'[cur[v]].target = msg[cur[v]].target
          BY <1>1, <2>1, <4>1 DEF SameTargets, SameLabels
        <4> QED BY <1>0, <2>4, <4>1, <4>2, RevisionNumbers DEF PutInv
      <3> QED BY <3>1, <3>2
    <2> QED BY <2>3, <2>5, <2>6
  <1> QED BY <1>3, <1>4

LEMMA InvStep == Inv /\ [Next]_vars => Inv'
  <1> SUFFICES ASSUME Inv, [Next]_vars PROVE LabelInv' /\ PutInv' /\ LabellingsExist'
    BY TypeStep DEF Inv
  <1>0. TypeInv /\ TypeOK
    BY DEF Inv, TypeInv
  <1>1. CASE UNCHANGED vars
    BY <1>1 DEF vars, Inv, LabelInv, PutInv, LabellingsExist
  <1>2. CASE Claim
    <2>1. /\ SameLabels /\ nreq + 1 \in Requests
          /\ UNCHANGED <<store, pc, cur, old, undone>>
          /\ \A r \in Requests \ {nreq + 1} : msg'[r] = msg[r]
      BY <1>0, <1>2, ClaimEffect DEF workerVars
    <2>2. \A w \in Workers : pc[w] # "idle" => cur[w] \in Requests \ {nreq + 1}
      <3>1. \A w \in Workers : cur[w] <= nreq
        BY <1>0 DEF TypeInv, Numbered
      <3>2. nreq \in Nat
        BY <1>0 DEF TypeOK
      <3> QED BY <1>0, <3>1, <3>2, RevisionNumbers
    <2> QED BY <2>1, <2>2, InvQuiet
  <1>3. CASE GoesStale \/ Reap
    <2>1. SameLabels /\ UNCHANGED <<store, msg, pc, cur, old, undone>>
      BY <1>0, <1>3, ReaperEffect DEF workerVars
    <2> QED BY <2>1, InvQuiet
  <1>4. ASSUME NEW r \in Requests, RequestStep(r)
        PROVE  LabelInv' /\ PutInv' /\ LabellingsExist'
    <2>1. SameTargets /\ UNCHANGED <<store, pc, cur, old, undone>> /\ (row' = row \/ Release(r))
      BY <1>0, <1>4, RequestMsg DEF workerVars
    <2>2. SameLabels
      BY <1>0, <2>1, ReleaseRow DEF SameLabels
    <2>3. \A w \in Workers : pc[w] # "idle" => msg'[cur[w]].target = msg[cur[w]].target
      BY <1>0, <2>1, RevisionNumbers DEF SameTargets
    <2> QED BY <2>1, <2>2, <2>3, InvQuiet
  <1> QED BY <1>1, <1>2, <1>3, <1>4, NextSplit, InvUndo, InvUndoDelete, InvWorker

\* The labelling the row points at and the one an undo goes back to are stored,
\* whatever worker outlasts its reclaim window and whoever crashes.
THEOREM LabellingsAreStored == Spec => [](TypeOK /\ LabellingsExist)
  <1>1. Inv => TypeOK /\ LabellingsExist
    BY DEF Inv, TypeInv
  <1> QED BY <1>1, InvInit, InvStep, PTL DEF Spec

-----------------------------------------------------------------------------
(* The names, as long as no re-run outlasts the reclaim window.            *)

InHand(w) == pc[w] \in {"read", "put", "swap"}

\* One worker at a request; the one that has claimed the re-run has the row for
\* itself until it swaps: nobody undoes, reaps, releases or claims it.
HandsInv ==
    ~overran =>
        /\ \A v, w \in Workers : cur[v] = cur[w] /\ cur[w] # NULL => v = w
        /\ \A w \in Workers : InHand(w) =>
              row.diar = "running" /\ ~row.stale /\ MaySwap(cur[w])
        /\ \A w \in Workers : pc[w] = "swap" => store[msg[cur[w]].target] = cur[w]

NamesInv == HandsInv /\ NamesFit

LEMMA NamesInit == Init => NamesInv
  <1> SUFFICES ASSUME Init PROVE NamesInv
    OBVIOUS
  <1>1. HandsInv
    BY DEF Init, HandsInv, InHand
  <1>2. 1 \in Revisions
    BY RediarizeAssumption DEF Revisions
  <1>3. NamesFit
    BY <1>2 DEF Init, NamesFit
  <1> QED BY <1>1, <1>3 DEF NamesInv

\* Nobody has a re-run in hand: only the names matter.
LEMMA NamesFree ==
    ASSUME NamesInv, overran' = overran, UNCHANGED <<pc, cur>>,
           ~overran => \A w \in Workers : ~InHand(w), NamesFit'
    PROVE  NamesInv'
  BY DEF NamesInv, HandsInv, InHand

LEMMA NamesSame ==
    ASSUME NamesFit, overran' = overran, SameLabels, store' = store
    PROVE  NamesFit'
  BY DEF NamesFit, SameLabels

LEMMA NamesService ==
    ASSUME Inv, NamesInv, Claim \/ Undo \/ GoesStale \/ Reap
    PROVE  NamesInv'
  <1>0. TypeInv /\ TypeOK /\ LabelInv /\ HandsInv /\ NamesFit
    BY DEF Inv, TypeInv, NamesInv
  <1>1. UNCHANGED <<pc, cur, overran, store>>
    BY DEF Claim, Undo, GoesStale, Reap, workerVars
  <1>2. ~overran => \A w \in Workers : ~InHand(w)
    <2> SUFFICES ASSUME ~overran, NEW w \in Workers, InHand(w) PROVE FALSE
      OBVIOUS
    <2>1. row.diar = "running" /\ ~row.stale /\ row.req = cur[w]
      BY <1>0 DEF HandsInv, MaySwap
    <2> QED BY <2>1 DEF Claim, MayClaim, Undo, GoesStale, Processed, Reap, Reapable, LIVE
  <1>3. NamesFit'
    <2>1. CASE Undo
      <3>1. row.prev # NULL /\ row'.uri = row.prev /\ row'.prev = NULL /\ row'.names = row.prevNames
        BY <1>0, <2>1, UndoEffect
      <3> QED BY <1>0, <1>1, <3>1 DEF NamesFit
    <2>2. CASE Claim \/ GoesStale \/ Reap
      BY <1>0, <1>1, <2>2, ClaimEffect, ReaperEffect, NamesSame
    <2> QED BY <2>1, <2>2
  <1> QED BY <1>1, <1>2, <1>3, NamesFree

LEMMA NamesRequest ==
    ASSUME Inv, NamesInv, NEW r \in Requests, RequestStep(r)
    PROVE  NamesInv'
  <1>0. TypeInv /\ TypeOK /\ LabelInv /\ HandsInv /\ NamesFit
    BY DEF Inv, TypeInv, NamesInv
  <1>1. SameTargets /\ UNCHANGED <<store, pc, cur, overran>> /\ (row' = row \/ Release(r))
    BY <1>0, RequestMsg DEF workerVars
  <1>2. CASE row' = row
    <2>1. NamesFit'
      BY <1>0, <1>1, <1>2 DEF NamesFit
    <2>2. \A w \in Workers : InHand(w) \/ pc[w] = "swap" =>
              msg'[cur[w]].target = msg[cur[w]].target
      BY <1>0, <1>1, RevisionNumbers DEF SameTargets, InHand
    <2>3. HandsInv'
      BY <1>0, <1>1, <1>2, <2>2 DEF HandsInv, InHand, MaySwap
    <2> QED BY <2>1, <2>3 DEF NamesInv
  <1>3. CASE row' # row
    <2>1. SameLabels /\ row.diar = "queued"
      BY <1>0, <1>1, <1>3, ReleaseRow
    <2>2. ~overran => \A w \in Workers : ~InHand(w)
      BY <1>0, <2>1 DEF HandsInv
    <2>3. NamesFit'
      BY <1>0, <1>1, <2>1, NamesSame
    <2> QED BY <1>1, <2>2, <2>3, NamesFree
  <1> QED BY <1>2, <1>3

LEMMA NamesUndoDelete ==
    ASSUME Inv, NamesInv, NEW n \in Revisions, UndoDelete(n)
    PROVE  NamesInv'
  <1>0. TypeInv /\ TypeOK /\ LabelInv /\ HandsInv /\ NamesFit
    BY DEF Inv, TypeInv, NamesInv
  <1>1. /\ n \in undone /\ UNCHANGED <<row, msg, pc, cur, overran>>
        /\ \A m \in Revisions \ {n} : store'[m] = store[m]
    BY <1>0, UndoDeleteEffect DEF workerVars
  <1>2. n <= row.rev /\ n # row.uri /\ n # row.prev /\ n \in Nat
    BY <1>0, <1>1, RevisionNumbers DEF LabelInv
  <1>3. NamesFit'
    BY <1>0, <1>1, <1>2, RevisionNumbers DEF NamesFit
  <1>4. ASSUME ~overran, NEW w \in Workers, pc[w] = "swap"
        PROVE  store'[msg[cur[w]].target] = store[msg[cur[w]].target]
    <2>1. row.rev = msg[cur[w]].target - 1 /\ cur[w] \in Requests
      BY <1>0, <1>4, RevisionNumbers DEF HandsInv, InHand, MaySwap
    <2> QED BY <1>0, <1>1, <1>2, <2>1, RevisionNumbers
  <1>5. HandsInv'
    BY <1>0, <1>1, <1>4 DEF HandsInv, InHand, MaySwap
  <1> QED BY <1>3, <1>5 DEF NamesInv

LEMMA ClaimRunRow ==
    ASSUME TypeInv, NEW w \in Workers, ClaimRun(w), MayRun(cur[w])
    PROVE  /\ row'.diar = "running" /\ row'.stale = FALSE /\ row'.req = row.req
           /\ row'.rev = row.rev
  BY DEF TypeInv, TypeOK, Row, ClaimRun

LEMMA NamesWorker ==
    ASSUME Inv, NamesInv, NEW w \in Workers, WorkerStep(w)
    PROVE  NamesInv'
  <1>0. TypeInv /\ TypeOK /\ LabelInv /\ HandsInv /\ NamesFit
    BY DEF Inv, TypeInv, NamesInv
  <1>1. /\ OthersStay(w) /\ SameTargets
        /\ \/ cur'[w] = NULL /\ pc'[w] = "idle"
           \/ cur'[w] = cur[w] /\ pc[w] # "idle" /\ cur[w] \in Requests
           \/ \E r \in Requests : Deliver(w, r) /\ cur'[w] = r /\ pc'[w] = "claim"
    BY <1>0, WorkerMoves, WorkerMsg
  <1> SUFFICES ASSUME ~overran' PROVE NamesInv'
    BY DEF NamesInv, HandsInv, NamesFit
  <1>2. ~overran /\ \A r \in Requests : Deliver(w, r) => ~Processed(r)
    BY <1>0, WorkerStore, Zenon DEF Deliver
  <1>3. \A u, v \in Workers : cur'[u] = cur'[v] /\ cur'[v] # NULL => u = v
    <2>1. \A u, v \in Workers : cur[u] = cur[v] /\ cur[v] # NULL => u = v
      BY <1>0, <1>2 DEF HandsInv
    <2>2. CASE cur'[w] \in {cur[w], NULL}
      BY <1>1, <2>1, <2>2 DEF OthersStay
    <2>3. CASE \E r \in Requests : Deliver(w, r) /\ cur'[w] = r
      <3>1. PICK r \in Requests : cur'[w] = r /\ \A v \in Workers : cur[v] # r
        BY <1>2, <2>3 DEF Processed
      <3> QED BY <1>1, <2>1, <3>1 DEF OthersStay
    <2> QED BY <1>1, <2>2, <2>3
  \* Another worker that has a re-run in hand keeps the row for itself.
  <1>4. ASSUME NEW v \in Workers \ {w}, InHand(v)
        PROVE  /\ row' = row /\ ~InHand(w) /\ cur[v] \in Requests
               /\ msg[cur[v]].target = row.rev + 1
    <2>1. row.req = cur[v] /\ row.rev = msg[cur[v]].target - 1 /\ cur[v] \in Requests
      BY <1>0, <1>2, <1>4, RevisionNumbers DEF HandsInv, MaySwap, InHand
    <2>2. cur[v] # NULL /\ cur[w] # cur[v]
      BY <1>0, <1>2, <2>1 DEF HandsInv, Requests, NULL
    <2>3. ~SwapRow(w) /\ ~InHand(w)
      BY <1>0, <1>2, <2>1, <2>2 DEF SwapRow, MaySwap, HandsInv
    <2>4. row' = row
      BY <1>0, <2>1, <2>2, <2>3, WorkerRow
    <2> QED BY <1>0, <2>1, <2>3, <2>4, RevisionNumbers
  <1>5. ASSUME NEW v \in Workers, pc'[v] \in {"read", "put", "swap"}
        PROVE  /\ row'.diar = "running" /\ ~row'.stale
               /\ row'.rev = msg'[cur'[v]].target - 1 /\ row'.req = cur'[v]
    <2>1. CASE v # w
      <3>1. InHand(v) /\ cur'[v] = cur[v]
        BY <1>1, <1>5, <2>1 DEF OthersStay, InHand
      <3>2. row' = row /\ msg'[cur[v]].target = msg[cur[v]].target
        BY <1>1, <1>4, <2>1, <3>1 DEF SameTargets
      <3> QED BY <1>0, <1>2, <3>1, <3>2 DEF HandsInv, MaySwap
    <2>2. CASE v = w
      <3>1. cur'[w] = cur[w] /\ cur[w] \in Requests /\ msg'[cur[w]].target = msg[cur[w]].target
        BY <1>1, <1>5, <2>2 DEF SameTargets
      <3>2. CASE pc'[w] = "read"
        <4>1. ClaimRun(w) /\ MayRun(cur[w])
          BY <1>0, <3>2, WorkerPath
        <4> QED BY <1>0, <2>2, <3>1, <4>1, ClaimRunRow DEF MayRun
      <3>3. CASE pc'[w] \in {"put", "swap"}
        <4>1. row' = row /\ InHand(w)
          BY <1>0, <3>3, WorkerPath DEF PutStore, InHand
        <4> QED BY <1>0, <1>2, <2>2, <3>1, <4>1 DEF HandsInv, MaySwap
      <3> QED BY <1>5, <2>2, <3>2, <3>3
    <2> QED BY <2>1, <2>2
  <1>6. ASSUME NEW v \in Workers, pc'[v] = "swap"
        PROVE  store'[msg'[cur'[v]].target] = cur'[v]
    <2>1. CASE v # w
      <3>1. InHand(v) /\ pc[v] = "swap" /\ cur'[v] = cur[v]
        BY <1>1, <1>6, <2>1 DEF OthersStay, InHand
      <3>2. /\ ~InHand(w) /\ cur[v] \in Requests /\ msg[cur[v]].target = row.rev + 1
            /\ msg'[cur[v]].target = msg[cur[v]].target
        BY <1>1, <1>4, <2>1, <3>1 DEF SameTargets
      <3>3. store'[msg[cur[v]].target] = store[msg[cur[v]].target]
        <4>1. CASE store' = store
          BY <4>1
        <4>2. CASE DeleteStore(w)
          <5>1. old[w] = NULL \/ old[w] <= row.rev
            BY <1>0, <4>2 DEF LabelInv, DeleteStore
          <5> QED BY <1>0, <3>2, <4>2, <5>1, RevisionNumbers DEF DeleteStore
        <4> QED BY <1>0, <3>2, <4>1, <4>2, WorkerStore DEF PutStore, InHand
      <3> QED BY <1>0, <1>2, <3>1, <3>2, <3>3 DEF HandsInv
    <2>2. CASE v = w
      <3>1. cur'[w] = cur[w] /\ msg'[cur[w]].target = msg[cur[w]].target /\ PutStore(w)
        BY <1>0, <1>1, <1>6, <2>2, WorkerPath DEF SameTargets
      <3> QED BY <2>2, <3>1 DEF PutStore
    <2> QED BY <2>1, <2>2
  <1>7. HandsInv'
    BY <1>3, <1>5, <1>6 DEF HandsInv, InHand, MaySwap
  <1>8. NamesFit'
    <2>1. CASE SwapRow(w)
      <3>1. /\ row'.uri = msg[cur[w]].target /\ row'.prev = row.uri /\ row'.names = cur[w]
            /\ row'.prevNames = row.names /\ store' = store /\ pc[w] = "swap"
        BY <2>1 DEF SwapRow
      <3>2. store[msg[cur[w]].target] = cur[w] /\ row.names = store[row.uri]
        BY <1>0, <1>2, <3>1 DEF HandsInv, NamesFit
      <3> QED BY <3>1, <3>2 DEF NamesFit
    <2>2. CASE ~SwapRow(w)
      <3>1. SameLabels
        BY <1>0, <2>2, WorkerRow DEF SameLabels
      <3>2. ASSUME NEW n \in Revisions, n = row.uri \/ n = row.prev
            PROVE  store'[n] = store[n]
        <4>1. CASE PutStore(w)
          <5>1. msg[cur[w]].target = row.rev + 1
            <6>1. row.rev = msg[cur[w]].target - 1 /\ cur[w] \in Requests
              BY <1>0, <1>2, <4>1, RevisionNumbers DEF PutStore, HandsInv, InHand, MaySwap
            <6> QED BY <1>0, <6>1, RevisionNumbers
          <5>2. n <= row.rev
            BY <1>0, <3>2, RevisionNumbers DEF LabelInv, Revisions
          <5> QED BY <1>0, <4>1, <5>1, <5>2, RevisionNumbers DEF PutStore
        <4>2. CASE DeleteStore(w)
          BY <1>0, <3>2, <4>2, RevisionNumbers DEF DeleteStore, LabelInv, Revisions
        <4> QED BY <1>0, <4>1, <4>2, WorkerStore
      <3>3. store'[row.uri] = store[row.uri] /\ (row.prev # NULL => store'[row.prev] = store[row.prev])
        BY <1>0, <3>2, RevisionNumbers
      <3> QED BY <1>0, <1>2, <3>1, <3>3 DEF NamesFit, SameLabels
    <2> QED BY <2>1, <2>2
  <1> QED BY <1>7, <1>8 DEF NamesInv

LEMMA NamesStep == Inv /\ NamesInv /\ [Next]_vars => NamesInv'
  <1> SUFFICES ASSUME Inv, NamesInv, [Next]_vars PROVE NamesInv'
    OBVIOUS
  <1>1. CASE UNCHANGED vars
    BY <1>1 DEF vars, NamesInv, HandsInv, InHand, MaySwap, NamesFit
  <1> QED BY <1>1, NextSplit, NamesService, NamesRequest, NamesUndoDelete, NamesWorker

\* Names, revision and artifact come from the same moment, until a re-run
\* outlasts the reclaim window.
THEOREM NamesAlwaysFit == Spec => []NamesFit
  <1>1. NamesInv => NamesFit
    BY DEF NamesInv
  <1> QED BY <1>1, InvInit, InvStep, NamesInit, NamesStep, PTL DEF Spec

-----------------------------------------------------------------------------
(* What a step may never do to the row.                                    *)

LEMMA RevisionStep ==
    ASSUME TypeInv, [Next]_vars
    PROVE  /\ row'.rev >= row.rev
           /\ row'.uri # row.uri => row'.rev > row.rev
           /\ row'.rev = row.rev => row'.names = row.names
  <1>0. TypeOK /\ row.rev \in Nat
    BY RevisionNumbers DEF TypeInv
  <1>1. CASE SameLabels
    BY <1>0, <1>1 DEF SameLabels
  <1>2. CASE row'.rev = row.rev + 1
    BY <1>0, <1>2
  <1>3. CASE UNCHANGED vars
    BY <1>1, <1>3 DEF vars, SameLabels
  <1>4. CASE Claim \/ GoesStale \/ Reap
    BY <1>0, <1>1, <1>4, ClaimEffect, ReaperEffect
  <1>5. CASE Undo
    BY <1>0, <1>2, <1>5, UndoEffect
  <1>6. CASE \E n \in Revisions : UndoDelete(n)
    BY <1>0, <1>1, <1>6, UndoDeleteEffect DEF SameLabels
  <1>7. ASSUME NEW r \in Requests, RequestStep(r) PROVE SameLabels
    BY <1>0, <1>7, RequestMsg, ReleaseRow DEF SameLabels
  <1>8. ASSUME NEW w \in Workers, WorkerStep(w)
        PROVE  SameLabels \/ row'.rev = row.rev + 1
    BY <1>8, WorkerRow DEF SameLabels, SwapRow
  <1> QED BY <1>1, <1>2, <1>3, <1>4, <1>5, <1>6, <1>7, <1>8, NextSplit

LEMMA OverranStays == ASSUME TypeInv, [Next]_vars, overran PROVE overran'
  <1>0. TypeOK
    BY DEF TypeInv
  <1>1. CASE UNCHANGED vars
    BY <1>1 DEF vars
  <1>2. CASE Claim \/ Undo \/ GoesStale \/ Reap
    BY <1>0, <1>2, ClaimEffect, UndoEffect DEF GoesStale, Reap
  <1>3. CASE \E n \in Revisions : UndoDelete(n)
    BY <1>3 DEF UndoDelete
  <1>4. ASSUME NEW r \in Requests, RequestStep(r) PROVE overran'
    BY <1>0, <1>4, RequestMsg
  <1>5. ASSUME NEW w \in Workers, WorkerStep(w) PROVE overran'
    <2>1. overran' = overran \/ \E r \in Requests : Deliver(w, r)
      BY <1>5, WorkerStore
    <2> QED BY <2>1 DEF Deliver
  <1> QED BY <1>1, <1>2, <1>3, <1>4, <1>5, NextSplit

\* While names and contents fit and a revision stays, so do the contents.
LEMMA ContentsStep ==
    ASSUME TypeInv, NamesFit, NamesFit', [Next]_vars, row'.rev = row.rev, ~overran'
    PROVE  store'[row'.uri] = store[row.uri]
  <1>1. ~overran
    BY OverranStays
  <1>2. row'.names = row.names
    BY RevisionStep
  <1>3. row.names = store[row.uri] /\ row'.names = store'[row'.uri]
    BY <1>1 DEF NamesFit
  <1> QED BY <1>2, <1>3

\* The labelling behind a revision never changes: the row points elsewhere only
\* with a higher one, and the object under it is written again only by a re-run
\* that outlasted the reclaim window.
THEOREM RevisionsNameLabels == Spec => RevisionNamesLabels
  <1>1. Inv /\ NamesInv => TypeInv /\ NamesFit
    BY DEF Inv, NamesInv
  <1>2. TypeInv /\ NamesFit /\ NamesFit' /\ [Next]_vars =>
            [/\ row'.rev >= row.rev
             /\ row'.uri # row.uri => row'.rev > row.rev
             /\ row'.rev = row.rev /\ ~overran' => store'[row'.uri] = store[row.uri]]_vars
    BY RevisionStep, ContentsStep
  <1> QED BY <1>1, <1>2, InvInit, InvStep, NamesInit, NamesStep, PTL
          DEF Spec, RevisionNamesLabels

LEMMA FailureStep ==
    ASSUME TypeInv, [Next]_vars,
           row.diar \in LIVE, row'.diar = "failed", row'.req = row.req
    PROVE  row.stale \/ \E w \in Workers : cur[w] = row.req /\ pc'[w] # pc[w]
  <1>0. TypeOK /\ row \in Row /\ WorkerType
    BY TypeParts DEF TypeInv
  <1>a. row' # row
    BY DEF LIVE
  <1>1. CASE UNCHANGED vars \/ \E n \in Revisions : UndoDelete(n)
    BY <1>a, <1>1 DEF vars, UndoDelete
  <1>2. CASE Claim \/ Undo
    BY <1>2 DEF Claim, MayClaim, Undo
  <1>3. CASE GoesStale
    <2>1. row'.diar = row.diar
      BY <1>0, <1>3 DEF GoesStale, Row
    <2> QED BY <2>1 DEF LIVE
  <1>4. CASE Reap
    BY <1>4 DEF Reap, Reapable
  <1>5. CASE \E r \in Requests : RequestStep(r)
    <2>1. PICK r \in Requests : RequestStep(r)
      BY <1>5
    <2>2. row.req = r /\ row'.req = NULL
      BY <1>0, <1>a, <2>1, RequestMsg, ReleaseRow
    <2> QED BY <2>2 DEF Requests, NULL
  <1>6. CASE \E w \in Workers : WorkerStep(w)
    <2>1. PICK w \in Workers : WorkerStep(w)
      BY <1>6
    <2>2. CASE SwapRow(w)
      <3>1. cur[w] = row.req /\ pc'[w] # pc[w]
        BY <2>2 DEF SwapRow, MaySwap
      <3> QED BY <3>1
    <2>3. CASE row.req = cur[w] /\ (ClaimRun(w) \/ ReadCurrent(w) \/ RunFails(w) \/ Exhausted(w))
      <3>1. pc'[w] # pc[w]
        BY <1>0, <2>3 DEF ClaimRun, ReadCurrent, RunFails, Exhausted, Step, Free, WorkerType
      <3> QED BY <2>3, <3>1
    <2> QED BY <1>a, <2>1, <2>2, <2>3, WorkerRow
  <1> QED BY <1>1, <1>2, <1>3, <1>4, <1>5, <1>6, NextSplit

\* A re-run fails because it is stale or by the worker that has it.
THEOREM FailsForCause == Spec => FailedForCause
  <1>1. TypeInv /\ [Next]_vars =>
            [row.diar \in LIVE /\ row'.diar = "failed" /\ row'.req = row.req
              => row.stale \/ \E w \in Workers : cur[w] = row.req /\ pc'[w] # pc[w]]_vars
    BY FailureStep
  <1> QED BY <1>1, TypeInit, TypeStep, PTL DEF Spec, FailedForCause

=============================================================================
