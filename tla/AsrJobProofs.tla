----------------------------- MODULE AsrJobProofs -----------------------------
(***************************************************************************)
(* Theorems about AsrJob, for every number of submissions and of workers   *)
(* and every choice of the limits.  Each theorem says which failures of    *)
(* the environment it allows.                                              *)
(***************************************************************************)
EXTENDS AsrJob, SequenceTheorems, TLAPS

USE DEF historyVars

-----------------------------------------------------------------------------
(* The steps, and the parts of the type.                                   *)

ServiceStep(j) ==
    \/ CheckCap(j) \/ InsertRow(j) \/ Send(j) \/ SendRaises(j)
    \/ SubmitFails(j) \/ SubmitRefused(j) \/ SubmitDies(j)
    \/ Cancel(j)
    \/ GoesStale(j) \/ ReapScan(j) \/ ReapFail(j)
    \/ ErasePlan(j) \/ EraseObjects(j) \/ EraseFails(j) \/ EraseRows(j)

ProcessStep(w) ==
    \/ WorkerStep(w) \/ Reclaim(w) \/ Restart(w)
    \/ BadPayload(w) \/ EdgeFails(w) \/ AuditFails(w) \/ ExhaustedLost(w)
    \/ Crash(w)

LEMMA NextSplit ==
    ASSUME [Next]_vars
    PROVE  \/ UNCHANGED vars
           \/ \E j \in Jobs : ServiceStep(j)
           \/ \E w \in Workers : ProcessStep(w)
  BY DEF Next, ServiceNext, WorkerNext, Finished, ServiceStep, ProcessStep

Statuses == ACTIVE \cup SETTLED \cup {"absent", "erased"}

StreamType ==
    /\ entry \in [Jobs -> {"none", "new", "pending", "acked", "dead"}]
    /\ bump \in [Jobs -> 0 .. MaxRetries]

HandlerType ==
    /\ sub \in [Jobs -> {"new", "checked", "inserted", "unsent", "done"}]
    /\ seen \in [Jobs -> ACTIVE \cup {"none"}]
    /\ eras \in [Jobs -> {"none", "planned", "emptied", "partial", "done"}]

WorkerType ==
    /\ copies \in [Workers -> Seq(Jobs)]
    /\ \A w \in Workers : Len(copies[w]) <= MaxCopies
    /\ pc \in [Workers -> WorkerState]
    /\ cur \in [Workers -> Jobs \cup {NoJob}]
    /\ \A w \in Workers : cur[w] = NoJob <=> pc[w] \in {"idle", "down"}

RestType ==
    /\ obj \in [Jobs -> BOOLEAN]
    /\ told \in [Jobs -> 0 .. 2]
    /\ disputed \subseteq Jobs /\ dropped \subseteq Jobs
    /\ faults \in 0 .. MaxFaults

LEMMA TypeParts ==
    /\ TypeOK <=> /\ job \in [Jobs -> Row] /\ StreamType /\ HandlerType
                  /\ WorkerType /\ RestType
    /\ TypeOK' <=> /\ job' \in [Jobs -> Row] /\ StreamType' /\ HandlerType'
                   /\ WorkerType' /\ RestType'
  BY DEF TypeOK, StreamType, HandlerType, WorkerType, RestType

LEMMA TypeInit == Init => TypeOK
  <1> SUFFICES ASSUME Init PROVE TypeOK
    OBVIOUS
  <1>1. job \in [Jobs -> Row]
    BY DEF Init, Row
  <1>2. StreamType /\ HandlerType
    BY AsrJobAssumption DEF Init, StreamType, HandlerType
  <1>3. WorkerType
    BY AsrJobAssumption DEF Init, WorkerType, WorkerState
  <1>4. RestType
    <2>1. obj \in [Jobs -> BOOLEAN]
      BY DEF Init
    <2>2. told \in [Jobs -> 0 .. 2] /\ faults \in 0 .. MaxFaults
      BY AsrJobAssumption DEF Init
    <2>3. disputed \subseteq Jobs /\ dropped \subseteq Jobs
      BY DEF Init
    <2> QED BY <2>1, <2>2, <2>3 DEF RestType
  <1> QED BY <1>1, <1>2, <1>3, <1>4, TypeParts

LEMMA FaultType ==
    ASSUME faults \in 0 .. MaxFaults, NEW k, Fault(k)
    PROVE  faults' \in 0 .. MaxFaults /\ k \in Faults
  BY AsrJobAssumption DEF Fault

LEMMA StatusSet ==
    ASSUME job \in [Jobs -> Row], NEW j \in Jobs, NEW s \in Statuses,
           job' = [job EXCEPT ![j].status = s]
    PROVE  /\ job' \in [Jobs -> Row] /\ job'[j].status = s
           /\ job'[j].cancel = job[j].cancel
           /\ \A k \in Jobs \ {j} : job'[k] = job[k]
  BY DEF Row, Statuses

-----------------------------------------------------------------------------
(* The service's steps.                                                    *)

LEMMA ServiceFrame ==
    ASSUME TypeOK, NEW j \in Jobs, ServiceStep(j)
    PROVE  /\ UNCHANGED <<bump, copies, pc, cur, told, disputed>>
           /\ dropped' = dropped \/ (SubmitDies(j) /\ dropped' = dropped \cup {j})
           /\ \A k \in Jobs \ {j} : /\ sub'[k] = sub[k] /\ entry'[k] = entry[k]
                                    /\ eras'[k] = eras[k] /\ obj'[k] = obj[k]
           /\ StreamType' /\ HandlerType' /\ RestType' /\ WorkerType'
           /\ sub'[j] = sub[j] \/ sub[j] # "done"
           /\ entry'[j] = entry[j] \/ Send(j) \/ SendRaises(j)
           /\ eras[j] # "none" => eras'[j] # "none"
           /\ obj'[j] = obj[j] \/ (eras[j] # "none" /\ eras'[j] # "none")
  <1>0. StreamType /\ HandlerType /\ RestType /\ WorkerType
    BY TypeParts
  <1>1. UNCHANGED <<bump, copies, pc, cur, told, disputed>>
    BY DEF ServiceStep, CheckCap, InsertRow, Send, SendRaises, SubmitFails, SubmitRefused,
           SubmitDies, Cancel, GoesStale, ReapScan, ReapFail, ErasePlan, EraseObjects,
           EraseFails, EraseRows, workerVars, streamVars
  <1>d. dropped' = dropped \/ (SubmitDies(j) /\ dropped' = dropped \cup {j})
    BY DEF ServiceStep, CheckCap, InsertRow, Send, SendRaises, SubmitFails, SubmitRefused,
           SubmitDies, Cancel, GoesStale, ReapScan, ReapFail, ErasePlan, EraseObjects,
           EraseFails, EraseRows
  <1>2. faults' = faults \/ \E k : Fault(k)
    BY DEF ServiceStep, CheckCap, InsertRow, Send, SendRaises, SubmitFails, SubmitRefused,
           SubmitDies, Cancel, GoesStale, ReapScan, ReapFail, ErasePlan, EraseObjects,
           EraseFails, EraseRows
  <1>3. /\ sub' \in [Jobs -> {"new", "checked", "inserted", "unsent", "done"}]
        /\ \A k \in Jobs \ {j} : sub'[k] = sub[k]
        /\ sub'[j] = sub[j] \/ sub[j] # "done"
    <2>1. \/ sub' = sub
          \/ sub[j] # "done" /\ \E s \in {"checked", "inserted", "unsent", "done"} :
                                   sub' = [sub EXCEPT ![j] = s]
      BY DEF ServiceStep, CheckCap, InsertRow, Send, SendRaises, SubmitFails, SubmitRefused,
             SubmitDies, Cancel, GoesStale, ReapScan, ReapFail, ErasePlan, EraseObjects,
             EraseFails, EraseRows, SubmitStep
    <2> QED BY <1>0, <2>1 DEF HandlerType
  <1>4. /\ entry' \in [Jobs -> {"none", "new", "pending", "acked", "dead"}]
        /\ \A k \in Jobs \ {j} : entry'[k] = entry[k]
        /\ entry'[j] = entry[j] \/ Send(j) \/ SendRaises(j)
    <2>1. \/ entry' = entry
          \/ Send(j) /\ entry' = [entry EXCEPT ![j] = "new"]
          \/ SendRaises(j) /\ \E e \in {"none", "new"} : entry' = [entry EXCEPT ![j] = e]
      BY DEF ServiceStep, CheckCap, InsertRow, Send, SendRaises, SubmitFails, SubmitRefused,
             SubmitDies, Cancel, GoesStale, ReapScan, ReapFail, ErasePlan, EraseObjects,
             EraseFails, EraseRows, streamVars
    <2> QED BY <1>0, <2>1 DEF StreamType
  <1>5. seen' \in [Jobs -> ACTIVE \cup {"none"}]
    <2>1. seen' = seen \/ \E s \in ACTIVE \cup {"none"} : seen' = [seen EXCEPT ![j] = s]
      BY DEF ServiceStep, CheckCap, InsertRow, Send, SendRaises, SubmitFails, SubmitRefused,
             SubmitDies, Cancel, GoesStale, ReapScan, ReapFail, ErasePlan, EraseObjects,
             EraseFails, EraseRows, Stale
    <2> QED BY <1>0, <2>1 DEF HandlerType
  <1>6. /\ eras' \in [Jobs -> {"none", "planned", "emptied", "partial", "done"}]
        /\ \A k \in Jobs \ {j} : eras'[k] = eras[k]
        /\ eras[j] # "none" => eras'[j] # "none"
    <2>1. \/ eras' = eras
          \/ \E s \in {"planned", "emptied", "partial", "done"} : eras' = [eras EXCEPT ![j] = s]
      BY DEF ServiceStep, CheckCap, InsertRow, Send, SendRaises, SubmitFails, SubmitRefused,
             SubmitDies, Cancel, GoesStale, ReapScan, ReapFail, ErasePlan, EraseObjects,
             EraseFails, EraseRows, EraseStep
    <2> QED BY <1>0, <2>1 DEF HandlerType
  <1>7. /\ obj' \in [Jobs -> BOOLEAN] /\ \A k \in Jobs \ {j} : obj'[k] = obj[k]
        /\ obj'[j] = obj[j] \/ (eras[j] # "none" /\ eras'[j] # "none")
    <2>1. \/ obj' = obj
          \/ /\ obj' = [obj EXCEPT ![j] = FALSE] /\ eras[j] # "none"
             /\ eras' = [eras EXCEPT ![j] = "emptied"]
      BY DEF ServiceStep, CheckCap, InsertRow, Send, SendRaises, SubmitFails, SubmitRefused,
             SubmitDies, Cancel, GoesStale, ReapScan, ReapFail, ErasePlan, EraseObjects,
             EraseFails, EraseRows, EraseStep
    <2> QED BY <1>0, <2>1 DEF RestType, HandlerType
  <1>8. faults' \in 0 .. MaxFaults
    BY <1>0, <1>2, FaultType DEF RestType
  <1>9. StreamType' /\ HandlerType' /\ RestType' /\ WorkerType'
    BY <1>0, <1>1, <1>d, <1>3, <1>4, <1>5, <1>6, <1>7, <1>8
       DEF StreamType, HandlerType, RestType, WorkerType
  <1> QED BY <1>1, <1>d, <1>3, <1>4, <1>6, <1>7, <1>9

\* The row, as the service changes it: inserted once, settled while it is
\* active, erased.
LEMMA ServiceRow ==
    ASSUME TypeOK, NEW j \in Jobs, ServiceStep(j)
    PROVE  /\ job' \in [Jobs -> Row] /\ \A k \in Jobs \ {j} : job'[k] = job[k]
           /\ \/ job'[j].status = job[j].status
              \/ InsertRow(j) /\ job'[j].status = "queued"
              \/ job[j].status \in ACTIVE /\ job'[j].status \in {"failed", "cancelled"}
              \/ EraseRows(j) /\ job'[j].status = "erased"
  <1>0. job \in [Jobs -> Row] /\ HandlerType
    BY TypeParts
  <1>1. CASE job' = job
    BY <1>0, <1>1
  <1>2. CASE InsertRow(j)
    BY <1>0, <1>2, StatusSet DEF InsertRow, SetStatus, Statuses, ACTIVE
  <1>3. CASE SubmitFails(j) \/ ReapFail(j)
    <2>1. job' = job \/ (job[j].status \in ACTIVE /\ job' = [job EXCEPT ![j].status = "failed"])
      BY <1>0, <1>3 DEF SubmitFails, ReapFail, FailJob, HandlerType
    <2> QED BY <1>0, <1>1, <2>1, StatusSet DEF Statuses, SETTLED
  <1>4. CASE Cancel(j)
    <2>1. /\ job[j].status \in ACTIVE
          /\ job' = [job EXCEPT ![j].cancel = TRUE,
                                ![j].status = IF @ = "queued" THEN "cancelled" ELSE @]
      BY <1>4 DEF Cancel
    <2> QED BY <1>0, <2>1 DEF Row, SETTLED
  <1>5. CASE GoesStale(j)
    BY <1>0, <1>5 DEF GoesStale, Row
  <1>6. CASE EraseRows(j)
    BY <1>0, <1>6 DEF EraseRows, Row
  <1> QED BY <1>1, <1>2, <1>3, <1>4, <1>5, <1>6
          DEF ServiceStep, CheckCap, Send, SendRaises, SubmitRefused, SubmitDies, ReapScan,
              ErasePlan, EraseObjects, EraseFails

-----------------------------------------------------------------------------
(* The worker's steps.                                                     *)

OthersStay(w) ==
    \A v \in Workers \ {w} : pc'[v] = pc[v] /\ cur'[v] = cur[v] /\ copies'[v] = copies[v]

Busy == WorkerState \ {"idle", "down"}

\* A step inside a delivery.
LEMMA StepEffect ==
    ASSUME WorkerType, NEW w \in Workers, NEW s \in Busy, pc[w] \in Busy,
           pc' = [pc EXCEPT ![w] = s], UNCHANGED <<cur, copies>>
    PROVE  WorkerType' /\ OthersStay(w) /\ pc'[w] = s /\ cur'[w] = cur[w] /\ cur[w] \in Jobs
  BY DEF WorkerType, OthersStay, Busy

LEMMA ReleaseEffect ==
    ASSUME WorkerType, NEW w \in Workers, Release(w), UNCHANGED copies
    PROVE  WorkerType' /\ OthersStay(w) /\ pc'[w] = "idle" /\ cur'[w] = NoJob
  <1>1. pc' \in [Workers -> WorkerState] /\ cur' \in [Workers -> Jobs \cup {NoJob}]
    BY DEF WorkerType, Release, WorkerState
  <1>2. pc'[w] = "idle" /\ cur'[w] = NoJob /\ OthersStay(w)
    BY DEF WorkerType, Release, OthersStay
  <1>3. WorkerType'
    BY <1>1, <1>2 DEF WorkerType, OthersStay
  <1> QED BY <1>2, <1>3

\* A delivery is taken from the worker's reclaimed entries or from the stream.
TakeCopy(w) ==
    /\ copies[w] # <<>> /\ cur'[w] = Head(copies[w]) /\ copies'[w] = Tail(copies[w])
    /\ entry' = entry

TakeNew(w, j) ==
    /\ copies'[w] = copies[w] /\ cur'[w] = j /\ entry[j] = "new"
    /\ entry' = [entry EXCEPT ![j] = "pending"]

LEMMA TakeEffect ==
    ASSUME TypeOK, NEW w \in Workers, Take(w)
    PROVE  /\ WorkerType' /\ OthersStay(w) /\ pc[w] = "idle" /\ pc'[w] = "read"
           /\ TakeCopy(w) \/ \E j \in Jobs : TakeNew(w, j)
  <1>0. WorkerType
    BY TypeParts
  <1>1. pc[w] = "idle" /\ pc' = [pc EXCEPT ![w] = "read"]
    BY DEF Take, Step
  <1>2. CASE /\ copies[w] # <<>>
             /\ cur' = [cur EXCEPT ![w] = Head(copies[w])]
             /\ copies' = [copies EXCEPT ![w] = Tail(@)]
             /\ UNCHANGED entry
    <2>1. /\ copies[w] \in Seq(Jobs) /\ Head(copies[w]) \in Jobs /\ Tail(copies[w]) \in Seq(Jobs)
          /\ Len(Tail(copies[w])) <= MaxCopies
      BY <1>0, <1>2, AsrJobAssumption DEF WorkerType
    <2>2. WorkerType' /\ OthersStay(w)
      BY <1>0, <1>1, <1>2, <2>1, AsrJobAssumption DEF WorkerType, OthersStay, WorkerState
    <2>3. TakeCopy(w)
      BY <1>0, <1>2 DEF WorkerType, TakeCopy
    <2> QED BY <1>0, <1>1, <2>2, <2>3 DEF WorkerType
  <1>3. CASE /\ copies[w] = <<>>
             /\ \E j \in Jobs : /\ entry[j] = "new"
                                /\ cur' = [cur EXCEPT ![w] = j]
                                /\ entry' = [entry EXCEPT ![j] = "pending"]
             /\ UNCHANGED copies
    <2>1. PICK j \in Jobs : /\ entry[j] = "new"
                            /\ cur' = [cur EXCEPT ![w] = j]
                            /\ entry' = [entry EXCEPT ![j] = "pending"]
      BY <1>3
    <2>2. WorkerType' /\ OthersStay(w)
      BY <1>0, <1>1, <1>3, <2>1, AsrJobAssumption DEF WorkerType, OthersStay, WorkerState
    <2>3. TakeNew(w, j)
      BY <1>0, <1>3, <2>1 DEF WorkerType, TakeNew
    <2> QED BY <1>0, <1>1, <2>2, <2>3 DEF WorkerType
  <1> QED BY <1>2, <1>3 DEF Take

LEMMA ReclaimEffect ==
    ASSUME TypeOK, NEW w \in Workers, Reclaim(w)
    PROVE  /\ WorkerType' /\ OthersStay(w) /\ UNCHANGED <<pc, cur, entry>>
           /\ \E j \in Jobs : IdleEntry(j) /\ copies'[w] = Append(copies[w], j)
  <1>0. WorkerType
    BY TypeParts
  <1>1. PICK j \in Jobs : IdleEntry(j) /\ copies' = [copies EXCEPT ![w] = Append(@, j)]
    BY DEF Reclaim
  <1>2. UNCHANGED <<pc, cur, entry>> /\ Len(copies[w]) < MaxCopies
    BY DEF Reclaim, streamVars
  <1>3. /\ Append(copies[w], j) \in Seq(Jobs) /\ Len(Append(copies[w], j)) <= MaxCopies
    BY <1>0, <1>2, AsrJobAssumption DEF WorkerType
  <1>4. /\ copies'[w] = Append(copies[w], j)
        /\ \A v \in Workers \ {w} : copies'[v] = copies[v]
        /\ copies' \in [Workers -> Seq(Jobs)]
    BY <1>0, <1>1, <1>3 DEF WorkerType
  <1>5. WorkerType' /\ OthersStay(w)
    BY <1>0, <1>2, <1>3, <1>4 DEF WorkerType, OthersStay
  <1> QED BY <1>1, <1>2, <1>4, <1>5

\* The steps inside a delivery.
InnerStep(w) ==
    \/ DeadLetter(w) \/ ReadRow(w) \/ MarkRunning(w) \/ CancelSeen(w) \/ Transcribed(w)
    \/ Die(w) \/ RetryableError(w) \/ PutResult(w) \/ SaveComplete(w) \/ Audit(w)
    \/ BadPayload(w) \/ EdgeFails(w) \/ AuditFails(w)

LEMMA InnerEffect ==
    ASSUME TypeOK, NEW w \in Workers, InnerStep(w)
    PROVE  /\ WorkerType' /\ OthersStay(w) /\ cur' = cur /\ copies' = copies
           /\ cur[w] \in Jobs /\ pc[w] \in Busy
           /\ pc'[w] \in Busy /\ pc' = [pc EXCEPT ![w] = pc'[w]]
  <1>0. WorkerType
    BY TypeParts
  <1>1. UNCHANGED <<cur, copies>>
    BY DEF InnerStep, DeadLetter, ReadRow, MarkRunning, CancelSeen, Transcribed, Die,
           RetryableError, PutResult, SaveComplete, Audit, BadPayload, EdgeFails, AuditFails
  <1>2. pc[w] \in Busy /\ \E s \in Busy : pc' = [pc EXCEPT ![w] = s]
    <2>1. CASE DeadLetter(w) \/ ReadRow(w) \/ MarkRunning(w) \/ CancelSeen(w) \/ Transcribed(w)
      BY <2>1 DEF DeadLetter, ReadRow, MarkRunning, CancelSeen, Transcribed, Step, Busy,
                  WorkerState, Written
    <2>2. CASE Die(w) \/ RetryableError(w) \/ PutResult(w) \/ SaveComplete(w) \/ BadPayload(w)
      BY <2>2 DEF Die, RetryableError, PutResult, SaveComplete, BadPayload, Step, Busy,
                  WorkerState, Written
    <2>3. CASE Audit(w) \/ EdgeFails(w) \/ AuditFails(w)
      BY <2>3 DEF Audit, EdgeFails, AuditFails, Step, Busy, WorkerState, Written
    <2> QED BY <2>1, <2>2, <2>3 DEF InnerStep
  <1>3. PICK s \in Busy : pc' = [pc EXCEPT ![w] = s]
    BY <1>2
  <1>4. pc'[w] = s /\ WorkerType' /\ OthersStay(w) /\ cur[w] \in Jobs
    BY <1>0, <1>1, <1>2, <1>3, StepEffect
  <1> QED BY <1>1, <1>2, <1>3, <1>4

\* A failed delivery is left pending, or goes on to the dead-letter stream.
LEMMA BumpEffect ==
    ASSUME TypeOK, NEW w \in Workers, Bump(w)
    PROVE  /\ WorkerType' /\ OthersStay(w) /\ copies' = copies
           /\ cur[w] \in Jobs /\ pc[w] = "fail"
           /\ \/ pc'[w] = "idle" /\ cur'[w] = NoJob
              \/ pc'[w] = "dlq" /\ cur' = cur
           /\ UNCHANGED <<job, entry, obj, told>>
  <1>0. WorkerType
    BY TypeParts
  <1>1. pc[w] = "fail" /\ UNCHANGED <<job, entry, obj, told, copies>>
    BY DEF Bump
  <1>2. cur[w] \in Jobs
    BY <1>0, <1>1 DEF WorkerType
  <1>3. CASE Release(w)
    BY <1>0, <1>1, <1>2, <1>3, ReleaseEffect
  <1>4. CASE pc' = [pc EXCEPT ![w] = "dlq"] /\ UNCHANGED cur
    <2>1. "dlq" \in Busy /\ pc[w] \in Busy
      BY <1>1 DEF Busy, WorkerState
    <2> QED BY <1>0, <1>1, <1>4, <2>1, StepEffect
  <1> QED BY <1>3, <1>4 DEF Bump

\* A delivery ends.
LEMMA FinalEffect ==
    ASSUME TypeOK, NEW w \in Workers, Ack(w) \/ Exhausted(w) \/ ExhaustedLost(w)
    PROVE  /\ WorkerType' /\ OthersStay(w) /\ copies' = copies
           /\ cur[w] \in Jobs /\ pc[w] \in {"ack", "exhausted"}
           /\ pc'[w] = "idle" /\ cur'[w] = NoJob
  <1>0. WorkerType
    BY TypeParts
  <1>1. pc[w] \in {"ack", "exhausted"} /\ Release(w) /\ copies' = copies
    BY DEF Ack, Exhausted, ExhaustedLost
  <1>2. cur[w] \in Jobs
    BY <1>0, <1>1 DEF WorkerType
  <1> QED BY <1>0, <1>1, <1>2, ReleaseEffect

LEMMA CrashEffect ==
    ASSUME TypeOK, NEW w \in Workers, Crash(w) \/ Restart(w)
    PROVE  /\ WorkerType' /\ OthersStay(w)
           /\ pc'[w] \in {"idle", "down"} /\ cur'[w] = NoJob
           /\ copies'[w] \in {copies[w], <<>>}
           /\ UNCHANGED <<job, entry, obj, told, bump>>
           /\ pc[w] # "down" => "crash" \in Faults
  <1>0. WorkerType
    BY TypeParts
  <1>1. CASE Crash(w)
    <2>1. /\ pc' = [pc EXCEPT ![w] = "down"] /\ cur' = [cur EXCEPT ![w] = NoJob]
          /\ copies' = [copies EXCEPT ![w] = <<>>] /\ "crash" \in Faults
          /\ UNCHANGED <<job, entry, obj, told, bump>>
      BY <1>1 DEF Crash, Fault, streamVars
    <2>2. /\ <<>> \in Seq(Jobs) /\ Len(<<>>) <= MaxCopies
      BY AsrJobAssumption
    <2> QED BY <1>0, <2>1, <2>2 DEF WorkerType, OthersStay, WorkerState
  <1>2. CASE Restart(w)
    <2>1. pc' = [pc EXCEPT ![w] = "idle"] /\ pc[w] = "down"
          /\ UNCHANGED <<cur, copies, job, entry, obj, told, bump>>
      BY <1>2 DEF Restart, Step, streamVars
    <2> QED BY <1>0, <2>1 DEF WorkerType, OthersStay, WorkerState
  <1> QED BY <1>1, <1>2

LEMMA ProcessSplit ==
    ASSUME NEW w \in Workers, ProcessStep(w)
    PROVE  \/ Take(w) \/ Reclaim(w) \/ InnerStep(w) \/ Bump(w)
           \/ Ack(w) \/ Exhausted(w) \/ ExhaustedLost(w)
           \/ Crash(w) \/ Restart(w)
  BY DEF ProcessStep, WorkerStep, InnerStep

\* The row, as a worker changes it: by the guarded writes while it is active, by
\* the unguarded ones of _mark_failed() and of the completion whatever it is.
LEMMA ProcessRow ==
    ASSUME TypeOK, NEW w \in Workers, ProcessStep(w)
    PROVE  /\ job' \in [Jobs -> Row]
           /\ \A k \in Jobs : k # cur[w] => job'[k] = job[k]
           /\ \A k \in Jobs : k = cur[w] =>
                 \/ job'[k].status = job[k].status
                 \/ job[k].status \in ACTIVE /\ MarkRunning(w) /\ job'[k].status = "running"
                 \/ /\ job[k].status \in ACTIVE /\ job'[k].status = "cancelled"
                    /\ ReadRow(w) \/ CancelSeen(w)
                 \/ job[k].status # "erased" /\ SaveComplete(w) /\ job'[k].status = "complete"
                 \/ /\ job[k].status # "erased" /\ job'[k].status = "failed"
                    /\ Die(w) \/ Exhausted(w) \/ ExhaustedLost(w)
  <1>0. job \in [Jobs -> Row] /\ WorkerType
    BY TypeParts
  <1>1. CASE job' = job
    BY <1>0, <1>1
  <1>2. ASSUME ReadRow(w) \/ MarkRunning(w) \/ CancelSeen(w) \/ Die(w) \/ SaveComplete(w)
               \/ Exhausted(w) \/ ExhaustedLost(w)
        PROVE  cur[w] \in Jobs
    <2>1. pc[w] \notin {"idle", "down"}
      BY <1>2 DEF ReadRow, MarkRunning, CancelSeen, Die, SaveComplete, Exhausted,
                  ExhaustedLost, Step
    <2> QED BY <1>0, <2>1 DEF WorkerType
  <1>3. CASE ReadRow(w) \/ CancelSeen(w)
    <2>1. job' = job \/ (job[cur[w]].status \in ACTIVE
                          /\ job' = [job EXCEPT ![cur[w]].status = "cancelled"])
      BY <1>3 DEF ReadRow, CancelSeen, MarkCancelled
    <2> QED BY <1>0, <1>1, <1>2, <1>3, <2>1, StatusSet DEF Statuses, SETTLED
  <1>4. CASE MarkRunning(w)
    <2>1. job' = job \/ (job[cur[w]].status \in ACTIVE
                          /\ job' = [job EXCEPT ![cur[w]].status = "running",
                                                ![cur[w]].stale = FALSE])
      BY <1>4 DEF MarkRunning
    <2> QED BY <1>0, <1>1, <1>2, <1>4, <2>1 DEF Row, ACTIVE
  <1>5. CASE Die(w) \/ Exhausted(w) \/ ExhaustedLost(w)
    <2>1. job' = job \/ (job[cur[w]].status # "erased"
                          /\ job' = [job EXCEPT ![cur[w]].status = "failed"])
      BY <1>5 DEF Die, Exhausted, ExhaustedLost, MarkFailed
    <2> QED BY <1>0, <1>1, <1>2, <1>5, <2>1, StatusSet DEF Statuses, SETTLED
  <1>6. CASE SaveComplete(w)
    <2>1. job' = job \/ (job[cur[w]].status # "erased"
                          /\ job' = [job EXCEPT ![cur[w]].status = "complete"])
      BY <1>6 DEF SaveComplete
    <2> QED BY <1>0, <1>1, <1>2, <1>6, <2>1, StatusSet DEF Statuses, SETTLED
  <1> QED BY <1>1, <1>3, <1>4, <1>5, <1>6, ProcessSplit, CrashEffect, BumpEffect
          DEF InnerStep, Take, Reclaim, DeadLetter, Transcribed, RetryableError, PutResult,
              Audit, BadPayload, EdgeFails, AuditFails, Ack

\* The stream: an entry is delivered, acknowledged or dead-lettered.
LEMMA ProcessStream ==
    ASSUME TypeOK, NEW w \in Workers, ProcessStep(w)
    PROVE  /\ StreamType'
           /\ \A k \in Jobs :
                 \/ entry'[k] = entry[k]
                 \/ entry[k] = "new" /\ entry'[k] = "pending" /\ TakeNew(w, k)
                 \/ /\ k = cur[w] /\ entry[k] = "pending"
                    /\ \/ entry'[k] = "acked" /\ pc[w] = "ack"
                       \/ entry'[k] = "dead" /\ DeadLetter(w)
  <1>0. StreamType /\ WorkerType
    BY TypeParts
  <1>1. ASSUME NEW j \in Jobs, NEW as \in {"acked", "dead"}, Acked(j, as)
        PROVE  /\ StreamType' /\ \A k \in Jobs \ {j} : entry'[k] = entry[k]
               /\ entry'[j] = entry[j] \/ (entry[j] = "pending" /\ entry'[j] = as)
    <2>1. /\ entry' = [entry EXCEPT ![j] = IF @ = "pending" THEN as ELSE @]
          /\ bump' = [bump EXCEPT ![j] = 0]
      BY <1>1 DEF Acked
    <2>2. bump' \in [Jobs -> 0 .. MaxRetries]
      BY <1>0, <2>1, AsrJobAssumption DEF StreamType
    <2>3. /\ entry' \in [Jobs -> {"none", "new", "pending", "acked", "dead"}]
          /\ \A k \in Jobs \ {j} : entry'[k] = entry[k]
          /\ entry'[j] = entry[j] \/ (entry[j] = "pending" /\ entry'[j] = as)
      BY <1>0, <2>1 DEF StreamType
    <2> QED BY <2>2, <2>3 DEF StreamType
  <1>2. CASE Take(w)
    <2>1. bump' = bump
      BY <1>2 DEF Take
    <2>2. CASE TakeCopy(w)
      BY <1>0, <2>1, <2>2 DEF TakeCopy, StreamType
    <2>3. CASE \E j \in Jobs : TakeNew(w, j)
      BY <1>0, <2>1, <2>3 DEF TakeNew, StreamType
    <2> QED BY <1>2, <2>2, <2>3, TakeEffect
  <1>3. CASE Ack(w)
    <2>1. cur[w] \in Jobs /\ pc[w] = "ack" /\ Acked(cur[w], "acked")
      BY <1>3, FinalEffect DEF Ack
    <2> QED BY <1>1, <2>1
  <1>4. CASE DeadLetter(w)
    <2>1. cur[w] \in Jobs /\ Acked(cur[w], "dead")
      BY <1>4, InnerEffect DEF InnerStep, DeadLetter
    <2> QED BY <1>1, <1>4, <2>1
  <1>5. CASE EdgeFails(w)
    <2>1. /\ cur[w] \in Jobs /\ bump' = bump
          /\ \/ entry' = entry
             \/ /\ pc[w] = "ack" /\ entry[cur[w]] = "pending"
                /\ entry' = [entry EXCEPT ![cur[w]] = "acked"]
      BY <1>5, InnerEffect DEF InnerStep, EdgeFails
    <2> QED BY <1>0, <2>1 DEF StreamType
  <1>6. CASE Bump(w)
    <2>1. /\ cur[w] \in Jobs /\ entry' = entry
          /\ bump' = [bump EXCEPT ![cur[w]] = IF @ < MaxRetries THEN @ + 1 ELSE @]
      BY <1>6, BumpEffect DEF Bump
    <2> QED BY <1>0, <2>1, AsrJobAssumption DEF StreamType
  <1>7. CASE UNCHANGED <<entry, bump>>
    BY <1>0, <1>7 DEF StreamType
  <1> QED BY <1>2, <1>3, <1>4, <1>5, <1>6, <1>7, ProcessSplit, CrashEffect
          DEF InnerStep, ReadRow, MarkRunning, CancelSeen, Transcribed, Die,
              RetryableError, PutResult, SaveComplete, Audit, BadPayload, AuditFails,
              Reclaim, Exhausted, ExhaustedLost, streamVars

\* The object, the notifications and the rest.
LEMMA ProcessRest ==
    ASSUME TypeOK, NEW w \in Workers, ProcessStep(w)
    PROVE  /\ RestType' /\ UNCHANGED <<sub, seen, eras>>
           /\ \A k \in Jobs : obj'[k] = obj[k] \/ obj'[k] = TRUE
           /\ PutResult(w) => obj'[cur[w]] = TRUE
           /\ disputed \subseteq disputed' /\ dropped \subseteq dropped'
           /\ \A k \in Jobs :
                 \/ told'[k] = told[k]
                 \/ k = cur[w] /\ Exhausted(w)
                 \/ k = cur[w] /\ Audit(w) /\ pc[w] \in {"wrote_complete", "wrote_failed"}
  <1>0. RestType
    BY TypeParts
  <1>1. UNCHANGED <<sub, seen, eras>> /\ (faults' = faults \/ \E k : Fault(k))
    BY DEF ProcessStep, WorkerStep, Take, Ack, Bump, DeadLetter, ReadRow, MarkRunning,
           CancelSeen, Transcribed, Die, RetryableError, PutResult, SaveComplete, Audit,
           Exhausted, Reclaim, Restart, BadPayload, EdgeFails, AuditFails, ExhaustedLost, Crash
  <1>2. faults' \in 0 .. MaxFaults
    BY <1>0, <1>1, FaultType DEF RestType
  <1>3. /\ obj' \in [Jobs -> BOOLEAN] /\ \A k \in Jobs : obj'[k] = obj[k] \/ obj'[k] = TRUE
        /\ PutResult(w) => obj'[cur[w]] = TRUE
    <2>1. CASE PutResult(w)
      <3>1. obj' = [obj EXCEPT ![cur[w]] = TRUE] /\ cur[w] \in Jobs
        BY <2>1, InnerEffect DEF PutResult, InnerStep
      <3> QED BY <1>0, <3>1 DEF RestType
    <2>2. CASE ~PutResult(w)
      <3>1. obj' = obj
        BY <2>2 DEF ProcessStep, WorkerStep, Take, Ack, Bump, DeadLetter, ReadRow, MarkRunning,
             CancelSeen, Transcribed, Die, RetryableError, SaveComplete, Audit,
             Exhausted, Reclaim, Restart, BadPayload, EdgeFails, AuditFails, ExhaustedLost,
             Crash
      <3> QED BY <1>0, <2>2, <3>1 DEF RestType
    <2> QED BY <2>1, <2>2
  <1>4. /\ told' \in [Jobs -> 0 .. 2]
        /\ \A k \in Jobs :
              \/ told'[k] = told[k]
              \/ k = cur[w] /\ Exhausted(w)
              \/ k = cur[w] /\ Audit(w) /\ pc[w] \in {"wrote_complete", "wrote_failed"}
    <2>0. ASSUME NEW j \in Jobs, Announce(j)
          PROVE  told' \in [Jobs -> 0 .. 2] /\ \A k \in Jobs \ {j} : told'[k] = told[k]
      BY <1>0, <2>0 DEF Announce, RestType
    <2>1. CASE told' = told
      BY <1>0, <2>1 DEF RestType
    <2>2. CASE Exhausted(w)
      <3>1. cur[w] \in Jobs /\ Announce(cur[w])
        BY <2>2, FinalEffect DEF Exhausted
      <3> QED BY <2>0, <2>2, <3>1
    <2>3. CASE Audit(w) /\ told' # told
      <3>1. cur[w] \in Jobs /\ Announce(cur[w]) /\ pc[w] \in {"wrote_complete", "wrote_failed"}
        BY <2>3, InnerEffect DEF Audit, InnerStep, Step, Written
      <3> QED BY <2>0, <2>3, <3>1
    <2> QED BY <2>1, <2>2, <2>3
            DEF ProcessStep, WorkerStep, Take, Ack, Bump, DeadLetter, ReadRow, MarkRunning,
                CancelSeen, Transcribed, Die, RetryableError, PutResult, SaveComplete,
                Reclaim, Restart, BadPayload, EdgeFails, AuditFails, ExhaustedLost, Crash
  <1>5. /\ disputed' = disputed \/ (disputed' = disputed \cup {cur[w]} /\ cur[w] \in Jobs)
        /\ dropped' = dropped \/ (dropped' = dropped \cup {cur[w]} /\ cur[w] \in Jobs)
    <2>1. CASE InnerStep(w)
      <3>1. cur[w] \in Jobs
        BY <2>1, InnerEffect
      <3>2. disputed' = disputed \/ disputed' = disputed \cup {cur[w]}
        BY <2>1 DEF InnerStep, DeadLetter, ReadRow, MarkRunning, CancelSeen, Transcribed, Die,
                    RetryableError, PutResult, SaveComplete, Audit, BadPayload, EdgeFails,
                    AuditFails, Disputes
      <3>3. dropped' = dropped \/ dropped' = dropped \cup {cur[w]}
        BY <2>1 DEF InnerStep, DeadLetter, ReadRow, MarkRunning, CancelSeen, Transcribed, Die,
                    RetryableError, PutResult, SaveComplete, Audit, BadPayload, EdgeFails,
                    AuditFails
      <3> QED BY <3>1, <3>2, <3>3
    <2>2. CASE Take(w) \/ Reclaim(w) \/ Bump(w) \/ Ack(w) \/ Exhausted(w) \/ Restart(w)
      <3>1. CASE Take(w) \/ Reclaim(w) \/ Restart(w)
        BY <3>1 DEF Take, Reclaim, Restart
      <3>2. CASE Bump(w) \/ Ack(w) \/ Exhausted(w)
        BY <3>2 DEF Bump, Ack, Exhausted
      <3> QED BY <2>2, <3>1, <3>2
    <2>3. CASE ExhaustedLost(w)
      BY <2>3, FinalEffect DEF ExhaustedLost
    <2>4. CASE Crash(w)
      <3>0. WorkerType
        BY TypeParts
      <3>1. pc[w] = "exhausted" => cur[w] \in Jobs
        BY <3>0 DEF WorkerType
      <3> QED BY <2>4, <3>1 DEF Crash
    <2> QED BY <2>1, <2>2, <2>3, <2>4, ProcessSplit
  <1>6. disputed' \subseteq Jobs /\ dropped' \subseteq Jobs
    BY <1>0, <1>5 DEF RestType
  <1> QED BY <1>1, <1>2, <1>3, <1>4, <1>5, <1>6 DEF RestType

LEMMA ProcessWorkers ==
    ASSUME TypeOK, NEW w \in Workers, ProcessStep(w)
    PROVE  /\ WorkerType' /\ OthersStay(w)
           /\ \/ cur'[w] = NoJob \/ Take(w)
              \/ cur'[w] = cur[w] /\ Reclaim(w) /\ pc' = pc
              \/ cur'[w] = cur[w] /\ (InnerStep(w) \/ Bump(w)) /\ copies' = copies
  BY ProcessSplit, TakeEffect, ReclaimEffect, InnerEffect, BumpEffect, FinalEffect, CrashEffect

LEMMA TypeStep == TypeOK /\ [Next]_vars => TypeOK'
  <1> SUFFICES ASSUME TypeOK, [Next]_vars PROVE TypeOK'
    OBVIOUS
  <1>1. CASE UNCHANGED vars
    BY <1>1 DEF vars, TypeOK
  <1>2. CASE \E j \in Jobs : ServiceStep(j)
    BY <1>2, ServiceFrame, ServiceRow, TypeParts
  <1>3. CASE \E w \in Workers : ProcessStep(w)
    <2>1. PICK w \in Workers : ProcessStep(w)
      BY <1>3
    <2>2. job' \in [Jobs -> Row] /\ StreamType' /\ RestType' /\ WorkerType'
          /\ UNCHANGED <<sub, seen, eras>>
      BY <2>1, ProcessRow, ProcessStream, ProcessRest, ProcessWorkers
    <2>3. HandlerType'
      BY <2>2, TypeParts DEF HandlerType
    <2> QED BY <2>2, <2>3, TypeParts
  <1> QED BY <1>1, <1>2, <1>3, NextSplit

\* How a delivery gets from one position to the next.
LEMMA InnerPath ==
    ASSUME TypeOK, NEW w \in Workers, InnerStep(w)
    PROVE  /\ pc'[w] = "mark" => pc[w] = "read" /\ ~Skipped(job[cur[w]].status)
           /\ pc'[w] = "work" => pc[w] = "mark"
           /\ pc'[w] = "put" => pc[w] = "work"
           /\ pc'[w] = "save" => PutResult(w)
           /\ pc'[w] = "exhausted" => DeadLetter(w) /\ pc[w] = "dlq"
           /\ pc'[w] = "wrote_complete" => SaveComplete(w) /\ pc[w] = "save"
           /\ pc'[w] = "wrote_failed" => Die(w) /\ pc[w] = "work"
           /\ pc'[w] = "wrote_cancelled" => MarkCancelled(cur[w]) /\ pc[w] \in {"read", "work"}
           /\ pc'[w] = "fail" =>
                 \/ pc[w] \in {"work", "put", "save"}
                 \/ "edge" \in Faults \/ "audit" \in Faults
           /\ pc'[w] = "ack" =>
                 \/ pc[w] \in Written /\ job' = job
                 \/ pc[w] = "read" /\ job' = job /\ (cur[w] \in dropped' \/ Skipped(job[cur[w]].status))
           /\ pc'[w] \notin {"read", "dlq"}
  <1>0. WorkerType
    BY TypeParts
  <1>1. CASE DeadLetter(w) \/ MarkRunning(w) \/ Transcribed(w) \/ PutResult(w)
    <2>1. \/ DeadLetter(w) /\ pc[w] = "dlq" /\ pc'[w] = "exhausted"
          \/ MarkRunning(w) /\ pc[w] = "mark" /\ pc'[w] = "work"
          \/ Transcribed(w) /\ pc[w] = "work" /\ pc'[w] = "put"
          \/ PutResult(w) /\ pc[w] = "put" /\ pc'[w] = "save"
      BY <1>0, <1>1 DEF DeadLetter, MarkRunning, Transcribed, PutResult, Step, WorkerType
    <2> QED BY <2>1 DEF Written
  <1>2. CASE ReadRow(w)
    <2>1. /\ pc[w] = "read"
          /\ \/ pc'[w] = "ack" /\ Skipped(job[cur[w]].status) /\ job' = job
             \/ pc'[w] = "wrote_cancelled" /\ MarkCancelled(cur[w])
             \/ pc'[w] = "mark" /\ ~Skipped(job[cur[w]].status)
      BY <1>0, <1>2 DEF ReadRow, Step, WorkerType
    <2> QED BY <2>1
  <1>3. CASE CancelSeen(w) \/ Die(w) \/ SaveComplete(w)
    <2>1. \/ CancelSeen(w) /\ pc[w] = "work" /\ pc'[w] = "wrote_cancelled" /\ MarkCancelled(cur[w])
          \/ Die(w) /\ pc[w] = "work" /\ pc'[w] = "wrote_failed"
          \/ SaveComplete(w) /\ pc[w] = "save" /\ pc'[w] = "wrote_complete"
      BY <1>0, <1>3 DEF CancelSeen, Die, SaveComplete, Step, WorkerType
    <2> QED BY <2>1
  <1>4. CASE RetryableError(w) \/ EdgeFails(w) \/ AuditFails(w)
    <2>1. /\ pc'[w] = "fail"
          /\ pc[w] \in {"work", "put", "save"} \/ "edge" \in Faults \/ "audit" \in Faults
      BY <1>0, <1>4 DEF RetryableError, EdgeFails, AuditFails, Step, WorkerType, Fault
    <2> QED BY <2>1
  <1>5. CASE Audit(w)
    <2>1. pc'[w] = "ack" /\ pc[w] \in Written /\ job' = job
      BY <1>0, <1>5 DEF Audit, Step, WorkerType
    <2> QED BY <2>1
  <1>6. CASE BadPayload(w)
    <2>1. pc'[w] = "ack" /\ pc[w] = "read" /\ job' = job /\ cur[w] \in dropped'
      BY <1>0, <1>6 DEF BadPayload, Step, WorkerType
    <2> QED BY <2>1
  <1> QED BY <1>1, <1>2, <1>3, <1>4, <1>5, <1>6 DEF InnerStep

-----------------------------------------------------------------------------
(* Whatever fails: a complete row has its transcript.                      *)

\* The object is stored before the row is written, and only an erasure deletes
\* it.
StoredInv ==
    /\ CompleteHasResult
    /\ \A w \in Workers : pc[w] = "save" => obj[cur[w]] \/ eras[cur[w]] # "none"

LEMMA StoredInit == Init => StoredInv
  BY DEF Init, StoredInv, CompleteHasResult

LEMMA StoredStep ==
    ASSUME TypeOK, StoredInv, [Next]_vars
    PROVE  StoredInv'
  <1>0. WorkerType /\ \A w \in Workers : pc[w] = "save" => cur[w] \in Jobs
    BY TypeParts DEF WorkerType
  <1>1. CASE UNCHANGED vars
    BY <1>1 DEF vars, StoredInv, CompleteHasResult
  <1>2. ASSUME NEW j \in Jobs, ServiceStep(j)
        PROVE  StoredInv'
    <2>1. UNCHANGED <<pc, cur>>
      BY <1>2, ServiceFrame
    <2>2. \A k \in Jobs : /\ job'[k].status = "complete" => job[k].status = "complete"
                          /\ eras'[k] = "none" => eras[k] = "none" /\ obj'[k] = obj[k]
      <3>1. \A k \in Jobs : job'[k].status = "complete" => job[k].status = "complete"
        BY <1>2, ServiceRow
      <3>2. \A k \in Jobs : eras'[k] = "none" => eras[k] = "none" /\ obj'[k] = obj[k]
        BY <1>2, ServiceFrame
      <3> QED BY <3>1, <3>2
    <2> QED BY <1>0, <2>1, <2>2 DEF StoredInv, CompleteHasResult
  <1>3. ASSUME NEW w \in Workers, ProcessStep(w)
        PROVE  StoredInv'
    <2>1. /\ eras' = eras /\ OthersStay(w)
          /\ \A k \in Jobs : obj'[k] = obj[k] \/ obj'[k] = TRUE
          /\ PutResult(w) => obj'[cur[w]] = TRUE
      BY <1>3, ProcessRest, ProcessWorkers
    <2>2. \A k \in Jobs : job'[k].status = "complete" =>
              job[k].status = "complete" \/ (k = cur[w] /\ pc[w] = "save")
      <3>1. SaveComplete(w) => pc[w] = "save"
        BY DEF SaveComplete, Step
      <3> QED BY <1>3, <3>1, ProcessRow
    <2>3. CompleteHasResult'
      BY <2>1, <2>2 DEF StoredInv, CompleteHasResult
    <2>4. ASSUME NEW v \in Workers, pc'[v] = "save"
          PROVE  obj'[cur'[v]] \/ eras'[cur'[v]] # "none"
      <3>1. CASE pc[v] = "save" /\ cur'[v] = cur[v]
        BY <1>0, <2>1, <3>1 DEF StoredInv
      <3>2. CASE v = w /\ PutResult(w) /\ cur'[w] = cur[w]
        BY <2>1, <3>2
      <3>3. v = w => (pc[w] = "save" /\ cur'[w] = cur[w]) \/ (PutResult(w) /\ cur'[w] = cur[w])
        <4> SUFFICES ASSUME v = w
                     PROVE  (pc[w] = "save" /\ cur'[w] = cur[w]) \/ (PutResult(w) /\ cur'[w] = cur[w])
          OBVIOUS
        <4>1. ~Take(w) /\ ~Bump(w) /\ cur'[w] # NoJob
          <5>1. ~Take(w) /\ ~Bump(w)
            BY <2>4, TakeEffect, BumpEffect
          <5>2. WorkerType'
            BY <1>3, ProcessWorkers
          <5> QED BY <2>4, <5>1, <5>2 DEF WorkerType
        <4>2. CASE Reclaim(w)
          BY <2>4, <4>2, ReclaimEffect
        <4>3. CASE InnerStep(w)
          BY <2>4, <4>3, InnerPath, InnerEffect
        <4> QED BY <1>3, <4>1, <4>2, <4>3, ProcessWorkers
      <3> QED BY <2>1, <2>4, <3>1, <3>2, <3>3 DEF OthersStay
    <2> QED BY <2>3, <2>4 DEF StoredInv
  <1> QED BY <1>1, <1>2, <1>3, NextSplit

\* A complete row points at a stored transcript, whatever crashes, is redelivered
\* or is retried, however long a job takes, unless an operator erases the job.
THEOREM CompleteHasTranscript == Spec => [](TypeOK /\ CompleteHasResult)
  <1>1. StoredInv => CompleteHasResult
    BY DEF StoredInv
  <1> QED BY <1>1, TypeInit, TypeStep, StoredInit, StoredStep, PTL DEF Spec

-----------------------------------------------------------------------------
(* Whatever fails: nobody holds an entry before it is delivered.           *)

\* A row is inserted before its entry is added, and an entry is in a worker's
\* hands only once it is pending.
HeldInv ==
    \A j \in Jobs :
        /\ sub[j] \in {"new", "checked"} => job[j].status = "absent"
        /\ sub[j] \in {"new", "checked", "inserted"} => entry[j] = "none"
        /\ sub[j] \in {"inserted", "unsent"} \/ entry[j] # "none" \/ eras[j] # "none"
              => job[j].status # "absent"
        /\ entry[j] \in {"none", "new"} => \A w \in Workers : ~Holds(w, j)

LEMMA HoldsStep ==
    ASSUME TypeOK, NEW w \in Workers, ProcessStep(w), NEW k \in Jobs, Holds(w, k)'
    PROVE  Holds(w, k) \/ TakeNew(w, k) \/ IdleEntry(k)
  <1>0. WorkerType /\ NoJob \notin Jobs /\ copies[w] \in Seq(Jobs)
    BY TypeParts, AsrJobAssumption DEF WorkerType
  <1>1. CASE Take(w)
    <2>1. CASE TakeCopy(w)
      <3>1. /\ cur'[w] = Head(copies[w]) /\ copies'[w] = Tail(copies[w]) /\ copies[w] # <<>>
        BY <2>1 DEF TakeCopy
      <3>2. CASE cur'[w] = k
        <4>1. 1 \in 1 .. Len(copies[w]) /\ copies[w][1] = k
          BY <1>0, <3>1, <3>2
        <4> QED BY <4>1 DEF Holds
      <3>3. CASE \E i \in 1 .. Len(copies'[w]) : copies'[w][i] = k
        <4>1. PICK i \in 1 .. Len(Tail(copies[w])) : Tail(copies[w])[i] = k
          BY <3>1, <3>3
        <4>2. i + 1 \in 1 .. Len(copies[w]) /\ copies[w][i + 1] = k
          BY <1>0, <3>1, <4>1
        <4> QED BY <4>2 DEF Holds
      <3> QED BY <3>2, <3>3 DEF Holds
    <2>2. CASE \E j \in Jobs : TakeNew(w, j)
      BY <1>0, <2>2 DEF TakeNew, Holds
    <2> QED BY <1>1, <2>1, <2>2, TakeEffect
  <1>2. CASE Reclaim(w)
    <2>1. PICK j \in Jobs : IdleEntry(j) /\ copies'[w] = Append(copies[w], j)
      BY <1>2, ReclaimEffect
    <2>2. cur'[w] = cur[w]
      BY <1>2, ReclaimEffect
    <2>3. CASE cur'[w] = k
      BY <2>2, <2>3 DEF Holds
    <2>4. CASE \E i \in 1 .. Len(copies'[w]) : copies'[w][i] = k
      <3>1. PICK i \in 1 .. Len(Append(copies[w], j)) : Append(copies[w], j)[i] = k
        BY <2>1, <2>4
      <3>2. (i \in 1 .. Len(copies[w]) /\ copies[w][i] = k) \/ k = j
        BY <1>0, <3>1
      <3> QED BY <2>1, <3>2 DEF Holds
    <2> QED BY <2>3, <2>4 DEF Holds
  <1>3. CASE copies'[w] = copies[w] /\ cur'[w] \in {cur[w], NoJob}
    BY <1>0, <1>3 DEF Holds
  <1>4. CASE copies'[w] = <<>> /\ cur'[w] = NoJob
    BY <1>0, <1>4 DEF Holds
  <1> QED BY <1>1, <1>2, <1>3, <1>4, ProcessSplit, InnerEffect, BumpEffect, FinalEffect,
             CrashEffect

LEMMA HeldInit == Init => HeldInv
  BY AsrJobAssumption DEF Init, HeldInv, Holds

LEMMA HeldService ==
    ASSUME TypeOK, HeldInv, NEW j \in Jobs, ServiceStep(j)
    PROVE  HeldInv'
  <1>1. /\ UNCHANGED <<copies, pc, cur>>
        /\ \A k \in Jobs \ {j} : /\ sub'[k] = sub[k] /\ entry'[k] = entry[k]
                                 /\ eras'[k] = eras[k] /\ job'[k] = job[k]
        /\ entry'[j] = entry[j] \/ Send(j) \/ SendRaises(j)
    BY ServiceFrame, ServiceRow
  <1>2. \A w \in Workers, k \in Jobs : Holds(w, k)' <=> Holds(w, k)
    BY <1>1 DEF Holds
  <1>3. /\ sub \in [Jobs -> {"new", "checked", "inserted", "unsent", "done"}]
        /\ eras \in [Jobs -> {"none", "planned", "emptied", "partial", "done"}]
        /\ entry \in [Jobs -> {"none", "new", "pending", "acked", "dead"}]
    BY DEF TypeOK
  <1>4. CASE InsertRow(j)
    <2>1. sub[j] = "checked" /\ sub'[j] = "inserted" /\ UNCHANGED <<entry, eras>>
      BY <1>3, <1>4 DEF InsertRow, SubmitStep, streamVars
    <2>2. job'[j].status = "queued"
      BY <1>4, StatusSet, TypeParts DEF InsertRow, SetStatus, Statuses, ACTIVE
    <2> QED BY <1>1, <1>2, <2>1, <2>2 DEF HeldInv
  <1>5. CASE Send(j) \/ SendRaises(j)
    <2>1. /\ sub[j] = "inserted" /\ sub'[j] \in {"unsent", "done"} /\ job' = job
          /\ entry'[j] \in {"none", "new"} /\ eras' = eras
      BY <1>3, <1>5 DEF Send, SendRaises, SubmitStep
    <2> QED BY <1>1, <1>2, <2>1 DEF HeldInv
  <1>6. CASE CheckCap(j) \/ SubmitRefused(j)
    <2>1. /\ sub[j] \in {"new", "checked"} /\ sub'[j] \in {"checked", "done"} /\ job' = job
          /\ entry' = entry /\ eras' = eras
      BY <1>3, <1>6 DEF CheckCap, SubmitRefused, SubmitStep, streamVars
    <2> QED BY <1>1, <1>2, <2>1 DEF HeldInv
  <1>7. ASSUME entry' = entry, sub'[j] \in {sub[j], "done"}, ~InsertRow(j)
        PROVE  HeldInv'
    <2>1. job[j].status # "absent" => job'[j].status # "absent"
      BY ServiceRow DEF ACTIVE
    <2>2. eras'[j] # "none" => job'[j].status # "absent"
      <3>1. eras'[j] # "none" => eras[j] # "none" \/ job[j].status \in SETTLED
        <4>1. eras' = eras \/ ErasePlan(j) \/ eras[j] # "none"
          BY DEF ServiceStep, CheckCap, InsertRow, Send, SendRaises, SubmitFails,
                 SubmitRefused, SubmitDies, Cancel, GoesStale, ReapScan, ReapFail,
                 EraseObjects, EraseFails, EraseRows, EraseStep
        <4> QED BY <4>1 DEF ErasePlan
      <3> QED BY <2>1, <3>1 DEF HeldInv, SETTLED
    <2>3. sub'[j] \in {"new", "checked"} => job'[j].status = "absent"
      <3>1. sub'[j] \in {"new", "checked"} => job[j].status = "absent" /\ eras[j] = "none"
        BY <1>7 DEF HeldInv
      <3>2. EraseRows(j) => eras[j] # "none"
        BY DEF EraseRows, EraseStep
      <3> QED BY <1>7, <3>1, <3>2, ServiceRow DEF ACTIVE
    <2>4. sub'[j] \in {"new", "checked", "inserted"} => entry'[j] = "none"
      BY <1>7 DEF HeldInv
    <2>5. sub'[j] \in {"inserted", "unsent"} \/ entry'[j] # "none" => job'[j].status # "absent"
      BY <1>7, <2>1 DEF HeldInv
    <2> QED BY <1>1, <1>2, <1>7, <2>2, <2>3, <2>4, <2>5 DEF HeldInv
  <1>8. CASE ~InsertRow(j) /\ ~Send(j) /\ ~SendRaises(j) /\ ~CheckCap(j) /\ ~SubmitRefused(j)
    <2>1. entry' = entry
      BY <1>8 DEF ServiceStep, SubmitFails, SubmitDies, Cancel, GoesStale, ReapScan, ReapFail,
                  ErasePlan, EraseObjects, EraseFails, EraseRows, streamVars
    <2>2. sub' = sub \/ sub' = [sub EXCEPT ![j] = "done"]
      BY <1>8 DEF ServiceStep, SubmitFails, SubmitDies, Cancel, GoesStale, ReapScan, ReapFail,
                  ErasePlan, EraseObjects, EraseFails, EraseRows, SubmitStep
    <2> QED BY <1>3, <1>7, <1>8, <2>1, <2>2
  <1> QED BY <1>4, <1>5, <1>6, <1>8

LEMMA HeldProcess ==
    ASSUME TypeOK, HeldInv, NEW w \in Workers, ProcessStep(w)
    PROVE  HeldInv'
  <1>1. UNCHANGED <<sub, eras>> /\ OthersStay(w)
    BY ProcessRest, ProcessWorkers
  <1> SUFFICES ASSUME NEW k \in Jobs
               PROVE  /\ sub'[k] \in {"new", "checked"} => job'[k].status = "absent"
                      /\ sub'[k] \in {"new", "checked", "inserted"} => entry'[k] = "none"
                      /\ sub'[k] \in {"inserted", "unsent"} \/ entry'[k] # "none"
                           \/ eras'[k] # "none" => job'[k].status # "absent"
                      /\ entry'[k] \in {"none", "new"} => \A v \in Workers : ~Holds(v, k)'
    BY Zenon DEF HeldInv
  <1>2. entry'[k] \in {"none", "new"} => entry'[k] = entry[k] /\ ~TakeNew(w, k)
    <2>1. CASE TakeNew(w, k)
      BY <2>1 DEF TakeNew, TypeOK
    <2> QED BY <2>1, ProcessStream
  <1>3. entry[k] = "none" => entry'[k] = "none" /\ cur[w] # k
    <2>1. entry[k] = "none" => cur[w] # k
      BY DEF HeldInv, Holds
    <2> QED BY <2>1, ProcessStream
  <1>4. job[k].status # "absent" => job'[k].status # "absent"
    BY ProcessRow DEF ACTIVE
  <1>5. cur[w] # k => job'[k] = job[k]
    BY ProcessRow
  <1>6. sub'[k] \in {"new", "checked"} => job'[k].status = "absent"
    BY <1>1, <1>3, <1>5 DEF HeldInv
  <1>7. sub'[k] \in {"new", "checked", "inserted"} => entry'[k] = "none"
    BY <1>1, <1>3 DEF HeldInv
  <1>8. sub'[k] \in {"inserted", "unsent"} \/ entry'[k] # "none" \/ eras'[k] # "none"
           => job'[k].status # "absent"
    BY <1>1, <1>3, <1>4 DEF HeldInv
  <1>9. ASSUME entry'[k] \in {"none", "new"}, NEW v \in Workers
        PROVE  ~Holds(v, k)'
    <2>1. entry[k] \in {"none", "new"} /\ ~Holds(v, k) /\ ~Holds(w, k)
      BY <1>2, <1>9 DEF HeldInv
    <2>2. CASE v = w
      <3>1. ~TakeNew(w, k) /\ ~IdleEntry(k)
        BY <1>2, <1>9, <2>1 DEF IdleEntry
      <3> QED BY <2>1, <2>2, <3>1, HoldsStep
    <2>3. CASE v # w
      BY <1>1, <2>1, <2>3 DEF OthersStay, Holds
    <2> QED BY <2>2, <2>3
  <1> QED BY <1>6, <1>7, <1>8, <1>9

LEMMA HeldStep ==
    ASSUME TypeOK, HeldInv, [Next]_vars
    PROVE  HeldInv'
  <1>1. CASE UNCHANGED vars
    BY <1>1 DEF vars, HeldInv, Holds
  <1> QED BY <1>1, NextSplit, HeldService, HeldProcess

\* A row that is not active never becomes active again.
LEMMA ActiveStep ==
    ASSUME TypeOK, [Next]_vars, NEW k \in Jobs, job'[k].status \in ACTIVE
    PROVE  job[k].status \in ACTIVE \/ InsertRow(k)
  <1>1. CASE UNCHANGED vars
    BY <1>1 DEF vars
  <1>2. ASSUME NEW j \in Jobs, ServiceStep(j)
        PROVE  job[k].status \in ACTIVE \/ InsertRow(k)
    BY <1>2, ServiceRow DEF ACTIVE
  <1>3. ASSUME NEW w \in Workers, ProcessStep(w)
        PROVE  job[k].status \in ACTIVE
    BY <1>3, ProcessRow DEF ACTIVE
  <1> QED BY <1>1, <1>2, <1>3, NextSplit

\* What the writes of an outcome leave behind.
LEMMA OutcomeRow ==
    ASSUME TypeOK, NEW j \in Jobs
    PROVE  /\ MarkFailed(j) => Skipped(job'[j].status)
           /\ MarkCancelled(j) => job'[j].status \notin ACTIVE
           /\ \A w \in Workers : SaveComplete(w) /\ cur[w] = j => Skipped(job'[j].status)
  <1>0. job \in [Jobs -> Row] /\ job[j] \in Row
    BY DEF TypeOK
  <1>1. MarkFailed(j) => Skipped(job'[j].status)
    BY <1>0, StatusSet DEF MarkFailed, Skipped, Statuses, SETTLED
  <1>2. MarkCancelled(j) => job'[j].status \notin ACTIVE
    BY <1>0, StatusSet DEF MarkCancelled, Statuses, SETTLED, ACTIVE
  <1>3. ASSUME NEW w \in Workers, SaveComplete(w), cur[w] = j
        PROVE  Skipped(job'[j].status)
    <2>1. job' = IF job[j].status # "erased" THEN [job EXCEPT ![j].status = "complete"] ELSE job
      BY <1>3 DEF SaveComplete
    <2> QED BY <1>0, <2>1, StatusSet DEF Skipped, Statuses, SETTLED
  <1> QED BY <1>1, <1>2, <1>3

LEMMA SkippedNotActive == \A s : Skipped(s) => s \notin ACTIVE
  BY DEF Skipped, SETTLED, ACTIVE

-----------------------------------------------------------------------------
(* Whatever fails: every job is accounted for.                             *)

\* A job without an entry is still being submitted; one whose entry is gone is
\* settled or about to be, by the worker that dead-lettered it.
AccountInv ==
    /\ \A j \in Jobs \ dropped : job[j].status \in ACTIVE =>
          /\ entry[j] = "none" => sub[j] \in {"inserted", "unsent"}
          /\ entry[j] \in {"acked", "dead"} =>
                \E w \in Workers : cur[w] = j /\ pc[w] = "exhausted"
    /\ \A w \in Workers : pc[w] \in Written \cup {"ack"} =>
          job[cur[w]].status \notin ACTIVE \/ cur[w] \in dropped

LEMMA AccountInit == Init => AccountInv
  BY DEF Init, AccountInv, ACTIVE, Written

LEMMA AccountService ==
    ASSUME TypeOK, HeldInv, AccountInv, [Next]_vars, NEW j \in Jobs, ServiceStep(j)
    PROVE  AccountInv'
  <1>0. WorkerType /\ sub \in [Jobs -> {"new", "checked", "inserted", "unsent", "done"}]
        /\ entry \in [Jobs -> {"none", "new", "pending", "acked", "dead"}]
    BY TypeParts DEF HandlerType, StreamType
  <1>1. /\ UNCHANGED <<pc, cur>>
        /\ \A k \in Jobs \ {j} : sub'[k] = sub[k] /\ entry'[k] = entry[k] /\ job'[k] = job[k]
        /\ entry'[j] = entry[j] \/ Send(j) \/ SendRaises(j)
        /\ dropped \subseteq dropped'
        /\ SubmitDies(j) => j \in dropped'
    BY ServiceFrame, ServiceRow DEF SubmitDies
  <1>2. ASSUME NEW w \in Workers, pc[w] \in Written \cup {"ack"}
        PROVE  job'[cur[w]].status \notin ACTIVE \/ cur[w] \in dropped'
    <2>1. cur[w] \in Jobs /\ Holds(w, cur[w])
      BY <1>0, <1>2 DEF WorkerType, Written, Holds
    <2>2. sub[cur[w]] # "checked"
      BY <2>1 DEF HeldInv
    <2>3. ~InsertRow(cur[w])
      BY <2>2 DEF InsertRow, SubmitStep
    <2> QED BY <1>1, <1>2, <2>1, <2>3, ActiveStep DEF AccountInv
  <1>3. ASSUME j \notin dropped', job'[j].status \in ACTIVE, entry'[j] = "none"
        PROVE  sub'[j] \in {"inserted", "unsent"}
    <2>1. CASE InsertRow(j) \/ SendRaises(j)
      BY <1>0, <2>1 DEF InsertRow, SendRaises, SubmitStep
    <2>2. CASE ~InsertRow(j) /\ ~SendRaises(j)
      <3>1. job[j].status \in ACTIVE /\ ~Send(j)
        BY <1>0, <1>3, <2>2, ActiveStep DEF Send
      <3>2. entry[j] = "none" /\ sub[j] \in {"inserted", "unsent"}
        BY <1>1, <1>3, <2>2, <3>1 DEF AccountInv
      <3>3. ~SubmitFails(j)
        <4>1. SubmitFails(j) => job'[j].status = "failed"
          BY <3>1, StatusSet, TypeParts DEF SubmitFails, FailJob, Statuses, SETTLED
        <4> QED BY <1>3, <4>1 DEF ACTIVE
      <3>4. ~SubmitDies(j)
        BY <1>1, <1>3
      <3>5. sub' = sub
        BY <2>2, <3>1, <3>2, <3>3, <3>4
           DEF ServiceStep, CheckCap, SubmitRefused, SubmitStep, Cancel, GoesStale, ReapScan,
               ReapFail, ErasePlan, EraseObjects, EraseFails, EraseRows
      <3> QED BY <3>2, <3>5
    <2> QED BY <2>1, <2>2
  <1>4. ASSUME j \notin dropped', job'[j].status \in ACTIVE, entry'[j] \in {"acked", "dead"}
        PROVE  \E w \in Workers : cur'[w] = j /\ pc'[w] = "exhausted"
    <2>1. ~Send(j) /\ ~SendRaises(j)
      BY <1>0, <1>4 DEF Send, SendRaises
    <2>2. entry[j] \in {"acked", "dead"}
      BY <1>1, <1>4, <2>1
    <2>3. ~InsertRow(j)
      BY <2>2 DEF HeldInv, InsertRow, SubmitStep
    <2>4. job[j].status \in ACTIVE
      BY <1>4, <2>3, ActiveStep
    <2> QED BY <1>1, <1>4, <2>2, <2>4 DEF AccountInv
  <1> QED BY <1>1, <1>2, <1>3, <1>4 DEF AccountInv

LEMMA AccountProcess ==
    ASSUME TypeOK, HeldInv, AccountInv, [Next]_vars,
           NEW w \in Workers, ProcessStep(w)
    PROVE  AccountInv'
  <1>0. /\ WorkerType /\ WorkerType' /\ OthersStay(w) /\ sub' = sub
        /\ dropped \subseteq dropped'
    BY TypeParts, ProcessWorkers, ProcessRest
  <1>1. \A k \in Jobs : job'[k].status \in ACTIVE => job[k].status \in ACTIVE
    BY ProcessRow DEF ACTIVE
  <1>2. /\ pc[w] = "exhausted" /\ (Crash(w) \/ ExhaustedLost(w)) => cur[w] \in dropped'
        /\ BadPayload(w) => cur[w] \in dropped'
    BY DEF Crash, ExhaustedLost, BadPayload
  <1>3. ASSUME NEW k \in Jobs \ dropped', job'[k].status \in ACTIVE, entry'[k] = "none"
        PROVE  sub'[k] \in {"inserted", "unsent"}
    BY <1>0, <1>1, <1>3, ProcessStream DEF AccountInv
  <1>4. ASSUME NEW k \in Jobs \ dropped', job'[k].status \in ACTIVE,
               entry'[k] \in {"acked", "dead"}
        PROVE  \E v \in Workers : cur'[v] = k /\ pc'[v] = "exhausted"
    <2>0. job[k].status \in ACTIVE /\ k \notin dropped
      BY <1>0, <1>1, <1>4
    <2>1. CASE entry'[k] = entry[k]
      <3>1. PICK v \in Workers : cur[v] = k /\ pc[v] = "exhausted"
        BY <1>4, <2>0, <2>1 DEF AccountInv
      <3>2. CASE v # w
        BY <1>0, <3>1, <3>2 DEF OthersStay
      <3>3. CASE v = w
        <4>1. CASE Exhausted(w)
          <5>1. MarkFailed(k)
            BY <3>1, <3>3, <4>1 DEF Exhausted
          <5> QED BY <1>4, <5>1, OutcomeRow, SkippedNotActive
        <4>2. CASE Reclaim(w)
          BY <3>1, <3>3, <4>2, ReclaimEffect
        <4>3. ~Take(w) /\ ~InnerStep(w) /\ ~Bump(w) /\ ~Ack(w) /\ ~Restart(w)
          BY <3>1, <3>3
             DEF Take, InnerStep, Bump, Ack, Restart, Step, DeadLetter, ReadRow, MarkRunning,
                 CancelSeen, Transcribed, Die, RetryableError, PutResult, SaveComplete, Audit,
                 BadPayload, EdgeFails, AuditFails, Written
        <4>4. ~Crash(w) /\ ~ExhaustedLost(w)
          BY <1>2, <1>4, <3>1, <3>3
        <4> QED BY <4>1, <4>2, <4>3, <4>4, ProcessSplit
      <3> QED BY <3>2, <3>3
    <2>2. CASE k = cur[w] /\ pc[w] = "ack"
      BY <2>0, <2>2 DEF AccountInv
    <2>3. CASE k = cur[w] /\ DeadLetter(w)
      <3>1. pc'[w] = "exhausted" /\ cur'[w] = cur[w]
        BY <1>0, <2>3 DEF DeadLetter, Step, WorkerType
      <3> QED BY <2>3, <3>1
    <2>4. entry'[k] # "pending"
      BY <1>4
    <2> QED BY <2>1, <2>2, <2>3, <2>4, ProcessStream
  <1>5. ASSUME NEW v \in Workers, pc'[v] \in Written \cup {"ack"}
        PROVE  job'[cur'[v]].status \notin ACTIVE \/ cur'[v] \in dropped'
    <2>1. CASE pc[v] \in Written \cup {"ack"} /\ cur'[v] = cur[v]
      <3>1. cur[v] \in Jobs
        BY <1>0, <2>1 DEF WorkerType, Written
      <3> QED BY <1>0, <1>1, <2>1, <3>1 DEF AccountInv
    <2>2. CASE v = w /\ InnerStep(w)
      <3>1. cur'[w] = cur[w] /\ cur[w] \in Jobs
        BY <2>2, InnerEffect
      <3>2. CASE pc'[w] = "wrote_complete"
        BY <2>2, <3>1, <3>2, InnerPath, OutcomeRow, SkippedNotActive
      <3>3. CASE pc'[w] = "wrote_failed"
        <4>1. MarkFailed(cur[w])
          BY <2>2, <3>3, InnerPath DEF Die
        <4> QED BY <2>2, <3>1, <4>1, OutcomeRow, SkippedNotActive
      <3>4. CASE pc'[w] = "wrote_cancelled"
        BY <2>2, <3>1, <3>4, InnerPath, OutcomeRow
      <3>5. CASE pc'[w] = "ack"
        <4>1. \/ pc[w] \in Written /\ job' = job
              \/ job' = job /\ (cur[w] \in dropped' \/ Skipped(job[cur[w]].status))
          BY <2>2, <3>5, InnerPath
        <4> QED BY <1>0, <2>2, <3>1, <4>1, SkippedNotActive DEF AccountInv
      <3> QED BY <1>5, <2>2, <3>2, <3>3, <3>4, <3>5 DEF Written
    <2>3. CASE v = w /\ ~InnerStep(w)
      <3>1. ~Take(w) /\ ~Bump(w) /\ cur'[w] # NoJob
        <4>1. ~Take(w) /\ ~Bump(w)
          BY <1>5, <2>3, TakeEffect, BumpEffect DEF Written
        <4> QED BY <1>0, <1>5, <2>3, <4>1 DEF WorkerType, Written
      <3>2. cur'[w] = cur[w] /\ pc' = pc
        BY <2>3, <3>1, ProcessWorkers
      <3> QED BY <1>5, <2>1, <2>3, <3>2
    <2> QED BY <1>0, <1>5, <2>1, <2>2, <2>3 DEF OthersStay
  <1> QED BY <1>3, <1>4, <1>5 DEF AccountInv

LEMMA AccountStep ==
    ASSUME TypeOK, HeldInv, AccountInv, [Next]_vars
    PROVE  AccountInv'
  <1>1. CASE UNCHANGED vars
    BY <1>1 DEF vars, AccountInv
  <1> QED BY <1>1, NextSplit, AccountService, AccountProcess

\* A job nobody processes and whose submission is over is settled or still in
\* the stream, unless the request died before it sent, the payload could not be
\* read or the last write of a dead-lettered message was lost: whatever other
\* failures happen, and however long a job is worked at.
THEOREM JobsAccountedFor == Spec => []Accounted
  <1>1. TypeOK /\ AccountInv => Accounted
    <2> SUFFICES ASSUME TypeOK, AccountInv, NEW j \in Jobs, j \notin dropped,
                        job[j].status \in ACTIVE, sub[j] = "done", ~Processed(j)
                 PROVE  entry[j] \in {"new", "pending"}
      BY DEF Accounted
    <2>1. entry[j] \in {"none", "new", "pending", "acked", "dead"}
      BY DEF TypeOK
    <2> QED BY <2>1 DEF AccountInv, Processed
  <1>2. Init => TypeOK /\ HeldInv /\ AccountInv
    BY TypeInit, HeldInit, AccountInit
  <1>3. TypeOK /\ HeldInv /\ AccountInv /\ [Next]_vars
          => TypeOK' /\ HeldInv' /\ AccountInv'
    BY TypeStep, HeldStep, AccountStep
  <1> QED BY <1>1, <1>2, <1>3, PTL DEF Spec

-----------------------------------------------------------------------------
(* A job that is not disputed: one worker goes on with it, one outcome, one *)
(* notification.                                                           *)

\* What a history variable has, it keeps.
LEMMA DisputedStays ==
    ASSUME TypeOK, [Next]_vars
    PROVE  disputed \subseteq disputed'
  BY NextSplit, ServiceFrame, ProcessRest DEF vars

\* At most one worker is past the first statement of a delivery of the job.
OneEngaged ==
    \A j \in Jobs \ disputed : \A v, w \in Workers :
        Engaged(v) /\ Engaged(w) /\ cur[v] = j /\ cur[w] = j => v = w

LEMMA OneEngagedInit == Init => OneEngaged
  BY DEF Init, OneEngaged, Engaged

\* Who gets past the first statement was past it, or finds the job unsettled
\* and nobody else at it, or disputes it.
LEMMA EngagedPath ==
    ASSUME TypeOK, NEW w \in Workers, ProcessStep(w), Engaged(w)'
    PROVE  /\ cur'[w] = cur[w] /\ cur[w] \in Jobs
           /\ \/ Engaged(w)
              \/ cur[w] \in disputed'
              \/ /\ ~Skipped(job[cur[w]].status)
                 /\ \A v \in Workers \ {w} : ~(Engaged(v) /\ cur[v] = cur[w])
  <1>0. WorkerType
    BY TypeParts
  <1>1. CASE InnerStep(w)
    <2>1. cur' = cur /\ cur[w] \in Jobs
      BY <1>1, InnerEffect
    <2>2. Disputes(w) =>
             \/ cur[w] \in disputed'
             \/ /\ ~Skipped(job[cur[w]].status)
                /\ \A v \in Workers \ {w} : ~(Engaged(v) /\ cur[v] = cur[w])
      BY DEF Disputes
    <2>3. CASE ReadRow(w)
      <3>1. pc'[w] = "ack" \/ Disputes(w)
        BY <1>0, <2>3 DEF ReadRow, Step, WorkerType
      <3> QED BY <2>1, <2>2, <3>1 DEF Engaged
    <2>4. CASE EdgeFails(w)
      BY <2>1, <2>2, <2>4 DEF EdgeFails
    <2>5. CASE BadPayload(w)
      <3>1. pc'[w] = "ack"
        BY <1>0, <2>5 DEF BadPayload, Step, WorkerType
      <3> QED BY <3>1 DEF Engaged
    <2>6. CASE ~ReadRow(w) /\ ~EdgeFails(w) /\ ~BadPayload(w)
      <3>1. Engaged(w)
        BY <1>1, <2>6
           DEF InnerStep, DeadLetter, MarkRunning, CancelSeen, Transcribed, Die, RetryableError,
               PutResult, SaveComplete, Audit, AuditFails, Step, Written, Engaged
      <3> QED BY <2>1, <3>1
    <2> QED BY <2>3, <2>4, <2>5, <2>6
  <1>2. CASE Bump(w)
    BY <1>2, BumpEffect DEF Engaged
  <1>3. CASE Reclaim(w)
    <2>1. pc' = pc /\ cur' = cur
      BY <1>3, ReclaimEffect
    <2> QED BY <1>0, <2>1 DEF Engaged, WorkerType
  <1> QED BY <1>1, <1>2, <1>3, ProcessSplit, TakeEffect, FinalEffect, CrashEffect DEF Engaged

LEMMA OneEngagedStep ==
    ASSUME TypeOK, OneEngaged, [Next]_vars
    PROVE  OneEngaged'
  <1>1. disputed \subseteq disputed'
    BY DisputedStays
  <1>2. CASE UNCHANGED <<pc, cur>>
    BY <1>1, <1>2 DEF OneEngaged, Engaged
  <1>3. ASSUME NEW w \in Workers, ProcessStep(w)
        PROVE  OneEngaged'
    <2>1. \A v \in Workers \ {w} : (Engaged(v)' <=> Engaged(v)) /\ cur'[v] = cur[v]
      BY <1>3, ProcessWorkers DEF OthersStay, Engaged
    <2>2. ASSUME NEW k \in Jobs \ disputed', NEW v \in Workers \ {w},
                 Engaged(w)', Engaged(v)', cur'[w] = k, cur'[v] = k
          PROVE  FALSE
      <3>1. cur[v] = k /\ Engaged(v) /\ cur[w] = k /\ k \notin disputed
        BY <1>1, <1>3, <2>1, <2>2, EngagedPath
      <3>2. Engaged(w)
        BY <1>3, <2>2, <3>1, EngagedPath
      <3> QED BY <3>1, <3>2 DEF OneEngaged
    <2> QED BY <1>1, <2>1, <2>2 DEF OneEngaged
  <1> QED BY <1>2, <1>3, NextSplit, ServiceFrame DEF vars

\* A settled row stays settled.
LEMMA SkippedStays ==
    ASSUME TypeOK, HeldInv, [Next]_vars, NEW k \in Jobs, Skipped(job[k].status)
    PROVE  Skipped(job'[k].status)
  <1>1. CASE UNCHANGED vars
    BY <1>1 DEF vars
  <1>2. ASSUME NEW j \in Jobs, ServiceStep(j)
        PROVE  Skipped(job'[k].status)
    <2>1. ~InsertRow(k)
      BY DEF HeldInv, InsertRow, SubmitStep, Skipped, SETTLED
    <2> QED BY <1>2, <2>1, ServiceRow DEF Skipped, SETTLED
  <1>3. ASSUME NEW w \in Workers, ProcessStep(w)
        PROVE  Skipped(job'[k].status)
    BY <1>3, ProcessRow DEF Skipped, SETTLED, ACTIVE
  <1> QED BY <1>1, <1>2, <1>3, NextSplit

\* A worker that has a complete job in hand has just completed it or will skip
\* it; so will one that has a job whose outcome was announced.
OutcomeInv ==
    /\ \A w \in Workers : pc[w] \in {"wrote_complete", "wrote_failed"} => Skipped(job[cur[w]].status)
    /\ \A j \in Jobs \ disputed :
          /\ job[j].status = "complete" =>
                \A w \in Workers : cur[w] = j => pc[w] \in {"read", "ack", "wrote_complete"}
          /\ told[j] # 0 => /\ Skipped(job[j].status)
                            /\ \A w \in Workers : cur[w] = j => pc[w] \in {"read", "ack"}
          /\ told[j] <= 1

LEMMA OutcomeInit == Init => OutcomeInv
  BY DEF Init, OutcomeInv

\* How a worker goes on with a job that is settled and not disputed: it skips it
\* or, if it settled it itself, announces it.
LEMMA SettledPath ==
    ASSUME TypeOK, NEW w \in Workers, ProcessStep(w), cur'[w] # NoJob,
           cur'[w] \notin disputed', Skipped(job[cur'[w]].status)
    PROVE  \/ pc'[w] = "read"
           \/ pc'[w] = pc[w] /\ cur'[w] = cur[w]
           \/ /\ cur'[w] = cur[w]
              /\ pc[w] \in {"read", "wrote_complete", "wrote_failed"} => pc'[w] = "ack"
              /\ pc[w] # "ack"
  <1>0. WorkerType
    BY TypeParts
  <1>1. CASE Take(w)
    BY <1>1, TakeEffect
  <1>2. CASE Reclaim(w)
    BY <1>2, ReclaimEffect
  <1>3. CASE InnerStep(w)
    <2>0. cur' = cur /\ Skipped(job[cur[w]].status) /\ cur[w] \notin disputed'
      BY <1>3, InnerEffect
    <2>1. ~EdgeFails(w) /\ ~AuditFails(w)
      BY <2>0 DEF EdgeFails, AuditFails, Disputes
    <2>2. pc[w] # "ack"
      BY <1>3, <2>1 DEF InnerStep, DeadLetter, ReadRow, MarkRunning, CancelSeen, Transcribed, Die,
             RetryableError, PutResult, SaveComplete, Audit, BadPayload, Step, Written
    <2>3. pc[w] \in {"wrote_complete", "wrote_failed"} => pc'[w] = "ack"
      <3>1. CASE Audit(w)
        BY <1>0, <3>1 DEF Audit, Step, WorkerType
      <3> QED BY <1>3, <2>1, <3>1
              DEF InnerStep, DeadLetter, ReadRow, MarkRunning, CancelSeen, Transcribed, Die,
                  RetryableError, PutResult, SaveComplete, BadPayload, Step
    <2>4. pc[w] = "read" => pc'[w] = "ack"
      <3>1. CASE ReadRow(w) \/ BadPayload(w)
        BY <1>0, <2>0, <3>1 DEF ReadRow, BadPayload, Step, WorkerType
      <3> QED BY <1>3, <2>1, <3>1
              DEF InnerStep, DeadLetter, MarkRunning, CancelSeen, Transcribed, Die,
                  RetryableError, PutResult, SaveComplete, Audit, Step, Written
    <2> QED BY <2>0, <2>2, <2>3, <2>4
  <1>4. CASE Bump(w)
    BY <1>4, BumpEffect
  <1> QED BY <1>1, <1>2, <1>3, <1>4, ProcessSplit, FinalEffect, CrashEffect

LEMMA OutcomeProcess ==
    ASSUME TypeOK, HeldInv, OneEngaged, OutcomeInv, [Next]_vars,
           NEW w \in Workers, ProcessStep(w)
    PROVE  OutcomeInv'
  <1>0. /\ WorkerType /\ WorkerType' /\ OthersStay(w) /\ NoJob \notin Jobs
        /\ told \in [Jobs -> 0 .. 2]
    BY TypeParts, ProcessWorkers, AsrJobAssumption DEF RestType
  <1>d. disputed \subseteq disputed'
    BY DisputedStays
  <1>1. ASSUME NEW v \in Workers \ {w}, NEW k \in Jobs \ disputed, cur[w] = k, Engaged(w),
               cur'[v] = k
        PROVE  pc'[v] \in {"read", "ack"}
    <2>1. cur[v] = k /\ pc'[v] = pc[v]
      BY <1>0, <1>1 DEF OthersStay
    <2>2. ~Engaged(v)
      BY <1>1, <2>1 DEF OneEngaged
    <2> QED BY <1>0, <2>1, <2>2 DEF Engaged, WorkerType
  <1>2. ASSUME NEW v \in Workers, pc'[v] \in {"wrote_complete", "wrote_failed"}
        PROVE  Skipped(job'[cur'[v]].status)
    <2>1. CASE pc[v] = pc'[v] /\ cur'[v] = cur[v]
      <3>1. cur[v] \in Jobs
        BY <1>0, <1>2, <2>1 DEF WorkerType
      <3> QED BY <1>2, <2>1, <3>1, SkippedStays DEF OutcomeInv
    <2>2. CASE v = w /\ InnerStep(w)
      <3>1. cur' = cur /\ cur[w] \in Jobs
        BY <2>2, InnerEffect
      <3>2. (Die(w) /\ MarkFailed(cur[w])) \/ SaveComplete(w)
        BY <1>2, <2>2, InnerPath DEF Die
      <3> QED BY <2>2, <3>1, <3>2, OutcomeRow
    <2>3. CASE v = w /\ ~InnerStep(w)
      <3>1. cur'[w] # NoJob
        BY <1>0, <1>2, <2>3 DEF WorkerType
      <3>2. ~Take(w) /\ ~Bump(w)
        BY <1>2, <2>3, TakeEffect, BumpEffect
      <3> QED BY <2>1, <2>3, <3>1, <3>2, ProcessWorkers
    <2> QED BY <1>0, <1>2, <2>1, <2>2, <2>3 DEF OthersStay
  <1>3. ASSUME NEW k \in Jobs \ disputed', job'[k].status = "complete", NEW v \in Workers, cur'[v] = k
        PROVE  pc'[v] \in {"read", "ack", "wrote_complete"}
    <2>1. CASE job[k].status = "complete"
      <3>1. CASE v # w
        BY <1>0, <1>d, <1>3, <2>1, <3>1 DEF OthersStay, OutcomeInv
      <3>2. CASE v = w
        <4>1. cur[w] = k => pc[w] \in {"read", "ack", "wrote_complete"}
          BY <1>d, <1>3, <2>1 DEF OutcomeInv
        <4>2. Skipped(job[k].status)
          BY <2>1 DEF Skipped, SETTLED
        <4> QED BY <1>0, <1>3, <3>2, <4>1, <4>2, SettledPath
      <3> QED BY <3>1, <3>2
    <2>2. CASE job[k].status # "complete"
      <3>1. SaveComplete(w) /\ cur[w] = k
        BY <1>3, <2>2, ProcessRow
      <3>2. pc'[w] = "wrote_complete" /\ cur' = cur
        BY <1>0, <3>1 DEF SaveComplete, Step, WorkerType
      <3>3. Engaged(w)
        BY <3>1 DEF SaveComplete, Step, Engaged
      <3> QED BY <1>1, <1>d, <1>3, <3>1, <3>2, <3>3
    <2> QED BY <2>1, <2>2
  <1>4. ASSUME NEW k \in Jobs \ disputed', told'[k] # told[k]
        PROVE  /\ told[k] = 0 /\ told'[k] = 1 /\ Skipped(job'[k].status)
               /\ \A v \in Workers : cur'[v] = k => pc'[v] \in {"read", "ack"}
    <2>1. CASE k = cur[w] /\ Exhausted(w)
      <3>1. MarkFailed(k) /\ Announce(k) /\ pc[w] = "exhausted"
        BY <2>1 DEF Exhausted
      <3>2. told[k] = 0
        BY <1>d, <2>1, <3>1 DEF OutcomeInv
      <3>3. told'[k] = 1
        BY <1>0, <3>1, <3>2 DEF Announce
      <3>4. cur'[w] = NoJob
        BY <2>1, FinalEffect
      <3>5. \A v \in Workers : cur'[v] = k => pc'[v] \in {"read", "ack"}
        BY <1>0, <1>1, <1>d, <2>1, <3>1, <3>4 DEF Engaged
      <3> QED BY <3>1, <3>2, <3>3, <3>5, OutcomeRow
    <2>2. CASE k = cur[w] /\ Audit(w) /\ pc[w] \in {"wrote_complete", "wrote_failed"}
      <3>1. Announce(k) /\ pc'[w] = "ack" /\ cur' = cur
        BY <1>0, <2>2 DEF Audit, Step, WorkerType
      <3>2. told[k] = 0
        BY <1>d, <2>2 DEF OutcomeInv
      <3>3. told'[k] = 1
        BY <1>0, <3>1, <3>2 DEF Announce
      <3>4. Skipped(job'[k].status)
        BY <2>2, SkippedStays DEF OutcomeInv
      <3>5. Engaged(w)
        BY <2>2 DEF Engaged
      <3> QED BY <1>1, <1>d, <2>2, <3>1, <3>2, <3>3, <3>4, <3>5
    <2> QED BY <1>4, <2>1, <2>2, ProcessRest
  <1>5. ASSUME NEW k \in Jobs \ disputed', told'[k] = told[k], told[k] # 0
        PROVE  /\ Skipped(job'[k].status)
               /\ \A v \in Workers : cur'[v] = k => pc'[v] \in {"read", "ack"}
    <2>1. Skipped(job[k].status) /\ \A v \in Workers : cur[v] = k => pc[v] \in {"read", "ack"}
      BY <1>d, <1>5 DEF OutcomeInv
    <2>2. ASSUME NEW v \in Workers, cur'[v] = k
          PROVE  pc'[v] \in {"read", "ack"}
      <3>1. CASE v # w
        BY <1>0, <2>1, <2>2, <3>1 DEF OthersStay
      <3>2. CASE v = w
        BY <1>0, <2>1, <2>2, <3>2, SettledPath
      <3> QED BY <3>1, <3>2
    <2> QED BY <2>1, <2>2, SkippedStays
  <1>6. ASSUME NEW k \in Jobs \ disputed' PROVE told'[k] <= 1
    BY <1>0, <1>d, <1>4 DEF OutcomeInv
  <1> QED BY <1>2, <1>3, <1>4, <1>5, <1>6 DEF OutcomeInv

LEMMA OutcomeStep ==
    ASSUME TypeOK, HeldInv, OneEngaged, OutcomeInv, [Next]_vars
    PROVE  OutcomeInv'
  <1>1. CASE UNCHANGED vars
    BY <1>1 DEF vars, OutcomeInv
  <1>2. ASSUME NEW j \in Jobs, ServiceStep(j)
        PROVE  OutcomeInv'
    <2>1. UNCHANGED <<pc, cur, told, disputed>>
      BY <1>2, ServiceFrame
    <2>2. \A k \in Jobs : job'[k].status = "complete" => job[k].status = "complete"
      BY <1>2, ServiceRow
    <2>3. \A k \in Jobs : Skipped(job[k].status) => Skipped(job'[k].status)
      BY SkippedStays
    <2>4. \A w \in Workers : pc[w] \in {"wrote_complete", "wrote_failed"} => cur[w] \in Jobs
      BY TypeParts DEF WorkerType
    <2> QED BY <2>1, <2>2, <2>3, <2>4 DEF OutcomeInv
  <1> QED BY <1>1, <1>2, NextSplit, OutcomeProcess

\* What the two theorems below rest on.
OnceInv == TypeOK /\ HeldInv /\ OneEngaged /\ OutcomeInv

LEMMA OnceHolds == Spec => []OnceInv
  <1>1. Init => OnceInv
    BY TypeInit, HeldInit, OneEngagedInit, OutcomeInit DEF OnceInv
  <1>2. OnceInv /\ [Next]_vars => OnceInv'
    BY TypeStep, HeldStep, OneEngagedStep, OutcomeStep DEF OnceInv
  <1> QED BY <1>1, <1>2, PTL DEF Spec

\* The submitter is told one outcome, once, unless a second delivery was begun
\* while the first was worked at or one failed after the row was settled:
\* whatever crashes, answers and writes are lost, and however long jobs take.
THEOREM SubmitterToldOnce == Spec => []AnnouncedOnce
  <1>1. OnceInv => AnnouncedOnce
    <2> SUFFICES ASSUME OnceInv, NEW j \in Jobs, j \notin disputed PROVE ~(told[j] > 1)
      BY DEF AnnouncedOnce
    <2>1. told[j] <= 1 /\ told[j] \in 0 .. 2
      BY DEF OnceInv, OutcomeInv, TypeOK
    <2> QED BY <2>1
  <1> QED BY <1>1, OnceHolds, PTL

\* With the same two exceptions a stored transcript is final: no redelivery,
\* retry or reaper takes a complete row back, and only an erasure removes it.
THEOREM TranscriptIsFinal == Spec => CompleteIsFinal
  <1>1. OnceInv /\ [Next]_vars =>
          \A j \in Jobs \ disputed :
              job[j].status = "complete" => job'[j].status \in {"complete", "erased"}
    <2> SUFFICES ASSUME OnceInv, [Next]_vars, NEW j \in Jobs \ disputed, job[j].status = "complete"
                 PROVE  job'[j].status \in {"complete", "erased"}
      OBVIOUS
    <2>0. TypeOK /\ HeldInv /\ OutcomeInv
      BY DEF OnceInv
    <2>1. CASE UNCHANGED vars
      BY <2>1 DEF vars
    <2>2. ASSUME NEW i \in Jobs, ServiceStep(i)
          PROVE  job'[j].status \in {"complete", "erased"}
      <3>1. ~InsertRow(j)
        BY <2>0 DEF HeldInv, InsertRow, SubmitStep
      <3> QED BY <2>0, <2>2, <3>1, ServiceRow DEF ACTIVE
    <2>3. ASSUME NEW w \in Workers, ProcessStep(w)
          PROVE  job'[j].status \in {"complete", "erased"}
      <3>1. cur[w] = j => ~Die(w) /\ ~Exhausted(w) /\ ~ExhaustedLost(w)
        BY <2>0 DEF OutcomeInv, Die, Exhausted, ExhaustedLost, Step
      <3> QED BY <2>0, <2>3, <3>1, ProcessRow DEF ACTIVE
    <2> QED BY <2>1, <2>2, <2>3, NextSplit
  <1>2. OnceInv /\ [Next]_vars =>
          [\A j \in Jobs \ disputed : job[j].status = "complete"
                              => job'[j].status \in {"complete", "erased"}]_vars
    BY <1>1
  <1> QED BY <1>2, OnceHolds, PTL DEF Spec, CompleteIsFinal

=============================================================================
