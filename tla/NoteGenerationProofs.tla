------------------------- MODULE NoteGenerationProofs -------------------------
(***************************************************************************)
(* Theorems about NoteGeneration, for every number of clients, workers and *)
(* generations and every choice of the bounds and of the failures.         *)
(***************************************************************************)
EXTENDS NoteGeneration, FiniteSetTheorems, TLAPS

-----------------------------------------------------------------------------
(* What the steps of the queue's contract do to a worker's run.            *)

RunType == [job : Jobs, phase : {"run", "on_dead"}]

LEMMA RunTypes ==
    ASSUME ContractTypeOK, NEW w \in Workers
    PROVE  /\ run[w] = Idle \/ run[w] \in RunType
           /\ run[w] \in RunType => run[w] # Idle /\ run[w].job \in Jobs
  BY DEF ContractTypeOK, RunType, Idle

LEMMA SubmitType ==
    ASSUME ContractTypeOK, NEW g \in Jobs, Submit(g)
    PROVE  ContractTypeOK' /\ UNCHANGED <<run, told>>
  BY DEF ContractTypeOK, Submit

LEMMA BeginType ==
    ASSUME ContractTypeOK, NEW w \in Workers, NEW g \in Jobs, Begin(w, g)
    PROVE  /\ ContractTypeOK' /\ run'[w] # Idle /\ run'[w].job = g
           /\ run[w] = Idle /\ job' = job /\ told' = told /\ job[g] # "absent"
           /\ \A v \in Workers \ {w} : run'[v] = run[v]
  <1>1. run' = [run EXCEPT ![w] = [job |-> g, phase |-> "run"]]
        /\ UNCHANGED <<job, told>> /\ run[w] = Idle /\ job[g] # "absent"
    BY DEF Begin
  <1>2. run'[w] = [job |-> g, phase |-> "run"]
        /\ \A v \in Workers \ {w} : run'[v] = run[v]
    BY <1>1 DEF ContractTypeOK
  <1>3. ContractTypeOK'
    BY <1>1 DEF ContractTypeOK
  <1>4. run'[w] # Idle /\ run'[w].job = g
    BY <1>2 DEF Idle
  <1> QED BY <1>1, <1>2, <1>3, <1>4

\* The steps that end a run: the job may be settled by it.
LEMMA EndType ==
    ASSUME ContractTypeOK, NEW w \in Workers, run[w] # Idle,
           End(w, "complete") \/ Release(w) \/ Tell(w) \/ Die(w)
    PROVE  /\ ContractTypeOK' /\ run'[w] = Idle
           /\ \A v \in Workers \ {w} : run'[v] = run[v]
           /\ \A g \in Jobs : \/ job'[g] = job[g]
                              \/ /\ job[g] = "open" /\ job'[g] = "complete"
                                 /\ g = run[w].job /\ End(w, "complete")
           /\ \A g \in Jobs : \/ told'[g] = told[g]
                              \/ g = run[w].job /\ Tell(w)
  <1>1. run' = [run EXCEPT ![w] = Idle]
    BY DEF End, Release, Tell, Die
  <1>2. run'[w] = Idle /\ \A v \in Workers \ {w} : run'[v] = run[v]
    BY <1>1 DEF ContractTypeOK
  <1>3. run[w].job \in Jobs
    BY RunTypes
  <1>4. CASE End(w, "complete")
    <2>1. told' = told /\ Settle(run[w].job, "complete")
      BY <1>4 DEF End
    <2> QED BY <1>1, <1>2, <1>3, <1>4, <2>1 DEF ContractTypeOK, Settle, Settled
  <1>5. CASE Release(w) \/ Die(w)
    BY <1>1, <1>2, <1>5 DEF Release, Die, ContractTypeOK
  <1>6. CASE Tell(w)
    BY <1>1, <1>2, <1>3, <1>6 DEF Tell, ContractTypeOK
  <1> QED BY <1>4, <1>5, <1>6

LEMMA GiveUpType ==
    ASSUME ContractTypeOK, NEW w \in Workers, GiveUp(w)
    PROVE  /\ ContractTypeOK' /\ run'[w] # Idle /\ run[w] # Idle
           /\ run'[w].job = run[w].job /\ told' = told
           /\ \A v \in Workers \ {w} : run'[v] = run[v]
           /\ \A g \in Jobs : \/ job'[g] = job[g]
                              \/ job[g] = "open" /\ job'[g] \in {"failed", "dead"}
  <1>1. run' = [run EXCEPT ![w].phase = "on_dead"] /\ told' = told
    BY DEF GiveUp
  <1>2. run[w].phase = "run"
    BY DEF GiveUp, Running
  <1>3. run[w] # Idle
    BY <1>2 DEF Idle
  <1>4. run[w] \in RunType /\ run[w].job \in Jobs
    BY <1>3, RunTypes
  <1>5. /\ run'[w] = [job |-> run[w].job, phase |-> "on_dead"]
        /\ \A v \in Workers \ {w} : run'[v] = run[v]
    BY <1>1, <1>4 DEF ContractTypeOK, RunType
  <1>6. run'[w] # Idle /\ run'[w].job = run[w].job
    BY <1>5 DEF Idle
  <1>7. run' \in [Workers -> RunType \cup {Idle}]
    BY <1>1, <1>4, <1>5 DEF ContractTypeOK, RunType
  <1>8. /\ job' \in [Jobs -> {"absent", "open"} \cup Settled]
        /\ \A g \in Jobs : \/ job'[g] = job[g]
                           \/ job[g] = "open" /\ job'[g] \in {"failed", "dead"}
    BY <1>4 DEF GiveUp, Settle, Settled, ContractTypeOK
  <1> QED BY <1>1, <1>3, <1>5, <1>6, <1>7, <1>8 DEF ContractTypeOK, RunType

-----------------------------------------------------------------------------
(* Type correctness, together with what h says of the run in hand and      *)
(* where the usage records are.                                            *)

NoteType ==
    /\ note \in [status : {"absent", "draft", "cancelled", "deleted"}, head : Head]
    /\ meeting \in Meeting
    /\ editor \in [Clients -> Head]
    /\ req \in [Clients -> [pc : {"idle", "fetch", "insert"}, id : Jobs \cup {0}]]

RowType ==
    /\ gen \in [Jobs -> GenRow]
    /\ objects \subseteq Jobs
    /\ placed \subseteq Jobs

WorkerType ==
    /\ h \in [Workers -> [pc : HandlerState, used : BOOLEAN]]
    /\ runs \in 0 .. MaxRuns
    /\ unpaid \in Nat
    /\ late \in BOOLEAN
    /\ faults \in 0 .. MaxFaults

\* A handler is in hand exactly while its worker runs a job, and it has records
\* only after it has called the model.
HandInv ==
    \A w \in Workers :
        /\ h[w].pc = "idle" <=> run[w] = Idle
        /\ h[w].pc \in {"idle", "load", "read", "write"} => ~h[w].used

\* A request that is about to insert its row has a number for it.
Numbered == \A c \in Clients : req[c].pc = "insert" => req[c].id \in Jobs

TypeInv == TypeOK /\ HandInv /\ UsageKept /\ Numbered

LEMMA TypeParts ==
    /\ TypeOK <=> ContractTypeOK /\ NoteType /\ RowType /\ WorkerType
    /\ TypeOK' <=> ContractTypeOK' /\ NoteType' /\ RowType' /\ WorkerType'
  BY DEF TypeOK, NoteType, RowType, WorkerType

LEMMA CreatedFinite ==
    IsFiniteSet(Created) /\ Cardinality(Created) \in Nat
  BY FS_Subset, FS_CardinalityType, GenerationAssumption DEF Created

LEMMA HeadTypes ==
    ASSUME NEW d \in Head
    PROVE  /\ EmptyHead \in Head
           /\ d.version \in Nat /\ d.edits \subseteq 1 .. MaxEdits
           /\ d.shown \in Jobs \cup {0}
           /\ IsFiniteSet(d.edits) /\ Cardinality(d.edits) \in Nat
  <1>1. EmptyHead \in Head
    BY DEF EmptyHead, Head
  <1>2. d.version \in Nat /\ d.edits \subseteq 1 .. MaxEdits /\ d.shown \in Jobs \cup {0}
    BY DEF Head
  <1>3. IsFiniteSet(1 .. MaxEdits)
    BY FS_Interval, GenerationAssumption
  <1> QED BY <1>1, <1>2, <1>3, FS_Subset, FS_CardinalityType

LEMMA TypeInit == Init => TypeInv
  <1> SUFFICES ASSUME Init PROVE TypeInv
    OBVIOUS
  <1>1. ContractTypeOK
    BY DEF Init, ContractInit, ContractTypeOK
  <1>2. NoteType
    <2>1. EmptyHead \in Head /\ NoMeeting \in Meeting
      BY GenerationAssumption DEF EmptyHead, Head, NoMeeting, Meeting
    <2> QED BY <2>1 DEF Init, NoteType, NoRequest
  <1>3. RowType
    BY DEF Init, RowType, GenRow
  <1>4. WorkerType
    <2>1. h \in [Workers -> [pc : HandlerState, used : BOOLEAN]]
      BY DEF Init, IdleHandler, HandlerState
    <2>2. runs \in 0 .. MaxRuns /\ unpaid \in Nat /\ faults \in 0 .. MaxFaults
      BY GenerationAssumption DEF Init
    <2>3. late \in BOOLEAN
      BY DEF Init
    <2> QED BY <2>1, <2>2, <2>3 DEF WorkerType
  <1>5. HandInv
    BY DEF Init, ContractInit, HandInv, IdleHandler
  <1>6. UsageKept
    <2>1. {w \in Workers : h[w].used} = {}
      BY DEF Init, IdleHandler
    <2>2. Cardinality({}) = 0 /\ unpaid = 0 /\ faults = 0
      BY FS_EmptySet DEF Init
    <2>3. UsageKept <=> unpaid - Cardinality({}) \in 0 .. faults
      BY <2>1, Zenon DEF UsageKept
    <2> QED BY <2>2, <2>3
  <1>7. Numbered
    BY DEF Init, Numbered, NoRequest
  <1> QED BY <1>1, <1>2, <1>3, <1>4, <1>5, <1>6, <1>7, TypeParts DEF TypeInv

\* Where the usage records are, as one worker's flag changes.
Users == {w \in Workers : h[w].used}

LEMMA UsersCounted ==
    IsFiniteSet(Users) /\ Cardinality(Users) \in Nat
  BY FS_Subset, FS_CardinalityType, GenerationAssumption DEF Users

\* A failure may lose records, and no step takes failures back.
LEMMA UsageSame ==
    ASSUME UsageKept, unpaid' = unpaid, \A w \in Workers : h'[w].used = h[w].used,
           unpaid \in Nat, faults \in Nat, faults' = faults \/ faults' = faults + 1
    PROVE  UsageKept'
  <1>1. Users' = Users
    BY DEF Users
  <1>2. unpaid - Cardinality(Users) \in 0 .. faults
    BY DEF UsageKept, Users
  <1>3. unpaid' - Cardinality(Users') \in 0 .. faults'
    BY <1>1, <1>2, UsersCounted
  <1> QED BY <1>3 DEF UsageKept, Users

LEMMA UsageAdded ==
    ASSUME UsageKept, NEW w \in Workers, h[w].used = FALSE, h'[w].used = TRUE,
           unpaid' = unpaid + 1, \A v \in Workers \ {w} : h'[v].used = h[v].used,
           unpaid \in Nat, faults' = faults
    PROVE  UsageKept'
  <1>1. Users' = Users \cup {w} /\ w \notin Users
    BY DEF Users
  <1>2. Cardinality(Users') = Cardinality(Users) + 1
    BY <1>1, UsersCounted, FS_AddElement
  <1>3. unpaid - Cardinality(Users) \in 0 .. faults
    BY DEF UsageKept, Users
  <1>4. unpaid' - Cardinality(Users') \in 0 .. faults'
    BY <1>2, <1>3, UsersCounted
  <1> QED BY <1>4 DEF UsageKept, Users

\* The records of w leave the memory: paid, or lost in a failure.
LEMMA UsageLeaves ==
    ASSUME UsageKept, WorkerType, NEW w \in Workers, h'[w].used = FALSE,
           \/ Paid(w) /\ (faults' = faults \/ faults' = faults + 1)
           \/ unpaid' = unpaid /\ faults' = faults + 1,
           \A v \in Workers \ {w} : h'[v].used = h[v].used
    PROVE  UsageKept' /\ unpaid' \in Nat
  <1>1. /\ unpaid - Cardinality(Users) \in 0 .. faults
        /\ unpaid \in Nat /\ faults \in Nat
    BY DEF UsageKept, Users, WorkerType
  <1>2. Users' = Users \ {w}
    BY DEF Users
  <1>3. /\ IsFiniteSet(Users \ {w})
        /\ Cardinality(Users \ {w})
             = IF w \in Users THEN Cardinality(Users) - 1 ELSE Cardinality(Users)
    BY UsersCounted, FS_RemoveElement
  <1>4. Cardinality(Users \ {w}) \in Nat
    BY <1>3, FS_CardinalityType
  <1>5. \/ /\ unpaid' = unpaid - IF w \in Users THEN 1 ELSE 0
           /\ faults' = faults \/ faults' = faults + 1
        \/ unpaid' = unpaid /\ faults' = faults + 1
    BY DEF Paid, Users
  <1>6. unpaid' - Cardinality(Users \ {w}) \in 0 .. faults' /\ unpaid' \in Nat
    BY <1>1, <1>3, <1>4, <1>5, UsersCounted
  <1>7. unpaid' - Cardinality(Users') \in 0 .. faults'
    BY <1>2, <1>6
  <1> QED BY <1>6, <1>7 DEF UsageKept, Users

LEMMA FaultType ==
    ASSUME faults \in 0 .. MaxFaults, NEW k, Fault(k)
    PROVE  faults' \in 0 .. MaxFaults /\ faults' = faults + 1
  BY GenerationAssumption DEF Fault

LEMMA CreateType ==
    ASSUME ContractTypeOK, RowType, NEW g \in Jobs, Create(g)
    PROVE  ContractTypeOK' /\ gen' \in [Jobs -> GenRow] /\ UNCHANGED <<run, told>>
  <1>1. 1 + Cardinality(Created) \in Nat
    BY CreatedFinite
  <1>2. [status |-> "queued", key |-> TRUE, at |-> 1 + Cardinality(Created)] \in GenRow
    BY <1>1 DEF GenRow, LIVE
  <1>3. gen' \in [Jobs -> GenRow]
    BY <1>2 DEF Create, RowType
  <1> QED BY <1>3, SubmitType DEF Create

\* A request never touches a handler.
RequestStep ==
    \/ StartMeeting \/ FromTranscript \/ AttachJob
    \/ OverwriteReady \/ AttachCheck \/ AttachTranscript
    \/ Leave("cancelled") \/ Leave("deleted")
    \/ \E c \in Clients : ClientStep(c)

LEMMA RequestFrame ==
    ASSUME RequestStep
    PROVE  UNCHANGED <<placed, workerVars>> /\ (faults' = faults \/ faults' = faults + 1)
  <1>1. CASE \E c \in Clients : ClientStep(c)
    BY <1>1 DEF ClientStep, RegenerateCheck, RegeneratePut, RegenerateRefused,
                RegenerateInsert, RequestDies, OpenEditor, Save, generationVars, Fault
  <1>2. CASE ~\E c \in Clients : ClientStep(c)
    BY <1>2 DEF RequestStep, StartMeeting, FromTranscript, AttachJob, OverwriteReady,
                AttachCheck, AttachTranscript, Leave, generationVars, Fault
  <1> QED BY <1>1, <1>2

LEMMA RequestTypes ==
    ASSUME TypeInv, RequestStep
    PROVE  TypeInv'
  <1>0. /\ ContractTypeOK /\ NoteType /\ RowType /\ WorkerType
        /\ HandInv /\ UsageKept /\ Numbered
    BY TypeParts DEF TypeInv
  <1>a. note.head \in Head /\ note.status \in {"absent", "draft", "cancelled", "deleted"}
    BY <1>0 DEF NoteType
  <1>b. EmptyHead \in Head /\ NoMeeting \in Meeting /\ NoRequest.pc = "idle"
        /\ NoRequest \in [pc : {"idle", "fetch", "insert"}, id : Jobs \cup {0}]
    BY GenerationAssumption DEF EmptyHead, Head, NoMeeting, Meeting, NoRequest
  <1>c. ASSUME NEW k, Fault(k) PROVE faults' \in 0 .. MaxFaults
    BY <1>0, <1>c, FaultType DEF WorkerType
  <1>d. UNCHANGED <<placed, h, runs, unpaid, late>> /\ (faults' = faults \/ faults' = faults + 1)
    BY RequestFrame DEF workerVars
  <1>e. ASSUME NEW g \in Jobs, PutSnapshot(g) PROVE objects' \subseteq Jobs
    BY <1>0, <1>e DEF PutSnapshot, RowType
  <1>f. ASSUME NEW g \in Jobs, Create(g)
        PROVE  ContractTypeOK' /\ gen' \in [Jobs -> GenRow] /\ run' = run
    BY <1>0, <1>f, CreateType
  <1>g. ASSUME UNCHANGED contractVars PROVE ContractTypeOK' /\ run' = run
    BY <1>0, <1>g DEF contractVars, ContractTypeOK
  <1>h. SUFFICES /\ ContractTypeOK' /\ run' = run /\ NoteType'
                 /\ gen' \in [Jobs -> GenRow] /\ objects' \subseteq Jobs
                 /\ faults' \in 0 .. MaxFaults /\ Numbered'
    <2>1. WorkerType' /\ RowType'
      BY <1>0, <1>d, <1>h DEF WorkerType, RowType
    <2>2. HandInv'
      BY <1>0, <1>d, <1>h DEF HandInv
    <2>3. UsageKept'
      BY <1>0, <1>d, UsageSame DEF WorkerType
    <2> QED BY <1>h, <2>1, <2>2, <2>3, TypeParts DEF TypeInv
  <1>i. gen \in [Jobs -> GenRow] /\ objects \subseteq Jobs /\ faults \in 0 .. MaxFaults
    BY <1>0 DEF RowType, WorkerType
  <1>j. ASSUME req' = req PROVE Numbered'
    BY <1>0, <1>j DEF Numbered
  <1>1. CASE StartMeeting
    <2>1. NoteType'
      BY <1>0, <1>a, <1>b, <1>1 DEF StartMeeting, NoteType, Meeting, NoMeeting
    <2> QED BY <1>1, <1>g, <1>i, <1>j, <2>1 DEF StartMeeting, generationVars
  <1>2. CASE FromTranscript
    <2>1. NoteType'
      BY <1>0, <1>a, <1>b, <1>2 DEF FromTranscript, NoteType, Meeting, NoMeeting
    <2> QED BY <1>2, <1>e, <1>f, <1>g, <1>i, <1>j, <2>1 DEF FromTranscript
  <1>3. CASE AttachJob \/ OverwriteReady \/ AttachCheck
    <2>1. NoteType'
      BY <1>0, <1>3 DEF AttachJob, OverwriteReady, AttachCheck, NoteType, Meeting
    <2> QED BY <1>3, <1>c, <1>g, <1>i, <1>j, <2>1
            DEF AttachJob, OverwriteReady, AttachCheck, generationVars
  <1>4. CASE AttachTranscript
    <2>1. UNCHANGED <<editor, req, faults>>
      BY <1>4 DEF AttachTranscript
    <2>2. ASSUME NEW changed \in BOOLEAN, WithTranscript(changed)
          PROVE  NoteType'
      <3>1. meeting' \in Meeting
        <4>1. (IF changed THEN meeting.texts + 1 ELSE meeting.texts) \in 0 .. MaxTexts
          BY <1>0, <2>2, GenerationAssumption DEF NoteType, Meeting, WithTranscript
        <4> QED BY <1>0, <2>2, <4>1 DEF NoteType, Meeting, WithTranscript
      <3>2. note' \in [status : {"absent", "draft", "cancelled", "deleted"}, head : Head]
        <4>1. note \in [status : {"absent", "draft", "cancelled", "deleted"}, head : Head]
          BY <1>0 DEF NoteType
        <4>2. note' = note \/ note' = [note EXCEPT !.head.version = @ + 1]
          BY <2>2 DEF WithTranscript
        <4> QED BY <4>1, <4>2 DEF Head
      <3> QED BY <1>0, <2>1, <3>1, <3>2 DEF NoteType
    <2>3. NoteType'
      BY <1>0, <1>4, <2>1, <2>2 DEF AttachTranscript, NoteType
    <2> QED BY <1>4, <1>e, <1>f, <1>g, <1>i, <1>j, <2>1, <2>3 DEF AttachTranscript
  <1>5. ASSUME NEW s \in {"cancelled", "deleted"}, Leave(s)
        PROVE  NoteType' /\ UNCHANGED <<generationVars, faults, req>>
    BY <1>0, <1>a, <1>b, <1>5 DEF Leave, NoteType
  <1>6. ASSUME NEW c \in Clients, ClientStep(c)
        PROVE  /\ ContractTypeOK' /\ run' = run /\ NoteType'
               /\ gen' \in [Jobs -> GenRow] /\ objects' \subseteq Jobs
               /\ faults' \in 0 .. MaxFaults /\ Numbered'
    <2>0. req[c] \in [pc : {"idle", "fetch", "insert"}, id : Jobs \cup {0}]
          /\ editor[c] \in Head
          /\ req \in [Clients -> [pc : {"idle", "fetch", "insert"}, id : Jobs \cup {0}]]
      BY <1>0 DEF NoteType
    <2>1. CASE RegenerateCheck(c)
      <3>1. NoteType'
        BY <1>0, <2>0, <2>1 DEF RegenerateCheck, NoteType
      <3>2. Numbered'
        BY <1>0, <2>0, <2>1 DEF RegenerateCheck, Numbered
      <3> QED BY <2>1, <3>1, <3>2, <1>g, <1>i DEF RegenerateCheck, generationVars
    <2>2. CASE RegeneratePut(c)
      <3>1. NoteType'
        BY <1>0, <2>2 DEF RegeneratePut, NoteType
      <3>2. Numbered'
        BY <1>0, <2>0, <2>2 DEF RegeneratePut, Numbered
      <3> QED BY <2>2, <3>1, <3>2, <1>e, <1>g, <1>i DEF RegeneratePut
    <2>3. CASE RegenerateRefused(c) \/ RequestDies(c)
      <3>1. NoteType'
        BY <1>0, <1>b, <2>3 DEF RegenerateRefused, RequestDies, NoteType
      <3>2. Numbered'
        <4>1. req' = [req EXCEPT ![c] = NoRequest]
          BY <2>3 DEF RegenerateRefused, RequestDies
        <4> QED BY <1>0, <1>b, <2>0, <4>1 DEF Numbered
      <3> QED BY <2>3, <3>1, <3>2, <1>c, <1>g, <1>i
              DEF RegenerateRefused, RequestDies, generationVars
    <2>4. CASE RegenerateInsert(c)
      <3>1. NoteType'
        BY <1>0, <1>b, <2>4 DEF RegenerateInsert, NoteType
      <3>2. Numbered'
        BY <1>0, <1>b, <2>0, <2>4 DEF RegenerateInsert, Numbered
      <3>3. req[c].id \in Jobs
        BY <1>0, <2>4 DEF RegenerateInsert, Numbered
      <3> QED BY <2>4, <3>1, <3>2, <3>3, <1>f, <1>g, <1>i DEF RegenerateInsert
    <2>5. CASE OpenEditor(c)
      <3>1. NoteType'
        BY <1>0, <1>a, <2>5 DEF OpenEditor, NoteType
      <3> QED BY <2>5, <3>1, <1>g, <1>i, <1>j DEF OpenEditor, generationVars
    <2>6. CASE Save(c)
      <3>1. editor[c].version + 1 \in Nat
        BY <2>0, HeadTypes
      <3>2. editor[c].edits \cup {1 + Cardinality(note.head.edits)} \subseteq 1 .. MaxEdits
        <4>1. Cardinality(note.head.edits) \in Nat
              /\ Cardinality(note.head.edits) < MaxEdits
              /\ editor[c].edits \subseteq 1 .. MaxEdits
          BY <1>a, <2>0, <2>6, HeadTypes DEF Save
        <4> QED BY <4>1, GenerationAssumption
      <3>3. NoteType'
        BY <1>0, <1>a, <1>b, <2>0, <2>6, <3>1, <3>2 DEF Save, NoteType, Head
      <3> QED BY <2>6, <3>3, <1>g, <1>i, <1>j DEF Save, generationVars
    <2> QED BY <1>6, <2>1, <2>2, <2>3, <2>4, <2>5, <2>6 DEF ClientStep
  <1> QED BY <1>1, <1>2, <1>3, <1>4, <1>5, <1>6, <1>g, <1>i, <1>j
          DEF RequestStep, generationVars

\* A step of a handler between two calls of the queue: only pc and used move.
LEMMA HandMoves ==
    ASSUME TypeInv, NEW w \in Workers, h[w].pc # "idle",
           NEW p \in HandlerState \ {"idle"}, NEW u \in BOOLEAN,
           h' = [h EXCEPT ![w].pc = p, ![w].used = u], run' = run,
           p \in {"load", "read", "write"} => ~u
    PROVE  /\ h' \in [Workers -> [pc : HandlerState, used : BOOLEAN]]
           /\ h'[w].pc = p /\ h'[w].used = u /\ HandInv'
           /\ \A v \in Workers \ {w} : h'[v] = h[v]
  <1>1. h \in [Workers -> [pc : HandlerState, used : BOOLEAN]] /\ HandInv
    BY TypeParts DEF TypeInv, WorkerType
  <1>2. /\ h' \in [Workers -> [pc : HandlerState, used : BOOLEAN]]
        /\ h'[w].pc = p /\ h'[w].used = u
        /\ \A v \in Workers \ {w} : h'[v] = h[v]
    BY <1>1
  <1>3. HandInv'
    BY <1>1, <1>2 DEF HandInv
  <1> QED BY <1>2, <1>3

LEMMA GotoMoves ==
    ASSUME TypeInv, NEW w \in Workers, h[w].pc # "idle",
           NEW p \in HandlerState \ {"idle"}, Goto(w, p), run' = run,
           p \in {"load", "read", "write"} => ~h[w].used
    PROVE  /\ h' \in [Workers -> [pc : HandlerState, used : BOOLEAN]]
           /\ h'[w].pc = p /\ h'[w].used = h[w].used /\ HandInv'
           /\ \A v \in Workers \ {w} : h'[v] = h[v]
  <1>1. h \in [Workers -> [pc : HandlerState, used : BOOLEAN]] /\ HandInv
    BY TypeParts DEF TypeInv, WorkerType
  <1>2. /\ h' \in [Workers -> [pc : HandlerState, used : BOOLEAN]]
        /\ h'[w].pc = p /\ h'[w].used = h[w].used
        /\ \A v \in Workers \ {w} : h'[v] = h[v]
    BY <1>1 DEF Goto
  <1>3. HandInv'
    BY <1>1, <1>2 DEF HandInv
  <1> QED BY <1>2, <1>3

\* The handler is left: its records are paid or lost, and its run is over.
LEMMA HandEnds ==
    ASSUME TypeInv, NEW w \in Workers, h[w].pc # "idle", HandlerEnds(w),
           \/ Paid(w) /\ (faults' = faults \/ faults' = faults + 1)
           \/ unpaid' = unpaid /\ faults' = faults + 1,
           End(w, "complete") \/ Release(w) \/ Tell(w) \/ Die(w)
    PROVE  /\ h' \in [Workers -> [pc : HandlerState, used : BOOLEAN]]
           /\ h'[w].pc = "idle" /\ HandInv' /\ ContractTypeOK'
           /\ \A v \in Workers \ {w} : h'[v] = h[v]
           /\ UsageKept' /\ unpaid' \in Nat
  <1>1. /\ h \in [Workers -> [pc : HandlerState, used : BOOLEAN]]
        /\ HandInv /\ ContractTypeOK /\ WorkerType /\ UsageKept
    BY TypeParts DEF TypeInv, WorkerType
  <1>2. /\ h' \in [Workers -> [pc : HandlerState, used : BOOLEAN]]
        /\ h'[w].pc = "idle" /\ h'[w].used = FALSE
        /\ \A v \in Workers \ {w} : h'[v] = h[v]
    BY <1>1 DEF HandlerEnds, IdleHandler, HandlerState
  <1>3. run[w] # Idle
    BY <1>1 DEF HandInv
  <1>4. /\ ContractTypeOK' /\ run'[w] = Idle
        /\ \A v \in Workers \ {w} : run'[v] = run[v]
    BY <1>1, <1>3, EndType
  <1>5. HandInv'
    BY <1>1, <1>2, <1>4 DEF HandInv
  <1>6. UsageKept' /\ unpaid' \in Nat
    BY <1>1, <1>2, UsageLeaves
  <1> QED BY <1>2, <1>4, <1>5, <1>6

LEMMA MarkType ==
    ASSUME RowType, NEW g \in Jobs, NEW s \in LIVE \cup Finished, Mark(g, s)
    PROVE  /\ gen' \in [Jobs -> GenRow]
           /\ gen'[g] = [gen[g] EXCEPT !.status = s]
           /\ gen'[g].status = s /\ gen'[g].key = gen[g].key /\ gen'[g].at = gen[g].at
           /\ \A k \in Jobs \ {g} : gen'[k] = gen[k]
  BY DEF RowType, Mark, GenRow

\* What a worker does: a step of the handler, a failure, the start of a run.
WorkerStep(w) ==
    HandlerStep(w) \/ HandlerFault(w) \/ \E g \in Jobs : BeginRun(w, g)

LEMMA WorkerFrame ==
    ASSUME NEW w \in Workers, WorkerStep(w)
    PROVE  /\ UNCHANGED <<meeting, editor, req>>
           /\ note' = note \/ Commit(w)
  <1>1. CASE HandlerStep(w)
    BY <1>1 DEF HandlerStep, Load, Read, Write, Commit, Fail, Discard, DeadLoad,
                Completes, Retries, GivesUp, DeadTold, noteVars
  <1>2. CASE HandlerFault(w)
    BY <1>2 DEF HandlerFault, CommitFails, DiscardFails, CompleteFails, DeadFails,
                Crash, noteVars
  <1>3. CASE \E g \in Jobs : BeginRun(w, g)
    BY <1>3 DEF BeginRun, noteVars
  <1> QED BY <1>1, <1>2, <1>3 DEF WorkerStep

LEMMA InHand ==
    ASSUME TypeInv, NEW w \in Workers, h[w].pc # "idle"
    PROVE  run[w] # Idle /\ run[w].job \in Jobs /\ gen[run[w].job] \in GenRow
  BY TypeParts, RunTypes DEF TypeInv, HandInv, RowType

LEMMA ApplyType ==
    ASSUME NoteType, NEW g \in Jobs, NEW changed \in BOOLEAN, Apply(g, changed),
           UNCHANGED <<meeting, editor, req>>
    PROVE  NoteType'
  <1>1. note \in [status : {"absent", "draft", "cancelled", "deleted"}, head : Head]
    BY DEF NoteType
  <1>2. \/ note' = note
        \/ note' = [note EXCEPT !.head.version = @ + 1, !.head.shown = g]
    BY DEF Apply
  <1>3. note' \in [status : {"absent", "draft", "cancelled", "deleted"}, head : Head]
    <2>1. [note.head EXCEPT !.version = @ + 1, !.shown = g] \in Head
      <3>1. note.head \in Head /\ note.head.version + 1 \in Nat
        BY <1>1 DEF Head
      <3> QED BY <3>1 DEF Head
    <2>2. [note EXCEPT !.head.version = @ + 1, !.head.shown = g]
             = [note EXCEPT !.head = [note.head EXCEPT !.version = @ + 1, !.shown = g]]
      BY <1>1 DEF Head
    <2> QED BY <1>1, <1>2, <2>1, <2>2
  <1> QED BY <1>3 DEF NoteType

LEMMA WorkerTypes ==
    ASSUME TypeInv, NEW w \in Workers, WorkerStep(w)
    PROVE  TypeInv'
  <1>0. /\ ContractTypeOK /\ NoteType /\ RowType /\ WorkerType
        /\ HandInv /\ UsageKept /\ Numbered
    BY TypeParts DEF TypeInv
  <1>a. UNCHANGED <<meeting, editor, req>> /\ (note' = note \/ Commit(w))
    BY WorkerFrame
  <1>b. ASSUME NEW k, Fault(k) PROVE faults' \in 0 .. MaxFaults /\ faults' = faults + 1
    BY <1>0, <1>b, FaultType DEF WorkerType
  <1>c. ASSUME UNCHANGED contractVars PROVE ContractTypeOK' /\ run' = run
    BY <1>0, <1>c DEF contractVars, ContractTypeOK
  <1>d. SUFFICES /\ ContractTypeOK' /\ NoteType' /\ RowType'
                 /\ h' \in [Workers -> [pc : HandlerState, used : BOOLEAN]]
                 /\ runs' \in 0 .. MaxRuns /\ unpaid' \in Nat
                 /\ late' \in BOOLEAN /\ faults' \in 0 .. MaxFaults
                 /\ HandInv' /\ UsageKept'
    <2>1. WorkerType' /\ Numbered'
      BY <1>0, <1>a, <1>d DEF WorkerType, Numbered
    <2> QED BY <1>d, <2>1, TypeParts DEF TypeInv
  <1>e. ASSUME note' = note PROVE NoteType'
    BY <1>0, <1>a, <1>e DEF NoteType
  <1>f. /\ runs \in 0 .. MaxRuns /\ unpaid \in Nat /\ faults \in 0 .. MaxFaults
        /\ late \in BOOLEAN
    BY <1>0 DEF WorkerType
  <1>g. ASSUME h[w].pc # "idle"
        PROVE  run[w].job \in Jobs /\ gen[run[w].job] \in GenRow
    BY <1>g, InHand
  <1>h. ASSUME UNCHANGED <<gen, objects, placed>> PROVE RowType'
    BY <1>0, <1>h DEF RowType
  <1>i. ASSUME unpaid' = unpaid, \A v \in Workers : h'[v].used = h[v].used,
               faults' = faults \/ faults' = faults + 1
        PROVE  UsageKept'
    BY <1>0, <1>f, <1>i, UsageSame
  <1>j. /\ {"load", "read", "write", "commit", "fail", "discard", "raise", "done",
            "dead_load"} = HandlerState \ {"idle"}
        /\ {"running", "superseded", "complete", "failed"} \subseteq LIVE \cup Finished
    BY DEF HandlerState, LIVE, Finished
  <1>k. ASSUME NEW g \in Jobs, Late(g) PROVE late' \in BOOLEAN
    BY <1>k, Zenon DEF Late
  \* A step within the handler, with the contract's state unchanged.
  <1>m. ASSUME NEW p \in HandlerState \ {"idle"}, Goto(w, p), h[w].pc # "idle",
               UNCHANGED contractVars, unpaid' = unpaid,
               faults' = faults \/ faults' = faults + 1,
               p \in {"load", "read", "write"} => ~h[w].used
        PROVE  /\ ContractTypeOK' /\ HandInv' /\ UsageKept'
               /\ h' \in [Workers -> [pc : HandlerState, used : BOOLEAN]]
    <2>1. run' = run /\ ContractTypeOK'
      BY <1>c, <1>m
    <2>2. /\ h' \in [Workers -> [pc : HandlerState, used : BOOLEAN]]
          /\ h'[w].used = h[w].used /\ HandInv'
          /\ \A v \in Workers \ {w} : h'[v] = h[v]
      BY <1>m, <2>1, GotoMoves
    <2>3. UsageKept'
      BY <1>i, <1>m, <2>2
    <2> QED BY <2>1, <2>2, <2>3
  <1>1. CASE Load(w)
    <2>1. PICK g \in Jobs : g = run[w].job
      BY <1>1, <1>g DEF Load, At
    <2>2. /\ UNCHANGED <<contractVars, objects, noteVars, placed, runs, unpaid, faults>>
          /\ h[w].pc = "load" /\ ~h[w].used
      BY <1>0, <1>1 DEF Load, At, HandInv
    <2>3. late' \in BOOLEAN
      BY <1>1, <1>f, <1>k, <2>1 DEF Load
    <2>4. RowType'
      <3>1. gen' = gen \/ \E s \in {"superseded", "running"} : Mark(g, s)
        BY <1>1, <2>1 DEF Load
      <3>2. gen' \in [Jobs -> GenRow]
        BY <1>0, <1>j, <3>1, MarkType DEF RowType
      <3> QED BY <1>0, <2>2, <3>2 DEF RowType
    <2>5. \E p \in HandlerState \ {"idle"} : Goto(w, p)
      BY <1>1, <1>j DEF Load
    <2>6. /\ ContractTypeOK' /\ HandInv' /\ UsageKept'
          /\ h' \in [Workers -> [pc : HandlerState, used : BOOLEAN]]
      BY <1>m, <2>2, <2>5
    <2> QED BY <1>e, <1>f, <2>2, <2>3, <2>4, <2>6 DEF noteVars
  <1>2. CASE Read(w) \/ DeadLoad(w)
    <2>1. /\ UNCHANGED <<contractVars, gen, objects, noteVars, placed, runs, unpaid,
                         late, faults>>
          /\ h[w].pc \in {"read", "dead_load"}
          /\ h[w].pc = "read" => ~h[w].used
      BY <1>0, <1>2 DEF Read, DeadLoad, At, HandInv
    <2>2. \E p \in {"write", "fail", "done"} : Goto(w, p) /\ (p = "write" => h[w].pc = "read")
      BY <1>2 DEF Read, DeadLoad, At
    <2>3. /\ ContractTypeOK' /\ HandInv' /\ UsageKept'
          /\ h' \in [Workers -> [pc : HandlerState, used : BOOLEAN]]
      BY <1>j, <1>m, <2>1, <2>2
    <2> QED BY <1>e, <1>f, <1>h, <2>1, <2>3 DEF noteVars
  <1>3. CASE Write(w)
    <2>1. /\ UNCHANGED <<contractVars, gen, objects, noteVars, placed, runs, late, faults>>
          /\ h[w].pc = "write" /\ h[w].used = FALSE /\ unpaid' = unpaid + 1
      BY <1>0, <1>3 DEF Write, At, HandInv, WorkerType
    <2>2. PICK p \in {"commit", "raise"} : h' = [h EXCEPT ![w].pc = p, ![w].used = TRUE]
      BY <1>3 DEF Write
    <2>3. /\ h' \in [Workers -> [pc : HandlerState, used : BOOLEAN]]
          /\ h'[w].used = TRUE /\ HandInv' /\ \A v \in Workers \ {w} : h'[v] = h[v]
      BY <1>c, <1>j, <2>1, <2>2, HandMoves
    <2>4. UsageKept'
      BY <1>0, <1>f, <2>1, <2>3, UsageAdded
    <2> QED BY <1>c, <1>e, <1>f, <1>h, <2>1, <2>3, <2>4 DEF noteVars
  <1>4. CASE Commit(w)
    <2>1. PICK g \in Jobs : g = run[w].job
      BY <1>4, <1>g DEF Commit, At
    <2>2. /\ UNCHANGED <<contractVars, objects, meeting, editor, req, runs, unpaid, faults>>
          /\ h[w].pc = "commit" /\ Goto(w, "discard") /\ Mark(g, "complete") /\ Late(g)
      BY <1>4, <2>1 DEF Commit, At
    <2>3. placed' \subseteq Jobs
      BY <1>4, <2>1 DEF Commit, ReplaceLines
    <2>4. RowType'
      BY <1>0, <1>j, <2>2, <2>3, MarkType DEF RowType
    <2>5. NoteType'
      BY <1>0, <1>4, <1>a, <1>e, <2>1, ApplyType DEF Commit
    <2>6. /\ ContractTypeOK' /\ HandInv' /\ UsageKept'
          /\ h' \in [Workers -> [pc : HandlerState, used : BOOLEAN]]
      BY <1>j, <1>m, <2>2
    <2> QED BY <1>f, <1>k, <2>2, <2>4, <2>5, <2>6
  <1>5. CASE Fail(w)
    <2>1. PICK g \in Jobs : g = run[w].job
      BY <1>5, <1>g DEF Fail, At
    <2>2. /\ UNCHANGED <<contractVars, objects, noteVars, placed, runs, unpaid, faults>>
          /\ h[w].pc = "fail" /\ Goto(w, "discard") /\ Mark(g, "failed") /\ Late(g)
      BY <1>5, <2>1 DEF Fail, At
    <2>3. RowType'
      BY <1>0, <1>j, <2>2, MarkType DEF RowType
    <2>4. /\ ContractTypeOK' /\ HandInv' /\ UsageKept'
          /\ h' \in [Workers -> [pc : HandlerState, used : BOOLEAN]]
      BY <1>j, <1>m, <2>2
    <2> QED BY <1>e, <1>f, <1>k, <2>2, <2>3, <2>4 DEF noteVars
  <1>6. CASE Discard(w) \/ DiscardFails(w)
    <2>1. PICK g \in Jobs : g = run[w].job
      BY <1>6, <1>g DEF Discard, DiscardFails, At
    <2>2. /\ UNCHANGED <<contractVars, noteVars, placed, runs, unpaid, late>>
          /\ h[w].pc = "discard" /\ Goto(w, "done") /\ objects' \subseteq objects
          /\ gen' = [gen EXCEPT ![g].key = FALSE]
          /\ faults' \in 0 .. MaxFaults /\ (faults' = faults \/ faults' = faults + 1)
      BY <1>6, <1>b, <1>f, <2>1 DEF Discard, DiscardFails, At
    <2>3. RowType'
      BY <1>0, <2>1, <2>2 DEF RowType, GenRow
    <2>4. /\ ContractTypeOK' /\ HandInv' /\ UsageKept'
          /\ h' \in [Workers -> [pc : HandlerState, used : BOOLEAN]]
      BY <1>j, <1>m, <2>2
    <2> QED BY <1>e, <1>f, <2>2, <2>3, <2>4 DEF noteVars
  <1>7. CASE CommitFails(w)
    <2>1. /\ UNCHANGED <<contractVars, gen, objects, noteVars, placed, runs, unpaid, late>>
          /\ h[w].pc = "commit" /\ Goto(w, "raise")
          /\ faults' \in 0 .. MaxFaults /\ faults' = faults + 1
      BY <1>7, <1>b DEF CommitFails, At
    <2>2. /\ ContractTypeOK' /\ HandInv' /\ UsageKept'
          /\ h' \in [Workers -> [pc : HandlerState, used : BOOLEAN]]
      BY <1>j, <1>m, <2>1
    <2> QED BY <1>e, <1>f, <1>h, <2>1, <2>2 DEF noteVars
  <1>8. CASE CompleteFails(w)
    <2>1. /\ UNCHANGED <<contractVars, gen, objects, noteVars, placed, runs, unpaid, late>>
          /\ h[w].pc = "done" /\ faults' \in 0 .. MaxFaults
          /\ faults' = faults + 1
          /\ h' = [h EXCEPT ![w].pc = "raise", ![w].used = FALSE]
      BY <1>8, <1>b DEF CompleteFails, At
    <2>2. /\ h' \in [Workers -> [pc : HandlerState, used : BOOLEAN]]
          /\ h'[w].used = FALSE /\ HandInv' /\ \A v \in Workers \ {w} : h'[v] = h[v]
      BY <1>c, <1>j, <2>1, HandMoves
    <2>3. UsageKept' /\ unpaid' \in Nat
      BY <1>0, <2>1, <2>2, UsageLeaves
    <2> QED BY <1>c, <1>e, <1>f, <1>h, <2>1, <2>2, <2>3 DEF noteVars
  <1>9. CASE Completes(w) \/ Retries(w) \/ DeadTold(w) \/ DeadFails(w) \/ Crash(w)
    <2>1. /\ UNCHANGED <<gen, objects, noteVars, placed, runs, late>>
          /\ HandlerEnds(w) /\ faults' \in 0 .. MaxFaults
          /\ End(w, "complete") \/ Release(w) \/ Tell(w) \/ Die(w)
          /\ \/ Paid(w) /\ (faults' = faults \/ faults' = faults + 1)
             \/ unpaid' = unpaid /\ faults' = faults + 1
      BY <1>9, <1>b, <1>f DEF Completes, Retries, DeadTold, DeadFails, Crash, Flush
    <2>2. h[w].pc # "idle"
      BY <1>0, <1>9 DEF Completes, Retries, DeadTold, DeadFails, Crash, At, HandInv
    <2> QED BY <1>e, <1>f, <1>h, <2>1, <2>2, HandEnds DEF noteVars
  <1>10. CASE GivesUp(w)
    <2>1. /\ UNCHANGED <<gen, objects, noteVars, placed, runs, unpaid, late, faults>>
          /\ GiveUp(w) /\ Goto(w, "dead_load") /\ h[w].pc \in {"load", "raise"}
      BY <1>10 DEF GivesUp
    <2>2. /\ ContractTypeOK' /\ run'[w] # Idle /\ run[w] # Idle
          /\ \A v \in Workers \ {w} : run'[v] = run[v]
      BY <1>0, <2>1, GiveUpType
    <2>3. /\ h' \in [Workers -> [pc : HandlerState, used : BOOLEAN]]
          /\ h'[w].pc = "dead_load" /\ h'[w].used = h[w].used
          /\ \A v \in Workers \ {w} : h'[v] = h[v]
      BY <1>0, <1>j, <2>1 DEF Goto, WorkerType
    <2>4. HandInv'
      BY <1>0, <2>2, <2>3 DEF HandInv
    <2>5. UsageKept'
      BY <1>i, <2>1, <2>3
    <2> QED BY <1>e, <1>f, <1>h, <2>1, <2>2, <2>3, <2>4, <2>5 DEF noteVars
  <1>11. CASE \E g \in Jobs : BeginRun(w, g)
    <2>0. PICK g \in Jobs : BeginRun(w, g)
      BY <1>11
    <2>1. /\ UNCHANGED <<gen, objects, noteVars, placed, unpaid, late, faults>>
          /\ Begin(w, g) /\ runs < MaxRuns /\ runs' = runs + 1
          /\ h' = [h EXCEPT ![w] = [pc |-> "load", used |-> FALSE]]
      BY <2>0 DEF BeginRun
    <2>2. /\ ContractTypeOK' /\ run'[w] # Idle /\ run[w] = Idle
          /\ \A v \in Workers \ {w} : run'[v] = run[v]
      BY <1>0, <2>1, BeginType
    <2>3. /\ h' \in [Workers -> [pc : HandlerState, used : BOOLEAN]]
          /\ h'[w].pc = "load" /\ h'[w].used = FALSE
          /\ \A v \in Workers \ {w} : h'[v] = h[v]
      BY <1>0, <1>j, <2>1 DEF WorkerType
    <2>4. HandInv' /\ h[w].used = FALSE
      BY <1>0, <2>2, <2>3 DEF HandInv, WorkerType
    <2>5. UsageKept'
      BY <1>i, <2>1, <2>3, <2>4
    <2>6. runs' \in 0 .. MaxRuns
      BY <1>f, <2>1, GenerationAssumption
    <2> QED BY <1>e, <1>f, <1>h, <2>1, <2>2, <2>3, <2>4, <2>5, <2>6 DEF noteVars
  <1> QED BY <1>1, <1>2, <1>3, <1>4, <1>5, <1>6, <1>7, <1>8, <1>9, <1>10, <1>11
          DEF WorkerStep, HandlerStep, HandlerFault

\* The reaper and the snapshot sweeper.
LEMMA OtherTypes ==
    ASSUME TypeInv, NEW g \in Jobs, Buried(g) \/ Sweep(g) \/ SweepFails(g)
    PROVE  /\ TypeInv' /\ UNCHANGED <<noteVars, placed, h, runs, unpaid, late>>
           /\ run' = run /\ told' = told
  <1>0. /\ ContractTypeOK /\ NoteType /\ RowType /\ WorkerType
        /\ HandInv /\ UsageKept /\ Numbered
    BY TypeParts DEF TypeInv
  <1>1. UNCHANGED <<noteVars, placed, h, runs, unpaid, late>>
    BY DEF Buried, Sweep, SweepFails, workerVars
  <1>2. run' = run /\ told' = told
    BY DEF Buried, Bury, Sweep, SweepFails, contractVars
  <1>3. job' \in [Jobs -> {"absent", "open"} \cup Settled]
    BY <1>0 DEF Buried, Sweep, SweepFails, contractVars, ContractTypeOK, Settled
  <1>4. RowType'
    BY <1>0, <1>1 DEF Buried, Sweep, SweepFails, RowType, GenRow
  <1>5. faults' \in 0 .. MaxFaults /\ (faults' = faults \/ faults' = faults + 1)
    BY <1>0, FaultType DEF Buried, Sweep, SweepFails, WorkerType
  <1>6. WorkerType' /\ NoteType' /\ ContractTypeOK'
    BY <1>0, <1>1, <1>2, <1>3, <1>5 DEF WorkerType, NoteType, noteVars, ContractTypeOK
  <1>7. HandInv' /\ Numbered'
    BY <1>0, <1>1, <1>2 DEF HandInv, Numbered, noteVars
  <1>8. UsageKept'
    BY <1>0, <1>1, <1>5, UsageSame DEF WorkerType
  <1> QED BY <1>1, <1>2, <1>4, <1>6, <1>7, <1>8, TypeParts DEF TypeInv

LEMMA NextSplit ==
    ASSUME Next
    PROVE  \/ RequestStep
           \/ \E w \in Workers : WorkerStep(w)
           \/ \E g \in Jobs : Buried(g) \/ Sweep(g) \/ SweepFails(g)
  BY DEF Next, RequestStep, WorkerStep

LEMMA TypeStep == TypeInv /\ [Next]_vars => TypeInv'
  <1> SUFFICES ASSUME TypeInv, [Next]_vars PROVE TypeInv'
    OBVIOUS
  <1>1. CASE UNCHANGED vars
    BY <1>1 DEF vars, contractVars, noteVars, TypeInv, TypeOK, ContractTypeOK,
                HandInv, UsageKept, Numbered
  <1>2. CASE Next
    BY <1>2, NextSplit, RequestTypes, WorkerTypes, OtherTypes
  <1> QED BY <1>1, <1>2

\* Every reachable state has its type, and every model call that was made is in
\* the memory of a worker or in the ledger, but for the calls of at most as many
\* runs as there were failures: dead processes, failed writes of the records.
THEOREM UsageIsKept == Spec => [](TypeOK /\ UsageKept)
  BY TypeInit, TypeStep, PTL DEF Spec, TypeInv

-----------------------------------------------------------------------------
(* Rows, jobs, objects and what the handlers know of them.                 *)

\* Rows and jobs are made together, after the object; a number belongs to one
\* request until its row is there.
RowInv ==
    /\ \A g \in Jobs : gen[g].status = "absent" <=> job[g] = "absent"
    /\ \A g \in Jobs : gen[g].status = "absent" => ~gen[g].key /\ ~told[g]
    /\ \A g \in Jobs : job[g] # "cancelled"
    /\ \A w \in Workers : run[w] # Idle => gen[run[w].job].status # "absent"
    /\ SnapshotBacked
    /\ placed \subseteq Created
    /\ \A g \in Created : gen[g].at <= Cardinality(Created)
    /\ note.status = "absent" => Created = {}

RequestInv ==
    /\ \A c \in Clients : req[c].pc = "insert" =>
          req[c].id \in objects /\ gen[req[c].id].status = "absent"
    /\ \A c, d \in Clients : req[c].pc = "insert" /\ req[d].pc = "insert" /\ c # d
                               => req[c].id # req[d].id
    /\ \A c \in Clients : req[c].pc # "idle" => note.status # "absent"

\* A handler that has settled its generation, or found it settled.
PastSettling(w) == h[w].pc \in {"discard", "done"}

\* Until a handler comes back to a settled generation: what was settled, told
\* or completed is not live, and what is live is the newest.
SettledNotLive ==
    /\ \A w \in Workers : PastSettling(w) => gen[run[w].job].status \notin LIVE
    /\ \A g \in Jobs : told[g] \/ job[g] = "complete" => gen[g].status \notin LIVE

LiveIsNewest ==
    \A g \in Jobs, k \in Created : gen[g].status \in LIVE => gen[k].at <= gen[g].at

NewestPlaced ==
    \A g \in placed, k \in CompleteRuns : gen[k].at <= gen[g].at

OrderInv == ~late => SettledNotLive /\ LiveIsNewest /\ NewestPlaced

Inv == TypeInv /\ RowInv /\ RequestInv /\ OrderInv

LEMMA InvInit == Init => Inv
  <1> SUFFICES ASSUME Init PROVE RowInv /\ RequestInv /\ OrderInv
    BY TypeInit DEF Inv
  <1>1. Created = {} /\ placed = {} /\ \A g \in Jobs : gen[g].status = "absent" /\ ~gen[g].key
    BY DEF Init, Created
  <1>2. \A g \in Jobs : job[g] = "absent" /\ ~told[g]
    BY DEF Init, ContractInit
  <1>3. \A w \in Workers : run[w] = Idle /\ h[w].pc = "idle"
    BY DEF Init, ContractInit, IdleHandler
  <1>4. \A c \in Clients : req[c].pc = "idle"
    BY DEF Init, NoRequest
  <1>5. RowInv
    BY <1>1, <1>2, <1>3 DEF RowInv, SnapshotBacked
  <1>6. RequestInv
    BY <1>4 DEF RequestInv
  <1>7. OrderInv
    BY <1>1, <1>2, <1>3 DEF OrderInv, SettledNotLive, PastSettling, LiveIsNewest,
                           NewestPlaced, LIVE
  <1> QED BY <1>5, <1>6, <1>7

\* Steps of people that make no generation.
LEMMA QuietRequest ==
    ASSUME RowInv, RequestInv, OrderInv, NEW c,
           UNCHANGED <<gen, job, run, told, placed, h, late>>,
           objects \subseteq objects',
           note'.status = "absent" => note.status = "absent",
           \A d \in Clients \ {c} : req'[d] = req[d],
           c \in Clients /\ req'[c].pc = "insert" =>
               \/ req'[c] = req[c]
               \/ /\ req'[c].id \in objects' \ objects
                  /\ gen[req'[c].id].status = "absent",
           c \in Clients /\ req'[c].pc # "idle" =>
               req[c].pc # "idle" \/ note.status # "absent"
    PROVE  RowInv' /\ RequestInv' /\ OrderInv'
  <1>1. Created' = Created /\ CompleteRuns' = CompleteRuns
    BY DEF Created, CompleteRuns
  <1>2. RowInv'
    BY <1>1 DEF RowInv, SnapshotBacked
  <1>3. RequestInv'
    BY DEF RequestInv
  <1>4. OrderInv'
    BY <1>1 DEF OrderInv, SettledNotLive, PastSettling, LiveIsNewest, NewestPlaced
  <1> QED BY <1>2, <1>3, <1>4

\* gen_repo.create() and enqueue() when nothing is live.
LEMMA CreateStep ==
    ASSUME TypeInv, TypeInv', RowInv, RequestInv, OrderInv, NEW g \in Jobs, Create(g),
           gen[g].status = "absent", ~LiveElsewhere(g),
           g \in objects', objects \subseteq objects',
           UNCHANGED <<placed, h, late>>, note'.status # "absent",
           \A d \in Clients : req'[d].pc = "insert" => req'[d] = req[d] /\ req[d].id # g
    PROVE  RowInv' /\ RequestInv' /\ OrderInv'
  <1>0. /\ ContractTypeOK /\ NoteType /\ RowType /\ WorkerType /\ Numbered
    BY TypeParts DEF TypeInv
  <1>1. /\ gen'[g].status = "queued" /\ gen'[g].key = TRUE
        /\ gen'[g].at = 1 + Cardinality(Created)
        /\ \A k \in Jobs \ {g} : gen'[k] = gen[k]
    BY <1>0 DEF Create, RowType
  <1>2. /\ job'[g] = "open" /\ job[g] = "absent" /\ run' = run /\ told' = told
        /\ \A k \in Jobs \ {g} : job'[k] = job[k]
    BY <1>0 DEF Create, Submit, ContractTypeOK
  <1>3. Created' = Created \cup {g} /\ g \notin Created
    BY <1>1 DEF Created
  <1>4. /\ Cardinality(Created') = Cardinality(Created) + 1
        /\ Cardinality(Created) \in Nat
    BY <1>3, CreatedFinite, FS_AddElement
  <1>5. CompleteRuns' = CompleteRuns /\ CompleteRuns \subseteq Created
    BY <1>1 DEF CompleteRuns, Created
  <1>6. RowInv'
    <2>1. \A k \in Created' : gen'[k].at <= Cardinality(Created')
      <3>1. \A k \in Created : gen[k].at \in Nat
        BY <1>0 DEF RowType, GenRow, Created
      <3> QED BY <1>1, <1>3, <1>4, <3>1 DEF RowInv, Created
    <2>2. \A w \in Workers : run'[w] # Idle => gen'[run'[w].job].status # "absent"
      <3>1. \A w \in Workers : run[w] # Idle => run[w].job \in Jobs
        BY <1>0, RunTypes
      <3> QED BY <1>1, <1>2, <3>1 DEF RowInv
    <2>3. \A k \in Jobs : /\ gen'[k].status = "absent" <=> job'[k] = "absent"
                          /\ gen'[k].status = "absent" => ~gen'[k].key /\ ~told'[k]
                          /\ job'[k] # "cancelled"
      BY <1>1, <1>2 DEF RowInv
    <2>4. SnapshotBacked'
      BY <1>1 DEF RowInv, SnapshotBacked
    <2> QED BY <1>3, <2>1, <2>2, <2>3, <2>4 DEF RowInv
  <1>7. RequestInv'
    BY <1>0, <1>1 DEF RequestInv, Numbered
  <1>8. ASSUME ~late PROVE SettledNotLive' /\ LiveIsNewest' /\ NewestPlaced'
    <2>0. SettledNotLive /\ LiveIsNewest /\ NewestPlaced
      BY <1>8 DEF OrderInv
    <2>1. SettledNotLive'
      <3>1. \A w \in Workers : PastSettling(w) => run[w].job \in Jobs /\ run[w].job # g
        BY <1>0, RunTypes DEF PastSettling, TypeInv, HandInv, RowInv
      <3> QED BY <1>1, <1>2, <2>0, <3>1 DEF SettledNotLive, PastSettling, RowInv
    <2>2. LiveIsNewest'
      <3>1. \A k \in Created : gen[k].at \in Nat
        BY <1>0 DEF RowType, GenRow, Created
      <3>2. \A k \in Jobs \ {g} : gen'[k].status \notin LIVE
        BY <1>1 DEF LiveElsewhere
      <3> QED BY <1>1, <1>3, <1>4, <3>1, <3>2 DEF LiveIsNewest, RowInv, Created
    <2>3. NewestPlaced'
      <3>1. \A k \in placed \cup CompleteRuns : k \in Jobs \ {g}
        BY <1>3, <1>5 DEF RowInv, Created
      <3>2. \A k \in placed \cup CompleteRuns : gen'[k] = gen[k]
        BY <1>1, <3>1
      <3> QED BY <1>5, <2>0, <3>2 DEF NewestPlaced
    <2> QED BY <2>1, <2>2, <2>3
  <1> QED BY <1>6, <1>7, <1>8 DEF OrderInv

\* gen_repo.mark() of the generation that w runs.
LEMMA MarkStep ==
    ASSUME TypeInv, RowInv, RequestInv, OrderInv, NEW g \in Jobs, gen[g].status # "absent",
           NEW s \in LIVE \cup Finished, Mark(g, s), Late(g),
           UNCHANGED <<job, run, told, objects, req>>, note'.status = note.status,
           IF s = "complete" THEN placed' \subseteq {g} ELSE placed' = placed,
           \A v \in Workers : PastSettling(v)' =>
               PastSettling(v) \/ (run[v].job = g /\ s \notin LIVE)
    PROVE  RowInv' /\ RequestInv' /\ OrderInv'
  <1>0. ContractTypeOK /\ RowType /\ HandInv /\ Numbered
    BY TypeParts DEF TypeInv
  <1>1. /\ gen'[g].status = s /\ gen'[g].key = gen[g].key /\ gen'[g].at = gen[g].at
        /\ \A k \in Jobs \ {g} : gen'[k] = gen[k]
    BY <1>0, MarkType
  <1>2. s # "absent" /\ (s = "complete" => s \notin LIVE)
    BY DEF LIVE, Finished
  <1>3. Created' = Created /\ g \in Created
    BY <1>1, <1>2 DEF Created
  <1>4. \A v \in Workers : run[v] # Idle => run[v].job \in Jobs
    BY <1>0, RunTypes
  <1>5. RowInv'
    <2>1. \A w \in Workers : run'[w] # Idle => gen'[run'[w].job].status # "absent"
      BY <1>1, <1>2, <1>4 DEF RowInv
    <2>2. placed' \subseteq Created'
      BY <1>3 DEF RowInv
    <2>3. SnapshotBacked'
      BY <1>1 DEF RowInv, SnapshotBacked
    <2>4. \A k \in Created' : gen'[k].at <= Cardinality(Created')
      BY <1>1, <1>3 DEF RowInv, Created
    <2> QED BY <1>1, <1>2, <1>3, <2>1, <2>2, <2>3, <2>4 DEF RowInv
  <1>6. RequestInv'
    BY <1>0, <1>1 DEF RequestInv, Numbered
  <1>7. ASSUME ~late' PROVE SettledNotLive' /\ LiveIsNewest' /\ NewestPlaced'
    <2>0. /\ gen[g].status \in LIVE /\ ~late
          /\ SettledNotLive /\ LiveIsNewest /\ NewestPlaced
      BY <1>7 DEF Late, OrderInv
    <2>1. SettledNotLive'
      <3>1. ASSUME NEW v \in Workers, PastSettling(v)'
            PROVE  gen'[run'[v].job].status \notin LIVE
        <4>1. CASE PastSettling(v)
          <5>1. run[v].job \in Jobs /\ gen[run[v].job].status \notin LIVE
            BY <1>0, <1>4, <2>0, <4>1 DEF SettledNotLive, PastSettling, HandInv
          <5> QED BY <1>1, <2>0, <5>1
        <4>2. CASE run[v].job = g /\ s \notin LIVE
          BY <1>1, <4>2
        <4> QED BY <3>1, <4>1, <4>2
      <3>2. \A k \in Jobs : told'[k] \/ job'[k] = "complete" => gen'[k].status \notin LIVE
        BY <1>1, <2>0 DEF SettledNotLive
      <3> QED BY <3>1, <3>2 DEF SettledNotLive
    <2>2. LiveIsNewest'
      BY <1>1, <1>3, <2>0 DEF LiveIsNewest, Created
    <2>3. NewestPlaced'
      <3>1. CASE s = "complete"
        <4>1. \A k \in CompleteRuns' : k \in Created /\ gen'[k].at = gen[k].at
          BY <1>1, <1>3 DEF CompleteRuns, Created
        <4> QED BY <1>1, <2>0, <3>1, <4>1 DEF NewestPlaced, LiveIsNewest
      <3>2. CASE s # "complete"
        <4>1. CompleteRuns' \subseteq CompleteRuns
          BY <1>1, <3>2 DEF CompleteRuns
        <4>2. \A k \in Jobs : gen'[k].at = gen[k].at
          BY <1>1
        <4>3. placed \subseteq Jobs /\ CompleteRuns \subseteq Jobs
          BY <1>0 DEF RowType, CompleteRuns
        <4> QED BY <2>0, <3>2, <4>1, <4>2, <4>3 DEF NewestPlaced
      <3> QED BY <3>1, <3>2
    <2> QED BY <2>1, <2>2, <2>3
  <1> QED BY <1>5, <1>6, <1>7 DEF OrderInv

\* A discard: the row's key first, and the object only if the row named it.
LEMMA KeyStep ==
    ASSUME TypeInv, RowInv, RequestInv, OrderInv, NEW g \in Jobs,
           gen' = [gen EXCEPT ![g].key = FALSE],
           objects' \in {objects, objects \ {g}}, gen[g].key \/ objects' = objects,
           UNCHANGED <<job, run, told, req, placed, late>>, note'.status = note.status,
           \A v \in Workers : PastSettling(v)' => PastSettling(v)
    PROVE  RowInv' /\ RequestInv' /\ OrderInv'
  <1>0. ContractTypeOK /\ RowType /\ HandInv /\ Numbered
    BY TypeParts DEF TypeInv
  <1>1. /\ gen'[g].status = gen[g].status /\ gen'[g].key = FALSE
        /\ gen'[g].at = gen[g].at /\ \A k \in Jobs \ {g} : gen'[k] = gen[k]
    BY <1>0 DEF RowType, GenRow
  <1>2. \A k \in Jobs : gen'[k].status = gen[k].status /\ gen'[k].at = gen[k].at
    BY <1>1
  <1>3. Created' = Created /\ CompleteRuns' = CompleteRuns
        /\ Created \subseteq Jobs /\ CompleteRuns \subseteq Jobs /\ placed \subseteq Jobs
    BY <1>0, <1>2 DEF Created, CompleteRuns, RowType
  <1>4. \A v \in Workers : run[v] # Idle => run[v].job \in Jobs
    BY <1>0, RunTypes
  <1>5. RowInv'
    <2>1. SnapshotBacked'
      BY <1>1 DEF RowInv, SnapshotBacked
    <2>2. \A k \in Jobs : gen'[k].status = "absent" => ~gen'[k].key /\ ~told'[k]
      BY <1>1 DEF RowInv
    <2>3. \A k \in Created' : gen'[k].at <= Cardinality(Created')
      BY <1>2, <1>3 DEF RowInv
    <2> QED BY <1>2, <1>3, <1>4, <2>1, <2>2, <2>3 DEF RowInv
  <1>6. RequestInv'
    <2>1. \A c \in Clients : req[c].pc = "insert" => req[c].id # g \/ objects' = objects
      BY DEF RequestInv, RowInv
    <2> QED BY <1>0, <1>2, <2>1 DEF RequestInv, Numbered
  <1>7. OrderInv'
    <2>1. \A v \in Workers : PastSettling(v) => run[v].job \in Jobs
      BY <1>0, <1>4 DEF PastSettling, HandInv
    <2> QED BY <1>2, <1>3, <2>1
            DEF OrderInv, SettledNotLive, LiveIsNewest, NewestPlaced
  <1> QED BY <1>5, <1>6, <1>7

\* Steps that leave the rows alone: runs begin and end, jobs are settled,
\* handlers move on.
LEMMA RunStep ==
    ASSUME TypeInv, TypeInv', RowInv, RequestInv, OrderInv,
           UNCHANGED <<gen, objects, placed, late, req>>, note'.status = note.status,
           \A g \in Jobs :
              \/ job'[g] = job[g]
              \/ job[g] = "open" /\ job'[g] \in {"failed", "dead"}
              \/ /\ job[g] = "open" /\ job'[g] = "complete"
                 /\ late \/ gen[g].status \notin LIVE,
           \A g \in Jobs :
              \/ told'[g] = told[g]
              \/ gen[g].status # "absent" /\ (late \/ gen[g].status \notin LIVE),
           \A v \in Workers : run'[v] # Idle => gen[run'[v].job].status # "absent",
           \A v \in Workers : PastSettling(v)' => late \/ gen[run'[v].job].status \notin LIVE
    PROVE  RowInv' /\ RequestInv' /\ OrderInv'
  <1>1. Created' = Created /\ CompleteRuns' = CompleteRuns
    BY DEF Created, CompleteRuns
  <1>2. RowInv'
    BY <1>1 DEF RowInv, SnapshotBacked
  <1>3. RequestInv'
    BY DEF RequestInv
  <1>4. OrderInv'
    BY <1>1 DEF OrderInv, SettledNotLive, LiveIsNewest, NewestPlaced
  <1> QED BY <1>2, <1>3, <1>4

LEMMA InvRequest ==
    ASSUME Inv, RequestStep
    PROVE  RowInv' /\ RequestInv' /\ OrderInv'
  <1>0. /\ TypeInv /\ TypeInv' /\ RowInv /\ RequestInv /\ OrderInv
        /\ NoteType /\ NoteType' /\ RowType
    BY RequestTypes, TypeParts DEF Inv, TypeInv
  <1>a. UNCHANGED <<placed, h, late>>
    BY RequestFrame DEF workerVars
  <1>b. note.status \in {"absent", "draft", "cancelled", "deleted"}
        /\ note = [status |-> note.status, head |-> note.head]
    BY <1>0 DEF NoteType
  \* No generation is made.
  <1>c. ASSUME UNCHANGED <<gen, contractVars, req>>, objects \subseteq objects',
               note'.status # "absent" \/ note'.status = note.status
        PROVE  RowInv' /\ RequestInv' /\ OrderInv'
    BY <1>0, <1>a, <1>c, QuietRequest DEF contractVars
  \* A generation is made with its object, and no request knows its number.
  <1>d. ASSUME NEW g \in Jobs, PutSnapshot(g), Create(g), ~LiveElsewhere(g), req' = req,
               note'.status # "absent"
        PROVE  RowInv' /\ RequestInv' /\ OrderInv'
    <2>1. gen[g].status = "absent" /\ g \notin objects /\ objects' = objects \cup {g}
      BY <1>d DEF PutSnapshot, FreshId, Created
    <2>2. \A d \in Clients : req[d].pc = "insert" => req[d].id # g
      BY <1>0, <2>1 DEF RequestInv
    <2> QED BY <1>0, <1>a, <1>d, <2>1, <2>2, CreateStep
  <1>e. ASSUME NEW g, PutSnapshot(g) PROVE objects \subseteq objects'
    BY <1>e DEF PutSnapshot
  <1>1. CASE StartMeeting
    BY <1>1, <1>b, <1>c DEF StartMeeting, generationVars
  <1>2. CASE FromTranscript
    <2>1. note'.status = "draft" /\ note.status = "absent" /\ req' = req
      BY <1>2, <1>b DEF FromTranscript
    <2>2. CASE UNCHANGED <<gen, objects, contractVars>>
      BY <1>c, <2>1, <2>2
    <2>3. ASSUME NEW g \in Jobs, PutSnapshot(g), Create(g)
          PROVE  RowInv' /\ RequestInv' /\ OrderInv'
      <3>1. ~LiveElsewhere(g)
        BY <1>0, <2>1 DEF RowInv, LiveElsewhere, Created, LIVE
      <3> QED BY <1>d, <2>1, <2>3, <3>1
    <2> QED BY <1>2, <2>2, <2>3 DEF FromTranscript
  <1>3. CASE AttachJob \/ OverwriteReady \/ AttachCheck
    BY <1>3, <1>c DEF AttachJob, OverwriteReady, AttachCheck, generationVars
  <1>4. CASE AttachTranscript
    <2>0. req' = req /\ note.status # "absent"
      BY <1>4 DEF AttachTranscript, Exists
    <2>1. note'.status = note.status
      BY <1>4, <1>b DEF AttachTranscript, WithTranscript
    <2>2. CASE \E g \in Jobs : PutSnapshot(g) /\ ~LiveElsewhere(g) /\ Create(g)
      BY <1>d, <2>0, <2>1, <2>2
    <2>3. CASE UNCHANGED <<gen, contractVars>> /\ objects \subseteq objects'
      BY <1>c, <2>0, <2>1, <2>3
    <2> QED BY <1>4, <1>e, <2>2, <2>3 DEF AttachTranscript
  <1>5. CASE Leave("cancelled") \/ Leave("deleted")
    BY <1>5, <1>b, <1>c DEF Leave, generationVars
  <1>6. ASSUME NEW c \in Clients, ClientStep(c)
        PROVE  RowInv' /\ RequestInv' /\ OrderInv'
    <2>0. /\ req \in [Clients -> [pc : {"idle", "fetch", "insert"}, id : Jobs \cup {0}]]
          /\ NoRequest.pc = "idle"
      BY <1>0 DEF NoteType, NoRequest
    <2>1. CASE RegenerateCheck(c) \/ RegenerateRefused(c) \/ RequestDies(c)
      <3>1. /\ req'[c].pc # "insert" /\ \A d \in Clients \ {c} : req'[d] = req[d]
        BY <2>0, <2>1 DEF RegenerateCheck, RegenerateRefused, RequestDies
      <3>2. UNCHANGED <<gen, job, run, told, objects, note>>
        BY <2>1 DEF RegenerateCheck, RegenerateRefused, RequestDies, generationVars,
                    contractVars
      <3>3. req[c].pc # "idle" \/ note.status # "absent"
        BY <2>1 DEF RegenerateCheck, RegenerateRefused, RequestDies, Draft
      <3> QED BY <1>0, <1>a, <3>1, <3>2, <3>3, QuietRequest
    <2>2. CASE RegeneratePut(c)
      <3>1. PICK g \in Jobs : /\ PutSnapshot(g)
                              /\ req' = [req EXCEPT ![c] = [pc |-> "insert", id |-> g]]
        BY <2>2 DEF RegeneratePut
      <3>2. UNCHANGED <<gen, job, run, told, note>> /\ req[c].pc # "idle"
        BY <2>2 DEF RegeneratePut, contractVars
      <3>3. gen[g].status = "absent" /\ g \notin objects /\ objects' = objects \cup {g}
        BY <3>1 DEF PutSnapshot, FreshId, Created
      <3>4. req'[c].id = g /\ \A d \in Clients \ {c} : req'[d] = req[d]
        BY <2>0, <3>1
      <3> QED BY <1>0, <1>a, <3>2, <3>3, <3>4, QuietRequest
    <2>3. CASE RegenerateInsert(c)
      <3>1. /\ req'[c].pc # "insert" /\ \A d \in Clients \ {c} : req'[d] = req[d]
            /\ UNCHANGED <<note, objects>> /\ req[c].pc = "insert"
        BY <2>0, <2>3 DEF RegenerateInsert
      <3>2. CASE LiveElsewhere(req[c].id)
        <4>1. UNCHANGED <<gen, job, run, told>>
          BY <2>3, <3>2 DEF RegenerateInsert, contractVars
        <4> QED BY <1>0, <1>a, <3>1, <4>1, QuietRequest
      <3>3. CASE ~LiveElsewhere(req[c].id)
        <4>1. /\ req[c].id \in Jobs /\ req[c].id \in objects
              /\ gen[req[c].id].status = "absent" /\ Create(req[c].id)
          BY <1>0, <2>3, <3>1, <3>3 DEF RegenerateInsert, RequestInv, TypeInv, Numbered
        <4>2. \A d \in Clients : req'[d].pc = "insert" =>
                 req'[d] = req[d] /\ req[d].id # req[c].id
          BY <1>0, <3>1 DEF RequestInv
        <4>3. note'.status # "absent"
          BY <1>0, <3>1 DEF RequestInv
        <4> QED BY <1>0, <1>a, <3>1, <3>3, <4>1, <4>2, <4>3, CreateStep
      <3> QED BY <3>2, <3>3
    <2>4. CASE OpenEditor(c) \/ Save(c)
      <3>1. UNCHANGED <<gen, contractVars, req, objects>>
        BY <2>4 DEF OpenEditor, Save, generationVars
      <3>2. note'.status = note.status
        BY <1>b, <2>4 DEF OpenEditor, Save
      <3> QED BY <1>c, <3>1, <3>2
    <2> QED BY <1>6, <2>1, <2>2, <2>3, <2>4 DEF ClientStep
  <1> QED BY <1>1, <1>2, <1>3, <1>4, <1>5, <1>6 DEF RequestStep

LEMMA InvWorker ==
    ASSUME Inv, NEW w \in Workers, WorkerStep(w)
    PROVE  RowInv' /\ RequestInv' /\ OrderInv'
  <1>0. /\ TypeInv /\ TypeInv' /\ RowInv /\ RequestInv /\ OrderInv
        /\ ContractTypeOK /\ NoteType /\ RowType /\ WorkerType /\ HandInv
    BY WorkerTypes, TypeParts DEF Inv, TypeInv
  <1>a. req' = req /\ (note' = note \/ Commit(w))
    BY WorkerFrame
  <1>b. h \in [Workers -> [pc : HandlerState, used : BOOLEAN]]
    BY <1>0 DEF WorkerType
  <1>c. ASSUME h[w].pc # "idle"
        PROVE  run[w].job \in Jobs /\ gen[run[w].job].status # "absent"
    BY <1>0, <1>c, InHand DEF RowInv
  <1>d. \A v \in Workers : PastSettling(v) => late \/ gen[run[v].job].status \notin LIVE
    BY <1>0 DEF OrderInv, SettledNotLive
  <1>e. ASSUME NEW p, Goto(w, p)
        PROVE  /\ h'[w].pc = p /\ \A v \in Workers \ {w} : h'[v] = h[v]
               /\ \A v \in Workers : PastSettling(v)' =>
                     PastSettling(v) \/ (v = w /\ p \in {"discard", "done"})
    BY <1>b, <1>e DEF Goto, PastSettling
  <1>f. \A v \in Workers : run[v] # Idle => gen[run[v].job].status # "absent"
    BY <1>0 DEF RowInv
  \* The handler moves on and nothing else changes; it comes to "done" only
  \* when it has found its generation settled.
  <1>g. ASSUME NEW p, UNCHANGED <<gen, objects, placed, late, job, run, told>>, note' = note,
               h'[w].pc = p, \A v \in Workers \ {w} : h'[v] = h[v],
               p \notin {"discard", "done"} \/ gen[run[w].job].status \notin LIVE
        PROVE  RowInv' /\ RequestInv' /\ OrderInv'
    <2>1. \A v \in Workers : PastSettling(v)' => late \/ gen[run'[v].job].status \notin LIVE
      BY <1>d, <1>g DEF PastSettling
    <2> QED BY <1>0, <1>a, <1>f, <1>g, <2>1, RunStep
  <1>1. CASE Load(w)
    <2>1. PICK g \in Jobs : g = run[w].job /\ gen[g].status # "absent"
      BY <1>1, <1>c DEF Load, At
    <2>2. /\ UNCHANGED <<job, run, told, objects, placed>> /\ note' = note
      BY <1>1 DEF Load, contractVars, noteVars
    <2>3. CASE Mark(g, "superseded") /\ Late(g) /\ Goto(w, "done")
      <3>1. "superseded" \in LIVE \cup Finished /\ "superseded" \notin LIVE
        BY DEF LIVE, Finished
      <3>2. \A v \in Workers : PastSettling(v)' => PastSettling(v) \/ run[v].job = g
        BY <1>e, <2>1, <2>3
      <3> QED BY <1>0, <1>a, <2>1, <2>2, <2>3, <3>1, <3>2, MarkStep
    <2>4. CASE Goto(w, "raise") /\ UNCHANGED <<gen, late>>
      BY <1>e, <1>g, <2>2, <2>4
    <2>5. CASE /\ Mark(g, "running") /\ Late(g)
               /\ Goto(w, IF gen[g].key THEN "read" ELSE "fail")
      <3>1. "running" \in LIVE \cup Finished
        BY DEF LIVE, Finished
      <3>2. \A v \in Workers : PastSettling(v)' => PastSettling(v)
        BY <1>e, <2>5
      <3> QED BY <1>0, <1>a, <2>1, <2>2, <2>5, <3>1, <3>2, MarkStep
    <2> QED BY <1>1, <2>1, <2>3, <2>4, <2>5 DEF Load
  <1>2. CASE Read(w) \/ DeadLoad(w) \/ CommitFails(w)
    <2>1. UNCHANGED <<gen, objects, placed, late, job, run, told, note>>
      BY <1>2 DEF Read, DeadLoad, CommitFails, contractVars, noteVars
    <2>2. PICK p \in {"write", "fail", "raise", "done"} :
              Goto(w, p) /\ (p = "done" => gen[run[w].job].status \notin LIVE)
      BY <1>2 DEF Read, DeadLoad, CommitFails
    <2> QED BY <1>e, <1>g, <2>1, <2>2
  <1>3. CASE Write(w) \/ CompleteFails(w)
    <2>1. UNCHANGED <<gen, objects, placed, late, job, run, told, note>>
      BY <1>3 DEF Write, CompleteFails, contractVars, noteVars
    <2>2. /\ h'[w].pc \in {"commit", "raise"}
          /\ \A v \in Workers \ {w} : h'[v] = h[v]
      BY <1>3, <1>b DEF Write, CompleteFails
    <2> QED BY <1>g, <2>1, <2>2
  <1>4. CASE Commit(w)
    <2>1. PICK g \in Jobs : g = run[w].job /\ gen[g].status # "absent"
      BY <1>4, <1>c DEF Commit, At
    <2>2. /\ UNCHANGED <<job, run, told, objects>>
          /\ Mark(g, "complete") /\ Late(g) /\ Goto(w, "discard")
      BY <1>4, <2>1 DEF Commit, contractVars
    <2>3. note'.status = note.status
      BY <1>0, <1>4 DEF Commit, Apply, NoteType
    <2>4. placed' \subseteq {g}
      BY <1>4, <2>1 DEF Commit, ReplaceLines
    <2>5. "complete" \in LIVE \cup Finished /\ "complete" \notin LIVE
      BY DEF LIVE, Finished
    <2>6. \A v \in Workers : PastSettling(v)' => PastSettling(v) \/ run[v].job = g
      BY <1>e, <2>1, <2>2
    <2> QED BY <1>0, <1>a, <2>1, <2>2, <2>3, <2>4, <2>5, <2>6, MarkStep
  <1>5. CASE Fail(w)
    <2>1. PICK g \in Jobs : g = run[w].job /\ gen[g].status # "absent"
      BY <1>5, <1>c DEF Fail, At
    <2>2. /\ UNCHANGED <<job, run, told, objects, placed>> /\ note' = note
          /\ Mark(g, "failed") /\ Late(g) /\ Goto(w, "discard")
      BY <1>5, <2>1 DEF Fail, contractVars, noteVars
    <2>3. "failed" \in LIVE \cup Finished /\ "failed" \notin LIVE
      BY DEF LIVE, Finished
    <2>4. \A v \in Workers : PastSettling(v)' => PastSettling(v) \/ run[v].job = g
      BY <1>e, <2>1, <2>2
    <2> QED BY <1>0, <1>a, <2>1, <2>2, <2>3, <2>4, MarkStep
  <1>6. CASE Discard(w) \/ DiscardFails(w)
    <2>1. PICK g \in Jobs : g = run[w].job
      BY <1>6, <1>c DEF Discard, DiscardFails, At
    <2>2. /\ UNCHANGED <<job, run, told, placed, late>> /\ note' = note
          /\ gen' = [gen EXCEPT ![g].key = FALSE]
          /\ objects' \in {objects, objects \ {g}} /\ (gen[g].key \/ objects' = objects)
          /\ h[w].pc = "discard" /\ Goto(w, "done")
      BY <1>6, <2>1 DEF Discard, DiscardFails, At, contractVars, noteVars
    <2>3. \A v \in Workers : PastSettling(v)' => PastSettling(v)
      BY <1>e, <2>2 DEF PastSettling
    <2> QED BY <1>0, <1>a, <2>2, <2>3, KeyStep
  \* The end of a run.
  <1>7. CASE Completes(w) \/ Retries(w) \/ DeadTold(w) \/ DeadFails(w) \/ Crash(w)
    <2>1. /\ UNCHANGED <<gen, objects, placed, late>> /\ note' = note /\ HandlerEnds(w)
          /\ End(w, "complete") \/ Release(w) \/ Tell(w) \/ Die(w)
      BY <1>7 DEF Completes, Retries, DeadTold, DeadFails, Crash, noteVars
    <2>2. h[w].pc # "idle" /\ run[w] # Idle
      BY <1>0, <1>7 DEF Completes, Retries, DeadTold, DeadFails, Crash, At, HandInv
    <2>3. h'[w].pc = "idle" /\ \A v \in Workers \ {w} : h'[v] = h[v]
      BY <1>b, <2>1 DEF HandlerEnds, IdleHandler
    <2>4. /\ run'[w] = Idle /\ \A v \in Workers \ {w} : run'[v] = run[v]
          /\ \A g \in Jobs : \/ job'[g] = job[g]
                             \/ /\ job[g] = "open" /\ job'[g] = "complete"
                                /\ g = run[w].job /\ End(w, "complete")
          /\ \A g \in Jobs : \/ told'[g] = told[g]
                             \/ g = run[w].job /\ Tell(w)
      BY <1>0, <2>1, <2>2, EndType
    <2>5. ASSUME NEW g \in Jobs, job'[g] # job[g]
          PROVE  /\ job[g] = "open" /\ job'[g] = "complete"
                 /\ late \/ gen[g].status \notin LIVE
      <3>1. /\ job[g] = "open" /\ job'[g] = "complete"
            /\ g = run[w].job /\ End(w, "complete")
        BY <2>4, <2>5
      <3>2. h[w].pc = "done"
        BY <1>7, <2>5 DEF Completes, At, Retries, Release, DeadTold, DeadFails, Tell,
                         Crash, Die
      <3> QED BY <1>d, <3>1, <3>2 DEF PastSettling
    <2>6. ASSUME NEW g \in Jobs, told'[g] # told[g]
          PROVE  gen[g].status # "absent" /\ (late \/ gen[g].status \notin LIVE)
      <3>1. g = run[w].job
        BY <2>4, <2>6
      <3>2. h[w].pc = "done"
        BY <1>7, <2>6 DEF DeadTold, At, Completes, End, Retries, Release, DeadFails,
                         Crash, Die
      <3> QED BY <1>c, <1>d, <3>1, <3>2 DEF PastSettling
    <2>7. \A v \in Workers : /\ run'[v] # Idle => gen[run'[v].job].status # "absent"
                             /\ PastSettling(v)' => late \/ gen[run'[v].job].status \notin LIVE
      BY <1>d, <1>f, <2>3, <2>4 DEF PastSettling
    <2> QED BY <1>0, <1>a, <2>1, <2>5, <2>6, <2>7, RunStep
  <1>8. CASE GivesUp(w)
    <2>1. /\ UNCHANGED <<gen, objects, placed, late>> /\ note' = note
          /\ GiveUp(w) /\ Goto(w, "dead_load")
      BY <1>8 DEF GivesUp, noteVars
    <2>2. /\ run'[w].job = run[w].job /\ told' = told /\ run[w] # Idle
          /\ \A v \in Workers \ {w} : run'[v] = run[v]
          /\ \A g \in Jobs : \/ job'[g] = job[g]
                             \/ job[g] = "open" /\ job'[g] \in {"failed", "dead"}
      BY <1>0, <2>1, GiveUpType
    <2>3. \A v \in Workers : /\ run'[v] # Idle => gen[run'[v].job].status # "absent"
                             /\ PastSettling(v)' => late \/ gen[run'[v].job].status \notin LIVE
      BY <1>d, <1>e, <1>f, <2>1, <2>2 DEF PastSettling
    <2> QED BY <1>0, <1>a, <2>1, <2>2, <2>3, RunStep
  <1>9. CASE \E g \in Jobs : BeginRun(w, g)
    <2>0. PICK g \in Jobs : BeginRun(w, g)
      BY <1>9
    <2>1. /\ UNCHANGED <<gen, objects, placed, late>> /\ note' = note /\ Begin(w, g)
          /\ h' = [h EXCEPT ![w] = [pc |-> "load", used |-> FALSE]]
      BY <2>0 DEF BeginRun, noteVars
    <2>2. /\ run'[w].job = g /\ job' = job /\ told' = told /\ job[g] # "absent"
          /\ \A v \in Workers \ {w} : run'[v] = run[v]
      BY <1>0, <2>1, BeginType
    <2>3. h'[w].pc = "load" /\ \A v \in Workers \ {w} : h'[v] = h[v]
      BY <1>b, <2>1
    <2>4. gen[g].status # "absent"
      BY <1>0, <2>2 DEF RowInv
    <2>5. \A v \in Workers : /\ run'[v] # Idle => gen[run'[v].job].status # "absent"
                             /\ PastSettling(v)' => late \/ gen[run'[v].job].status \notin LIVE
      BY <1>d, <1>f, <2>2, <2>3, <2>4 DEF PastSettling
    <2> QED BY <1>0, <1>a, <2>1, <2>2, <2>5, RunStep
  <1> QED BY <1>1, <1>2, <1>3, <1>4, <1>5, <1>6, <1>7, <1>8, <1>9
          DEF WorkerStep, HandlerStep, HandlerFault

LEMMA InvOther ==
    ASSUME Inv, NEW g \in Jobs, Buried(g) \/ Sweep(g) \/ SweepFails(g)
    PROVE  RowInv' /\ RequestInv' /\ OrderInv'
  <1>0. /\ TypeInv /\ TypeInv' /\ RowInv /\ RequestInv /\ OrderInv
        /\ ContractTypeOK /\ UNCHANGED <<noteVars, placed, h, late, run, told>>
    BY OtherTypes, TypeParts DEF Inv, TypeInv
  <1>1. note' = note /\ req' = req /\ \A v \in Workers : PastSettling(v)' <=> PastSettling(v)
    BY <1>0 DEF noteVars, PastSettling
  <1>2. CASE Sweep(g) \/ SweepFails(g)
    <2>1. /\ gen' = [gen EXCEPT ![g].key = FALSE] /\ job' = job
          /\ objects' \in {objects, objects \ {g}} /\ gen[g].key
      BY <1>2 DEF Sweep, SweepFails, StaleSnapshot, contractVars
    <2> QED BY <1>0, <1>1, <2>1, KeyStep
  <1>3. CASE Buried(g)
    <2>1. UNCHANGED <<gen, objects>> /\ job' = [job EXCEPT ![g] = "dead"] /\ job[g] = "open"
      BY <1>3 DEF Buried
    <2>2. \A k \in Jobs : job'[k] = job[k] \/ (job[k] = "open" /\ job'[k] = "dead")
      BY <1>0, <2>1 DEF ContractTypeOK
    <2>3. \A v \in Workers : /\ run'[v] # Idle => gen[run'[v].job].status # "absent"
                             /\ PastSettling(v)' => late \/ gen[run'[v].job].status \notin LIVE
      BY <1>0, <1>1 DEF RowInv, OrderInv, SettledNotLive
    <2> QED BY <1>0, <1>1, <2>1, <2>2, <2>3, RunStep
  <1> QED BY <1>2, <1>3

LEMMA InvStep == Inv /\ [Next]_vars => Inv'
  <1> SUFFICES ASSUME Inv, [Next]_vars PROVE RowInv' /\ RequestInv' /\ OrderInv'
    BY TypeStep DEF Inv
  <1>1. CASE UNCHANGED vars
    BY <1>1 DEF vars, contractVars, noteVars, Inv, RowInv, SnapshotBacked, Created,
                RequestInv, OrderInv, SettledNotLive, PastSettling, LiveIsNewest,
                NewestPlaced, CompleteRuns
  <1>2. CASE Next
    BY <1>2, NextSplit, InvRequest, InvWorker, InvOther
  <1> QED BY <1>1, <1>2

\* A row that names a snapshot has one, in every interleaving of start(), the
\* handler's discards and the sweeper.
THEOREM SnapshotsBacked == Spec => []SnapshotBacked
  <1>1. Inv => SnapshotBacked
    BY DEF Inv, RowInv
  <1> QED BY <1>1, InvInit, InvStep, PTL DEF Spec

\* A live generation has an open job, or its end was never told to the handler,
\* until a run comes back to a settled generation.
THEOREM LiveGenerationsServed == Spec => []LiveIsServed
  <1>1. Inv => LiveIsServed
    <2> SUFFICES ASSUME Inv, ~late, NEW g \in Jobs, gen[g].status \in LIVE
                 PROVE  job[g] = "open" \/ Untold(g)
      BY DEF LiveIsServed
    <2>1. ~told[g] /\ job[g] # "complete" /\ job[g] # "cancelled" /\ job[g] # "absent"
      BY DEF Inv, OrderInv, SettledNotLive, RowInv, LIVE
    <2>2. job[g] \in {"absent", "open"} \cup Settled
      BY DEF Inv, TypeInv, TypeOK, ContractTypeOK
    <2> QED BY <2>1, <2>2 DEF Untold, Settled
  <1> QED BY <1>1, InvInit, InvStep, PTL DEF Spec

\* The placed items are never older than a complete generation, until a run
\* comes back to a settled one.
THEOREM NewestIsShown == Spec => []NewestShownInTime
  <1>1. Inv => NewestShownInTime
    BY DEF Inv, OrderInv, NewestPlaced, NewestShownInTime
  <1> QED BY <1>1, InvInit, InvStep, PTL DEF Spec

-----------------------------------------------------------------------------
(* The head version: who may write it, and what each writer knows of it.   *)

NextVersion(d) == [d EXCEPT !.version = @ + 1]

\* An editor is behind the head version or has loaded it.  Before the first
\* version is written, the note is empty.
HeadInv ==
    /\ note.head.version >= 1
    /\ note.head.version = 1 => note.head = EmptyHead
    /\ \A c \in Clients :
          /\ editor[c].version <= note.head.version
          /\ editor[c].version = note.head.version => editor[c] = note.head

\* A note is added a recording's transcript by a meeting that is bound and not
\* ready, and the meeting is ready with it.
MeetingInv ==
    /\ note.status = "absent" => meeting = NoMeeting
    /\ meeting.state = "ready" \/ meeting.fetching \/ meeting.texts > 0 => meeting.bound
    /\ meeting.overwritten \/ meeting.texts = 0 \/ (meeting.texts = 1 /\ meeting.state = "ready")

\* The three writers of a version: attach_transcript(), the commit of a
\* generation, a save; everything else leaves the head version as it is.
HeadKept == note'.head = note.head

TranscriptVersion ==
    /\ note'.head = NextVersion(note.head) /\ editor' = editor
    /\ meeting.state # "ready" /\ meeting'.state = "ready"

CommitVersion(g) ==
    /\ Draft /\ editor' = editor /\ placed' = {g}
    /\ note'.head = [NextVersion(note.head) EXCEPT !.shown = g]

SaveVersion(c) ==
    /\ Draft /\ editor[c].version = note.head.version
    /\ editor' = [editor EXCEPT ![c] = EmptyHead]
    /\ \E k : note'.head = [version |-> editor[c].version + 1,
                            edits   |-> editor[c].edits \cup {k},
                            shown   |-> editor[c].shown]

\* What a client knows changes when it loads the note or loses it.
EditorsFit ==
    \A c \in Clients : editor'[c] \in {editor[c], note.head, EmptyHead}

LEMMA WritersRequest ==
    ASSUME TypeInv, RequestStep
    PROVE  \/ HeadKept /\ EditorsFit
           \/ TranscriptVersion
           \/ \E c \in Clients : SaveVersion(c)
  <1>0. /\ note \in [status : {"absent", "draft", "cancelled", "deleted"}, head : Head]
        /\ editor \in [Clients -> Head] /\ note.head \in Head /\ meeting \in Meeting
    BY DEF TypeInv, TypeOK
  <1>1. CASE StartMeeting \/ FromTranscript
    BY <1>0, <1>1 DEF StartMeeting, FromTranscript, HeadKept, EditorsFit
  <1>2. CASE AttachJob \/ OverwriteReady \/ AttachCheck
    BY <1>0, <1>2 DEF AttachJob, OverwriteReady, AttachCheck, HeadKept, EditorsFit
  <1>3. CASE AttachTranscript
    <2>1. editor' = editor /\ meeting.state # "ready"
      BY <1>3 DEF AttachTranscript, Attached
    <2>2. CASE note' = note
      BY <2>1, <2>2 DEF HeadKept, EditorsFit
    <2>3. CASE note' # note
      <3>1. /\ note' = [note EXCEPT !.head.version = @ + 1]
            /\ \E x : meeting' = [meeting EXCEPT !.state = "ready", !.texts = x]
        BY <1>3, <2>3 DEF AttachTranscript, WithTranscript
      <3>2. note'.head = NextVersion(note.head)
        BY <1>0, <3>1 DEF NextVersion
      <3>3. meeting'.state = "ready"
        BY <1>0, <3>1 DEF Meeting
      <3> QED BY <2>1, <3>2, <3>3 DEF TranscriptVersion
    <2> QED BY <2>2, <2>3
  <1>4. ASSUME NEW s \in {"cancelled", "deleted"}, Leave(s)
        PROVE  HeadKept /\ EditorsFit
    BY <1>0, <1>4 DEF Leave, HeadKept, EditorsFit
  <1>5. ASSUME NEW c \in Clients, ClientStep(c)
        PROVE  (HeadKept /\ EditorsFit) \/ SaveVersion(c)
    <2>1. CASE Save(c)
      <3>1. /\ Draft /\ editor[c].version = note.head.version
            /\ editor' = [editor EXCEPT ![c] = EmptyHead]
            /\ note' = [note EXCEPT !.head =
                  [version |-> editor[c].version + 1,
                   edits   |-> editor[c].edits \cup {1 + Cardinality(note.head.edits)},
                   shown   |-> editor[c].shown]]
        BY <2>1 DEF Save, HeadIs
      <3> QED BY <1>0, <3>1 DEF SaveVersion
    <2>2. CASE OpenEditor(c)
      BY <1>0, <2>2 DEF OpenEditor, HeadKept, EditorsFit
    <2>3. CASE ~Save(c) /\ ~OpenEditor(c)
      <3>1. note' = note /\ editor' = editor
        BY <1>5, <2>3 DEF ClientStep, RegenerateCheck, RegeneratePut, RegenerateRefused,
                          RegenerateInsert, RequestDies
      <3> QED BY <3>1 DEF HeadKept, EditorsFit
    <2> QED BY <2>1, <2>2, <2>3
  <1> QED BY <1>1, <1>2, <1>3, <1>4, <1>5 DEF RequestStep

LEMMA WritersWorker ==
    ASSUME TypeInv, NEW w \in Workers, WorkerStep(w)
    PROVE  /\ UNCHANGED <<meeting, editor>> /\ note'.status = note.status
           /\ HeadKept \/ \E g \in Jobs : CommitVersion(g)
  <1>0. note \in [status : {"absent", "draft", "cancelled", "deleted"}, head : Head]
        /\ note.head \in Head
    BY DEF TypeInv, TypeOK
  <1>1. UNCHANGED <<meeting, editor>> /\ (note' = note \/ Commit(w))
    BY WorkerFrame
  <1>2. CASE note' = note
    BY <1>1, <1>2 DEF HeadKept
  <1>3. CASE note' # note /\ Commit(w)
    <2>1. PICK g \in Jobs : g = run[w].job
      BY <1>3, InHand DEF Commit, At
    <2>2. /\ Draft /\ placed' = {g}
          /\ note' = [note EXCEPT !.head.version = @ + 1, !.head.shown = g]
      BY <1>3, <2>1 DEF Commit, ReplaceLines, Apply
    <2>3. /\ note'.status = note.status
          /\ note'.head = [NextVersion(note.head) EXCEPT !.shown = g]
      BY <1>0, <2>2 DEF NextVersion
    <2> QED BY <1>1, <2>1, <2>2, <2>3 DEF CommitVersion
  <1> QED BY <1>1, <1>2, <1>3

\* Every step, the stuttering one too.
LEMMA Writers ==
    ASSUME TypeInv, [Next]_vars
    PROVE  \/ HeadKept /\ EditorsFit
           \/ TranscriptVersion
           \/ \E c \in Clients : SaveVersion(c)
           \/ \E g \in Jobs : CommitVersion(g)
  <1>1. CASE UNCHANGED vars
    BY <1>1 DEF vars, noteVars, HeadKept, EditorsFit
  <1>2. CASE RequestStep
    BY <1>2, WritersRequest
  <1>3. CASE \E w \in Workers : WorkerStep(w)
    <2>1. editor' = editor /\ (HeadKept \/ \E g \in Jobs : CommitVersion(g))
      BY <1>3, WritersWorker
    <2> QED BY <2>1 DEF EditorsFit
  <1>4. CASE \E g \in Jobs : Buried(g) \/ Sweep(g) \/ SweepFails(g)
    <2>1. UNCHANGED noteVars
      BY <1>4, OtherTypes
    <2> QED BY <2>1 DEF noteVars, HeadKept, EditorsFit
  <1> QED BY <1>1, <1>2, <1>3, <1>4, NextSplit

LEMMA HeadStep ==
    ASSUME TypeInv, HeadInv, [Next]_vars
    PROVE  HeadInv'
  <1>0. /\ note.head \in Head /\ editor \in [Clients -> Head]
        /\ note.head.version \in Nat /\ EmptyHead.version = 1
        /\ \A c \in Clients : editor[c].version \in Nat
    BY DEF TypeInv, TypeOK, Head, EmptyHead
  <1>1. CASE HeadKept /\ EditorsFit
    BY <1>0, <1>1 DEF HeadKept, EditorsFit, HeadInv
  <1>2. ASSUME note'.head.version = note.head.version + 1,
               \A c \in Clients : editor'[c] = editor[c] \/ editor'[c] = EmptyHead
        PROVE  HeadInv'
    BY <1>0, <1>2 DEF HeadInv
  <1>3. NextVersion(note.head).version = note.head.version + 1
        /\ \A g : [NextVersion(note.head) EXCEPT !.shown = g].version = note.head.version + 1
    BY <1>0 DEF NextVersion, Head
  <1>4. CASE TranscriptVersion
    BY <1>2, <1>3, <1>4 DEF TranscriptVersion
  <1>5. CASE \E g \in Jobs : CommitVersion(g)
    BY <1>2, <1>3, <1>5 DEF CommitVersion
  <1>6. CASE \E c \in Clients : SaveVersion(c)
    BY <1>0, <1>2, <1>6 DEF SaveVersion
  <1> QED BY <1>1, <1>4, <1>5, <1>6, Writers

\* The meeting's row changes by requests, of which attach_transcript() is the
\* only one to count up.
LEMMA MeetingStep ==
    ASSUME TypeInv, MeetingInv, [Next]_vars
    PROVE  MeetingInv'
  <1>0. /\ note \in [status : {"absent", "draft", "cancelled", "deleted"}, head : Head]
        /\ meeting \in Meeting /\ meeting.texts \in Nat
    BY DEF TypeInv, TypeOK, Meeting
  <1>1. ASSUME meeting' = meeting, note'.status = "absent" => note.status = "absent"
        PROVE  MeetingInv'
    BY <1>1 DEF MeetingInv
  <1>2. CASE RequestStep
    <2>1. CASE StartMeeting \/ FromTranscript
      <3>1. /\ meeting' \in {[NoMeeting EXCEPT !.state = "open"],
                             [NoMeeting EXCEPT !.bound = TRUE]}
            /\ note'.status = "draft"
        BY <1>0, <2>1 DEF StartMeeting, FromTranscript
      <3> QED BY <3>1 DEF MeetingInv, NoMeeting
    <2>2. CASE AttachJob
      <3>1. /\ meeting' = [meeting EXCEPT !.state = "open", !.bound = TRUE]
            /\ ~meeting.bound /\ note' = note /\ note.status # "absent"
        BY <2>2 DEF AttachJob, Exists
      <3>2. /\ meeting'.state = "open" /\ meeting'.bound /\ meeting'.texts = meeting.texts
            /\ meeting'.overwritten = meeting.overwritten
        BY <1>0, <3>1 DEF Meeting
      <3> QED BY <1>0, <3>1, <3>2 DEF MeetingInv
    <2>3. CASE OverwriteReady
      <3>1. /\ meeting' = [meeting EXCEPT !.state = "open", !.overwritten = TRUE]
            /\ meeting.state = "ready" /\ note' = note
        BY <2>3 DEF OverwriteReady
      <3>2. meeting'.overwritten /\ meeting'.bound = meeting.bound
        BY <1>0, <3>1 DEF Meeting
      <3>3. meeting.bound /\ note.status # "absent"
        BY <3>1 DEF MeetingInv, NoMeeting
      <3> QED BY <3>1, <3>2, <3>3 DEF MeetingInv
    <2>4. CASE AttachCheck
      <3>1. /\ meeting' = [meeting EXCEPT !.fetching = TRUE]
            /\ meeting.bound /\ note' = note /\ note.status = "draft"
        BY <2>4 DEF AttachCheck, Draft
      <3>2. /\ meeting'.state = meeting.state /\ meeting'.bound
            /\ meeting'.texts = meeting.texts /\ meeting'.overwritten = meeting.overwritten
        BY <1>0, <3>1 DEF Meeting
      <3> QED BY <3>1, <3>2 DEF MeetingInv
    <2>5. CASE AttachTranscript
      <3>1. meeting.fetching /\ note.status # "absent" /\ meeting.state # "ready"
        BY <2>5 DEF AttachTranscript, Exists, Attached
      <3>2. meeting.bound /\ (meeting.overwritten \/ meeting.texts = 0)
        BY <3>1 DEF MeetingInv
      <3>3. CASE note' = note /\ meeting' = meeting
        BY <1>1, <3>3
      <3>4. ASSUME NEW changed \in BOOLEAN, WithTranscript(changed)
            PROVE  MeetingInv'
        <4>1. /\ meeting'.state = "ready" /\ meeting'.bound = meeting.bound
              /\ meeting'.overwritten = meeting.overwritten
              /\ meeting'.texts \in {meeting.texts, meeting.texts + 1}
          BY <1>0, <3>4 DEF WithTranscript, Meeting
        <4>2. note'.status = note.status
          BY <1>0, <3>4 DEF WithTranscript
        <4> QED BY <1>0, <3>1, <3>2, <4>1, <4>2 DEF MeetingInv
      <3> QED BY <2>5, <3>3, <3>4 DEF AttachTranscript
    <2>6. CASE Leave("cancelled") \/ Leave("deleted")
      BY <1>0, <1>1, <2>6 DEF Leave
    <2>7. ASSUME NEW c \in Clients, ClientStep(c)
          PROVE  meeting' = meeting /\ note'.status = note.status
      <3>1. meeting' = meeting /\ (note' = note \/ \E x : note' = [note EXCEPT !.head = x])
        BY <2>7 DEF ClientStep, RegenerateCheck, RegeneratePut, RegenerateRefused,
                    RegenerateInsert, RequestDies, OpenEditor, Save
      <3> QED BY <1>0, <3>1
    <2> QED BY <1>1, <1>2, <2>1, <2>2, <2>3, <2>4, <2>5, <2>6, <2>7 DEF RequestStep
  <1>3. CASE \E w \in Workers : WorkerStep(w)
    BY <1>1, <1>3, WritersWorker
  <1>4. CASE UNCHANGED noteVars
    BY <1>1, <1>4 DEF noteVars
  <1>5. CASE \E g \in Jobs : Buried(g) \/ Sweep(g) \/ SweepFails(g)
    BY <1>4, <1>5, OtherTypes
  <1> QED BY <1>2, <1>3, <1>4, <1>5, NextSplit DEF vars

\* A note that is gone gets no version from a save or a commit.
LEMMA GoneStep ==
    ASSUME TypeInv, [Next]_vars, note.status \in {"cancelled", "deleted"}
    PROVE  note'.head = note.head \/ meeting'.state # meeting.state
  BY Writers DEF HeadKept, TranscriptVersion, SaveVersion, CommitVersion, Draft

LEMMA VersionStep ==
    ASSUME TypeInv, HeadInv, [Next]_vars
    PROVE  /\ note.head.edits \subseteq note'.head.edits
           /\ note'.head.shown # note.head.shown => placed' = {note'.head.shown}
  <1>0. note.head \in Head /\ editor \in [Clients -> Head]
    BY DEF TypeInv, TypeOK
  <1>1. CASE HeadKept
    BY <1>1 DEF HeadKept
  <1>2. CASE TranscriptVersion
    BY <1>0, <1>2 DEF TranscriptVersion, NextVersion, Head
  <1>3. CASE \E g \in Jobs : CommitVersion(g)
    BY <1>0, <1>3 DEF CommitVersion, NextVersion, Head
  <1>4. ASSUME NEW c \in Clients, SaveVersion(c)
        PROVE  note.head.edits \subseteq note'.head.edits /\ note'.head.shown = note.head.shown
    <2>1. editor[c] = note.head
      BY <1>4 DEF SaveVersion, HeadInv
    <2> QED BY <1>4, <2>1 DEF SaveVersion
  <1> QED BY <1>1, <1>2, <1>3, <1>4, Writers

LEMMA HeadInit == Init => HeadInv /\ MeetingInv
  BY DEF Init, HeadInv, MeetingInv, EmptyHead, NoMeeting

\* No version undoes what another writer wrote: a save that is accepted was made
\* on the head version, and the sections change only by a generation's commit.
THEOREM NothingIsReverted == Spec => NothingReverted
  <1>1. TypeInv /\ HeadInv /\ [Next]_vars =>
            [/\ note.head.edits \subseteq note'.head.edits
             /\ note'.head.shown # note.head.shown => placed' = {note'.head.shown}]_vars
    BY VersionStep
  <1> QED BY <1>1, TypeInit, TypeStep, HeadInit, HeadStep, PTL DEF Spec, NothingReverted

\* A worker or an editor adds no version to a note that is gone.
THEOREM GoneNotesLeftAlone == Spec => GoneIsLeftAlone
  <1>1. TypeInv /\ [Next]_vars =>
            [note.status \in {"cancelled", "deleted"} =>
               note'.head = note.head \/ meeting'.state # meeting.state]_vars
    BY GoneStep
  <1> QED BY <1>1, TypeInit, TypeStep, PTL DEF Spec, GoneIsLeftAlone

\* The transcript is in the note once, however many devices report the end of
\* the recording, unless a stale request wrote over "ready".
THEOREM TranscriptIsThereOnce == Spec => []TranscriptOnce
  <1>1. TypeInv /\ MeetingInv => TranscriptOnce
    BY DEF TypeInv, TypeOK, Meeting, MeetingInv, TranscriptOnce
  <1> QED BY <1>1, TypeInit, TypeStep, HeadInit, MeetingStep, PTL DEF Spec

=============================================================================
