---------------------------- MODULE NoteMoveProofs ----------------------------
(***************************************************************************)
(* Theorems about NoteMove, for every number of workspaces, moves, runs    *)
(* and workers.                                                            *)
(***************************************************************************)
EXTENDS NoteMove, SequenceTheorems, TLAPS

-----------------------------------------------------------------------------
(* The inductive invariants.                                               *)

\* The job of the note's last move.
Last(j) == job[j] # "absent" /\ \A i \in Jobs : i > j => job[i] = "absent"

MoveRow == [from : Workspaces, to : Workspaces]

HandlerRow == [pc : {"idle", "plan", "put", "point", "delete", "audit", "dead"},
               left : Seq(Item), old : BOOLEAN]

\* A handler is in hand exactly while its worker runs a job, and in on_dead
\* exactly while the job's end is being told.
HandInv ==
    \A w \in Workers :
        /\ h[w].pc = "idle" <=> run[w] = Idle
        /\ h[w].pc = "dead" => run[w].phase = "on_dead"
        /\ h[w].pc \in {"point", "delete"} => h[w].left # << >>

\* The moves are numbered in the order they were made, each between two
\* workspaces, and the last one says where the note is.
MoveInv ==
    /\ \A i, j \in Jobs : i < j /\ job[j] # "absent" => job[i] # "absent"
    /\ \A j \in Jobs : job[j] # "absent" => move[j] \in MoveRow /\ move[j].from # move[j].to
    /\ \A j \in Jobs : Last(j) => move[j].to = note.ws
    /\ \A w \in Workers : run[w] # Idle => job[run[w].job] # "absent"
    /\ \A j \in Jobs : told[j] => job[j] # "absent"

TypeInv == TypeOK /\ HandInv /\ MoveInv

\* While the media are on their way, the job of the last move has not ended
\* well, nobody was told of its end, and no run of it is past the last object.
ServedInv ==
    /\ note.media # "ready" => \E j \in Jobs : Last(j)
    /\ \A j \in Jobs :
          /\ job[j] # "cancelled"
          /\ Last(j) /\ note.media = "rehoming" =>
                /\ job[j] # "complete" /\ ~told[j]
                /\ \A w \in Workers : run[w].job = j => h[w].pc # "audit"

\* Whoever is at work is so for the last move.
WorkInv == \A w \in Workers : Working(w) => Last(run[w].job)

AtHome(k, ws) == k.ws = ws /\ k \in copies

\* What a row names is at the destination, or is still named at the origin and
\* has a copy at one of the two.
Underway(k, from, to) ==
    \/ AtHome(k, to)
    \/ k.ws = from /\ (k \in copies \/ At(k.obj, to) \in copies)

Placed(k) ==
    /\ note.media = "ready" => AtHome(k, note.ws)
    /\ \A j \in Jobs : Last(j) /\ note.media # "ready" =>
          Underway(k, move[j].from, move[j].to)

MediaInv ==
    /\ \A c, d \in Columns :
          c # d /\ rows[c] # NoUri /\ rows[d] # NoUri => rows[c].obj # rows[d].obj
    /\ \A c \in Columns : rows[c] # NoUri => Placed(rows[c])

\* What is left to do covers every row that still names the origin.
LeftInv ==
    \A w \in Workers : AtWork(w) =>
        /\ \A i \in 1 .. Len(h[w].left) : h[w].left[i].col # "none" =>
              /\ rows[h[w].left[i].col] # NoUri
              /\ h[w].left[i].obj = rows[h[w].left[i].col].obj
        /\ \A c \in Columns : rows[c] # NoUri /\ rows[c].ws # To(w) =>
              \E i \in 1 .. Len(h[w].left) :
                  /\ h[w].left[i] = [col |-> c, obj |-> rows[c].obj, ws |-> rows[c].ws]
                  /\ h[w].pc = "delete" => i # 1
        /\ h[w].pc \in {"point", "delete"} => At(Head(h[w].left).obj, To(w)) \in copies

HomeInv == ~disturbed => WorkInv /\ MediaInv /\ LeftInv

-----------------------------------------------------------------------------
(* What the steps of the queue's contract do to a worker's run.            *)

RunType == [job : Jobs, phase : {"run", "on_dead"}]

LEMMA RunTypes ==
    ASSUME ContractTypeOK, NEW w \in Workers
    PROVE  /\ run[w] = Idle \/ run[w] \in RunType
           /\ run[w] \in RunType => run[w] # Idle /\ run[w].job \in Jobs
           /\ run[w] = Idle => run[w].job \notin Jobs /\ run[w].phase = "idle"
  BY ContractAssumption DEF ContractTypeOK, RunType, Idle

LEMMA BeginEffect ==
    ASSUME ContractTypeOK, NEW w \in Workers, NEW j \in Jobs, Begin(w, j)
    PROVE  /\ ContractTypeOK' /\ run[w] = Idle /\ run'[w] = [job |-> j, phase |-> "run"]
           /\ run'[w] # Idle /\ run'[w].job = j /\ UNCHANGED <<job, told>>
           /\ job[j] # "absent" /\ \A v \in Workers \ {w} : run'[v] = run[v]
  <1>1. /\ run' = [run EXCEPT ![w] = [job |-> j, phase |-> "run"]]
        /\ UNCHANGED <<job, told>> /\ run[w] = Idle /\ job[j] # "absent"
    BY DEF Begin
  <1>2. /\ run'[w] = [job |-> j, phase |-> "run"]
        /\ \A v \in Workers \ {w} : run'[v] = run[v]
    BY <1>1 DEF ContractTypeOK
  <1>3. ContractTypeOK'
    BY <1>1 DEF ContractTypeOK
  <1>4. run'[w] # Idle /\ run'[w].job = j
    BY <1>2 DEF Idle
  <1> QED BY <1>1, <1>2, <1>3, <1>4

\* The steps that end a run.
LEMMA EndEffect ==
    ASSUME ContractTypeOK, NEW w \in Workers, run[w] # Idle,
           End(w, "complete") \/ Release(w) \/ Tell(w) \/ Die(w)
    PROVE  /\ ContractTypeOK' /\ run'[w] = Idle /\ run[w].job \in Jobs
           /\ \A v \in Workers \ {w} : run'[v] = run[v]
           /\ \A j \in Jobs : \/ job'[j] = job[j]
                              \/ /\ job[j] = "open" /\ job'[j] = "complete"
                                 /\ j = run[w].job /\ End(w, "complete")
           /\ \A j \in Jobs : told'[j] = told[j] \/ (j = run[w].job /\ Tell(w))
  <1>1. run' = [run EXCEPT ![w] = Idle]
    BY DEF End, Release, Tell, Die
  <1>2. run'[w] = Idle /\ \A v \in Workers \ {w} : run'[v] = run[v]
    BY <1>1 DEF ContractTypeOK
  <1>3. run[w].job \in Jobs
    BY RunTypes
  <1>4. CASE End(w, "complete")
    <2>1. told' = told /\ Settle(run[w].job, "complete")
      BY <1>4 DEF End
    <2> QED BY <1>1, <1>2, <1>3, <1>4, <2>1 DEF ContractTypeOK, Settle, Settled
  <1>5. CASE Release(w) \/ Die(w)
    BY <1>1, <1>2, <1>3, <1>5 DEF Release, Die, ContractTypeOK
  <1>6. CASE Tell(w)
    BY <1>1, <1>2, <1>3, <1>6 DEF Tell, ContractTypeOK
  <1> QED BY <1>4, <1>5, <1>6

LEMMA GiveUpEffect ==
    ASSUME ContractTypeOK, NEW w \in Workers, GiveUp(w)
    PROVE  /\ ContractTypeOK' /\ run'[w] # Idle /\ run[w] # Idle /\ run[w].job \in Jobs
           /\ run'[w].job = run[w].job /\ run'[w].phase = "on_dead" /\ told' = told
           /\ \A v \in Workers \ {w} : run'[v] = run[v]
           /\ \A j \in Jobs : \/ job'[j] = job[j]
                              \/ job[j] = "open" /\ job'[j] \in {"failed", "dead"}
  <1>1. run' = [run EXCEPT ![w].phase = "on_dead"] /\ told' = told
    BY DEF GiveUp
  <1>2. run[w] # Idle
    BY DEF GiveUp, Running, Idle
  <1>3. run[w] \in RunType /\ run[w].job \in Jobs
    BY <1>2, RunTypes
  <1>4. /\ run'[w] = [job |-> run[w].job, phase |-> "on_dead"]
        /\ \A v \in Workers \ {w} : run'[v] = run[v]
    BY <1>1, <1>3 DEF ContractTypeOK, RunType
  <1>5. run'[w] # Idle /\ run'[w].job = run[w].job
    BY <1>4 DEF Idle
  <1>6. run' \in [Workers -> RunType \cup {Idle}]
    BY <1>1, <1>3, <1>4 DEF ContractTypeOK, RunType
  <1>7. /\ job' \in [Jobs -> {"absent", "open"} \cup Settled]
        /\ \A j \in Jobs : \/ job'[j] = job[j]
                           \/ job[j] = "open" /\ job'[j] \in {"failed", "dead"}
    BY <1>3 DEF GiveUp, Settle, Settled, ContractTypeOK
  <1> QED BY <1>1, <1>2, <1>3, <1>4, <1>5, <1>6, <1>7 DEF ContractTypeOK, RunType

-----------------------------------------------------------------------------
(* Type correctness.                                                       *)

MediaType == rows \in [Columns -> Key \cup {NoUri}] /\ copies \subseteq Key

PlaceType ==
    /\ note \in NoteRow
    /\ stub \in [Workspaces -> Workspaces \cup {Nowhere}]
    /\ move \in [Jobs -> MoveRow \cup {NoUri}]

CountType == runs \in 0 .. MaxRuns /\ disturbed \in BOOLEAN

HandlerType == h \in [Workers -> HandlerRow]

LEMMA TypeParts ==
    /\ TypeOK <=> ContractTypeOK /\ MediaType /\ PlaceType /\ CountType /\ HandlerType
    /\ TypeOK' <=> ContractTypeOK' /\ MediaType' /\ PlaceType' /\ CountType' /\ HandlerType'
  BY DEF TypeOK, MediaType, PlaceType, CountType, HandlerType, HandlerRow, MoveRow

LEMMA TypeInit == Init => TypeInv
  <1> SUFFICES ASSUME Init PROVE TypeInv
    OBVIOUS
  <1>1. ContractTypeOK
    BY DEF Init, ContractInit, ContractTypeOK
  <1>2. MediaType
    <2>1. At("audio", Home) \in Key /\ At("original", Home) \in Key /\ At("rerun", Home) \in Key
      BY MoveAssumption DEF At, Key, Objects
    <2>2. \A o \in {"audio", "original", "rerun"} : At(o, Home) \in Key
      BY <2>1
    <2>3. copies \subseteq Key
      BY <2>2 DEF Init
    <2>4. rows \in [Columns -> Key \cup {NoUri}]
      BY <2>1 DEF Init, Columns
    <2> QED BY <2>3, <2>4 DEF MediaType
  <1>3. PlaceType
    BY MoveAssumption DEF Init, PlaceType, NoteRow
  <1>4. CountType
    <2>1. disturbed \in BOOLEAN
      BY DEF Init
    <2>2. runs \in 0 .. MaxRuns
      BY MoveAssumption DEF Init
    <2> QED BY <2>1, <2>2 DEF CountType
  <1>5. HandlerType
    <2>1. << >> \in Seq(Item)
      OBVIOUS
    <2>2. IdleHandler \in HandlerRow
      BY <2>1 DEF IdleHandler, HandlerRow
    <2> QED BY <2>2 DEF Init, HandlerType
  <1>6. HandInv
    BY DEF Init, ContractInit, HandInv, IdleHandler
  <1>7. MoveInv
    BY DEF Init, ContractInit, MoveInv, Last
  <1> QED BY <1>1, <1>2, <1>3, <1>4, <1>5, <1>6, <1>7, TypeParts DEF TypeInv

\* A handler's record after a step of its own.
LEMMA HandlerSet ==
    ASSUME HandlerType, NEW w \in Workers, NEW r \in HandlerRow, h' = [h EXCEPT ![w] = r]
    PROVE  HandlerType' /\ h'[w] = r /\ \A v \in Workers \ {w} : h'[v] = h[v]
  BY DEF HandlerType

LEMMA HandlerGoes ==
    ASSUME HandlerType, NEW w \in Workers,
           NEW p \in {"plan", "put", "point", "delete", "audit"}, NEW l \in Seq(Item),
           h' = [h EXCEPT ![w].pc = p, ![w].left = l]
    PROVE  /\ HandlerType' /\ h'[w].pc = p /\ h'[w].left = l
           /\ \A v \in Workers \ {w} : h'[v] = h[v]
  BY DEF HandlerType, HandlerRow

LEMMA HandlerAt ==
    ASSUME HandlerType, NEW w \in Workers,
           NEW p \in {"plan", "put", "point", "delete", "audit"},
           h' = [h EXCEPT ![w].pc = p]
    PROVE  /\ HandlerType' /\ h'[w].pc = p /\ h'[w].left = h[w].left
           /\ \A v \in Workers \ {w} : h'[v] = h[v]
  BY DEF HandlerType, HandlerRow

LEMMA HandlerAtOld ==
    ASSUME HandlerType, NEW w \in Workers, NEW b \in BOOLEAN,
           h' = [h EXCEPT ![w].pc = "point", ![w].old = b]
    PROVE  /\ HandlerType' /\ h'[w].pc = "point" /\ h'[w].left = h[w].left
           /\ \A v \in Workers \ {w} : h'[v] = h[v]
  <1>1. h' \in [Workers -> HandlerRow]
    BY DEF HandlerType, HandlerRow
  <1>2. /\ h'[w].pc = "point" /\ h'[w].left = h[w].left
        /\ \A v \in Workers \ {w} : h'[v] = h[v]
    BY DEF HandlerType, HandlerRow
  <1> QED BY <1>1, <1>2 DEF HandlerType

LEMMA HandlerNext ==
    ASSUME HandlerType, NEW w \in Workers, h[w].left # << >>, NextItem(w)
    PROVE  /\ HandlerType' /\ h'[w].pc = "put" /\ h'[w].left = Tail(h[w].left)
           /\ \A v \in Workers \ {w} : h'[v] = h[v]
  <1>1. Tail(h[w].left) \in Seq(Item)
    BY DEF HandlerType, HandlerRow
  <1>2. h' = [h EXCEPT ![w].pc = "put", ![w].left = Tail(h[w].left)]
    BY DEF NextItem, HandlerType
  <1> QED BY <1>1, <1>2, HandlerGoes

LEMMA IdleRow == IdleHandler \in HandlerRow /\ IdleHandler.pc = "idle"
  <1>1. << >> \in Seq(Item)
    OBVIOUS
  <1> QED BY <1>1 DEF IdleHandler, HandlerRow

-----------------------------------------------------------------------------
(* The handler's steps.                                                    *)

LEMMA RunMove ==
    ASSUME TypeInv, NEW w \in Workers, run[w] # Idle
    PROVE  /\ run[w].job \in Jobs /\ job[run[w].job] # "absent"
           /\ From(w) = move[run[w].job].from /\ To(w) = move[run[w].job].to
           /\ From(w) \in Workspaces /\ To(w) \in Workspaces /\ From(w) # To(w)
  <1>1. run[w].job \in Jobs
    BY RunTypes, TypeParts DEF TypeInv
  <1>2. job[run[w].job] # "absent"
    BY DEF TypeInv, MoveInv
  <1>3. move[run[w].job] \in MoveRow /\ move[run[w].job].from # move[run[w].job].to
    BY <1>1, <1>2 DEF TypeInv, MoveInv
  <1> QED BY <1>1, <1>2, <1>3 DEF From, To, MoveRow

\* The first item that is left.
LEMMA FirstItem ==
    ASSUME TypeInv, NEW w \in Workers, h[w].left # << >>
    PROVE  /\ h[w].left \in Seq(Item) /\ Head(h[w].left) \in Item
           /\ Head(h[w].left).obj \in Objects
           /\ Head(h[w].left) = h[w].left[1] /\ 1 \in 1 .. Len(h[w].left)
  <1>1. h[w].left \in Seq(Item)
    BY TypeParts DEF TypeInv, HandlerType, HandlerRow
  <1>2. /\ Head(h[w].left) = h[w].left[1] /\ 1 \in 1 .. Len(h[w].left)
        /\ Head(h[w].left) \in Item
    BY <1>1
  <1>3. \A item \in Item : item.obj \in Objects
    BY DEF Item
  <1> QED BY <1>1, <1>2, <1>3

LEMMA KeyType ==
    ASSUME NEW o \in Objects, NEW ws \in Workspaces
    PROVE  At(o, ws) \in Key
  BY DEF At, Key

QuietHandler == UNCHANGED <<job, run, told, stub, move, runs, disturbed>>

LEMMA PlannedType ==
    ASSUME TypeInv, NEW w \in Workers, run[w] # Idle
    PROVE  Planned(w) \in Seq(Item)
  <1>1. \A c \in Columns : Named(c) \in Seq(Item)
    <2> SUFFICES ASSUME NEW c \in Columns PROVE Named(c) \in Seq(Item)
      OBVIOUS
    <2>1. rows[c] # NoUri => rows[c].obj \in Objects /\ rows[c].ws \in Workspaces
      BY TypeParts DEF TypeInv, MediaType, Key
    <2>2. CASE rows[c] = NoUri
      BY <2>2 DEF Named
    <2>3. CASE rows[c] # NoUri
      <3>1. [col |-> c, obj |-> rows[c].obj, ws |-> rows[c].ws] \in Item
        BY <2>1, <2>3 DEF Item
      <3> QED BY <2>3, <3>1 DEF Named
    <2> QED BY <2>2, <2>3
  <1>2. \A o \in {"rerun", "second"} : [col |-> "none", obj |-> o, ws |-> From(w)] \in Item
    BY RunMove DEF Item, Objects
  <1>3. <<[col |-> "none", obj |-> "rerun", ws |-> From(w)],
          [col |-> "none", obj |-> "second", ws |-> From(w)]>> \in Seq(Item)
    BY <1>2
  <1>4. "previous" \in Columns /\ "audio" \in Columns /\ "result" \in Columns
    BY DEF Columns
  <1> QED BY <1>1, <1>3, <1>4 DEF Planned

LEMMA PlanEffect ==
    ASSUME TypeInv, NEW w \in Workers, Plan(w)
    PROVE  /\ QuietHandler /\ UNCHANGED <<note, rows, copies>> /\ run[w] # Idle
           /\ h[w].pc = "plan" /\ HandlerType' /\ \A v \in Workers \ {w} : h'[v] = h[v]
           /\ \/ Here(w) /\ h'[w].pc = "put" /\ h'[w].left = Planned(w)
              \/ ~Here(w) /\ h'[w].pc = "audit"
  <1>0. HandlerType
    BY TypeParts DEF TypeInv
  <1>1. /\ h[w].pc = "plan" /\ QuietHandler /\ UNCHANGED <<note, rows, copies>>
        /\ h' = IF Here(w) THEN [h EXCEPT ![w].pc = "put", ![w].left = Planned(w)]
                ELSE [h EXCEPT ![w].pc = "audit"]
    BY DEF Plan, QuietHandler, mediaVars, contractVars
  <1>2. run[w] # Idle
    BY <1>1 DEF TypeInv, HandInv
  <1>3. Planned(w) \in Seq(Item)
    BY <1>2, PlannedType
  <1>4. CASE Here(w)
    <2>1. h' = [h EXCEPT ![w].pc = "put", ![w].left = Planned(w)]
      BY <1>1, <1>4
    <2> QED BY <1>0, <1>1, <1>2, <1>3, <1>4, <2>1, HandlerGoes
  <1>5. CASE ~Here(w)
    <2>1. h' = [h EXCEPT ![w].pc = "audit"]
      BY <1>1, <1>5
    <2> QED BY <1>0, <1>1, <1>2, <1>5, <2>1, HandlerAt
  <1> QED BY <1>4, <1>5

LEMMA PutEffect ==
    ASSUME TypeInv, NEW w \in Workers, Put(w)
    PROVE  /\ QuietHandler /\ UNCHANGED <<note, rows>> /\ run[w] # Idle
           /\ h[w].pc = "put" /\ h[w].left # << >>
           /\ HandlerType' /\ \A v \in Workers \ {w} : h'[v] = h[v]
           /\ \/ /\ copies' = copies /\ h'[w].pc = "put" /\ h'[w].left = Tail(h[w].left)
                 /\ \/ Head(h[w].left).ws # From(w)
                    \/ /\ At(Head(h[w].left).obj, From(w)) \notin copies
                       /\ At(Head(h[w].left).obj, To(w)) \notin copies
              \/ /\ copies' = copies \cup {At(Head(h[w].left).obj, To(w))}
                 /\ h'[w].pc = "point" /\ h'[w].left = h[w].left
  <1>0. HandlerType
    BY TypeParts DEF TypeInv
  <1> DEFINE item == Head(h[w].left)
             old  == At(item.obj, From(w)) \in copies
             skip == item.ws # From(w) \/ (~old /\ At(item.obj, To(w)) \notin copies)
  <1>1. /\ h[w].pc = "put" /\ h[w].left # << >> /\ QuietHandler /\ UNCHANGED <<note, rows>>
        /\ skip => copies' = copies /\ NextItem(w)
        /\ ~skip => /\ copies' = Written(w, item)
                    /\ h' = [h EXCEPT ![w].pc = "point", ![w].old = old]
    BY DEF Put, QuietHandler, contractVars
  <1>2. run[w] # Idle
    BY <1>1 DEF TypeInv, HandInv
  <1>3. CASE skip
    BY <1>0, <1>1, <1>2, <1>3, HandlerNext
  <1>4. CASE ~skip
    <2>1. old \in BOOLEAN
      OBVIOUS
    <2>2. copies' = copies \cup {At(item.obj, To(w))}
      BY <1>1, <1>4 DEF Written
    <2>3. h' = [h EXCEPT ![w].pc = "point", ![w].old = old]
      BY <1>1, <1>4
    <2> HIDE DEF old
    <2> QED BY <1>0, <1>1, <1>2, <2>1, <2>2, <2>3, HandlerAtOld
  <1> QED BY <1>3, <1>4

LEMMA PointEffect ==
    ASSUME TypeInv, NEW w \in Workers, Point(w)
    PROVE  /\ QuietHandler /\ UNCHANGED <<note, copies>> /\ run[w] # Idle
           /\ h[w].pc = "point" /\ h[w].left # << >> /\ rows' = Pointed(w, Head(h[w].left))
           /\ HandlerType' /\ \A v \in Workers \ {w} : h'[v] = h[v]
           /\ \/ h'[w].pc = "delete" /\ h'[w].left = h[w].left
              \/ h'[w].pc = "put" /\ h'[w].left = Tail(h[w].left)
  <1>0. HandlerType
    BY TypeParts DEF TypeInv
  <1>1. /\ h[w].pc = "point" /\ rows' = Pointed(w, Head(h[w].left))
        /\ h' = [h EXCEPT ![w].pc = "delete"] \/ NextItem(w)
        /\ QuietHandler /\ UNCHANGED <<note, copies>>
    BY DEF Point, QuietHandler, contractVars
  <1>2. run[w] # Idle /\ h[w].left # << >>
    BY <1>1 DEF TypeInv, HandInv
  <1> QED BY <1>0, <1>1, <1>2, HandlerAt, HandlerNext

LEMMA DeleteEffect ==
    ASSUME TypeInv, NEW w \in Workers, DeleteOld(w)
    PROVE  /\ QuietHandler /\ UNCHANGED <<note, rows>> /\ run[w] # Idle
           /\ h[w].pc = "delete" /\ h[w].left # << >>
           /\ copies' = copies \ {At(Head(h[w].left).obj, From(w))}
           /\ HandlerType' /\ \A v \in Workers \ {w} : h'[v] = h[v]
           /\ h'[w].pc = "put" /\ h'[w].left = Tail(h[w].left)
  <1>0. HandlerType
    BY TypeParts DEF TypeInv
  <1>1. /\ h[w].pc = "delete" /\ copies' = copies \ {At(Head(h[w].left).obj, From(w))}
        /\ NextItem(w) /\ QuietHandler /\ UNCHANGED <<note, rows>>
    BY DEF DeleteOld, QuietHandler, contractVars
  <1>2. run[w] # Idle /\ h[w].left # << >>
    BY <1>1 DEF TypeInv, HandInv
  <1> QED BY <1>0, <1>1, <1>2, HandlerNext

LEMMA ReadyEffect ==
    ASSUME TypeInv, NEW w \in Workers, Ready(w)
    PROVE  /\ QuietHandler /\ UNCHANGED <<rows, copies>> /\ run[w] # Idle
           /\ h[w].pc = "put" /\ h[w].left = << >>
           /\ note' = IF Here(w) THEN [note EXCEPT !.media = "ready"] ELSE note
           /\ note' \in NoteRow /\ note'.ws = note.ws
           /\ note'.media = IF Here(w) THEN "ready" ELSE note.media
           /\ HandlerType' /\ \A v \in Workers \ {w} : h'[v] = h[v]
           /\ h'[w].pc = "audit" /\ h'[w].left = << >>
  <1>0. HandlerType /\ note \in NoteRow
    BY TypeParts DEF TypeInv, PlaceType
  <1>1. /\ h[w].pc = "put" /\ h[w].left = << >> /\ h' = [h EXCEPT ![w].pc = "audit"]
        /\ note' = IF Here(w) THEN [note EXCEPT !.media = "ready"] ELSE note
        /\ QuietHandler /\ UNCHANGED <<rows, copies>>
    BY DEF Ready, QuietHandler, contractVars, mediaVars
  <1>2. run[w] # Idle
    BY <1>1 DEF TypeInv, HandInv
  <1>3. /\ note' \in NoteRow /\ note'.ws = note.ws
        /\ note'.media = IF Here(w) THEN "ready" ELSE note.media
    BY <1>0, <1>1 DEF NoteRow
  <1> QED BY <1>0, <1>1, <1>2, <1>3, HandlerAt

InnerStep(w) == Plan(w) \/ Put(w) \/ Point(w) \/ DeleteOld(w) \/ Ready(w)

LEMMA InnerEffect ==
    ASSUME TypeInv, NEW w \in Workers, InnerStep(w)
    PROVE  /\ QuietHandler /\ run[w] # Idle /\ Working(w)
           /\ HandlerType' /\ \A v \in Workers \ {w} : h'[v] = h[v]
           /\ h'[w].pc \in {"put", "point", "delete", "audit"}
           /\ h'[w].pc \in {"point", "delete"} => h'[w].left # << >>
           /\ note' \in NoteRow /\ note'.ws = note.ws /\ note'.media \in {note.media, "ready"}
           /\ MediaType'
           /\ h'[w].pc = "audit" => ~Here(w) \/ note'.media = "ready"
  <1>0. note \in NoteRow /\ MediaType
    BY TypeParts DEF TypeInv, PlaceType
  <1>1. CASE Plan(w)
    BY <1>0, <1>1, PlanEffect DEF Working, AtWork, MediaType
  <1>2. CASE Put(w)
    <2>1. copies' \subseteq Key
      <3>1. At(Head(h[w].left).obj, To(w)) \in Key
        BY <1>2, PutEffect, FirstItem, RunMove, KeyType
      <3> QED BY <1>0, <1>2, <3>1, PutEffect DEF MediaType
    <2> QED BY <1>0, <1>2, <2>1, PutEffect DEF Working, AtWork, MediaType
  <1>3. CASE Point(w)
    <2>1. At(Head(h[w].left).obj, To(w)) \in Key
      BY <1>3, PointEffect, FirstItem, RunMove, KeyType
    <2>2. rows' \in [Columns -> Key \cup {NoUri}]
      <3>1. rows' = rows \/ \E c \in Columns : rows' = [rows EXCEPT ![c] = At(Head(h[w].left).obj, To(w))]
        <4>1. Head(h[w].left).col \in Columns \cup {"none"}
          BY <1>3, PointEffect, FirstItem DEF Item
        <4> QED BY <1>3, <4>1, PointEffect DEF Pointed
      <3> QED BY <1>0, <2>1, <3>1 DEF MediaType
    <2> QED BY <1>0, <1>3, <2>2, PointEffect DEF Working, AtWork, MediaType
  <1>4. CASE DeleteOld(w)
    BY <1>0, <1>4, DeleteEffect DEF Working, AtWork, MediaType
  <1>5. CASE Ready(w)
    BY <1>0, <1>5, ReadyEffect DEF Working, AtWork, MediaType
  <1> QED BY <1>1, <1>2, <1>3, <1>4, <1>5 DEF InnerStep

-----------------------------------------------------------------------------
(* The other steps.                                                        *)

LEMMA BeginRunEffect ==
    ASSUME TypeInv, NEW w \in Workers, NEW j \in Jobs, BeginRun(w, j)
    PROVE  /\ Begin(w, j) /\ UNCHANGED <<note, rows, copies, stub, move>>
           /\ CountType' /\ HandlerType' /\ \A v \in Workers \ {w} : h'[v] = h[v]
           /\ h'[w].pc = "plan" /\ h'[w].left = << >>
           /\ ~disturbed' => ~disturbed /\ InTime(j)
  <1>0. HandlerType /\ CountType
    BY TypeParts DEF TypeInv
  <1>1. /\ Begin(w, j) /\ UNCHANGED <<note, rows, copies, stub, move>>
        /\ runs < MaxRuns /\ runs' = runs + 1 /\ disturbed' = (disturbed \/ ~InTime(j))
        /\ h' = [h EXCEPT ![w] = [IdleHandler EXCEPT !.pc = "plan"]]
    BY DEF BeginRun, mediaVars
  <1>2. [IdleHandler EXCEPT !.pc = "plan"] \in HandlerRow
    BY IdleRow DEF HandlerRow
  <1>3. /\ [IdleHandler EXCEPT !.pc = "plan"].pc = "plan"
        /\ [IdleHandler EXCEPT !.pc = "plan"].left = << >>
    BY DEF IdleHandler
  <1>4. /\ HandlerType' /\ h'[w].pc = "plan" /\ h'[w].left = << >>
        /\ \A v \in Workers \ {w} : h'[v] = h[v]
    BY <1>0, <1>1, <1>2, <1>3, HandlerSet
  <1>5. runs' \in 0 .. MaxRuns
    BY <1>0, <1>1, MoveAssumption DEF CountType
  <1>6. disturbed' \in BOOLEAN /\ (~disturbed' => ~disturbed /\ InTime(j))
    BY <1>1
  <1> QED BY <1>1, <1>4, <1>5, <1>6 DEF CountType

\* A run ends: its handler is gone.
FinalStep(w) == Completes(w) \/ Retries(w) \/ MarkFailed(w) \/ Crash(w)

LEMMA FinalEffect ==
    ASSUME TypeInv, NEW w \in Workers, FinalStep(w)
    PROVE  /\ run[w] # Idle /\ (End(w, "complete") \/ Release(w) \/ Tell(w) \/ Die(w))
           /\ End(w, "complete") => h[w].pc = "audit" \/ job' = job
           /\ UNCHANGED <<rows, copies, stub, move, runs, disturbed>>
           /\ HandlerType' /\ h'[w] = IdleHandler /\ \A v \in Workers \ {w} : h'[v] = h[v]
           /\ note' \in NoteRow /\ note'.ws = note.ws
           /\ note'.media = note.media \/ (note.media = "rehoming" /\ note'.media = "failed")
           /\ \A j \in Jobs : told'[j] # told[j] =>
                 j = run[w].job /\ (Here(w) => note'.media # "rehoming")
  <1>0. HandlerType /\ note \in NoteRow /\ ContractTypeOK
    BY TypeParts DEF TypeInv, PlaceType
  <1>1. h' = [h EXCEPT ![w] = IdleHandler]
        /\ UNCHANGED <<rows, copies, stub, move, runs, disturbed>>
    BY DEF FinalStep, Completes, Retries, MarkFailed, Crash, HandlerEnds, mediaVars
  <1>2. HandlerType' /\ h'[w] = IdleHandler /\ \A v \in Workers \ {w} : h'[v] = h[v]
    BY <1>0, <1>1, IdleRow, HandlerSet
  <1>3. run[w] # Idle
    BY DEF FinalStep, Completes, Retries, MarkFailed, Crash, TypeInv, HandInv
  <1>4. CASE Completes(w) \/ Retries(w) \/ Crash(w)
    <2>1. /\ End(w, "complete") \/ Release(w) \/ Die(w)
          /\ End(w, "complete") => h[w].pc = "audit" \/ job' = job
          /\ note' = note /\ told' = told
      BY <1>4 DEF Completes, Retries, Crash, End, Release, Die
    <2> QED BY <1>0, <1>1, <1>2, <1>3, <2>1
  <1>5. CASE MarkFailed(w)
    <2>1. /\ Tell(w) /\ job' = job
          /\ note' \in {DeadMarked(w)} \cup IF told'[run[w].job] THEN {} ELSE {note}
      BY <1>5 DEF MarkFailed, Tell
    <2>2. run[w].job \in Jobs /\ \A j \in Jobs : told'[j] = told[j] \/ j = run[w].job
      BY <1>0, <1>3, <2>1, EndEffect
    <2>3. /\ DeadMarked(w) \in NoteRow /\ DeadMarked(w).ws = note.ws
          /\ \/ DeadMarked(w).media = note.media /\ (Here(w) => note.media # "rehoming")
             \/ DeadMarked(w).media = "failed" /\ note.media = "rehoming"
      BY <1>0 DEF DeadMarked, NoteRow
    <2>4. told'[run[w].job] # told[run[w].job] => told'[run[w].job] = TRUE
      BY <1>0, <2>1, <2>2 DEF Tell, ContractTypeOK
    <2>5. CASE note' = DeadMarked(w)
      BY <1>0, <1>1, <1>2, <1>3, <1>5, <2>1, <2>2, <2>3, <2>5
    <2>6. CASE note' = note /\ ~told'[run[w].job]
      <3>1. \A j \in Jobs : told'[j] = told[j]
        BY <2>2, <2>4, <2>6
      <3> QED BY <1>0, <1>1, <1>2, <1>3, <2>1, <2>6, <3>1
    <2> QED BY <2>1, <2>5, <2>6
  <1> QED BY <1>4, <1>5 DEF FinalStep

LEMMA GivesUpEffect ==
    ASSUME TypeInv, NEW w \in Workers, GivesUp(w)
    PROVE  /\ GiveUp(w) /\ UNCHANGED <<note, rows, copies, stub, move, runs, disturbed>>
           /\ HandlerType' /\ h'[w].pc = "dead" /\ \A v \in Workers \ {w} : h'[v] = h[v]
           /\ h[w].pc # "idle"
  <1>0. HandlerType
    BY TypeParts DEF TypeInv
  <1>1. /\ GiveUp(w) /\ UNCHANGED <<note, rows, copies, stub, move, runs, disturbed>>
        /\ h' = [h EXCEPT ![w] = [IdleHandler EXCEPT !.pc = "dead"]] /\ h[w].pc # "idle"
    BY DEF GivesUp, mediaVars
  <1>2. [IdleHandler EXCEPT !.pc = "dead"] \in HandlerRow
    BY IdleRow DEF HandlerRow
  <1>3. [IdleHandler EXCEPT !.pc = "dead"].pc = "dead"
    BY DEF IdleHandler
  <1>4. HandlerType' /\ h'[w].pc = "dead" /\ \A v \in Workers \ {w} : h'[v] = h[v]
    BY <1>0, <1>1, <1>2, <1>3, HandlerSet
  <1> QED BY <1>1, <1>4

LEMMA MoveEffect ==
    ASSUME TypeInv, NEW j \in Jobs, NEW t \in Workspaces, Move(j, t)
    PROVE  /\ t # note.ws /\ note.media # "rehoming" /\ UNCHANGED <<rows, copies, h, runs, run, told>>
           /\ \A i \in Jobs : i < j => job[i] # "absent"
           /\ job[j] = "absent" /\ job' = [job EXCEPT ![j] = "open"]
           /\ job'[j] = "open" /\ \A i \in Jobs \ {j} : job'[i] = job[i]
           /\ note' = [ws |-> t, media |-> "rehoming"] /\ note'.ws = t /\ note'.media = "rehoming"
           /\ move'[j] = [from |-> note.ws, to |-> t] /\ move'[j].from = note.ws
           /\ move'[j].to = t /\ \A i \in Jobs \ {j} : move'[i] = move[i]
           /\ ContractTypeOK' /\ PlaceType' /\ disturbed' \in BOOLEAN
           /\ ~disturbed' => /\ ~disturbed /\ note.media = "ready"
                             /\ \A w \in Workers : ~Working(w)
  <1>0. ContractTypeOK /\ PlaceType
    BY TypeParts DEF TypeInv
  <1>1. /\ t # note.ws /\ note.media # "rehoming" /\ UNCHANGED <<rows, copies, h, runs, run, told>>
        /\ \A i \in Jobs : i < j => job[i] # "absent"
        /\ job[j] = "absent" /\ job' = [job EXCEPT ![j] = "open"]
        /\ note' = [ws |-> t, media |-> "rehoming"] /\ stub' = Stubs(t)
        /\ move' = [move EXCEPT ![j] = [from |-> note.ws, to |-> t]]
        /\ disturbed' = (disturbed \/ note.media = "failed" \/ \E w \in Workers : Working(w))
    BY DEF Move, MediaSettled, Submit, mediaVars, handlerVars
  <1>2. note.ws \in Workspaces /\ note.media \in {"ready", "rehoming", "failed"}
    BY <1>0 DEF PlaceType, NoteRow
  <1>3. [from |-> note.ws, to |-> t] \in MoveRow
    BY <1>2 DEF MoveRow
  <1>4. /\ move'[j] = [from |-> note.ws, to |-> t] /\ \A i \in Jobs \ {j} : move'[i] = move[i]
        /\ move' \in [Jobs -> MoveRow \cup {NoUri}]
    BY <1>0, <1>1, <1>3 DEF PlaceType
  <1>5. stub' \in [Workspaces -> Workspaces \cup {Nowhere}]
    BY <1>0, <1>1, <1>2 DEF PlaceType, Stubs
  <1>6. PlaceType'
    BY <1>1, <1>4, <1>5 DEF PlaceType, NoteRow
  <1>7. ContractTypeOK' /\ job'[j] = "open" /\ \A i \in Jobs \ {j} : job'[i] = job[i]
    BY <1>0, <1>1 DEF ContractTypeOK
  <1>8. /\ disturbed' \in BOOLEAN
        /\ ~disturbed' => /\ ~disturbed /\ note.media = "ready"
                          /\ \A w \in Workers : ~Working(w)
    BY <1>1, <1>2
  <1> QED BY <1>1, <1>4, <1>6, <1>7, <1>8

\* What an undo and a re-run have in common.
LEMMA RelabelledEffect ==
    ASSUME TypeInv, NEW result \in Key, NEW previous \in Key \cup {NoUri},
           Relabelled(result, previous)
    PROVE  /\ UNCHANGED <<job, run, told, note, stub, move, h, runs>>
           /\ disturbed' \in BOOLEAN
           /\ ~disturbed' => ~disturbed /\ \A w \in Workers : ~AtWork(w)
           /\ rows' \in [Columns -> Key \cup {NoUri}] /\ rows'["result"] = result
           /\ rows'["previous"] = previous /\ rows'["audio"] = rows["audio"]
  <1>1. /\ UNCHANGED <<job, run, told, note, stub, move, h, runs>>
        /\ disturbed' = (disturbed \/ \E w \in Workers : AtWork(w))
        /\ rows' = [rows EXCEPT !["result"] = result, !["previous"] = previous]
    BY DEF Relabelled, contractVars, handlerVars
  <1>2. /\ rows' \in [Columns -> Key \cup {NoUri}]
        /\ rows'["result"] = result /\ rows'["previous"] = previous
        /\ rows'["audio"] = rows["audio"]
    BY <1>1, TypeParts DEF TypeInv, MediaType, Columns
  <1> QED BY <1>1, <1>2

LEMMA UndoEffect ==
    ASSUME TypeInv, Undo
    PROVE  /\ UNCHANGED <<job, run, told, note, stub, move, h, runs>> /\ MediaType'
           /\ disturbed' \in BOOLEAN
           /\ ~disturbed' => ~disturbed /\ \A w \in Workers : ~AtWork(w)
           /\ rows["previous"] # NoUri
           /\ rows'["result"] = rows["previous"] /\ rows'["previous"] = NoUri
           /\ rows'["audio"] = rows["audio"]
           /\ copies' \in {copies, copies \ {rows["result"]}}
  <1>0. MediaType /\ "previous" \in Columns
    BY TypeParts DEF TypeInv, Columns
  <1>1. /\ Relabelled(rows["previous"], NoUri) /\ rows["previous"] # NoUri
        /\ copies' \in {copies, copies \ {rows["result"]}}
    BY DEF Undo
  <1>2. rows["previous"] \in Key
    BY <1>0, <1>1 DEF MediaType
  <1>3. copies' \subseteq Key
    BY <1>0, <1>1 DEF MediaType
  <1> QED BY <1>1, <1>2, <1>3, RelabelledEffect DEF MediaType

LEMMA RerunEffect ==
    ASSUME TypeInv, Rerun
    PROVE  /\ UNCHANGED <<job, run, told, note, stub, move, h, runs>> /\ MediaType'
           /\ disturbed' \in BOOLEAN
           /\ ~disturbed' => ~disturbed /\ \A w \in Workers : ~AtWork(w)
           /\ rows["result"] \in copies /\ rows["result"].ws = note.ws
           /\ rows["result"] # NoUri
           /\ \A c \in Columns : rows[c].obj # "second"
           /\ rows'["result"] = At("second", note.ws) /\ rows'["previous"] = rows["result"]
           /\ rows'["audio"] = rows["audio"] /\ At("second", note.ws) # NoUri
           /\ copies' \in {copies \cup {At("second", note.ws)},
                          (copies \cup {At("second", note.ws)}) \ {rows["previous"]}}
  <1> DEFINE new == At("second", note.ws)
  <1>0. MediaType /\ note.ws \in Workspaces
    BY TypeParts DEF TypeInv, PlaceType, NoteRow
  <1>1. /\ Relabelled(new, rows["result"])
        /\ rows["result"].ws = note.ws /\ rows["result"] \in copies
        /\ \A c \in Columns : rows[c].obj # "second"
        /\ copies' \in {copies \cup {new}, (copies \cup {new}) \ {rows["previous"]}}
    BY DEF Rerun
  <1>2. new \in Key
    BY <1>0, KeyType DEF Objects
  <1>3. rows["result"] \in Key
    BY <1>0, <1>1 DEF MediaType
  <1>4. NoUri \notin Key
    BY MoveAssumption DEF NoUri, Key
  <1> HIDE DEF new
  <1>5. copies' \subseteq Key
    BY <1>0, <1>1, <1>2 DEF MediaType
  <1>6. /\ UNCHANGED <<job, run, told, note, stub, move, h, runs>>
        /\ disturbed' \in BOOLEAN
        /\ ~disturbed' => ~disturbed /\ \A w \in Workers : ~AtWork(w)
        /\ rows' \in [Columns -> Key \cup {NoUri}] /\ rows'["result"] = new
        /\ rows'["previous"] = rows["result"] /\ rows'["audio"] = rows["audio"]
    BY <1>1, <1>2, <1>3, RelabelledEffect
  <1> USE DEF new
  <1> QED BY <1>1, <1>2, <1>3, <1>4, <1>5, <1>6 DEF MediaType

LEMMA BuriedEffect ==
    ASSUME TypeInv, NEW j \in Jobs, Buried(j)
    PROVE  /\ UNCHANGED <<run, told, note, rows, copies, stub, move, h, runs, disturbed>>
           /\ ContractTypeOK' /\ job[j] = "open" /\ job'[j] = "dead"
           /\ \A i \in Jobs \ {j} : job'[i] = job[i]
  <1>1. /\ UNCHANGED <<run, told, note, rows, copies, stub, move, h, runs, disturbed>>
        /\ job[j] = "open" /\ job' = [job EXCEPT ![j] = "dead"]
    BY DEF Buried, Bury, mediaVars, handlerVars
  <1> QED BY <1>1, TypeParts DEF TypeInv, ContractTypeOK, Settled

LEMMA NextSplit ==
    ASSUME [Next]_vars
    PROVE  \/ UNCHANGED vars
           \/ \E j \in Jobs, t \in Workspaces : Move(j, t)
           \/ Undo \/ Rerun
           \/ \E j \in Jobs : Buried(j)
           \/ \E w \in Workers : \/ \E j \in Jobs : BeginRun(w, j)
                                 \/ InnerStep(w) \/ FinalStep(w) \/ GivesUp(w)
  BY DEF Next, People, Worker, InnerStep, FinalStep

-----------------------------------------------------------------------------
(* The types, the hands and the moves, step by step.                       *)

NoNewJob == \A j \in Jobs : job'[j] = "absent" <=> job[j] = "absent"

LEMMA LastStays ==
    ASSUME NoNewJob, NEW j \in Jobs
    PROVE  Last(j)' <=> Last(j)
  BY DEF NoNewJob, Last

\* Every step but a move leaves the moves alone.
LEMMA MovesKept ==
    ASSUME MoveInv, NoNewJob, move' = move, note'.ws = note.ws,
           \A w \in Workers : run'[w] # Idle => job[run'[w].job] # "absent" /\ run'[w].job \in Jobs,
           \A j \in Jobs : told'[j] => job[j] # "absent"
    PROVE  MoveInv'
  <1>1. \A j \in Jobs : Last(j)' => move'[j].to = note'.ws
    BY LastStays DEF MoveInv
  <1>2. \A i, j \in Jobs : i < j /\ job'[j] # "absent" => job'[i] # "absent"
    BY DEF MoveInv, NoNewJob
  <1>3. \A j \in Jobs : job'[j] # "absent" => move'[j] \in MoveRow /\ move'[j].from # move'[j].to
    BY DEF MoveInv, NoNewJob
  <1>4. \A w \in Workers : run'[w] # Idle => job'[run'[w].job] # "absent"
    BY DEF NoNewJob
  <1> QED BY <1>1, <1>2, <1>3, <1>4 DEF MoveInv, NoNewJob

LEMMA TypeWorker ==
    ASSUME TypeInv, NEW w \in Workers,
           (\E j \in Jobs : BeginRun(w, j)) \/ InnerStep(w) \/ FinalStep(w) \/ GivesUp(w)
    PROVE  TypeInv' /\ NoNewJob
  <1>0. /\ ContractTypeOK /\ MediaType /\ PlaceType /\ CountType /\ HandlerType
        /\ HandInv /\ MoveInv
    BY TypeParts DEF TypeInv
  <1>1. ASSUME NEW j \in Jobs, BeginRun(w, j) PROVE TypeInv' /\ NoNewJob
    <2>1. /\ Begin(w, j) /\ UNCHANGED <<note, rows, copies, stub, move>>
          /\ CountType' /\ HandlerType' /\ \A v \in Workers \ {w} : h'[v] = h[v]
          /\ h'[w].pc = "plan"
      BY <1>1, BeginRunEffect
    <2>2. /\ ContractTypeOK' /\ run'[w] # Idle /\ run'[w].job = j /\ UNCHANGED <<job, told>>
          /\ job[j] # "absent" /\ \A v \in Workers \ {w} : run'[v] = run[v]
      BY <1>0, <2>1, BeginEffect
    <2>3. NoNewJob
      BY <2>2 DEF NoNewJob
    <2>4. MoveInv'
      <3>1. \A v \in Workers : run'[v] # Idle => job[run'[v].job] # "absent" /\ run'[v].job \in Jobs
        BY <1>0, <2>2, RunTypes DEF MoveInv
      <3>2. \A i \in Jobs : told'[i] => job[i] # "absent"
        BY <1>0, <2>2 DEF MoveInv
      <3> QED BY <1>0, <2>1, <2>3, <3>1, <3>2, MovesKept
    <2>5. HandInv'
      BY <1>0, <2>1, <2>2 DEF HandInv
    <2>6. MediaType' /\ PlaceType'
      BY <1>0, <2>1 DEF MediaType, PlaceType
    <2> QED BY <2>1, <2>2, <2>3, <2>4, <2>5, <2>6, TypeParts DEF TypeInv
  <1>2. CASE InnerStep(w)
    <2>1. /\ QuietHandler /\ run[w] # Idle /\ Working(w)
          /\ HandlerType' /\ \A v \in Workers \ {w} : h'[v] = h[v]
          /\ h'[w].pc \in {"put", "point", "delete", "audit"}
          /\ h'[w].pc \in {"point", "delete"} => h'[w].left # << >>
          /\ note' \in NoteRow /\ note'.ws = note.ws /\ MediaType'
      BY <1>2, InnerEffect
    <2>2. NoNewJob /\ ContractTypeOK' /\ CountType' /\ PlaceType'
      BY <1>0, <2>1 DEF NoNewJob, QuietHandler, ContractTypeOK, CountType, PlaceType
    <2>3. MoveInv'
      <3>1. \A v \in Workers : run'[v] # Idle => job[run'[v].job] # "absent" /\ run'[v].job \in Jobs
        BY <1>0, <2>1, RunTypes DEF MoveInv, QuietHandler
      <3>2. \A i \in Jobs : told'[i] => job[i] # "absent"
        BY <1>0, <2>1 DEF MoveInv, QuietHandler
      <3> QED BY <1>0, <2>1, <2>2, <3>1, <3>2, MovesKept DEF QuietHandler
    <2>4. HandInv'
      BY <1>0, <2>1 DEF HandInv, QuietHandler
    <2> QED BY <2>1, <2>2, <2>3, <2>4, TypeParts DEF TypeInv
  <1>3. CASE FinalStep(w)
    <2>1. /\ run[w] # Idle /\ (End(w, "complete") \/ Release(w) \/ Tell(w) \/ Die(w))
          /\ UNCHANGED <<rows, copies, stub, move, runs, disturbed>>
          /\ HandlerType' /\ h'[w] = IdleHandler /\ \A v \in Workers \ {w} : h'[v] = h[v]
          /\ note' \in NoteRow /\ note'.ws = note.ws
      BY <1>3, FinalEffect
    <2>2. /\ ContractTypeOK' /\ run'[w] = Idle /\ run[w].job \in Jobs
          /\ \A v \in Workers \ {w} : run'[v] = run[v]
          /\ \A j \in Jobs : job'[j] = job[j] \/ (job[j] = "open" /\ job'[j] = "complete")
          /\ \A j \in Jobs : told'[j] = told[j] \/ j = run[w].job
      BY <1>0, <2>1, EndEffect
    <2>3. NoNewJob
      BY <2>2 DEF NoNewJob
    <2>4. MoveInv'
      <3>1. \A v \in Workers : run'[v] # Idle => job[run'[v].job] # "absent" /\ run'[v].job \in Jobs
        BY <1>0, <2>2, RunTypes DEF MoveInv
      <3>2. \A i \in Jobs : told'[i] => job[i] # "absent"
        BY <1>0, <2>1, <2>2 DEF MoveInv
      <3> QED BY <1>0, <2>1, <2>3, <3>1, <3>2, MovesKept
    <2>5. HandInv'
      BY <1>0, <2>1, <2>2, IdleRow DEF HandInv
    <2>6. MediaType' /\ PlaceType' /\ CountType'
      BY <1>0, <2>1 DEF MediaType, PlaceType, CountType
    <2> QED BY <2>1, <2>2, <2>3, <2>4, <2>5, <2>6, TypeParts DEF TypeInv
  <1>4. CASE GivesUp(w)
    <2>1. /\ GiveUp(w) /\ UNCHANGED <<note, rows, copies, stub, move, runs, disturbed>>
          /\ HandlerType' /\ h'[w].pc = "dead" /\ \A v \in Workers \ {w} : h'[v] = h[v]
      BY <1>4, GivesUpEffect
    <2>2. /\ ContractTypeOK' /\ run'[w] # Idle /\ run[w] # Idle /\ run[w].job \in Jobs
          /\ run'[w].job = run[w].job /\ run'[w].phase = "on_dead" /\ told' = told
          /\ \A v \in Workers \ {w} : run'[v] = run[v]
          /\ \A j \in Jobs : \/ job'[j] = job[j]
                             \/ job[j] = "open" /\ job'[j] \in {"failed", "dead"}
      BY <1>0, <2>1, GiveUpEffect
    <2>3. NoNewJob
      BY <2>2 DEF NoNewJob
    <2>4. MoveInv'
      <3>1. \A v \in Workers : run'[v] # Idle => job[run'[v].job] # "absent" /\ run'[v].job \in Jobs
        BY <1>0, <2>2, RunTypes DEF MoveInv
      <3>2. \A i \in Jobs : told'[i] => job[i] # "absent"
        BY <1>0, <2>2 DEF MoveInv
      <3> QED BY <1>0, <2>1, <2>3, <3>1, <3>2, MovesKept
    <2>5. HandInv'
      BY <1>0, <2>1, <2>2 DEF HandInv
    <2>6. MediaType' /\ PlaceType' /\ CountType'
      BY <1>0, <2>1 DEF MediaType, PlaceType, CountType
    <2> QED BY <2>1, <2>2, <2>3, <2>4, <2>5, <2>6, TypeParts DEF TypeInv
  <1> QED BY <1>1, <1>2, <1>3, <1>4

LEMMA TypeMove ==
    ASSUME TypeInv, NEW j \in Jobs, NEW t \in Workspaces, Move(j, t)
    PROVE  TypeInv' /\ Last(j)' /\ \A i \in Jobs : Last(i)' => i = j
  <1>0. /\ ContractTypeOK /\ MediaType /\ PlaceType /\ CountType /\ HandlerType
        /\ HandInv /\ MoveInv
    BY TypeParts DEF TypeInv
  <1>1. j \in Nat /\ Jobs \subseteq Nat
    BY MoveAssumption
  <1>2. /\ UNCHANGED <<rows, copies, h, runs, run, told>>
        /\ job[j] = "absent" /\ job'[j] = "open" /\ \A i \in Jobs \ {j} : job'[i] = job[i]
        /\ \A i \in Jobs : i < j => job[i] # "absent"
        /\ note'.ws = t /\ t # note.ws /\ ContractTypeOK' /\ PlaceType' /\ disturbed' \in BOOLEAN
        /\ move'[j] = [from |-> note.ws, to |-> t] /\ move'[j].from = note.ws
        /\ move'[j].to = t /\ \A i \in Jobs \ {j} : move'[i] = move[i]
    BY MoveEffect
  <1>3. \A i \in Jobs : i > j => job[i] = "absent" /\ job'[i] = "absent"
    BY <1>0, <1>1, <1>2 DEF MoveInv
  <1>4. Last(j)' /\ \A i \in Jobs : Last(i)' => i = j
    <2>1. Last(j)'
      BY <1>2, <1>3 DEF Last
    <2>2. ASSUME NEW i \in Jobs, Last(i)' PROVE i = j
      <3>1. ~(i > j) /\ ~(j > i)
        BY <1>2, <1>3, <2>2 DEF Last
      <3> QED BY <1>1, <3>1
    <2> QED BY <2>1, <2>2
  <1>5. MoveInv'
    <2>1. \A i, k \in Jobs : i < k /\ job'[k] # "absent" => job'[i] # "absent"
      BY <1>0, <1>1, <1>2, <1>3 DEF MoveInv
    <2>2. move'[j] \in MoveRow /\ move'[j].from # move'[j].to
      <3>1. note.ws \in Workspaces
        BY <1>0 DEF PlaceType, NoteRow
      <3> QED BY <1>2, <3>1 DEF MoveRow
    <2>3. \A i \in Jobs : job'[i] # "absent" => move'[i] \in MoveRow /\ move'[i].from # move'[i].to
      BY <1>0, <1>2, <2>2 DEF MoveInv
    <2>4. \A w \in Workers : run'[w] # Idle => job'[run'[w].job] # "absent"
      BY <1>0, <1>2, RunTypes DEF MoveInv
    <2>5. \A i \in Jobs : told'[i] => job'[i] # "absent"
      BY <1>0, <1>2 DEF MoveInv
    <2> QED BY <1>2, <1>4, <2>1, <2>3, <2>4, <2>5 DEF MoveInv
  <1>6. HandInv' /\ MediaType' /\ CountType' /\ HandlerType'
    BY <1>0, <1>2 DEF HandInv, MediaType, CountType, HandlerType
  <1> QED BY <1>2, <1>4, <1>5, <1>6, TypeParts DEF TypeInv

LEMMA TypeOther ==
    ASSUME TypeInv, UNCHANGED vars \/ Undo \/ Rerun \/ \E j \in Jobs : Buried(j)
    PROVE  TypeInv' /\ NoNewJob
  <1>0. /\ ContractTypeOK /\ MediaType /\ PlaceType /\ CountType /\ HandlerType
        /\ HandInv /\ MoveInv
    BY TypeParts DEF TypeInv
  <1>1. CASE UNCHANGED vars
    <2>1. UNCHANGED <<job, run, told, note, rows, copies, stub, move, h, runs, disturbed>>
      BY <1>1 DEF vars, contractVars, mediaVars, handlerVars
    <2>2. NoNewJob
      BY <2>1 DEF NoNewJob
    <2>3. MoveInv' /\ HandInv'
      BY <1>0, <2>1 DEF MoveInv, HandInv, Last
    <2>4. TypeOK'
      BY <1>0, <2>1, TypeParts
            DEF ContractTypeOK, MediaType, PlaceType, CountType, HandlerType
    <2> QED BY <2>2, <2>3, <2>4 DEF TypeInv
  <1>2. CASE Undo \/ Rerun
    <2>1. /\ UNCHANGED <<job, run, told, note, stub, move, h, runs>> /\ MediaType'
          /\ disturbed' \in BOOLEAN
      BY <1>2, UndoEffect, RerunEffect
    <2>2. NoNewJob
      BY <2>1 DEF NoNewJob
    <2>3. MoveInv' /\ HandInv'
      BY <1>0, <2>1 DEF MoveInv, HandInv, Last
    <2>4. TypeOK'
      BY <1>0, <2>1, TypeParts
            DEF ContractTypeOK, PlaceType, CountType, HandlerType
    <2> QED BY <2>2, <2>3, <2>4 DEF TypeInv
  <1>3. ASSUME NEW j \in Jobs, Buried(j) PROVE TypeInv' /\ NoNewJob
    <2>1. /\ UNCHANGED <<run, told, note, rows, copies, stub, move, h, runs, disturbed>>
          /\ ContractTypeOK' /\ job[j] = "open" /\ job'[j] = "dead"
          /\ \A i \in Jobs \ {j} : job'[i] = job[i]
      BY <1>3, BuriedEffect
    <2>2. NoNewJob
      BY <2>1 DEF NoNewJob
    <2>3. MoveInv'
      <3>1. \A v \in Workers : run'[v] # Idle => job[run'[v].job] # "absent" /\ run'[v].job \in Jobs
        BY <1>0, <2>1, RunTypes DEF MoveInv
      <3>2. \A i \in Jobs : told'[i] => job[i] # "absent"
        BY <1>0, <2>1 DEF MoveInv
      <3> QED BY <1>0, <2>1, <2>2, <3>1, <3>2, MovesKept
    <2>4. HandInv' /\ TypeOK'
      BY <1>0, <2>1, TypeParts DEF HandInv, MediaType, PlaceType, CountType, HandlerType
    <2> QED BY <2>2, <2>3, <2>4 DEF TypeInv
  <1> QED BY <1>1, <1>2, <1>3

LEMMA TypeStep == TypeInv /\ [Next]_vars => TypeInv'
  BY NextSplit, TypeWorker, TypeMove, TypeOther

-----------------------------------------------------------------------------
(* Whoever loses a lease: a note on its way is served.                     *)

LEMMA ServedInit == Init => ServedInv
  BY DEF Init, ContractInit, ServedInv, Last

LEMMA ServedMove ==
    ASSUME TypeInv, ServedInv, NEW j \in Jobs, NEW t \in Workspaces, Move(j, t)
    PROVE  ServedInv'
  <1>1. Last(j)' /\ \A i \in Jobs : Last(i)' => i = j
    BY TypeMove
  <1>2. /\ UNCHANGED <<h, run, told>> /\ job[j] = "absent"
        /\ job'[j] = "open" /\ \A i \in Jobs \ {j} : job'[i] = job[i]
    BY MoveEffect
  <1>3. ~told[j] /\ \A w \in Workers : run[w].job # j
    BY <1>2, RunTypes, TypeParts DEF TypeInv, MoveInv
  <1> QED BY <1>1, <1>2, <1>3 DEF ServedInv

\* The other steps, by what they do to the job of the last move.
LEMMA ServedKept ==
    ASSUME TypeInv, ServedInv, NoNewJob,
           note'.media = "rehoming" => note.media = "rehoming",
           note'.media # "ready" => note.media # "ready",
           \A j \in Jobs : job'[j] = "cancelled" => job[j] = "cancelled",
           \A j \in Jobs : Last(j) /\ note.media = "rehoming" /\ note'.media = "rehoming" =>
               /\ job'[j] = "complete" => job[j] = "complete"
               /\ told'[j] = told[j]
               /\ \A w \in Workers : run'[w].job = j /\ h'[w].pc = "audit" =>
                     run[w].job = j /\ h[w].pc = "audit"
    PROVE  ServedInv'
  <1>1. \A j \in Jobs : Last(j)' <=> Last(j)
    BY LastStays
  <1> QED BY <1>1 DEF ServedInv

LEMMA ServedWorker ==
    ASSUME TypeInv, ServedInv, NEW w \in Workers,
           (\E j \in Jobs : BeginRun(w, j)) \/ InnerStep(w) \/ FinalStep(w) \/ GivesUp(w)
    PROVE  ServedInv'
  <1>0. NoNewJob /\ ContractTypeOK /\ MoveInv
    BY TypeWorker, TypeParts DEF TypeInv
  <1>1. ASSUME NEW j \in Jobs, BeginRun(w, j) PROVE ServedInv'
    <2>1. /\ note' = note /\ h'[w].pc = "plan" /\ \A v \in Workers \ {w} : h'[v] = h[v]
          /\ UNCHANGED <<job, told>> /\ \A v \in Workers \ {w} : run'[v] = run[v]
      BY <1>0, <1>1, BeginRunEffect, BeginEffect
    <2> QED BY <1>0, <2>1, ServedKept
  <1>2. CASE InnerStep(w)
    <2>1. /\ UNCHANGED <<job, run, told>> /\ \A v \in Workers \ {w} : h'[v] = h[v]
          /\ note'.media \in {note.media, "ready"} /\ run[w] # Idle
          /\ h'[w].pc = "audit" => ~Here(w) \/ note'.media = "ready"
      BY <1>2, InnerEffect DEF QuietHandler
    <2>2. Last(run[w].job) => Here(w)
      BY <1>0, <2>1, RunMove DEF MoveInv, Here
    <2> QED BY <1>0, <2>1, <2>2, ServedKept
  <1>3. CASE FinalStep(w)
    <2>1. /\ run[w] # Idle /\ (End(w, "complete") \/ Release(w) \/ Tell(w) \/ Die(w))
          /\ End(w, "complete") => h[w].pc = "audit" \/ job' = job
          /\ h'[w] = IdleHandler /\ \A v \in Workers \ {w} : h'[v] = h[v]
          /\ note'.media = note.media \/ (note.media = "rehoming" /\ note'.media = "failed")
          /\ \A j \in Jobs : told'[j] # told[j] =>
                j = run[w].job /\ (Here(w) => note'.media # "rehoming")
      BY <1>3, FinalEffect
    <2>2. /\ \A v \in Workers \ {w} : run'[v] = run[v]
          /\ \A j \in Jobs : \/ job'[j] = job[j]
                             \/ /\ job[j] = "open" /\ job'[j] = "complete"
                                /\ j = run[w].job /\ End(w, "complete")
      BY <1>0, <2>1, EndEffect
    <2>3. Last(run[w].job) => Here(w)
      BY <1>0, <2>1, RunMove DEF MoveInv, Here
    <2>4. ASSUME NEW j \in Jobs, Last(j), note.media = "rehoming", note'.media = "rehoming"
          PROVE  /\ job'[j] = "complete" => job[j] = "complete"
                 /\ told'[j] = told[j]
                 /\ \A v \in Workers : run'[v].job = j /\ h'[v].pc = "audit" =>
                       run[v].job = j /\ h[v].pc = "audit"
      <3>1. told'[j] = told[j]
        BY <2>1, <2>3, <2>4
      <3>2. job'[j] = "complete" => job[j] = "complete"
        BY <2>1, <2>2, <2>4 DEF ServedInv
      <3>3. h'[w].pc # "audit"
        BY <2>1, IdleRow
      <3> QED BY <2>1, <2>2, <3>1, <3>2, <3>3
    <2>5. \A j \in Jobs : job'[j] = "cancelled" => job[j] = "cancelled"
      BY <2>2
    <2>6. /\ note'.media = "rehoming" => note.media = "rehoming"
          /\ note'.media # "ready" => note.media # "ready"
      BY <2>1
    <2> QED BY <1>0, <2>4, <2>5, <2>6, ServedKept
  <1>4. CASE GivesUp(w)
    <2>1. /\ note' = note /\ h'[w].pc = "dead" /\ \A v \in Workers \ {w} : h'[v] = h[v]
          /\ GiveUp(w)
      BY <1>4, GivesUpEffect
    <2>2. /\ told' = told /\ \A v \in Workers \ {w} : run'[v] = run[v]
          /\ \A j \in Jobs : job'[j] = job[j] \/ job'[j] \in {"failed", "dead"}
      BY <1>0, <2>1, GiveUpEffect
    <2> QED BY <1>0, <2>1, <2>2, ServedKept
  <1> QED BY <1>1, <1>2, <1>3, <1>4

LEMMA ServedStep == TypeInv /\ ServedInv /\ [Next]_vars => ServedInv'
  <1> SUFFICES ASSUME TypeInv, ServedInv, [Next]_vars PROVE ServedInv'
    OBVIOUS
  <1>1. CASE UNCHANGED vars \/ Undo \/ Rerun \/ \E j \in Jobs : Buried(j)
    <2>1. NoNewJob
      BY <1>1, TypeOther
    <2>2. UNCHANGED <<run, told, note, h>> /\ \A j \in Jobs : job'[j] \in {job[j], "dead"}
      BY <1>1, UndoEffect, RerunEffect, BuriedEffect DEF vars, contractVars, handlerVars
    <2> QED BY <2>1, <2>2, ServedKept
  <1> QED BY <1>1, NextSplit, ServedMove, ServedWorker

\* A note that refuses moves because its media are on their way has a job that
\* will get to it, or one that was given up without its handler being told:
\* for any number of moves, runs and workers, leases lost or not.
THEOREM RehomingServed == Spec => [](TypeOK /\ RehomingIsServed)
  <1>1. TypeInv /\ ServedInv => TypeOK /\ RehomingIsServed
    <2> SUFFICES ASSUME TypeInv, ServedInv, note.media = "rehoming"
                 PROVE  RehomingIsServed
      BY DEF TypeInv, RehomingIsServed
    <2>1. PICK j \in Jobs : Last(j)
      BY DEF ServedInv
    <2>2. job[j] \in {"absent", "open"} \cup Settled
      BY TypeParts DEF TypeInv, ContractTypeOK
    <2>3. /\ job[j] \notin {"absent", "complete", "cancelled"} /\ ~told[j]
          /\ \A i \in Jobs : i > j => job[i] = "absent"
      BY <2>1 DEF ServedInv, Last
    <2>4. job[j] = "open" \/ job[j] \in {"failed", "dead"}
      BY <2>2, <2>3 DEF Settled
    <2> QED BY <2>3, <2>4 DEF RehomingIsServed
  <1> QED BY <1>1, TypeInit, TypeStep, ServedInit, ServedStep, PTL DEF Spec

-----------------------------------------------------------------------------
(* Nothing gets lost on the way, and what is ready is at home.             *)

LEMMA LastUnique ==
    ASSUME NEW i \in Jobs, NEW j \in Jobs, Last(i), Last(j)
    PROVE  i = j
  BY MoveAssumption DEF Last

\* Whoever is at work brings the objects to where the note is, from where the
\* last move left.
LEMMA WorkHere ==
    ASSUME TypeInv, WorkInv, NEW w \in Workers, Working(w)
    PROVE  /\ run[w] # Idle /\ run[w].job \in Jobs /\ Last(run[w].job) /\ Here(w)
           /\ To(w) = note.ws /\ From(w) # To(w) /\ To(w) \in Workspaces
           /\ From(w) = move[run[w].job].from /\ To(w) = move[run[w].job].to
           /\ \A j \in Jobs : Last(j) => j = run[w].job
  <1>1. run[w] # Idle
    BY DEF Working, AtWork, TypeInv, HandInv
  <1>2. Last(run[w].job)
    BY DEF WorkInv
  <1>3. run[w].job \in Jobs /\ From(w) # To(w) /\ To(w) \in Workspaces
    BY <1>1, RunMove
  <1>4. move[run[w].job].to = note.ws
    BY <1>2, <1>3 DEF TypeInv, MoveInv
  <1> QED BY <1>1, <1>2, <1>3, <1>4, LastUnique DEF Here, From, To

LEMMA WorkStep ==
    ASSUME TypeInv, WorkInv, [Next]_vars, ~disturbed'
    PROVE  WorkInv' /\ ~disturbed
  <1>0. ContractTypeOK
    BY TypeParts DEF TypeInv
  <1>1. ASSUME NEW j \in Jobs, NEW t \in Workspaces, Move(j, t)
        PROVE  WorkInv' /\ ~disturbed
    <2>1. h' = h /\ ~disturbed /\ \A w \in Workers : ~Working(w)
      BY <1>1, MoveEffect
    <2> QED BY <2>1 DEF WorkInv, Working, AtWork
  <1>2. ASSUME UNCHANGED vars \/ Undo \/ Rerun \/ \E j \in Jobs : Buried(j)
        PROVE  WorkInv' /\ ~disturbed
    <2>1. UNCHANGED <<run, h>> /\ ~disturbed
      BY <1>2, UndoEffect, RerunEffect, BuriedEffect DEF vars, contractVars, handlerVars
    <2>2. NoNewJob
      BY <1>2, TypeOther
    <2>3. \A w \in Workers : Working(w) => run[w].job \in Jobs
      BY WorkHere
    <2> QED BY <2>1, <2>2, <2>3, LastStays DEF WorkInv, Working, AtWork
  <1>3. ASSUME NEW w \in Workers, NoNewJob, ~disturbed,
               \A v \in Workers \ {w} : h'[v] = h[v] /\ run'[v] = run[v],
               Working(w)' => Last(run'[w].job) /\ run'[w].job \in Jobs
        PROVE  WorkInv' /\ ~disturbed
    <2> SUFFICES ASSUME NEW v \in Workers, Working(v)'
                 PROVE  Last(run[v].job)'
      BY <1>3 DEF WorkInv
    <2>1. CASE v = w
      BY <1>3, <2>1 DEF Last, NoNewJob
    <2>2. CASE v # w
      <3>1. Working(v) /\ run'[v] = run[v]
        BY <1>3, <2>2 DEF Working, AtWork
      <3>2. run[v].job \in Jobs
        BY <3>1, WorkHere
      <3> QED BY <1>3, <2>2, <3>1, <3>2 DEF WorkInv, Last, NoNewJob
    <2> QED BY <2>1, <2>2
  <1>4. ASSUME NEW w \in Workers, NEW j \in Jobs, BeginRun(w, j)
        PROVE  WorkInv' /\ ~disturbed
    <2>1. /\ \A v \in Workers \ {w} : h'[v] = h[v] /\ run'[v] = run[v]
          /\ ~disturbed /\ InTime(j) /\ run'[w].job = j /\ job[j] # "absent"
      BY <1>0, <1>4, BeginRunEffect, BeginEffect
    <2>2. Last(j)
      BY <2>1 DEF InTime, Last
    <2> QED BY <1>3, <1>4, <2>1, <2>2, TypeWorker
  <1>5. ASSUME NEW w \in Workers, InnerStep(w)
        PROVE  WorkInv' /\ ~disturbed
    <2>1. /\ QuietHandler /\ run[w] # Idle /\ Working(w) /\ \A v \in Workers \ {w} : h'[v] = h[v]
      BY <1>5, InnerEffect
    <2>2. Last(run[w].job) /\ run[w].job \in Jobs
      BY <2>1, WorkHere
    <2> QED BY <1>3, <1>5, <2>1, <2>2, TypeWorker DEF QuietHandler
  <1>6. ASSUME NEW w \in Workers, FinalStep(w)
        PROVE  WorkInv' /\ ~disturbed
    <2>1. /\ disturbed' = disturbed /\ h'[w] = IdleHandler
          /\ \A v \in Workers \ {w} : h'[v] = h[v] /\ run'[v] = run[v]
      BY <1>0, <1>6, FinalEffect, EndEffect
    <2>2. ~Working(w)'
      BY <2>1, IdleRow DEF Working, AtWork
    <2> QED BY <1>3, <1>6, <2>1, <2>2, TypeWorker
  <1>7. ASSUME NEW w \in Workers, GivesUp(w)
        PROVE  WorkInv' /\ ~disturbed
    <2>1. /\ disturbed' = disturbed /\ h'[w].pc = "dead"
          /\ \A v \in Workers \ {w} : h'[v] = h[v] /\ run'[v] = run[v]
      BY <1>0, <1>7, GivesUpEffect, GiveUpEffect
    <2>2. ~Working(w)'
      BY <2>1 DEF Working, AtWork
    <2> QED BY <1>3, <1>7, <2>1, <2>2, TypeWorker
  <1> QED BY <1>1, <1>2, <1>4, <1>5, <1>6, <1>7, NextSplit

LEMMA NamedKey ==
    ASSUME TypeInv, NEW c \in Columns, rows[c] # NoUri
    PROVE  /\ rows[c] \in Key /\ rows[c].obj \in Objects /\ rows[c].ws \in Workspaces
           /\ rows[c] = At(rows[c].obj, rows[c].ws)
  BY TypeParts DEF TypeInv, MediaType, Key, At

LEMMA KeysDiffer ==
    ASSUME NEW o, NEW p, NEW a, NEW b
    PROVE  /\ At(o, a).obj = o /\ At(o, a).ws = a
           /\ At(o, a) = At(p, b) => o = p /\ a = b
  BY DEF At

\* MediaInv of the next state, key by key.
LEMMA MediaFrom ==
    ASSUME MediaType',
           \A c, d \in Columns :
              c # d /\ rows'[c] # NoUri /\ rows'[d] # NoUri => rows'[c].obj # rows'[d].obj,
           \A c \in Columns : \A k \in Key : rows'[c] = k => Placed(k)'
    PROVE  MediaInv'
  <1>1. ASSUME NEW c \in Columns, rows'[c] # NoUri PROVE Placed(rows[c])'
    <2>1. PICK k \in Key : k = rows'[c]
      BY <1>1 DEF MediaType
    <2>2. Placed(k)'
      BY <2>1
    <2> QED BY <2>1, <2>2 DEF Placed, Underway, AtHome
  <1> QED BY <1>1 DEF MediaInv

LEMMA MediaKeys ==
    ASSUME TypeInv, MediaInv, NEW c \in Columns, NEW k \in Key, rows[c] = k
    PROVE  Placed(k) /\ rows[c] # NoUri
  <1>1. k # NoUri
    BY MoveAssumption DEF Key, NoUri
  <1>2. Placed(rows[c])
    BY <1>1 DEF MediaInv
  <1> QED BY <1>1, <1>2 DEF Placed, Underway, AtHome

\* A key stays where it is when nothing but another object's is deleted.
LEMMA PlacedKept ==
    ASSUME NEW k \in Key, NoNewJob, UNCHANGED move, note'.ws = note.ws,
           note'.media = "ready" <=> note.media = "ready",
           \A x \in copies : x.obj = k.obj => x \in copies', Placed(k)
    PROVE  Placed(k)'
  <1>1. k \in copies => k \in copies'
    OBVIOUS
  <1>2. \A j \in Jobs : Last(j)' <=> Last(j)
    BY LastStays
  <1>3. \A j \in Jobs : Last(j) /\ At(k.obj, move[j].to) \in copies => At(k.obj, move[j].to) \in copies'
    BY KeysDiffer
  <1> QED BY <1>1, <1>2, <1>3 DEF Placed, Underway, AtHome

\* Media that are left alone.
LEMMA MediaKept ==
    ASSUME TypeInv, MediaInv, NoNewJob, UNCHANGED <<rows, copies, move>>, note'.ws = note.ws,
           note'.media = "ready" <=> note.media = "ready"
    PROVE  MediaInv'
  <1>1. MediaType'
    BY TypeParts DEF TypeInv, MediaType
  <1>2. \A c, d \in Columns :
           c # d /\ rows'[c] # NoUri /\ rows'[d] # NoUri => rows'[c].obj # rows'[d].obj
    BY DEF MediaInv
  <1>3. ASSUME NEW c \in Columns, NEW k \in Key, rows'[c] = k PROVE Placed(k)'
    <2>1. Placed(k)
      BY <1>3, MediaKeys
    <2> QED BY <2>1, PlacedKept
  <1> QED BY <1>1, <1>2, <1>3, MediaFrom

LEMMA MediaMove ==
    ASSUME TypeInv, MediaInv, ~disturbed', NEW j \in Jobs, NEW t \in Workspaces, Move(j, t)
    PROVE  MediaInv'
  <1>1. /\ UNCHANGED <<rows, copies>> /\ note.media = "ready" /\ note'.media = "rehoming"
        /\ move'[j].from = note.ws
    BY MoveEffect
  <1>2. \A i \in Jobs : Last(i)' => i = j
    BY TypeMove
  <1>3. MediaType'
    BY <1>1, TypeParts DEF TypeInv, MediaType
  <1>4. \A c, d \in Columns :
           c # d /\ rows'[c] # NoUri /\ rows'[d] # NoUri => rows'[c].obj # rows'[d].obj
    BY <1>1 DEF MediaInv
  <1>5. ASSUME NEW c \in Columns, NEW k \in Key, rows'[c] = k PROVE Placed(k)'
    <2>1. k.ws = note.ws /\ k \in copies
      BY <1>1, <1>5, MediaKeys DEF Placed, AtHome
    <2> QED BY <1>1, <1>2, <2>1 DEF Placed, Underway
  <1> QED BY <1>3, <1>4, <1>5, MediaFrom

LEMMA MediaUndo ==
    ASSUME TypeInv, MediaInv, Undo
    PROVE  MediaInv'
  <1>1. /\ UNCHANGED <<job, note, move>> /\ rows["previous"] # NoUri /\ MediaType'
        /\ rows'["result"] = rows["previous"] /\ rows'["previous"] = NoUri
        /\ rows'["audio"] = rows["audio"]
        /\ copies' \in {copies, copies \ {rows["result"]}}
    BY UndoEffect
  <1>2. /\ Columns = {"audio", "previous", "result"}
        /\ "audio" \in Columns /\ "previous" \in Columns /\ "result" \in Columns
    BY DEF Columns
  <1>3. \A c, d \in Columns :
           c # d /\ rows'[c] # NoUri /\ rows'[d] # NoUri => rows'[c].obj # rows'[d].obj
    BY <1>1, <1>2 DEF MediaInv
  <1>4. NoNewJob
    BY TypeOther
  <1>5. ASSUME NEW c \in {"audio", "previous"}, NEW k \in Key, rows[c] = k PROVE Placed(k)'
    <2>1. Placed(k) /\ rows[c] # NoUri
      BY <1>2, <1>5, MediaKeys
    <2>2. rows["result"] # NoUri => rows["result"].obj # k.obj
      BY <1>2, <1>5, <2>1 DEF MediaInv
    <2>3. \A x \in copies : x # NoUri
      BY TypeParts, MoveAssumption DEF TypeInv, MediaType, NoUri, Key
    <2>4. \A x \in copies : x.obj = k.obj => x \in copies'
      BY <1>1, <2>2, <2>3
    <2> QED BY <1>1, <1>4, <2>1, <2>4, PlacedKept
  <1>6. NoUri \notin Key
    BY MoveAssumption DEF NoUri, Key
  <1>7. \A c \in Columns : \A k \in Key : rows'[c] = k => Placed(k)'
    BY <1>1, <1>2, <1>5, <1>6
  <1> QED BY <1>1, <1>3, <1>7, MediaFrom

LEMMA MediaRerun ==
    ASSUME TypeInv, MediaInv, Rerun
    PROVE  MediaInv'
  <1> DEFINE new == At("second", note.ws)
  <1>1. /\ UNCHANGED <<job, note, move>> /\ MediaType'
        /\ rows["result"] \in copies /\ rows["result"].ws = note.ws /\ rows["result"] # NoUri
        /\ \A c \in Columns : rows[c].obj # "second"
        /\ rows'["result"] = new /\ rows'["previous"] = rows["result"]
        /\ rows'["audio"] = rows["audio"]
        /\ copies' \in {copies \cup {new}, (copies \cup {new}) \ {rows["previous"]}}
    BY RerunEffect
  <1>2. /\ Columns = {"audio", "previous", "result"}
        /\ "audio" \in Columns /\ "previous" \in Columns /\ "result" \in Columns
    BY DEF Columns
  <1>3. new.obj = "second" /\ new.ws = note.ws
    BY KeysDiffer
  <1> HIDE DEF new
  <1>4. \A c, d \in Columns :
           c # d /\ rows'[c] # NoUri /\ rows'[d] # NoUri => rows'[c].obj # rows'[d].obj
    BY <1>1, <1>2, <1>3 DEF MediaInv
  <1>5. NoNewJob
    BY TypeOther
  <1>6. ASSUME NEW c \in {"audio", "result"}, NEW k \in Key, rows[c] = k PROVE Placed(k)'
    <2>1. Placed(k) /\ rows[c] # NoUri
      BY <1>2, <1>6, MediaKeys
    <2>2. rows["previous"] # NoUri => rows["previous"].obj # k.obj
      BY <1>2, <1>6, <2>1 DEF MediaInv
    <2>3. \A x \in copies : x # NoUri
      BY TypeParts, MoveAssumption DEF TypeInv, MediaType, NoUri, Key
    <2>4. \A x \in copies : x.obj = k.obj => x \in copies'
      BY <1>1, <2>2, <2>3
    <2> QED BY <1>1, <1>5, <2>1, <2>4, PlacedKept
  <1>7. ASSUME NEW k \in Key, k = new PROVE Placed(k)'
    <2>1. rows["previous"] # new
      BY <1>1, <1>2, <1>3
    <2>2. k.ws = note.ws /\ k \in copies'
      BY <1>1, <1>3, <1>7, <2>1
    <2>3. \A j \in Jobs : Last(j)' => move'[j].to = note.ws
      BY <1>1, <1>5, LastStays DEF TypeInv, MoveInv
    <2> QED BY <1>1, <2>2, <2>3 DEF Placed, Underway, AtHome
  <1>8. \A c \in Columns : \A k \in Key : rows'[c] = k => Placed(k)'
    BY <1>1, <1>2, <1>6, <1>7
  <1> QED BY <1>1, <1>4, <1>8, MediaFrom

\* What a run's step does to rows and objects: a row may go on to the
\* destination's key when there is a copy under it, and a copy may go when the
\* destination has the object.
LEMMA InnerRows ==
    ASSUME TypeInv, WorkInv, LeftInv, NEW w \in Workers, InnerStep(w)
    PROVE  /\ \A c \in Columns :
                 \/ rows'[c] = rows[c]
                 \/ /\ rows[c] # NoUri /\ rows'[c] = At(rows[c].obj, To(w)) /\ rows'[c] # NoUri
                    /\ rows'[c] \in copies'
           /\ \A k \in copies :
                 k \in copies' \/ (k.ws # To(w) /\ At(k.obj, To(w)) \in copies')
  <1>0. QuietHandler /\ Working(w) /\ From(w) # To(w) /\ To(w) \in Workspaces
    BY InnerEffect, WorkHere
  <1>1. CASE Plan(w) \/ Put(w) \/ Ready(w)
    BY <1>1, PlanEffect, PutEffect, ReadyEffect
  <1>2. CASE Point(w)
    <2> DEFINE item == Head(h[w].left)
    <2>1. /\ copies' = copies /\ h[w].pc = "point" /\ h[w].left # << >>
          /\ rows' = Pointed(w, item)
      BY <1>2, PointEffect
    <2>2. At(item.obj, To(w)) \in copies
      BY <2>1 DEF LeftInv, AtWork
    <2>3. CASE rows' = rows
      BY <2>1, <2>3
    <2>4. CASE rows' # rows
      <3>1. /\ item.col # "none" /\ rows[item.col] # NoUri
            /\ rows' = [rows EXCEPT ![item.col] = At(item.obj, To(w))]
        BY <2>1, <2>4 DEF Pointed
      <3>2. item.col \in Columns /\ item.obj = rows[item.col].obj
        <4>1. item \in Item /\ item = h[w].left[1] /\ 1 \in 1 .. Len(h[w].left)
          BY <2>1, FirstItem
        <4>2. item.col \in Columns
          BY <3>1, <4>1 DEF Item
        <4> QED BY <2>1, <3>1, <4>1, <4>2 DEF LeftInv, AtWork
      <3>3. At(item.obj, To(w)) # NoUri
        <4>1. At(item.obj, To(w)).ws = To(w) /\ NoUri.ws = Nowhere
          BY KeysDiffer DEF NoUri
        <4> QED BY <1>0, <4>1, MoveAssumption
      <3> HIDE DEF item
      <3>4. /\ rows'[item.col] = At(item.obj, To(w))
            /\ \A c \in Columns \ {item.col} : rows'[c] = rows[c]
        BY <3>1, <3>2, TypeParts DEF TypeInv, MediaType
      <3> QED BY <2>1, <2>2, <3>1, <3>2, <3>3, <3>4
    <2> QED BY <2>3, <2>4
  <1>3. CASE DeleteOld(w)
    <2> DEFINE o == Head(h[w].left).obj
    <2>1. /\ rows' = rows /\ h[w].pc = "delete"
          /\ copies' = copies \ {At(o, From(w))}
      BY <1>3, DeleteEffect
    <2>2. At(o, To(w)) \in copies
      BY <2>1 DEF LeftInv, AtWork
    <2>3. /\ At(o, From(w)).obj = o /\ At(o, From(w)).ws = From(w)
          /\ At(o, To(w)) # At(o, From(w))
      BY <1>0, KeysDiffer
    <2> HIDE DEF o
    <2> QED BY <1>0, <2>1, <2>2, <2>3
  <1> QED BY <1>1, <1>2, <1>3 DEF InnerStep

LEMMA MediaInner ==
    ASSUME TypeInv, WorkInv, MediaInv, LeftInv, NEW w \in Workers, InnerStep(w)
    PROVE  MediaInv'
  <1>0. /\ QuietHandler /\ Working(w) /\ NoNewJob /\ MediaType'
        /\ note'.ws = note.ws /\ note'.media \in {note.media, "ready"}
    BY InnerEffect, TypeWorker
  <1>1. /\ Last(run[w].job) /\ run[w].job \in Jobs /\ From(w) # To(w) /\ To(w) = note.ws
        /\ From(w) = move[run[w].job].from /\ To(w) = move[run[w].job].to
        /\ \A j \in Jobs : Last(j)' => j = run[w].job
    BY <1>0, WorkHere, LastStays
  <1>2. /\ \A c \in Columns :
              \/ rows'[c] = rows[c]
              \/ /\ rows[c] # NoUri /\ rows'[c] = At(rows[c].obj, To(w)) /\ rows'[c] # NoUri
                 /\ rows'[c] \in copies'
        /\ \A k \in copies : k \in copies' \/ (k.ws # To(w) /\ At(k.obj, To(w)) \in copies')
    BY InnerRows
  <1>3. \A c \in Columns : rows'[c] # NoUri => rows[c] # NoUri /\ rows'[c].obj = rows[c].obj
    BY <1>2, KeysDiffer
  <1>4. \A c, d \in Columns :
           c # d /\ rows'[c] # NoUri /\ rows'[d] # NoUri => rows'[c].obj # rows'[d].obj
    BY <1>3 DEF MediaInv
  <1>5. ASSUME NEW k \in Key, Placed(k),
               note'.media = "ready" => note.media = "ready" \/ (k.ws = To(w) /\ k \in copies)
        PROVE  Placed(k)'
    <2>1. k.ws = To(w) /\ k \in copies => k \in copies'
      BY <1>2
    <2>2. At(k.obj, To(w)) \in copies => At(k.obj, To(w)) \in copies'
      <3>1. At(k.obj, To(w)).ws = To(w)
        BY KeysDiffer
      <3> QED BY <1>2, <3>1
    <2>3. k \in copies => k \in copies' \/ At(k.obj, To(w)) \in copies'
      BY <1>2
    <2>4. note.media # "ready" => Underway(k, From(w), To(w))
      BY <1>1, <1>5 DEF Placed
    <2>5. note'.media = "ready" => AtHome(k, note.ws)'
      BY <1>0, <1>1, <1>5, <2>1 DEF Placed, AtHome
    <2>6. ASSUME note'.media # "ready", NEW j \in Jobs, Last(j)'
          PROVE  Underway(k, move[j].from, move[j].to)'
      <3>1. /\ j = run[w].job /\ move'[j].from = From(w) /\ move'[j].to = To(w)
            /\ note.media # "ready"
        BY <1>0, <1>1, <2>6 DEF QuietHandler
      <3> QED BY <2>1, <2>2, <2>3, <2>4, <3>1 DEF Underway, AtHome
    <2> QED BY <2>5, <2>6 DEF Placed
  <1>6. ASSUME NEW c \in Columns, NEW k \in Key, rows'[c] = k PROVE Placed(k)'
    <2>0. rows'[c] # NoUri
      BY <1>6, MoveAssumption DEF NoUri, Key
    <2>1. CASE rows'[c] = rows[c]
      <3>1. Placed(k)
        BY <1>6, <2>1, MediaKeys
      <3>2. note.media # "ready" /\ note'.media = "ready" => k.ws = To(w) /\ k \in copies
        <4> SUFFICES ASSUME note.media # "ready", note'.media = "ready"
                     PROVE  k.ws = To(w) /\ k \in copies
          OBVIOUS
        <4>1. h[w].pc = "put" /\ h[w].left = << >>
          BY PlanEffect, PutEffect, PointEffect, DeleteEffect, ReadyEffect DEF InnerStep
        <4>2. 1 .. Len(h[w].left) = {}
          BY <4>1
        <4>3. k.ws = To(w)
          BY <1>6, <2>0, <2>1, <4>1, <4>2 DEF LeftInv, AtWork
        <4>4. Underway(k, From(w), To(w))
          BY <1>1, <3>1 DEF Placed
        <4> QED BY <1>1, <4>3, <4>4 DEF Underway, AtHome
      <3> QED BY <1>5, <3>1, <3>2
    <2>2. CASE rows'[c] = At(rows[c].obj, To(w)) /\ rows'[c] \in copies'
      <3>1. k.ws = To(w) /\ k \in copies'
        BY <1>6, <2>2, KeysDiffer
      <3>2. \A j \in Jobs : Last(j)' => move'[j].to = To(w)
        BY <1>0, <1>1 DEF QuietHandler
      <3> QED BY <1>0, <1>1, <3>1, <3>2 DEF Placed, Underway, AtHome
    <2> QED BY <1>2, <2>1, <2>2
  <1> QED BY <1>0, <1>4, <1>6, MediaFrom

LEMMA TailIndex ==
    ASSUME NEW S, NEW s \in Seq(S), s # << >>
    PROVE  /\ \A i \in 1 .. Len(s) : i # 1 => i - 1 \in 1 .. Len(Tail(s)) /\ Tail(s)[i - 1] = s[i]
           /\ \A i \in 1 .. Len(Tail(s)) : i + 1 \in 1 .. Len(s) /\ Tail(s)[i] = s[i + 1]
  OBVIOUS

IsIn(x, s) == \E i \in 1 .. Len(s) : s[i] = x

LEMMA InConcat ==
    ASSUME NEW S, NEW s \in Seq(S), NEW t \in Seq(S), NEW x
    PROVE  IsIn(x, s \o t) <=> IsIn(x, s) \/ IsIn(x, t)
  <1>1. /\ Len(s \o t) = Len(s) + Len(t) /\ Len(s) \in Nat /\ Len(t) \in Nat
        /\ \A i \in 1 .. Len(s) : (s \o t)[i] = s[i]
        /\ \A i \in 1 .. Len(t) : (s \o t)[Len(s) + i] = t[i]
    OBVIOUS
  <1>2. ASSUME IsIn(x, s) PROVE IsIn(x, s \o t)
    <2>1. PICK i \in 1 .. Len(s) : s[i] = x
      BY <1>2 DEF IsIn
    <2>2. i \in 1 .. Len(s \o t) /\ (s \o t)[i] = x
      BY <1>1, <2>1
    <2> QED BY <2>2 DEF IsIn
  <1>3. ASSUME IsIn(x, t) PROVE IsIn(x, s \o t)
    <2>1. PICK i \in 1 .. Len(t) : t[i] = x
      BY <1>3 DEF IsIn
    <2>2. Len(s) + i \in 1 .. Len(s \o t) /\ (s \o t)[Len(s) + i] = x
      BY <1>1, <2>1
    <2> QED BY <2>2 DEF IsIn
  <1>4. ASSUME IsIn(x, s \o t) PROVE IsIn(x, s) \/ IsIn(x, t)
    <2>1. PICK i \in 1 .. Len(s \o t) : (s \o t)[i] = x
      BY <1>4 DEF IsIn
    <2>2. CASE i \in 1 .. Len(s)
      BY <1>1, <2>1, <2>2 DEF IsIn
    <2>3. CASE i \notin 1 .. Len(s)
      <3>1. i - Len(s) \in 1 .. Len(t) /\ i = Len(s) + (i - Len(s))
        BY <1>1, <2>3
      <3>2. t[i - Len(s)] = x
        BY <1>1, <2>1, <3>1
      <3> QED BY <3>1, <3>2 DEF IsIn
    <2> QED BY <2>2, <2>3
  <1> QED BY <1>2, <1>3, <1>4

ItemOf(c) == [col |-> c, obj |-> rows[c].obj, ws |-> rows[c].ws]

\* What plan() returns: the rows that name an object, and derived keys.
LEMMA PlannedItems ==
    ASSUME TypeInv, NEW w \in Workers, run[w] # Idle
    PROVE  /\ \A c \in Columns : rows[c] # NoUri => IsIn(ItemOf(c), Planned(w))
           /\ \A x : IsIn(x, Planned(w)) =>
                 x.col = "none" \/ \E c \in Columns : rows[c] # NoUri /\ x = ItemOf(c)
  <1> DEFINE derived(o) == [col |-> "none", obj |-> o, ws |-> From(w)]
             first == <<derived("rerun"), derived("second")>>
  <1>1. first \in Seq(Item)
    <2>1. derived("rerun") \in Item /\ derived("second") \in Item
      BY RunMove DEF Item, Objects
    <2> QED BY <2>1
  <1>2. ASSUME NEW c \in Columns
        PROVE  /\ Named(c) \in Seq(Item)
               /\ \A x : IsIn(x, Named(c)) <=> rows[c] # NoUri /\ x = ItemOf(c)
    <2>1. CASE rows[c] = NoUri
      <3>1. Named(c) = << >>
        BY <2>1 DEF Named
      <3>2. << >> \in Seq(Item) /\ 1 .. Len(<< >>) = {}
        OBVIOUS
      <3> QED BY <2>1, <3>1, <3>2 DEF IsIn
    <2>2. CASE rows[c] # NoUri
      <3>1. Named(c) = <<ItemOf(c)>>
        BY <2>2 DEF Named, ItemOf
      <3>2. ItemOf(c) \in Item
        BY <2>2, NamedKey DEF ItemOf, Item
      <3> HIDE DEF ItemOf
      <3>3. <<ItemOf(c)>> \in Seq(Item) /\ Len(<<ItemOf(c)>>) = 1 /\ <<ItemOf(c)>>[1] = ItemOf(c)
        BY <3>2
      <3>4. \A x : IsIn(x, <<ItemOf(c)>>) <=> x = ItemOf(c)
        BY <3>3 DEF IsIn
      <3> QED BY <2>2, <3>1, <3>3, <3>4
    <2> QED BY <2>1, <2>2
  <1>3. "previous" \in Columns /\ "audio" \in Columns /\ "result" \in Columns
        /\ Columns = {"previous", "audio", "result"}
    BY DEF Columns
  <1>4. Planned(w) = ((first \o Named("previous")) \o Named("audio")) \o Named("result")
    BY DEF Planned
  <1> HIDE DEF first
  <1>5. /\ first \o Named("previous") \in Seq(Item)
        /\ (first \o Named("previous")) \o Named("audio") \in Seq(Item)
    BY <1>1, <1>2, <1>3
  <1>6. \A x : IsIn(x, Planned(w)) <=>
           \/ IsIn(x, first) \/ IsIn(x, Named("previous"))
           \/ IsIn(x, Named("audio")) \/ IsIn(x, Named("result"))
    <2> DEFINE s == first \o Named("previous")
               t == s \o Named("audio")
    <2>1. \A x : IsIn(x, s) <=> IsIn(x, first) \/ IsIn(x, Named("previous"))
      BY <1>1, <1>2, <1>3, InConcat
    <2>2. s \in Seq(Item) /\ t \in Seq(Item) /\ Planned(w) = t \o Named("result")
      BY <1>4, <1>5
    <2> HIDE DEF s
    <2>3. \A x : IsIn(x, t) <=> IsIn(x, s) \/ IsIn(x, Named("audio"))
      BY <1>2, <1>3, <2>2, InConcat
    <2> HIDE DEF t
    <2>4. \A x : IsIn(x, t \o Named("result")) <=> IsIn(x, t) \/ IsIn(x, Named("result"))
      BY <1>2, <1>3, <2>2, InConcat
    <2> QED BY <2>1, <2>2, <2>3, <2>4
  <1>7. \A x : IsIn(x, first) => x.col = "none"
    BY DEF IsIn, first
  <1> QED BY <1>2, <1>3, <1>6, <1>7

\* A step of one run leaves what another of the same job has left to do.
LEMMA LeftOthers ==
    ASSUME TypeInv, WorkInv, MediaInv, LeftInv, NEW w \in Workers, InnerStep(w),
           NEW v \in Workers \ {w}, AtWork(v)'
    PROVE  /\ \A i \in 1 .. Len(h'[v].left) : h'[v].left[i].col # "none" =>
                 /\ rows'[h'[v].left[i].col] # NoUri
                 /\ h'[v].left[i].obj = rows'[h'[v].left[i].col].obj
           /\ \A c \in Columns : rows'[c] # NoUri /\ rows'[c].ws # To(v)' =>
                 \E i \in 1 .. Len(h'[v].left) :
                    /\ h'[v].left[i] = [col |-> c, obj |-> rows'[c].obj, ws |-> rows'[c].ws]
                    /\ h'[v].pc = "delete" => i # 1
           /\ h'[v].pc \in {"point", "delete"} => At(Head(h'[v].left).obj, To(v)') \in copies'
  <1>1. QuietHandler /\ Working(w) /\ h'[v] = h[v]
    BY InnerEffect
  <1>2. AtWork(v) /\ Working(v)
    BY <1>1 DEF AtWork, Working
  <1>3. To(v)' = To(v) /\ To(v) = To(w)
    BY <1>1, <1>2, WorkHere DEF To, QuietHandler
  <1>4. /\ \A c \in Columns :
              \/ rows'[c] = rows[c]
              \/ /\ rows[c] # NoUri /\ rows'[c] = At(rows[c].obj, To(w)) /\ rows'[c] # NoUri
                 /\ rows'[c] \in copies'
        /\ \A k \in copies : k \in copies' \/ (k.ws # To(w) /\ At(k.obj, To(w)) \in copies')
    BY InnerRows
  <1>5. \A c \in Columns :
           /\ rows'[c] # NoUri <=> rows[c] # NoUri
           /\ rows'[c].obj = rows[c].obj
           /\ rows'[c].ws # To(w) => rows'[c] = rows[c]
    BY <1>4, KeysDiffer
  <1>6. ASSUME NEW i \in 1 .. Len(h[v].left), h[v].left[i].col # "none"
        PROVE  /\ rows'[h[v].left[i].col] # NoUri
               /\ h[v].left[i].obj = rows'[h[v].left[i].col].obj
    <2>1. rows[h[v].left[i].col] # NoUri /\ h[v].left[i].obj = rows[h[v].left[i].col].obj
      BY <1>2, <1>6 DEF LeftInv
    <2>2. h[v].left[i].col \in Columns
      <3>1. h[v].left \in Seq(Item)
        BY TypeParts DEF TypeInv, HandlerType, HandlerRow
      <3>2. h[v].left[i] \in Item
        BY <3>1
      <3> QED BY <1>6, <3>2 DEF Item
    <2> QED BY <1>5, <2>1, <2>2
  <1>7. ASSUME NEW c \in Columns, rows'[c] # NoUri, rows'[c].ws # To(v)
        PROVE  \E i \in 1 .. Len(h[v].left) :
                  /\ h[v].left[i] = [col |-> c, obj |-> rows'[c].obj, ws |-> rows'[c].ws]
                  /\ h[v].pc = "delete" => i # 1
    <2>1. rows'[c] = rows[c]
      BY <1>3, <1>5, <1>7
    <2> QED BY <1>2, <1>7, <2>1 DEF LeftInv
  <1>8. h[v].pc \in {"point", "delete"} => At(Head(h[v].left).obj, To(v)) \in copies'
    <2>1. At(Head(h[v].left).obj, To(v)).ws = To(v)
      BY KeysDiffer
    <2> QED BY <1>2, <1>3, <1>4, <2>1 DEF LeftInv
  <1> QED BY <1>1, <1>3, <1>6, <1>7, <1>8

LEMMA LeftInner ==
    ASSUME TypeInv, WorkInv, MediaInv, LeftInv, NEW w \in Workers, InnerStep(w)
    PROVE  LeftInv'
  <1>0. /\ QuietHandler /\ run[w] # Idle /\ Working(w) /\ \A v \in Workers \ {w} : h'[v] = h[v]
    BY InnerEffect
  <1>2. Last(run[w].job) /\ Here(w)
    BY <1>0, WorkHere
  <1>3. To(w)' = To(w) /\ From(w) # To(w)
    BY <1>0, RunMove DEF To, QuietHandler
  <1>4. \A c \in Columns : rows[c] # NoUri => Underway(rows[c], From(w), To(w))
    BY <1>0, WorkHere DEF MediaInv, Placed, Underway
  <1> DEFINE left == h[w].left
  <1>5. ASSUME \A i \in 1 .. Len(h'[w].left) : h'[w].left[i].col # "none" =>
                  /\ rows'[h'[w].left[i].col] # NoUri
                  /\ h'[w].left[i].obj = rows'[h'[w].left[i].col].obj,
               \A c \in Columns : rows'[c] # NoUri /\ rows'[c].ws # To(w) =>
                  \E i \in 1 .. Len(h'[w].left) :
                     /\ h'[w].left[i] = [col |-> c, obj |-> rows'[c].obj, ws |-> rows'[c].ws]
                     /\ h'[w].pc = "delete" => i # 1,
               h'[w].pc \in {"point", "delete"} => At(Head(h'[w].left).obj, To(w)) \in copies'
        PROVE  LeftInv'
    <2> SUFFICES ASSUME NEW v \in Workers, AtWork(v)'
                 PROVE  /\ \A i \in 1 .. Len(h'[v].left) : h'[v].left[i].col # "none" =>
                              /\ rows'[h'[v].left[i].col] # NoUri
                              /\ h'[v].left[i].obj = rows'[h'[v].left[i].col].obj
                        /\ \A c \in Columns : rows'[c] # NoUri /\ rows'[c].ws # To(v)' =>
                              \E i \in 1 .. Len(h'[v].left) :
                                 /\ h'[v].left[i] =
                                       [col |-> c, obj |-> rows'[c].obj, ws |-> rows'[c].ws]
                                 /\ h'[v].pc = "delete" => i # 1
                        /\ h'[v].pc \in {"point", "delete"} =>
                              At(Head(h'[v].left).obj, To(v)') \in copies'
      BY DEF LeftInv
    <2>1. CASE v = w
      BY <1>3, <1>5, <2>1
    <2>2. CASE v # w
      BY <2>2, LeftOthers
    <2> QED BY <2>1, <2>2
  <1>6. CASE Plan(w)
    <2>1. rows' = rows /\ h'[w].pc = "put" /\ h'[w].left = Planned(w)
      BY <1>2, <1>6, PlanEffect
    <2>2. \A c \in Columns : rows[c] # NoUri => \E i \in 1 .. Len(Planned(w)) : Planned(w)[i] = ItemOf(c)
      BY <1>0, PlannedItems DEF IsIn
    <2>3. ASSUME NEW i \in 1 .. Len(Planned(w)), Planned(w)[i].col # "none"
          PROVE  /\ rows[Planned(w)[i].col] # NoUri
                 /\ Planned(w)[i].obj = rows[Planned(w)[i].col].obj
      <3>1. IsIn(Planned(w)[i], Planned(w))
        BY DEF IsIn
      <3>2. PICK c \in Columns : rows[c] # NoUri /\ Planned(w)[i] = ItemOf(c)
        BY <1>0, <2>3, <3>1, PlannedItems
      <3>3. ItemOf(c).col = c /\ ItemOf(c).obj = rows[c].obj
        BY DEF ItemOf
      <3> QED BY <3>2, <3>3
    <2> QED BY <1>5, <2>1, <2>2, <2>3 DEF ItemOf
  <1>7. ASSUME h[w].pc \in {"put", "point", "delete"}, left # << >>
        PROVE  /\ \A i \in 1 .. Len(left) : left[i].col # "none" =>
                     rows[left[i].col] # NoUri /\ left[i].obj = rows[left[i].col].obj
               /\ \A c \in Columns : rows[c] # NoUri /\ rows[c].ws # To(w) =>
                     \E i \in 1 .. Len(left) : left[i] = ItemOf(c) /\ (h[w].pc = "delete" => i # 1)
               /\ \A i \in 1 .. Len(left) : i # 1 =>
                     i - 1 \in 1 .. Len(Tail(left)) /\ Tail(left)[i - 1] = left[i]
               /\ \A i \in 1 .. Len(Tail(left)) : i + 1 \in 1 .. Len(left) /\ Tail(left)[i] = left[i + 1]
               /\ h[w].pc \in {"point", "delete"} => At(Head(left).obj, To(w)) \in copies
    <2>1. left \in Seq(Item)
      BY <1>7, FirstItem
    <2> QED BY <1>7, <2>1, TailIndex DEF LeftInv, AtWork, ItemOf
  <1>8. CASE Put(w) /\ h'[w].pc = "point"
    <2>1. /\ rows' = rows /\ h[w].pc = "put" /\ h'[w].left = left /\ left # << >>
          /\ copies' = copies \cup {At(Head(left).obj, To(w))}
      BY <1>8, PutEffect
    <2> HIDE DEF left
    <2> QED BY <1>5, <1>7, <1>8, <2>1 DEF ItemOf
  <1>9. CASE Put(w) /\ h'[w].pc # "point"
    <2>1. /\ rows' = rows /\ h[w].pc = "put" /\ h'[w].pc = "put"
          /\ h'[w].left = Tail(left) /\ left # << >>
          /\ \/ Head(left).ws # From(w)
             \/ /\ At(Head(left).obj, From(w)) \notin copies
                /\ At(Head(left).obj, To(w)) \notin copies
      BY <1>9, PutEffect
    <2>2. Head(left) = left[1]
      BY <2>1, FirstItem
    <2> HIDE DEF left
    <2>3. ASSUME NEW c \in Columns, rows[c] # NoUri, rows[c].ws # To(w)
          PROVE  \E i \in 1 .. Len(Tail(left)) : Tail(left)[i] = ItemOf(c)
      <3>1. PICK i \in 1 .. Len(left) : left[i] = ItemOf(c)
        BY <1>7, <2>1, <2>3
      <3>2. /\ rows[c].ws = From(w) /\ rows[c] = At(rows[c].obj, From(w))
            /\ At(rows[c].obj, From(w)) \in copies \/ At(rows[c].obj, To(w)) \in copies
        BY <1>4, <2>3, NamedKey DEF Underway, AtHome
      <3>3. ItemOf(c).obj = rows[c].obj /\ ItemOf(c).ws = rows[c].ws
        BY DEF ItemOf
      <3>4. i # 1
        BY <2>1, <2>2, <3>1, <3>2, <3>3
      <3>5. i - 1 \in 1 .. Len(Tail(left)) /\ Tail(left)[i - 1] = left[i]
        BY <1>7, <2>1, <3>1, <3>4
      <3> QED BY <3>1, <3>5
    <2>4. \A i \in 1 .. Len(Tail(left)) : Tail(left)[i].col # "none" =>
             rows[Tail(left)[i].col] # NoUri /\ Tail(left)[i].obj = rows[Tail(left)[i].col].obj
      BY <1>7, <2>1
    <2> QED BY <1>5, <2>1, <2>3, <2>4 DEF ItemOf
  <1>10. CASE Point(w)
    <2>1. /\ copies' = copies /\ h[w].pc = "point" /\ left # << >> /\ rows' = Pointed(w, Head(left))
          /\ \/ h'[w].pc = "delete" /\ h'[w].left = left
             \/ h'[w].pc = "put" /\ h'[w].left = Tail(left)
      BY <1>10, PointEffect
    <2>2. Head(left) = left[1] /\ 1 \in 1 .. Len(left) /\ Head(left) \in Item
      BY <2>1, FirstItem
    <2> HIDE DEF left
    <2> DEFINE item == Head(left)
    <2>3. item.col \in Columns => item.col # "none" /\ rows[item.col] # NoUri /\ item.obj = rows[item.col].obj
      <3>1. "none" \notin Columns
        BY DEF Columns
      <3> QED BY <1>7, <2>1, <2>2, <3>1
    <2>4. /\ \A c \in Columns : c # item.col => rows'[c] = rows[c]
          /\ item.col \in Columns => rows'[item.col] = At(item.obj, To(w))
      <3>1. item.col \in Columns \cup {"none"}
        BY <2>2 DEF Item
      <3>2. "none" \notin Columns
        BY DEF Columns
      <3> HIDE DEF item
      <3>3. CASE item.col = "none"
        BY <2>1, <3>2, <3>3 DEF Pointed, item
      <3>4. CASE item.col \in Columns
        <4>1. rows' = [rows EXCEPT ![item.col] = At(item.obj, To(w))]
          BY <1>2, <2>1, <2>3, <3>4 DEF Pointed, item
        <4> QED BY <3>4, <4>1, TypeParts DEF TypeInv, MediaType
      <3> QED BY <3>1, <3>3, <3>4
    <2>5. item.col \in Columns => /\ rows'[item.col].obj = rows[item.col].obj
                                  /\ rows'[item.col].ws = To(w) /\ rows'[item.col] # NoUri
      <3>1. item.col \in Columns => rows'[item.col].obj = item.obj /\ rows'[item.col].ws = To(w)
        BY <2>4, KeysDiffer
      <3>2. To(w) # Nowhere
        BY <1>0, RunMove, MoveAssumption
      <3>3. NoUri.ws = Nowhere
        BY DEF NoUri
      <3> QED BY <2>3, <3>1, <3>2, <3>3
    <2>6. ASSUME NEW c \in Columns, rows'[c] # NoUri, rows'[c].ws # To(w)
          PROVE  /\ rows'[c] = rows[c]
                 /\ \E i \in 1 .. Len(left) : left[i] = ItemOf(c) /\ i # 1
      <3>1. c # item.col /\ rows'[c] = rows[c]
        BY <2>4, <2>5, <2>6
      <3>2. PICK i \in 1 .. Len(left) : left[i] = ItemOf(c)
        BY <1>7, <2>1, <2>6, <3>1
      <3>3. ItemOf(c).col = c
        BY DEF ItemOf
      <3> QED BY <2>2, <3>1, <3>2, <3>3
    <2>7. ASSUME NEW i \in 1 .. Len(left), left[i].col # "none"
          PROVE  rows'[left[i].col] # NoUri /\ left[i].obj = rows'[left[i].col].obj
      <3>1. rows[left[i].col] # NoUri /\ left[i].obj = rows[left[i].col].obj
        BY <1>7, <2>1, <2>7
      <3>2. left[i].col \in Columns
        <4>1. left \in Seq(Item)
          BY <2>1, FirstItem DEF left
        <4>2. left[i] \in Item
          BY <4>1
        <4> QED BY <2>7, <4>2 DEF Item
      <3> QED BY <2>4, <2>5, <3>1, <3>2
    <2>8. At(Head(left).obj, To(w)) \in copies'
      BY <1>7, <2>1
    <2> HIDE DEF item
    <2>9. CASE h'[w].pc = "delete" /\ h'[w].left = left
      <3>1. \A c \in Columns : rows'[c] # NoUri /\ rows'[c].ws # To(w) =>
               \E i \in 1 .. Len(left) :
                  left[i] = [col |-> c, obj |-> rows'[c].obj, ws |-> rows'[c].ws] /\ i # 1
        BY <2>6 DEF ItemOf
      <3> QED BY <1>5, <2>7, <2>8, <2>9, <3>1
    <2>10. CASE h'[w].pc = "put" /\ h'[w].left = Tail(left)
      <3>1. \A i \in 1 .. Len(Tail(left)) : Tail(left)[i].col # "none" =>
               rows'[Tail(left)[i].col] # NoUri /\ Tail(left)[i].obj = rows'[Tail(left)[i].col].obj
        BY <1>7, <2>1, <2>7
      <3>2. \A c \in Columns : rows'[c] # NoUri /\ rows'[c].ws # To(w) =>
               \E i \in 1 .. Len(Tail(left)) :
                  Tail(left)[i] = [col |-> c, obj |-> rows'[c].obj, ws |-> rows'[c].ws]
        <4> SUFFICES ASSUME NEW c \in Columns, rows'[c] # NoUri, rows'[c].ws # To(w)
                     PROVE  \E i \in 1 .. Len(Tail(left)) :
                               Tail(left)[i] = [col |-> c, obj |-> rows'[c].obj, ws |-> rows'[c].ws]
          OBVIOUS
        <4>1. ItemOf(c) = [col |-> c, obj |-> rows'[c].obj, ws |-> rows'[c].ws]
          BY <2>6 DEF ItemOf
        <4>2. PICK i \in 1 .. Len(left) : left[i] = ItemOf(c) /\ i # 1
          BY <2>6
        <4>3. i - 1 \in 1 .. Len(Tail(left)) /\ Tail(left)[i - 1] = ItemOf(c)
          BY <1>7, <2>1, <4>2
        <4> QED BY <4>1, <4>3
      <3> QED BY <1>5, <2>10, <3>1, <3>2
    <2> QED BY <2>1, <2>9, <2>10
  <1>11. CASE DeleteOld(w)
    <2>1. /\ rows' = rows /\ h[w].pc = "delete" /\ left # << >>
          /\ h'[w].pc = "put" /\ h'[w].left = Tail(left)
      BY <1>11, DeleteEffect
    <2> HIDE DEF left
    <2>2. \A c \in Columns : rows[c] # NoUri /\ rows[c].ws # To(w) =>
             \E i \in 1 .. Len(Tail(left)) : Tail(left)[i] = ItemOf(c)
      BY <1>7, <2>1
    <2>3. \A i \in 1 .. Len(Tail(left)) : Tail(left)[i].col # "none" =>
             rows[Tail(left)[i].col] # NoUri /\ Tail(left)[i].obj = rows[Tail(left)[i].col].obj
      BY <1>7, <2>1
    <2> QED BY <1>5, <2>1, <2>2, <2>3 DEF ItemOf
  <1>12. CASE Ready(w)
    <2>1. h'[w].pc = "audit"
      BY <1>12, ReadyEffect
    <2>2. ~AtWork(w)'
      BY <2>1 DEF AtWork
    <2>3. \A v \in Workers : AtWork(v)' => v \in Workers \ {w}
      BY <2>2
    <2> QED BY <2>3, LeftOthers DEF LeftInv
  <1> QED BY <1>6, <1>8, <1>9, <1>10, <1>11, <1>12 DEF InnerStep

\* A step that ends, begins or gives up a run leaves what others have left to do
\* alone.
LEMMA LeftKept ==
    ASSUME TypeInv, LeftInv, UNCHANGED <<rows, copies, move>>,
           \A v \in Workers : h'[v].pc \in {"put", "point", "delete"} =>
                                 h'[v] = h[v] /\ run'[v] = run[v]
    PROVE  LeftInv'
  <1>1. \A v \in Workers : run'[v] = run[v] => To(v)' = To(v)
    BY DEF To
  <1>2. \A v \in Workers : AtWork(v)' => AtWork(v) /\ h'[v] = h[v] /\ run'[v] = run[v]
    BY DEF AtWork
  <1> QED BY <1>1, <1>2 DEF LeftInv

LEMMA HomeInit == Init => HomeInv
  <1> SUFFICES ASSUME Init PROVE HomeInv
    OBVIOUS
  <1>1. /\ \A w \in Workers : run[w] = Idle /\ h[w].pc = "idle"
    BY DEF Init, ContractInit, IdleHandler
  <1>2. WorkInv /\ LeftInv
    BY <1>1 DEF WorkInv, LeftInv, Working, AtWork
  <1>3. MediaInv
    <2>1. /\ rows["audio"] = At("audio", Home) /\ rows["previous"] = At("original", Home)
          /\ rows["result"] = At("rerun", Home)
      BY DEF Init, Columns
    <2>2. At("audio", Home) \in copies /\ At("original", Home) \in copies
          /\ At("rerun", Home) \in copies
      BY DEF Init, Objects
    <2>3. note.ws = Home /\ note.media = "ready"
      BY DEF Init
    <2>4. Columns = {"audio", "previous", "result"}
      BY DEF Columns
    <2>5. \A c \in Columns : rows[c].ws = Home /\ rows[c] \in copies
      BY <2>1, <2>2, <2>4, KeysDiffer
    <2>6. \A c, d \in Columns : c # d => rows[c].obj # rows[d].obj
      BY <2>1, <2>4, KeysDiffer
    <2> QED BY <2>3, <2>5, <2>6 DEF MediaInv, Placed, AtHome
  <1> QED BY <1>2, <1>3 DEF HomeInv

LEMMA HomeStep ==
    ASSUME TypeInv, HomeInv, [Next]_vars
    PROVE  HomeInv'
  <1>0. ContractTypeOK
    BY TypeParts DEF TypeInv
  <1> SUFFICES ASSUME ~disturbed', disturbed' \in BOOLEAN PROVE WorkInv' /\ MediaInv' /\ LeftInv'
    <2>1. disturbed' \in BOOLEAN
      BY TypeStep, TypeParts DEF TypeInv, CountType
    <2> QED BY <2>1 DEF HomeInv
  <1>1. ~disturbed
    BY NextSplit, MoveEffect, UndoEffect, RerunEffect, BuriedEffect, BeginRunEffect, InnerEffect,
       FinalEffect, GivesUpEffect DEF vars, QuietHandler
  <1>2. WorkInv /\ MediaInv /\ LeftInv
    BY <1>1 DEF HomeInv
  <1>3. WorkInv'
    BY <1>2, WorkStep
  <1>4. ASSUME Undo \/ Rerun \/ \E j \in Jobs, t \in Workspaces : Move(j, t)
        PROVE  MediaInv' /\ LeftInv'
    <2>1. h' = h /\ \A w \in Workers : ~AtWork(w)
      BY <1>4, UndoEffect, RerunEffect, MoveEffect DEF Working
    <2>2. LeftInv'
      BY <2>1 DEF LeftInv, AtWork
    <2> QED BY <1>2, <1>4, <2>2, MediaUndo, MediaRerun, MediaMove
  <1>5. ASSUME UNCHANGED vars \/ \E j \in Jobs : Buried(j)
        PROVE  MediaInv' /\ LeftInv'
    <2>1. UNCHANGED <<run, note, rows, copies, move, h>> /\ NoNewJob
      BY <1>5, BuriedEffect, TypeOther DEF vars, contractVars, handlerVars, mediaVars
    <2> QED BY <1>2, <2>1, MediaKept, LeftKept
  <1>6. ASSUME NEW w \in Workers, InnerStep(w)
        PROVE  MediaInv' /\ LeftInv'
    BY <1>2, <1>6, MediaInner, LeftInner
  <1>7. ASSUME NEW w \in Workers, NEW j \in Jobs, BeginRun(w, j)
        PROVE  MediaInv' /\ LeftInv'
    <2>1. /\ UNCHANGED <<note, rows, copies, move>> /\ NoNewJob /\ h'[w].pc = "plan"
          /\ \A v \in Workers \ {w} : h'[v] = h[v] /\ run'[v] = run[v]
      BY <1>0, <1>7, BeginRunEffect, BeginEffect, TypeWorker
    <2>2. MediaInv'
      BY <1>2, <2>1, MediaKept
    <2> QED BY <1>2, <2>1, <2>2, LeftKept
  <1>8. ASSUME NEW w \in Workers, FinalStep(w)
        PROVE  MediaInv' /\ LeftInv'
    <2>1. /\ UNCHANGED <<rows, copies, move>> /\ NoNewJob /\ h'[w] = IdleHandler
          /\ note'.ws = note.ws /\ (note'.media = "ready" <=> note.media = "ready")
          /\ \A v \in Workers \ {w} : h'[v] = h[v] /\ run'[v] = run[v]
      BY <1>0, <1>8, FinalEffect, EndEffect, TypeWorker
    <2>2. h'[w].pc = "idle"
      BY <2>1, IdleRow
    <2>3. MediaInv'
      BY <1>2, <2>1, MediaKept
    <2> QED BY <1>2, <2>1, <2>2, <2>3, LeftKept
  <1>9. ASSUME NEW w \in Workers, GivesUp(w)
        PROVE  MediaInv' /\ LeftInv'
    <2>1. /\ UNCHANGED <<note, rows, copies, move>> /\ NoNewJob /\ h'[w].pc = "dead"
          /\ \A v \in Workers \ {w} : h'[v] = h[v] /\ run'[v] = run[v]
      BY <1>0, <1>9, GivesUpEffect, GiveUpEffect, TypeWorker
    <2>2. MediaInv'
      BY <1>2, <2>1, MediaKept
    <2> QED BY <1>2, <2>1, <2>2, LeftKept
  <1> QED BY <1>3, <1>4, <1>5, <1>6, <1>7, <1>8, <1>9, NextSplit

\* Runs that read, write and delete one object at a time, overlap, crash
\* anywhere and are tried again open the note only when every object is home,
\* whatever an undo or a re-run changes between them; except what disturbed
\* records, for any number of moves, runs, workers and workspaces.
THEOREM ReadyIsHome == Spec => []HomeUndisturbed
  <1>1. HomeInv => HomeUndisturbed
    BY DEF HomeInv, MediaInv, Placed, AtHome, HomeUndisturbed
  <1>2. TypeInv /\ HomeInv /\ [Next]_vars => HomeInv'
    BY HomeStep
  <1> QED BY <1>1, <1>2, TypeInit, TypeStep, HomeInit, PTL DEF Spec

\* At no point are there zero copies of an object that a row names, with the
\* same exceptions: the new key is written before the row points there, and the
\* old one deleted after, by whichever of the runs.
THEOREM CopiesRemain == Spec => []CopyRemains
  <1>1. TypeInv /\ ServedInv /\ HomeInv => CopyRemains
    <2> SUFFICES ASSUME TypeInv, ServedInv, HomeInv, ~disturbed, NEW c \in Columns,
                        rows[c] # NoUri
                 PROVE  \E k \in copies : k.obj = rows[c].obj
      BY DEF CopyRemains
    <2>1. MediaInv
      BY DEF HomeInv
    <2>2. CASE note.media = "ready"
      BY <2>1, <2>2 DEF MediaInv, Placed, AtHome
    <2>3. CASE note.media # "ready"
      <3>1. PICK j \in Jobs : Last(j)
        BY <2>3 DEF ServedInv
      <3>2. Underway(rows[c], move[j].from, move[j].to)
        BY <2>1, <2>3, <3>1 DEF MediaInv, Placed
      <3>3. rows[c] \in copies \/ At(rows[c].obj, move[j].to) \in copies
        BY <3>2 DEF Underway, AtHome
      <3>4. At(rows[c].obj, move[j].to).obj = rows[c].obj
        BY KeysDiffer
      <3> QED BY <3>3, <3>4
    <2> QED BY <2>2, <2>3
  <1>2. TypeInv /\ HomeInv /\ [Next]_vars => HomeInv'
    BY HomeStep
  <1> QED BY <1>1, <1>2, TypeInit, TypeStep, HomeInit, ServedInit, ServedStep, PTL DEF Spec

-----------------------------------------------------------------------------
(* The stubs.                                                              *)

\* A workspace with a stub was left by a move, the one of number left[ws].
LeadsBy(left) ==
    \A ws \in Workspaces : stub[ws] # Nowhere =>
        /\ left[ws] \in Jobs /\ job[left[ws]] # "absent"
        /\ \/ stub[ws] = note.ws
           \/ stub[stub[ws]] # Nowhere /\ left[ws] < left[stub[ws]]

StubInv ==
    /\ stub[note.ws] = Nowhere
    /\ \E left \in [Workspaces -> Jobs \cup {0}] : LeadsBy(left)

LEMMA StubInit == Init => StubInv
  <1> SUFFICES ASSUME Init PROVE StubInv
    OBVIOUS
  <1>1. \A ws \in Workspaces : stub[ws] = Nowhere
    BY DEF Init
  <1>2. stub[note.ws] = Nowhere
    BY <1>1, MoveAssumption DEF Init
  <1>3. [ws \in Workspaces |-> 0] \in [Workspaces -> Jobs \cup {0}]
    OBVIOUS
  <1>4. LeadsBy([ws \in Workspaces |-> 0])
    BY <1>1 DEF LeadsBy
  <1> QED BY <1>2, <1>3, <1>4 DEF StubInv

\* The stub of the workspace that is left is the newest: every stub that
\* pointed there is older, and what pointed to the new place ends there.
LEMMA StubMove ==
    ASSUME TypeInv, StubInv, NEW j \in Jobs, NEW t \in Workspaces, Move(j, t)
    PROVE  StubInv'
  <1>0. /\ stub \in [Workspaces -> Workspaces \cup {Nowhere}] /\ note.ws \in Workspaces
        /\ Jobs \subseteq Nat /\ Nowhere \notin Workspaces
    BY TypeParts, MoveAssumption DEF TypeInv, TypeOK, NoteRow
  <1>1. /\ t # note.ws /\ note'.ws = t /\ job'[j] = "open" /\ job[j] = "absent"
        /\ \A i \in Jobs \ {j} : job'[i] = job[i]
    BY MoveEffect
  <1>2. stub' = [stub EXCEPT ![note.ws] = t, ![t] = Nowhere]
    BY DEF Move, Stubs
  <1>3. \A ws \in Workspaces : stub'[ws] = IF ws = t THEN Nowhere
                                           ELSE IF ws = note.ws THEN t ELSE stub[ws]
    BY <1>0, <1>1, <1>2
  <1>4. PICK left \in [Workspaces -> Jobs \cup {0}] : LeadsBy(left)
    BY DEF StubInv
  <1>5. PICK new \in [Workspaces -> Jobs \cup {0}] : new = [left EXCEPT ![note.ws] = j]
    OBVIOUS
  <1>6. \A ws \in Workspaces : new[ws] = IF ws = note.ws THEN j ELSE left[ws]
    BY <1>5
  <1>7. \A i \in Jobs : job[i] # "absent" => i < j
    <2>1. \A i \in Jobs : j < i => job[i] = "absent"
      BY <1>1 DEF TypeInv, MoveInv
    <2> QED BY <1>0, <1>1, <2>1
  <1>8. ASSUME NEW ws \in Workspaces, stub'[ws] # Nowhere
        PROVE  /\ new[ws] \in Jobs /\ job'[new[ws]] # "absent"
               /\ \/ stub'[ws] = note'.ws
                  \/ stub'[stub'[ws]] # Nowhere /\ new[ws] < new[stub'[ws]]
    <2>1. CASE ws = note.ws
      BY <1>0, <1>1, <1>3, <1>6, <2>1
    <2>2. CASE ws # note.ws
      <3>1. /\ stub'[ws] = stub[ws] /\ stub[ws] \in Workspaces /\ new[ws] = left[ws]
            /\ left[ws] \in Jobs /\ job[left[ws]] # "absent" /\ left[ws] < j
        <4>1. stub'[ws] = stub[ws] /\ stub[ws] \in Workspaces
          BY <1>0, <1>3, <1>8, <2>2
        <4>2. left[ws] \in Jobs /\ job[left[ws]] # "absent"
          BY <1>4, <1>8, <4>1 DEF LeadsBy
        <4> QED BY <1>6, <1>7, <2>2, <4>1, <4>2
      <3>2. CASE stub[ws] = t
        BY <1>1, <3>1, <3>2
      <3>3. CASE stub[ws] = note.ws
        <4>1. new[note.ws] = j /\ stub'[note.ws] = t
          BY <1>0, <1>1, <1>3, <1>6
        <4> QED BY <1>0, <1>1, <3>1, <3>3, <4>1
      <3>4. CASE stub[ws] # t /\ stub[ws] # note.ws
        <4>1. stub[stub[ws]] # Nowhere /\ left[ws] < left[stub[ws]]
          BY <1>4, <1>8, <3>1, <3>4 DEF LeadsBy
        <4> QED BY <1>1, <1>3, <1>6, <3>1, <3>4, <4>1
      <3> QED BY <3>2, <3>3, <3>4
    <2> QED BY <2>1, <2>2
  <1>9. LeadsBy(new)'
    BY <1>8 DEF LeadsBy
  <1> QED BY <1>1, <1>3, <1>9 DEF StubInv

\* Nothing else touches a stub or the note's place.
LEMMA StubStep == TypeInv /\ StubInv /\ [Next]_vars => StubInv'
  <1> SUFFICES ASSUME TypeInv, StubInv, [Next]_vars PROVE StubInv'
    OBVIOUS
  <1>1. ASSUME NoNewJob, UNCHANGED stub, note'.ws = note.ws PROVE StubInv'
    <2>1. PICK left \in [Workspaces -> Jobs \cup {0}] : LeadsBy(left)
      BY DEF StubInv
    <2>2. LeadsBy(left)'
      BY <1>1, <2>1 DEF LeadsBy, NoNewJob
    <2> QED BY <1>1, <2>2 DEF StubInv
  <1>2. CASE UNCHANGED vars \/ Undo \/ Rerun \/ \E j \in Jobs : Buried(j)
    <2>1. NoNewJob /\ UNCHANGED <<stub, note>>
      BY <1>2, TypeOther, UndoEffect, RerunEffect, BuriedEffect DEF vars
    <2> QED BY <1>1, <2>1
  <1>3. ASSUME NEW w \in Workers,
               (\E j \in Jobs : BeginRun(w, j)) \/ InnerStep(w) \/ FinalStep(w) \/ GivesUp(w)
        PROVE  StubInv'
    <2>1. NoNewJob
      BY <1>3, TypeWorker
    <2>2. UNCHANGED stub /\ note'.ws = note.ws
      BY <1>3, BeginRunEffect, InnerEffect, FinalEffect, GivesUpEffect DEF QuietHandler
    <2> QED BY <1>1, <2>1, <2>2
  <1> QED BY <1>2, <1>3, NextSplit, StubMove

\* However often a note moves, back and forth between any number of workspaces,
\* its old links lead to it.
THEOREM OldLinksLead == Spec => []StubsLead
  <1>1. StubInv => StubsLead
    BY DEF StubInv, StubsLead, LeadsBy
  <1> QED BY <1>1, TypeInit, TypeStep, StubInit, StubStep, PTL DEF Spec

=============================================================================
