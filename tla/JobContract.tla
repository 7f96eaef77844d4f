----------------------------- MODULE JobContract -----------------------------
(***************************************************************************)
(* What the job queue of libs/jobs promises to the handlers it runs, with  *)
(* no lease, claim, attempt or clock in it.  JobQueue implements it; the   *)
(* handlers (NoteGeneration, NoteMove) are specified on top of it.         *)
(*                                                                         *)
(* A job is open from the moment it is queued until it is settled.  Every  *)
(* worker runs one job at a time.  A run may start while another run of    *)
(* the job is under way or after the job was settled: that is what a lost  *)
(* lease means.                                                            *)
(***************************************************************************)
CONSTANTS
    Jobs, Workers,
    NoJob        \* a worker that runs nothing

ASSUME ContractAssumption == NoJob \notin Jobs

VARIABLES
    job,     \* job[j]: absent, open, or how it was settled
    run,     \* run[w]: the job w runs and whether it is in run or on_dead
    told     \* told[j]: on_dead was called for j

contractVars == <<job, run, told>>

Settled == {"complete", "failed", "cancelled", "dead"}

Idle == [job |-> NoJob, phase |-> "idle"]

ContractTypeOK ==
    /\ job \in [Jobs -> {"absent", "open"} \cup Settled]
    /\ run \in [Workers -> [job : Jobs, phase : {"run", "on_dead"}] \cup {Idle}]
    /\ told \in [Jobs -> BOOLEAN]

ContractInit ==
    /\ job = [j \in Jobs |-> "absent"]
    /\ run = [w \in Workers |-> Idle]
    /\ told = [j \in Jobs |-> FALSE]

Running(w) == run[w].phase = "run"

\* A worker may write the outcome of its run only into an open job.
Settle(j, status) ==
    job' = IF job[j] = "open" THEN [job EXCEPT ![j] = status] ELSE job

Submit(j) ==
    /\ job[j] = "absent"
    /\ job' = [job EXCEPT ![j] = "open"]
    /\ UNCHANGED <<run, told>>

Begin(w, j) ==
    /\ run[w] = Idle
    /\ job[j] # "absent"
    /\ run' = [run EXCEPT ![w] = [job |-> j, phase |-> "run"]]
    /\ UNCHANGED <<job, told>>

\* The run ends with the job settled by it.
End(w, status) ==
    /\ Running(w)
    /\ Settle(run[w].job, status)
    /\ run' = [run EXCEPT ![w] = Idle]
    /\ UNCHANGED told

\* The run ends and the job is tried again later, or was taken over.
Release(w) ==
    /\ Running(w)
    /\ run' = [run EXCEPT ![w] = Idle]
    /\ UNCHANGED <<job, told>>

\* No further attempt: the handler's on_dead follows, whether or not the row
\* was still this run's to settle.
GiveUp(w) ==
    /\ Running(w)
    /\ \/ \E s \in {"failed", "dead"} : Settle(run[w].job, s)
       \/ job' = job
    /\ run' = [run EXCEPT ![w].phase = "on_dead"]
    /\ UNCHANGED told

Tell(w) ==
    /\ run[w].phase = "on_dead"
    /\ told' \in {told, [told EXCEPT ![run[w].job] = TRUE]}
    /\ run' = [run EXCEPT ![w] = Idle]
    /\ UNCHANGED job

\* The reaper makes jobs dead whose lease expired on the last attempt; nobody
\* is told.
Bury ==
    /\ \E B \in SUBSET {j \in Jobs : job[j] = "open"} :
          /\ job' = [j \in Jobs |-> IF j \in B THEN "dead" ELSE job[j]]
    /\ UNCHANGED <<run, told>>

\* The process dies or its loop stops.
Die(w) ==
    /\ run' = [run EXCEPT ![w] = Idle]
    /\ UNCHANGED <<job, told>>

ContractNext ==
    \/ \E j \in Jobs : Submit(j)
    \/ Bury
    \/ \E w \in Workers :
          \/ \E j \in Jobs : Begin(w, j)
          \/ End(w, "complete") \/ End(w, "cancelled") \/ Release(w) \/ GiveUp(w) \/ Tell(w) \/ Die(w)

Contract == ContractInit /\ [][ContractNext]_contractVars

=============================================================================
