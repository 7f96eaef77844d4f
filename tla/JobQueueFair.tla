----------------------------- MODULE JobQueueFair -----------------------------
(***************************************************************************)
(* The queue of JobQueue drained with jobs_claim_fair(): a cap on the jobs *)
(* one workspace has in flight, and a round robin between workspaces.      *)
(*                                                                         *)
(* Its FOR UPDATE SKIP LOCKED names a WITH query, and PostgreSQL applies a *)
(* locking clause to the tables of a SELECT, not to the WITH queries it    *)
(* refers to.  So the selection locks nothing: the ids come from the       *)
(* snapshot of the statement, and the UPDATE, which asks only for those    *)
(* ids, takes each row as it finds it.  The claim is two steps, Scan and   *)
(* Update, and other transactions commit between them.                     *)
(***************************************************************************)
EXTENDS JobQueue

CONSTANTS
    Tenants,    \* workspaces
    TenantOf,   \* the column tenant_id
    PerTenant   \* JobRunner(per_tenant = ...)

ASSUME JobQueueFairAssumption ==
    /\ TenantOf \in [Jobs -> Tenants]
    /\ PerTenant \in Nat \ {0}

VARIABLE picked   \* picked[w]: the ids w's statement has selected

fairVars == <<row, pc, cur, todo, snap, historyVars, faults, picked>>

\* The CTE in_flight: every running row counts, whoever runs it.
InFlight(t) ==
    Cardinality({j \in Jobs : row[j].status = "running" /\ TenantOf[j] = t})

\* How many more this workspace may run.
Headroom(t) == PerTenant - InFlight(t)

\* The CTE eligible.
Eligible == {j \in Jobs : Claimable(j) /\ InFlight(TenantOf[j]) < PerTenant}

\* rank_in_tenant: ORDER BY priority DESC, run_at.  Any order of run_at.
IsRanking(rank, E) ==
    \A j, k \in E : j # k /\ TenantOf[j] = TenantOf[k] =>
        rank[j] # rank[k] /\ (Priority[j] > Priority[k] => rank[j] < rank[k])

Rankings(E) ==
    {rank \in [E -> 1 .. Cardinality(E)] :
        /\ IsRanking(rank, E)
        /\ \A j \in E : rank[j] <= Cardinality({k \in E : TenantOf[k] = TenantOf[j]})}

\* Mutant: FIFO by priority, as jobs_claim() orders.
BeforeFifo(j, k, rank) == Priority[j] >= Priority[k]

\* ORDER BY priority DESC, rank_in_tenant, run_at.
Before(j, k, rank) ==
    \/ Priority[j] > Priority[k]
    \/ Priority[j] = Priority[k] /\ rank[j] <= rank[k]

\* Mutant: only the running rows are counted, not the rows of this claim.
IsPickNoHeadroom(B, E, rank) ==
    /\ B \subseteq E
    /\ Cardinality(B) = IF Cardinality(E) < Batch THEN Cardinality(E) ELSE Batch
    /\ \A j \in B, k \in E \ B : Before(j, k, rank)

IsPick(B, E, rank) ==
    LET C == {j \in E : rank[j] <= Headroom(TenantOf[j])} IN
    /\ B \subseteq C
    /\ Cardinality(B) = IF Cardinality(C) < Batch THEN Cardinality(C) ELSE Batch
    /\ \A j \in B, k \in C \ B : Before(j, k, rank)

Scan(w) ==
    /\ pc[w] = "claim"
    /\ \E rank \in Rankings(Eligible), B \in SUBSET Jobs :
          /\ IsPick(B, Eligible, rank)
          /\ picked' = [picked EXCEPT ![w] = B]
    /\ pc' = [pc EXCEPT ![w] = "scanned"]
    /\ UNCHANGED <<row, cur, todo, snap, historyVars, faults>>

Update(w) ==
    /\ pc[w] = "scanned"
    /\ Lease(w, picked[w])
    /\ picked' = [picked EXCEPT ![w] = {}]
    /\ UNCHANGED <<cur, historyVars, faults>>

\* A process that dies in the middle of its statement has it rolled back.
Step(w) ==
    /\ RunnerStep(w)
    /\ picked' = [picked EXCEPT ![w] = {}]

FairInit == Init /\ picked = [w \in Workers |-> {}]

FairNext ==
    \/ Environment /\ UNCHANGED picked
    \/ \E w \in Workers : Step(w) \/ Scan(w) \/ Update(w)

FairClaimSpec == FairInit /\ [][FairNext]_fairVars

-----------------------------------------------------------------------------
(* Properties.                                                             *)

\* The cap counts the rows of an older snapshot, so claims that overlap may
\* exceed it together; one worker alone never does, however they interleave
\* and whatever leases an earlier crash of it left behind (in_flight).
SoftCap ==
    \A w \in Workers, t \in Tenants :
        Cardinality({j \in Jobs : row[j].leasedBy = w /\ TenantOf[j] = t}) <= PerTenant

\* One workspace cannot take the whole claim: two of its jobs are taken only
\* if every workspace that waits with a job as urgent gets one as well.
RoundRobin ==
    [][\A w \in Workers : pc[w] = "claim" /\ pc'[w] = "scanned" =>
          \A j, k \in picked'[w], m \in Eligible :
              /\ j # k /\ TenantOf[j] = TenantOf[k]
              /\ Priority[m] >= Priority[j] /\ Priority[m] >= Priority[k]
              => \E n \in picked'[w] : TenantOf[n] = TenantOf[m]]_fairVars

=============================================================================
