-------------------------- MODULE JobQueueFairProofs --------------------------
(***************************************************************************)
(* Theorems about JobQueueFair, for every number of jobs, workers and      *)
(* workspaces, every cap and batch, and whatever fails.                    *)
(***************************************************************************)
EXTENDS JobQueueFair, JobQueueProofs

USE DEF historyVars

-----------------------------------------------------------------------------
(* Ranks.                                                                  *)

\* The eligible jobs of a workspace.
OfTenant(E, t) == {j \in E : TenantOf[j] = t}

\* Ranks are natural numbers that tell the jobs of a workspace apart.
LEMMA RankFacts ==
  ASSUME NEW E \in SUBSET Jobs, NEW rank \in Rankings(E)
  PROVE  /\ \A j \in E : rank[j] \in 1 .. Cardinality(OfTenant(E, TenantOf[j]))
         /\ IsRanking(rank, E)
<1>1. rank \in [E -> 1 .. Cardinality(E)] /\ IsRanking(rank, E) BY DEF Rankings
<1>2. IsFiniteSet(E) BY JobQueueAssumption, FS_Subset
<1>3. Cardinality(E) \in Nat BY <1>2, FS_CardinalityType
<1>4. ASSUME NEW j \in E PROVE rank[j] \in 1 .. Cardinality(OfTenant(E, TenantOf[j]))
  <2>1. OfTenant(E, TenantOf[j]) = {k \in E : TenantOf[k] = TenantOf[j]} BY DEF OfTenant
  <2>2. Cardinality(OfTenant(E, TenantOf[j])) \in Nat
    BY <1>2, FS_Subset, FS_CardinalityType DEF OfTenant
  <2>3. rank[j] <= Cardinality(OfTenant(E, TenantOf[j])) BY <2>1 DEF Rankings
  <2> QED BY <1>1, <1>3, <2>2, <2>3
<1> QED BY <1>1, <1>4

\* The jobs of a workspace whose rank is at most n are at most n.
LEMMA RankedFew ==
  ASSUME NEW E \in SUBSET Jobs, NEW rank \in Rankings(E), NEW t, NEW n \in Nat,
         NEW S \in SUBSET OfTenant(E, t), \A j \in S : rank[j] <= n
  PROVE  Cardinality(S) <= n
<1>1. \A j \in S : rank[j] \in 1 .. n
  <2> SUFFICES ASSUME NEW j \in S PROVE rank[j] \in 1 .. n OBVIOUS
  <2>1. rank[j] \in Nat /\ rank[j] >= 1
    <3>1. rank[j] \in 1 .. Cardinality(OfTenant(E, TenantOf[j])) BY RankFacts DEF OfTenant
    <3> QED BY <3>1
  <2> QED BY <2>1
<1> DEFINE f == [j \in S |-> rank[j]]
<1>2. f \in [S -> 1 .. n] BY <1>1
<1>3. \A j, k \in S : f[j] = f[k] => j = k BY RankFacts DEF IsRanking, OfTenant
<1>4. f \in Injection(S, 1 .. n)
  <2> HIDE DEF f
  <2> QED BY <1>2, <1>3 DEF Injection, IsInjective
<1>5. IsFiniteSet(1 .. n) /\ Cardinality(1 .. n) = n BY FS_Interval
<1> HIDE DEF f
<1> QED BY <1>4, <1>5, FS_Injection

\* Some job of every workspace that waits has rank 1.
LEMMA RankedFirst ==
  ASSUME NEW E \in SUBSET Jobs, NEW rank \in Rankings(E), NEW m \in E
  PROVE  \E n \in OfTenant(E, TenantOf[m]) : rank[n] = 1
<1> DEFINE S == OfTenant(E, TenantOf[m])
           c == Cardinality(S)
           f == [j \in S |-> rank[j]]
<1>1. IsFiniteSet(S) BY JobQueueAssumption, FS_Subset DEF OfTenant
<1>2. c \in Nat /\ S # {} BY <1>1, FS_CardinalityType DEF OfTenant
<1>3. c # 0 BY <1>1, <1>2, FS_EmptySet
<1>4. f \in [S -> 1 .. c]
  <2>1. \A j \in S : rank[j] \in 1 .. c BY RankFacts DEF OfTenant
  <2> QED BY <2>1
<1>5. \A j, k \in S : f[j] = f[k] => j = k BY RankFacts DEF IsRanking, OfTenant
<1>6. f \in Injection(S, 1 .. c)
  <2> HIDE DEF f, S, c
  <2> QED BY <1>4, <1>5 DEF Injection, IsInjective
<1>7. IsFiniteSet(1 .. c) /\ Cardinality(1 .. c) = c
  <2> HIDE DEF c
  <2> QED BY <1>2, FS_Interval
<1>8. f \in Surjection(S, 1 .. c)
  <2> HIDE DEF f, S
  <2> QED BY <1>6, <1>7, FS_Injection
<1>9. \E n \in S : f[n] = 1
  <2> HIDE DEF f, S, c
  <2>1. 1 \in 1 .. c BY <1>2, <1>3
  <2> QED BY <1>8, <2>1 DEF Surjection
<1> QED BY <1>9

-----------------------------------------------------------------------------
(* The cap of one worker.                                                  *)

\* The jobs of a workspace that w has leased or selected.
Share(w, t) == {j \in Jobs : (row[j].leasedBy = w \/ j \in picked[w]) /\ TenantOf[j] = t}

\* What a worker has leased and what it has selected fit the cap together: the
\* rows its statement counted as running include its own.
FairInv ==
    /\ TypeInv /\ LeaseIffRunning
    /\ picked \in [Workers -> SUBSET Jobs]
    /\ \A w \in Workers, t \in Tenants : Cardinality(Share(w, t)) <= PerTenant

LEMMA SmallerShare ==
  ASSUME NEW S \in SUBSET Jobs, NEW T \in SUBSET S
  PROVE  Cardinality(T) <= Cardinality(S) /\ Cardinality(T) \in Nat /\ Cardinality(S) \in Nat
<1>1. IsFiniteSet(S) BY JobQueueAssumption, FS_Subset
<1>2. IsFiniteSet(T) /\ Cardinality(T) <= Cardinality(S) BY <1>1, FS_Subset
<1> QED BY <1>1, <1>2, FS_CardinalityType

\* A step that gives nobody a lease and selects nothing keeps the cap.
LEMMA ShareKept ==
  ASSUME FairInv, TypeInv', LeaseIffRunning', picked' \in [Workers -> SUBSET Jobs],
         \A w \in Workers : picked'[w] \subseteq picked[w],
         \A w \in Workers, j \in Jobs :
            row'[j].leasedBy = w => row[j].leasedBy = w \/ j \in picked[w]
  PROVE  FairInv'
<1>1. ASSUME NEW w \in Workers, NEW t \in Tenants PROVE Cardinality(Share(w, t)') <= PerTenant
  <2>1. Share(w, t)' \subseteq Share(w, t) BY DEF Share
  <2>2. Share(w, t) \subseteq Jobs BY DEF Share
  <2>3. Cardinality(Share(w, t)) <= PerTenant BY DEF FairInv
  <2>4. PerTenant \in Nat BY JobQueueFairAssumption
  <2> QED BY <2>1, <2>2, <2>3, <2>4, SmallerShare
<1> QED BY <1>1 DEF FairInv

LEMMA FairInvInit == FairInit => FairInv
<1> SUFFICES ASSUME FairInit PROVE FairInv OBVIOUS
<1>1. TypeInv /\ LeaseIffRunning BY TypeInit, InvInit DEF FairInit, Inv
<1>2. picked = [w \in Workers |-> {}] BY DEF FairInit
<1>3. ASSUME NEW w \in Workers, NEW t \in Tenants PROVE Cardinality(Share(w, t)) <= PerTenant
  <2>1. \A j \in Jobs : row[j].leasedBy # w BY JobQueueAssumption DEF FairInit, Init
  <2>2. Share(w, t) = {} BY <1>2, <2>1 DEF Share
  <2> QED BY <2>2, FS_EmptySet, JobQueueFairAssumption
<1> QED BY <1>1, <1>2, <1>3 DEF FairInv

\* Steps that are no claim give nobody a lease.
LEMMA FairOther ==
  ASSUME FairInv, \/ Environment /\ UNCHANGED picked
                  \/ \E w \in Workers : Step(w)
  PROVE  FairInv'
<1>1. TypeInv' BY TypeEnvironment, TypeRunner DEF FairInv, Step
<1>2. \A j \in Jobs : RowStep(j) BY EnvironmentStep, RunnerStepFacts DEF FairInv, Step
<1>3. LeaseIffRunning'
  <2>1. \A j \in Jobs : LeaseOK(row'[j]) BY <1>2, LeaseRows DEF FairInv, RowStep, Written
  <2> QED BY <2>1 DEF LeaseIffRunning, LeaseOK
<1>4. \A w \in Workers, j \in Jobs : row'[j].leasedBy = w => row[j].leasedBy = w
  BY <1>2, JobQueueAssumption DEF RowStep, Written
<1>5. /\ picked' \in [Workers -> SUBSET Jobs]
      /\ \A w \in Workers : picked'[w] \subseteq picked[w]
  BY DEF FairInv, Step
<1> QED BY <1>1, <1>3, <1>4, <1>5, ShareKept

\* A scan selects no more than the headroom that its own leases leave.
LEMMA FairScan ==
  ASSUME FairInv, NEW w \in Workers, Scan(w)
  PROVE  FairInv'
<1> USE JobQueueFairAssumption
<1>1. PICK rank \in Rankings(Eligible), B \in SUBSET Jobs :
        IsPick(B, Eligible, rank) /\ picked' = [picked EXCEPT ![w] = B]
  BY DEF Scan
<1>2. TypeInv' /\ LeaseIffRunning' /\ row' = row
  BY DEF Scan, FairInv, TypeInv, TypeOK, RunnerState, WorkerInv, LeaseIffRunning
<1>3. picked' \in [Workers -> SUBSET Jobs] BY <1>1 DEF FairInv
<1>4. ASSUME NEW v \in Workers, NEW t \in Tenants PROVE Cardinality(Share(v, t)') <= PerTenant
  <2>1. CASE v # w
    <3>1. Share(v, t)' = Share(v, t) BY <1>1, <1>2, <2>1 DEF Share, FairInv
    <3> QED BY <3>1 DEF FairInv
  <2>2. CASE v = w
    <3> DEFINE mine == {j \in Jobs : row[j].leasedBy = w /\ TenantOf[j] = t}
               new == {j \in B : TenantOf[j] = t}
               running == {j \in Jobs : row[j].status = "running" /\ TenantOf[j] = t}
    <3>1. Share(v, t)' = mine \cup new BY <1>1, <1>2, <2>2 DEF Share, FairInv
    <3>2. IsFiniteSet(mine) /\ IsFiniteSet(new) /\ IsFiniteSet(mine \cap new)
      BY JobQueueAssumption, FS_Subset
    <3>3. /\ Cardinality(mine) \in Nat /\ Cardinality(new) \in Nat
          /\ Cardinality(mine \cap new) \in Nat
      BY <3>2, FS_CardinalityType
    <3>4. Cardinality(mine \cup new) <= Cardinality(mine) + Cardinality(new)
      <4> HIDE DEF mine, new
      <4>1. Cardinality(mine \cup new)
              = Cardinality(mine) + Cardinality(new) - Cardinality(mine \cap new)
        BY <3>2, FS_Union
      <4> QED BY <3>3, <4>1
    <3>5. CASE new = {}
      <4>1. Share(v, t)' \subseteq Share(w, t) BY <3>1, <3>5 DEF Share
      <4>2. Cardinality(Share(w, t)) <= PerTenant BY DEF FairInv
      <4>3. Share(w, t) \subseteq Jobs BY DEF Share
      <4> HIDE DEF mine, new, running
      <4>4. /\ Cardinality(Share(v, t)') <= Cardinality(Share(w, t))
            /\ Cardinality(Share(v, t)') \in Nat /\ Cardinality(Share(w, t)) \in Nat
        BY <4>1, <4>3, SmallerShare
      <4> QED BY <4>2, <4>4
    <3>6. CASE new # {}
      <4>1. mine \subseteq running
        BY JobQueueAssumption DEF FairInv, LeaseIffRunning
      <4>2. Cardinality(mine) <= Cardinality(running) /\ Cardinality(running) \in Nat
        BY <4>1, SmallerShare
      <4>3. Headroom(t) = PerTenant - Cardinality(running) BY DEF Headroom, InFlight
      <4>4. /\ new \subseteq OfTenant(Eligible, t)
            /\ \A j \in new : rank[j] <= Headroom(t)
        BY <1>1 DEF IsPick, OfTenant
      <4>5. Cardinality(running) < PerTenant
        BY <3>6, <4>4 DEF OfTenant, Eligible, InFlight
      <4>6. Headroom(t) \in Nat BY <4>2, <4>3, <4>5
      <4>7. Cardinality(new) <= Headroom(t)
        <5> HIDE DEF new
        <5>1. Eligible \in SUBSET Jobs BY DEF Eligible
        <5> QED BY <4>4, <4>6, <5>1, RankedFew
      <4> HIDE DEF mine, new, running
      <4>8. Cardinality(mine \cup new) \in Nat BY <3>2, FS_Union, FS_CardinalityType
      <4>9. Cardinality(mine \cup new) <= PerTenant BY <3>3, <3>4, <4>2, <4>3, <4>6, <4>7, <4>8
      <4> QED BY <3>1, <4>9
    <3> QED BY <3>5, <3>6
  <2> QED BY <2>1, <2>2
<1> QED BY <1>2, <1>3, <1>4 DEF FairInv

\* An update leases what the scan selected, whatever has become of it.
LEMMA FairUpdate ==
  ASSUME FairInv, NEW w \in Workers, Update(w)
  PROVE  FairInv'
<1>1. picked[w] \in SUBSET Jobs /\ row \in [Jobs -> Row] BY DEF FairInv, TypeInv, TypeOK
<1>2. TypeInv' BY <1>1, TypeLease DEF Update, FairInv
<1>3. \A j \in Jobs : row'[j] = IF j \in picked[w] THEN Leased(row[j], w) ELSE row[j]
  BY DEF Update, Lease
<1>4. \A j \in picked[w] : /\ row'[j].status = "running" /\ row'[j].leasedBy = w
                           /\ row'[j].expired = FALSE
  <2> SUFFICES ASSUME NEW j \in picked[w]
               PROVE  /\ row'[j].status = "running" /\ row'[j].leasedBy = w
                      /\ row'[j].expired = FALSE
    OBVIOUS
  <2>1. row[j] \in Row /\ row'[j] = Leased(row[j], w) BY <1>1, <1>3
  <2>2. /\ Leased(row[j], w).status = "running" /\ Leased(row[j], w).leasedBy = w
        /\ Leased(row[j], w).expired = FALSE
    BY <2>1, LeasedFacts
  <2> QED BY <2>1, <2>2
<1>5. LeaseIffRunning'
  BY <1>3, <1>4, JobQueueAssumption DEF LeaseIffRunning, FairInv
<1>6. \A v \in Workers, j \in Jobs :
        row'[j].leasedBy = v => row[j].leasedBy = v \/ j \in picked[v]
  BY <1>3, <1>4
<1>7. /\ picked' \in [Workers -> SUBSET Jobs]
      /\ \A v \in Workers : picked'[v] \subseteq picked[v]
  BY DEF FairInv, Update
<1> QED BY <1>2, <1>5, <1>6, <1>7, ShareKept

LEMMA FairInvStep == FairInv /\ [FairNext]_fairVars => FairInv'
<1> SUFFICES ASSUME FairInv, [FairNext]_fairVars PROVE FairInv' OBVIOUS
<1>1. CASE FairNext BY <1>1, FairOther, FairScan, FairUpdate DEF FairNext
<1>2. CASE UNCHANGED fairVars
  <2>1. TypeInv' /\ LeaseIffRunning'
    BY <1>2 DEF fairVars, FairInv, TypeInv, TypeOK, WorkerInv, LeaseIffRunning
  <2> QED BY <1>2, <2>1, ShareKept DEF fairVars, FairInv
<1> QED BY <1>1, <1>2

\* However many workers scan and update at once and whatever leases a crash left
\* behind, no worker ever has more of a workspace's jobs leased than the cap.
THEOREM WorkerWithinCap == FairClaimSpec => []SoftCap
<1>1. FairInv => SoftCap
  <2> SUFFICES ASSUME FairInv, NEW w \in Workers, NEW t \in Tenants
               PROVE  Cardinality({j \in Jobs : row[j].leasedBy = w /\ TenantOf[j] = t}) <= PerTenant
    BY DEF SoftCap
  <2>1. {j \in Jobs : row[j].leasedBy = w /\ TenantOf[j] = t} \subseteq Share(w, t) BY DEF Share
  <2>2. Share(w, t) \subseteq Jobs BY DEF Share
  <2>3. Cardinality(Share(w, t)) <= PerTenant BY DEF FairInv
  <2> QED BY <2>1, <2>2, <2>3, SmallerShare, JobQueueFairAssumption
<1> QED BY FairInvInit, FairInvStep, <1>1, PTL DEF FairClaimSpec

-----------------------------------------------------------------------------
(* Turns between workspaces.                                               *)

\* The first job of m's workspace is as urgent as m; if it is left out, what is
\* taken at m's urgency or below are first jobs too, one per workspace.
LEMMA PickIsFair ==
  ASSUME NEW rank \in Rankings(Eligible), NEW B \in SUBSET Jobs, IsPick(B, Eligible, rank),
         NEW j \in B, NEW k \in B, NEW m \in Eligible,
         j # k, TenantOf[j] = TenantOf[k],
         Priority[m] >= Priority[j], Priority[m] >= Priority[k]
  PROVE  \E n \in B : TenantOf[n] = TenantOf[m]
<1> USE JobQueueAssumption, JobQueueFairAssumption
<1> SUFFICES ASSUME \A n \in B : TenantOf[n] # TenantOf[m] PROVE FALSE OBVIOUS
<1>1. Eligible \in SUBSET Jobs BY DEF Eligible
<1>2. PICK n \in Eligible : TenantOf[n] = TenantOf[m] /\ rank[n] = 1
  BY <1>1, RankedFirst DEF OfTenant
<1>3. B \subseteq Eligible BY DEF IsPick
<1>4. \A i \in Eligible : Priority[i] \in Nat /\ rank[i] \in Nat /\ rank[i] >= 1
  <2> SUFFICES ASSUME NEW i \in Eligible
               PROVE  Priority[i] \in Nat /\ rank[i] \in Nat /\ rank[i] >= 1
    OBVIOUS
  <2>1. rank[i] \in 1 .. Cardinality(OfTenant(Eligible, TenantOf[i])) BY <1>1, RankFacts
  <2> QED BY <2>1, <1>1
<1>5. IsRanking(rank, Eligible) BY <1>1, RankFacts
<1>6. Priority[n] >= Priority[m]
  <2>1. CASE n = m BY <2>1, <1>4
  <2>2. CASE n # m /\ Priority[m] > Priority[n]
    <3>1. rank[m] < rank[n] BY <2>2, <1>2, <1>5 DEF IsRanking
    <3> QED BY <3>1, <1>2, <1>4
  <2> QED BY <2>1, <2>2, <1>4
<1>7. 1 <= Headroom(TenantOf[n])
  <2>1. InFlight(TenantOf[n]) < PerTenant BY <1>2 DEF Eligible
  <2>2. InFlight(TenantOf[n]) \in Nat BY FS_Subset, FS_CardinalityType DEF InFlight
  <2> QED BY <2>1, <2>2 DEF Headroom
<1>8. n \notin B BY <1>2
<1>9. Before(j, n, rank) /\ Before(k, n, rank) BY <1>2, <1>7, <1>8 DEF IsPick
<1>10. rank[j] = 1 /\ rank[k] = 1
  <2>1. j \in Eligible /\ k \in Eligible BY <1>3
  <2> QED BY <2>1, <1>2, <1>4, <1>6, <1>9 DEF Before
<1> QED BY <1>3, <1>5, <1>10 DEF IsRanking

\* Only a scan takes a worker from claim to scanned.
LEMMA OnlyScans ==
  ASSUME FairInv, FairNext, NEW w \in Workers, pc[w] = "claim", pc'[w] = "scanned"
  PROVE  Scan(w)
<1>1. pc \in [Workers -> RunnerState] BY DEF FairInv, TypeInv, TypeOK
<1>2. CASE Environment
  BY <1>2 DEF Environment, Enqueue, BecomesDue, LeaseExpires, LeaseMissed, Expire, workerVars
<1>3. ASSUME NEW v \in Workers, RunnerStep(v) PROVE FALSE
  BY <1>1, <1>3 DEF RunnerStep, Outcome, Reap, ReapFails, StartRun, Heartbeat, Complete,
     HandlerFails, BackendWarming, HandlerCancelled, CompleteFails, OnDead, OnDeadFails,
     Crash, Restart, LoopDies, LosesAll, Fail, RunEnds, workerVars
<1>4. ASSUME NEW v \in Workers, Update(v) PROVE FALSE
  BY <1>1, <1>4 DEF Update, Lease
<1>5. ASSUME NEW v \in Workers, Scan(v) PROVE v = w
  BY <1>1, <1>5 DEF Scan
<1> QED BY <1>2, <1>3, <1>4, <1>5 DEF FairNext, Step

\* No workspace takes the whole claim: however many jobs it has queued, two of
\* them are selected only if every workspace with a job as urgent gets a turn.
THEOREM ClaimsTakeTurns == FairClaimSpec => RoundRobin
<1> DEFINE Turn == \A w \in Workers : pc[w] = "claim" /\ pc'[w] = "scanned" =>
             \A j, k \in picked'[w], m \in Eligible :
                 /\ j # k /\ TenantOf[j] = TenantOf[k]
                 /\ Priority[m] >= Priority[j] /\ Priority[m] >= Priority[k]
                 => \E n \in picked'[w] : TenantOf[n] = TenantOf[m]
<1>1. FairInv /\ [FairNext]_fairVars => [Turn]_fairVars
  <2> SUFFICES ASSUME FairInv, FairNext, NEW w \in Workers, pc[w] = "claim", pc'[w] = "scanned"
               PROVE  \A j, k \in picked'[w], m \in Eligible :
                         /\ j # k /\ TenantOf[j] = TenantOf[k]
                         /\ Priority[m] >= Priority[j] /\ Priority[m] >= Priority[k]
                         => \E n \in picked'[w] : TenantOf[n] = TenantOf[m]
    OBVIOUS
  <2>1. Scan(w) BY OnlyScans
  <2>2. PICK rank \in Rankings(Eligible), B \in SUBSET Jobs :
          IsPick(B, Eligible, rank) /\ picked' = [picked EXCEPT ![w] = B]
    BY <2>1 DEF Scan
  <2>3. picked'[w] = B BY <2>2 DEF FairInv
  <2> QED BY <2>2, <2>3, PickIsFair
<1> QED BY FairInvInit, FairInvStep, <1>1, PTL DEF FairClaimSpec, RoundRobin

=============================================================================
