---------------------------- MODULE MCJobQueueFair ----------------------------
(* Small instances of JobQueueFair: one workspace with several jobs beside *)
(* one with a single job.                                                  *)
EXTENDS JobQueueFair, TLC

CONSTANTS j1, j2, j3, j4, w1, w2, tA, tB

EqualPriority == [j \in Jobs |-> 0]
OneTenant == [j \in Jobs |-> tA]
TwoTenants == [j \in Jobs |-> IF j = j4 THEN tB ELSE tA]
NoFaults == {}
CrashOnly == {"crash"}

\* Only first attempts, and none that is over: claims differ in nothing else.
FirstAttempts ==
    \A j \in Jobs : row[j].attempts <= 1 /\ row[j].status \notin TERMINAL

\* Jobs of one workspace and of equal priority are interchangeable.
TwoTenantSymmetry == Permutations(Workers) \cup Permutations({j1, j2, j3})

=============================================================================
