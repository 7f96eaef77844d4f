------------------------------ MODULE MCJobQueue ------------------------------
(* Small instances of JobQueue: two jobs of different priority.            *)
EXTENDS JobQueueContract, TLC

CONSTANTS j1, j2, w1, w2

MCPriority == (j1 :> 0) @@ (j2 :> 1)
\* Every heartbeat is in time (a job that waits in a batch has none), and no
\* worker's loop ends.
Survived == FaultKinds \ {"stall", "db"}

\* Workers are interchangeable.
WorkerSymmetry == Permutations(Workers)

=============================================================================
