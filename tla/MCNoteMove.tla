----------------------------- MODULE MCNoteMove -----------------------------
(* Three workspaces, two workers.  Once disturbed, no third run.           *)
EXTENDS NoteMove, TLC

CONSTANTS t1, t2, t3, w1, w2

Symmetry == Permutations(Workers) \cup Permutations({t2, t3})

Bounded == disturbed => runs < MaxRuns

=============================================================================
