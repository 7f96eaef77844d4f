--------------------------- MODULE MCNoteGeneration ---------------------------
(* One note, one client, two workers, two generations.                     *)
EXTENDS NoteGeneration, TLC

CONSTANTS c1, w1, w2

WorkerSymmetry == Permutations(Workers)

=============================================================================
