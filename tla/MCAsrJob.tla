------------------------------- MODULE MCAsrJob -------------------------------
(* Constants for model-checking AsrJob.                                    *)
EXTENDS AsrJob

CONSTANTS j1, w1, w2

OneJob == {j1}
TwoWorkers == {w1, w2}

=============================================================================
