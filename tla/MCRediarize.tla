----------------------------- MODULE MCRediarize -----------------------------
(* Constants for model-checking Rediarize.                                 *)
EXTENDS Rediarize

CONSTANTS w1, w2

TwoWorkers == {w1, w2}

=============================================================================
