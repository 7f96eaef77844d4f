---------------------------- MODULE MCShareLinks ----------------------------
(* Two links, two recipients, two requests at a time.                      *)
EXTENDS ShareLinks, TLC

CONSTANTS r1, r2, tom, ann

Handlers == {r1, r2}
Recipients == {tom, ann}
ShareSymmetry == Permutations(Handlers) \cup Permutations(Recipients)

=============================================================================
