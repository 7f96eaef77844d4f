--------------------------- MODULE MCNotifications ---------------------------
(* Two facts for one recipient, two workers, two digest runners.           *)
EXTENDS Notifications, TLC

CONSTANTS e1, e2, k1, k2, w1, w2, q1, q2

TwoEvents == {e1, e2}
TwoConsumers == {k1, k2}
TwoWorkers == {w1, w2}
TwoRunners == {q1, q2}
ServiceSymmetry ==
    Permutations(TwoEvents) \cup Permutations(TwoConsumers)
      \cup Permutations(TwoWorkers) \cup Permutations(TwoRunners)

=============================================================================
