------------------------- MODULE MCProductModeration -------------------------
(***************************************************************************)
(* Instances of ProductModeration and AuditTrail for TLC.                  *)
(***************************************************************************)
EXTENDS AuditTrail, TLC

CONSTANTS s1, m1, m2, p1, p2, c1, c2

OneSeller == {s1}
TwoModerators == {m1, m2}
Nobody == {}
TwoProducts == {p1, p2}
TwoClients == {c1, c2}

Symmetric == Permutations(Products) \cup Permutations(Clients)
               \cup Permutations(Moderators)
=============================================================================
