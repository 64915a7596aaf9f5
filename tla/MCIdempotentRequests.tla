------------------------- MODULE MCIdempotentRequests -------------------------
(***************************************************************************)
(* Instances of IdempotentRequests for TLC.                                *)
(***************************************************************************)
EXTENDS IdempotentRequests, TLC

CONSTANTS u1, p1, k1, k2, h1, o1, o2, c1, c2, w1

OneUser == {u1}
NoUser == {}
OneProduct == {p1}
TwoKeys == {k1, k2}
OneHeader == {h1}
TwoOrders == {o1, o2}
TwoClients == {c1, c2}
OneWorker == {w1}
StockOf2 == [p \in {p1} |-> 2]

Symmetric == Permutations(Keys)
               \cup Permutations(Orders) \cup Permutations(Clients)
=============================================================================
