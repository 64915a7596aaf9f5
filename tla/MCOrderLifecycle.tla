-------------------------- MODULE MCOrderLifecycle --------------------------
(***************************************************************************)
(* Instances of OrderLifecycle for TLC.                                    *)
(***************************************************************************)
EXTENDS OrderLifecycle, TLC

CONSTANTS u1, u2, p1, p2, k1, k2, k3, k4, o1, o2, c1, c2, c3, w1, w2

OneProduct == {p1}
TwoProducts == {p1, p2}
OneUser == {u1}
TwoUsers == {u1, u2}
TwoKeys == {k1, k2}
ThreeKeys == {k1, k2, k3}
FourKeys == {k1, k2, k3, k4}
OneOrder == {o1}
TwoOrders == {o1, o2}
OneClient == {c1}
TwoClients == {c1, c2}
OneWorker == {w1}
TwoWorkers == {w1, w2}
NoUser == {}
TheAdmin == {u2}

\* Units on sale.
StockOf2And1 == [p \in {p1, p2} |-> IF p = p1 THEN 2 ELSE 1]
StockOf2 == [p \in {p1} |-> 2]
StockOf3 == [p \in {p1} |-> 3]

\* Rows and processes of one kind are interchangeable (safety runs only).
Symmetric == Permutations(Keys) \cup Permutations(Orders)
               \cup Permutations(Clients) \cup Permutations(Workers)
=============================================================================
