---------------------------- MODULE MCSellerDesk ----------------------------
(***************************************************************************)
(* An instance of SellerDesk for TLC.                                      *)
(***************************************************************************)
EXTENDS SellerDesk, TLC

CONSTANTS u1, p1, k1, k2, o1, c1, w1, w2

OneUser == {u1}
NoUser == {}
OneProduct == {p1}
TwoKeys == {k1, k2}
OneOrder == {o1}
OneClient == {c1}
OneWorker == {w1}
TwoWorkers == {w1, w2}
StockOf2 == [p \in {p1} |-> 2]

Symmetric == Permutations(Keys) \cup Permutations(Workers)
=============================================================================
