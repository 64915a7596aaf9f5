------------------------ MODULE MCVerificationRequests ------------------------
(***************************************************************************)
(* Instances of VerificationRequests for TLC.                              *)
(***************************************************************************)
EXTENDS VerificationRequests, TLC

CONSTANTS u1, r1, r2, r3, c1, c2, a1, a2

OneUser == {u1}
TwoRequests == {r1, r2}
ThreeRequests == {r1, r2, r3}
OneClient == {c1}
TwoClients == {c1, c2}
OneAdmin == {a1}
TwoAdmins == {a1, a2}

SomeRoles == {"SELLER", "USER_B2B"}

Symmetric ==
    Permutations(Users) \cup Permutations(Requests) \cup Permutations(Clients)
      \cup Permutations(Admins)
=============================================================================
