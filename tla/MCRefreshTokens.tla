--------------------------- MODULE MCRefreshTokens ---------------------------
(***************************************************************************)
(* Instances of RefreshTokens and Accounts for TLC.                        *)
(***************************************************************************)
EXTENDS Accounts, TLC

CONSTANTS t1, t2, t3, t4, u1, u2, c1, c2, e1, e2, k1

FourTokens == {t1, t2, t3, t4}
TwoUsers == {u1, u2}
TwoClients == {c1, c2}
TwoEmails == {e1, e2}
OneKey == {k1}

Symmetric == Permutations(Tokens) \cup Permutations(Users) \cup Permutations(Clients)
             \cup Permutations(Emails)
=============================================================================
