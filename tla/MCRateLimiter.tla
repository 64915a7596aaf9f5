---------------------------- MODULE MCRateLimiter ----------------------------
(***************************************************************************)
(* An instance of RateLimiter for TLC.                                     *)
(***************************************************************************)
EXTENDS RateLimiter, TLC

CONSTANTS u1, u2, p1, alice

TwoBuyers == {u1, u2}
OneItem == {p1}
OneVisitor == {alice}

Symmetric == Permutations(Buyers)
=============================================================================
