--------------------------- MODULE MCUserAccounts ---------------------------
(* Small instances of UserAccounts for TLC.                                *)
EXTENDS UserAccounts, TLC

CONSTANTS t1, t2, a1, a2, u1, u2, i1, i2, i3, r1, r2

Symmetry == Permutations(Accounts) \union Permutations(Identities)
            \union Permutations(Invitations) \union Permutations(Requests)
=============================================================================
