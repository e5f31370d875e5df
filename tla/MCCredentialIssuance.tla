------------------------ MODULE MCCredentialIssuance ------------------------
(* Small instances of CredentialIssuance for TLC.                          *)
EXTENDS CredentialIssuance, TLC

CONSTANTS o1, o2, x1, x2, q1, q2

Symmetry == Permutations(Offers) \union Permutations(Exchanges) \union Permutations(Requests)
=============================================================================
