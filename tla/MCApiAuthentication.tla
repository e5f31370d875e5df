------------------------ MODULE MCApiAuthentication ------------------------
(* Small instances of ApiAuthentication for TLC.                           *)
EXTENDS ApiAuthentication

CONSTANTS c1, c2, t1, t2, t3, u1, u2, a1, a2, i1, i2

(* u1 has an account in t1 and u2 one in t2; t3 is made later.             *)
BothLinked  == [a \in Accounts |-> IF a = a1 THEN u1 ELSE u2]
TwoOwners   == [a \in Accounts |-> IF a = a1 THEN t1 ELSE t2]
IssuerEach  == [i \in Issuers |-> IF i = i1 THEN t1 ELSE t2]
=============================================================================
