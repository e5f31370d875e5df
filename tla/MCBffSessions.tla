--------------------------- MODULE MCBffSessions ---------------------------
(* Small instances of BffSessions for TLC.                                 *)
EXTENDS BffSessions, TLC

CONSTANTS t1, t2, a1, a2, a3, u1, u2, l1, l2, w1, w2

Symmetry == Permutations(Logins) \union Permutations(WebRequests)

Row(t, u) == [tenant |-> t, state |-> "active", identity |-> u, name |-> 0]

(* u1 has an account in each tenant, u2 one in the second.                 *)
ThreeLinked == [a \in Accounts |-> IF a = a1 THEN Row(t1, u1)
                                   ELSE IF a = a2 THEN Row(t2, u1) ELSE Row(t2, u2)]
=============================================================================
