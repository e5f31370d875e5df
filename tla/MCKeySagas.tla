----------------------------- MODULE MCKeySagas -----------------------------
(* Small instances of KeySagas for TLC.                                    *)
EXTENDS KeySagas

CONSTANTS t1, t2, w1

SagaSteps == [t \in Tasks |-> IF t \in Rotations THEN 4 ELSE 3]
AllRoles  == [t \in Rotations |-> {"authorized", "other"}]

(* The second rotation takes over the other keys of the issuer row.        *)
SomeRoles == [t \in Rotations |->
                 IF t = t1 THEN {"authorized", "other"} ELSE {"authorized"}]
=============================================================================
