------------------------- MODULE MCCreateIssuerSaga -------------------------
(* Small instances of CreateIssuerSaga for TLC.                            *)
EXTENDS CreateIssuerSaga

CONSTANTS t1, t2, w1

SevenSteps == [t \in Tasks |-> 7]
=============================================================================
