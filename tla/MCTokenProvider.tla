--------------------------- MODULE MCTokenProvider ---------------------------
(* Small instances of TokenProvider for TLC.                               *)
EXTENDS TokenProvider

CONSTANTS c1, c2, c3, r1, r2, s1, s2

(* Two callers share a replica, the third is alone on the other.           *)
TwoAndOne == [c \in Callers |-> IF c = c3 THEN r2 ELSE r1]
=============================================================================
