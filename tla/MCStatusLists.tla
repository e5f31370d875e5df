---------------------------- MODULE MCStatusLists ----------------------------
(* Small instances of StatusLists for TLC.                                 *)
EXTENDS StatusLists

CONSTANTS c1, c2, r1, r2, p1, p2

=============================================================================
