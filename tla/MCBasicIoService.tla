--------------------------- MODULE MCBasicIoService ---------------------------
(* Small instances of BasicIoService for TLC. *)
EXTENDS BasicIoService

CONSTANTS s1, s2, t1, t2, rt

SessionSymmetry == Permutations(Session)
TimerSymmetry   == Permutations(Session) \cup Permutations(Timer \ {RunTimer})
=============================================================================
