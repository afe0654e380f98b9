--------------------------- MODULE MCCheckClaims ---------------------------
(* Small instances of CheckClaims: two scheduler processes and one process  *)
(* that serves bulk sweeps.                                                 *)
EXTENDS CheckClaims, TLC

CONSTANTS p1, p2, j1, j2, s1, w1, w2, w3

(* Two workers with one job thread each, and one sweep in a third process.  *)
ThreeProcesses == [t \in Task |->
  CASE t = j1 -> w1 [] t = j2 -> w2 [] OTHER -> w3]

=============================================================================
