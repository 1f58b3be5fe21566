------------------------- MODULE MCDriverProperties -------------------------
(* Two host threads, and buffer sizes below, within and above the limits.  *)
EXTENDS DriverProperties, TLC

MCRequests == {0, 1, 2, 5}

MCSymmetry == Permutations(Threads)
=============================================================================
