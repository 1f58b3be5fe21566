----------------------------- MODULE MCRingFile -----------------------------
(* RingFile on small instances: with two inodes the file can be unlinked   *)
(* once; with two clients one may join while the other does I/O.          *)
EXTENDS RingFileSupply, TLC

MCSymmetry == Permutations(Inodes) \cup Permutations(Clients)
=============================================================================
