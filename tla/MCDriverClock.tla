---------------------------- MODULE MCDriverClock ----------------------------
(* DriverClock with a short period and a clock that passes several of them. *)
EXTENDS DriverTimeline, TLC

MCSymmetry == Permutations(Clients)
=============================================================================
