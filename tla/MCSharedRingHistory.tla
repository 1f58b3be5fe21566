------------------------- MODULE MCSharedRingHistory -------------------------
(* SharedRingHistory on the instances of MCSharedRing.                     *)
EXTENDS SharedRingHistory

MCOneFrame == {1}
MCSizes    == {1, 2}
MCIOSizes  == {1, 3}
MCRequests == {0, 3}
=============================================================================
