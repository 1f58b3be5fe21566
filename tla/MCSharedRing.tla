---------------------------- MODULE MCSharedRing ----------------------------
(* SharedRing with one client, what the client hears and the channel that  *)
(* it implements, on a small instance: the ring's slots are reused several *)
(* times, blocks and chunks may hold more than one frame, and one device   *)
(* call may need two chunks.                                               *)
EXTENDS SharedRingHistory, SharedRingChannel

MCSizes    == {1, 2}
MCIOSizes  == {1, 3}
MCRequests == {0, 3}
=============================================================================
