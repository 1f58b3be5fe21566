-------------------------- MODULE SharedRingChannel --------------------------
(* The shared ring with one client implements the channel LatestAudio.     *)
EXTENDS SharedRing

CONSTANT Listener

ASSUME OneListener == Clients = {Listener}

\* The frame a listener continues with: the device's cursor between two calls,
\* the call's own within one, and where the chunk began while it is copied.
Position ==
  IF pc[Listener] = "copy" THEN readFrame[Listener] - Len(scratch[Listener])
  ELSE IF pc[Listener] \in {"load", "place", "store"} THEN readFrame[Listener]
  ELSE gReadFrame

\* A chunk is delivered when it is finished, and taken when the next begins.
Delivered ==
  IF pc[Listener] \in {"load", "store"} THEN scratch[Listener] ELSE <<>>

Channel == INSTANCE LatestAudio WITH
  MinLatency <- MinTarget,
  MaxLatency <- MaxTarget,
  MaxBlock   <- MaxCapture,
  published  <- writeFrame,
  listening  <- pc[Listener] \notin {"stopped", "start", "startStore"},
  next       <- Position,
  out        <- Delivered

\* Loading and mixing one client's audio through an unlocked ring, chunk by
\* chunk, amounts to the channel: what DoIOOperation hands out is, chunk for
\* chunk, consecutive frames that go on where the last chunk ended, recent
\* ones, skipped ahead only to catch up, and silence only at the end of what
\* there is - whatever the helper, ctl and the host do between two loads.
ImplementsChannel == Channel!ChannelSpec
=============================================================================
