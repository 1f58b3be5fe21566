--------------------------- MODULE DriverTimeline ----------------------------
(***************************************************************************)
(* DriverClock as an implementation of DeviceTimeline.  A client runs from *)
(* the end of its StartIO to the exchange in its StopIO; between the three *)
(* stores of the first start the device has no timeline.                   *)
(***************************************************************************)
EXTENDS DriverClock

RunningClients == {c \in Clients : pc[c] # "stopped" /\ pc[c] \notin Starting}

Timeline == INSTANCE DeviceTimeline
  WITH time <- now, running <- RunningClients, epoch <- gTimestampSeed,
       origin <- IF RunningClients = {} THEN -1 ELSE gAnchorHostTime

\* To their callers, StartIO, StopIO and GetZeroTimeStamp of a device are a
\* timeline that begins and stamps that are taken in one step each, though the
\* driver loads and stores the count, the anchor and the seed one by one: no
\* client sees the anchor of one timeline with the seed of another, and a
\* timeline begins after all that was asked of those before it.
ImplementsTimeline == Timeline!TimelineSpec
=============================================================================
