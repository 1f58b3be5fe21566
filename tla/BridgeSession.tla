---------------------------- MODULE BridgeSession ----------------------------
(***************************************************************************)
(* Bridge as an implementation of CaptureSession.  The capture is there    *)
(* from AudioOutputUnitStart to the end of AudioOutputUnitStop.            *)
(***************************************************************************)
EXTENDS Bridge

SuitsDevice(config, device) ==
  /\ device = IF config.uid = None THEN AutoDetected ELSE config.uid
  /\ HasInputChannelRange(device, FirstChannel(config), config.players)

Captures == unit \in {"running", "stopping"}

Capture == INSTANCE CaptureSession
  WITH sessions <- IF Captures
                   THEN {[config |-> cfg, device |-> source, rings |-> open,
                          buffers |-> buffers]}
                   ELSE {},
       on <- unit = "running" /\ alive,
       busy <- cb = "busy",
       Suits <- SuitsDevice

\* While commands edit the configuration, devices come and go and any call of
\* the helper fails, what is captured stays one session: of the configuration
\* that it began with, from a device that has the channels, with a ring for
\* each player and no other, and never from a device that was lost and is back.
ImplementsSession == Capture!SessionSpec
=============================================================================
