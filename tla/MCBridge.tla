------------------------------- MODULE MCBridge -------------------------------
(* Bridge with an interface of two channels, found by itself, and one of a  *)
(* single channel.                                                          *)
EXTENDS BridgeSession, TLC

CONSTANTS motu, mono

MCDevices   == {motu, mono}
MCChannels  == motu :> 2 @@ mono :> 1
MCLatencies == {16, 64}
=============================================================================
