--------------------------- MODULE MCBridgeSetup ---------------------------
(* Sources with too few, enough and no channels for two players.           *)
EXTENDS BridgeSetup
=============================================================================
