--------------------------- MODULE MCBrokerServe ----------------------------
(* BrokerServe on a few connections, for TLC.                              *)
EXTENDS BrokerServe, TLC
=============================================================================
