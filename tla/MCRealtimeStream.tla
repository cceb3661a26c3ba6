-------------------------- MODULE MCRealtimeStream --------------------------
(* Finite instances of RealtimeStream: their constants are literals, given *)
(* in the configurations.                                                  *)
EXTENDS RealtimeStream
=============================================================================
