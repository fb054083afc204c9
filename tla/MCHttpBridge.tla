---------------------------- MODULE MCHttpBridge ----------------------------
(* Instances of HttpBridge for TLC. *)
EXTENDS HttpBridge
=============================================================================
