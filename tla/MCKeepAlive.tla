---------------------------- MODULE MCKeepAlive ----------------------------
(* Model values and bounds for KeepAlive: see the configuration. *)
EXTENDS KeepAlive
=============================================================================
