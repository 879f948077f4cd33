---------------------------- MODULE MCPccSender ----------------------------
(* The PccSender specification on small instances: see the MCPccSender*.cfg files. *)
EXTENDS PccSender
=============================================================================
