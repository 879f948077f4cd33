---------------------------- MODULE MCConnection ----------------------------
(* The Connection specification on small instances: see the MCConnection_*.cfg files. *)
EXTENDS Connection
=============================================================================
