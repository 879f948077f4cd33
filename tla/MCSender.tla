------------------------------ MODULE MCSender ------------------------------
(* The Sender specification on small instances: see the MCSender_*.cfg files. *)
EXTENDS Sender
=============================================================================
