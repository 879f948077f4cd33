----------------------------- MODULE MCReceiver -----------------------------
(* The Receiver specification on small instances: see the MCReceiver_*.cfg files. *)
EXTENDS Receiver
=============================================================================
