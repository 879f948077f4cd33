------------------------------ MODULE MCVivace ------------------------------
(* The Vivace specification on small instances: see MCVivace.cfg. *)
EXTENDS Vivace
=============================================================================
