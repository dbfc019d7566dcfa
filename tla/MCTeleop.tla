------------------------------ MODULE MCTeleop ------------------------------
(* Teleop in ticks of about 250 ms. *)
EXTENDS Teleop
=============================================================================
