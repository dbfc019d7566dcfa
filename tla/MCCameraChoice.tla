--------------------------- MODULE MCCameraChoice ---------------------------
(* CameraChoice with a few cameras, clicks and faults. *)
EXTENDS CameraChoice
=============================================================================
