---------------------------- MODULE MCRemoteClient ----------------------------
(* RemoteClient with two interchangeable cameras. *)
EXTENDS RemoteClient, TLC

Symmetry == Permutations(Cameras)
=============================================================================
