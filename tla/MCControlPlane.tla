---------------------------- MODULE MCControlPlane ----------------------------
(* Small instances of ControlPlane. *)
EXTENDS ControlPlane

CONSTANTS r1, r2, r3, h
=============================================================================
