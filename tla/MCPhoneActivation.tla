-------------------------- MODULE MCPhoneActivation --------------------------
(* Small instances of PhoneActivation. *)
EXTENDS PhoneActivation

CONSTANTS a1, p1, typed, first
=============================================================================
