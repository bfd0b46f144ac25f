----------------------------- MODULE MCHABridge -----------------------------
(***************************************************************************)
(* Instances of HABridge: a toy with two motors, on or off.                *)
(***************************************************************************)
EXTENDS HABridge
=============================================================================
