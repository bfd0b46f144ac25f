---------------------------- MODULE MCAccessGate ----------------------------
(***************************************************************************)
(* Instances of AccessGate.                                                *)
(***************************************************************************)
EXTENDS AccessGate
Own(v)    == v          \* every browser has an address or a name of its own
Shared(v) == 1          \* two tabs of one browser
=============================================================================
