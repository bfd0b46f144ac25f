-------------------------- MODULE MCServiceRuntime --------------------------
(***************************************************************************)
(* Instances of ServiceRuntime: two accounts of the Socket API, the        *)
(* requests of the control panel, two of them at once.                     *)
(***************************************************************************)
EXTENDS ServiceRuntime

CONSTANTS k1, k2

Posts ==
  {SetLanIp} \cup {SetSocket(c) : c \in Creds}
  \cup {SetBleOptions(TRUE, 2), SetBleOptions(FALSE, 1)}
  \cup {SetTransports(FALSE, TRUE), SetTransports(TRUE, FALSE)}
=============================================================================
