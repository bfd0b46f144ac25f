------------------------- MODULE MCCloudflaredTunnel -------------------------
(* Small instances of CloudflaredTunnel. *)
EXTENDS CloudflaredTunnel, TLC

AnyAsk == [Calls -> {"start", "stop"}]
TunnelSymmetry == Permutations(Calls) \cup Permutations(Processes)
=============================================================================
