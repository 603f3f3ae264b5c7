---------------------------- MODULE MC_PeerDensity ----------------------------
(* The constants are given by the cfg: eight nodes and an odd target of   *)
(* three, where the expected degree of the density policy is computed.    *)
EXTENDS PeerDensity

=============================================================================
