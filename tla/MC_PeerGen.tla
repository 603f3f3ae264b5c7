------------------------------ MODULE MC_PeerGen ------------------------------
(* The scenario of the spec: four nodes, one miner, one or two peers each; *)
(* and four nodes that must each have exactly two peers, which a 4-cycle   *)
(* satisfies.                                                              *)
EXTENDS PeerGen

MC_N == 4

MC_NumMiners == 1

=============================================================================
