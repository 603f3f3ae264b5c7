---------------------------- MODULE MC_BenchBlocks ----------------------------
(* Three nodes on a line 1 - 2 - 3, so a block sealed at one end needs two *)
(* hops to reach the other and the barrier polls while it travels.         *)
EXTENDS BenchBlocks

MC_N == 3

MC_Target == 3

MC_Peer == [n \in 1 .. 3 |-> {m \in 1 .. 3 : m = n - 1 \/ m = n + 1}]

=============================================================================
