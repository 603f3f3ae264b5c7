----------------------------- MODULE MC_BenchTxs -----------------------------
(* Three nodes on a line 1 - 2 - 3; three transfers and a target of three, *)
(* so the driver both passes barriers and exits on its counter.            *)
EXTENDS BenchTxs

MC_N == 3

MC_Target == 3

MC_MaxSent == 3

MC_Peer == [n \in 1 .. 3 |-> {m \in 1 .. 3 : m = n - 1 \/ m = n + 1}]

=============================================================================
