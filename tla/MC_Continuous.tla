----------------------------- MODULE MC_Continuous -----------------------------
(* Three nodes, so that a descriptor can have zero, one or two non-miners  *)
(* and zero to three miners.  One-second blocks with rates 1, 2, 600 and   *)
(* 700 tx per block: equal rates give an empty interval, mintx > maxtx a   *)
(* reversed one that wraps around, and 600 / 700 two different rates whose *)
(* intervals round to the same millisecond.  Width 16 keeps the numbers    *)
(* small: 1000 ms and every difference of two intervals fit in it as in    *)
(* 64 bits.                                                                *)
EXTENDS Continuous

CONSTANTS a, b, c

MC_Node == {a, b, c}

MC_Width == 16

MC_Periods == {1}

MC_Rates == {1, 2, 600, 700}

=============================================================================
