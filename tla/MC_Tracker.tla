------------------------------ MODULE MC_Tracker ------------------------------
(* Three requests; a timeout of two ticks and a grace of one, so that a    *)
(* head can be due for its timer and not yet dead; two timer runs per tick *)
(* are allowed, so that a run that drops nothing can be followed by        *)
(* another one before time moves.                                          *)
EXTENDS Tracker

CONSTANTS r1, r2, r3

MC_Id == {r1, r2, r3}

=============================================================================
