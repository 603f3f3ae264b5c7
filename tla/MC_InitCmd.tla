------------------------------ MODULE MC_InitCmd ------------------------------
(* The two components of cmd/ethemu/initcmd.go, the "init" command and the *)
(* request tracker, share no state; they are checked in one model in which  *)
(* each one's steps leave the other's variables unchanged.                  *)
(*                                                                          *)
(* "init": three nodes and three runs over two seconds, enough for a run to *)
(* fail half-way and for a later run, in the same second or in the next     *)
(* one, to meet what it left.  Tracker: three requests, a timeout of two    *)
(* ticks and a grace of one, so that a head can be due for its timer and    *)
(* not yet dead, and two timer runs per tick, so that a run that drops      *)
(* nothing can be followed by another one before time moves.                *)
EXTENDS GenesisInit, Tracker

CONSTANTS a, b, c, r1, r2, r3

MC_Node == {a, b, c}

MC_Times == {1, 2}

MC_Id == {r1, r2, r3}

allVars == <<vars, tvars>>

InitCmdInit == TrackerInit /\ Init

InitCmdNext ==
    \/ StartInit /\ UNCHANGED tvars
    \/ \E n \in Node : OpenFails(n) /\ UNCHANGED tvars
    \/ \E n \in Node : SetupGenesis(n) /\ UNCHANGED tvars
    \/ \E n \in Node : GenesisMismatch(n) /\ UNCHANGED tvars
    \/ Finished /\ UNCHANGED tvars
    \/ Tick /\ UNCHANGED vars
    \/ Clean /\ UNCHANGED vars

(* The tracker's fairness (time passes, a due timer runs); "init" is run   *)
(* by an operator and gets none.                                           *)
InitCmdSpec ==
    /\ InitCmdInit /\ [][InitCmdNext]_allVars
    /\ WF_allVars(Tick /\ UNCHANGED vars) /\ WF_allVars(Clean /\ UNCHANGED vars)

=============================================================================
